---------------------------- MODULE MCRequestText ----------------------------
(* RequestText with credentials around the width of a line of base64. *)
EXTENDS RequestText

MCURLs ==
  {[scheme |-> "http",  host |-> "a", port |-> None,   path |-> << >>,          query |-> << >>],
   [scheme |-> "http",  host |-> "b", port |-> "8080", path |-> <<"/", "dir">>, query |-> <<"?", "x">>],
   [scheme |-> "https", host |-> "c", port |-> None,   path |-> <<"/", "dir">>, query |-> << >>]}

Bytes(n) == [i \in 1..n |-> (37 * i) % 256]
MCCredentials ==
  {[user |-> Bytes(l[1]), password |-> Bytes(l[2])] :
     l \in {<<0, 1>>, <<1, 0>>, <<1, 1>>, <<2, 51>>, <<3, 51>>}}

OnlyHTTPS == [s \in {"http", "https"} |-> IF s = "https" THEN "p" ELSE None]
===============================================================================
