---------------------------- MODULE MCHttpReceive ----------------------------
(* HttpReceive with a handful of messages. *)
EXTENDS HttpReceive, TLC

MCNumeral == "200" :> 200 @@ "302" :> 302 @@ "404" :> 404 @@ "0" :> 0 @@ "1" :> 1 @@ "2" :> 2 @@ "3" :> 3

Answer(code, fields, text) ==
  [version |-> <<"HTTP/1.0">>, status |-> <<code>>, description |-> <<"O", "K">>,
   headers |-> fields, body |-> text]

Sized(n)   == <<ContentLength, <<n>>, TRUE>>
Moved      == <<Location, <<"b">>, TRUE>>
Cookie(v)  == <<<<"Set-Cookie">>, <<v>>, TRUE>>
Packed     == <<<<"Server">>, <<"x">>, FALSE>>

Plain      == Answer("200", << >>, <<"p", "q", "LF">>)
Counted    == Answer("200", <<Sized("2"), Cookie("v"), Cookie("w")>>, <<"x", "SP">>)
Empty      == Answer("200", <<Cookie("w"), Sized("0")>>, << >>)
Elsewhere  == Answer("302", <<Cookie("v"), Moved>>, <<"m">>)
Nowhere    == Answer("302", << >>, << >>)
Missing    == Answer("404", <<Sized("1")>>, <<"n">>)
Unspaced   == Answer("200", <<Packed, Sized("1")>>, <<"x">>)
Uncounted  == Answer("200", <<<<ContentLength, <<"many">>, TRUE>>, Cookie("v")>>, <<"x">>)
Surplus    == Answer("200", <<Sized("1")>>, <<"x", "y">>)
Short      == Answer("200", <<Sized("3")>>, <<"x">>)
NoReason   == [Answer("200", << >>, <<"x">>) EXCEPT !.status = <<"200", "CR">>]

\* Who may be at the other end, in each run.
Peers(messages, secure, endings) ==
  [message : messages, tls : {secure}, ending : endings]

Servers ==
  Peers({Plain, Counted, Empty, Elsewhere, Nowhere, Missing}, FALSE, {"fin"})
    \cup Peers({Plain, Counted}, FALSE, {"rst"})
    \cup Peers({Uncounted, NoReason, Surplus, Short, Unspaced}, TRUE, {"fin"})
    \cup Peers({Plain, Elsewhere}, TRUE, {"tlserror"})
Few         == Peers({Plain, Elsewhere, Uncounted}, FALSE, {"fin"})
OnlyCounted == Peers({Counted}, TRUE, {"tlserror"})
===============================================================================
