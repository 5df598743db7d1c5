----------------------------- MODULE TransferLoop -----------------------------
(***************************************************************************)
(* The hops of one transfer after another on one engine: send() and        *)
(* receive() in turn until one gives up or succeeds, and the status the    *)
(* response is left with.  HttpEngine implements it with receive() as one  *)
(* step, HttpReceive with receive() byte by byte, so that what HttpEngine  *)
(* takes receive() to do is what HttpReceive shows it doing.               *)
(***************************************************************************)
EXTENDS Naturals

CONSTANT RedirectLimit   \* the literal 5 of receive()

VARIABLES
  stage,       \* "rest", "send", "receive", "body" (its head is stored) or "hung"
  status,      \* of the response in use
  redirtimes

vars == <<stage, status, redirtimes>>

Init == stage = "rest" /\ status = 0 /\ redirtimes = 0

\* Starttransfer, with a response that may hold an earlier status.
Start ==
  /\ stage = "rest" /\ stage' = "send"
  /\ status' \in Nat
  /\ UNCHANGED redirtimes

Reset ==
  /\ stage = "rest" /\ stage' = "rest"
  /\ status' = 0 /\ redirtimes' = 0

\* The connection is made and the request sent.
Send ==
  /\ stage = "send" /\ stage' = "receive"
  /\ UNCHANGED <<status, redirtimes>>

\* send() throws, the server ends the connection, or a read or a write fails.
End ==
  /\ stage \in {"send", "receive", "body"} /\ stage' = "rest"
  /\ UNCHANGED <<status, redirtimes>>

Refused ==
  /\ stage = "receive" /\ stage' = "rest"
  /\ status' >= 400
  /\ UNCHANGED redirtimes

\* The head is stored.  The body may end in the same step.
Accept ==
  /\ stage = "receive" /\ stage' \in {"body", "rest"}
  /\ status' < 300
  /\ UNCHANGED redirtimes

\* Only a redirect that is given up leaves its status behind.
Redirect ==
  /\ stage = "receive"
  /\ redirtimes' = redirtimes + 1
  /\ \/ stage' = "rest" /\ status' \in 300..399
     \/ stage' = "rest" /\ UNCHANGED status
     \/ stage' = "send" /\ redirtimes <= RedirectLimit /\ UNCHANGED status

\* No call has a timeout.
Hang ==
  /\ stage \in {"send", "receive"} /\ stage' = "hung"
  /\ UNCHANGED <<status, redirtimes>>

Next == Start \/ Reset \/ Send \/ End \/ Refused \/ Accept \/ Redirect \/ Hang

Spec == Init /\ [][Next]_vars
===============================================================================
