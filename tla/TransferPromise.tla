---------------------------- MODULE TransferPromise ----------------------------
(***************************************************************************)
(* What a client of http_engine may rely on, without sockets, redirects or *)
(* proxies: every Starttransfer is one run that ends at most once, a run   *)
(* that returns has posted exactly one callback carrying the response it   *)
(* was given, and the future then yields that same response; a run that    *)
(* throws posts nothing and leaves an exception in the future.             *)
(*                                                                         *)
(* The callback is posted before the future becomes ready, so it may run   *)
(* on the io_service's thread while getCompletion() still answers false.   *)
(***************************************************************************)

CONSTANTS
  Transfers,   \* the successive calls of Starttransfer
  Responses,   \* the http_response objects the application owns
  None         \* no response

VARIABLES
  phase,       \* phase[t]: "new", "running", "value" or "exception"
  given,       \* given[t]: the response passed to Starttransfer
  result,      \* result[t]: what Status.get() yields for t
  notice       \* notice[t]: "none", "posted" or "delivered"

vars == <<phase, given, result, notice>>

Init ==
  /\ phase  = [t \in Transfers |-> "new"]
  /\ given  = [t \in Transfers |-> None]
  /\ result = [t \in Transfers |-> None]
  /\ notice = [t \in Transfers |-> "none"]

Begin(t, r) ==
  /\ phase[t] = "new"
  /\ \A u \in Transfers : phase[u] # "running"
  /\ phase' = [phase EXCEPT ![t] = "running"]
  /\ given' = [given EXCEPT ![t] = r]
  /\ UNCHANGED <<result, notice>>

Announce(t) ==
  /\ phase[t] = "running"
  /\ notice[t] = "none"
  /\ notice' = [notice EXCEPT ![t] = "posted"]
  /\ UNCHANGED <<phase, given, result>>

Deliver(t) ==
  /\ notice[t] = "posted"
  /\ notice' = [notice EXCEPT ![t] = "delivered"]
  /\ UNCHANGED <<phase, given, result>>

Succeed(t) ==
  /\ phase[t] = "running"
  /\ notice[t] # "none"
  /\ phase'  = [phase EXCEPT ![t] = "value"]
  /\ result' = [result EXCEPT ![t] = given[t]]
  /\ UNCHANGED <<given, notice>>

Fail(t) ==
  /\ phase[t] = "running"
  /\ notice[t] = "none"
  /\ phase' = [phase EXCEPT ![t] = "exception"]
  /\ UNCHANGED <<given, result, notice>>

Next ==
  \E t \in Transfers :
    \/ \E r \in Responses : Begin(t, r)
    \/ Announce(t)
    \/ Deliver(t)
    \/ Succeed(t)
    \/ Fail(t)

Spec == Init /\ [][Next]_vars
================================================================================
