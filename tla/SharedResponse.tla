---------------------------- MODULE SharedResponse ----------------------------
(***************************************************************************)
(* The fields of one http_response when more than one thread calls its     *)
(* member functions: what each function touches, and what becomes of the   *)
(* lock some of them take.  The statement                                  *)
(*     boost::interprocess::scoped_lock<boost::mutex>(this->TLock);        *)
(* makes a temporary: TLock is released at its semicolon, before the       *)
(* fields are touched.                                                     *)
(*                                                                         *)
(* Who calls what, and when, is for the modules that extend this one.      *)
(***************************************************************************)
EXTENDS Naturals

CONSTANTS
  Threads,   \* the threads that use the response
  Nobody     \* none of them: TLock is free

ASSUME ThreadAssumption == Nobody \notin Threads

VARIABLES
  calls,     \* calls[th]: the member function th is in, and where in it
  TLock      \* the thread that holds the mutex, or Nobody

sharedVars == <<calls, TLock>>

\* flush is http_response_file's: it empties the body when the file has it.
Reads(f) ==
  CASE f = "getVersion"     -> {"version"}
    [] f = "getStatus"      -> {"status"}
    [] f = "getDescription" -> {"description"}
    [] f = "getBodySize"    -> {"body_size"}
    [] f \in {"getBody", "setBody", "flush"} -> {"body"}
    [] f = "getProgress"    -> {"progress"}
    [] f = "getURL"         -> {"url"}
    [] OTHER -> {}

Writes(f) ==
  CASE f = "setVersion"     -> {"version"}
    [] f = "setStatus"      -> {"status"}
    [] f = "setDescription" -> {"description"}
    [] f = "setHeaders"     -> {"headers"}
    [] f = "setBodySize"    -> {"body_size"}
    [] f = "setBody"        -> {"body", "progress"}
    [] f = "flush"          -> {"body"}
    [] f = "setURL"         -> {"url"}
    [] OTHER -> {}

\* The functions whose first statement is the one above.
Locking == {"getBodySize", "setBodySize", "getBody", "setBody", "getProgress", "getURL", "setURL"}

Getters == {"getVersion", "getStatus", "getDescription", "getBodySize", "getBody", "getProgress",
            "getURL"}
Setters == {"setVersion", "setStatus", "setDescription", "setHeaders", "setBodySize", "setBody",
            "flush", "setURL"}

\* at: "first" (before the first statement), "locked" or "inside" (among the fields).
NoCall == [f |-> "none", at |-> "inside"]
Calling(th) == calls[th].f # "none"

SharedInit ==
  /\ calls = [th \in Threads |-> NoCall]
  /\ TLock = Nobody

Enter(th, f) ==
  /\ ~Calling(th)
  /\ calls' = [calls EXCEPT ![th] = [f |-> f, at |-> IF f \in Locking THEN "first" ELSE "inside"]]
  /\ UNCHANGED TLock

LockTemporary(th) ==
  /\ Calling(th) /\ calls[th].at = "first"
  /\ TLock = Nobody /\ TLock' = th
  /\ calls' = [calls EXCEPT ![th].at = "locked"]

\* The destructor of the temporary.
UnlockTemporary(th) ==
  /\ Calling(th) /\ calls[th].at = "locked"
  /\ TLock' = Nobody
  /\ calls' = [calls EXCEPT ![th].at = "inside"]

Leave(th) ==
  /\ Calling(th) /\ calls[th].at = "inside"
  /\ calls' = [calls EXCEPT ![th] = NoCall]
  /\ UNCHANGED TLock

Inside(th) == Calling(th) /\ calls[th].at = "inside"

\* Two threads are among the same fields and one of them writes.
Race(a, b) ==
  /\ Inside(a) /\ Inside(b)
  /\ Writes(calls[a].f) \cap (Reads(calls[b].f) \cup Writes(calls[b].f)) # {}

SharedTypeOK ==
  /\ calls \in [Threads -> [f : Getters \cup Setters \cup {"none"}, at : {"first", "locked", "inside"}]]
  /\ TLock \in Threads \cup {Nobody}
  /\ \A th \in Threads : TLock = th <=> Calling(th) /\ calls[th].at = "locked"
===============================================================================
