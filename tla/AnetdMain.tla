------------------------------- MODULE AnetdMain -------------------------------
(***************************************************************************)
(* The program example/anetd.cpp: main() starts one transfer, runs the     *)
(* io_service that the printer's timer keeps busy for Ticks + 1 seconds,   *)
(* waits for the future, prints what the response says and destroys its    *)
(* locals.  The transfer is TransferPromise, which HttpEngine implements;  *)
(* between its steps the worker calls member functions of the response,    *)
(* as send() and receive() do.                                             *)
(*                                                                         *)
(* A definition whose name ends in Bug is a plausible mistake in the code  *)
(* its unsuffixed twin models; no specification uses it.                   *)
(***************************************************************************)
EXTENDS SharedResponse, Sequences

CONSTANTS
  Ticks,       \* the literal 20 of print1()
  Transfer,    \* its one call of Starttransfer
  Response     \* its one http_response_file

ASSUME MainAssumption ==
  /\ Threads = {"main", "worker"}
  /\ Ticks \in Nat \ {0}
  /\ Response # Nobody

VARIABLES
  main,        \* where main() is: see Places
  armed,       \* the printer's timer is running or its handler is queued
  count,       \* printer::count_
  alive,       \* main()'s locals, in the order of their destruction
  watching,    \* constant: print1() also calls a getter documented as ThreadSafe,
               \* as http_response.hpp suggests for progress; the program does not
  late,        \* history: the handler was posted after the last tick
  phase, given, result, notice   \* of TransferPromise

promiseVars == <<phase, given, result, notice>>
mainVars == <<main, armed, count, alive, watching, late>>
vars == <<mainVars, promiseVars, sharedVars>>

Promise == INSTANCE TransferPromise
             WITH Transfers <- {Transfer}, Responses <- {Response}, None <- Nobody

Places == {"setup", "run", "watch", "print1", "callback", "wait", "status", "description",
           "unwind", "exited", "terminated"}
InRun == main \in {"run", "watch", "print1", "callback"}

\* main() declares io, p, transmitter_block and response, in this order.
Locals == <<"response", "engine", "printer", "io">>

ThreadSafe == {"getVersion", "getBodySize", "getBody", "getProgress", "getURL"}

\* The constructor of printer has armed the timer.
Init ==
  /\ main = "setup" /\ armed = TRUE /\ count = 0 /\ alive = Locals
  /\ watching \in BOOLEAN /\ late = FALSE
  /\ Promise!Init
  /\ SharedInit

-------------------------------------------------------------------------------
(* The worker.                                                             *)

Running == phase[Transfer] = "running"

\* connect() calls send() and receive() before it posts the callback, never after.
MayTouchBug == Running
MayTouch == Running /\ notice[Transfer] = "none"

WorkerCalls ==
  /\ MayTouch
  /\ \E f \in (Getters \cup Setters) \ {"getVersion", "getDescription", "getProgress"} :
       Enter("worker", f)
  /\ UNCHANGED <<mainVars, promiseVars>>

WorkerInCall ==
  /\ LockTemporary("worker") \/ UnlockTemporary("worker") \/ Leave("worker")
  /\ UNCHANGED <<mainVars, promiseVars>>

WorkerPosts ==
  /\ ~Calling("worker")
  /\ Promise!Announce(Transfer)
  /\ late' = (count = Ticks)
  /\ UNCHANGED <<main, armed, count, alive, watching, sharedVars>>

WorkerEnds ==
  /\ ~Calling("worker")
  /\ Promise!Succeed(Transfer) \/ Promise!Fail(Transfer)
  /\ UNCHANGED <<mainVars, sharedVars>>

-------------------------------------------------------------------------------
(* main().                                                                 *)

Goes(place) == main' = place

Starttransfer ==
  /\ main = "setup" /\ Goes("run")
  /\ Promise!Begin(Transfer, Response)
  /\ UNCHANGED <<armed, count, alive, watching, late, sharedVars>>

\* io.run() takes one handler at a time, the timer's or the engine's.
TimerExpires ==
  /\ main = "run" /\ Goes(IF watching THEN "watch" ELSE "print1")
  /\ armed /\ armed' = FALSE
  /\ UNCHANGED <<count, alive, watching, late, promiseVars, sharedVars>>

KeepsTickingBug(n) == n + 1 < Ticks
KeepsCountingBug(n) == n <= Ticks
KeepsTicking(n) == n < Ticks
NextCountBug(n) == n
NextCount(n) == n + 1
Print1 ==
  /\ main = "print1" /\ Goes("run")
  /\ armed' = KeepsTicking(count)
  /\ count' = IF KeepsTicking(count) THEN NextCount(count) ELSE count
  /\ UNCHANGED <<alive, watching, late, promiseVars, sharedVars>>

\* http_engine::callback, for which main() has set HTTPCallback.
RunCallback ==
  /\ main = "run" /\ Goes("callback")
  /\ Promise!Deliver(Transfer)
  /\ UNCHANGED <<armed, count, alive, watching, late, sharedVars>>

\* The getters called where main() is: by HTTPCallback, by the two lines that
\* print, and by a print1() that watches.
CallsHere ==
  CASE main \in {"callback", "status"} -> {"getStatus"}
    [] main = "description" -> {"getDescription"}
    [] main = "watch" -> ThreadSafe
    [] OTHER -> {}

MainCalls ==
  /\ \E f \in CallsHere : Enter("main", f)
  /\ UNCHANGED <<mainVars, promiseVars>>

MainInCall ==
  /\ LockTemporary("main") \/ UnlockTemporary("main")
  /\ UNCHANGED <<mainVars, promiseVars>>

AfterCall ==
  CASE main = "watch"       -> "print1"
    [] main = "callback"    -> "run"
    [] main = "status"      -> "description"
    [] main = "description" -> "unwind"
    [] OTHER                -> main

MainReturns ==
  /\ Leave("main")
  /\ Goes(AfterCall)
  /\ UNCHANGED <<armed, count, alive, watching, late, promiseVars>>

\* io.run() returns when it has nothing queued and nothing to wait for.
RunReturns ==
  /\ main = "run" /\ Goes("wait")
  /\ ~armed /\ notice[Transfer] # "posted"
  /\ UNCHANGED <<armed, count, alive, watching, late, promiseVars, sharedVars>>

\* Status.wait() returns; then get() yields the response, or throws what the worker
\* threw, which nothing in main() catches.
FutureReadyBug == phase[Transfer] \in {"value", "exception"} \/ notice[Transfer] # "none"
FutureReady == phase[Transfer] \in {"value", "exception"}
WaitReturns ==
  /\ main = "wait" /\ FutureReady
  /\ Goes(IF phase[Transfer] = "exception" THEN "terminated" ELSE "status")
  /\ UNCHANGED <<armed, count, alive, watching, late, promiseVars, sharedVars>>

\* return 0: one destructor after the other.
Unwind ==
  /\ main = "unwind"
  /\ alive' = Tail(alive)
  /\ Goes(IF Tail(alive) = << >> THEN "exited" ELSE "unwind")
  /\ UNCHANGED <<armed, count, watching, late, promiseVars, sharedVars>>

Ended == main \in {"exited", "terminated"}

\* The process is over.
Finished == Ended /\ UNCHANGED vars

-------------------------------------------------------------------------------

Worker == WorkerCalls \/ WorkerInCall \/ WorkerPosts \/ WorkerEnds
Main ==
  \/ Starttransfer \/ TimerExpires \/ Print1 \/ RunCallback
  \/ MainCalls \/ MainInCall \/ MainReturns
  \/ RunReturns \/ WaitReturns \/ Unwind

Next ==
  \/ ~Ended /\ (Worker \/ Main)
  \/ Finished

Spec == Init /\ [][Next]_vars

\* The main thread is scheduled and its timer expires.  A worker inside a member
\* function comes out of it; how long the transfer takes is up to the server.
FairSpec == Spec /\ WF_vars(~Ended /\ Main) /\ WF_vars(~Ended /\ WorkerInCall)

-------------------------------------------------------------------------------
(* Properties.                                                             *)

\* Every variable stays in its range.
TypeOK ==
  /\ main \in Places
  /\ {armed, watching, late} \subseteq BOOLEAN
  /\ count \in 0..Ticks
  /\ alive \in {SubSeq(Locals, i, Len(Locals)) : i \in 1..(Len(Locals) + 1)}
  /\ phase \in [{Transfer} -> {"new", "running", "value", "exception"}]
  /\ given \in [{Transfer} -> {Response, Nobody}]
  /\ result \in [{Transfer} -> {Response, Nobody}]
  /\ notice \in [{Transfer} -> {"none", "posted", "delivered"}]
  /\ SharedTypeOK

\* The program needs no lock: HTTPCallback and main() read the response when the
\* worker has done its last write, and only then.  Only a print1() that watches
\* meets the worker among the fields.
RaceFree == Race("worker", "main") \/ Race("main", "worker") => main = "watch"

\* As long as the worker runs, nothing it holds a pointer to is destroyed: the
\* response, the engine whose member connect() is, and the io_service it posts to.
WorkerOutlived == Running => alive = Locals

\* A transfer that succeeded has its callback run before main() ends, unless it
\* outlasted the printer, whose timer is all that keeps io.run() from returning.
CallbackLostOnlyLate ==
  ~InRun /\ phase[Transfer] = "value" /\ notice[Transfer] # "delivered" => late

\* main() ends when the transfer has, whether the callback was run or not.
MainEnds == phase[Transfer] \in {"value", "exception"} ~> Ended

-------------------------------------------------------------------------------
(* What the documentation says and the code does not do.                   *)

\* http_response.hpp:132, of getProgress, and in the same words of four other
\* getters: "Calling this function anytime during the transfer is ThreadSafe".
ThreadSafeReads ==
  calls["main"].f \in ThreadSafe => ~Race("worker", "main")
===============================================================================
