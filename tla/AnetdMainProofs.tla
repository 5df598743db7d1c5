---------------------------- MODULE AnetdMainProofs ----------------------------
(***************************************************************************)
(* Theorems about AnetdMain, for any number of ticks.                      *)
(*                                                                         *)
(* What main() may do depends on where the worker is, and it learns that   *)
(* from the future and the handler alone.  Order ties the three together:  *)
(* which places of main() which phases and notices go with, and that the   *)
(* timer stops only after the last tick.                                   *)
(***************************************************************************)
EXTENDS AnetdMain, TLAPS

\* The places where main() waits for nothing more.
Past == {"wait", "status", "description", "unwind", "exited", "terminated"}

PhaseOrder ==
  /\ phase[Transfer] = "new" <=> main = "setup"
  /\ main \in {"status", "description", "unwind", "exited"} => phase[Transfer] = "value"
  /\ main = "callback" => notice[Transfer] = "delivered"
  /\ notice[Transfer] # "none" => phase[Transfer] \in {"running", "value"}
  /\ phase[Transfer] = "value" => notice[Transfer] # "none"

CallOrder ==
  /\ Calling("worker") => MayTouch
  /\ Calling("main") => main \in {"watch", "callback", "status", "description"}

TimerOrder ==
  /\ main \in Past => ~armed
  /\ ~armed /\ main \notin {"watch", "print1"} => count = Ticks
  /\ main \in Past /\ notice[Transfer] = "posted" => late

AliveOrder == main \notin {"unwind", "exited"} => alive = Locals

\* The part of the type invariant the steps rely on.
Typed ==
  /\ main \in Places /\ armed \in BOOLEAN /\ count \in 0..Ticks
  /\ phase \in [{Transfer} -> {"new", "running", "value", "exception"}]
  /\ notice \in [{Transfer} -> {"none", "posted", "delivered"}]
  /\ calls \in [Threads -> [f : Getters \cup Setters \cup {"none"},
                            at : {"first", "locked", "inside"}]]

Order == Typed /\ PhaseOrder /\ CallOrder /\ TimerOrder /\ AliveOrder

-------------------------------------------------------------------------------

\* Before Starttransfer there is nothing to be out of order.
LEMMA OrderInit == Init => Order
<1> SUFFICES ASSUME Init PROVE Order
  OBVIOUS
<1> USE MainAssumption DEF Init, Promise!Init, SharedInit
<1>1. Typed
  BY DEF Typed, Places, NoCall
<1>2. PhaseOrder /\ AliveOrder
  BY DEF PhaseOrder, AliveOrder
<1>3. CallOrder
  BY DEF CallOrder, Calling, NoCall
<1>4. TimerOrder
  BY DEF TimerOrder, Past
<1> QED
  BY <1>1, <1>2, <1>3, <1>4 DEF Order

\* A step inside a member function moves nobody: it neither starts a call nor
\* turns one into another.
LEMMA InCallStep ==
  ASSUME Typed, NEW th \in Threads,
         LockTemporary(th) \/ UnlockTemporary(th) \/ Leave(th)
  PROVE  /\ calls' \in [Threads -> [f : Getters \cup Setters \cup {"none"},
                                    at : {"first", "locked", "inside"}]]
         /\ \A u \in Threads : Calling(u)' => Calling(u)
  BY DEF Typed, LockTemporary, UnlockTemporary, Leave, Calling, NoCall

\* Entering a member function is one thread's business.
LEMMA EnterStep ==
  ASSUME Typed, NEW th \in Threads, NEW f \in Getters \cup Setters, Enter(th, f)
  PROVE  /\ calls' \in [Threads -> [f : Getters \cup Setters \cup {"none"},
                                    at : {"first", "locked", "inside"}]]
         /\ \A u \in Threads : Calling(u)' => Calling(u) \/ u = th
  BY DEF Typed, Enter, Calling

\* Every step keeps the order.
LEMMA OrderStep == Order /\ [Next]_vars => Order'
<1> SUFFICES ASSUME Order, [Next]_vars PROVE Order'
  OBVIOUS
<1> USE MainAssumption
<1>0. "main" \in Threads /\ "worker" \in Threads
  OBVIOUS
<1>1. ASSUME UNCHANGED <<mainVars, promiseVars>>, Typed', CallOrder' PROVE Order'
  BY <1>1 DEF Order, PhaseOrder, TimerOrder, AliveOrder, mainVars, promiseVars
<1>2. CASE WorkerCalls
  <2>1. PICK f \in Getters \cup Setters : Enter("worker", f)
    BY <1>2 DEF WorkerCalls
  <2>2. Typed' /\ CallOrder'
    BY <1>0, <1>2, <2>1, EnterStep
    DEF WorkerCalls, Order, Typed, CallOrder, MayTouch, Running, mainVars, promiseVars
  <2> QED
    BY <1>1, <1>2, <2>2 DEF WorkerCalls
<1>3. CASE WorkerInCall \/ MainInCall
  <2>1. PICK th \in Threads : LockTemporary(th) \/ UnlockTemporary(th) \/ Leave(th)
    BY <1>0, <1>3 DEF WorkerInCall, MainInCall
  <2>2. Typed' /\ CallOrder'
    BY <1>0, <1>3, <2>1, InCallStep
    DEF WorkerInCall, MainInCall, Order, Typed, CallOrder, MayTouch, Running, mainVars, promiseVars
  <2> QED
    BY <1>1, <1>3, <2>2 DEF WorkerInCall, MainInCall
<1>4. CASE WorkerPosts
  BY <1>4 DEF WorkerPosts, Promise!Announce, Order, Typed, PhaseOrder, CallOrder, TimerOrder,
              AliveOrder, Calling, MayTouch, Running, sharedVars, Past
<1>5. CASE WorkerEnds
  BY <1>5 DEF WorkerEnds, Promise!Succeed, Promise!Fail, Order, Typed, PhaseOrder, CallOrder,
              TimerOrder, AliveOrder, Calling, mainVars, sharedVars, Past
<1>6. CASE Starttransfer
  BY <1>6 DEF Starttransfer, Goes, Promise!Begin, Order, Typed, Places, PhaseOrder, CallOrder,
              TimerOrder, AliveOrder, Calling, MayTouch, Running, sharedVars, Past
<1>7. CASE TimerExpires
  BY <1>7 DEF TimerExpires, Goes, Order, Typed, Places, PhaseOrder, CallOrder, TimerOrder,
              AliveOrder, Calling, MayTouch, Running, promiseVars, sharedVars, Past
<1>8. CASE Print1
  <2>1. count < Ticks \/ count = Ticks
    BY DEF Order, Typed
  <2>2. CASE count < Ticks
    <3>0. KeepsTicking(count) = TRUE
      BY <2>2 DEF KeepsTicking
    <3>1. armed' = TRUE /\ count' = count + 1
      BY <1>8, <3>0, Zenon DEF Print1, NextCount
    <3>2. count' \in 0..Ticks
      BY <2>2, <3>1 DEF Order, Typed
    <3> QED
      BY <1>8, <3>1, <3>2 DEF Print1, Goes, Order, Typed, Places, PhaseOrder, CallOrder, TimerOrder,
              AliveOrder, Calling, MayTouch, Running, promiseVars, sharedVars, Past
  <2>3. CASE count = Ticks
    <3>0. KeepsTicking(count) = FALSE
      BY <2>3 DEF KeepsTicking
    <3>1. armed' = FALSE /\ count' = Ticks
      BY <1>8, <2>3, <3>0, Zenon DEF Print1
    <3> QED
      BY <1>8, <2>3, <3>1 DEF Print1, Goes, Order, Typed, Places, PhaseOrder, CallOrder,
              TimerOrder, AliveOrder, Calling, MayTouch, Running, promiseVars, sharedVars, Past
  <2> QED
    BY <2>1, <2>2, <2>3
<1>9. CASE RunCallback
  BY <1>9 DEF RunCallback, Goes, Promise!Deliver, Order, Typed, Places, PhaseOrder, CallOrder,
              TimerOrder, AliveOrder, Calling, MayTouch, Running, sharedVars, Past
<1>10. CASE MainCalls
  <2>1. PICK f \in Getters \cup Setters :
          Enter("main", f) /\ main \in {"watch", "callback", "status", "description"}
    BY <1>10 DEF MainCalls, CallsHere, ThreadSafe, Getters
  <2>2. Typed' /\ CallOrder'
    BY <1>0, <1>10, <2>1, EnterStep
    DEF MainCalls, Order, Typed, CallOrder, MayTouch, Running, mainVars, promiseVars
  <2> QED
    BY <1>1, <1>10, <2>2 DEF MainCalls
<1>11. CASE MainReturns
  <2>1. Calling("main") /\ ~Calling("main")'
    BY <1>0, <1>11 DEF MainReturns, Leave, Calling, NoCall, Order, Typed
  <2>2. main \in {"watch", "callback", "status", "description"} /\ main' = AfterCall
    BY <1>11, <2>1 DEF MainReturns, Goes, Order, CallOrder
  <2>3. \/ main = "watch" /\ main' = "print1"
        \/ main = "callback" /\ main' = "run"
        \/ main = "status" /\ main' = "description"
        \/ main = "description" /\ main' = "unwind"
    BY <2>2 DEF AfterCall
  <2>4. /\ UNCHANGED <<armed, count, alive, late, phase, notice>>
        /\ calls' \in [Threads -> [f : Getters \cup Setters \cup {"none"},
                                   at : {"first", "locked", "inside"}]]
        /\ Calling("worker")' => Calling("worker")
    BY <1>0, <1>11, InCallStep DEF MainReturns, promiseVars, Order
  <2> QED
    BY <2>1, <2>3, <2>4
    DEF Order, Typed, Places, PhaseOrder, CallOrder, MayTouch, Running, TimerOrder, AliveOrder, Past
<1>12. CASE RunReturns
  BY <1>12 DEF RunReturns, Goes, Order, Typed, Places, PhaseOrder, CallOrder, TimerOrder,
               AliveOrder, Calling, MayTouch, Running, promiseVars, sharedVars, Past
<1>13. CASE WaitReturns
  BY <1>13 DEF WaitReturns, FutureReady, Goes, Order, Typed, Places, PhaseOrder, CallOrder,
               TimerOrder, AliveOrder, Calling, MayTouch, Running, promiseVars, sharedVars, Past
<1>14. CASE Unwind
  BY <1>14 DEF Unwind, Goes, Order, Typed, Places, PhaseOrder, CallOrder, TimerOrder,
               AliveOrder, Calling, MayTouch, Running, promiseVars, sharedVars, Past
<1>15. CASE UNCHANGED vars
  BY <1>15 DEF vars, mainVars, promiseVars, sharedVars, Order, Typed, PhaseOrder, CallOrder,
               TimerOrder, AliveOrder, Calling, MayTouch, Running
<1> QED
  BY <1>2, <1>3, <1>4, <1>5, <1>6, <1>7, <1>8, <1>9, <1>10, <1>11, <1>12, <1>13, <1>14, <1>15
  DEF Next, Worker, Main, Finished

\* The order holds throughout.
THEOREM OrderAlways == Spec => []Order
BY OrderInit, OrderStep, PTL DEF Spec

-------------------------------------------------------------------------------

\* HTTPCallback and main() read the response only when the worker has done its last
\* write: no lock is needed, unless print1() watches.
THEOREM NoRaces == Spec => []RaceFree
<1>1. ASSUME Order PROVE RaceFree
  BY <1>1 DEF Order, PhaseOrder, CallOrder, MayTouch, Running, RaceFree, Race, Inside
<1> QED
  BY <1>1, OrderAlways, PTL

\* Nothing the worker points to is destroyed before it ends.
THEOREM WorkerNeverOrphaned == Spec => []WorkerOutlived
<1>1. ASSUME Order PROVE WorkerOutlived
  BY <1>1 DEF Order, PhaseOrder, AliveOrder, WorkerOutlived, Running
<1> QED
  BY <1>1, OrderAlways, PTL

\* Only a transfer that outlasts the printer loses its callback.
THEOREM CallbackRuns == Spec => []CallbackLostOnlyLate
<1>1. ASSUME Order PROVE CallbackLostOnlyLate
  BY <1>1 DEF Order, Typed, Places, PhaseOrder, TimerOrder, CallbackLostOnlyLate, InRun, Past
<1> QED
  BY <1>1, OrderAlways, PTL

-------------------------------------------------------------------------------

\* Unwinding has something left to destroy.
Unwinding == main = "unwind" => alive # << >>

\* One destructor takes the first of what is left.
LEMMA DestructorStep ==
  ASSUME NEW i \in 1..5
  PROVE  /\ SubSeq(Locals, i, Len(Locals)) # << >> => i \in 1..4
         /\ i \in 1..4 => Tail(SubSeq(Locals, i, Len(Locals))) = SubSeq(Locals, i + 1, Len(Locals))
<1>0. Len(Locals) = 4 /\ SubSeq(Locals, 5, 4) = << >>
  BY DEF Locals
<1>1. Tail(SubSeq(Locals, 1, 4)) = SubSeq(Locals, 2, 4)
  BY DEF Locals
<1>2. Tail(SubSeq(Locals, 2, 4)) = SubSeq(Locals, 3, 4)
  BY DEF Locals
<1>3. Tail(SubSeq(Locals, 3, 4)) = SubSeq(Locals, 4, 4)
  BY DEF Locals
<1>4. Tail(SubSeq(Locals, 4, 4)) = SubSeq(Locals, 5, 4)
  BY DEF Locals
<1> QED
  BY <1>0, <1>1, <1>2, <1>3, <1>4

\* main() starts with all its locals and a free lock.
LEMMA TypeInit == Init => TypeOK /\ Unwinding
<1> SUFFICES ASSUME Init PROVE TypeOK /\ Unwinding
  OBVIOUS
<1> USE MainAssumption DEF Init, Promise!Init
<1>1. Typed
  BY OrderInit DEF Order
<1>2. alive \in {SubSeq(Locals, i, Len(Locals)) : i \in 1..(Len(Locals) + 1)}
  BY DEF Locals
<1>3. SharedTypeOK
  BY <1>1, ThreadAssumption DEF SharedInit, SharedTypeOK, NoCall, Typed, Calling
<1>4. given \in [{Transfer} -> {Response, Nobody}] /\ result \in [{Transfer} -> {Response, Nobody}]
  OBVIOUS
<1> QED
  BY <1>1, <1>2, <1>3, <1>4 DEF TypeOK, Typed, Unwinding

\* The lock is held by the thread that is between its two statements, and no other.
LEMMA LockStep == Order /\ TypeOK /\ [Next]_vars => SharedTypeOK'
<1> SUFFICES ASSUME Order, TypeOK, [Next]_vars PROVE SharedTypeOK'
  OBVIOUS
<1> USE MainAssumption, ThreadAssumption DEF TypeOK, SharedTypeOK
<1>0. "main" \in Threads /\ "worker" \in Threads
  OBVIOUS
<1>1. ASSUME NEW th \in Threads, NEW f \in Getters \cup Setters, Enter(th, f) PROVE SharedTypeOK'
  BY <1>1 DEF Enter, Calling
<1>2. ASSUME NEW th \in Threads, LockTemporary(th) \/ UnlockTemporary(th) \/ Leave(th)
      PROVE SharedTypeOK'
  BY <1>2 DEF LockTemporary, UnlockTemporary, Leave, Calling, NoCall
<1>3. ASSUME UNCHANGED sharedVars PROVE SharedTypeOK'
  BY <1>3 DEF sharedVars, Calling
<1>4. CASE WorkerCalls
  BY <1>0, <1>1, <1>4 DEF WorkerCalls
<1>5. CASE MainCalls
  BY <1>0, <1>1, <1>5 DEF MainCalls, CallsHere, ThreadSafe, Getters
<1>6. CASE WorkerInCall \/ MainInCall \/ MainReturns
  BY <1>0, <1>2, <1>6 DEF WorkerInCall, MainInCall, MainReturns
<1> QED
  BY <1>3, <1>4, <1>5, <1>6
  DEF Next, Worker, Main, Finished, vars, WorkerPosts, WorkerEnds, Starttransfer, TimerExpires,
      Print1, RunCallback, RunReturns, WaitReturns, Unwind

\* Every step keeps the type.
LEMMA TypeStep == Order /\ TypeOK /\ Unwinding /\ [Next]_vars => TypeOK' /\ Unwinding'
<1> SUFFICES ASSUME Order, TypeOK, Unwinding, [Next]_vars PROVE TypeOK' /\ Unwinding'
  OBVIOUS
<1> USE MainAssumption
<1>1. Order' /\ SharedTypeOK'
  BY OrderStep, LockStep
<1>2. alive' \in {SubSeq(Locals, i, Len(Locals)) : i \in 1..(Len(Locals) + 1)} /\ Unwinding'
  <2>1. CASE Unwind
    <3>1. PICK i \in 1..5 : alive = SubSeq(Locals, i, Len(Locals))
      BY DEF TypeOK, Locals
    <3>2. i \in 1..4 /\ alive' = SubSeq(Locals, i + 1, Len(Locals))
      BY <2>1, <3>1, DestructorStep DEF Unwind, Unwinding
    <3>3. Len(Locals) = 4
      BY DEF Locals
    <3>4. Unwinding'
      BY <2>1 DEF Unwind, Goes, Unwinding
    <3> QED
      BY <3>2, <3>3, <3>4
  <2>2. CASE UNCHANGED alive /\ main' # "unwind"
    BY <2>2 DEF TypeOK, Unwinding
  <2>3. CASE MainReturns
    <3>1. alive' = alive /\ main # "unwind"
      BY <2>3 DEF MainReturns, Leave, Order, CallOrder
    <3>2. alive = Locals /\ Locals # << >>
      BY <3>1, <1>1, <2>3 DEF Order, AliveOrder, MainReturns, Leave, CallOrder, Locals
    <3> QED
      BY <3>1, <3>2 DEF TypeOK, Unwinding
  <2>4. CASE UNCHANGED <<main, alive>>
    BY <2>4 DEF TypeOK, Unwinding
  <2> QED
    BY <2>1, <2>2, <2>3, <2>4
    DEF Next, Worker, Main, Finished, vars, mainVars, WorkerCalls, WorkerInCall, WorkerPosts,
        WorkerEnds, Starttransfer, TimerExpires, Print1, RunCallback, MainCalls, MainInCall,
        RunReturns, WaitReturns, Goes
<1>3. watching' \in BOOLEAN /\ late' \in BOOLEAN
  BY DEF TypeOK, Next, Worker, Main, Finished, vars, mainVars, WorkerCalls, WorkerInCall, WorkerPosts,
        WorkerEnds, Starttransfer, TimerExpires, Print1, RunCallback, MainCalls, MainInCall,
        MainReturns, RunReturns, WaitReturns, Unwind
<1>4. /\ given' \in [{Transfer} -> {Response, Nobody}]
      /\ result' \in [{Transfer} -> {Response, Nobody}]
  BY DEF TypeOK, Next, Worker, Main, Finished, vars, promiseVars, WorkerCalls, WorkerInCall,
        WorkerPosts, WorkerEnds, Starttransfer, TimerExpires, Print1, RunCallback, MainCalls,
        MainInCall, MainReturns, RunReturns, WaitReturns, Unwind, Promise!Begin, Promise!Announce,
        Promise!Deliver, Promise!Succeed, Promise!Fail
<1> QED
  BY <1>1, <1>2, <1>3, <1>4 DEF TypeOK, Order, Typed

\* Type correctness of the program and of the lock its response takes.
THEOREM AnetdTypeCorrect == Spec => []TypeOK
BY TypeInit, OrderInit, OrderStep, TypeStep, PTL DEF Spec
===============================================================================
