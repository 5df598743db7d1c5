--------------------------- MODULE HttpEngineProofs ---------------------------
(***************************************************************************)
(* Theorems about HttpEngine, for any number of transfers, responses,      *)
(* hosts, endpoints and redirects.                                         *)
(*                                                                         *)
(* Everything rests on one invariant, Discipline: the worker in the engine *)
(* is the one Status belongs to, so whoever finds the engine Idle is alone *)
(* with it.  TypeOK is not inductive without it, because a worker uses     *)
(* this->response, which is None until the first Starttransfer.            *)
(***************************************************************************)
EXTENDS HttpEngine, TLAPS

\* The worker in the engine is the one whose future is in Status, and it uses
\* the response Starttransfer was given.
Owner ==
  \A t \in Transfers :
    Active(t) => Status = t /\ response = given[t] /\ given[t] \in Responses

\* A future becomes ready exactly when its thread ends.
FutureReady == \A t \in Transfers : future[t] # "pending" <=> pc[t] = "done"

\* Inside the loop of send() there is a current endpoint.
Trying == {"connect", "tunnel", "handshake"}
EndpointLeft == \A t \in Transfers : pc[t] \in Trying => left[t] >= 1

Discipline == TypeOK /\ Owner /\ FutureReady /\ EndpointLeft

-------------------------------------------------------------------------------
(* Who is in the engine.                                                   *)

\* An application that finds the engine Idle finds no worker in it.
LEMMA IdleMeansAlone ==
  ASSUME Discipline, Idle
  PROVE  \A t \in Transfers : ~Active(t)
BY EngineAssumption DEF Discipline, Owner, FutureReady, Idle, GetCompletion, Active

\* A worker works on a response the application owns.
LEMMA WorkerHasResponse ==
  ASSUME Discipline, NEW t \in Transfers, Active(t)
  PROVE  response \in Responses
BY DEF Discipline, Owner

\* What a step of a worker leaves alone, and how it moves the thread.
LEMMA WorkerMoves ==
  ASSUME Discipline, NEW t \in Transfers, Worker(t) \/ Hang(t)
  PROVE  /\ Active(t)
         /\ UNCHANGED <<Status, response, given, callbackSet>>
         /\ \/ UNCHANGED <<pc, future>>
            \/ \E x \in PCs \ {"new", "done"} : pc' = [pc EXCEPT ![t] = x] /\ UNCHANGED future
            \/ \E f \in {"value", "exception"} :
                 pc' = [pc EXCEPT ![t] = "done"] /\ future' = [future EXCEPT ![t] = f]
<1>1. CASE Hang(t)
  BY <1>1 DEF Hang, Goes, Active, PCs, engineVars, histVars
<1>2. CASE Worker(t)
  BY <1>2 DEF Worker, ParseUnmatchedURL, ParseUnmatchedProxy, ParseURL, Resolve, ConnectFails,
     ConnectSucceeds, AfterConnect, TunnelRefused, Tunnel, Handshake, Request, ReceiveEndsEarly,
     ReceiveThrows, ReceiveFatalStatus, ReceiveBody, ReceiveRedirect, TooManyRedirects,
     RedirectWithoutLocation, FollowRedirect, Post, Posted, Return, MayReturn, EndpointUsed,
     NextEndpoint, Goes, Throws, Active, PCs, engineVars, threadVars, histVars
<1> QED
  BY <1>1, <1>2
-------------------------------------------------------------------------------
(* Type correctness, one group of variables at a time.                     *)

\* The steps that change a response.
LEMMA ResponseFrame ==
  ASSUME Next
  PROVE  \/ UNCHANGED res
         \/ Reset
         \/ \E r \in Responses, u \in MatchedURLs : SetURL(r, u)
         \/ \E t \in Transfers : ParseURL(t)
         \/ \E t \in Transfers, s \in Codes : res' = WithStatus(s) /\ Active(t)
         \/ \E t \in Transfers, s \in Codes, u \in URLs : FollowRedirect(t, s, u)
BY DEF Next, Application, Worker, SetCallback, Starttransfer, ParseUnmatchedURL,
   ParseUnmatchedProxy, Resolve, ConnectFails, ConnectSucceeds, AfterConnect, Tunnel,
   TunnelRefused, Handshake, Request, ReceiveEndsEarly, ReceiveThrows, ReceiveFatalStatus,
   ReceiveBody, ReceiveRedirect, TooManyRedirects, RedirectWithoutLocation, Post, Posted, Return,
   MayReturn, Hang, RunHandler, Finished, vars, Active

\* Every step keeps the type of the responses.
LEMMA ResponseTypeStep ==
  ASSUME Discipline, Next
  PROVE  ResponseTypeOK'
<1> USE EngineAssumption DEF ResponseTypeOK
<1>t. ResponseTypeOK
  BY DEF Discipline, TypeOK
<1>1. CASE UNCHANGED res
  BY <1>t, <1>1 DEF URLs, MatchedURLs
<1>2. CASE Reset
  BY <1>t, <1>2 DEF Reset, ClearedResponse, URLs
<1>3. ASSUME NEW r \in Responses, NEW u \in MatchedURLs, SetURL(r, u)
      PROVE  ResponseTypeOK'
  BY <1>t, <1>3 DEF SetURL, URLs
<1>4. ASSUME NEW t \in Transfers, ParseURL(t)
      PROVE  ResponseTypeOK'
  <2>1. response \in Responses
    BY <1>4, WorkerHasResponse DEF ParseURL, Active
  <2>2. HostHeader(res[response].url) \in Hosts \cup {None}
    BY <1>t, <1>4, <2>1 DEF ParseURL, HostHeader, URLs, MatchedURLs
  <2> QED
    BY <1>t, <1>4, <2>1, <2>2 DEF ParseURL
<1>5. ASSUME NEW t \in Transfers, NEW s \in Codes, res' = WithStatus(s), Active(t)
      PROVE  ResponseTypeOK'
  BY <1>t, <1>5, WorkerHasResponse DEF WithStatus
<1>6. ASSUME NEW t \in Transfers, NEW s \in Codes, NEW u \in URLs, FollowRedirect(t, s, u)
      PROVE  ResponseTypeOK'
  BY <1>t, <1>6, WorkerHasResponse DEF FollowRedirect, ReceiveRedirect, Active
<1> QED
  BY <1>1, <1>2, <1>3, <1>4, <1>5, <1>6, ResponseFrame

\* What disconnect() does to the sockets keeps them in their range.
LEMMA DisconnectType ==
  ASSUME EngineTypeOK, HistoryTypeOK, DisconnectReturns \/ DisconnectThrows
  PROVE  /\ sock' \in [Types -> {"closed", "open", Proxy, None} \cup Hosts]
         /\ lost' \in BOOLEAN
BY DEF EngineTypeOK, HistoryTypeOK, DisconnectReturns, DisconnectThrows, SocketCloses,
   PlainShutdownFails

\* Every step keeps the type of the engine's own fields and sockets.
LEMMA EngineTypeStep ==
  ASSUME Discipline, Next
  PROVE  EngineTypeOK'
<1> USE EngineAssumption DEF EngineTypeOK, engineVars
<1>t. EngineTypeOK /\ HistoryTypeOK /\ ResponseTypeOK
  BY DEF Discipline, TypeOK
<1>1. CASE UNCHANGED <<engineVars, sock>>
  BY <1>t, <1>1
<1>2. CASE SetCallback
  BY <1>t, <1>2 DEF SetCallback
<1>3. ASSUME NEW t \in Transfers, NEW r \in Responses, Starttransfer(t, r)
      PROVE  EngineTypeOK'
  BY <1>t, <1>3 DEF Starttransfer
<1>4. CASE Reset
  BY <1>t, <1>4, DisconnectType DEF Reset, ProxyAfterReset, Types
<1>5. ASSUME NEW t \in Transfers, ParseURL(t)
      PROVE  EngineTypeOK'
  BY <1>t, <1>5 DEF ParseURL, TypeFor, Types
<1>6. ASSUME NEW t \in Transfers, ConnectFails(t) \/ ConnectSucceeds(t)
      PROVE  EngineTypeOK'
  <2>1. response \in Responses
    BY <1>6, WorkerHasResponse DEF ConnectFails, ConnectSucceeds, Active
  <2>2. Destination(res[response].url) \in Hosts \cup {Proxy, None}
    BY <1>t, <2>1 DEF Destination, ResponseTypeOK, URLs, MatchedURLs
  <2> QED
    BY <1>t, <1>6, <2>1, <2>2 DEF ConnectFails, ConnectSucceeds, SocketConnects
<1>7. ASSUME NEW t \in Transfers, NEW s \in Codes,
             \/ TooManyRedirects(t, s) \/ RedirectWithoutLocation(t, s)
             \/ \E u \in URLs : FollowRedirect(t, s, u)
      PROVE  EngineTypeOK'
  <2>1. redirtimes' \in Nat /\ UNCHANGED <<httpType, httpProxy, response, Status, callbackSet>>
    BY <1>t, <1>7 DEF TooManyRedirects, RedirectWithoutLocation, FollowRedirect,
       ReceiveRedirect, RedirectCount
  <2>2. sock' \in [Types -> {"closed", "open", Proxy, None} \cup Hosts]
    BY <1>t, <1>7, DisconnectType
    DEF TooManyRedirects, RedirectWithoutLocation, FollowRedirect
  <2> QED
    BY <1>t, <2>1, <2>2
<1> QED
  BY <1>1, <1>2, <1>3, <1>4, <1>5, <1>6, <1>7
  DEF Next, Application, Worker, SetURL, ParseUnmatchedURL, ParseUnmatchedProxy, Resolve, Tunnel,
     TunnelRefused, Handshake, Request, ReceiveEndsEarly, ReceiveThrows, ReceiveFatalStatus,
     ReceiveBody, Post, Posted, Return, MayReturn, Hang, RunHandler, Finished, vars

\* The counter of endpoints stays in its range while send() loops.
LEMMA LeftStep ==
  ASSUME Discipline, NEW t \in Transfers, Worker(t) \/ Hang(t)
  PROVE  /\ left' \in [Transfers -> 0..MaxEndpoints]
         /\ pc'[t] \in Trying => left'[t] >= 1
         /\ \A u \in Transfers \ {t} : left'[u] = left[u]
<1> USE EngineAssumption DEF ThreadTypeOK, Trying
<1>t. ThreadTypeOK /\ EndpointLeft
  BY DEF Discipline, TypeOK
<1>1. CASE Resolve(t)
  BY <1>t, <1>1 DEF Resolve, Goes, Throws
<1>2. CASE NextEndpoint(t) /\ pc[t] \in Trying
  BY <1>t, <1>2 DEF NextEndpoint, MoreEndpoints, Goes, Throws, EndpointLeft
<1>3. CASE EndpointUsed(t)
  BY <1>t, <1>3 DEF EndpointUsed, Goes
<1>4. CASE UNCHANGED left /\ (pc'[t] \in Trying => pc[t] \in Trying)
  BY <1>t, <1>4 DEF EndpointLeft
<1> QED
  BY <1>t, <1>1, <1>2, <1>3, <1>4
  DEF Worker, ParseUnmatchedURL, ParseUnmatchedProxy, ParseURL, ConnectFails, ConnectSucceeds,
     AfterConnect, TunnelRefused, Tunnel, Handshake, Request, ReceiveEndsEarly, ReceiveThrows,
     ReceiveFatalStatus, ReceiveBody, ReceiveRedirect, TooManyRedirects, RedirectWithoutLocation,
     FollowRedirect, Post, Posted, Return, MayReturn, Hang, Goes, Throws, threadVars
\* Every step keeps the type of the threads' control state.
LEMMA ThreadTypeStep ==
  ASSUME Discipline, Next
  PROVE  ThreadTypeOK'
<1> USE EngineAssumption DEF ThreadTypeOK, threadVars
<1>t. ThreadTypeOK
  BY DEF Discipline, TypeOK
<1>1. CASE UNCHANGED threadVars
  BY <1>t, <1>1
<1>2. ASSUME NEW t \in Transfers, NEW r \in Responses, Starttransfer(t, r)
      PROVE  ThreadTypeOK'
  BY <1>t, <1>2 DEF Starttransfer, PCs
<1>3. ASSUME NEW t \in Transfers, Worker(t) \/ Hang(t)
      PROVE  ThreadTypeOK'
  <2>1. pc' \in [Transfers -> PCs] /\ future' \in [Transfers -> {"pending", "value", "exception"}]
    BY <1>t, <1>3, WorkerMoves DEF PCs
  <2>2. left' \in [Transfers -> 0..MaxEndpoints]
    BY <1>3, LeftStep
  <2>3. UNCHANGED result \/ result' = [result EXCEPT ![t] = response]
    BY <1>3 DEF Worker, ParseUnmatchedURL, ParseUnmatchedProxy, ParseURL, Resolve, ConnectFails,
       ConnectSucceeds, AfterConnect, TunnelRefused, Tunnel, Handshake, Request, ReceiveEndsEarly,
       ReceiveThrows, ReceiveFatalStatus, ReceiveBody, ReceiveRedirect, TooManyRedirects,
       RedirectWithoutLocation, FollowRedirect, Post, Posted, Return, MayReturn, Hang
  <2>4. response \in Responses
    BY <1>3, WorkerMoves, WorkerHasResponse
  <2> QED
    BY <1>t, <2>1, <2>2, <2>3, <2>4
<1> QED
  BY <1>1, <1>2, <1>3
  DEF Next, Application, SetURL, SetCallback, Reset, RunHandler, Finished, vars

\* The steps that touch the handlers.
LEMMA HandlerFrame ==
  ASSUME Next
  PROVE  \/ UNCHANGED <<pending, ran, called>>
         \/ \E t \in Transfers : Post(t)
         \/ \E t \in Transfers, r \in Responses : RunHandler(t, r)
BY DEF Next, Application, Worker, SetURL, SetCallback, Starttransfer, Reset, ParseUnmatchedURL,
   ParseUnmatchedProxy, ParseURL, Resolve, ConnectFails, ConnectSucceeds, AfterConnect, Tunnel,
   TunnelRefused, Handshake, Request, ReceiveEndsEarly, ReceiveThrows, ReceiveFatalStatus,
   ReceiveBody, ReceiveRedirect, TooManyRedirects, RedirectWithoutLocation, FollowRedirect,
   Return, MayReturn, Hang, Finished, ioVars, vars

\* Every step keeps the type of the handlers and of callbackSet.
LEMMA HandlerTypeStep ==
  ASSUME Discipline, Next
  PROVE  HandlerTypeOK'
<1> USE DEF HandlerTypeOK
<1>t. HandlerTypeOK
  BY DEF Discipline, TypeOK
<1>1. CASE UNCHANGED <<pending, ran, called>>
  BY <1>t, <1>1
<1>2. ASSUME NEW t \in Transfers, Post(t)
      PROVE  HandlerTypeOK'
  BY <1>t, <1>2, WorkerHasResponse DEF Post, Posted, Active
<1>3. ASSUME NEW t \in Transfers, NEW r \in Responses, RunHandler(t, r)
      PROVE  HandlerTypeOK'
  BY <1>t, <1>3 DEF RunHandler
<1> QED
  BY <1>1, <1>2, <1>3, HandlerFrame

\* Every step keeps the type of the history variables.
LEMMA HistoryTypeStep ==
  ASSUME Discipline, Next
  PROVE  HistoryTypeOK'
<1> USE EngineAssumption DEF HistoryTypeOK, histVars
<1>t. EngineTypeOK /\ HistoryTypeOK
  BY DEF Discipline, TypeOK
<1>1. CASE UNCHANGED <<crashed, histVars>>
  BY <1>t, <1>1
<1>2. ASSUME NEW t \in Transfers, NEW r \in Responses, Starttransfer(t, r)
      PROVE  HistoryTypeOK'
  <2>1. requests' \in 0..RequestCap
    BY <1>2 DEF Starttransfer, RequestCap
  <2> QED
    BY <1>t, <1>2, <2>1 DEF Starttransfer
<1>3. CASE Reset
  BY <1>t, <1>3, DisconnectType DEF Reset
<1>4. ASSUME NEW t \in Transfers, ParseUnmatchedURL(t) \/ ParseUnmatchedProxy(t) \/ TunnelRefused(t)
      PROVE  HistoryTypeOK'
  BY <1>t, <1>4 DEF ParseUnmatchedURL, ParseUnmatchedProxy, TunnelRefused
<1>5. ASSUME NEW t \in Transfers, Request(t)
      PROVE  HistoryTypeOK'
  <2>1. requests' \in 0..RequestCap
    BY <1>t, <1>5 DEF Request, RequestCap
  <2> QED
    BY <1>t, <1>5, <2>1 DEF Request
<1>6. ASSUME NEW t \in Transfers, NEW s \in Codes,
             \/ TooManyRedirects(t, s) \/ RedirectWithoutLocation(t, s)
             \/ \E u \in URLs : FollowRedirect(t, s, u)
      PROVE  HistoryTypeOK'
  <2>1. lost' \in BOOLEAN
    BY <1>t, <1>6, DisconnectType
    DEF TooManyRedirects, RedirectWithoutLocation, FollowRedirect
  <2>2. UNCHANGED <<crashed, given, requests, named, fresh, tidy>>
    BY <1>6 DEF TooManyRedirects, RedirectWithoutLocation, FollowRedirect, ReceiveRedirect
  <2> QED
    BY <1>t, <2>1, <2>2
<1> QED
  BY <1>1, <1>2, <1>3, <1>4, <1>5, <1>6
  DEF Next, Application, Worker, SetURL, SetCallback, ParseURL, Resolve, ConnectFails,
      ConnectSucceeds, AfterConnect, Tunnel, Handshake, ReceiveEndsEarly, ReceiveThrows,
      ReceiveFatalStatus, ReceiveBody, Post, Posted, Return, MayReturn, Hang, RunHandler, Finished, vars

-------------------------------------------------------------------------------
(* Discipline is inductive.                                                *)

\* The constructed engine satisfies Discipline.
LEMMA DisciplineInit == Init => Discipline
<1> SUFFICES ASSUME Init PROVE Discipline
  OBVIOUS
<1> USE EngineAssumption DEF Init
<1>1. ResponseTypeOK
  BY DEF ResponseTypeOK, URLs
<1>2. HandlerTypeOK
  BY DEF HandlerTypeOK
<1>3. EngineTypeOK
  BY DEF EngineTypeOK, Types
<1>4. ThreadTypeOK
  BY DEF ThreadTypeOK, PCs
<1>5. HistoryTypeOK
  <2>1. requests \in 0..RequestCap
    BY DEF RequestCap
  <2> QED
    BY <2>1 DEF HistoryTypeOK
<1>6. Owner /\ FutureReady /\ EndpointLeft
  BY DEF Owner, FutureReady, EndpointLeft, Trying, Active
<1> QED
  BY <1>1, <1>2, <1>3, <1>4, <1>5, <1>6 DEF Discipline, TypeOK

\* The three conjuncts about threads, for the steps that move one.
LEMMA StartKeepsOrder ==
  ASSUME Discipline, NEW t \in Transfers, NEW r \in Responses, Starttransfer(t, r)
  PROVE  (Owner /\ FutureReady /\ EndpointLeft)'
<1>t. ThreadTypeOK /\ HistoryTypeOK /\ Owner /\ FutureReady /\ EndpointLeft
  BY DEF Discipline, TypeOK
<1>1. \A u \in Transfers : ~Active(u)
  BY IdleMeansAlone DEF Starttransfer
<1>2. Owner'
  BY <1>t, <1>1 DEF Starttransfer, Owner, Active, ThreadTypeOK, HistoryTypeOK
<1>3. FutureReady'
  BY <1>t DEF Starttransfer, FutureReady, ThreadTypeOK
<1>4. EndpointLeft'
  BY <1>t DEF Starttransfer, EndpointLeft, Trying, ThreadTypeOK
<1> QED
  BY <1>2, <1>3, <1>4

\* A worker's own step keeps the three conjuncts about threads.
LEMMA WorkerKeepsOrder ==
  ASSUME Discipline, NEW t \in Transfers, Worker(t) \/ Hang(t)
  PROVE  (Owner /\ FutureReady /\ EndpointLeft)'
<1>t. ThreadTypeOK /\ HistoryTypeOK /\ Owner /\ FutureReady /\ EndpointLeft
  BY DEF Discipline, TypeOK
<1>1. Owner'
  BY <1>t, WorkerMoves DEF Owner, Active, ThreadTypeOK
<1>2. FutureReady'
  BY <1>t, WorkerMoves DEF FutureReady, Active, ThreadTypeOK
<1>3. \A u \in Transfers \ {t} : pc'[u] = pc[u]
  BY <1>t, WorkerMoves DEF ThreadTypeOK
<1>4. EndpointLeft'
  BY <1>t, <1>3, LeftStep DEF EndpointLeft
<1> QED
  BY <1>1, <1>2, <1>4

\* Discipline is inductive.
LEMMA DisciplineStep == Discipline /\ [Next]_vars => Discipline'
<1> SUFFICES ASSUME Discipline, [Next]_vars PROVE Discipline'
  OBVIOUS
<1>1. CASE Next
  <2>1. TypeOK'
    BY <1>1, ResponseTypeStep, EngineTypeStep, ThreadTypeStep, HandlerTypeStep,
       HistoryTypeStep DEF TypeOK
  <2>2. (Owner /\ FutureReady /\ EndpointLeft)'
    <3>1. CASE UNCHANGED <<pc, future, left, Status, response, given>>
      BY <3>1 DEF Discipline, Owner, FutureReady, EndpointLeft, Active
    <3>2. CASE \E t \in Transfers, r \in Responses : Starttransfer(t, r)
      BY <3>2, StartKeepsOrder
    <3>3. CASE \E t \in Transfers : Worker(t) \/ Hang(t)
      BY <3>3, WorkerKeepsOrder
    <3> QED
      BY <1>1, <3>1, <3>2, <3>3
      DEF Next, Application, SetURL, SetCallback, Reset, RunHandler, Finished, engineVars,
          threadVars, histVars, vars
  <2> QED
    BY <2>1, <2>2 DEF Discipline
<1>2. CASE UNCHANGED vars
  BY <1>2 DEF Discipline, TypeOK, EngineTypeOK, ResponseTypeOK, ThreadTypeOK, HandlerTypeOK,
     HistoryTypeOK, Owner, FutureReady, EndpointLeft, Active, vars, engineVars, threadVars,
     ioVars, histVars
<1> QED
  BY <1>1, <1>2

\* The engine keeps Discipline: typed, at most one worker in it, every worker's
\* future pending, and an endpoint left wherever connect() dereferences one.
THEOREM DisciplineAlways == Spec => []Discipline
BY DisciplineInit, DisciplineStep, PTL DEF Spec

\* Type correctness: every variable of the engine stays in its range.
THEOREM TypeCorrect == Spec => []TypeOK
<1>1. Discipline => TypeOK
  BY DEF Discipline
<1> QED
  BY <1>1, DisciplineAlways, PTL

\* An application that waits for getCompletion() never has two threads in the
\* engine, and the one there uses the response its Starttransfer was given.
THEOREM OneWorkerAlways == Spec => []OneWorker
<1>1. Discipline => OneWorker
  BY DEF Discipline, Owner, OneWorker
<1> QED
  BY <1>1, DisciplineAlways, PTL
-------------------------------------------------------------------------------
(* Callbacks.                                                              *)

\* Only Post and Return bring a thread to where its callback is accounted for.
LEMMA OtherWorkers ==
  ASSUME Discipline, NEW t \in Transfers, Worker(t) \/ Hang(t), ~Post(t), ~Return(t)
  PROVE  /\ UNCHANGED <<pending, ran, called, result>>
         /\ \/ UNCHANGED <<pc, future>>
            \/ /\ pc[t] \notin {"new", "return", "done"}
               /\ \/ \E x \in PCs \ {"new", "return", "done"} :
                       pc' = [pc EXCEPT ![t] = x] /\ UNCHANGED future
                  \/ Throws(t)
BY DEF Worker, Hang, ParseUnmatchedURL, ParseUnmatchedProxy, ParseURL, Resolve, ConnectFails,
   ConnectSucceeds, AfterConnect, TunnelRefused, Tunnel, Handshake, Request, ReceiveEndsEarly,
   ReceiveThrows, ReceiveFatalStatus, ReceiveBody, ReceiveRedirect, TooManyRedirects,
   RedirectWithoutLocation, FollowRedirect, EndpointUsed, NextEndpoint, Goes, Throws, PCs, ioVars,
   threadVars

\* A thread in the engine has not finished.
LEMMA ActiveIsPending ==
  ASSUME Discipline, NEW t \in Transfers, pc[t] # "done"
  PROVE  future[t] = "pending"
BY DEF Discipline, FutureReady

\* No handler exists before the first transfer.
LEMMA AccountingInit == Init => CallbackAccounting
BY DEF Init, CallbackAccounting

\* Every step keeps the account of the handlers.
LEMMA AccountingStep == Discipline /\ CallbackAccounting /\ [Next]_vars => CallbackAccounting'
<1> SUFFICES ASSUME Discipline, CallbackAccounting, [Next]_vars PROVE CallbackAccounting'
  OBVIOUS
<1> USE DEF CallbackAccounting
<1>t. ThreadTypeOK /\ HandlerTypeOK /\ HistoryTypeOK
  BY DEF Discipline, TypeOK
<1>1. CASE UNCHANGED <<pc, future, pending, ran, given>>
  BY <1>1
<1>2. ASSUME NEW t \in Transfers, NEW r \in Responses, Starttransfer(t, r)
      PROVE  CallbackAccounting'
  BY <1>t, <1>2, ActiveIsPending
  DEF Starttransfer, ThreadTypeOK, HistoryTypeOK, ioVars
<1>3. ASSUME NEW t \in Transfers, Post(t)
      PROVE  CallbackAccounting'
  <2>1. response = given[t] /\ response \in Responses /\ pc[t] = "post"
    BY <1>3 DEF Post, Posted, Discipline, Owner, Active
  <2>2. future[t] = "pending"
    BY <1>3, <2>1, ActiveIsPending
  <2>3. UNCHANGED <<ran, given, future>> /\ pc' = [pc EXCEPT ![t] = "return"]
    BY <1>3 DEF Post, Posted, Goes, histVars
  <2>4. \A u \in Transfers, r \in Responses :
          pending'[u][r] = IF u = t /\ r = response THEN pending[u][r] + 1 ELSE pending[u][r]
    BY <1>t, <1>3, <2>1 DEF Post, Posted, HandlerTypeOK
  <2>5. ASSUME NEW u \in Transfers \ {t}, NEW r \in Responses
        PROVE  pending'[u][r] + ran'[u][r] =
                 IF (pc'[u] = "return" \/ future'[u] = "value") /\ r = given'[u] THEN 1 ELSE 0
    BY <1>t, <2>3, <2>4 DEF ThreadTypeOK
  <2>6. ASSUME NEW r \in Responses
        PROVE  pending'[t][r] + ran'[t][r] = IF r = given'[t] THEN 1 ELSE 0
    <3>1. pending[t][r] + ran[t][r] = 0 /\ pending[t][r] \in Nat /\ ran[t][r] \in Nat
      BY <1>t, <2>1, <2>2 DEF HandlerTypeOK
    <3> QED
      BY <2>1, <2>3, <2>4, <3>1
  <2>7. pc'[t] = "return"
    BY <1>t, <2>3 DEF ThreadTypeOK
  <2> QED
    BY <2>5, <2>6, <2>7
<1>4. ASSUME NEW t \in Transfers, Return(t)
      PROVE  CallbackAccounting'
  BY <1>t, <1>4 DEF Return, MayReturn, ThreadTypeOK, ioVars, histVars
<1>5. ASSUME NEW t \in Transfers, NEW r \in Responses, RunHandler(t, r)
      PROVE  CallbackAccounting'
  BY <1>t, <1>5 DEF RunHandler, HandlerTypeOK, threadVars, histVars
<1>6. ASSUME NEW t \in Transfers, Worker(t) \/ Hang(t), ~Post(t), ~Return(t)
      PROVE  CallbackAccounting'
  <2>1. UNCHANGED <<pending, ran, given>>
    BY <1>6, OtherWorkers, WorkerMoves
  <2>2. CASE UNCHANGED <<pc, future>>
    BY <2>1, <2>2
  <2>3. ASSUME pc[t] \notin {"new", "return", "done"},
               \/ \E x \in PCs \ {"new", "return", "done"} :
                    pc' = [pc EXCEPT ![t] = x] /\ UNCHANGED future
               \/ Throws(t)
        PROVE  CallbackAccounting'
    BY <1>t, <2>1, <2>3, ActiveIsPending DEF Throws, ThreadTypeOK
  <2> QED
    BY <1>6, <2>2, <2>3, OtherWorkers
<1> QED
  BY <1>1, <1>2, <1>3, <1>4, <1>5, <1>6
  DEF Next, Application, SetURL, SetCallback, Reset, Finished, threadVars, ioVars, histVars,
      vars

\* Handlers are neither lost nor doubled, and each carries the response its
\* transfer was given.
THEOREM CallbacksAccounted == Spec => []CallbackAccounting
BY DisciplineAlways, AccountingInit, AccountingStep, PTL DEF Spec

-------------------------------------------------------------------------------
(* Redirects.                                                              *)

\* requests runs at most one ahead of redirtimes, unless redirtimes was already
\* beyond the limit, and then the first redirect ends the transfer.
Unsent == {"send", "resolve", "connect", "tunnel", "handshake", "request"}
Budget ==
  /\ RedirectBudget
  /\ \A t \in Transfers :
       /\ pc[t] \in Unsent =>
            requests = 0 \/ (requests <= redirtimes /\ redirtimes <= RedirectLimit + 1)
       /\ pc[t] = "receive" =>
            requests <= 1 \/ (requests <= redirtimes + 1 /\ redirtimes <= RedirectLimit + 1)

\* No request was sent before the first transfer.
LEMMA BudgetInit == Init => Budget
BY EngineAssumption DEF Init, Budget, RedirectBudget

\* Every step keeps the budget of requests.
LEMMA BudgetStep == Discipline /\ Budget /\ [Next]_vars => Budget'
<1> SUFFICES ASSUME Discipline, Budget, [Next]_vars PROVE Budget'
  OBVIOUS
<1> USE EngineAssumption DEF Budget, RedirectBudget, Unsent
<1>t. ThreadTypeOK /\ EngineTypeOK /\ requests \in Nat
  BY DEF Discipline, TypeOK, HistoryTypeOK
<1>o. \A t, u \in Transfers : Active(t) /\ Active(u) => t = u
  BY DEF Discipline, Owner
<1>1. CASE UNCHANGED <<pc, requests, redirtimes>>
  BY <1>1
<1>2. ASSUME NEW t \in Transfers, NEW r \in Responses, Starttransfer(t, r)
      PROVE  Budget'
  BY <1>2 DEF Starttransfer
<1>3. CASE Reset
  <2>1. \A t \in Transfers : pc[t] \notin Unsent \cup {"receive"}
    BY <1>3, IdleMeansAlone DEF Reset, Active
  <2> QED
    BY <1>3, <2>1 DEF Reset, threadVars
<1>4. ASSUME NEW t \in Transfers, Request(t)
      PROVE  Budget'
  <2>1. \A u \in Transfers \ {t} : pc'[u] \notin Unsent \cup {"receive"}
    BY <1>t, <1>4, <1>o, WorkerMoves DEF Request, Worker, Active, ThreadTypeOK
  <2>2. UNCHANGED redirtimes /\ pc[t] = "request" /\ redirtimes \in Nat
    BY <1>t, <1>4 DEF Request, engineVars, EngineTypeOK
  <2>3. CASE Throws(t) /\ UNCHANGED requests
    BY <1>t, <2>1, <2>3 DEF Throws, ThreadTypeOK
  <2>4. CASE Goes(t, "receive") /\ (requests' = IF requests < RequestCap THEN requests + 1 ELSE requests)
    BY <1>t, <2>1, <2>2, <2>4 DEF Goes, ThreadTypeOK, RequestCap
  <2> QED
    BY <1>4, <2>3, <2>4 DEF Request
<1>5. ASSUME NEW t \in Transfers, NEW s \in Codes,
             \/ TooManyRedirects(t, s) \/ RedirectWithoutLocation(t, s)
             \/ \E u \in URLs : FollowRedirect(t, s, u)
      PROVE  Budget'
  <2>1. pc[t] = "receive" /\ redirtimes' = redirtimes + 1 /\ UNCHANGED requests
    BY <1>5 DEF TooManyRedirects, RedirectWithoutLocation, FollowRedirect, ReceiveRedirect,
       RedirectCount
  <2>2. \A u \in Transfers \ {t} : pc'[u] \notin Unsent \cup {"receive"}
    BY <1>t, <1>5, <1>o, <2>1, WorkerMoves DEF Worker, Active, ThreadTypeOK
  <2>3. pc'[t] \in {"post", "done"} \/ (pc'[t] = "send" /\ redirtimes <= RedirectLimit)
    BY <1>t, <1>5 DEF TooManyRedirects, RedirectWithoutLocation, FollowRedirect,
       RedirectExhausted, Goes, Throws, ThreadTypeOK, EngineTypeOK
  <2>4. requests' <= RedirectLimit + 2 /\ redirtimes' \in Nat
    BY <1>t, <2>1 DEF EngineTypeOK
  <2>5. CASE pc'[t] \in {"post", "done"}
    BY <2>2, <2>4, <2>5
  <2>6. CASE pc'[t] = "send" /\ redirtimes <= RedirectLimit
    <3>1. requests' <= redirtimes' /\ redirtimes' <= RedirectLimit + 1
      BY <1>t, <2>1, <2>6 DEF EngineTypeOK
    <3> QED
      BY <2>2, <2>4, <2>6, <3>1
  <2> QED
    BY <2>3, <2>5, <2>6
<1>6. ASSUME NEW t \in Transfers, pc[t] \in Unsent,
             pc' = [pc EXCEPT ![t] = "done"] \/ \E x \in Unsent : pc' = [pc EXCEPT ![t] = x],
             UNCHANGED <<requests, redirtimes>>
      PROVE  Budget'
  BY <1>t, <1>6 DEF ThreadTypeOK
<1>7. ASSUME NEW t \in Transfers,
             \E x \in {"post", "return", "hung", "done"} : pc' = [pc EXCEPT ![t] = x],
             UNCHANGED <<requests, redirtimes>>
      PROVE  Budget'
  BY <1>t, <1>7 DEF ThreadTypeOK
<1>8. ASSUME NEW t \in Transfers, Worker(t) \/ Hang(t)
      PROVE  Budget'
  BY <1>1, <1>4, <1>5, <1>6, <1>7, <1>8
  DEF Worker, Hang, ParseUnmatchedURL, ParseUnmatchedProxy, ParseURL, Resolve, ConnectFails,
     ConnectSucceeds, AfterConnect, TunnelRefused, Tunnel, Handshake, ReceiveEndsEarly,
     ReceiveThrows, ReceiveFatalStatus, ReceiveBody, Post, Posted, Return, MayReturn,
     EndpointUsed, NextEndpoint, Goes, Throws, engineVars, threadVars, histVars
<1> QED
  BY <1>1, <1>2, <1>3, <1>8
  DEF Next, Application, SetURL, SetCallback, RunHandler, Finished, engineVars, threadVars,
      histVars, vars

\* One transfer sends at most RedirectLimit + 2 requests, whatever redirtimes
\* earlier transfers left behind.
THEOREM RedirectsBounded == Spec => []RedirectBudget
<1>1. Budget => RedirectBudget
  BY DEF Budget
<1> QED
  BY <1>1, DisciplineAlways, BudgetInit, BudgetStep, PTL DEF Spec
-------------------------------------------------------------------------------
(* Who changes a response.                                                 *)

\* A step that changes a status is a reset or one of a worker that owns it.
LEMMA StatusStep == Discipline /\ [Next]_vars =>
  [\A r \in Responses :
     res'[r].status # res[r].status =>
       \/ \E t \in Transfers : Active(t) /\ given[t] = r
       \/ Idle /\ r = response /\ res'[r].status = 0]_vars
<1> SUFFICES ASSUME Discipline, Next, NEW r \in Responses, res'[r].status # res[r].status
             PROVE  \/ \E t \in Transfers : Active(t) /\ given[t] = r
                    \/ Idle /\ r = response /\ res'[r].status = 0
  OBVIOUS
<1>t. ResponseTypeOK /\ Owner
  BY DEF Discipline, TypeOK
<1>1. CASE UNCHANGED res
  BY <1>1
<1>2. CASE Reset
  BY <1>t, <1>2 DEF Reset, ClearedResponse, ResponseTypeOK
<1>3. ASSUME NEW q \in Responses, NEW u \in MatchedURLs, SetURL(q, u)
      PROVE  FALSE
  BY <1>t, <1>3 DEF SetURL, ResponseTypeOK
<1>4. ASSUME NEW t \in Transfers, ParseURL(t)
      PROVE  FALSE
  BY <1>t, <1>4 DEF ParseURL, ResponseTypeOK
<1>5. ASSUME NEW t \in Transfers, NEW s \in Codes, res' = WithStatus(s), Active(t)
      PROVE  given[t] = r
  BY <1>t, <1>5 DEF WithStatus, ResponseTypeOK, Owner
<1>6. ASSUME NEW t \in Transfers, NEW s \in Codes, NEW u \in URLs, FollowRedirect(t, s, u)
      PROVE  FALSE
  BY <1>t, <1>6 DEF FollowRedirect, ResponseTypeOK
<1> QED
  BY <1>1, <1>2, <1>3, <1>4, <1>5, <1>6, ResponseFrame

\* A status changes only under a transfer that was given that response, or
\* because the idle engine is reset.
THEOREM StatusOwned == Spec => StatusOnlyByOwner
BY DisciplineAlways, StatusStep, PTL DEF Spec, StatusOnlyByOwner

\* The steps of a worker between ParseURL and the end of a hop leave res alone.
LEMMA HopKeepsResponse ==
  ASSUME Discipline, Next, NEW t \in Transfers,
         pc'[t] \in {"resolve", "connect", "tunnel", "handshake", "request"}, ~ParseURL(t)
  PROVE  /\ pc[t] \in {"resolve", "connect", "tunnel", "handshake", "request"}
         /\ UNCHANGED <<res, response>>
<1>t. ThreadTypeOK /\ Owner
  BY DEF Discipline, TypeOK
<1>o. \A v, u \in Transfers : Active(v) /\ Active(u) => v = u
  BY <1>t DEF Owner
<1> DEFINE Hop == {"resolve", "connect", "tunnel", "handshake", "request"}
<1>1. CASE UNCHANGED pc
  <2>1. Active(t) /\ ~Idle
    BY <1>1, IdleMeansAlone DEF Active
  <2>2. ASSUME NEW v \in Transfers, Worker(v) \/ Hang(v)
        PROVE  v = t
    BY <1>o, <2>1, <2>2, WorkerMoves
  <2>3. ASSUME Worker(t) \/ Hang(t), UNCHANGED pc
        PROVE  UNCHANGED <<res, response>>
    BY <1>1, <1>t, <2>3 DEF Worker, Hang, ParseUnmatchedURL, ParseUnmatchedProxy, Resolve,
       ConnectFails, ConnectSucceeds, AfterConnect, TunnelRefused, Tunnel, Handshake, Request,
       ReceiveEndsEarly, ReceiveThrows, ReceiveFatalStatus, ReceiveBody, ReceiveRedirect,
       TooManyRedirects, RedirectWithoutLocation, FollowRedirect, Post, Posted, Return, MayReturn,
       Goes, Throws, ThreadTypeOK, engineVars
  <2> QED
    BY <1>1, <2>1, <2>2, <2>3
    DEF Next, Application, SetURL, SetCallback, Starttransfer, Reset, RunHandler, Finished,
        engineVars, vars
<1>2. ASSUME NEW v \in Transfers, Worker(v) \/ Hang(v), pc' # pc
      PROVE  v = t /\ pc[t] \in Hop /\ UNCHANGED <<res, response>>
  <2>1. v = t
    BY <1>t, <1>o, <1>2, WorkerMoves DEF Active, ThreadTypeOK
  <2>2. CASE \/ Resolve(t) \/ ConnectFails(t) \/ ConnectSucceeds(t) \/ Tunnel(t)
            \/ Handshake(t)
    BY <2>1, <2>2
    DEF Resolve, ConnectFails, ConnectSucceeds, AfterConnect, Tunnel, Handshake, engineVars
  <2>3. \A x \in PCs : pc' = [pc EXCEPT ![t] = x] => x \in Hop
    BY <1>t DEF ThreadTypeOK
  <2> QED
    BY <1>2, <2>1, <2>2, <2>3
    DEF Worker, Hang, ParseUnmatchedURL, ParseUnmatchedProxy, TunnelRefused, Request,
       ReceiveEndsEarly, ReceiveThrows, ReceiveFatalStatus, ReceiveBody, TooManyRedirects,
       RedirectWithoutLocation, FollowRedirect, Post, Posted, Return, MayReturn, Goes, Throws,
       threadVars, PCs
<1>3. ASSUME NEW v \in Transfers, NEW r \in Responses, Starttransfer(v, r)
      PROVE  FALSE
  BY <1>t, <1>3, IdleMeansAlone DEF Starttransfer, Active, ThreadTypeOK
<1> QED
  BY <1>1, <1>2, <1>3
  DEF Next, Application, SetURL, SetCallback, Reset, RunHandler, Finished, threadVars, vars

\* Every step keeps the Host header right.
LEMMA HostHeaderStep ==
  Discipline /\ HostHeaderNamesTarget /\ [Next]_vars => HostHeaderNamesTarget'
<1> SUFFICES ASSUME Discipline, HostHeaderNamesTarget, [Next]_vars
             PROVE  HostHeaderNamesTarget'
  OBVIOUS
<1> USE DEF HostHeaderNamesTarget
<1>1. CASE UNCHANGED vars
  BY <1>1 DEF vars, engineVars, threadVars
<1>2. CASE Next
  <2> SUFFICES ASSUME NEW t \in Transfers,
                      pc'[t] \in {"resolve", "connect", "tunnel", "handshake", "request"}
               PROVE  LET u == res'[response'].url IN
                        u # NoMatch /\ (u.scheme # "none" => res'[response'].host = u.host)
    OBVIOUS
  <2>1. CASE ~ParseURL(t)
    BY <1>2, <2>1, HopKeepsResponse
  <2>2. CASE ParseURL(t)
    <3>1. response \in Responses /\ res \in [Responses -> [url : URLs, status : Nat, host : Hosts \cup {None}]]
      BY <2>2, WorkerHasResponse DEF ParseURL, Active, Discipline, TypeOK, ResponseTypeOK
    <3> DEFINE u == res[response].url
    <3>2. response' = response /\ u # NoMatch
      BY <2>2 DEF ParseURL
    <3>3. res'[response] = [res[response] EXCEPT !.host = HostHeader(u)]
      BY <2>2, <3>1 DEF ParseURL
    <3>4. res'[response].url = u /\ res'[response].host = HostHeader(u)
      BY <3>1, <3>3
    <3> QED
      BY <3>2, <3>4 DEF HostHeader
  <2> QED
    BY <2>1, <2>2
<1> QED
  BY <1>1, <1>2

\* On every hop with a known scheme the Host header is that of the URL about to
\* be requested.
THEOREM HostHeaderCorrect == Spec => []HostHeaderNamesTarget
<1>1. Init => HostHeaderNamesTarget
  BY DEF Init, HostHeaderNamesTarget
<1> QED
  BY <1>1, DisciplineAlways, HostHeaderStep, PTL DEF Spec
-------------------------------------------------------------------------------
(* The engine implements TransferPromise.                                  *)

\* The initial states of the engine are initial states of the promise.
LEMMA PromiseInit == Init => Promise!Init
<1> SUFFICES ASSUME Init PROVE Promise!Init
  OBVIOUS
<1>1. Phase = [t \in Transfers |-> "new"]
  BY DEF Init, Phase
<1>2. Notice = [t \in Transfers |-> "none"]
  BY DEF Init, Notice
<1> QED
  BY <1>1, <1>2 DEF Init, Promise!Init

\* What Notice says, in terms of the one handler a transfer may have.
LEMMA NoticeOfOne ==
  ASSUME Discipline, CallbackAccounting, NEW t \in Transfers
  PROVE  /\ pc[t] # "return" /\ future[t] # "value" => Notice[t] = "none"
         /\ \A r \in Responses : pending[t][r] + ran[t][r] > 0 => Notice[t] # "none"
<1>t. HandlerTypeOK
  BY DEF Discipline, TypeOK
<1>1. \A r \in Responses : pending[t][r] \in Nat /\ ran[t][r] \in Nat
  BY <1>t DEF HandlerTypeOK
<1>2. ASSUME pc[t] # "return" /\ future[t] # "value"
      PROVE  Notice[t] = "none"
  <2>1. \A r \in Responses : pending[t][r] = 0 /\ ran[t][r] = 0
    BY <1>1, <1>2 DEF CallbackAccounting
  <2> QED
    BY <2>1 DEF Notice
<1>3. ASSUME NEW r \in Responses, pending[t][r] + ran[t][r] > 0
      PROVE  Notice[t] # "none"
  <2>1. pending[t][r] > 0 \/ ran[t][r] > 0
    BY <1>1, <1>3
  <2> QED
    BY <2>1 DEF Notice
<1> QED
  BY <1>2, <1>3

\* Every step of the engine is a step of the promise or a stutter.
LEMMA PromiseStep ==
  Discipline /\ Discipline' /\ CallbackAccounting /\ CallbackAccounting' /\ [Next]_vars
    => [Promise!Next]_(Promise!vars)
<1> SUFFICES ASSUME Discipline, Discipline', CallbackAccounting, CallbackAccounting', [Next]_vars
             PROVE  [Promise!Next]_(Promise!vars)
  OBVIOUS
<1>t. ThreadTypeOK /\ HandlerTypeOK /\ HistoryTypeOK /\ FutureReady /\ Owner
  BY DEF Discipline, TypeOK
<1>1. CASE UNCHANGED <<pc, future, pending, ran, given, result>>
  BY <1>1 DEF Promise!vars, Phase, Notice
<1>2. ASSUME NEW t \in Transfers, NEW r \in Responses, Starttransfer(t, r)
      PROVE  Promise!Begin(t, r)
  <2>1. \A u \in Transfers : pc[u] \in {"new", "done"}
    BY <1>2, IdleMeansAlone DEF Starttransfer, Active
  <2>2. pc[t] = "new" /\ pc' = [pc EXCEPT ![t] = "send"] /\ given' = [given EXCEPT ![t] = r]
        /\ UNCHANGED <<future, pending, ran, result>>
    BY <1>2 DEF Starttransfer, ioVars
  <2>3. Phase[t] = "new" /\ \A u \in Transfers : Phase[u] # "running"
    BY <1>t, <2>1, <2>2 DEF Phase, ThreadTypeOK
  <2>4. Phase' = [Phase EXCEPT ![t] = "running"]
    BY <1>t, <2>2 DEF Phase, ThreadTypeOK
  <2>5. Notice' = Notice
    BY <2>2 DEF Notice
  <2> QED
    BY <2>2, <2>3, <2>4, <2>5 DEF Promise!Begin
<1>3. ASSUME NEW t \in Transfers, Post(t)
      PROVE  Promise!Announce(t)
  <2>1. pc[t] = "post" /\ future[t] = "pending" /\ response \in Responses
    BY <1>3, ActiveIsPending, WorkerHasResponse DEF Post, Posted, Active
  <2>2. pc' = [pc EXCEPT ![t] = "return"] /\ UNCHANGED <<future, given, result, ran>>
    BY <1>3 DEF Post, Posted, Goes, histVars
  <2>3. Phase' = Phase /\ Phase[t] = "running"
    BY <1>t, <2>1, <2>2 DEF Phase, ThreadTypeOK
  <2>4. Notice[t] = "none"
    BY <2>1, NoticeOfOne
  <2>5. \A u \in Transfers \ {t} : pending'[u] = pending[u]
    BY <1>t, <1>3 DEF Post, Posted, HandlerTypeOK
  <2>6. pending'[t][response] > 0
    BY <1>t, <1>3, <2>1 DEF Post, Posted, HandlerTypeOK
  <2>7. Notice' = [Notice EXCEPT ![t] = "posted"]
    BY <2>1, <2>2, <2>5, <2>6 DEF Notice
  <2> QED
    BY <2>2, <2>3, <2>4, <2>7 DEF Promise!Announce
<1>4. ASSUME NEW t \in Transfers, Return(t)
      PROVE  Promise!Succeed(t)
  <2>1. pc[t] = "return" /\ response = given[t] /\ response \in Responses
    BY <1>t, <1>4 DEF Return, MayReturn, Active, Owner
  <2>2. /\ pc' = [pc EXCEPT ![t] = "done"] /\ future' = [future EXCEPT ![t] = "value"]
        /\ result' = [result EXCEPT ![t] = given[t]]
        /\ UNCHANGED <<given, pending, ran>>
    BY <1>4, <2>1 DEF Return, MayReturn, ioVars, histVars
  <2>3. Phase[t] = "running" /\ Phase' = [Phase EXCEPT ![t] = "value"]
    BY <1>t, <2>1, <2>2 DEF Phase, ThreadTypeOK
  <2>4. UNCHANGED Notice
    BY <2>2 DEF Notice
  <2>5. pending[t][response] + ran[t][response] = 1
    BY <2>1 DEF CallbackAccounting
  <2>6. Notice[t] # "none"
    BY <1>t, <2>1, <2>5, NoticeOfOne DEF HandlerTypeOK
  <2> QED
    BY <2>2, <2>3, <2>4, <2>6 DEF Promise!Succeed
<1>5. ASSUME NEW t \in Transfers, NEW r \in Responses, RunHandler(t, r)
      PROVE  Promise!Deliver(t)
  <2>1. UNCHANGED <<pc, future, given, result>>
    BY <1>5 DEF RunHandler, threadVars, histVars
  <2>2. UNCHANGED Phase
    BY <2>1 DEF Phase
  <2>3. pending[t][r] > 0 /\ Notice[t] = "posted"
    BY <1>5 DEF RunHandler, Notice
  <2>4. \A u \in Transfers \ {t} : pending'[u] = pending[u] /\ ran'[u] = ran[u]
    BY <1>t, <1>5 DEF RunHandler, HandlerTypeOK
  <2>5. ran'[t][r] > 0
    BY <1>t, <1>5 DEF RunHandler, HandlerTypeOK
  <2>6. \A q \in Responses : pending'[t][q] \in Nat /\ ran'[t][q] \in Nat
    BY DEF Discipline, TypeOK, HandlerTypeOK
  <2>7. \A q \in Responses : ~(pending'[t][q] > 0)
    <3>1. given'[t] = r
      BY <2>5, <2>6 DEF CallbackAccounting
    <3>2. \A q \in Responses : pending'[t][q] + ran'[t][q] = IF q = r THEN 1 ELSE 0
      BY <2>5, <2>6, <3>1 DEF CallbackAccounting
    <3> QED
      BY <2>5, <2>6, <3>2
  <2>8. Notice' = [Notice EXCEPT ![t] = "delivered"]
    BY <2>4, <2>5, <2>7 DEF Notice
  <2> QED
    BY <2>1, <2>2, <2>3, <2>8 DEF Promise!Deliver
<1>6. ASSUME NEW t \in Transfers, Worker(t) \/ Hang(t), ~Post(t), ~Return(t)
      PROVE  Promise!Fail(t) \/ UNCHANGED Promise!vars
  <2>1. UNCHANGED <<pending, ran, given, result>>
    BY <1>6, OtherWorkers, WorkerMoves
  <2>2. UNCHANGED Notice
    BY <2>1 DEF Notice
  <2>3. CASE UNCHANGED <<pc, future>>
    BY <2>1, <2>2, <2>3 DEF Promise!vars, Phase
  <2>4. ASSUME pc[t] \notin {"new", "return", "done"},
               NEW x \in PCs \ {"new", "return", "done"},
               pc' = [pc EXCEPT ![t] = x] /\ UNCHANGED future
        PROVE  UNCHANGED Promise!vars
    <3>1. Phase' = Phase
      BY <1>t, <2>4 DEF Phase, ThreadTypeOK
    <3> QED
      BY <2>1, <2>2, <3>1 DEF Promise!vars
  <2>5. ASSUME pc[t] \notin {"new", "return", "done"}, Throws(t)
        PROVE  Promise!Fail(t)
    <3>1. Phase[t] = "running" /\ Phase' = [Phase EXCEPT ![t] = "exception"]
      BY <1>t, <2>5 DEF Phase, Throws, ThreadTypeOK
    <3>2. Notice[t] = "none"
      BY <2>5, ActiveIsPending, NoticeOfOne
    <3> QED
      BY <2>1, <2>2, <3>1, <3>2 DEF Promise!Fail
  <2> QED
    BY <1>6, <2>3, <2>4, <2>5, OtherWorkers
<1>7. [Next]_vars =>
        \/ UNCHANGED <<pc, future, pending, ran, given, result>>
        \/ \E t \in Transfers, r \in Responses : Starttransfer(t, r) \/ RunHandler(t, r)
        \/ \E t \in Transfers : Worker(t) \/ Hang(t)
  BY DEF Next, Application, SetURL, SetCallback, Reset, Finished, threadVars, ioVars,
     histVars, vars
<1> QED
  BY <1>1, <1>2, <1>3, <1>4, <1>5, <1>6, <1>7 DEF Promise!Next

\* Whatever happens to sockets, proxies and redirects, the application sees
\* transfers that begin, announce their one callback and then succeed, or fail.
THEOREM PromiseKept == Spec => KeepsPromise
BY PromiseInit, PromiseStep, DisciplineAlways, CallbacksAccounted, PTL
DEF Spec, KeepsPromise, Promise!Spec
===============================================================================
