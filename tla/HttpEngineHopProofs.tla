-------------------------- MODULE HttpEngineHopProofs --------------------------
(***************************************************************************)
(* Theorems about the hops of a transfer: which sockets are connected, to  *)
(* whom, whether a proxy is used and what can end the process.             *)
(*                                                                         *)
(* They rest on one more invariant, HopState, which says of every place in *)
(* send() and receive() what the fields that outlive a hop may hold there. *)
(***************************************************************************)
EXTENDS HttpEngineProofs

\* reset() is called with nobody in the engine.
FreshMeansQuiet == fresh => \A t \in Transfers : ~Active(t)

AtStart == \E t \in Transfers : pc[t] \in {"send", "resolve"}

\* A socket that is connected is the one disconnect() will look at, and no hop is
\* about to connect it.  lost excuses the plain socket only.
Settled(y) == Connected(y) => httpType = y /\ ~fresh /\ ~AtStart
SocketsSettled ==
  tidy => Settled("SSL_HTTPS") /\ (~lost => Settled("PLAIN_HTTP"))

\* http_proxy is clear until the first URL of the transfer is parsed.
ProxyClear ==
  tidy =>
    /\ fresh => ~httpProxy
    /\ \A t \in Transfers : pc[t] = "send" /\ requests = 0 => ~httpProxy

\* Where a transfer can die.
DeathState ==
  \A t \in Transfers :
    /\ pc[t] = "receive" => requests > 0
    /\ pc[t] = "tunnel" => httpProxy
    /\ pc[t] = "send" /\ requests = 0 /\ named => res[response].url # NoMatch

HopState ==
  /\ FreshMeansQuiet /\ SocketsSettled /\ ProxyClear /\ DeathState
  /\ RequestReachesTarget /\ ProxyAsConfigured /\ DeathNeedsCause

\* The places the parts of HopState speak of.
Places == {"send", "resolve", "connect", "tunnel", "handshake", "request", "receive"}

-------------------------------------------------------------------------------
(* Steps of the application and of the io_service.                         *)

LEMMA HopInit == Init => HopState
BY DEF Init, HopState, FreshMeansQuiet, SocketsSettled, Settled, Connected, ProxyClear, DeathState,
   RequestReachesTarget, ProxyAsConfigured, DeathNeedsCause, Active, AtStart, Types

\* disconnect() that returns has closed the socket of the current type, or lost it.
LEMMA DisconnectSettles ==
  ASSUME EngineTypeOK, SocketsSettled, tidy, DisconnectReturns
  PROVE  /\ \A y \in Types : Connected(y)' => Connected(y)
         /\ ~Connected("SSL_HTTPS")'
         /\ ~lost' => ~Connected("PLAIN_HTTP")'
BY DEF EngineTypeOK, SocketsSettled, Settled, DisconnectReturns, SocketCloses,
   PlainShutdownFails, Connected, Types

LEMMA ApplicationKeepsHops ==
  ASSUME Discipline, HopState, ~crashed, Application
  PROVE  HopState'
<1>t. EngineTypeOK /\ ResponseTypeOK /\ ThreadTypeOK
  BY DEF Discipline, TypeOK
<1>1. ASSUME NEW r \in Responses, NEW u \in MatchedURLs, SetURL(r, u)
      PROVE  HopState'
  <2>1. \A t \in Transfers : pc[t] \notin Places
    BY <1>1, IdleMeansAlone DEF SetURL, Active, Places
  <2> QED
    BY <1>1, <2>1 DEF SetURL, HopState, FreshMeansQuiet, SocketsSettled, Settled, Connected,
       ProxyClear, DeathState, RequestReachesTarget, ProxyAsConfigured, DeathNeedsCause,
       Active, AtStart, Places, engineVars, threadVars, histVars
<1>2. CASE SetCallback
  BY <1>2 DEF SetCallback, HopState, FreshMeansQuiet, SocketsSettled, Settled, Connected,
     ProxyClear, DeathState, RequestReachesTarget, ProxyAsConfigured, DeathNeedsCause,
     Active, AtStart, threadVars, histVars
<1>3. ASSUME NEW t \in Transfers, NEW r \in Responses, Starttransfer(t, r)
      PROVE  HopState'
  <2>1. \A u \in Transfers : pc'[u] \in Places => u = t
    BY <1>3, <1>t, IdleMeansAlone DEF Starttransfer, Active, Places, ThreadTypeOK
  <2>2. /\ pc'[t] = "send" /\ response' = r /\ requests' = 0 /\ ~fresh' /\ (tidy' => tidy /\ fresh)
        /\ named' = (res[r].url # NoMatch)
        /\ UNCHANGED <<httpType, httpProxy, sock, res, crashed, lost>>
    BY <1>3, <1>t DEF Starttransfer, ThreadTypeOK
  <2>3. FreshMeansQuiet' /\ DeathNeedsCause'
    BY <2>2 DEF FreshMeansQuiet, DeathNeedsCause
  <2>4. SocketsSettled'
    BY <2>2 DEF SocketsSettled, Settled, Connected, HopState
  <2>5. ProxyClear' /\ ProxyAsConfigured' /\ DeathState' /\ RequestReachesTarget'
    BY <2>1, <2>2 DEF ProxyClear, ProxyAsConfigured, DeathState, RequestReachesTarget, HopState, Places
  <2> QED
    BY <2>3, <2>4, <2>5 DEF HopState
<1>4. CASE Reset
  <2>1. \A t \in Transfers : ~Active(t) /\ ~Active(t)' /\ pc'[t] \notin Places
    BY <1>4, IdleMeansAlone DEF Reset, Active, Places, threadVars
  <2>2. tidy => ~Connected("SSL_HTTPS")' /\ (~lost' => ~Connected("PLAIN_HTTP")')
    BY <1>4, <1>t, DisconnectSettles DEF Reset, HopState
  <2>3. ~httpProxy' /\ UNCHANGED <<tidy, crashed>>
    BY <1>4 DEF Reset, ProxyAfterReset
  <2> QED
    BY <1>4, <2>1, <2>2, <2>3 DEF HopState, FreshMeansQuiet, SocketsSettled, Settled,
       ProxyClear, DeathState, RequestReachesTarget, ProxyAsConfigured, DeathNeedsCause, Places
<1> QED
  BY <1>1, <1>2, <1>3, <1>4 DEF Application

-------------------------------------------------------------------------------
(* Steps of the worker.                                                    *)

\* Only the thread that steps is anywhere in send() or receive().
LEMMA OnlyWorker ==
  ASSUME Discipline, NEW t \in Transfers, Worker(t) \/ Hang(t)
  PROVE  /\ Active(t)
         /\ \A u \in Transfers : pc'[u] \in Places \/ pc[u] \in Places => u = t
<1>1. \A u \in Transfers : Active(u) => u = t
  BY WorkerMoves DEF Discipline, Owner
<1>2. \A u \in Transfers \ {t} : pc'[u] = pc[u]
  BY WorkerMoves DEF Discipline, TypeOK, ThreadTypeOK
<1> QED
  BY <1>1, <1>2, WorkerMoves DEF Active, Places

\* A step of a worker that changes no field of the engine and enters no new place.
LEMMA QuietWorkerKeepsHops ==
  ASSUME Discipline, HopState, ~crashed, NEW t \in Transfers, Worker(t) \/ Hang(t),
         pc'[t] \notin Places \/ pc'[t] = pc[t] \/ (pc[t] = "tunnel" /\ pc'[t] = "handshake")
           \/ (pc[t] = "resolve" /\ pc'[t] = "connect")
           \/ (pc[t] \in {"tunnel", "handshake"} /\ pc'[t] = "connect")
           \/ (pc[t] = "handshake" /\ pc'[t] = "request"),
         UNCHANGED <<httpType, httpProxy, response, sock, requests, named, fresh, tidy, lost, crashed>>,
         pc'[t] \in Places => UNCHANGED res
  PROVE  HopState'
<1>1. \A u \in Transfers : pc'[u] \in Places \/ pc[u] \in Places => u = t
  BY OnlyWorker
<1>2. ~fresh
  BY OnlyWorker DEF HopState, FreshMeansQuiet
<1>3. SocketsSettled' /\ FreshMeansQuiet'
  BY <1>1, <1>2 DEF HopState, SocketsSettled, Settled, Connected, AtStart, Places, FreshMeansQuiet
<1>4. ProxyClear' /\ ProxyAsConfigured' /\ DeathNeedsCause' /\ DeathState' /\ RequestReachesTarget'
  BY <1>1 DEF HopState, ProxyClear, ProxyAsConfigured, DeathNeedsCause, DeathState,
     RequestReachesTarget, Places
<1> QED
  BY <1>3, <1>4 DEF HopState

LEMMA WorkerKeepsHops ==
  ASSUME Discipline, HopState, ~crashed, NEW t \in Transfers, Worker(t) \/ Hang(t)
  PROVE  HopState'
<1>t. EngineTypeOK /\ ResponseTypeOK /\ ThreadTypeOK /\ HistoryTypeOK /\ response \in Responses
  BY OnlyWorker, WorkerHasResponse DEF Discipline, TypeOK
<1>o. /\ \A u \in Transfers : pc'[u] \in Places \/ pc[u] \in Places => u = t
      /\ ~fresh
  BY OnlyWorker DEF HopState, FreshMeansQuiet
<1> DEFINE U == res[response].url
<1>1. CASE ParseUnmatchedURL(t) \/ ParseUnmatchedProxy(t) \/ TunnelRefused(t)
  <2>1. UNCHANGED <<pc, httpType, httpProxy, response, res, sock, requests, named, fresh, tidy, lost>>
    BY <1>1 DEF ParseUnmatchedURL, ParseUnmatchedProxy, TunnelRefused, engineVars, threadVars,
       histVars
  <2>2. httpProxy \/ ProxyMalformed(U) \/ requests > 0 \/ ~named
    BY <1>1, <1>t DEF ParseUnmatchedURL, ParseUnmatchedProxy, TunnelRefused, HopState, DeathState,
       HistoryTypeOK
  <2> QED
    BY <2>1, <2>2 DEF HopState, FreshMeansQuiet, SocketsSettled, Settled, Connected, AtStart,
       ProxyClear, DeathState, RequestReachesTarget, ProxyAsConfigured, DeathNeedsCause, Active,
       ProxyMalformed
<1>2. CASE ParseURL(t)
  <2>1. /\ pc[t] = "send" /\ pc'[t] = "resolve" /\ response' = response
        /\ httpProxy' = (httpProxy \/ U.scheme \in ProxyEnv)
        /\ UNCHANGED <<sock, requests, named, fresh, tidy, lost, crashed>>
    BY <1>2, <1>t DEF ParseURL, Goes, ThreadTypeOK, histVars
  <2>2. res'[response].url = U
    BY <1>2, <1>t DEF ParseURL, ResponseTypeOK
  <2>3. SocketsSettled' /\ FreshMeansQuiet'
    BY <1>o, <2>1 DEF HopState, SocketsSettled, Settled, Connected, AtStart, FreshMeansQuiet
  <2>4. ProxyClear' /\ ProxyAsConfigured' /\ DeathNeedsCause' /\ DeathState' /\ RequestReachesTarget'
    BY <1>o, <1>t, <2>1, <2>2 DEF HopState, ProxyClear, ProxyAsConfigured, DeathNeedsCause, DeathState,
       RequestReachesTarget, Places
  <2> QED
    BY <2>3, <2>4 DEF HopState
<1>3. CASE ConnectFails(t)
  <2>1. /\ pc[t] = "connect" /\ pc'[t] \in {"connect", "done"}
        /\ \A y \in Types : Connected(y)' <=> Connected(y)
        /\ UNCHANGED <<httpType, httpProxy, response, res, requests, named, fresh, tidy, lost, crashed>>
    BY <1>3, <1>t DEF ConnectFails, NextEndpoint, Goes, Throws, ThreadTypeOK, EngineTypeOK, Connected,
       engineVars, histVars
  <2>2. SocketsSettled' /\ FreshMeansQuiet'
    BY <1>o, <2>1 DEF HopState, SocketsSettled, Settled, AtStart, Places, FreshMeansQuiet, Types
  <2>3. ProxyClear' /\ ProxyAsConfigured' /\ DeathNeedsCause' /\ DeathState' /\ RequestReachesTarget'
    BY <1>o, <2>1 DEF HopState, ProxyClear, ProxyAsConfigured, DeathNeedsCause, DeathState,
       RequestReachesTarget, Places
  <2> QED
    BY <2>2, <2>3 DEF HopState
<1>4. CASE ConnectSucceeds(t)
  <2>1. /\ pc[t] = "connect" /\ pc'[t] \in {"request", "handshake", "tunnel"}
        /\ pc'[t] = "tunnel" => httpProxy
        /\ sock' = [sock EXCEPT ![httpType] = Destination(U)]
        /\ UNCHANGED <<httpType, httpProxy, response, res, requests, named, fresh, tidy, lost, crashed>>
    BY <1>4, <1>t DEF ConnectSucceeds, SocketConnects, AfterConnect, EndpointUsed, Goes, ThreadTypeOK,
       engineVars, histVars
  <2>2. sock'[httpType] = Destination(U) /\ \A y \in Types \ {httpType} : sock'[y] = sock[y]
    BY <1>t, <2>1 DEF EngineTypeOK
  <2>3. SocketsSettled' /\ FreshMeansQuiet'
    BY <1>o, <1>t, <2>1, <2>2 DEF HopState, SocketsSettled, Settled, Connected, AtStart, Places,
       FreshMeansQuiet, Types, EngineTypeOK
  <2>4. ProxyClear' /\ ProxyAsConfigured' /\ DeathNeedsCause' /\ DeathState' /\ RequestReachesTarget'
    BY <1>o, <2>1, <2>2 DEF HopState, ProxyClear, ProxyAsConfigured, DeathNeedsCause, DeathState,
       RequestReachesTarget, Places
  <2> QED
    BY <2>3, <2>4 DEF HopState
<1>5. CASE Request(t)
  <2>1. /\ pc[t] = "request" /\ pc'[t] \in {"receive", "done"}
        /\ pc'[t] = "receive" => requests' > 0
        /\ requests > 0 => requests' > 0
        /\ UNCHANGED <<httpType, httpProxy, response, res, sock, named, fresh, tidy, lost, crashed>>
    BY <1>5, <1>t, EngineAssumption DEF Request, Goes, Throws, ThreadTypeOK, HistoryTypeOK, RequestCap,
       engineVars
  <2>2. SocketsSettled' /\ FreshMeansQuiet'
    BY <1>o, <2>1 DEF HopState, SocketsSettled, Settled, Connected, AtStart, Places, FreshMeansQuiet
  <2>3. ProxyClear' /\ ProxyAsConfigured' /\ DeathNeedsCause' /\ DeathState' /\ RequestReachesTarget'
    BY <1>o, <2>1 DEF HopState, ProxyClear, ProxyAsConfigured, DeathNeedsCause, DeathState,
       RequestReachesTarget, Places
  <2> QED
    BY <2>2, <2>3 DEF HopState
<1>6. ASSUME NEW s \in Codes, NEW u \in URLs, FollowRedirect(t, s, u)
      PROVE  HopState'
  <2>1. /\ pc[t] = "receive" /\ pc'[t] \in {"send", "done"}
        /\ pc'[t] = "send" => DisconnectReturns
        /\ UNCHANGED <<httpType, httpProxy, response, requests, named, fresh, tidy, crashed>>
        /\ DisconnectReturns \/ UNCHANGED <<sock, lost>>
    BY <1>6, <1>t DEF FollowRedirect, ReceiveRedirect, DisconnectThrows, Goes, Throws, ThreadTypeOK
  <2>2. SocketsSettled' /\ FreshMeansQuiet'
    BY <1>o, <1>t, <2>1, DisconnectSettles DEF HopState, SocketsSettled, Settled, Connected, AtStart,
       Places, FreshMeansQuiet, Types
  <2>3. ProxyClear' /\ ProxyAsConfigured' /\ DeathNeedsCause' /\ DeathState' /\ RequestReachesTarget'
    BY <1>o, <2>1 DEF HopState, ProxyClear, ProxyAsConfigured, DeathNeedsCause, DeathState,
       RequestReachesTarget, Places
  <2> QED
    BY <2>2, <2>3 DEF HopState
<1>7. ASSUME NEW s \in Codes, TooManyRedirects(t, s)
      PROVE  HopState'
  <2>1. /\ pc[t] = "receive" /\ pc'[t] \in {"post", "done"}
        /\ UNCHANGED <<httpType, httpProxy, response, requests, named, fresh, tidy, crashed>>
        /\ DisconnectReturns \/ UNCHANGED <<sock, lost>>
    BY <1>7, <1>t DEF TooManyRedirects, ReceiveRedirect, DisconnectThrows, Goes, Throws, ThreadTypeOK
  <2>2. SocketsSettled' /\ FreshMeansQuiet'
    BY <1>o, <1>t, <2>1, DisconnectSettles DEF HopState, SocketsSettled, Settled, Connected, AtStart,
       Places, FreshMeansQuiet, Types
  <2>3. ProxyClear' /\ ProxyAsConfigured' /\ DeathNeedsCause' /\ DeathState' /\ RequestReachesTarget'
    BY <1>o, <2>1 DEF HopState, ProxyClear, ProxyAsConfigured, DeathNeedsCause, DeathState,
       RequestReachesTarget, Places
  <2> QED
    BY <2>2, <2>3 DEF HopState
<1>8. CASE Resolve(t) \/ Tunnel(t) \/ Handshake(t)
  BY <1>8, <1>t, QuietWorkerKeepsHops DEF Resolve, Tunnel, Handshake, NextEndpoint, EndpointUsed,
     Goes, Throws, ThreadTypeOK, engineVars, histVars, Places
<1>9. CASE Hang(t) \/ ReceiveEndsEarly(t) \/ ReceiveThrows(t) \/ Post(t) \/ Return(t)
           \/ \E s \in Codes :
                ReceiveFatalStatus(t, s) \/ ReceiveBody(t, s) \/ RedirectWithoutLocation(t, s)
  BY <1>9, <1>t, QuietWorkerKeepsHops DEF Hang, ReceiveEndsEarly, ReceiveThrows, Post, Return,
     ReceiveFatalStatus, ReceiveBody, ReceiveRedirect, RedirectWithoutLocation, Goes, Throws,
     ThreadTypeOK, engineVars, histVars, Places
<1> QED
  BY <1>1, <1>2, <1>3, <1>4, <1>5, <1>6, <1>7, <1>8, <1>9 DEF Worker

\* Running a handler, or nothing at all, changes none of the fields HopState reads.
LEMMA OthersKeepHops ==
  ASSUME HopState,
         UNCHANGED vars \/ \E t \in Transfers, r \in Responses : RunHandler(t, r)
  PROVE  HopState'
<1>1. UNCHANGED <<pc, httpType, httpProxy, response, res, sock, requests, named, fresh, tidy,
                  lost, crashed>>
  BY DEF RunHandler, vars, engineVars, threadVars, histVars
<1> QED
  BY <1>1 DEF HopState, FreshMeansQuiet, SocketsSettled, Settled, Connected, AtStart,
     ProxyClear, DeathState, RequestReachesTarget, ProxyAsConfigured, DeathNeedsCause, Active

\* HopState is inductive, given Discipline.
LEMMA HopStep == Discipline /\ HopState /\ [Next]_vars => HopState'
<1> SUFFICES ASSUME Discipline, HopState, [Next]_vars PROVE HopState'
  OBVIOUS
<1>1. CASE ~crashed /\ Application
  BY <1>1, ApplicationKeepsHops
<1>2. ASSUME ~crashed, NEW t \in Transfers, Worker(t) \/ Hang(t)
      PROVE  HopState'
  BY <1>2, WorkerKeepsHops
<1>3. CASE UNCHANGED vars \/ \E t \in Transfers, r \in Responses : RunHandler(t, r)
  BY <1>3, OthersKeepHops
<1> QED
  BY <1>1, <1>2, <1>3 DEF Next, Finished

-------------------------------------------------------------------------------
(* The theorems.                                                           *)

\* What the fields that outlive a hop may hold at each place of the worker.
THEOREM HopStateAlways == Spec => []HopState
BY HopInit, HopStep, DisciplineAlways, PTL DEF Spec

\* No hop of an application that resets before every transfer starts with a
\* connection left over, unless shutting down the plain socket failed.
THEOREM SocketsAreReady == Spec => []SocketsReady
<1>1. HopState /\ Discipline => SocketsReady
  BY DEF HopState, SocketsSettled, Settled, AtStart, SocketsReady, Types
<1> QED
  BY <1>1, HopStateAlways, DisciplineAlways, PTL

\* No request goes to another host than its URL or the proxy variable names,
\* however many redirects and transfers came before it.
THEOREM RequestsReachTargets == Spec => []RequestReachesTarget
<1>1. HopState => RequestReachesTarget
  BY DEF HopState
<1> QED
  BY <1>1, HopStateAlways, PTL

\* The first hop after a reset uses the proxy exactly when the environment says so.
THEOREM ProxyConfigured == Spec => []ProxyAsConfigured
<1>1. HopState => ProxyAsConfigured
  BY DEF HopState
<1> QED
  BY <1>1, HopStateAlways, PTL

\* The process dies only with a proxy in use, of a redirect's URL, or of a URL
\* the application left unset or malformed.
THEOREM DeathsHaveCauses == Spec => []DeathNeedsCause
<1>1. HopState => DeathNeedsCause
  BY DEF HopState
<1> QED
  BY <1>1, HopStateAlways, PTL

-------------------------------------------------------------------------------
(* The engine implements TransferLoop.                                     *)

\* The stage of a worker that has pc x.
StageAt(x) ==
  IF x \in {"new", "post", "return", "done"} THEN "rest"
  ELSE IF x \in {"receive", "hung"} THEN x ELSE "send"

LEMMA LoopInit == Init => Loop!Init
BY DEF Init, Loop!Init, Stage, StatusSoFar

\* Between transfers the loop rests.
LEMMA IdleIsRest ==
  ASSUME Discipline, Idle
  PROVE  Stage = "rest"
BY IdleMeansAlone DEF Stage, Discipline, TypeOK, EngineTypeOK

\* While a worker runs, the loop is where that worker is.
LEMMA StageOfWorker ==
  ASSUME Discipline, NEW t \in Transfers, Worker(t) \/ Hang(t)
  PROVE  /\ Stage = StageAt(pc[t]) /\ Stage' = StageAt(pc'[t])
         /\ response \in Responses
         /\ StatusSoFar = res[response].status /\ StatusSoFar' = res'[response].status
<1>t. EngineTypeOK /\ ThreadTypeOK
  BY DEF Discipline, TypeOK
<1>1. Status = t /\ Status' = t /\ response' = response /\ response \in Responses /\ Active(t)
  BY WorkerMoves DEF Discipline, Owner
<1>2. t # None /\ response # None
  BY <1>1, EngineAssumption
<1> QED
  BY <1>1, <1>2 DEF Stage, StatusSoFar, StageAt, Active

\* Every step of a worker is a step of the loop or a stutter.
LEMMA WorkerFollowsLoop ==
  ASSUME Discipline, NEW t \in Transfers, Worker(t) \/ Hang(t)
  PROVE  [Loop!Next]_(Loop!vars)
<1>t. EngineTypeOK /\ ResponseTypeOK /\ ThreadTypeOK
  BY DEF Discipline, TypeOK
<1>s. /\ Stage = StageAt(pc[t]) /\ Stage' = StageAt(pc'[t])
      /\ response \in Responses
      /\ StatusSoFar = res[response].status /\ StatusSoFar' = res'[response].status
  BY StageOfWorker
<1> USE DEF ThreadTypeOK, StageAt
<1>1. CASE ParseURL(t)
  <2>1. res'[response].status = res[response].status
    BY <1>1, <1>t, <1>s DEF ParseURL, ResponseTypeOK
  <2> QED
    BY <1>1, <1>t, <1>s, <2>1 DEF ParseURL, Goes, Loop!vars
<1>2. CASE ParseUnmatchedURL(t) \/ ParseUnmatchedProxy(t) \/ TunnelRefused(t)
  BY <1>2, <1>s DEF ParseUnmatchedURL, ParseUnmatchedProxy, TunnelRefused, Loop!vars, engineVars,
     threadVars
<1>3. CASE Resolve(t) \/ ConnectFails(t) \/ ConnectSucceeds(t) \/ Tunnel(t) \/ Handshake(t)
  <2>1. /\ pc[t] \in {"resolve", "connect", "tunnel", "handshake"}
        /\ pc'[t] \in {"connect", "tunnel", "handshake", "request", "done"}
        /\ UNCHANGED <<res, redirtimes>>
    BY <1>3, <1>t DEF Resolve, ConnectFails, ConnectSucceeds, AfterConnect, Tunnel, Handshake,
       NextEndpoint, EndpointUsed, Goes, Throws, engineVars
  <2> QED
    BY <1>s, <2>1 DEF Loop!vars, Loop!Next, Loop!End
<1>4. CASE Request(t)
  <2>1. pc[t] = "request" /\ pc'[t] \in {"receive", "done"} /\ UNCHANGED <<res, redirtimes>>
    BY <1>4, <1>t DEF Request, Goes, Throws, engineVars
  <2> QED
    BY <1>s, <2>1 DEF Loop!Next, Loop!Send, Loop!End
<1>5. CASE ReceiveEndsEarly(t) \/ ReceiveThrows(t)
  <2>1. pc[t] = "receive" /\ pc'[t] \in {"post", "done"} /\ UNCHANGED <<res, redirtimes>>
    BY <1>5, <1>t DEF ReceiveEndsEarly, ReceiveThrows, Goes, Throws, engineVars
  <2> QED
    BY <1>s, <2>1 DEF Loop!Next, Loop!End
<1>6. ASSUME NEW s \in Codes, ReceiveFatalStatus(t, s) \/ ReceiveBody(t, s)
      PROVE  Loop!Refused \/ Loop!Accept
  <2>1. /\ pc[t] = "receive" /\ pc'[t] \in {"post", "done"} /\ res' = WithStatus(s)
        /\ UNCHANGED redirtimes /\ (s >= 400 \/ s < 300)
    BY <1>6, <1>t, EngineAssumption DEF ReceiveFatalStatus, ReceiveBody, ParseStatus, IsRedirect,
       Goes, Throws, engineVars
  <2>2. res'[response].status = s
    BY <1>t, <1>s, <2>1 DEF WithStatus, ResponseTypeOK
  <2> QED
    BY <1>s, <2>1, <2>2 DEF Loop!Refused, Loop!Accept
<1>7. ASSUME NEW s \in Codes,
             \/ TooManyRedirects(t, s) \/ RedirectWithoutLocation(t, s)
             \/ \E u \in URLs : FollowRedirect(t, s, u)
      PROVE  Loop!Redirect
  <2>1. pc[t] = "receive" /\ redirtimes' = redirtimes + 1 /\ s \in 300..399
    BY <1>7, EngineAssumption DEF TooManyRedirects, RedirectWithoutLocation, FollowRedirect,
       ReceiveRedirect, RedirectCount, ParseStatus, IsRedirect
  <2>2. ASSUME res' = WithStatus(s), pc'[t] = "post"
        PROVE  Loop!Redirect
    <3>1. res'[response].status = s
      BY <1>t, <1>s, <2>2 DEF WithStatus, ResponseTypeOK
    <3> QED
      BY <1>s, <2>1, <2>2, <3>1 DEF Loop!Redirect
  <2>3. CASE TooManyRedirects(t, s) \/ RedirectWithoutLocation(t, s)
    <3>1. \/ res' = WithStatus(s) /\ pc'[t] = "post"
          \/ UNCHANGED res /\ pc'[t] = "done"
      BY <1>t, <2>3 DEF TooManyRedirects, RedirectWithoutLocation, Goes, Throws
    <3> QED
      BY <1>s, <2>1, <2>2, <3>1 DEF Loop!Redirect
  <2>4. ASSUME NEW u \in URLs, FollowRedirect(t, s, u)
        PROVE  Loop!Redirect
    <3>1. pc'[t] \in {"send", "done"} /\ redirtimes <= RedirectLimit
      BY <1>t, <2>4, EngineAssumption DEF FollowRedirect, RedirectExhausted, Goes, Throws, EngineTypeOK
    <3>2. res'[response].status = res[response].status
      BY <1>t, <1>s, <2>4 DEF FollowRedirect, ResponseTypeOK
    <3> QED
      BY <1>s, <2>1, <3>1, <3>2 DEF Loop!Redirect
  <2> QED
    BY <1>7, <2>3, <2>4
<1>8. CASE Post(t) \/ Return(t)
  BY <1>8, <1>t, <1>s DEF Post, Return, MayReturn, Goes, Loop!vars, engineVars
<1>9. CASE Hang(t)
  BY <1>9, <1>t, <1>s DEF Hang, Goes, Loop!Next, Loop!Hang, engineVars
<1> QED
  BY <1>1, <1>2, <1>3, <1>4, <1>5, <1>6, <1>7, <1>8, <1>9 DEF Worker, Loop!Next

\* Every step of the engine is a step of the loop or a stutter.
LEMMA LoopStep == Discipline /\ [Next]_vars => [Loop!Next]_(Loop!vars)
<1> SUFFICES ASSUME Discipline, [Next]_vars PROVE [Loop!Next]_(Loop!vars)
  OBVIOUS
<1>t. EngineTypeOK /\ ResponseTypeOK /\ ThreadTypeOK
  BY DEF Discipline, TypeOK
<1>1. CASE UNCHANGED <<Status, response, res, pc, redirtimes>>
  BY <1>1 DEF Loop!vars, Stage, StatusSoFar, Active
<1>2. ASSUME NEW r \in Responses, NEW u \in MatchedURLs, SetURL(r, u)
      PROVE  UNCHANGED Loop!vars
  <2>1. \A q \in Responses : res'[q].status = res[q].status
    BY <1>t, <1>2 DEF SetURL, ResponseTypeOK
  <2> QED
    BY <1>t, <1>2, <2>1 DEF SetURL, Loop!vars, Stage, StatusSoFar, Active, EngineTypeOK,
       engineVars, threadVars
<1>3. ASSUME NEW t \in Transfers, NEW r \in Responses, Starttransfer(t, r)
      PROVE  Loop!Start
  <2>1. Stage = "rest"
    BY <1>3, IdleIsRest DEF Starttransfer
  <2>2. Stage' = "send"
    BY <1>3, <1>t, EngineAssumption DEF Starttransfer, Stage, Active, ThreadTypeOK
  <2>3. StatusSoFar' \in Nat /\ UNCHANGED redirtimes
    BY <1>3, <1>t, EngineAssumption DEF Starttransfer, StatusSoFar, ResponseTypeOK
  <2> QED
    BY <2>1, <2>2, <2>3 DEF Loop!Start
<1>4. CASE Reset
  <2>1. Stage = "rest"
    BY <1>4, IdleIsRest DEF Reset
  <2>2. Stage' = Stage /\ redirtimes' = 0
    BY <1>4 DEF Reset, Stage, Active, threadVars
  <2>3. StatusSoFar' = 0
    BY <1>4, <1>t DEF Reset, StatusSoFar, ClearedResponse, ResponseTypeOK, EngineTypeOK
  <2> QED
    BY <2>1, <2>2, <2>3 DEF Loop!Reset, Loop!Next
<1>5. ASSUME NEW t \in Transfers, Worker(t) \/ Hang(t)
      PROVE  [Loop!Next]_(Loop!vars)
  BY <1>5, WorkerFollowsLoop
<1> QED
  BY <1>1, <1>2, <1>3, <1>4, <1>5
  DEF Next, Application, SetCallback, RunHandler, Finished, Loop!Next, vars, engineVars, threadVars

\* Hop by hop the engine is TransferLoop: it follows at most as many redirects as
\* redirtimes allows, and no status but a final one outlives a hop.
THEOREM LoopFollowed == Spec => FollowsLoop
BY LoopInit, LoopStep, DisciplineAlways, PTL DEF Spec, FollowsLoop, Loop!Spec
===============================================================================
