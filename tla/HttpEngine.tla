------------------------------ MODULE HttpEngine ------------------------------
(***************************************************************************)
(* One http_engine object: the application that starts transfers and polls *)
(* getCompletion(), the worker thread each Starttransfer creates, and the  *)
(* threads that run the postback io_service.                               *)
(*                                                                         *)
(* connect(), send(), receive() and disconnect() run on the worker; the    *)
(* model cuts them where the thread blocks in the network, so that every   *)
(* step is one piece of straight-line code between two blocking calls.     *)
(* What receive() does byte by byte is module HttpReceive; here only the   *)
(* way it ends matters.                                                    *)
(*                                                                         *)
(* A definition whose name ends in Bug is a plausible mistake in the code  *)
(* its unsuffixed twin models.  No specification uses it: each shows that  *)
(* some property would notice.                                             *)
(***************************************************************************)
EXTENDS Naturals

CONSTANTS
  Transfers,      \* the successive calls of Starttransfer
  Responses,      \* the http_response objects the application owns
  Hosts,          \* host names that occur in URLs
  Schemes,        \* kinds of URL that occur: see URLs
  ProxyEnv,       \* schemes whose <scheme>_proxy environment variable names Proxy
  MalformedEnv,   \* schemes whose variable is set to what the expression does not match
  Codes,          \* status codes servers answer with
  MaxEndpoints,   \* most endpoints one resolve() returns
  RedirectLimit,  \* the literal 5 of receive()
  Proxy,          \* the host that those variables name
  None,           \* no transfer, response, host or Location
  NoMatch         \* every URL the expression in send() does not match

ASSUME EngineAssumption ==
  /\ MaxEndpoints \in Nat \ {0}
  /\ RedirectLimit \in Nat
  /\ Schemes \subseteq {"http", "https", "none"}
  /\ ProxyEnv \subseteq {"http", "https"}
  /\ MalformedEnv \subseteq {"http", "https"} \ ProxyEnv
  /\ Codes \subseteq Nat \ {0}
  /\ None \notin Transfers \cup Responses \cup Hosts
  /\ {"closed", "open", Proxy} \cap Hosts = {}
  /\ Proxy \notin {"closed", "open"}

\* A URL as send() sees it.  Scheme "none" stands for a URL without protocol
\* (the expression makes it optional) or with one that is neither http nor https.
MatchedURLs == [scheme : Schemes, host : Hosts]
URLs == MatchedURLs \cup {NoMatch}

Types == {"PLAIN_HTTP", "SSL_HTTPS"}

VARIABLES
  \* http_engine
  httpType,       \* http_type
  httpProxy,      \* http_proxy is HTTP_PROXY
  redirtimes,
  response,       \* this->response; None is the object the constructor made
  Status,         \* the transfer whose future Status holds, or None
  callbackSet,    \* CallbackFunction is not empty
  sock,           \* sock[y]: "closed", "open" (created) or the host it is connected to
  \* the application's http_response objects: url, status, sendheaders["Host"]
  res,
  \* the worker threads and their futures
  pc,
  left,           \* endpoints send() has not tried yet
  future,         \* "pending", "value" or "exception"
  result,         \* what the future yields
  \* handlers of the postback io_service
  pending,        \* pending[t][r]: posted by t with r and not run
  ran,            \* ran[t][r]: run
  called,         \* called[t][r]: run with a CallbackFunction set
  \* environment
  crashed,        \* the process has been terminated
  \* history
  given,          \* given[t]: the response passed to Starttransfer
  requests,       \* requests the transfer in Status has sent, up to RequestCap
  named,          \* that transfer's response had a URL that matches
  fresh,          \* no transfer started since the engine was made or reset
  tidy,           \* every transfer so far started fresh
  lost            \* the plain socket is connected because its shutdown failed

engineVars == <<httpType, httpProxy, redirtimes, response, Status, callbackSet>>
threadVars == <<pc, left, future, result>>
ioVars     == <<pending, ran, called>>
histVars   == <<given, requests, named, fresh, tidy, lost>>
vars == <<engineVars, sock, res, threadVars, ioVars, crashed, histVars>>

PCs == {"new", "send", "resolve", "connect", "tunnel", "handshake", "request",
        "receive", "hung", "post", "return", "done"}

Connected(y) == sock[y] \notin {"closed", "open"}

Active(t) == pc[t] \notin {"new", "done"}

\* requests only serves properties: the bound keeps it finite when they fail.
RequestCap == RedirectLimit + 3

\* The state the constructor leaves: reset() ran with http_type uninitialised,
\* which is harmless because both sockets are still closed.
Init ==
  /\ httpType = "PLAIN_HTTP" /\ httpProxy = FALSE /\ redirtimes = 0
  /\ response = None /\ Status = None /\ callbackSet = FALSE
  /\ sock = [y \in Types |-> "closed"]
  /\ res = [r \in Responses |-> [url |-> NoMatch, status |-> 0, host |-> None]]
  /\ pc = [t \in Transfers |-> "new"]
  /\ left = [t \in Transfers |-> 0]
  /\ future = [t \in Transfers |-> "pending"]
  /\ result = [t \in Transfers |-> None]
  /\ pending = [t \in Transfers |-> [r \in Responses |-> 0]]
  /\ ran = [t \in Transfers |-> [r \in Responses |-> 0]]
  /\ called = [t \in Transfers |-> [r \in Responses |-> 0]]
  /\ crashed = FALSE
  /\ given = [t \in Transfers |-> None]
  /\ requests = 0 /\ named = FALSE
  /\ fresh = TRUE /\ tidy = TRUE /\ lost = FALSE

-------------------------------------------------------------------------------
(* disconnect(): it looks only at the socket of the current http_type.     *)

\* shutdown and close succeed.  A plain socket that never connected cannot be
\* shut down, so only a connected one is closed.
SocketCloses ==
  /\ sock[httpType] # "closed"
  /\ httpType = "PLAIN_HTTP" => Connected(httpType)
  /\ sock' = [sock EXCEPT ![httpType] = "closed"]
  /\ lost' = (lost /\ httpType # "PLAIN_HTTP")

\* socket.shutdown throws: the handler only logs and close() is skipped.
PlainShutdownFails ==
  /\ httpType = "PLAIN_HTTP"
  /\ sock[httpType] # "closed"
  /\ lost' = (lost \/ Connected(httpType))
  /\ UNCHANGED sock

DisconnectReturnsBug == UNCHANGED <<sock, lost>>
DisconnectReturns ==
  \/ sock[httpType] = "closed" /\ UNCHANGED <<sock, lost>>
  \/ SocketCloses
  \/ PlainShutdownFails

\* "throw se" throws an error_code, which no handler of disconnect() catches.
DisconnectThrows ==
  /\ httpType = "SSL_HTTPS"
  /\ sock[httpType] # "closed"
  /\ UNCHANGED <<sock, lost>>

-------------------------------------------------------------------------------
(* The application.                                                        *)

GetCompletionBug == Status # None
GetCompletion == Status # None /\ future[Status] # "pending"

\* The application leaves engine and responses alone while a transfer runs.
Idle == Status = None \/ GetCompletion

SetURL(r, u) ==
  /\ Idle
  /\ res' = [res EXCEPT ![r].url = u]
  /\ UNCHANGED <<engineVars, sock, threadVars, ioVars, crashed, histVars>>

\* The application registers its function once and keeps it.
SetCallback ==
  /\ ~callbackSet
  /\ callbackSet' = TRUE
  /\ UNCHANGED <<httpType, httpProxy, redirtimes, response, Status, sock, res,
                 threadVars, ioVars, crashed, histVars>>

Starttransfer(t, r) ==
  /\ Idle /\ pc[t] = "new"
  /\ response' = r
  /\ Status' = t
  /\ pc' = [pc EXCEPT ![t] = "send"]
  /\ given' = [given EXCEPT ![t] = r]
  /\ tidy' = (tidy /\ fresh) /\ fresh' = FALSE
  /\ requests' = 0 /\ named' = (res[r].url # NoMatch)
  /\ UNCHANGED <<httpType, httpProxy, redirtimes, callbackSet, sock, res, left,
                 future, result, ioVars, crashed, lost>>

\* http_response::reset keeps sendheaders.
ClearedResponse(x) == [x EXCEPT !.url = NoMatch, !.status = 0]

ProxyAfterResetBug == httpProxy
ProxyAfterReset == FALSE

\* When disconnect() throws, reset() is left at once with nothing changed.
Reset ==
  /\ Idle
  /\ DisconnectReturns
  /\ httpType' = "PLAIN_HTTP" /\ httpProxy' = ProxyAfterReset /\ redirtimes' = 0
  /\ res' = [r \in Responses |-> IF r = response THEN ClearedResponse(res[r]) ELSE res[r]]
  /\ fresh' = TRUE
  /\ UNCHANGED <<response, Status, callbackSet, threadVars, ioVars, crashed,
                 given, requests, named, tidy>>

-------------------------------------------------------------------------------
(* The worker thread t: connect() calls send() until it returns false.     *)

\* An exception leaves connect(); the packaged_task stores it in the future.
Throws(t) ==
  /\ pc' = [pc EXCEPT ![t] = "done"]
  /\ future' = [future EXCEPT ![t] = "exception"]

Goes(t, where) ==
  /\ pc' = [pc EXCEPT ![t] = where]
  /\ UNCHANGED future

ProxyMalformed(u) == u # NoMatch /\ u.scheme \in MalformedEnv

\* url_parts is empty and url_parts[1] is read through a null pointer.
ParseUnmatchedURL(t) ==
  /\ pc[t] = "send"
  /\ res[response].url = NoMatch
  /\ crashed' = TRUE
  /\ UNCHANGED <<engineVars, sock, res, threadVars, ioVars, histVars>>

\* proxy_parts is empty, and proxy_parts[0] is read.  http_type and the Host header
\* are set by then, for nobody to see.
ParseUnmatchedProxy(t) ==
  /\ pc[t] = "send"
  /\ ProxyMalformed(res[response].url)
  /\ crashed' = TRUE
  /\ UNCHANGED <<engineVars, sock, res, threadVars, ioVars, histVars>>

\* Neither branch is taken for scheme "none": http_type is what it was.
TypeFor(u) ==
  CASE u.scheme = "http"  -> "PLAIN_HTTP"
    [] u.scheme = "https" -> "SSL_HTTPS"
    [] OTHER              -> httpType

HostHeaderBug(u) == IF u.scheme = "http" THEN u.host ELSE res[response].host
HostHeader(u) == IF u.scheme = "none" THEN res[response].host ELSE u.host

\* http_proxy is only ever set here; nothing takes it back between two hops.
ParseURL(t) ==
  LET u == res[response].url IN
  /\ pc[t] = "send"
  /\ u # NoMatch /\ ~ProxyMalformed(u)
  /\ httpType' = TypeFor(u)
  /\ httpProxy' = (httpProxy \/ u.scheme \in ProxyEnv)
  /\ res' = [res EXCEPT ![response].host = HostHeader(u)]
  /\ Goes(t, "resolve")
  /\ UNCHANGED <<redirtimes, response, Status, callbackSet, sock, left, result,
                 ioVars, crashed, histVars>>

Resolve(t) ==
  /\ pc[t] = "resolve"
  /\ \/ \E n \in 1..MaxEndpoints : left' = [left EXCEPT ![t] = n] /\ Goes(t, "connect")
     \/ Throws(t) /\ UNCHANGED left
  /\ UNCHANGED <<engineVars, sock, res, result, ioVars, crashed, histVars>>

\* The loop over the endpoints goes on, or connection_exception is thrown.
MoreEndpointsBug(n) == n >= 0
MoreEndpoints(n) == n > 1
NextEndpoint(t) ==
  /\ left' = [left EXCEPT ![t] = @ - 1]
  /\ IF MoreEndpoints(left[t]) THEN Goes(t, "connect") ELSE Throws(t)

\* break: the endpoints that remain are forgotten.
EndpointUsed(t) ==
  /\ left' = [left EXCEPT ![t] = 0]
  /\ Goes(t, "request")

\* A failed connect leaves the socket created.  A connected socket always
\* fails (EISCONN).
ConnectFails(t) ==
  /\ pc[t] = "connect"
  /\ sock' = [sock EXCEPT ![httpType] = IF @ = "closed" THEN "open" ELSE @]
  /\ NextEndpoint(t)
  /\ UNCHANGED <<engineVars, res, result, ioVars, crashed, histVars>>

\* The host that is resolved and connected to for a URL; one that does not match
\* names none and gets no further than ParseUnmatchedURL.
Destination(u) ==
  IF u = NoMatch THEN None ELSE IF u.scheme \in ProxyEnv THEN Proxy ELSE u.host

SocketConnectsBug(host) == sock' = [sock EXCEPT ![httpType] = IF Connected(httpType) THEN @ ELSE host]
SocketConnects(host) ==
  /\ ~Connected(httpType)
  /\ sock' = [sock EXCEPT ![httpType] = host]

AfterConnectBug == "tunnel"
AfterConnect == IF httpProxy THEN "tunnel" ELSE "handshake"

ConnectSucceeds(t) ==
  /\ pc[t] = "connect"
  /\ SocketConnects(Destination(res[response].url))
  /\ IF httpType = "PLAIN_HTTP"
     THEN EndpointUsed(t)
     ELSE Goes(t, AfterConnect) /\ UNCHANGED left
  /\ UNCHANGED <<engineVars, res, result, ioVars, crashed, histVars>>

\* CONNECT through a proxy.  An answer other than 200 reaches a "throw" with
\* no exception to rethrow, which ends the process.
TunnelRefused(t) ==
  /\ pc[t] = "tunnel"
  /\ crashed' = TRUE
  /\ UNCHANGED <<engineVars, sock, res, threadVars, ioVars, histVars>>

Tunnel(t) ==
  /\ pc[t] = "tunnel"
  /\ \/ Goes(t, "handshake") /\ UNCHANGED left
     \/ NextEndpoint(t)
  /\ UNCHANGED <<engineVars, sock, res, result, ioVars, crashed, histVars>>

Handshake(t) ==
  /\ pc[t] = "handshake"
  /\ \/ EndpointUsed(t)
     \/ NextEndpoint(t)
  /\ UNCHANGED <<engineVars, sock, res, result, ioVars, crashed, histVars>>

Request(t) ==
  /\ pc[t] = "request"
  /\ \/ /\ requests' = IF requests < RequestCap THEN requests + 1 ELSE requests
        /\ Goes(t, "receive")
     \/ Throws(t) /\ UNCHANGED requests
  /\ UNCHANGED <<engineVars, sock, res, left, result, ioVars, crashed,
                 given, named, fresh, tidy, lost>>

-------------------------------------------------------------------------------
(* The ends of receive().                                                  *)

ParseStatus(s) == s < 400
IsRedirect(s) == s >= 300 /\ s < 400
RedirectExhaustedBug(n) == n > RedirectLimit + 1
RedirectExhausted(n) == n > RedirectLimit
RedirectCountBug(n) == n
RedirectCount(n) == n + 1

WithStatus(s) == [res EXCEPT ![response].status = s]

\* The stream ends inside the head: eof is swallowed, no status is stored.
ReceiveEndsEarly(t) ==
  /\ pc[t] = "receive"
  /\ Goes(t, "post")
  /\ UNCHANGED <<engineVars, sock, res, left, result, ioVars, crashed, histVars>>

\* A failed read of a plain socket, or a number lexical_cast rejects, inside the head.
ReceiveThrows(t) ==
  /\ pc[t] = "receive"
  /\ Throws(t)
  /\ UNCHANGED <<engineVars, sock, res, left, result, ioVars, crashed, histVars>>

ReceiveFatalStatus(t, s) ==
  /\ pc[t] = "receive"
  /\ ~ParseStatus(s)
  /\ res' = WithStatus(s)
  /\ Goes(t, "post")
  /\ UNCHANGED <<engineVars, sock, left, result, ioVars, crashed, histVars>>

\* A body that is complete or cut short by eof; or a read that fails in it.
ReceiveBody(t, s) ==
  /\ pc[t] = "receive"
  /\ ParseStatus(s) /\ ~IsRedirect(s)
  /\ res' = WithStatus(s)
  /\ \/ Goes(t, "post")
     \/ Throws(t)
  /\ UNCHANGED <<engineVars, sock, left, result, ioVars, crashed, histVars>>

ReceiveRedirect(t, s) ==
  /\ pc[t] = "receive"
  /\ ParseStatus(s) /\ IsRedirect(s)
  /\ redirtimes' = RedirectCount(redirtimes)
  /\ UNCHANGED <<httpType, httpProxy, response, Status, callbackSet, left, result,
                 ioVars, crashed, given, requests, named, fresh, tidy>>

TooManyRedirects(t, s) ==
  /\ ReceiveRedirect(t, s)
  /\ RedirectExhausted(redirtimes)
  /\ \/ DisconnectReturns /\ res' = WithStatus(s) /\ Goes(t, "post")
     \/ DisconnectThrows /\ Throws(t) /\ UNCHANGED res

RedirectWithoutLocation(t, s) ==
  /\ ReceiveRedirect(t, s)
  /\ ~RedirectExhausted(redirtimes)
  /\ res' = WithStatus(s)
  /\ Goes(t, "post")
  /\ UNCHANGED <<sock, lost>>

FollowRedirect(t, s, u) ==
  /\ ReceiveRedirect(t, s)
  /\ ~RedirectExhausted(redirtimes)
  /\ res' = [res EXCEPT ![response].url = u]
  /\ \/ DisconnectReturns /\ Goes(t, "send")
     \/ DisconnectThrows /\ Throws(t)

-------------------------------------------------------------------------------
(* The end of connect(): post the callback, then return to the packaged_task. *)

PostedBug(t) == [pending EXCEPT ![t][response] = @ + 2]
Posted(t) == [pending EXCEPT ![t][response] = @ + 1]

Post(t) ==
  /\ pc[t] = "post"
  /\ pending' = Posted(t)
  /\ Goes(t, "return")
  /\ UNCHANGED <<engineVars, sock, res, left, result, ran, called, crashed,
                 histVars>>

MayReturnBug(t) == pc[t] \in {"post", "return"}
MayReturn(t) == pc[t] = "return"

Return(t) ==
  /\ MayReturn(t)
  /\ pc' = [pc EXCEPT ![t] = "done"]
  /\ future' = [future EXCEPT ![t] = "value"]
  /\ result' = [result EXCEPT ![t] = response]
  /\ UNCHANGED <<engineVars, sock, res, left, ioVars, crashed, histVars>>

\* The code sets no timeout: a silent peer blocks the thread for good.
Hang(t) ==
  /\ pc[t] \in {"resolve", "connect", "tunnel", "handshake", "request", "receive"}
  /\ Goes(t, "hung")
  /\ UNCHANGED <<engineVars, sock, res, left, result, ioVars, crashed, histVars>>

\* A thread in io_service::run() takes a handler and runs http_engine::callback.
RunHandler(t, r) ==
  /\ pending[t][r] > 0
  /\ pending' = [pending EXCEPT ![t][r] = @ - 1]
  /\ ran' = [ran EXCEPT ![t][r] = @ + 1]
  /\ called' = [called EXCEPT ![t][r] = IF callbackSet THEN @ + 1 ELSE @]
  /\ UNCHANGED <<engineVars, sock, res, threadVars, crashed, histVars>>

-------------------------------------------------------------------------------

Worker(t) ==
  \/ ParseUnmatchedURL(t) \/ ParseUnmatchedProxy(t) \/ ParseURL(t) \/ Resolve(t)
  \/ ConnectFails(t) \/ ConnectSucceeds(t)
  \/ TunnelRefused(t) \/ Tunnel(t) \/ Handshake(t) \/ Request(t)
  \/ ReceiveEndsEarly(t) \/ ReceiveThrows(t)
  \/ \E s \in Codes :
       \/ ReceiveFatalStatus(t, s) \/ ReceiveBody(t, s)
       \/ TooManyRedirects(t, s) \/ RedirectWithoutLocation(t, s)
       \/ \E u \in URLs : FollowRedirect(t, s, u)
  \/ Post(t) \/ Return(t)

Application ==
  \/ \E r \in Responses, u \in MatchedURLs : SetURL(r, u)
  \/ SetCallback
  \/ \E t \in Transfers, r \in Responses : Starttransfer(t, r)
  \/ Reset

\* Nothing is left to happen to the transfers that were started.
Finished ==
  /\ crashed \/ \A t \in Transfers : pc[t] \in {"new", "hung", "done"}
  /\ UNCHANGED vars

Next ==
  \/ /\ ~crashed
     /\ \/ Application
        \/ \E t \in Transfers : Worker(t) \/ Hang(t)
        \/ \E t \in Transfers, r \in Responses : RunHandler(t, r)
  \/ Finished

Spec == Init /\ [][Next]_vars

\* The operating system schedules every worker, and the application keeps a
\* thread in io_service::run().  Nothing is assumed of peers: see Hang.
Fairness ==
  /\ \A t \in Transfers : WF_vars(~crashed /\ Worker(t))
  /\ \A t \in Transfers, r \in Responses : WF_vars(~crashed /\ RunHandler(t, r))

FairSpec == Spec /\ Fairness

-------------------------------------------------------------------------------
(* Properties.                                                             *)

EngineTypeOK ==
  /\ httpType \in Types
  /\ httpProxy \in BOOLEAN
  /\ redirtimes \in Nat
  /\ response \in Responses \cup {None}
  /\ Status \in Transfers \cup {None}
  /\ callbackSet \in BOOLEAN
  /\ sock \in [Types -> {"closed", "open", Proxy, None} \cup Hosts]

ResponseTypeOK ==
  res \in [Responses -> [url : URLs, status : Nat, host : Hosts \cup {None}]]

ThreadTypeOK ==
  /\ pc \in [Transfers -> PCs]
  /\ left \in [Transfers -> 0..MaxEndpoints]
  /\ future \in [Transfers -> {"pending", "value", "exception"}]
  /\ result \in [Transfers -> Responses \cup {None}]

HandlerTypeOK ==
  /\ pending \in [Transfers -> [Responses -> Nat]]
  /\ ran \in [Transfers -> [Responses -> Nat]]
  /\ called \in [Transfers -> [Responses -> Nat]]

HistoryTypeOK ==
  /\ crashed \in BOOLEAN
  /\ given \in [Transfers -> Responses \cup {None}]
  /\ requests \in 0..RequestCap
  /\ named \in BOOLEAN
  /\ fresh \in BOOLEAN
  /\ tidy \in BOOLEAN
  /\ lost \in BOOLEAN

\* Every variable stays in its range; in particular send() always has an
\* endpoint when it tries one.
TypeOK ==
  EngineTypeOK /\ ResponseTypeOK /\ ThreadTypeOK /\ HandlerTypeOK /\ HistoryTypeOK

\* getCompletion() is a safe signal: an application that waits for it before
\* the next Starttransfer never has two threads in the engine, and the only
\* thread works on the response that transfer was given.
OneWorker ==
  \A t \in Transfers : Active(t) => Status = t /\ response = given[t]

\* Handlers are neither lost nor doubled nor mixed up: a transfer that has
\* posted accounts for exactly one handler, with its own response; one that
\* has not posted yet, or threw, for none.
CallbackAccounting ==
  \A t \in Transfers, r \in Responses :
    pending[t][r] + ran[t][r] =
      IF (pc[t] = "return" \/ future[t] = "value") /\ r = given[t] THEN 1 ELSE 0

\* The redirect limit of receive() bounds one transfer, whatever redirtimes
\* earlier transfers left behind: at most RedirectLimit + 2 requests are sent.
RedirectBudget ==
  requests <= RedirectLimit + 2

\* On every hop that has a known scheme the Host header is that of the URL
\* about to be requested, never the one of an earlier hop or transfer.
HostHeaderNamesTarget ==
  \A t \in Transfers :
    pc[t] \in {"resolve", "connect", "tunnel", "handshake", "request"} =>
      LET u == res[response].url IN
        u # NoMatch /\ (u.scheme # "none" => res[response].host = u.host)

\* An application that resets the engine before every further transfer always
\* starts a hop with no connection left over, unless shutting down the plain
\* socket failed: disconnect() at a redirect and in reset() pick the right socket.
SocketsReady ==
  \A t \in Transfers :
    pc[t] \in {"send", "resolve"} /\ tidy /\ ~lost =>
      \A y \in Types : ~Connected(y)

\* A request only ever goes to the host its URL or the proxy variable names, over
\* a connection made for that hop: whatever disconnect() and an application that
\* never resets leave connected, no hop gets past it to another host.
RequestReachesTarget ==
  \A t \in Transfers :
    pc[t] \in {"tunnel", "handshake", "request", "receive"} =>
      sock[httpType] = Destination(res[response].url)

\* An application that resets the engine before every further transfer has its
\* first hop treated as the environment says: nothing of the proxy of an
\* earlier transfer is left in http_proxy.
ProxyAsConfigured ==
  \A t \in Transfers :
    /\ pc[t] \in {"resolve", "connect", "tunnel", "handshake", "request"}
    /\ tidy /\ requests = 0
    => (httpProxy <=> res[response].url.scheme \in ProxyEnv)

\* The process dies only with a proxy in use, of a malformed proxy variable, of a URL
\* that a server's redirect chose, or of one the application left unset or malformed.
DeathNeedsCause ==
  crashed => httpProxy \/ ProxyMalformed(res[response].url) \/ requests > 0 \/ ~named

\* A status changes only under the thread of a transfer that was given that
\* response, or because the idle engine is reset: results stay put once the
\* future is ready.
StatusOnlyByOwner ==
  [][\A r \in Responses :
       res'[r].status # res[r].status =>
         \/ \E t \in Transfers : Active(t) /\ given[t] = r
         \/ Idle /\ r = response /\ res'[r].status = 0]_vars

\* Every transfer ends, redirect loops included: by an exception, or with its
\* handler run exactly once, which has then called the application's function if
\* that was registered in time; unless a peer falls silent or the process dies.
EveryTransferEnds ==
  \A t \in Transfers, b \in BOOLEAN :
    pc[t] = "send" /\ callbackSet = b ~>
      \/ crashed
      \/ pc[t] = "hung"
      \/ future[t] = "exception"
      \/ /\ future[t] = "value" /\ ran[t][given[t]] = 1
         /\ b => called[t][given[t]] = 1

\* The engine seen as the promise of module TransferPromise.
Phase ==
  [t \in Transfers |->
     IF pc[t] = "new" THEN "new" ELSE IF pc[t] = "done" THEN future[t] ELSE "running"]
Notice ==
  [t \in Transfers |->
     IF \E r \in Responses : pending[t][r] > 0 THEN "posted"
     ELSE IF \E r \in Responses : ran[t][r] > 0 THEN "delivered" ELSE "none"]

Promise == INSTANCE TransferPromise WITH phase <- Phase, notice <- Notice

\* Every behaviour of the engine is one the promise allows.
KeepsPromise == Promise!Spec

\* The hops of the transfer in Status seen as the loop of module TransferLoop.
Stage ==
  IF Status = None \/ ~Active(Status) \/ pc[Status] \in {"post", "return"} THEN "rest"
  ELSE IF pc[Status] \in {"receive", "hung"} THEN pc[Status] ELSE "send"
StatusSoFar == IF response = None THEN 0 ELSE res[response].status

Loop == INSTANCE TransferLoop WITH stage <- Stage, status <- StatusSoFar

\* Hop by hop, the engine does what HttpReceive is shown to do byte by byte: a
\* followed redirect leaves no status, and none changes once a transfer ended.
FollowsLoop == Loop!Spec

-------------------------------------------------------------------------------
(* What the documentation says and the code does not do.                   *)

\* http_engine.hpp:196: the callback "will be called when the request completes
\* (regardless of success or failure)".
CallbackRegardless ==
  \A t \in Transfers :
    future[t] # "pending" => \E r \in Responses : pending[t][r] + ran[t][r] > 0

\* http_engine.hpp:175: reset() "Resets the Class back to defaults to prepare for
\* a new HTTP transfer": no connection may be left to stand in its way.
ResetPrepares ==
  fresh /\ ~lost => \A y \in Types : ~Connected(y)
===============================================================================
