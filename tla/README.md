# Verification of libanetd

libanetd is a small multithreaded HTTP/1.0 client on boost::asio. An application owns
`http_response` objects and an `http_engine`; `Starttransfer` runs one transfer on a thread of
its own and tells the application by a future and a callback. This directory holds TLA+
modules that model the engine, its parser, the requests it writes, the response classes, the log
and the example program; configurations that check them with TLC; and proofs that TLAPS checks.
Paths below are relative to the root of the repository.

## 1. The system

| component | state | operations | works with |
|---|---|---|---|
| `http_engine` (`src/http_engine.cpp`) | `http_type`, `http_proxy`, `redirtimes`, `response`, `Status`, `CallbackFunction`, one plain and one TLS socket | `Starttransfer`, `reset`, `setCallback`, `getCompletion`, `setProxyAuth`; on the worker: `connect`, `send`, `receive`, `disconnect` | the response it fills (as a friend), the postback `io_service`, the log |
| the parser, in `receive()` | parser state, `tempkey`, `tempvalue`, `tempheaders`, the read buffer | one case of the `switch` per state | `sockget`, `http_response::set...`, `flush`, `completed` |
| request building, in `send()` | `url`, `host`, `targeturl`, the credentials | CONNECT and request text, `Base64Encode` | `sendheaders` and `httpauth` of the response |
| `http_response` (`src/http_response.cpp`) | version, status, description, headers, body, sizes, url, `sendheaders`, `TLock` | getters and setters, `reset`, `flush`, `completed` | called by the worker, the application and callback threads |
| `http_response_file` | `filename`, `filepath`, `file`, `opened`, and the disk | overrides `reset`, `setURL`, `flush`, `completed`; `OpenFile`, `CloseFile` | the file system |
| `Log` (`src/LogClass.cpp`) | `s_instance`, `m_pImpl`, `currentlevel` (static, unlocked) | `Create`, `Destroy`, `SetLoggingClass`, `SetLoggingState`, `Write` | every thread |
| `example/anetd.cpp` | a timer, an `io_service`, an engine, a response | `main`, `print1`, `HTTPCallback` | the engine |

How they interact: `Starttransfer` stores the response, makes a `packaged_task` of `connect()`
and starts a thread. `connect()` calls `send()` while it answers true. One `send()` is one hop:
parse the URL, resolve, try the endpoints (CONNECT through a proxy and a TLS handshake for
https), write the request, and `receive()`. `receive()` reads and parses, and answers true for a
redirect it follows. At the end `connect()` posts `callback` to the postback `io_service`, whose
threads run it, and the task makes the future ready. An exception anywhere goes into the future
and nothing is posted.

What is hard about it: application, worker and callback threads share one response with no
effective lock; fields of the engine and of the response live longer than the hop or the
transfer they were set for (`redirtimes`, `http_proxy`, `http_type`, the sockets,
`sendheaders`, the open file); a read cuts a message anywhere; a connection may end anywhere and
its end is also the normal end of a body; exceptions leave operations half done; the log can be
replaced under a thread that is in it; the program may be over before the transfer.
`PROJECT.json` lists the hazards line by line.

## 2. The modules

| module | models | composed of |
|---|---|---|
| `TransferPromise` | abstract: what a client may rely on of transfers, callbacks and futures | |
| `TransferLoop` | abstract: the hops of a transfer, the redirects it follows and the statuses it leaves | |
| `HttpEngine` | one engine, its application, workers, sockets and callback threads | implements `TransferPromise` and `TransferLoop` |
| `HttpResponse` | the response classes as one operator per member function, and the disk | |
| `HttpReceive` | `receive()` token by token, filling one response | extends `HttpResponse`, implements `TransferLoop` |
| `RequestText` | the text of CONNECT and request, `Base64Encode`, `setHeader` and the credentials; how a server reads it | |
| `SharedResponse` | the member functions of a response called by several threads, and the temporary that locks `TLock` | |
| `AnetdMain` | the example program against any transfer | extends `SharedResponse`, uses `TransferPromise` |
| `Log` | the singleton, its implementation pointer, threads inside `Write` | |
| `HttpEngineProofs`, `HttpEngineHopProofs`, `HttpReceiveProofs`, `HttpReceiveTextProofs`, `RequestTextProofs`, `AnetdMainProofs`, `LogProofs` | theorems | each extends what it is about |
| `TextLemmas` | lemmas about sequences the proofs of parser and request text share | |
| `MCHttpEngine`, `MCHttpReceive`, `MCRequestText`, `MCLog` | symmetry, messages, URLs and credentials for TLC | |

How the pieces join. `HttpEngine` takes `receive()` for one step and `HttpReceive` takes
`send()` for one. `TransferLoop` is what they must agree on, and both are shown to implement it:
the engine's `FollowsLoop` says that its one-step `receive()` does no more than the loop allows,
and that of `HttpReceive` says that the byte-wise parser does no more either. In the same way
`AnetdMain` runs against `TransferPromise`, every step of which `HttpEngine` may take
(`KeepsPromise`), and never looks at the engine itself.

A definition whose name ends in `Bug` is a plausible mistake in the code its twin models. No
specification uses one; it documents which property would notice.

### HttpEngine

A worker's `pc` names the blocking call it is in, so one action is the code between two such
calls: `ParseURL`, `Resolve`, `ConnectFails`/`ConnectSucceeds`, `Tunnel`/`TunnelRefused`,
`Handshake`, `Request`, the ways `receive()` ends (`ReceiveEndsEarly`, `ReceiveThrows`,
`ReceiveFatalStatus`, `ReceiveBody`, `TooManyRedirects`, `RedirectWithoutLocation`,
`FollowRedirect`), `Post`, `Return`. `RunHandler` is a thread in `io_service::run()`. `SetURL`,
`SetCallback`, `Starttransfer` and `Reset` are the application's.

* `sock[y]` is the host a socket is connected to. `connect` on a connected socket fails, so what
  an earlier hop left behind shows. A resolved host is `Proxy` when the variable of the scheme is
  set, whatever `http_proxy` says.
* `disconnect()` looks at the socket of the current `http_type` only. `DisconnectReturns` has
  its quiet outcomes, among them a plain `shutdown` that throws, after which `close` is skipped;
  `DisconnectThrows` is `throw se`, an `error_code` which no handler takes. `FollowRedirect` and
  `TooManyRedirects` are left halfway by it, in the code's order: the URL is already set in the
  one, the status not yet in the other. `Reset` has no action for it, because an exception
  there leaves everything as it was.
* A `shutdown` of a connection that fell silent may block like any other call; the model takes
  it to return.
* The process dies (`crashed`) where `url_parts[1]` of an unmatched URL is read
  (`ParseUnmatchedURL`), where `proxy_parts[0]` of an unmatched proxy variable is
  (`ParseUnmatchedProxy`), and where a refused CONNECT reaches `throw;` with nothing to rethrow.
* `ProxyEnv` and `MalformedEnv` are the schemes whose variable names a host, or does not match the
  expression; for any other scheme it is not set.
* No call has a timeout: `Hang` lets any blocking call block for good.
* The application uses engine and response only when `getCompletion()` answers true (`Idle`), and
  registers its callback at any time. `setCallback` and `Log::GetLoggingState` lack a return
  statement; callers that ignore the value, as all in the repository do, are modelled.
* Responses are in memory here: their member functions throw nothing. What one that writes to
  a file throws, from `flush()`, `completed()` or `reset()`, is in `HttpReceive`.
* The constructor calls `reset()`, and so `disconnect()`, before `http_type` is set. Either
  branch finds a closed socket, so the state after it is one (`Init`).

### HttpResponse and HttpReceive

Text is a sequence of tokens; a token is a run of characters nothing looks into, or one of the
characters the parser looks for (`SP`, `CR`, `LF`, `:`). A URL is its file part, which is all
`http_response_file::setURL` takes from it. `Connect` stands for a whole successful `send()`; it
draws the message, how much of it arrives, how the connection ends and whether it is TLS. `Read`
cuts the rest at a size from `ReadSizes`. Each case of the `switch` is an action (`Version`,
`Status`, `Description`, `HeaderKey`, `HeaderValue`, `Body`, `Ok`), and so is each branch at the
end of the head (`FatalStatus`, `RedirectFails`, `FollowRedirect`, `DisconnectThrows`,
`AcceptHead`, `BadContentLength`), each exception (`ReadThrows`, `BadStatus`, `FlushFails`) and
each end (`ReadEof`, `Complete`).

* `sockget()` makes eof of every error of a TLS connection that is not one of the SSL library,
  and answers 0 for those that are; `ReadNothing` is the turn of the `do`-`while` loop that then
  handles `buffer[0]`. Before the first read that byte was never written, so `Connect` draws it.
  The code may repeat this for ever; the model repeats it `MaxErrors` times in a row, only to keep
  the run finite. No property depends on that bound: `AlwaysCloser` excepts the step by name.
* `send()` writes `headers["Content-Length"]`, as `Connect` does.
* `OpenFile` picks the first of `name`, `name.1`, ... that does not exist; `FlushKeeps` is an
  `OpenFile` that fails, `FlushThrows` a stream that throws with part of the body written, or an
  `exists()` that throws before there is a file.
* The stream was told to throw, so closing an open file may (`CloseMayThrow`). `CloseFile` closes
  last: the file is let go of either way, but what was to follow is not done (`ResetThrows`,
  `CompleteAndLeave`). The write it makes before that has nothing to write: `flush()` has just
  emptied the body, or thrown.
* The disk belongs to one engine; files that were there before hold `<<"old">>`.

### RequestText

Here a token is a word nothing looks into, a control character or one letter of base64; user
names and passwords are bytes. `ParseURL`, `SendConnect` and `SendRequest` are the stretches of
`send()` that build text, between the steps of the network, which `HttpEngine` models: `place`
is reduced to their order. `SetHTTPAuth`, `SetProxyAuth` and `SetHeader` are the application's;
`SetHeader` refuses a name that is not there and inserts one that is, as the code does.
The second half of the module reads the text as a server does: `Lines` splits it at line feeds,
`HeadLines` takes what precedes the first empty line, `Decoded` turns base64 into bytes. It is
the reference `Base64Encode` is checked against, and it is not derived from the code.

* `Base64Encode` regroups bytes into sextets, breaks the letters every 72 and pads; the padding
  is counted in bytes, as in the code.
* `IsURL` says which URLs the module is about: none holds a space or a line end. RFC 3986 wants
  that; the expression `send()` takes URLs apart with does not check it.
* `body` and `arguments` of the engine have no writer in this version, so lines 310-332, which
  would append them, have nothing to add.
* `FieldLine`s come in the order of a set, because no property depends on that of the map.

### SharedResponse and AnetdMain

A call of a member function is entered, for some functions takes and releases `TLock`, is among
its fields, and leaves; `Race` is two threads among the same fields with one of them writing.
`AnetdMain` puts two threads to it: `main()`, at one of the `Places` of its text, and the worker
of its one transfer, which enters setters as long as it may still write (`MayTouch`: until it
posts the callback). `TimerExpires` and `Print1` are the printer, `RunCallback` is
`http_engine::callback` and `HTTPCallback`, `RunReturns` the end of `io.run()`, `WaitReturns`
`Status.wait()` and `get()`, `Unwind` the destructors of the locals. `watching` adds what the
program does not do and the header invites: a getter documented as thread-safe, called by
`print1()`.

* `main()` calls `Status.get()` twice. The first leaves the value in place (the future is the one
  of `boost::thread` version 2, as the 2012 sources assume); later versions would throw here.
* A transfer that throws ends the program in `terminated`: nothing catches what `get()` throws.

### Log

`Write` is two steps, the test of the pointers and the call through them, and the call uses the
tested pointer or reads `m_pImpl` again, as a compiler may. Calling or deleting a freed
implementation sets `broken`, and the model stops there. No address is used twice. `Impls` are the
application's implementations, which `SetLoggingClass` may be given, and `LogImpls` those that
`Create` makes: `LogImpl` is private and no application has the address of one. `careful` says
that the application kept to the discipline below, `revived` that a `Create` found an
implementation which `Destroy` had deleted. What is printed is left out.

## 3. What the runs check

All configurations that pass check deadlock; `Finished` and its like are the states where
the system really may stop.

| run | instance | distinct states | shows |
|---|---|---|---|
| `EngineSafety` | 2 transfers, 2 responses, https through a proxy, a malformed variable for http, 2 endpoints, limit 1, fair | 92 122 | `OneWorker`, `CallbackAccounting`, `StatusOnlyByOwner`, `KeepsPromise`, `EveryTransferEnds` |
| `EngineHops` | 2 transfers, 2 hosts, all kinds of URL, a proxy for http, 2 endpoints, limit 2 | 392 242 (symmetry) | `TypeOK`, `RedirectBudget`, `SocketsReady`, `HostHeaderNamesTarget`, `RequestReachesTarget`, `ProxyAsConfigured`, `DeathNeedsCause`, `FollowsLoop` |
| `ReceiveSafety` | 15 kinds of peer, reads of 1 and 40, into memory and files | 1 341 008 | `TypeOK`, `HeadAsSent`, `SizeAgrees`, `BodyAsSent`, `ProgressCountsBody`, `AlwaysCloser`, `FollowsLoop` |
| `ReceiveAgain` | 2 transfers with one response, with and without `reset()`, 3 kinds of peer, reads of 11 and 40 | 5 732 868 | `HeadAsSent`, `BodyAsSent`, `FilesKept` |
| `RequestText` | 3 URLs, 5 credentials, a proxy for https, `setHeader` | 1 800 | `TypeOK`, `HeadWellFormed`, `CredentialsArrive`, `AsksForURL`, `ConnectNamesTarget` |
| `AnetdMain` | the program as it is, 20 ticks, with and without a `print1()` that watches, fair | 11 290 | `TypeOK`, `RaceFree`, `WorkerOutlived`, `CallbackLostOnlyLate`, `MainEnds` |
| `LogSafety` | 2 implementations of the application's, 2 of `Create`'s, 3 writers | 4 305 (symmetry) | `TypeOK`, `CarefulIsSafe`, `NothingLeaks` |

What they show, in the terms of the code:

* **The client's side of a transfer.** Waiting for `getCompletion()` is enough to be alone with
  the engine; a transfer that posts does so once, with its own response; results do not change
  once the future is ready; every transfer ends unless a peer falls silent or the process dies.
* **Hops.** However many endpoints, schemes and earlier transfers there were, a request goes out
  only over a connection to the host of the current URL or to its proxy; the first hop after a
  reset uses a proxy exactly when the environment names one; `redirtimes++ > 5` bounds one
  transfer to `RedirectLimit + 2` requests although it counts over all; the process dies only of a
  proxy that refuses, of a malformed proxy variable, of a URL a redirect chose, or of one the
  application left unset.
* **The parser.** Head and body arrive as sent however reads cut them, for an application that
  resets also after an exception; sizes and progress count what was delivered; and every step but
  one brings the loops of `connect()` and `receive()` closer to their end (`AlwaysCloser`, which
  needs no fairness). The exception is a read that brings nothing because of an error of the SSL
  library: if that error stays, the loops turn for ever.
* **Files.** No file is overwritten or shortened, and only the open one grows. An application that
  does not reset may append to the file an earlier transfer left open (`FilesKept` says which
  of the two holds when).
* **Requests.** What `send()` writes is read back as a well-formed head that asks for the URL of
  this hop and carries the credentials set last, for every mix of hops, proxies and credentials.
  Those of the proxy go with every request once a hop has had one, to whomever it is sent:
  `CredentialsArrive` says so, and the list below what it means.
* **The example.** It is free of races without any lock, destroys nothing the worker still uses,
  and loses its callback only to a transfer that outlasts the printer.
* **The log.** An application that replaces or destroys the implementation with nobody inside, and
  does not make it again after `Destroy`, touches nothing freed; and nothing leaks in any use.

Some properties hold for a client or a server that keeps to a discipline. `tidy`: the client
resets the engine before every further transfer. `~lost`: shutting down the plain socket did not
fail. `Spaced(message)`: the server writes a space after the colon. `WellFormed(message)`: no part
of the head holds the character that ends it, as a version with a space would. `Expected` is both,
and no read that reports an error of the SSL library. `Short(auth)`: credentials of at most 54
bytes with their colon, one line of base64. `careful`: the log is replaced or destroyed with no
message in flight, never by the implementation in use, and not after `Destroy`. `~revived`: the
log is not made again after `Destroy`. `watching`: see above; without it there is
no race. What happens outside is below.

A server may announce more than it sends, or less: `BodyAsSent` says that all it sent, or at least
all it announced, is delivered. After a failed write the file holds the beginning of the body.

### Disagreements between code and documentation

Each of these runs checks one sentence of a header and finds it violated; the lines
quoted are in `PROJECT.json`.

| run | what the code does |
|---|---|
| `CallbackRegardless` | a transfer that throws posts no callback |
| `ResetPrepares` | `reset()` closes the socket of the current `http_type` only, so a later transfer may find the other one connected |
| `BodyFromServer` | an error of the SSL library makes `receive()` handle an old byte again |
| `CreateRevives` | `Create` after `Destroy` keeps the deleted implementation: the run makes, destroys and makes the log again |
| `ThreadSafeReads` | `TLock` is released before the fields are touched, so a getter documented as ThreadSafe meets the worker's writes |

Others met while modelling follow from a line or two of code and have no run:

* library errors leave the status at 0 or at that of an earlier transfer
  (`src/include/anetd/http_response.hpp:77` promises a negative one);
* `http_proxy` survives a redirect to a scheme without proxy (`src/src/http_engine.cpp:178`): a
  later direct hop writes an absolute request target, sends the proxy's credentials to the target,
  and for https sends CONNECT to the target itself; a request inside a tunnel does the same;
* a URL without protocol gets no Host header, or a stale one (`:149`); the Host header never
  names the port (`:165`);
* after a failed handshake the other endpoints are tried on a socket that is connected, and so
  fail (`:241`);
* credentials longer than one line of base64 put a line feed into the head (`:38`), and the head
  of a request ends with one empty line more than it should (`:353`);
* a header field without a space after the colon is joined to the next one (`:480`);
* eof, the usual end of a body, skips `completed()`, and the file stays open (`:517`);
  `getBodySize()` of a file response is then 0;
* that end counts however much was announced: a truncated body has status 200, and `body_size`
  becomes what is in memory (`:518`);
* `getHeader("Content-Length")` is always `0`, because `send()` stores it first (`:294`);
* `setHeader` answers false for every new name and stores nothing, and for `Host` it keeps the old
  value: no header of the application is ever sent (`src/src/http_response.cpp:144`);
* an error of the SSL library that stays keeps `receive()` in its loops for ever (`:118`);
* after a redirect the file is the one named by the first URL, once it is open
  (`src/src/http_response.cpp:171`);
* a second `Log::Create` is ignored, and nothing reads what `SetLoggingState` sets
  (`src/src/LogClass.cpp:72`, `:118`).

### Bounds, and why they are enough

* `RedirectLimit` stands for the literal 5 and is 0, 1 or 2 here: the code only compares it with
  a counter, and what matters is a chain below, at and above it. The proofs hold for every value.
* `Ticks` 20 and `LineWidth` 72 are the literals of the code.
* Two transfers show what one leaves behind for the next; the proofs hold for any number.
* `MaxEndpoints` 2: a first endpoint, and a last one.
* `ReadSizes`: single tokens cut anywhere, any number of times; 40 swallows the head and part of
  the body, or all of it, in one read, and acts as `buffer_size`. `ReceiveAgain` reads 11
  tokens instead of 1, which cuts the head once.
* `arriving` ranges over every prefix of the message, so the connection ends at every place.
* `Servers` has a message for every branch of the parser: with and without size, size 0, more and
  less body than announced, a redirect with and without Location, a fatal status, a size and a status
  `lexical_cast` rejects, a repeated field, one without a space after the colon, a reset and an error of the SSL library.
* Credentials have an empty user, an empty password, each remainder modulo 3, and 54 and 55 bytes
  with the colon: the last that fit on one line and the first that do not.
* `RequestCap` bounds the history counter `requests` where a property would already be violated.
* `MaxErrors` 1 and `MaxTransfers` bound the environment; the code has neither.
* Symmetry is declared for the model values of safety runs, never in a run with fairness.

### Fairness

`HttpEngine!Fairness` is weak fairness of each worker and of each pending handler: the operating
system schedules threads, and the application keeps a thread in `io_service::run()` with work to
do, as the documentation of the engine asks. Nothing is assumed of servers, because `Hang` may
always be taken instead; `EveryTransferEnds` says what remains. `AnetdMain!FairSpec` is weak
fairness of the main thread, whose timer expires, and of a worker inside a member function, which
comes out of it; how long the transfer takes is left open, and `MainEnds` starts from its end.
No other run assumes fairness: `AlwaysCloser` shows without it what the loops of `receive()` do, since
only the network can keep the worker from taking its next step. In `HttpEngine` an error of the
SSL library that stays is among the transfers that hang.

## 4. What is proved

For any number of transfers, responses, hosts, endpoints, messages, ticks, writers and
implementations and any redirect limit, from the named assumptions on the constants alone:

| module | theorem | property |
|---|---|---|
| `HttpEngineProofs` | `DisciplineAlways` | the inductive invariant |
| | `TypeCorrect` | `TypeOK` |
| | `OneWorkerAlways` | `OneWorker` |
| | `CallbacksAccounted` | `CallbackAccounting` |
| | `RedirectsBounded` | `RedirectBudget` |
| | `StatusOwned` | `StatusOnlyByOwner` |
| | `HostHeaderCorrect` | `HostHeaderNamesTarget` |
| | `PromiseKept` | `KeepsPromise`: the engine implements `TransferPromise` |
| `HttpEngineHopProofs` | `HopStateAlways` | the inductive invariant |
| | `SocketsAreReady` | `SocketsReady` |
| | `RequestsReachTargets` | `RequestReachesTarget` |
| | `ProxyConfigured` | `ProxyAsConfigured` |
| | `DeathsHaveCauses` | `DeathNeedsCause` |
| | `LoopFollowed` | `FollowsLoop`: the engine implements `TransferLoop` |
| `HttpReceiveProofs` | `ShapeAlways`, `CountedAlways` | the inductive invariants |
| | `LoopsEnd` | `AlwaysCloser` |
| | `ReceiveFollowsLoop` | `FollowsLoop`: the parser implements `TransferLoop` |
| | `ProgressCounted` | `ProgressCountsBody` |
| | `SizesAgree` | `SizeAgrees` |
| | `FilesAlwaysKept` | `FilesKept` |
| | `ReceiveTyped` | `TypeOK` |
| `HttpReceiveTextProofs` | `FaithfulAlways` | the inductive invariant |
| | `HeadArrives` | `HeadAsSent` |
| | `BodyArrives` | `BodyAsSent` |
| `RequestTextProofs` | `HopAlways` | the inductive invariant |
| | `RequestTyped` | `TypeOK` |
| | `HeadsWellFormed` | `HeadWellFormed` |
| | `CredentialsAlwaysArrive` | `CredentialsArrive` |
| | `AlwaysAsksForURL` | `AsksForURL` |
| | `AlwaysNamesTarget` | `ConnectNamesTarget` |
| `AnetdMainProofs` | `OrderAlways` | the inductive invariant |
| | `AnetdTypeCorrect` | `TypeOK` |
| | `NoRaces` | `RaceFree` |
| | `WorkerNeverOrphaned` | `WorkerOutlived` |
| | `CallbackRuns` | `CallbackLostOnlyLate` |
| `LogProofs` | `LogTypeCorrect` | `TypeOK` |
| | `CarefulAlwaysSafe` | `CarefulIsSafe` |
| | `NothingEverLeaks` | `NothingLeaks` |

The engine. `TypeOK` is not inductive: a worker uses `this->response`, which is no response of
the application before the first `Starttransfer`, and `NextEndpoint` decrements `left`.
`OneWorker` is not either: `Starttransfer` is guarded by the future in `Status`, not by threads.
`Discipline` adds what ties them together: the worker in the engine owns `Status` and works on
the response it was given (`Owner`), a future is ready exactly when its thread has ended
(`FutureReady`), and an endpoint is left wherever one is tried (`EndpointLeft`). An application
that sees `Idle` is then alone with the engine (`IdleMeansAlone`), and a step of the worker
disturbs nobody else's conjunct. Each further invariant is a step lemma under `Discipline`:
`AccountingStep`; `BudgetStep`, for `Budget`, which relates `requests` to `redirtimes` at every
point of the loop because `redirtimes` may start a transfer at any value; `StatusStep`;
`HostHeaderStep`, where `HopKeepsResponse` says who leaves the response alone; and `PromiseStep`
and `LoopStep`, which map each action to an action of the abstract module or to a stutter.

The hops need one more invariant. `HopState` says, for each place in `send()`, what the fields
that outlive a hop may hold there: a connected socket is the one `disconnect()` will look at and
no hop is about to connect it (`SocketsSettled`), `http_proxy` is clear until the first URL is
parsed (`ProxyClear`), and which places a transfer can die at (`DeathState`).

The parser. `Shape` holds of every message and every cut: texts are sequences, a chunk is never
empty where it is looked at, the parser has not begun while no connection is up, and it is in
state OK when `completed()` is due. It gives `LoopsEnd`, where each action but `ReadNothing` lowers one part of
`Work` and leaves the more significant ones alone (`LessWork`), and `ReceiveFollowsLoop`. So the
loops can only turn for ever on an error of the SSL library that stays, whatever `MaxErrors` is.
`Counted` adds what the sizes say: the file this transfer writes is the open one, `progress` is
the length of file and memory together, the body is empty until the head is accepted, and in
state OK `body_size` is the length of a body in memory. `FlushCounts` is the step that needs it
all: the body moves from memory to file and its length is counted on both sides.

`Filed` and `Types` say what the response classes keep: the open file is on the disk, and a
response in memory has no file name. `FilesKept` says more than that no file shrinks: a file is
opened only under a name that was free. With n files on the disk, one of the names `name`,
`name.1`, ... `name.n` is free, which is the pigeonhole principle (`FreePathIsFree`); `WriteKeeps`
has what a write does to the disk. That the open file is one this transfer opened needs `tidy`,
and the theorem says no more than that.

What the parser makes of the text is the subject of `HttpReceiveTextProofs`, and one invariant,
`Faithful`, is all of it. Let `lost` be what the connection will never deliver, and `Ahead(lost)`
the chunk being parsed, what the network still holds and `lost`, joined. At every point of
`receive()`, what the parser has of the current part joined to `Ahead(lost)` is what the server
means from that part on. A token inside a part moves from `Ahead` to the part (`PartGoesOn`); a
token that ends a part shows that the part is complete, because in a well-formed head it occurs
nowhere before (`PartEnds`). How the network cuts the message disappears in the joining: a `Read`
moves text from one piece of `Ahead` to another. The headers kept so far are those of the fields
read so far, the first of each name (`HeadKept`), and in the body what was delivered joined to
`Ahead` is the body of the message. `PartialFile` adds what an exception leaves: a write that
fails wrote a beginning of what was in memory, after what was in the file, so the file
holds a beginning of the body (`FailedWriteBegins`). `HeadAsSent` and `BodyAsSent` follow in a few
lines.

The requests. `HopReady` says that from `ParseURL` on, path, host, tunnel target and `Host`
header are those of the URL of this hop, whatever earlier hops left, and `TextOfHop` that the text
sent last is the one the present state asks for. The rest is about that text and takes no step of
the program. A server cuts the text at line feeds: a line written before a text is the first one
it finds, and the others are those of that text, further on (`FirstLine`, `LaterLine`). So the
head of a text is built from its end, one field at a time (`HoldsNothing`, `HoldsOneMore`,
`HoldsField`, `HoldsBasic`), and since every field added has a new name, no name comes twice.
`AsksForURL` holds whatever the length of the credentials: their lines, broken or not, name no
`Host` (`NoOtherHost`, `NotNamed`). That credentials come back has four parts: six or eight bits
make a number that has those bits (`BitsOfSix`, `BitsOfEight`); regrouping leaves every bit where
it was, so regrouping back returns the bytes (`Sextets`, `BytesAgain`); as many letters and signs
are written as fill groups of four (`Counts`); and up to `LineWidth` nothing is broken
(`UnbrokenText`).

The example. `Order` says which places of `main()` go with which phase of the transfer, which
state of the handler and which state of the timer; main and worker then never meet.

The log. `CarefulIsSafe` needs `CarefulState`: between the two steps of `Write` the tested
pointer is still the one in use, and it is alive.

Induction over data. The library's induction theorems cannot be applied, but induction can be
done without them: `LeastNumber` is the well-foundedness of the natural numbers, and
`AllNumbers` and `AllIndices` follow from it for a set `T` in the place of a predicate. That is
enough for what recursive functions and folds compute: `FlattenFirst` in `TextLemmas`, and
`ReadingSteps` and `BitsSteps` in `RequestTextProofs`. Joining is hidden behind `Join` wherever an
argument only regroups it, because the provers otherwise compare texts token by token.

Assumptions. All are on constants, and TLC evaluates them in every run. Most are types.
`IsFiniteSet(Names)`: there are finitely many files before the program starts.
`IsMessage`: the parts of a message are sequences. `IsURL`: see `RequestText` above.
`LineWidth % 4 = 0`, as of the literal 72.

Only model-checked:

* `EveryTransferEnds` and `MainEnds`: liveness, which the prover does not do.
* The five runs that find a disagreement, which need a counterexample and no proof.

Every other property of the runs is a theorem.

## 5. Not modelled

* Two engines that write to one directory, between `exists` and `open`
  (`src/src/http_response.cpp:202`); `disk` belongs to one response.
* Which text the expressions for URLs and proxies in `send()` take, and that a proxy named without
  a port gets no default one (`src/src/http_engine.cpp:177`): its endpoints fail to connect.
* What log messages look like (`getLevelString`, `GetTimeStampString`, `LogFormat`): wording
  without state. The TLS verify callback only logs. `MyLogImpl` of the example is used by nobody.
* Destroying an engine or a response under a running transfer, except by the example's `main()`.
* `clear()` of the engine and the `#if 0` block of `connect()`: dead code.
  `setBody(std::string)` has no caller and appears in `SharedResponse` only, for the fields it
  writes; `LogImpl::SetLogFileName` and `LogImpl::SetLoggingState` are empty or not called.
* `http_request.cpp` is empty; `configure.ac` and `doc2confluence.py` are not part of the program.

## 6. Plan

Done: the engine with its promise, the loop both views of `receive()` share, the parser with the
response classes, the text of requests, the shared response and the example program, the log, and
the theorems of section 4. Left, in this order:

1. `FileNames`: two engines in one directory, `exists` and `open` as two steps.
2. Proofs: that the operators of `HttpResponse` keep to an abstract response, once for both
   classes; of the fields of a head without `Spaced`, that the parser joins them and loses none.
