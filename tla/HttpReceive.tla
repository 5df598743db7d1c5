------------------------------ MODULE HttpReceive ------------------------------
(***************************************************************************)
(* http_engine::receive() byte by byte: the reads that cut the server's    *)
(* message anywhere, the parser fed with them, and the response object it  *)
(* fills.  send() is reduced to what it leaves for receive(): a connection *)
(* and one header.  How connections are made, and threads, are module      *)
(* HttpEngine; a step here is one turn of a loop of receive().             *)
(*                                                                         *)
(* A definition whose name ends in Bug is a plausible mistake in the code  *)
(* its unsuffixed twin models; no specification uses it.                   *)
(***************************************************************************)
EXTENDS HttpResponse, SequencesExt

CONSTANTS
  Connections,    \* what is at the other end of a connection: see peer
  Numeral,        \* maps the tokens lexical_cast<int> accepts to numbers; no signs
  ReadSizes,      \* what reads return when there is enough; the largest is buffer_size
  RedirectLimit,  \* the literal 5
  MaxTransfers,   \* most calls of Starttransfer
  MaxErrors       \* bound: most reads in a row that report "tlserror"

IsMessage(m) ==
  /\ \A text \in {m.version, m.status, m.description, m.body} : text \in Seq(ToSet(text))
  /\ m.headers \in Seq(ToSet(m.headers))
  /\ \A f \in ToSet(m.headers) : f[1] \in Seq(ToSet(f[1])) /\ f[2] \in Seq(ToSet(f[2]))

ASSUME ReceiveAssumption ==
  /\ \A c \in Connections :
       /\ IsMessage(c.message)
       /\ c.tls \in BOOLEAN
       /\ c.ending \in IF c.tls THEN {"fin", "rst", "tlserror"} ELSE {"fin", "rst"}
  /\ \A d \in DOMAIN Numeral : Numeral[d] \in Nat
  /\ ReadSizes \subseteq Nat \ {0}
  /\ RedirectLimit \in Nat
  /\ MaxTransfers \in Nat \ {0}
  /\ MaxErrors \in Nat \ {0}

\* A message as a server sends it.  m.headers lists the fields in order, each
\* <<key, value, spaced>>: a space after the colon is usual and not required.
Line(tokens) == tokens \o <<"CR", "LF">>
FieldLine(f) == Line(f[1] \o (IF f[3] THEN <<":", "SP">> ELSE <<":">>) \o f[2])
Wire(m) ==
  Line(m.version \o <<"SP">> \o m.status \o <<"SP">> \o m.description)
    \o FlattenSeq([i \in DOMAIN m.headers |-> FieldLine(m.headers[i])])
    \o Line(<< >>) \o m.body

ContentLength == <<"Content-Length">>
Location == <<"Location">>

VARIABLES
  phase,        \* where the engine is: see Phases
  \* the connection
  peer,         \* message: what the server means to send; tls: http_type is
                \* SSL_HTTPS; ending: what the read after the last byte reports
  wire,         \* what is still to be read
  errors,       \* reads that have reported "tlserror"
  first,        \* buffer[0]
  chunk,        \* position .. buffer + bytes_read
  head,         \* the parser's local variables: see NoHead
  redirtimes,
  \* history
  transfers,    \* calls of Starttransfer
  fresh,        \* no transfer started since the engine was made or reset
  tidy,         \* every transfer so far started fresh
  whole,        \* wire began as the whole message
  target        \* the file this transfer wrote to last, or NoPath

netVars == <<peer, wire, errors, whole>>
bufferVars == <<first, chunk>>
appVars == <<transfers, fresh, tidy>>
vars == <<phase, netVars, bufferVars, head, redirtimes, appVars, target, responseVars>>

\* "idle", "returned" and "threw": the application's turn; else the worker's.
Phases == {"idle", "connect", "read", "parse", "flush", "complete",
           "returned", "threw"}
ParserStates == {"VERSION", "STATUS", "DESCRIPTION", "HEADER_KEY", "HEADER_VALUE", "BODY", "OK"}

\* parser_state, version, temp, status, description, tempkey, tempvalue and
\* tempheaders, as receive() declares them.
NoHead == [state |-> "VERSION", version |-> << >>, temp |-> << >>, status |-> 0,
           description |-> << >>, key |-> << >>, value |-> << >>, headers |-> << >>]

NoMessage == [version |-> << >>, status |-> << >>, description |-> << >>,
              headers |-> << >>, body |-> << >>]
NoPeer == [message |-> NoMessage, tls |-> FALSE, ending |-> "fin"]

Init ==
  /\ phase = "idle"
  /\ peer = NoPeer /\ wire = << >> /\ errors = 0 /\ whole = FALSE
  /\ first = "junk" /\ chunk = << >>
  /\ head = NoHead
  /\ redirtimes = 0
  /\ transfers = 0 /\ fresh = TRUE /\ tidy = TRUE /\ target = NoPath
  /\ ResponseInit

-------------------------------------------------------------------------------
(* The application, between two transfers with the same response.          *)

ApplicationsTurn == phase \in {"idle", "returned", "threw"}

\* setURL, or the URL is left as it was; then Starttransfer.
Starttransfer(u) ==
  /\ ApplicationsTurn
  /\ transfers < MaxTransfers
  /\ \/ SetURL(u)
     \/ ~fresh /\ u = url /\ UNCHANGED <<url, filename>>
  /\ phase' = "connect"
  /\ transfers' = transfers + 1
  /\ tidy' = (tidy /\ fresh) /\ fresh' = FALSE
  /\ target' = NoPath
  /\ UNCHANGED <<netVars, bufferVars, head, redirtimes, kind, metaVars, bodyVars, opened,
                 filepath, disk>>

\* http_engine::reset, as far as it concerns the response.
Reset ==
  /\ ApplicationsTurn
  /\ ~fresh
  /\ ResetResponse
  /\ phase' = "idle"
  /\ redirtimes' = 0
  /\ fresh' = TRUE
  /\ UNCHANGED <<netVars, bufferVars, head, transfers, tidy, target>>

\* What reset() still had to do is not done, in engine and response.
ResetThrows ==
  /\ ApplicationsTurn
  /\ ~fresh
  /\ ResetResponseThrows
  /\ UNCHANGED <<phase, netVars, bufferVars, head, redirtimes, appVars, target>>

-------------------------------------------------------------------------------
(* send() up to the call of receive(), and sockget().                      *)

\* send() notes the length of its own, always empty, body among the headers of
\* the response.  buffer is not initialised; that shows only after "tlserror".
Connect(c, arriving) ==
  /\ phase = "connect" /\ phase' = "read"
  /\ peer' = c /\ errors' = 0
  /\ wire' = SubSeq(Wire(c.message), 1, arriving)
  /\ whole' = (arriving = Len(Wire(c.message)))
  /\ first' \in IF c.ending = "tlserror" THEN {"junk", "SP", "LF"} ELSE {"junk"}
  /\ headers' = [k \in DOMAIN headers \cup {ContentLength} |->
                   IF k = ContentLength THEN <<"0">> ELSE headers[k]]
  /\ UNCHANGED <<chunk, head, redirtimes, appVars, target, kind, version, status,
                 description, bodyVars, url, fileVars>>

ConnectFails ==
  /\ phase = "connect" /\ phase' = "threw"
  /\ UNCHANGED <<netVars, bufferVars, head, redirtimes, appVars, target, responseVars>>

\* receive() is left, and its local variables with it.
Leave(where) ==
  /\ phase' = where
  /\ chunk' = << >> /\ first' = "junk"
  /\ head' = NoHead

Read(size) ==
  LET n == IF size < Len(wire) THEN size ELSE Len(wire) IN
  /\ phase = "read" /\ phase' = "parse"
  /\ wire # << >>
  /\ chunk' = SubSeq(wire, 1, n) /\ first' = wire[1]
  /\ wire' = SubSeq(wire, n + 1, Len(wire))
  /\ UNCHANGED <<peer, errors, whole, head, redirtimes, appVars, target, responseVars>>

\* eof, which receive() takes for the end of the body.  sockget() makes eof of
\* every error of an SSL connection that is not one of the SSL library.
SizeAtEofBug == body_size
SizeAtEof == Len(body)
ReadEof ==
  /\ phase = "read" /\ wire = << >>
  /\ peer.ending = "fin" \/ (peer.tls /\ peer.ending = "rst") \/ errors > 0
  /\ body_size' = SizeAtEof
  /\ Leave("returned")
  /\ UNCHANGED <<netVars, redirtimes, appVars, target, kind, metaVars, body, progress, url,
                 fileVars>>

ReadThrows ==
  /\ phase = "read" /\ wire = << >>
  /\ ~peer.tls /\ peer.ending = "rst"
  /\ Leave("threw")
  /\ UNCHANGED <<netVars, redirtimes, appVars, target, responseVars>>

\* An error of the SSL library: sockget() answers 0, and the do-while loop looks
\* at buffer[0] although nothing was read.  Later reads may do the same, for ever if
\* the error stays (the bound is MaxErrors; no property rests on it), or report eof.
ReadNothing ==
  /\ phase = "read" /\ phase' = "parse"
  /\ wire = << >> /\ peer.ending = "tlserror"
  /\ errors < MaxErrors /\ errors' = errors + 1
  /\ chunk' = <<first>>
  /\ UNCHANGED <<peer, wire, whole, first, head, redirtimes, appVars, target, responseVars>>

-------------------------------------------------------------------------------
(* The switch of receive(): one token, and one action for each case.       *)

Parsing(state) == phase = "parse" /\ head.state = state

AfterTokenBug(rest) == "parse"
AfterToken(rest) == IF rest = << >> THEN "flush" ELSE "parse"
Consume ==
  /\ chunk' = Tail(chunk)
  /\ phase' = AfterToken(Tail(chunk))
  /\ UNCHANGED first

\* A token inside the head: it is consumed, and head becomes h.
Take(h) ==
  /\ head' = h
  /\ Consume
  /\ UNCHANGED <<netVars, redirtimes, appVars, target, responseVars>>

IsNumeral(v) == Len(v) = 1 /\ v[1] \in DOMAIN Numeral
Number(v) == Numeral[v[1]]

Version ==
  /\ Parsing("VERSION")
  /\ \/ /\ Head(chunk) # "SP"
        /\ Take([head EXCEPT !.version = Append(@, Head(chunk))])
     \/ /\ Head(chunk) = "SP"
        /\ Take([head EXCEPT !.state = "STATUS", !.temp = << >>])

Status ==
  /\ Parsing("STATUS")
  /\ \/ /\ Head(chunk) # "SP"
        /\ Take([head EXCEPT !.temp = Append(@, Head(chunk))])
     \/ /\ Head(chunk) = "SP" /\ IsNumeral(head.temp)
        /\ Take([head EXCEPT !.state = "DESCRIPTION", !.status = Number(head.temp)])

\* bad_lexical_cast, as for a status line that has no reason phrase.
BadStatus ==
  /\ Parsing("STATUS")
  /\ Head(chunk) = "SP" /\ ~IsNumeral(head.temp)
  /\ Leave("threw")
  /\ UNCHANGED <<netVars, redirtimes, appVars, target, responseVars>>

Description ==
  /\ Parsing("DESCRIPTION")
  /\ \/ Head(chunk) = "CR" /\ Take(head)
     \/ Head(chunk) = "LF" /\ Take([head EXCEPT !.state = "HEADER_KEY"])
     \/ /\ Head(chunk) \notin {"CR", "LF"}
        /\ Take([head EXCEPT !.description = Append(@, Head(chunk))])

\* Colons are skipped and a space ends the key, wherever they stand.
HeaderKey ==
  /\ Parsing("HEADER_KEY")
  /\ \/ Head(chunk) \in {"CR", ":"} /\ Take(head)
     \/ Head(chunk) = "SP" /\ Take([head EXCEPT !.state = "HEADER_VALUE", !.value = << >>])
     \/ /\ Head(chunk) \notin {"CR", "LF", ":", "SP"}
        /\ Take([head EXCEPT !.key = Append(@, Head(chunk))])

KeyAfterStoreBug == head.key
KeyAfterStore == << >>
HeaderValue ==
  /\ Parsing("HEADER_VALUE")
  /\ \/ Head(chunk) = "CR" /\ Take(head)
     \/ /\ Head(chunk) = "LF"
        /\ Take([head EXCEPT !.state = "HEADER_KEY", !.key = KeyAfterStore,
                   !.headers = InsertAll(@, [k \in {head.key} |-> head.value])])
     \/ /\ Head(chunk) \notin {"CR", "LF"}
        /\ Take([head EXCEPT !.value = Append(@, Head(chunk))])

-------------------------------------------------------------------------------
(* The empty line that ends the head: the cases of ANETD_HEADER_KEY on LF. *)

EndOfHead == Parsing("HEADER_KEY") /\ Head(chunk) = "LF"
IsFatal(s) == s >= 400
IsRedirect(s) == s >= 300 /\ s < 400

\* completed(), and receive() is left.
CompleteAndLeave ==
  /\ Completed
  /\ Leave("returned") \/ (CloseMayThrow /\ Leave("threw"))

\* What every answer that is final without a body leaves.
FinalWithoutBody ==
  /\ status' = head.status /\ description' = head.description
  /\ CompleteAndLeave
  /\ UNCHANGED <<netVars, appVars, target, kind, version, headers, bodyVars, url, disk>>

FatalStatus ==
  /\ EndOfHead
  /\ IsFatal(head.status)
  /\ FinalWithoutBody
  /\ UNCHANGED redirtimes

RedirectExhaustedBug(n) == n > RedirectLimit + 1
RedirectExhausted(n) == n > RedirectLimit
RedirectCountBug(n) == n
RedirectCount(n) == n + 1

Redirected ==
  /\ EndOfHead
  /\ IsRedirect(head.status)
  /\ redirtimes' = RedirectCount(redirtimes)

RedirectFails ==
  /\ Redirected
  /\ RedirectExhausted(redirtimes) \/ Location \notin DOMAIN head.headers
  /\ FinalWithoutBody

\* The file part of the URL a Location gives.
FilePart(value) == IF value = << >> THEN NoName ELSE Head(value)

GoesElsewhere ==
  /\ ~RedirectExhausted(redirtimes)
  /\ Location \in DOMAIN head.headers
  /\ SetURL(FilePart(head.headers[Location]))

\* The rest of chunk is dropped with the connection.
FollowRedirect ==
  /\ Redirected
  /\ GoesElsewhere
  /\ Leave("connect")
  /\ UNCHANGED <<netVars, appVars, target, kind, metaVars, bodyVars, opened, filepath, disk>>

\* disconnect() threw: see DisconnectThrows in HttpEngine.
DisconnectThrows ==
  /\ Redirected
  /\ peer.tls
  /\ \/ RedirectExhausted(redirtimes) /\ UNCHANGED <<url, filename>>
     \/ GoesElsewhere
  /\ Leave("threw")
  /\ UNCHANGED <<netVars, appVars, target, kind, metaVars, bodyVars, opened, filepath, disk>>

Accepting ==
  /\ EndOfHead
  /\ ~IsFatal(head.status) /\ ~IsRedirect(head.status)
  /\ version' = head.version /\ status' = head.status /\ description' = head.description
  /\ UNCHANGED <<netVars, redirtimes, appVars, target, kind, body, progress, url, fileVars>>

\* The size announced; 0 when none is.
Announces == ContentLength \in DOMAIN head.headers
AnnouncedSize == IF Announces THEN Number(head.headers[ContentLength]) ELSE 0

AcceptHead ==
  /\ Accepting
  /\ Announces => IsNumeral(head.headers[ContentLength])
  /\ headers' = InsertAll(headers, head.headers)
  /\ body_size' = AnnouncedSize
  /\ head' = [head EXCEPT !.state = IF Announces /\ AnnouncedSize = 0 THEN "OK" ELSE "BODY"]
  /\ Consume

\* bad_lexical_cast in the loop over tempheaders: the headers that sort before
\* Content-Length have been set.
BadContentLength ==
  /\ Accepting
  /\ Announces /\ ~IsNumeral(head.headers[ContentLength])
  /\ \E before \in SUBSET (DOMAIN head.headers \ {ContentLength}) :
       headers' = InsertAll(headers, [k \in before \cup {ContentLength} |-> head.headers[k]])
  /\ Leave("threw")
  /\ UNCHANGED body_size

-------------------------------------------------------------------------------
(* The body, and the end of a turn of the outer loop.                      *)

BodyFull(n) == n = body_size
Body ==
  /\ Parsing("BODY")
  /\ SetBody(Head(chunk))
  /\ head' = [head EXCEPT !.state = IF BodyFull(Len(body')) THEN "OK" ELSE "BODY"]
  /\ Consume
  /\ UNCHANGED <<netVars, redirtimes, appVars, target, kind, metaVars, url, fileVars>>

\* ANETD_OK: what is left of the read is not looked at.
Ok ==
  /\ Parsing("OK")
  /\ chunk' = << >> /\ phase' = "flush"
  /\ UNCHANGED <<netVars, first, head, redirtimes, appVars, target, responseVars>>

\* flush(); then another read, or completed().
Flush ==
  /\ phase = "flush"
  /\ FlushWrites \/ FlushKeeps
  /\ target' = IF opened' THEN filepath' ELSE target
  /\ phase' = IF head.state = "OK" THEN "complete" ELSE "read"
  /\ UNCHANGED <<netVars, bufferVars, head, redirtimes, appVars, kind, metaVars, body_size,
                 progress, url>>

Complete ==
  /\ phase = "complete"
  /\ CompleteAndLeave
  /\ UNCHANGED <<netVars, redirtimes, appVars, target, kind, metaVars, bodyVars, url, disk>>

FlushFails ==
  /\ phase = "flush"
  /\ FlushThrows
  /\ target' = IF opened' THEN filepath' ELSE target
  /\ Leave("threw")
  /\ UNCHANGED <<netVars, redirtimes, appVars, kind, metaVars, body_size, progress, url>>

-------------------------------------------------------------------------------

Receive ==
  \/ \E n \in ReadSizes : Read(n)
  \/ ReadEof \/ ReadThrows \/ ReadNothing
  \/ Version \/ Status \/ BadStatus \/ Description \/ HeaderKey \/ HeaderValue
  \/ FatalStatus \/ RedirectFails \/ FollowRedirect \/ DisconnectThrows
  \/ AcceptHead \/ BadContentLength
  \/ Body \/ Ok \/ Flush \/ Complete \/ FlushFails

Worker ==
  \/ \E c \in Connections : \E arriving \in 0..Len(Wire(c.message)) : Connect(c, arriving)
  \/ ConnectFails
  \/ Receive

\* The application may stop here.
Finished == ApplicationsTurn /\ transfers = MaxTransfers /\ UNCHANGED vars

Next ==
  \/ \E u \in FileParts : Starttransfer(u)
  \/ Reset \/ ResetThrows
  \/ Worker
  \/ Finished

Spec == Init /\ [][Next]_vars

-------------------------------------------------------------------------------
(* Properties.                                                             *)

\* Every variable stays in its range.
TypeOK ==
  /\ phase \in Phases
  /\ peer \in Connections \cup {NoPeer}
  /\ errors \in 0..MaxErrors
  /\ DOMAIN head = DOMAIN NoHead
  /\ head.state \in ParserStates /\ head.status \in Nat
  /\ redirtimes \in Nat
  /\ transfers \in 0..MaxTransfers
  /\ {whole, fresh, tidy} \subseteq BOOLEAN
  /\ kind \in Kinds
  /\ {status, body_size, progress} \subseteq Nat
  /\ filename \in {url, NoName}
  /\ opened \in BOOLEAN
  /\ opened => kind = "file" /\ filepath \in DOMAIN disk
  /\ target \in DOMAIN disk \cup {NoPath}
  /\ phase = "parse" => chunk # << >>

InBody == ~ApplicationsTurn /\ phase # "connect" /\ head.state \in {"BODY", "OK"}

\* The first field of m with key k; the fields a head gives more than once lose
\* all but the first, as in a std::map.
FieldValue(m, k) ==
  m.headers[SelectInSeq(m.headers, LAMBDA f : f[1] = k)][2]
Keys(m) == {f[1] : f \in ToSet(m.headers)}
Spaced(m) == \A f \in ToSet(m.headers) : f[3]

\* No part holds a token that ends it.
WellFormed(m) ==
  /\ "SP" \notin ToSet(m.version) \cup ToSet(m.status)
  /\ ToSet(m.description) \cap {"CR", "LF"} = {}
  /\ \A f \in ToSet(m.headers) : /\ ToSet(f[1]) \cap {"CR", "LF", ":", "SP"} = {}
                                 /\ ToSet(f[2]) \cap {"CR", "LF"} = {}

\* The head has the shape the parser expects, and reads reported nothing but data
\* and the end of the connection.
Expected == WellFormed(peer.message) /\ Spaced(peer.message) /\ errors = 0

\* However the network cuts it, a head whose fields have a space after the colon
\* arrives as it was sent: nothing left from an earlier hop or an earlier
\* transfer, no key joined to another.
HeadAsSent ==
  LET m == peer.message IN
  InBody /\ tidy /\ Expected =>
    /\ version = m.version
    /\ status = Number(m.status)
    /\ description = m.description
    /\ DOMAIN headers = Keys(m) \cup {ContentLength}
    /\ \A k \in Keys(m) \ {ContentLength} : headers[k] = FieldValue(m, k)

\* What the application can find of the body, in the file and in memory.
Delivered == (IF target = NoPath THEN << >> ELSE disk[target]) \o body

Succeeded == phase = "returned" /\ status \in 200..299

\* The body is never duplicated, reordered or skipped on its way through buffer,
\* memory and file; and it is all there once the transfer ended normally, save
\* what a server sends beyond the size it announced.  A server that announces more
\* than it sends loses nothing of what it sends.  After a failed write the file holds
\* the beginning of the body.
BodyAsSent ==
  LET m == peer.message IN
  tidy /\ Expected =>
    /\ InBody => IsPrefix(Delivered, m.body)
    /\ phase = "threw" /\ target # NoPath => IsPrefix(disk[target], m.body)
    /\ Succeeded /\ whole =>
         IF ContentLength \in Keys(m) /\ Number(FieldValue(m, ContentLength)) <= Len(m.body)
         THEN Len(Delivered) >= Number(FieldValue(m, ContentLength)) /\ IsPrefix(Delivered, m.body)
         ELSE Delivered = m.body

\* getProgress() counts what was delivered, whether it is in memory or in the file.
ProgressCountsBody ==
  tidy /\ (InBody \/ Succeeded) => progress = Len(Delivered)

\* After a transfer with a response in memory, getBodySize() is the size of
\* getBody(), whatever Content-Length announced.
SizeAgrees ==
  Succeeded /\ tidy /\ kind = "memory" => body_size = Len(body)

\* No file is ever lost, overwritten or shortened, whoever left it: a file is opened
\* only where there was none, stays the one that is open, and no other changes.  With
\* a reset() before every transfer, the open file is one this transfer opened; without,
\* an earlier one may have left it open, and it grows.
FilesKept ==
  [][/\ \A p \in DOMAIN disk :
          /\ p \in DOMAIN disk'
          /\ IsPrefix(disk[p], disk'[p])
          /\ disk'[p] # disk[p] => opened /\ p = filepath /\ (tidy => p = target)
     /\ opened' => (opened /\ filepath' = filepath) \/ filepath' \notin DOMAIN disk]_vars

\* What the worker has left to do, the most significant part first: redirects it
\* may follow, a request to send, bytes to read, bytes to parse.
Work ==
  <<IF ApplicationsTurn THEN 0 ELSE 1,
    IF RedirectExhausted(redirtimes) THEN 0 ELSE RedirectLimit + 1 - redirtimes,
    IF phase = "connect" THEN 1 ELSE 0,
    Len(wire),
    Len(chunk),
    CASE phase = "flush" -> 2 [] phase = "complete" -> 1 [] OTHER -> 0>>
Less(a, b) == \E i \in DOMAIN a : a[i] < b[i] /\ \A j \in 1..(i - 1) : a[j] = b[j]

\* A read that brought nothing: the message is used up, and the SSL library reports
\* an error that sockget() answers with 0.
NothingCame ==
  /\ phase = "read" /\ wire = << >>
  /\ peer.ending = "tlserror" /\ UNCHANGED peer /\ errors' = errors + 1

\* Every step of the worker but such a read leaves it less to do: no message, no way of
\* cutting it and no chain of redirects keeps the loops of connect() and receive()
\* turning.  Only an error of the SSL library that stays can.
AlwaysCloser == [][~ApplicationsTurn => Less(Work', Work) \/ NothingCame]_vars

\* receive() seen as the loop of module TransferLoop.
Stage ==
  IF ApplicationsTurn THEN "rest"
  ELSE IF phase = "connect" THEN "send" ELSE IF InBody THEN "body" ELSE "receive"

Loop == INSTANCE TransferLoop WITH stage <- Stage

\* Byte by byte, receive() does what HttpEngine takes it to do in one step: the
\* statuses it leaves and the redirects it follows are those of TransferLoop.
FollowsLoop == Loop!Spec

-------------------------------------------------------------------------------
(* What the documentation says and the code does not do.                   *)

\* http_response.hpp:121: "Return the Body of the HTTP transfer": not a byte the
\* server never sent.
BodyFromServer ==
  InBody /\ tidy /\ Spaced(peer.message) => IsPrefix(Delivered, peer.message.body)
===============================================================================
