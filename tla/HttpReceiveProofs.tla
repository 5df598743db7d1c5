--------------------------- MODULE HttpReceiveProofs ---------------------------
(***************************************************************************)
(* Theorems about HttpReceive, for every message, every way of cutting it  *)
(* and any number of transfers: the loops of receive() end unless the SSL  *)
(* library fails for ever, receive() is the one TransferLoop describes,    *)
(* progress and body_size count what was delivered, every variable stays   *)
(* in its range, and no file is lost or overwritten.  That what is         *)
(* delivered is what was sent is the subject of HttpReceiveTextProofs.     *)
(*                                                                         *)
(* Shape is what the control of the parser rests on; Counted, below, what  *)
(* the sizes do.                                                           *)
(***************************************************************************)
EXTENDS HttpReceive, TextLemmas, FiniteSetTheorems, TLAPS

HeadStates == {"VERSION", "STATUS", "DESCRIPTION", "HEADER_KEY", "HEADER_VALUE"}

IsHead(h) == DOMAIN h = DOMAIN NoHead /\ h.state \in ParserStates /\ h.status \in Nat

Shape ==
  /\ phase \in Phases
  /\ errors \in 0..MaxErrors
  /\ redirtimes \in Nat /\ status \in Nat
  /\ IsText(wire) /\ IsText(chunk)
  /\ phase = "parse" => chunk # << >>
  /\ IsHead(head)
  /\ ApplicationsTurn \/ phase = "connect" => head.state \in HeadStates
  /\ phase = "complete" => head.state = "OK"

-------------------------------------------------------------------------------
(* The shape of every state.                                               *)

\* One token is gone.
LEMMA ConsumeStep ==
  ASSUME IsText(chunk), chunk # << >>, Consume
  PROVE  /\ IsText(chunk') /\ Len(chunk) \in Nat /\ Len(chunk') = Len(chunk) - 1
         /\ phase' \in {"parse", "flush"} /\ (phase' = "parse" => chunk' # << >>)
BY TailShorter DEF Consume, AfterToken

\* The actions that look at one token of the head.
HeadToken == Version \/ Status \/ Description \/ HeaderKey \/ HeaderValue

\* A token of the head changes nothing but chunk, head and phase.
LEMMA HeadTokenStep ==
  ASSUME Shape, HeadToken
  PROVE  /\ phase = "parse" /\ head.state \in HeadStates
         /\ Consume
         /\ IsHead(head') /\ head'.state \in HeadStates
         /\ UNCHANGED <<netVars, redirtimes, appVars, target, responseVars>>
<1> SUFFICES \E h : Take(h) /\ IsHead(h) /\ h.state \in HeadStates
                    /\ phase = "parse" /\ head.state \in HeadStates
  BY DEF Take
<1>h. IsHead(head) /\ IsHead([head EXCEPT !.state = "STATUS", !.temp = << >>])
  BY DEF Shape, IsHead, NoHead, ParserStates
<1>1. CASE Version
  BY <1>1, <1>h DEF Version, Parsing, IsHead, NoHead, ParserStates, HeadStates
<1>2. CASE Status
  <2>1. CASE Head(chunk) # "SP"
    BY <1>2, <1>h, <2>1 DEF Status, Parsing, IsHead, NoHead, HeadStates
  <2>2. CASE Head(chunk) = "SP"
    <3>1. IsNumeral(head.temp) /\ Number(head.temp) \in Nat
      BY <1>2, <2>2, ReceiveAssumption DEF Status, IsNumeral, Number
    <3> QED
      BY <1>2, <1>h, <2>2, <3>1 DEF Status, Parsing, IsHead, NoHead, ParserStates, HeadStates
  <2> QED
    BY <2>1, <2>2
<1>3. CASE Description
  BY <1>3, <1>h DEF Description, Parsing, IsHead, NoHead, ParserStates, HeadStates
<1>4. CASE HeaderKey
  BY <1>4, <1>h DEF HeaderKey, Parsing, IsHead, NoHead, ParserStates, HeadStates
<1>5. CASE HeaderValue
  BY <1>5, <1>h DEF HeaderValue, KeyAfterStore, Parsing, IsHead, NoHead, ParserStates, HeadStates
<1> QED
  BY <1>1, <1>2, <1>3, <1>4, <1>5 DEF HeadToken

\* Every execution starts in the shape.
LEMMA ShapeInit == Init => Shape
BY ShortTexts, ReceiveAssumption
DEF Init, Shape, ResponseInit, Phases, NoHead, IsHead, ParserStates, HeadStates

\* Leaving receive() leaves a parser that has not begun.
LEMMA LeaveStep ==
  ASSUME NEW where, Leave(where)
  PROVE  /\ phase' = where /\ IsText(chunk') /\ IsHead(head') /\ head'.state = "VERSION"
BY ShortTexts DEF Leave, NoHead, IsHead, ParserStates

\* The actions that leave receive() and stop the worker.
Ends ==
  \/ ReadEof \/ ReadThrows \/ BadStatus \/ FatalStatus \/ RedirectFails \/ DisconnectThrows
  \/ BadContentLength \/ Complete \/ FlushFails

\* Where the worker stops, nothing moves but phase and the response.
LEMMA EndStep ==
  ASSUME Shape, Ends
  PROVE  /\ phase \in {"read", "parse", "flush", "complete"} /\ phase' \in {"returned", "threw"}
         /\ Leave(phase')
         /\ redirtimes' \in Nat /\ status' \in Nat
         /\ UNCHANGED netVars
<1>1. CASE ReadEof \/ ReadThrows \/ BadStatus \/ Complete \/ FlushFails
  BY <1>1
  DEF Shape, ReadEof, ReadThrows, BadStatus, Parsing, Complete, CompleteAndLeave, FlushFails, Leave,
      metaVars, responseVars
<1>2. CASE FatalStatus \/ RedirectFails \/ DisconnectThrows \/ BadContentLength
  <2>1. phase = "parse" /\ head.status \in Nat /\ redirtimes \in Nat /\ status \in Nat
    BY <1>2 DEF Shape, FatalStatus, RedirectFails, DisconnectThrows, BadContentLength, Redirected,
       Accepting, EndOfHead, Parsing, IsHead
  <2> QED
    BY <1>2, <2>1 DEF FatalStatus, RedirectFails, DisconnectThrows, BadContentLength, Redirected,
       RedirectCount, Accepting, FinalWithoutBody, CompleteAndLeave, Leave, metaVars
<1> QED
  BY <1>1, <1>2 DEF Ends

\* A read moves some of wire to chunk.
LEMMA ReadStep ==
  ASSUME Shape, NEW size \in ReadSizes, Read(size)
  PROVE  /\ IsText(wire') /\ Len(wire) \in Nat /\ Len(wire') \in Nat /\ Len(wire') < Len(wire)
         /\ IsText(chunk') /\ chunk' # << >>
<1>1. IsText(wire) /\ wire # << >> /\ size \in Nat \ {0}
  BY ReceiveAssumption DEF Shape, Read
<1>2. Len(wire) \in Nat \ {0}
  BY <1>1 DEF IsText
<1>3. PICK n \in 1..Len(wire) :
        chunk' = SubSeq(wire, 1, n) /\ wire' = SubSeq(wire, n + 1, Len(wire))
  <2> DEFINE n == IF size < Len(wire) THEN size ELSE Len(wire)
  <2>1. n \in 1..Len(wire)
    BY <1>1, <1>2
  <2> QED
    BY <2>1 DEF Read
<1>4. /\ IsText(chunk') /\ Len(chunk') = n
      /\ IsText(wire') /\ Len(wire') = Len(wire) - n
  BY <1>1, <1>3, CutShorter
<1>5. chunk' # << >>
  BY <1>2, <1>4, Len(<< >>) = 0
<1> QED
  BY <1>2, <1>4, <1>5

\* The step half of the invariance of Shape.
LEMMA ShapeStep == Shape /\ [Next]_vars => Shape'
<1> SUFFICES ASSUME Shape, [Next]_vars PROVE Shape'
  OBVIOUS
<1> USE DEF Shape
<1>1. CASE UNCHANGED vars
  BY <1>1 DEF vars, netVars, bufferVars, responseVars, metaVars, ApplicationsTurn
<1>2. ASSUME NEW u \in FileParts, Starttransfer(u)
      PROVE  Shape'
  BY <1>2 DEF Starttransfer, SetURL, netVars, bufferVars, metaVars, Phases, ApplicationsTurn
<1>3. CASE Reset
  BY <1>3 DEF Reset, ResetResponse, netVars, bufferVars, Phases, ApplicationsTurn
<1>4. ASSUME NEW c \in Connections, NEW n \in 0..Len(Wire(c.message)), Connect(c, n)
      PROVE  Shape'
  <2>1. IsText(wire')
    BY <1>4, BeginningIsText DEF Connect
  <2> QED
    BY <1>4, <2>1, ReceiveAssumption DEF Connect, Phases, ApplicationsTurn, appVars
<1>5. CASE ConnectFails
  BY <1>5 DEF ConnectFails, netVars, bufferVars, responseVars, metaVars, Phases, ApplicationsTurn
<1>6. CASE HeadToken
  BY <1>6, HeadTokenStep, ConsumeStep
  DEF netVars, responseVars, metaVars, Phases, ApplicationsTurn
<1>7. CASE Ends
  BY <1>7, EndStep, LeaveStep DEF netVars, Phases, HeadStates
<1>8. ASSUME NEW n \in ReadSizes, Read(n)
      PROVE  Shape'
  BY <1>8, ReadStep DEF Read, responseVars, metaVars, Phases, ApplicationsTurn
<1>9. CASE ReadNothing
  BY <1>9, ShortTexts, ReceiveAssumption DEF ReadNothing, responseVars, metaVars, Phases, ApplicationsTurn
<1>10. CASE FollowRedirect
  BY <1>10, LeaveStep
  DEF FollowRedirect, Redirected, RedirectCount, netVars, metaVars, Phases, ApplicationsTurn, HeadStates
<1>11. CASE AcceptHead
  <2>1. IsHead(head')
    BY <1>11 DEF AcceptHead, IsHead, NoHead, ParserStates
  <2>2. phase = "parse"
    BY <1>11 DEF AcceptHead, Accepting, EndOfHead, Parsing
  <2> QED
    BY <1>11, <2>1, <2>2, ConsumeStep
    DEF AcceptHead, Accepting, IsHead, netVars, Phases, ApplicationsTurn
<1>12. CASE Body
  <2>1. IsHead(head')
    BY <1>12 DEF Body, IsHead, NoHead, ParserStates
  <2>2. phase = "parse"
    BY <1>12 DEF Body, Parsing
  <2> QED
    BY <1>12, <2>1, <2>2, ConsumeStep
    DEF Body, netVars, metaVars, Phases, ApplicationsTurn
<1>13. CASE Ok
  BY <1>13, ShortTexts DEF Ok, Parsing, netVars, responseVars, metaVars, Phases, ApplicationsTurn
<1>14. CASE Flush
  BY <1>14 DEF Flush, netVars, bufferVars, metaVars, Phases, ApplicationsTurn
<1>15. CASE Finished
  BY <1>15, <1>1 DEF Finished
<1>16. CASE ResetThrows
  BY <1>16 DEF ResetThrows, ResetResponseThrows, netVars, bufferVars, metaVars, ApplicationsTurn
<1> QED
  BY <1>1, <1>2, <1>3, <1>4, <1>5, <1>6, <1>7, <1>8, <1>9, <1>10, <1>11, <1>12, <1>13, <1>14, <1>15,
     <1>16
  DEF Next, Worker, Receive, HeadToken, Ends

\* The control of the parser is in shape in every reachable state.
THEOREM ShapeAlways == Spec => []Shape
BY ShapeInit, ShapeStep, PTL DEF Spec

-------------------------------------------------------------------------------
(* The loops of receive() end.                                             *)

\* Less is the lexicographic order.
LEMMA LessIsLexicographic ==
  ASSUME NEW a, DOMAIN a = 1..6, NEW b, NEW k \in 1..6,
         a[k] < b[k], \A j \in 1..6 : j < k => a[j] = b[j]
  PROVE  Less(a, b)
BY DEF Less

\* The parts of Work, one by one.
TurnsLeft == IF ApplicationsTurn THEN 0 ELSE 1
RedirectsLeft == IF RedirectExhausted(redirtimes) THEN 0 ELSE RedirectLimit + 1 - redirtimes
ConnectsLeft == IF phase = "connect" THEN 1 ELSE 0
StagesLeft == CASE phase = "flush" -> 2 [] phase = "complete" -> 1 [] OTHER -> 0

\* The first part that changes gets smaller.
LEMMA LessWork ==
  ASSUME \/ TurnsLeft' < TurnsLeft
         \/ /\ TurnsLeft' = TurnsLeft
            /\ \/ RedirectsLeft' < RedirectsLeft
               \/ /\ RedirectsLeft' = RedirectsLeft
                  /\ \/ ConnectsLeft' < ConnectsLeft
                     \/ /\ ConnectsLeft' = ConnectsLeft
                        /\ \/ Len(wire') < Len(wire)
                           \/ /\ wire' = wire
                              /\ \/ Len(chunk') < Len(chunk)
                                 \/ chunk' = chunk /\ StagesLeft' < StagesLeft
  PROVE  Less(Work', Work)
<1> DEFINE a == Work'
           b == Work
<1>1. a = <<TurnsLeft', RedirectsLeft', ConnectsLeft', Len(wire'), Len(chunk'), StagesLeft'>>
  BY DEF Work, TurnsLeft, RedirectsLeft, ConnectsLeft, StagesLeft
<1>2. b = <<TurnsLeft, RedirectsLeft, ConnectsLeft, Len(wire), Len(chunk), StagesLeft>>
  BY DEF Work, TurnsLeft, RedirectsLeft, ConnectsLeft, StagesLeft
<1>3. /\ DOMAIN a = 1..6
      /\ a[1] = TurnsLeft' /\ a[2] = RedirectsLeft' /\ a[3] = ConnectsLeft'
      /\ a[4] = Len(wire') /\ a[5] = Len(chunk') /\ a[6] = StagesLeft'
  BY <1>1
<1>4. /\ b[1] = TurnsLeft /\ b[2] = RedirectsLeft /\ b[3] = ConnectsLeft
      /\ b[4] = Len(wire) /\ b[5] = Len(chunk) /\ b[6] = StagesLeft
  BY <1>2
<1> HIDE DEF a, b
<1>5. PICK k \in 1..6 : a[k] < b[k] /\ \A j \in 1..6 : j < k => a[j] = b[j]
  BY <1>3, <1>4
<1>6. Less(a, b)
  BY <1>3, <1>5, LessIsLexicographic
<1> QED
  BY <1>6 DEF a, b

\* Whatever the worker does, but for a read that brings nothing, leaves it less to do.
LEMMA CloserStep ==
  Shape /\ [Next]_vars => [~ApplicationsTurn => Less(Work', Work) \/ NothingCame]_vars
<1> SUFFICES ASSUME Shape, Next, ~ApplicationsTurn, ~NothingCame PROVE Less(Work', Work)
  OBVIOUS
<1> USE DEF TurnsLeft, ApplicationsTurn
<1>t. redirtimes \in Nat /\ RedirectLimit \in Nat
  BY ReceiveAssumption DEF Shape
<1>1. ASSUME NEW c \in Connections, NEW n \in 0..Len(Wire(c.message)), Connect(c, n)
      PROVE  Less(Work', Work)
  <2>1. /\ TurnsLeft' = TurnsLeft /\ RedirectsLeft' = RedirectsLeft
        /\ ConnectsLeft' < ConnectsLeft
    BY <1>1 DEF Connect, RedirectsLeft, ConnectsLeft, RedirectExhausted
  <2> QED
    BY <2>1, LessWork
<1>2. CASE ConnectFails
  <2>1. TurnsLeft' < TurnsLeft
    BY <1>2 DEF ConnectFails
  <2> QED
    BY <2>1, LessWork
<1>3. CASE Ends
  <2>1. TurnsLeft' < TurnsLeft
    BY <1>3, EndStep
  <2> QED
    BY <2>1, LessWork
<1>4. CASE FollowRedirect
  <2>1. TurnsLeft' = TurnsLeft
    BY <1>4 DEF FollowRedirect, Leave
  <2>2. redirtimes' = redirtimes + 1 /\ ~(redirtimes > RedirectLimit)
    BY <1>4 DEF FollowRedirect, Redirected, RedirectCount, GoesElsewhere, RedirectExhausted
  <2>3. RedirectsLeft' < RedirectsLeft
    BY <1>t, <2>2 DEF RedirectsLeft, RedirectExhausted
  <2> QED
    BY <2>1, <2>3, LessWork
<1>5. ASSUME phase \in {"read", "parse", "flush"}, phase' \in {"read", "parse", "flush", "complete"},
             UNCHANGED redirtimes,
             \/ Len(wire') < Len(wire)
             \/ wire' = wire /\ Len(chunk') < Len(chunk)
             \/ wire' = wire /\ chunk' = chunk /\ StagesLeft' < StagesLeft
      PROVE  Less(Work', Work)
  <2>1. /\ TurnsLeft' = TurnsLeft /\ RedirectsLeft' = RedirectsLeft
        /\ ConnectsLeft' = ConnectsLeft
    BY <1>5 DEF RedirectsLeft, ConnectsLeft, RedirectExhausted
  <2> QED
    BY <1>5, <2>1, LessWork
<1>6. ASSUME NEW size \in ReadSizes, Read(size)
      PROVE  Less(Work', Work)
  <2>1. Len(wire') < Len(wire)
    BY <1>6, ReadStep
  <2> QED
    BY <1>5, <1>6, <2>1 DEF Read
<1>7. ~ReadNothing
  BY DEF ReadNothing, NothingCame
<1>8. CASE HeadToken \/ AcceptHead \/ Body \/ Ok
  <2>1. phase = "parse" /\ IsText(chunk) /\ chunk # << >>
    BY <1>8, HeadTokenStep
    DEF Shape, AcceptHead, Accepting, EndOfHead, Body, Ok, Parsing
  <2>2. /\ phase' \in {"parse", "flush"} /\ Len(chunk') < Len(chunk)
        /\ UNCHANGED <<netVars, redirtimes>>
    <3>1. CASE Ok
      BY <2>1, <3>1, TailShorter, Len(<< >>) = 0 DEF Ok, IsText
    <3>2. CASE HeadToken \/ AcceptHead \/ Body
      BY <2>1, <3>2, HeadTokenStep, ConsumeStep DEF AcceptHead, Accepting, Body
    <3> QED
      BY <1>8, <3>1, <3>2
  <2> QED
    BY <1>5, <2>1, <2>2 DEF netVars
<1>9. CASE Flush
  <2>1. /\ phase = "flush" /\ phase' \in {"read", "complete"}
        /\ UNCHANGED <<redirtimes, errors, wire, chunk>>
    BY <1>9 DEF Flush, netVars, bufferVars
  <2>2. StagesLeft' < StagesLeft
    BY <2>1 DEF StagesLeft
  <2> QED
    BY <1>5, <2>1, <2>2
<1> QED
  BY <1>1, <1>2, <1>3, <1>4, <1>6, <1>7, <1>8, <1>9
  DEF Next, Worker, Receive, HeadToken, Ends, Starttransfer, Reset, ResetThrows, Finished

\* Every step of the worker but a read that brings nothing leaves it less to do, so the
\* loops of connect() and receive() end whatever the server sends and however it is
\* cut, unless the SSL library reports an error for ever.
THEOREM LoopsEnd == Spec => AlwaysCloser
BY ShapeInit, ShapeStep, CloserStep, PTL DEF Spec, AlwaysCloser

-------------------------------------------------------------------------------
(* receive() byte by byte is the receive() of TransferLoop.                *)

\* At first the loop rests.
LEMMA LoopInit == Init => Loop!Init
BY DEF Init, ResponseInit, Loop!Init, Stage, ApplicationsTurn

\* What the ends of receive() are to the loop.
LEMMA EndsFollowLoop ==
  ASSUME Shape, Ends
  PROVE  Loop!Next
<1>t. redirtimes \in Nat /\ status \in Nat /\ head.status \in Nat
  BY DEF Shape, IsHead
<1>r. Stage' = "rest" /\ Stage \in {"receive", "body"}
  BY EndStep DEF Stage, ApplicationsTurn
<1>1. CASE ReadEof \/ ReadThrows \/ BadStatus \/ Complete \/ FlushFails
  <2>1. UNCHANGED <<status, redirtimes>>
    BY <1>1 DEF ReadEof, ReadThrows, BadStatus, Complete, FlushFails, metaVars, responseVars
  <2> QED
    BY <1>r, <2>1 DEF Loop!Next, Loop!End
<1>2. CASE FatalStatus \/ RedirectFails \/ DisconnectThrows \/ BadContentLength
  <2>1. Stage = "receive"
    BY <1>2 DEF FatalStatus, RedirectFails, DisconnectThrows, BadContentLength, Redirected,
       Accepting, EndOfHead, Parsing, Stage, InBody, ApplicationsTurn
  <2>2. CASE FatalStatus
    BY <1>t, <1>r, <2>1, <2>2
    DEF FatalStatus, FinalWithoutBody, IsFatal, Loop!Next, Loop!Refused
  <2>3. CASE RedirectFails
    BY <1>t, <1>r, <2>1, <2>3
    DEF RedirectFails, Redirected, RedirectCount, FinalWithoutBody, IsRedirect, Loop!Next, Loop!Redirect
  <2>4. CASE DisconnectThrows
    BY <1>t, <1>r, <2>1, <2>4
    DEF DisconnectThrows, Redirected, RedirectCount, metaVars, Loop!Next, Loop!Redirect
  <2>5. CASE BadContentLength
    BY <1>t, <1>r, <2>1, <2>5
    DEF BadContentLength, Accepting, IsFatal, IsRedirect, Loop!Next, Loop!Accept
  <2> QED
    BY <1>2, <2>2, <2>3, <2>4, <2>5
<1> QED
  BY <1>1, <1>2 DEF Ends

\* Every step is a step of the loop or leaves it where it is.
LEMMA LoopStep == Shape /\ [Next]_vars => [Loop!Next]_(Loop!vars)
<1> SUFFICES ASSUME Shape, [Next]_vars PROVE [Loop!Next]_(Loop!vars)
  OBVIOUS
<1> USE DEF Stage, ApplicationsTurn
<1>t. redirtimes \in Nat /\ status \in Nat /\ RedirectLimit \in Nat /\ head.status \in Nat
  BY ReceiveAssumption DEF Shape, IsHead
<1>1. CASE UNCHANGED vars
  BY <1>1 DEF vars, netVars, bufferVars, responseVars, metaVars, InBody, Loop!vars
<1>2. ASSUME NEW u \in FileParts, Starttransfer(u)
      PROVE  Loop!Start
  BY <1>t, <1>2 DEF Starttransfer, metaVars, Loop!Start
<1>3. CASE Reset
  BY <1>3 DEF Reset, ResetResponse, Loop!Reset, Loop!Next
<1>4. ASSUME NEW c \in Connections, NEW n \in 0..Len(Wire(c.message)), Connect(c, n)
      PROVE  Loop!Send
  BY <1>4 DEF Shape, HeadStates, Connect, InBody, Loop!Send
<1>5. CASE ConnectFails
  BY <1>5 DEF ConnectFails, responseVars, metaVars, Loop!End, Loop!Next
<1>6. CASE HeadToken
  <2>1. Stage = "receive" /\ Stage' = "receive"
    BY <1>6, HeadTokenStep DEF Consume, AfterToken, HeadStates, InBody
  <2> QED
    BY <1>6, <2>1, HeadTokenStep DEF responseVars, metaVars, Loop!vars
<1>7. CASE Ends
  BY <1>7, EndsFollowLoop
<1>8. CASE (\E n \in ReadSizes : Read(n)) \/ ReadNothing \/ Ok
  BY <1>8 DEF Read, ReadNothing, Ok, Parsing, netVars, responseVars, metaVars, InBody, Loop!vars
<1>9. CASE FollowRedirect
  <2>1. Stage = "receive" /\ Stage' = "send" /\ UNCHANGED status
    BY <1>9 DEF FollowRedirect, Redirected, EndOfHead, Parsing, Leave, metaVars, InBody
  <2>2. redirtimes' = redirtimes + 1 /\ redirtimes <= RedirectLimit
    BY <1>t, <1>9 DEF FollowRedirect, Redirected, RedirectCount, GoesElsewhere, RedirectExhausted
  <2> QED
    BY <2>1, <2>2 DEF Loop!Redirect, Loop!Next
<1>10. CASE AcceptHead
  <2>1. head'.state \in {"BODY", "OK"}
    BY <1>10 DEF AcceptHead, Shape, IsHead, NoHead
  <2>2. Stage = "receive" /\ Stage' = "body"
    BY <1>10, <2>1 DEF AcceptHead, Accepting, EndOfHead, Parsing, Consume, AfterToken, InBody
  <2> QED
    BY <1>t, <1>10, <2>2
    DEF AcceptHead, Accepting, IsFatal, IsRedirect, Loop!Next, Loop!Accept
<1>11. CASE Body
  <2>1. head'.state \in {"BODY", "OK"}
    BY <1>11 DEF Body, Shape, IsHead, NoHead
  <2>2. Stage = "body" /\ Stage' = "body"
    BY <1>11, <2>1 DEF Body, Parsing, Consume, AfterToken, InBody
  <2> QED
    BY <1>11, <2>2 DEF Body, metaVars, Loop!vars
<1>12. CASE Flush
  BY <1>12 DEF Flush, metaVars, InBody, Loop!vars
<1>13. CASE Finished
  BY <1>1, <1>13 DEF Finished
<1>14. CASE ResetThrows
  BY <1>14 DEF ResetThrows, ResetResponseThrows, metaVars, InBody, Loop!vars
<1> QED
  BY <1>1, <1>2, <1>3, <1>4, <1>5, <1>6, <1>7, <1>8, <1>9, <1>10, <1>11, <1>12, <1>13, <1>14
  DEF Next, Worker, Receive, HeadToken, Ends, Loop!Next

\* The receive() that HttpEngine takes for one step is this one: for every message
\* and every way of cutting it, the statuses left and the redirects followed are
\* those of TransferLoop.
THEOREM ReceiveFollowsLoop == Spec => FollowsLoop
BY LoopInit, LoopStep, ShapeInit, ShapeStep, PTL DEF Spec, FollowsLoop, Loop!Spec

-------------------------------------------------------------------------------
(* The sizes count what was delivered.                                     *)

\* Bodies and files are texts, and an open file is on the disk.
Storage ==
  /\ IsText(body) /\ \A p \in DOMAIN disk : IsText(disk[p])
  /\ opened \in BOOLEAN
  /\ opened => kind = "file" /\ filepath \in DOMAIN disk /\ filepath # NoPath
  /\ fresh => phase = "idle"

\* What the sizes say at every point of a transfer, of an application that resets.
Sizes ==
  /\ fresh => body = << >> /\ progress = 0 /\ ~opened
  /\ progress \in Nat
  /\ ~ApplicationsTurn => target = IF opened THEN filepath ELSE NoPath
  /\ phase \notin {"idle", "threw"} => progress = Len(Delivered)
  /\ ~ApplicationsTurn /\ head.state \in HeadStates => body = << >>
  /\ kind = "memory" /\ (Succeeded \/ (~ApplicationsTurn /\ head.state = "OK")) => body_size = Len(body)

Counted == Storage /\ (tidy => Sizes)

\* At first nothing is delivered.
LEMMA CountedInit == Init => Counted
<1> SUFFICES ASSUME Init PROVE Counted
  OBVIOUS
<1>1. IsText(body) /\ \A p \in DOMAIN disk : IsText(disk[p])
  BY ShortTexts DEF Init, ResponseInit
<1> QED
  BY <1>1 DEF Init, ResponseInit, Counted, Storage, Sizes, ApplicationsTurn, Succeeded

\* A step that leaves the body, its file and its sizes alone.
LEMMA QuietStep ==
  ASSUME Counted,
         UNCHANGED <<kind, body, progress, disk, opened, filepath, target, fresh, tidy>>,
         ~ApplicationsTurn, phase' # "idle",
         phase' = "returned" => status' \notin 200..299 \/ body_size' = Len(body),
         ~ApplicationsTurn' /\ head'.state \in HeadStates => head.state \in HeadStates,
         ~ApplicationsTurn' /\ head'.state = "OK" =>
           \/ head.state = "OK" /\ UNCHANGED body_size
           \/ body_size' = Len(body)
  PROVE  Counted'
<1> USE DEF ApplicationsTurn
<1>1. Storage'
  BY DEF Counted, Storage
<1>2. Delivered' = Delivered
  BY DEF Delivered
<1>3. ASSUME tidy PROVE Sizes'
  BY <1>2, <1>3 DEF Counted, Storage, Sizes, Succeeded
<1> QED
  BY <1>1, <1>3 DEF Counted

\* A write makes sure of a file, and it grows by what is written.
LEMMA WriteGrows ==
  ASSUME Storage, NEW data, IsText(data), opened \/ filename # NoName, WriteToFile(data)
  PROVE  /\ opened' = TRUE /\ filepath' \in DOMAIN disk' /\ filepath' # NoPath
         /\ \A p \in DOMAIN disk' : IsText(disk'[p])
         /\ disk'[filepath'] = Contents \o data
         /\ IsText(Contents) /\ Len(Contents \o data) = Len(Contents) + Len(data)
<1>1. IsText(Contents)
  BY ShortTexts DEF Contents, Storage
<1>2. IsText(Contents \o data) /\ Len(Contents \o data) = Len(Contents) + Len(data)
  BY <1>1, JoinedLength
<1>3. OpenPath # NoPath
  BY DEF OpenPath, FreePath, Path, NoPath, Storage
<1>4. /\ opened' = TRUE /\ filepath' = OpenPath /\ DOMAIN disk' = DOMAIN disk \cup {OpenPath}
      /\ \A p \in DOMAIN disk' : disk'[p] = IF p = OpenPath THEN Contents \o data ELSE disk[p]
  BY DEF WriteToFile
<1> QED
  BY <1>1, <1>2, <1>3, <1>4 DEF Storage

\* flush(): what leaves memory is in the file.
LEMMA FlushCounts ==
  ASSUME Shape, Counted, Flush
  PROVE  Counted'
<1> USE DEF ApplicationsTurn
<1>s. Storage /\ IsText(body)
  BY DEF Counted, Storage
<1>f. /\ phase = "flush" /\ phase' \in {"read", "complete"}
      /\ target' = IF opened' THEN filepath' ELSE target
      /\ UNCHANGED <<head, fresh, tidy, kind, body_size, progress>>
  BY DEF Flush, appVars
<1>1. CASE FlushKeeps
  <2>1. UNCHANGED <<body, disk, opened>> /\ (opened => filepath' = filepath)
    BY <1>1, <1>s DEF FlushKeeps, Storage
  <2>2. Storage'
    BY <1>s, <1>f, <2>1 DEF Storage
  <2>3. ASSUME tidy PROVE Sizes'
    <3>1. UNCHANGED target
      BY <1>f, <2>1, <2>3 DEF Counted, Sizes
    <3>2. Delivered' = Delivered
      BY <2>1, <3>1 DEF Delivered
    <3> QED
      BY <1>f, <2>1, <2>3, <3>1, <3>2 DEF Counted, Sizes, Succeeded
  <2> QED
    BY <1>f, <2>2, <2>3 DEF Counted
<1>2. CASE FlushWrites
  <2>1. /\ opened' = TRUE /\ filepath' \in DOMAIN disk' /\ filepath' # NoPath
        /\ \A p \in DOMAIN disk' : IsText(disk'[p])
        /\ disk'[filepath'] = Contents \o body
        /\ IsText(Contents) /\ Len(Contents \o body) = Len(Contents) + Len(body)
    BY <1>2, <1>s, WriteGrows DEF FlushWrites
  <2>2. body' = << >> /\ kind = "file" /\ target' = filepath'
    BY <1>2, <1>f, <2>1 DEF FlushWrites, BodyAfterWrite
  <2>3. Storage'
    BY <1>s, <1>f, <2>1, <2>2, ShortTexts DEF Storage
  <2>4. ASSUME tidy PROVE Sizes'
    <3>1. Delivered = Contents \o body
      BY <1>f, <1>s, <2>4 DEF Delivered, Contents, Counted, Sizes, Storage
    <3>2. Delivered' = (Contents \o body) \o << >>
      BY <2>1, <2>2 DEF Delivered
    <3>3. Len(Delivered') = Len(Delivered)
      <4>1. IsText(Contents \o body)
        BY <1>s, <2>1, JoinedLength
      <4> QED
        BY <3>1, <3>2, <4>1, ShortTexts, JoinedLength, Len(<< >>) = 0 DEF IsText
    <3> QED
      BY <1>f, <1>s, <2>1, <2>2, <2>4, <3>3 DEF Counted, Sizes, Succeeded, Storage
  <2> QED
    BY <1>f, <2>3, <2>4 DEF Counted
<1> QED
  BY <1>1, <1>2 DEF Flush

\* completed(): the file is closed, and what it holds stays.
LEMMA CompletedCounts ==
  ASSUME Counted, Completed, ~ApplicationsTurn, phase' \in {"returned", "threw"},
         UNCHANGED <<kind, body, body_size, progress, disk, target, fresh, tidy>>,
         status' \in 200..299 => head.state = "OK"
  PROVE  Counted'
<1> USE DEF ApplicationsTurn
<1>1. Storage'
  BY DEF Counted, Storage, Completed, CloseFile
<1>2. Delivered' = Delivered
  BY DEF Delivered
<1>3. ASSUME tidy PROVE Sizes'
  BY <1>2, <1>3 DEF Counted, Storage, Sizes, Succeeded
<1> QED
  BY <1>1, <1>3 DEF Counted

\* receive() leaves the sizes right, whichever way it is left.
LEMMA EndsCount ==
  ASSUME Shape, Counted, Ends
  PROVE  Counted'
<1>p. ~ApplicationsTurn /\ ApplicationsTurn' /\ phase' # "idle"
  BY EndStep DEF ApplicationsTurn
<1>1. CASE ReadEof \/ ReadThrows \/ BadStatus
  <2>1. /\ UNCHANGED <<kind, body, progress, disk, opened, filepath, target, fresh, tidy>>
        /\ phase' = "returned" => body_size' = Len(body)
    BY <1>1 DEF ReadEof, ReadThrows, BadStatus, SizeAtEof, Leave, appVars, responseVars, bodyVars,
       metaVars, fileVars
  <2> QED
    BY <1>p, <2>1, QuietStep
<1>2. CASE DisconnectThrows \/ BadContentLength
  <2>1. /\ UNCHANGED <<kind, body, progress, disk, opened, filepath, target, fresh, tidy>>
        /\ phase' = "threw"
    BY <1>2 DEF DisconnectThrows, BadContentLength, Accepting, Leave, appVars, bodyVars, fileVars
  <2> QED
    BY <1>p, <2>1, QuietStep
<1>3. CASE FatalStatus \/ RedirectFails
  <2>1. /\ Completed /\ phase' \in {"returned", "threw"}
        /\ UNCHANGED <<kind, body, body_size, progress, disk, target, fresh, tidy>>
    BY <1>3 DEF FatalStatus, RedirectFails, FinalWithoutBody, CompleteAndLeave, Leave, appVars, bodyVars
  <2>2. status' \notin 200..299
    <3>1. status' = head.status /\ head.status \in Nat /\ head.status >= 300
      BY <1>3 DEF FatalStatus, RedirectFails, Redirected, FinalWithoutBody, IsFatal, IsRedirect,
         Shape, IsHead
    <3> QED
      BY <3>1
  <2> QED
    BY <1>p, <2>1, <2>2, CompletedCounts
<1>4. CASE Complete
  <2>1. /\ Completed /\ phase' \in {"returned", "threw"} /\ head.state = "OK"
        /\ UNCHANGED <<kind, body, body_size, progress, disk, target, fresh, tidy>>
    BY <1>4 DEF Complete, CompleteAndLeave, Leave, Shape, appVars, bodyVars
  <2> QED
    BY <1>p, <2>1, CompletedCounts
<1>5. CASE FlushFails
  <2>1. /\ phase = "flush" /\ phase' = "threw" /\ kind = "file"
        /\ opened \/ filename # NoName
        /\ UNCHANGED <<kind, body, progress, fresh, tidy>>
    BY <1>5 DEF FlushFails, FlushThrows, Leave, appVars
  <2>3. Storage
    BY DEF Counted
  <2>4. ASSUME NEW n \in 0..Len(body), WriteToFile(SubSeq(body, 1, n))
        PROVE  Storage'
    <3>1. IsText(SubSeq(body, 1, n))
      BY <2>3, CutShorter DEF Storage
    <3>2. /\ opened' = TRUE /\ filepath' \in DOMAIN disk' /\ filepath' # NoPath
          /\ \A p \in DOMAIN disk' : IsText(disk'[p])
      BY <2>1, <2>3, <2>4, <3>1, WriteGrows
    <3> QED
      BY <2>1, <2>3, <3>2 DEF Storage
  <2>5. ASSUME ~opened, UNCHANGED <<opened, disk>>
        PROVE  Storage'
    BY <2>1, <2>3, <2>5 DEF Storage
  <2>6. tidy => Sizes'
    BY <2>1, <2>3 DEF Counted, Sizes, Storage, ApplicationsTurn, Succeeded
  <2>7. Storage'
    BY <1>5, <2>4, <2>5 DEF FlushFails, FlushThrows
  <2> QED
    BY <2>1, <2>6, <2>7 DEF Counted
<1> QED
  BY <1>1, <1>2, <1>3, <1>4, <1>5 DEF Ends

\* Every step keeps the sizes right.
LEMMA CountedStep == Shape /\ Counted /\ [Next]_vars => Counted'
<1> SUFFICES ASSUME Shape, Counted, [Next]_vars PROVE Counted'
  OBVIOUS
<1> USE DEF ApplicationsTurn
<1>s. Storage /\ IsText(body)
  BY DEF Counted, Storage
<1>1. CASE UNCHANGED vars
  <2>1. UNCHANGED <<phase, head, kind, status, body, body_size, progress, disk, opened, filepath,
                    target, fresh, tidy>>
    BY <1>1 DEF vars, appVars, responseVars, metaVars, bodyVars, fileVars
  <2> QED
    BY <2>1 DEF Counted, Storage, Sizes, Delivered, Succeeded
<1>2. ASSUME NEW u \in FileParts, Starttransfer(u)
      PROVE  Counted'
  <2>1. /\ phase' = "connect" /\ target' = NoPath /\ tidy' = (tidy /\ fresh) /\ fresh' = FALSE
        /\ UNCHANGED <<head, kind, body, body_size, progress, disk, opened, filepath>>
    BY <1>2 DEF Starttransfer, bodyVars
  <2>2. Storage'
    BY <1>s, <2>1 DEF Storage
  <2>3. ASSUME tidy' PROVE Sizes'
    <3>1. tidy /\ fresh
      BY <2>1, <2>3
    <3>2. body = << >> /\ progress = 0 /\ ~opened
      BY <3>1 DEF Counted, Sizes
    <3>3. Delivered' = << >> \o << >>
      BY <2>1, <3>2 DEF Delivered
    <3>4. Len(Delivered') = 0
      BY <3>3
    <3>5. head'.state \in HeadStates /\ head'.state # "OK"
      BY <1>2, <2>1 DEF Starttransfer, Shape, HeadStates
    <3> QED
      BY <2>1, <3>2, <3>4, <3>5 DEF Sizes, Succeeded
  <2> QED
    BY <2>2, <2>3 DEF Counted
<1>3. CASE Reset
  <2>1. /\ phase' = "idle" /\ fresh' = TRUE
        /\ body' = << >> /\ body_size' = 0 /\ progress' = 0
        /\ UNCHANGED <<kind, disk, tidy>>
    BY <1>3 DEF Reset, ResetResponse
  <2>2. opened' = FALSE
    BY <1>3, <1>s DEF Reset, ResetResponse, CloseFile, Storage
  <2>3. Storage' /\ Sizes'
    BY <1>s, <2>1, <2>2, ShortTexts DEF Storage, Sizes, Succeeded
  <2> QED
    BY <2>3 DEF Counted
<1>4. ASSUME NEW c \in Connections, NEW n \in 0..Len(Wire(c.message)), Connect(c, n)
      PROVE  Counted'
  <2>1. /\ phase = "connect" /\ phase' = "read"
        /\ UNCHANGED <<head, body_size, kind, body, progress, disk, opened, filepath, target, fresh, tidy>>
    BY <1>4 DEF Connect, appVars, bodyVars, fileVars
  <2> QED
    BY <2>1, QuietStep
<1>5. CASE ConnectFails \/ ReadNothing \/ Ok \/ \E n \in ReadSizes : Read(n)
  <2>1. /\ ~ApplicationsTurn /\ phase' \notin {"idle", "returned"}
        /\ UNCHANGED <<head, body_size, kind, body, progress, disk, opened, filepath, target, fresh, tidy>>
    BY <1>5 DEF ConnectFails, ReadNothing, Ok, Parsing, Read, appVars, responseVars, bodyVars, fileVars
  <2> QED
    BY <2>1, QuietStep
<1>6. CASE HeadToken
  <2>1. /\ phase = "parse" /\ phase' \in {"parse", "flush"}
        /\ head.state \in HeadStates /\ head'.state \in HeadStates
        /\ UNCHANGED <<body_size, kind, body, progress, disk, opened, filepath, target, fresh, tidy>>
    BY <1>6, HeadTokenStep
    DEF Consume, AfterToken, appVars, responseVars, bodyVars, fileVars
  <2> QED
    BY <2>1, QuietStep DEF HeadStates
<1>7. CASE Ends
  BY <1>7, EndsCount
<1>8. CASE FollowRedirect
  <2>1. /\ phase = "parse" /\ phase' = "connect"
        /\ head.state \in HeadStates /\ head'.state = "VERSION"
        /\ UNCHANGED <<body_size, kind, body, progress, disk, opened, filepath, target, fresh, tidy>>
    BY <1>8, LeaveStep
    DEF FollowRedirect, Redirected, EndOfHead, Parsing, HeadStates, appVars, bodyVars
  <2> QED
    BY <2>1, QuietStep
<1>9. CASE AcceptHead
  <2>1. /\ phase = "parse" /\ phase' \in {"parse", "flush"} /\ head.state = "HEADER_KEY"
        /\ body_size' = AnnouncedSize
        /\ UNCHANGED <<kind, body, progress, disk, opened, filepath, target, fresh, tidy>>
    BY <1>9 DEF AcceptHead, Accepting, EndOfHead, Parsing, Consume, AfterToken, appVars, fileVars
  <2>2. head'.state \in {"BODY", "OK"} /\ (head'.state = "OK" => body_size' = 0)
    BY <1>9, <2>1 DEF AcceptHead, Shape, IsHead, NoHead
  <2>3. Storage'
    BY <1>s, <2>1 DEF Storage
  <2>4. Delivered' = Delivered
    BY <2>1 DEF Delivered
  <2>5. ASSUME tidy PROVE Sizes'
    <3>1. body = << >> /\ Len(<< >>) = 0
      BY <2>1, <2>5 DEF Counted, Sizes, HeadStates
    <3> QED
      BY <1>s, <2>1, <2>2, <2>4, <2>5, <3>1 DEF Counted, Sizes, Storage, Succeeded, HeadStates
  <2> QED
    BY <2>1, <2>3, <2>5 DEF Counted
<1>10. CASE Body
  <2>1. /\ phase = "parse" /\ phase' \in {"parse", "flush"} /\ head.state = "BODY"
        /\ body' = Append(body, Head(chunk)) /\ progress' = progress + 1
        /\ UNCHANGED <<body_size, kind, disk, opened, filepath, target, fresh, tidy>>
    BY <1>10
    DEF Body, SetBody, ProgressAfterByte, Parsing, Consume, AfterToken, appVars, fileVars
  <2>2. head'.state = IF Len(body') = body_size THEN "OK" ELSE "BODY"
    BY <1>10 DEF Body, BodyFull, Shape, IsHead, NoHead
  <2>3. IsText(body') /\ Len(body) \in Nat /\ Len(body') = Len(body) + 1
    BY <1>s, <2>1, AppendedLength
  <2>4. Storage'
    BY <1>s, <2>1, <2>3 DEF Storage
  <2>5. ASSUME tidy PROVE Sizes'
    <3> DEFINE inFile == IF target = NoPath THEN << >> ELSE disk[target]
    <3>1. IsText(inFile) /\ Delivered = inFile \o body /\ Delivered' = inFile \o body'
      BY <1>s, <2>1, <2>5, ShortTexts DEF Delivered, Counted, Sizes, Storage
    <3>2. Len(inFile \o body) = Len(inFile) + Len(body) /\ Len(inFile \o body') = Len(inFile) + Len(body')
      BY <1>s, <2>3, <3>1, JoinedLength
    <3>3. Len(inFile) \in Nat
      BY <3>1 DEF IsText
    <3>4. Len(Delivered') = Len(Delivered) + 1
      BY <2>3, <3>1, <3>2, <3>3
    <3> QED
      BY <1>s, <2>1, <2>2, <2>5, <3>4 DEF Counted, Sizes, Storage, Succeeded, HeadStates
  <2> QED
    BY <2>1, <2>4, <2>5 DEF Counted
<1>11. CASE Flush
  BY <1>11, FlushCounts
<1>12. CASE Finished
  BY <1>1, <1>12 DEF Finished
<1>13. CASE ResetThrows
  <2>1. /\ ApplicationsTurn /\ ~fresh
        /\ UNCHANGED <<phase, head, kind, status, body, body_size, progress, disk, target, fresh, tidy>>
    BY <1>13 DEF ResetThrows, ResetResponseThrows, appVars, metaVars, bodyVars
  <2>2. opened' = FALSE
    BY <1>13 DEF ResetThrows, ResetResponseThrows, CloseMayThrow, CloseFile
  <2>3. Delivered' = Delivered
    BY <2>1 DEF Delivered
  <2> QED
    BY <2>1, <2>2, <2>3 DEF Counted, Storage, Sizes, Succeeded
<1> QED
  BY <1>1, <1>2, <1>3, <1>4, <1>5, <1>6, <1>7, <1>8, <1>9, <1>10, <1>11, <1>12, <1>13
  DEF Next, Worker, Receive, HeadToken, Ends

\* The sizes are right in every reachable state.
THEOREM CountedAlways == Spec => []Counted
BY ShapeInit, ShapeStep, CountedInit, CountedStep, PTL DEF Spec

\* getProgress() is the length of what the application finds in file and memory, at
\* every point of the body and at the end of a transfer that succeeded.
THEOREM ProgressCounted == Spec => []ProgressCountsBody
<1>1. Counted => ProgressCountsBody
  BY DEF Counted, Sizes, ProgressCountsBody, InBody, Succeeded, ApplicationsTurn
<1> QED
  BY <1>1, CountedAlways, PTL

\* getBodySize() is the size of getBody() after a transfer into memory, whatever the
\* server announced.
THEOREM SizesAgree == Spec => []SizeAgrees
<1>1. Counted => SizeAgrees
  BY DEF Counted, Sizes, SizeAgrees
<1> QED
  BY <1>1, CountedAlways, PTL

-------------------------------------------------------------------------------
(* The files.                                                              *)

\* Names are tried until one is free: there are more names than files.
LEMMA FreePathIsFree ==
  ASSUME NEW name, IsFiniteSet(DOMAIN disk)
  PROVE  FreePath(name) \notin DOMAIN disk
<1> DEFINE n == Cardinality(DOMAIN disk)
           free == {i \in 0..n : Path(name, i) \notin DOMAIN disk}
<1>1. n \in Nat
  BY FS_CardinalityType
<1>2. free # {}
  <2> SUFFICES ASSUME \A i \in 0..n : Path(name, i) \in DOMAIN disk PROVE FALSE
    OBVIOUS
  <2> DEFINE f == [i \in 0..n |-> Path(name, i)]
  <2>1. IsFiniteSet(0..n) /\ Cardinality(0..n) = n + 1
    BY <1>1, FS_Interval
  <2>2. f \in [0..n -> DOMAIN disk]
    OBVIOUS
  <2>3. Cardinality(DOMAIN disk) < Cardinality(0..n)
    BY <1>1, <2>1
  <2>4. \A i, j \in 0..n : f[i] = f[j] => i = j
    BY DEF Path
  <2> HIDE DEF n, f
  <2>5. PICK i, j \in 0..n : i # j /\ f[i] = f[j]
    BY <2>1, <2>2, <2>3, FS_PigeonHole
  <2> QED
    BY <2>4, <2>5
<1>3. \E i \in free : \A j \in free : i <= j
  <2>1. free \subseteq Nat
    BY <1>1
  <2> HIDE DEF free
  <2> QED
    BY <1>2, <2>1, LeastNumber
<1>4. PICK i \in free : FreePath(name) = Path(name, i)
  BY <1>3 DEF FreePath
<1> QED
  BY <1>4

\* The disk holds finitely many files; a transfer's file is one of them.
Filed == IsFiniteSet(DOMAIN disk) /\ target \in DOMAIN disk \cup {NoPath}

LEMMA FiledInit == Init => Filed
<1> SUFFICES ASSUME Init PROVE Filed
  OBVIOUS
<1>1. PICK there : /\ there \subseteq Names
                   /\ disk = [p \in {Path(n, 0) : n \in there} |-> <<"old">>]
  BY DEF Init, ResponseInit
<1> DEFINE f == [n \in there |-> Path(n, 0)]
<1>2. f \in Surjection(there, DOMAIN disk)
  BY <1>1 DEF Surjection
<1>3. IsFiniteSet(there)
  BY <1>1, ResponseAssumption, FS_Subset
<1>4. IsFiniteSet(DOMAIN disk)
  BY <1>2, <1>3, FS_Surjection
<1> QED
  BY <1>4 DEF Init, Filed

\* What a step may do to the files: nothing, or one write of flush().
LEMMA FileStep ==
  ASSUME Storage, [Next]_vars
  PROVE  \/ /\ UNCHANGED disk /\ target' \in {target, NoPath, IF opened' THEN filepath' ELSE target}
            /\ opened' => opened /\ filepath' = filepath
         \/ /\ phase = "flush" /\ target' = filepath'
            /\ \E data : IsText(data) /\ (opened \/ filename # NoName) /\ WriteToFile(data)
<1> DEFINE Quiet == /\ UNCHANGED disk
                    /\ target' \in {target, NoPath, IF opened' THEN filepath' ELSE target}
                    /\ opened' => opened /\ filepath' = filepath
           Writes == /\ phase = "flush" /\ target' = filepath'
                     /\ \E data : IsText(data) /\ (opened \/ filename # NoName) /\ WriteToFile(data)
<1>s. IsText(body) /\ opened \in BOOLEAN /\ (opened => kind = "file")
  BY DEF Storage
<1>c. CloseFile => (opened' => opened /\ filepath' = filepath)
  BY <1>s DEF CloseFile
<1>1. CASE UNCHANGED vars \/ Finished
  BY <1>1 DEF Finished, vars, responseVars, fileVars
<1>2. ASSUME NEW u \in FileParts, Starttransfer(u)
      PROVE  Quiet
  BY <1>2 DEF Starttransfer
<1>3. CASE Reset \/ ResetThrows
  BY <1>3, <1>c DEF Reset, ResetResponse, ResetThrows, ResetResponseThrows
<1>4. ASSUME NEW c \in Connections, NEW n \in 0..Len(Wire(c.message)), Connect(c, n)
      PROVE  Quiet
  BY <1>4 DEF Connect, fileVars
<1>5. CASE ConnectFails \/ ReadEof \/ ReadThrows \/ ReadNothing \/ BadStatus \/ Ok \/ Body
           \/ AcceptHead \/ BadContentLength \/ \E n \in ReadSizes : Read(n)
  BY <1>5 DEF ConnectFails, ReadEof, ReadThrows, ReadNothing, BadStatus, Ok, Body, AcceptHead,
     BadContentLength, Accepting, Read, responseVars, fileVars
<1>6. CASE Version \/ Status \/ Description \/ HeaderKey \/ HeaderValue
  BY <1>6 DEF Version, Status, Description, HeaderKey, HeaderValue, Take, responseVars, fileVars
<1>7. CASE FatalStatus \/ RedirectFails
  BY <1>7, <1>c DEF FatalStatus, RedirectFails, FinalWithoutBody, CompleteAndLeave, Completed
<1>8. CASE FollowRedirect \/ DisconnectThrows
  BY <1>8 DEF FollowRedirect, DisconnectThrows
<1>9. CASE Complete
  BY <1>9, <1>c DEF Complete, CompleteAndLeave, Completed
<1>10. CASE Flush
  <2>1. CASE FlushWrites
    <3>1. WriteToFile(body) /\ (opened \/ filename # NoName)
      BY <2>1 DEF FlushWrites
    <3>2. target' = filepath'
      BY <1>10, <3>1 DEF Flush, WriteToFile
    <3> QED
      BY <1>10, <1>s, <3>1, <3>2 DEF Flush
  <2>2. CASE FlushKeeps
    BY <1>10, <1>s, <2>2 DEF Flush, FlushKeeps
  <2> QED
    BY <1>10, <2>1, <2>2 DEF Flush
<1>11. CASE FlushFails
  <2>1. ASSUME NEW n \in 0..Len(body), WriteToFile(SubSeq(body, 1, n))
        PROVE  Writes
    <3>1. IsText(SubSeq(body, 1, n))
      BY <1>s, CutShorter
    <3>2. phase = "flush" /\ target' = filepath' /\ (opened \/ filename # NoName)
      BY <1>11, <2>1 DEF FlushFails, FlushThrows, WriteToFile
    <3> QED
      BY <2>1, <3>1, <3>2
  <2>2. ASSUME ~opened, UNCHANGED <<opened, disk>>
        PROVE  Quiet
    BY <1>11, <2>2 DEF FlushFails
  <2> QED
    BY <1>11, <2>1, <2>2 DEF FlushFails, FlushThrows
<1> QED
  BY <1>1, <1>2, <1>3, <1>4, <1>5, <1>6, <1>7, <1>8, <1>9, <1>10, <1>11
  DEF Next, Worker, Receive

\* A write opens a file where there was none, or adds to the one that is open.
LEMMA WriteKeeps ==
  ASSUME Storage, Filed, NEW data, IsText(data), opened \/ filename # NoName, WriteToFile(data)
  PROVE  /\ DOMAIN disk' = DOMAIN disk \cup {filepath'}
         /\ (opened /\ filepath' = filepath) \/ (~opened /\ filepath' \notin DOMAIN disk)
         /\ \A p \in DOMAIN disk : IsText(disk[p]) /\
              IF opened /\ p = filepath THEN disk'[p] = disk[p] \o data ELSE disk'[p] = disk[p]
<1>1. filepath' = OpenPath
  BY DEF WriteToFile
<1>2. (opened /\ filepath' = filepath) \/ (~opened /\ filepath' \notin DOMAIN disk)
  BY <1>1, FreePathIsFree DEF OpenPath, Filed, Storage
<1>3. /\ DOMAIN disk' = DOMAIN disk \cup {filepath'}
      /\ \A p \in DOMAIN disk' : disk'[p] = IF p = filepath' THEN Contents \o data ELSE disk[p]
  BY <1>1 DEF WriteToFile
<1>4. opened => Contents = disk[filepath]
  BY DEF Contents
<1> QED
  BY <1>2, <1>3, <1>4 DEF Storage

\* Files stay files.
LEMMA FiledStep == Storage /\ Filed /\ [Next]_vars => Filed'
<1> SUFFICES ASSUME Storage, Filed, [Next]_vars PROVE Filed'
  OBVIOUS
<1>1. CASE /\ UNCHANGED disk /\ target' \in {target, NoPath, IF opened' THEN filepath' ELSE target}
           /\ opened' => opened /\ filepath' = filepath
  BY <1>1 DEF Filed, Storage
<1>2. ASSUME NEW data, IsText(data), opened \/ filename # NoName, WriteToFile(data),
             target' = filepath'
      PROVE  Filed'
  <2>1. DOMAIN disk' = DOMAIN disk \cup {filepath'}
    BY <1>2, WriteKeeps
  <2> QED
    BY <1>2, <2>1, FS_AddElement DEF Filed
<1> QED
  BY <1>1, <1>2, FileStep

\* No step loses, overwrites or shortens a file.
LEMMA KeepsFilesStep ==
  ASSUME Counted, Filed, Next
  PROVE  /\ \A p \in DOMAIN disk :
              /\ p \in DOMAIN disk'
              /\ IsPrefix(disk[p], disk'[p])
              /\ disk'[p] # disk[p] => opened /\ p = filepath /\ (tidy => p = target)
         /\ opened' => (opened /\ filepath' = filepath) \/ filepath' \notin DOMAIN disk
<1> USE DEF Counted
<1>1. CASE UNCHANGED disk /\ (opened' => opened /\ filepath' = filepath)
  <2>1. \A p \in DOMAIN disk : IsPrefix(disk[p], disk[p])
    BY BeginsWithItself DEF Storage
  <2> QED
    BY <1>1, <2>1
<1>2. ASSUME NEW data, IsText(data), opened \/ filename # NoName, WriteToFile(data), phase = "flush"
      PROVE  /\ \A p \in DOMAIN disk :
                  /\ p \in DOMAIN disk'
                  /\ IsPrefix(disk[p], disk'[p])
                  /\ disk'[p] # disk[p] => opened /\ p = filepath /\ (tidy => p = target)
             /\ opened' => (opened /\ filepath' = filepath) \/ filepath' \notin DOMAIN disk
  <2>1. /\ DOMAIN disk' = DOMAIN disk \cup {filepath'}
        /\ (opened /\ filepath' = filepath) \/ (~opened /\ filepath' \notin DOMAIN disk)
        /\ \A p \in DOMAIN disk : IsText(disk[p]) /\
             IF opened /\ p = filepath THEN disk'[p] = disk[p] \o data ELSE disk'[p] = disk[p]
    BY <1>2, WriteKeeps
  <2>2. ASSUME NEW p \in DOMAIN disk PROVE IsPrefix(disk[p], disk'[p])
    <3>1. IsPrefix(disk[p], disk[p]) /\ IsPrefix(disk[p], disk[p] \o data)
      BY <1>2, <2>1, BeginsWithItself, JoinedBegins
    <3> QED
      BY <2>1, <3>1
  <2>3. tidy /\ opened => target = filepath
    BY <1>2 DEF Sizes, ApplicationsTurn
  <2> QED
    BY <2>1, <2>2, <2>3
<1> QED
  BY <1>1, <1>2, FileStep

\* No file is lost, overwritten or shortened, whoever left it; a file is opened only
\* where there was none, and in an application that resets, the only file that grows is
\* the one this transfer opened.
THEOREM FilesAlwaysKept == Spec => FilesKept
<1>1. Init => Shape /\ Counted /\ Filed
  BY ShapeInit, CountedInit, FiledInit
<1>2. Shape /\ Counted /\ Filed /\ [Next]_vars => (Shape /\ Counted /\ Filed)'
  BY ShapeStep, CountedStep, FiledStep DEF Counted
<1>3. Shape /\ Counted /\ Filed /\ [Next]_vars =>
        [/\ \A p \in DOMAIN disk :
              /\ p \in DOMAIN disk'
              /\ IsPrefix(disk[p], disk'[p])
              /\ disk'[p] # disk[p] => opened /\ p = filepath /\ (tidy => p = target)
         /\ opened' => (opened /\ filepath' = filepath) \/ filepath' \notin DOMAIN disk]_vars
  BY KeepsFilesStep
<1> QED
  BY <1>1, <1>2, <1>3, PTL DEF Spec, FilesKept

-------------------------------------------------------------------------------
(* The type invariant.                                                     *)

\* What TypeOK says of the variables that Shape, Counted and Filed leave out; a
\* response in memory has no file name.
Types ==
  /\ peer \in Connections \cup {NoPeer}
  /\ transfers \in 0..MaxTransfers
  /\ {whole, fresh, tidy} \subseteq BOOLEAN
  /\ kind \in Kinds
  /\ body_size \in Nat /\ progress \in Nat
  /\ filename \in {url, NoName}
  /\ kind # "file" => filename = NoName

LEMMA TypesInit == Init => Types
<1> SUFFICES ASSUME Init PROVE Types
  OBVIOUS
<1>1. transfers \in 0..MaxTransfers /\ body_size \in Nat /\ progress \in Nat
  BY ReceiveAssumption DEF Init, ResponseInit
<1> QED
  BY <1>1 DEF Init, ResponseInit, Types

LEMMA TypesStep == Shape /\ Storage /\ Types /\ [Next]_vars => Types'
<1> SUFFICES ASSUME Shape, Storage, Types, [Next]_vars PROVE Types'
  OBVIOUS
<1>l. Len(body) \in Nat
  BY TextAsFunction DEF Storage
<1>1. CASE UNCHANGED vars \/ Finished
  BY <1>1 DEF Types, Finished, vars, netVars, appVars, responseVars, bodyVars, fileVars
<1>2. ASSUME NEW u \in FileParts, Starttransfer(u)
      PROVE  Types'
  <2>1. transfers' \in 0..MaxTransfers
    BY <1>2, ReceiveAssumption DEF Starttransfer, Types
  <2>2. url' = u \/ (UNCHANGED <<url, filename>>)
    BY <1>2 DEF Starttransfer, SetURL
  <2>3. filename' \in {url', NoName} /\ (kind # "file" => filename' = NoName)
    BY <1>2 DEF Starttransfer, SetURL, Types
  <2>4. /\ UNCHANGED <<peer, whole, kind, body_size, progress>>
        /\ fresh' = FALSE /\ tidy' = (tidy /\ fresh)
    BY <1>2 DEF Starttransfer, netVars, bodyVars
  <2> QED
    BY <2>1, <2>3, <2>4 DEF Types
<1>3. CASE Reset
  BY <1>3 DEF Reset, ResetResponse, CloseFile, Types, netVars
<1>13. CASE ResetThrows
  <2>1. /\ UNCHANGED <<peer, transfers, whole, fresh, tidy, kind, body_size, progress, url>>
        /\ filename' \in {filename, NoName}
    BY <1>13 DEF ResetThrows, ResetResponseThrows, CloseFile, netVars, appVars, bodyVars
  <2> QED
    BY <2>1 DEF Types
<1>4. ASSUME NEW c \in Connections, NEW n \in 0..Len(Wire(c.message)), Connect(c, n)
      PROVE  Types'
  BY <1>4 DEF Connect, Types, appVars, bodyVars, fileVars
<1>5. CASE \/ ConnectFails \/ ReadThrows \/ ReadNothing \/ BadStatus \/ Ok \/ HeadToken
           \/ \E n \in ReadSizes : Read(n)
  BY <1>5 DEF ConnectFails, ReadThrows, ReadNothing, BadStatus, Ok, Read, HeadToken, Version, Status,
     Description, HeaderKey, HeaderValue, Take, Types, netVars, appVars, responseVars, bodyVars, fileVars
<1>6. CASE ReadEof
  BY <1>6, <1>l DEF ReadEof, SizeAtEof, Types, netVars, appVars, fileVars
<1>7. CASE FatalStatus \/ RedirectFails \/ Complete
  BY <1>7 DEF FatalStatus, RedirectFails, FinalWithoutBody, Complete, CompleteAndLeave, Completed,
     CloseFile, Types, netVars, appVars, bodyVars
<1>8. CASE FollowRedirect \/ DisconnectThrows
  BY <1>8 DEF FollowRedirect, DisconnectThrows, GoesElsewhere, SetURL, Types, netVars, appVars, bodyVars
<1>9. CASE AcceptHead
  <2>1. body_size' \in Nat
    BY <1>9, ReceiveAssumption DEF AcceptHead, AnnouncedSize, Announces, IsNumeral, Number
  <2> QED
    BY <1>9, <2>1 DEF AcceptHead, Accepting, Types, netVars, appVars, fileVars
<1>10. CASE BadContentLength
  BY <1>10 DEF BadContentLength, Accepting, Types, netVars, appVars, fileVars
<1>11. CASE Body
  BY <1>11 DEF Body, SetBody, ProgressAfterByte, Types, netVars, appVars, fileVars
<1>12. CASE Flush \/ FlushFails
  BY <1>12 DEF Flush, FlushFails, FlushWrites, FlushKeeps, FlushThrows, Types, netVars, appVars
<1> QED
  BY <1>1, <1>2, <1>3, <1>4, <1>5, <1>6, <1>7, <1>8, <1>9, <1>10, <1>11, <1>12, <1>13
  DEF Next, Worker, Receive, HeadToken

\* Every variable stays in its range: the file a transfer wrote to is on the disk, and
\* the parser is never entered with nothing to parse.
THEOREM ReceiveTyped == Spec => []TypeOK
<1>1. Init => Shape /\ Counted /\ Filed /\ Types
  BY ShapeInit, CountedInit, FiledInit, TypesInit
<1>2. Shape /\ Counted /\ Filed /\ Types /\ [Next]_vars => (Shape /\ Counted /\ Filed /\ Types)'
  BY ShapeStep, CountedStep, FiledStep, TypesStep DEF Counted
<1>3. Shape /\ Counted /\ Filed /\ Types => TypeOK
  BY DEF Shape, IsHead, Counted, Storage, Filed, Types, TypeOK
<1> QED
  BY <1>1, <1>2, <1>3, PTL DEF Spec
===============================================================================
