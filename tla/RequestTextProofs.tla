--------------------------- MODULE RequestTextProofs ---------------------------
(***************************************************************************)
(* Proofs about RequestText: whatever URLs, credentials and proxies there  *)
(* are, and however hops follow each other, the server reads what the      *)
(* application asked for.                                                  *)
(*                                                                         *)
(* The invariant is HopReady and TextOfHop: from parsing the URL on, what  *)
(* earlier hops left in engine and response is overwritten by what belongs *)
(* to this hop, and the text sent last is the one this state asks for.     *)
(* The rest of the module is about that text and needs no step:            *)
(*   - a server that takes a text apart at its line feeds finds a line     *)
(*     written before a text, and then the lines of that text, further on  *)
(*     (FirstLine, LaterLine); so the head of a text is built up from its  *)
(*     end, one field at a time (HoldsNothing, HoldsOneMore);              *)
(*   - regrouping bits does not change them, so regrouping them back gives *)
(*     the bytes again (BytesAgain);                                       *)
(*   - base64 up to a line's width has no line feed (UnbrokenText), and of *)
(*     any length no space and no name of a header (EncodedText).          *)
(***************************************************************************)
EXTENDS RequestText, TextLemmas, FiniteSetTheorems, TLAPS

-------------------------------------------------------------------------------
(* What every hop finds.                                                   *)

\* send() asks for / when a URL names no path.
Path == IF url.path = << >> THEN <<"/">> ELSE url.path

\* From parsing the URL on, engine and response hold what belongs to this hop's URL,
\* and a tunnel is asked for only when it is needed.
HopReady ==
  /\ place \in {"connect", "tunnel", "request", "answer"} =>
       /\ path = Path
       /\ host = <<url.scheme, "://", url.host, ":", PortOf(url)>>
       /\ targeturl = <<url.host, ":", PortOf(url)>>
       /\ sendheaders = [name \in {"Host"} |-> <<url.host>>]
  /\ place \in {"connect", "tunnel"} => url.scheme = "https" /\ proxied

\* setHeader() inserts only where there is an entry, so send() alone adds one.
OnlyHostSet == DOMAIN sendheaders \subseteq {"Host"}

\* What SendConnect and SendRequest write.
Tunnel ==
  <<"CONNECT", "SP">> \o targeturl \o <<"SP", "HTTP/1.0">> \o CRLF
    \o BasicLine("Proxy-Authorization", proxyauth) \o CRLF

Request ==
  <<"GET", "SP">> \o (IF proxied THEN host ELSE << >>) \o path \o url.query
    \o <<"SP", "HTTP/1.0">> \o CRLF \o HeaderLines
    \o BasicLine("Authorization", httpauth) \o ProxyLine
    \o FieldLine("Accept", <<"*/*">>) \o FieldLine("Connection", <<"close">>)
    \o CRLF \o CRLF

\* What was written last is what the state asks for.
TextOfHop == (place = "tunnel" => sent = Tunnel) /\ (place = "answer" => sent = Request)

\* A new engine and a new response.
LEMMA HopInit == Init => TypeOK /\ OnlyHostSet /\ HopReady /\ TextOfHop
<1>1. Init => TypeOK
  <2>1. Init => {secure, proxied} \subseteq BOOLEAN
    BY Zenon DEF Init
  <2> QED
    BY <2>1 DEF Init, TypeOK
<1> QED
  BY <1>1 DEF Init, OnlyHostSet, HopReady, TextOfHop

\* The variables stay in their ranges.
LEMMA TypeStep == TypeOK /\ [Next]_vars => TypeOK'
<1> SUFFICES ASSUME TypeOK, [Next]_vars PROVE TypeOK'
  OBVIOUS
<1>1. CASE UNCHANGED vars
  BY <1>1 DEF TypeOK, vars, responseVars, engineVars
<1>2. ASSUME NEW auth \in Credentials, SetHTTPAuth(auth) \/ SetProxyAuth(auth)
      PROVE  TypeOK'
  BY <1>2 DEF TypeOK, SetHTTPAuth, SetProxyAuth, responseVars, engineVars
<1>3. CASE SetHeader("X-Trace", <<"on">>) \/ SetHeader("Host", <<"other">>)
  BY <1>3 DEF TypeOK, SetHeader, engineVars
<1>4. ASSUME NEW u \in URLs, Starttransfer(u) \/ FollowRedirect(u)
      PROVE  TypeOK'
  BY <1>4 DEF TypeOK, Starttransfer, FollowRedirect, engineVars
<1>5. CASE Reset
  BY <1>5 DEF TypeOK, Reset, responseVars
<1>6. CASE ParseURL
  <2>1. UNCHANGED <<url, httpauth, proxyauth>>
    BY <1>6 DEF ParseURL
  <2>2. secure' \in BOOLEAN /\ proxied' \in BOOLEAN
    BY <1>6, Zenon DEF ParseURL
  <2>3. place' \in {"connect", "request"} /\ (place' = "connect" => secure' /\ proxied')
    BY <1>6, Zenon DEF ParseURL, PlaceAfterParse
  <2> QED
    BY <2>1, <2>2, <2>3 DEF TypeOK
<1>7. CASE SendConnect \/ Tunnelled \/ SendRequest \/ End
  BY <1>7 DEF TypeOK, SendConnect, Tunnelled, SendRequest, End, responseVars, engineVars
<1> QED
  BY <1>1, <1>2, <1>3, <1>4, <1>5, <1>6, <1>7 DEF Next

\* No name gets in by insert() that find() did not find.
LEMMA OnlyHostStep == OnlyHostSet /\ [Next]_vars => OnlyHostSet'
<1> SUFFICES ASSUME OnlyHostSet, [Next]_vars PROVE OnlyHostSet'
  OBVIOUS
<1>1. ASSUME NEW name, NEW value, SetHeader(name, value) PROVE OnlyHostSet'
  BY <1>1 DEF OnlyHostSet, SetHeader, Inserted
<1>2. CASE ParseURL
  BY <1>2 DEF OnlyHostSet, ParseURL
<1>3. CASE UNCHANGED sendheaders
  BY <1>3 DEF OnlyHostSet
<1> QED
  BY <1>1, <1>2, <1>3 DEF Next, vars, SetHTTPAuth, SetProxyAuth, Starttransfer, FollowRedirect,
     Reset, SendConnect, Tunnelled, SendRequest, End, responseVars

\* Every hop parses its URL anew, and nothing touches the parts before it is over.
LEMMA HopStep == OnlyHostSet /\ HopReady /\ [Next]_vars => HopReady'
<1> SUFFICES ASSUME OnlyHostSet, HopReady, [Next]_vars PROVE HopReady'
  OBVIOUS
<1>1. CASE UNCHANGED vars
  BY <1>1 DEF HopReady, Path, PortOf, DefaultPort, vars, responseVars, engineVars
<1>2. CASE place' \in {"idle", "parse"}
  BY <1>2 DEF HopReady
<1>3. CASE ParseURL
  <2>1. /\ path' = Path' /\ host' = <<url.scheme, "://", url.host, ":", PortOf(url)>>
        /\ targeturl' = <<url.host, ":", PortOf(url)>> /\ url' = url
    BY <1>3 DEF ParseURL, Path
  <2>2. sendheaders' = [name \in {"Host"} |-> <<url.host>>]
    <3>1. DOMAIN sendheaders \cup {"Host"} = {"Host"}
      BY DEF OnlyHostSet
    <3>2. sendheaders' = [name \in {"Host"} |->
                            IF name = "Host" THEN HostHeader(url) ELSE sendheaders[name]]
      BY <1>3, <3>1 DEF ParseURL
    <3> QED
      BY <3>2 DEF HostHeader
  <2>3. place' = "connect" => url.scheme = "https" /\ proxied'
    BY <1>3, Zenon DEF ParseURL, PlaceAfterParse
  <2>4. place' \in {"connect", "request"}
    BY <1>3, Zenon DEF ParseURL, PlaceAfterParse
  <2> QED
    BY <2>1, <2>2, <2>3, <2>4 DEF HopReady, PortOf, DefaultPort
<1>4. CASE SendConnect \/ Tunnelled \/ SendRequest
  BY <1>4 DEF HopReady, Path, PortOf, DefaultPort, SendConnect, Tunnelled, SendRequest,
     responseVars, engineVars
<1>5. Next => ParseURL \/ SendConnect \/ Tunnelled \/ SendRequest \/ place' \in {"idle", "parse"}
  BY DEF Next, SetHTTPAuth, SetProxyAuth, SetHeader, Starttransfer, FollowRedirect, Reset, End
<1> QED
  BY <1>1, <1>2, <1>3, <1>4, <1>5

\* The text of a hop is made from what the hop holds.
LEMMA TextStep == TextOfHop /\ [Next]_vars => TextOfHop'
<1> SUFFICES ASSUME TextOfHop, [Next]_vars PROVE TextOfHop'
  OBVIOUS
<1>1. CASE UNCHANGED vars
  BY <1>1 DEF TextOfHop, Tunnel, Request, ProxyLine, HeaderLines, BasicLine, FieldLine, vars,
     responseVars, engineVars
<1>2. CASE place' \notin {"tunnel", "answer"}
  BY <1>2 DEF TextOfHop
<1>3. CASE SendConnect
  BY <1>3 DEF TextOfHop, Tunnel, SendConnect, BasicLine, responseVars, engineVars
<1>4. CASE SendRequest
  <2>1. sent' = Request /\ place' = "answer"
    BY <1>4, Zenon DEF SendRequest, Request
  <2>2. Request' = Request
    BY <1>4 DEF SendRequest, Request, ProxyLine, HeaderLines, BasicLine, FieldLine, responseVars,
       engineVars
  <2> QED
    BY <2>1, <2>2 DEF TextOfHop
<1>5. Next => SendConnect \/ SendRequest \/ place' \notin {"tunnel", "answer"}
  BY DEF Next, SetHTTPAuth, SetProxyAuth, SetHeader, Starttransfer, FollowRedirect, Reset, End,
     ParseURL, PlaceAfterParse, Tunnelled
<1> QED
  BY <1>1, <1>2, <1>3, <1>4, <1>5

\* The invariant: what is written comes from the URL, the credentials and the proxy of
\* this hop alone.
THEOREM HopAlways == Spec => [](TypeOK /\ OnlyHostSet /\ HopReady /\ TextOfHop)
<1>1. TypeOK /\ OnlyHostSet /\ HopReady /\ TextOfHop /\ [Next]_vars =>
        (TypeOK /\ OnlyHostSet /\ HopReady /\ TextOfHop)'
  BY TypeStep, OnlyHostStep, HopStep, TextStep
<1> QED
  BY <1>1, HopInit, PTL DEF Spec

\* Every variable of RequestText stays in its range, whatever the application sets.
THEOREM RequestTyped == Spec => []TypeOK
BY HopAlways, PTL

-------------------------------------------------------------------------------
(* How a server takes a text apart: one line, and what follows it.         *)

\* A text every line of which has its end.
Terminated(text) == IsText(text) /\ (text = << >> \/ text[Len(text)] = "LF")

\* A line, its end, and a text.
LineThen(l, rest) == Join(l, Join(CRLF, rest))

\* What can be a line of its own.
IsLine(l) == Without(l, {"CR", "LF"})

\* Where the tokens of a line, its end and what follows are.
LEMMA LinePlaces ==
  ASSUME NEW l, NEW rest, IsLine(l), IsText(rest),
         NEW text, text = LineThen(l, rest), NEW n \in Nat, n = Len(l)
  PROVE  /\ IsText(text) /\ Len(rest) \in Nat /\ Len(text) = n + 2 + Len(rest)
         /\ DOMAIN text = 1..Len(text) /\ DOMAIN rest = 1..Len(rest)
         /\ \A i \in 1..n : text[i] = l[i] /\ l[i] \notin {"CR", "LF"}
         /\ text[n + 1] = "CR" /\ text[n + 2] = "LF"
         /\ \A i \in 1..Len(rest) : text[i + (n + 2)] = rest[i]
<1>1. PICK e : e = CRLF /\ IsText(e) /\ Len(e) = 2 /\ e[1] = "CR" /\ e[2] = "LF"
  <2>1. IsText(<<"CR", "LF">>)
    BY TwoTokens
  <2>2. Len(<<"CR", "LF">>) = 2 /\ <<"CR", "LF">>[1] = "CR" /\ <<"CR", "LF">>[2] = "LF"
    OBVIOUS
  <2> QED
    BY <2>1, <2>2 DEF CRLF
<1>2. PICK r : r = e \o rest
  OBVIOUS
<1>3. /\ IsText(r) /\ Len(r) = 2 + Len(rest) /\ Len(rest) \in Nat
      /\ \A i \in 1..(2 + Len(rest)) : r[i] = IF i <= 2 THEN e[i] ELSE rest[i - 2]
  <2>1. IsText(e \o rest) /\ Len(e \o rest) = Len(e) + Len(rest) /\ Len(rest) \in Nat
    BY <1>1, JoinedTokens, TextAsFunction
  <2>2. \A i \in 1..Len(e) + Len(rest) :
         (e \o rest)[i] = IF i <= Len(e) THEN e[i] ELSE rest[i - Len(e)]
    BY <1>1, JoinedTokens
  <2> QED
    BY <1>1, <1>2, <2>1, <2>2
<1>4. text = l \o r /\ IsText(l)
  BY <1>1, <1>2 DEF LineThen, Join, IsLine, Without
<1>5. /\ IsText(text) /\ Len(text) = n + Len(r)
      /\ \A i \in 1..n + Len(r) : text[i] = IF i <= n THEN l[i] ELSE r[i - n]
  <2>1. /\ IsText(l \o r) /\ Len(l \o r) = Len(l) + Len(r)
        /\ \A i \in 1..Len(l) + Len(r) : (l \o r)[i] = IF i <= Len(l) THEN l[i] ELSE r[i - Len(l)]
    BY <1>3, <1>4, JoinedTokens
  <2> QED
    BY <1>4, <2>1
<1>6. ASSUME NEW i \in 1..n PROVE text[i] = l[i] /\ l[i] \notin {"CR", "LF"}
  <2>1. i \in DOMAIN l /\ l[i] \in ToSet(l)
    BY <1>4, TextAsFunction DEF ToSet
  <2>2. i \in 1..n + Len(r) /\ i <= n
    BY <1>3
  <2> QED
    BY <1>5, <2>1, <2>2 DEF IsLine, Without
<1>7. text[n + 1] = "CR" /\ text[n + 2] = "LF"
  <2>1. /\ n + 1 \in 1..n + Len(r) /\ n + 2 \in 1..n + Len(r) /\ ~(n + 1 <= n) /\ ~(n + 2 <= n)
        /\ (n + 1) - n = 1 /\ (n + 2) - n = 2
        /\ 1 \in 1..(2 + Len(rest)) /\ 2 \in 1..(2 + Len(rest))
    BY <1>3
  <2>2. text[n + 1] = r[1] /\ text[n + 2] = r[2]
    BY <1>5, <2>1
  <2>3. r[1] = e[1] /\ r[2] = e[2]
    BY <1>3, <2>1
  <2> QED
    BY <1>1, <2>2, <2>3
<1>8. ASSUME NEW i \in 1..Len(rest) PROVE text[i + (n + 2)] = rest[i]
  <2>1. /\ i + (n + 2) \in 1..n + Len(r) /\ ~(i + (n + 2) <= n) /\ (i + (n + 2)) - n = i + 2
        /\ i + 2 \in 1..(2 + Len(rest)) /\ ~(i + 2 <= 2) /\ (i + 2) - 2 = i
    BY <1>3
  <2>2. text[i + (n + 2)] = r[i + 2]
    BY <1>5, <2>1
  <2>3. r[i + 2] = rest[i]
    BY <1>3, <2>1
  <2> QED
    BY <2>2, <2>3
<1> QED
  BY <1>3, <1>5, <1>6, <1>7, <1>8, TextAsFunction

\* The places S, d further on.
Moved(S, d) == {i + d : i \in S}

\* The ends of lines, and their starts.
LEMMA LineEnds ==
  ASSUME NEW l, NEW rest, IsLine(l), Terminated(rest),
         NEW text, text = LineThen(l, rest), NEW n \in Nat, n = Len(l)
  PROVE  /\ Ends(text) = {n + 2} \cup Moved(Ends(rest), n + 2)
         /\ Starts(text) = {1} \cup Moved(Starts(rest), n + 2)
         /\ Ends(rest) \subseteq 1..Len(rest) /\ Starts(rest) \subseteq 1..Len(rest)
         /\ Len(rest) \in Nat /\ Terminated(text)
<1>0. IsText(rest)
  BY DEF Terminated
<1>1. /\ IsText(text) /\ Len(rest) \in Nat /\ Len(text) = n + 2 + Len(rest)
      /\ DOMAIN text = 1..Len(text) /\ DOMAIN rest = 1..Len(rest)
      /\ \A i \in 1..n : text[i] # "LF"
      /\ text[n + 1] # "LF" /\ text[n + 2] = "LF"
      /\ \A i \in 1..Len(rest) : text[i + (n + 2)] = rest[i]
  <2>1. /\ IsText(text) /\ Len(rest) \in Nat /\ Len(text) = n + 2 + Len(rest)
        /\ DOMAIN text = 1..Len(text) /\ DOMAIN rest = 1..Len(rest)
        /\ \A i \in 1..Len(rest) : text[i + (n + 2)] = rest[i]
    BY <1>0, LinePlaces
  <2>2. \A i \in 1..n : text[i] = l[i] /\ l[i] \notin {"CR", "LF"}
    BY <1>0, LinePlaces
  <2>3. text[n + 1] = "CR" /\ text[n + 2] = "LF"
    BY <1>0, LinePlaces
  <2> QED
    BY <2>1, <2>2, <2>3
<1>2. \A i \in 1..Len(text) : \/ i \in 1..n \/ i = n + 1 \/ i = n + 2
                              \/ i - (n + 2) \in 1..Len(rest) /\ i = (i - (n + 2)) + (n + 2)
  BY <1>1
<1>3. n + 2 \in 1..Len(text) /\ \A i \in 1..Len(rest) : i + (n + 2) \in 1..Len(text)
  BY <1>1
<1>4. /\ Ends(rest) = {i \in 1..Len(rest) : rest[i] = "LF"}
      /\ Ends(text) = {i \in 1..Len(text) : text[i] = "LF"}
  BY <1>1 DEF Ends
<1>5. Ends(text) = {n + 2} \cup Moved(Ends(rest), n + 2)
  <2>1. ASSUME NEW i \in Ends(text) PROVE i \in {n + 2} \cup Moved(Ends(rest), n + 2)
    <3>1. i \in 1..Len(text) /\ text[i] = "LF"
      BY <1>4, <2>1
    <3>2. i = n + 2 \/ (i - (n + 2) \in 1..Len(rest) /\ i = (i - (n + 2)) + (n + 2))
      BY <1>1, <1>2, <3>1
    <3>3. CASE i # n + 2
      <4>1. PICK k \in 1..Len(rest) : i = k + (n + 2)
        BY <3>2, <3>3
      <4>2. rest[k] = "LF"
        BY <1>1, <3>1, <4>1
      <4> QED
        BY <1>4, <4>1, <4>2 DEF Moved
    <3> QED
      BY <3>3
  <2>2. ASSUME NEW k \in Ends(rest) PROVE k + (n + 2) \in Ends(text)
    BY <1>1, <1>3, <1>4, <2>2
  <2>3. n + 2 \in Ends(text)
    BY <1>1, <1>3, <1>4
  <2> QED
    BY <2>1, <2>2, <2>3 DEF Moved
<1>6. Starts(rest) \subseteq 1..Len(rest)
  BY <1>1, <1>4 DEF Starts
<1>7. Starts(text) = {1} \cup Moved(Starts(rest), n + 2)
  <2>1. ASSUME NEW i \in Starts(text) PROVE i \in {1} \cup Moved(Starts(rest), n + 2)
    <3>1. CASE i = 1
      BY <3>1
    <3>2. CASE i = (n + 2) + 1
      <4>1. i # Len(text) + 1
        BY <2>1 DEF Starts
      <4>2. 1 # Len(rest) + 1 /\ i = 1 + (n + 2)
        BY <1>1, <3>2, <4>1
      <4> QED
        BY <4>2 DEF Moved, Starts
    <3>3. ASSUME NEW k \in Ends(rest), i = (k + (n + 2)) + 1
          PROVE  i \in Moved(Starts(rest), n + 2)
      <4>1. i # Len(text) + 1
        BY <2>1 DEF Starts
      <4>2. k + 1 # Len(rest) + 1 /\ i = (k + 1) + (n + 2)
        <5>1. k \in Nat /\ Len(text) = n + 2 + Len(rest) /\ Len(rest) \in Nat
          BY <1>1, <1>4
        <5> QED
          BY <3>3, <4>1, <5>1
      <4> QED
        BY <4>2 DEF Moved, Starts
    <3> QED
      BY <1>5, <2>1, <3>1, <3>2, <3>3 DEF Starts, Moved
  <2>2. ASSUME NEW k \in Starts(rest) PROVE k + (n + 2) \in Starts(text)
    <3>1. k + (n + 2) # Len(text) + 1
      BY <1>1, <1>6, <2>2
    <3>2. k = 1 \/ \E j \in Ends(rest) : k = j + 1
      BY <2>2 DEF Starts
    <3>3. ASSUME k = 1 PROVE k + (n + 2) = (n + 2) + 1
      BY <3>3
    <3>4. ASSUME NEW j \in Ends(rest), k = j + 1 PROVE k + (n + 2) = (j + (n + 2)) + 1
      BY <1>4, <3>4
    <3> QED
      BY <1>5, <3>1, <3>2, <3>3, <3>4 DEF Starts, Moved
  <2>3. 1 \in Starts(text)
    BY <1>1 DEF Starts
  <2> QED
    BY <2>1, <2>2, <2>3 DEF Moved
<1>8. Terminated(text)
  <2>1. CASE rest = << >>
    BY <1>1, <2>1, Len(<< >>) = 0 DEF Terminated
  <2>2. CASE rest # << >>
    <3>1. Len(rest) \in 1..Len(rest) /\ Len(text) = Len(rest) + (n + 2)
      BY <1>0, <1>1, <2>2, TextAsFunction
    <3> QED
      BY <1>1, <2>2, <3>1 DEF Terminated
  <2> QED
    BY <2>1, <2>2
<1> QED
  BY <1>1, <1>4, <1>5, <1>6, <1>7, <1>8

\* A part of a text is the same part of any text that has the same tokens there.
LEMMA SamePart ==
  ASSUME NEW s, NEW t, IsText(s), IsText(t), NEW d \in Nat, NEW a \in Nat \ {0}, NEW b \in Nat,
         b <= Len(s), b + d <= Len(t), \A i \in 1..Len(s) : i + d \in 1..Len(t) /\ t[i + d] = s[i]
  PROVE  SubSeq(t, a + d, b + d) = SubSeq(s, a, b)
<1>1. PICK S, T : s \in Seq(S) /\ t \in Seq(T)
  BY DEF IsText
<1>2. Len(s) \in Nat /\ Len(t) \in Nat
  BY TextAsFunction
<1>3. PICK x, y : x = SubSeq(t, a + d, b + d) /\ y = SubSeq(s, a, b)
  OBVIOUS
<1>4. /\ y \in Seq(S) /\ Len(y) = (IF a <= b THEN b - a + 1 ELSE 0)
      /\ \A i \in 1..(b - a + 1) : y[i] = s[a + i - 1]
  <2>1. \A i \in a..b : i \in 1..Len(s)
    BY <1>2
  <2>2. \A i \in a..b : s[i] \in S
    BY <1>1, <2>1, ElementOfSeq
  <2> QED
    BY <1>1, <1>3, <2>2, SubSeqProperties
<1>5. /\ x \in Seq(T) /\ Len(x) = (IF a + d <= b + d THEN (b + d) - (a + d) + 1 ELSE 0)
      /\ \A i \in 1..((b + d) - (a + d) + 1) : x[i] = t[(a + d) + i - 1]
  <2>0. PICK p, q : p = a + d /\ q = b + d
    OBVIOUS
  <2>1. \A i \in p..q : i \in 1..Len(t)
    BY <1>2, <2>0
  <2>2. \A i \in p..q : t[i] \in T
    BY <1>1, <2>1, ElementOfSeq
  <2>3. p \in Int /\ q \in Int
    BY <2>0
  <2>4. /\ SubSeq(t, p, q) \in Seq(T) /\ Len(SubSeq(t, p, q)) = (IF p <= q THEN q - p + 1 ELSE 0)
        /\ \A i \in 1..(q - p + 1) : SubSeq(t, p, q)[i] = t[p + i - 1]
    BY <2>2, <2>3, SubSeqProperties
  <2> QED
    BY <1>3, <2>0, <2>4
<1>6. Len(x) = Len(y)
  BY <1>4, <1>5
<1>7. ASSUME NEW i \in 1..Len(y) PROVE y[i] = x[i]
  <2>1. PICK k : k = a + i - 1
    OBVIOUS
  <2>2. /\ i \in 1..(b - a + 1) /\ i \in 1..((b + d) - (a + d) + 1) /\ k \in 1..Len(s)
        /\ (a + d) + i - 1 = k + d
    <3>1. i \in 1..(b - a + 1) /\ i \in Nat
      BY <1>2, <1>4
    <3>2. b - a + 1 = (b + d) - (a + d) + 1 /\ (a + d) + i - 1 = k + d
      BY <2>1, <3>1
    <3>3. k \in 1..Len(s)
      BY <1>2, <2>1, <3>1
    <3> QED
      BY <3>1, <3>2, <3>3
  <2> QED
    BY <1>4, <1>5, <2>1, <2>2
<1> QED
  BY <1>3, <1>4, <1>5, <1>6, <1>7, SameText DEF IsText

\* The end of a line is the first line feed from its start on.
LEMMA EndIs ==
  ASSUME NEW text, NEW i \in Nat, NEW e \in Ends(text), Ends(text) \subseteq Nat,
         i <= e, \A k \in Ends(text) : i <= k => e <= k
  PROVE  EndOf(text, i) = e
<1>1. \A j \in Ends(text) : i <= j /\ (\A k \in Ends(text) : i <= k => j <= k) => j = e
  <2>1. ASSUME NEW j \in Ends(text), i <= j, \A k \in Ends(text) : i <= k => j <= k
        PROVE  j = e
    <3>1. j <= e /\ e <= j /\ j \in Nat /\ e \in Nat
      BY <2>1
    <3> QED
      BY <3>1
  <2> QED
    BY <2>1
<1> QED
  BY <1>1 DEF EndOf

\* In a terminated text, every line has an end.
LEMMA EndExists ==
  ASSUME NEW text, Terminated(text), NEW i \in Starts(text)
  PROVE  /\ EndOf(text, i) \in Ends(text) /\ i <= EndOf(text, i)
         /\ \A k \in Ends(text) : i <= k => EndOf(text, i) <= k
<1>1. Len(text) \in Nat /\ DOMAIN text = 1..Len(text) /\ (text = << >> <=> Len(text) = 0)
  BY TextAsFunction DEF Terminated
<1>2. Ends(text) \subseteq 1..Len(text)
  BY <1>1 DEF Ends
<1>3. i \in 1..Len(text)
  BY <1>1, <1>2 DEF Starts
<1>4. Len(text) \in Ends(text)
  BY <1>1, <1>3 DEF Terminated, Ends
<1> DEFINE T == {k \in Ends(text) : i <= k}
<1>5. T # {} /\ T \subseteq Nat
  BY <1>1, <1>2, <1>3, <1>4
<1>6. PICK e \in T : \A k \in T : e <= k
  <2> HIDE DEF T
  <2> QED
    BY <1>5, LeastNumber
<1>7. EndOf(text, i) = e
  BY <1>1, <1>2, <1>3, <1>6, EndIs
<1> QED
  BY <1>6, <1>7

\* The first line is what comes before the first line end.
LEMMA FirstLine ==
  ASSUME NEW l, NEW rest, IsLine(l), Terminated(rest), NEW text, text = LineThen(l, rest)
  PROVE  LineAt(text, 1) = l
<1>0. IsText(l) /\ IsText(rest)
  BY DEF IsLine, Without, Terminated
<1>1. PICK n \in Nat : n = Len(l)
  BY <1>0, TextAsFunction
<1>2. /\ IsText(text) /\ Len(text) = n + 2 + Len(rest) /\ Len(rest) \in Nat
      /\ \A i \in 1..n : text[i] = l[i] /\ l[i] \notin {"CR", "LF"}
      /\ text[n + 1] = "CR"
  BY <1>0, <1>1, LinePlaces
<1>3. /\ Ends(text) = {n + 2} \cup Moved(Ends(rest), n + 2)
      /\ Ends(rest) \subseteq 1..Len(rest)
  BY <1>1, LineEnds
<1>4. EndOf(text, 1) = n + 2
  <2>1. \A k \in Ends(text) : k \in Nat /\ n + 2 <= k
    BY <1>2, <1>3 DEF Moved
  <2>2. n + 2 \in Ends(text) /\ 1 <= n + 2 /\ 1 \in Nat
    BY <1>3
  <2> QED
    BY <2>1, <2>2, EndIs
<1>5. LineAt(text, 1) = SubSeq(text, 1, n)
  <2>1. (n + 2) - 1 = n + 1 /\ (n + 1) - 1 = n /\ 1 <= n + 1
    OBVIOUS
  <2> QED
    BY <1>2, <1>4, <2>1 DEF LineAt
<1>6. SubSeq(text, 1, n) = SubSeq(l, 1, n)
  <2>1. \A i \in 1..Len(l) : i + 0 \in 1..Len(text) /\ text[i + 0] = l[i]
    BY <1>1, <1>2
  <2>2. n <= Len(l) /\ n + 0 <= Len(text) /\ 0 \in Nat /\ 1 \in Nat \ {0}
    BY <1>1, <1>2
  <2>3. SubSeq(text, 1 + 0, n + 0) = SubSeq(l, 1, n)
    BY <1>0, <1>2, <2>1, <2>2, SamePart
  <2> QED
    BY <2>3
<1>7. SubSeq(l, 1, n) = l
  <2>1. PICK S : l \in Seq(S)
    BY <1>0 DEF IsText
  <2> QED
    BY <1>1, <2>1, SubSeqFull
<1> QED
  BY <1>5, <1>6, <1>7

\* The other lines are those of what follows, further on.
LEMMA LaterLine ==
  ASSUME NEW l, NEW rest, IsLine(l), Terminated(rest), NEW text, text = LineThen(l, rest),
         NEW d \in Nat, d = Len(l) + 2, NEW i \in Starts(rest)
  PROVE  LineAt(text, i + d) = LineAt(rest, i)
<1>0. IsText(l) /\ IsText(rest)
  BY DEF IsLine, Without, Terminated
<1>1. PICK n \in Nat : n = Len(l)
  BY <1>0, TextAsFunction
<1>2. /\ IsText(text) /\ Len(text) = n + 2 + Len(rest) /\ Len(rest) \in Nat
      /\ \A j \in 1..Len(rest) : text[j + (n + 2)] = rest[j]
  <2>1. IsText(text) /\ Len(text) = n + 2 + Len(rest) /\ Len(rest) \in Nat
    BY <1>0, <1>1, LinePlaces
  <2>2. ASSUME NEW j \in 1..Len(rest) PROVE text[j + (n + 2)] = rest[j]
    <3>1. IsLine(l) /\ IsText(rest) /\ text = LineThen(l, rest) /\ n \in Nat /\ n = Len(l)
      BY <1>0, <1>1
    <3> QED
      BY <3>1, LinePlaces
  <2> QED
    BY <2>1, <2>2
<1>3. /\ Ends(text) = {n + 2} \cup Moved(Ends(rest), n + 2)
      /\ Ends(rest) \subseteq 1..Len(rest) /\ Starts(rest) \subseteq 1..Len(rest)
  BY <1>1, LineEnds
<1>d. d = n + 2
  BY <1>1
<1>4. PICK e \in Ends(rest) : e = EndOf(rest, i) /\ i <= e /\ \A k \in Ends(rest) : i <= k => e <= k
  BY EndExists
<1>n. e \in Nat \ {0} /\ i \in Nat \ {0} /\ e <= Len(rest)
  BY <1>2, <1>3
<1>5. EndOf(text, i + d) = e + d
  <2>1. e + d \in Ends(text) /\ i + d <= e + d /\ i + d \in Nat
    BY <1>3, <1>4, <1>d, <1>n DEF Moved
  <2>2. ASSUME NEW k \in Ends(text), i + d <= k PROVE e + d <= k
    <3>1. k # n + 2
      BY <1>d, <1>n, <2>2
    <3>2. PICK j \in Ends(rest) : k = j + d
      BY <1>3, <1>d, <3>1 DEF Moved
    <3>3. j \in Nat /\ i <= j
      BY <1>2, <1>3, <1>n, <2>2, <3>2
    <3> QED
      BY <1>4, <1>n, <3>2, <3>3
  <2>3. Ends(text) \subseteq Nat
    BY <1>2, <1>3 DEF Moved
  <2> QED
    BY <2>1, <2>2, <2>3, EndIs
<1>6. \A j \in 1..Len(rest) : j + d \in 1..Len(text) /\ text[j + d] = rest[j]
  <2>1. ASSUME NEW j \in 1..Len(rest) PROVE j + d \in 1..Len(text)
    BY <1>2, <1>d
  <2> QED
    BY <1>2, <1>d, <2>1
<1>7. PICK x \in Nat : x = e - 1
  BY <1>n
<1>8. (i + d <= (e + d) - 1 <=> i <= e - 1) /\ (e + d) - 1 = x + d
  BY <1>n, <1>7
<1>9. ASSUME i <= x PROVE text[x + d] = rest[x] /\ x - 1 \in Nat /\ (x + d) - 1 = (x - 1) + d
  <2>1. x \in 1..Len(rest)
    BY <1>2, <1>n, <1>7, <1>9
  <2> QED
    BY <1>6, <2>1
<1>10. ASSUME NEW y \in Nat, y <= x PROVE SubSeq(text, i + d, y + d) = SubSeq(rest, i, y)
  <2>1. y <= Len(rest) /\ y + d <= Len(text)
    BY <1>2, <1>d, <1>n, <1>7, <1>10
  <2> QED
    BY <1>0, <1>2, <1>6, <1>n, <2>1, SamePart
<1>11. LineAt(rest, i) = SubSeq(rest, i, IF i <= x /\ rest[x] = "CR" THEN x - 1 ELSE x)
  BY <1>4, <1>7 DEF LineAt
<1>12. LineAt(text, i + d) =
         SubSeq(text, i + d, IF i + d <= x + d /\ text[x + d] = "CR" THEN (x + d) - 1 ELSE x + d)
  BY <1>5, <1>8 DEF LineAt
<1>13. CASE i <= x /\ rest[x] = "CR"
  <2>1. x - 1 \in Nat /\ x - 1 <= x
    BY <1>9, <1>13
  <2>2. SubSeq(text, i + d, (x - 1) + d) = SubSeq(rest, i, x - 1)
    <3>1. PICK y \in Nat : y = x - 1
      BY <2>1
    <3> QED
      BY <1>10, <2>1, <3>1
  <2>3. i + d <= x + d /\ text[x + d] = "CR" /\ (x + d) - 1 = (x - 1) + d
    BY <1>7, <1>8, <1>9, <1>13
  <2> QED
    BY <1>11, <1>12, <1>13, <2>2, <2>3
<1>14. CASE ~(i <= x /\ rest[x] = "CR")
  <2>1. SubSeq(text, i + d, x + d) = SubSeq(rest, i, x)
    <3>1. x <= x
      OBVIOUS
    <3> QED
      BY <1>10, <3>1
  <2>2. ~(i + d <= x + d /\ text[x + d] = "CR")
    BY <1>7, <1>8, <1>9, <1>14
  <2> QED
    BY <1>11, <1>12, <1>14, <2>1, <2>2
<1> QED
  BY <1>13, <1>14

-------------------------------------------------------------------------------
(* The head a text holds, as the set of its lines.                         *)

\* The starts of lines before the first empty one.
InHead(text) == {i \in Starts(text) : \A j \in Starts(text) : LineAt(text, j) = << >> => i < j}

\* HeadOf() is the lines that start there.
LEMMA HeadAsSet ==
  ASSUME NEW text
  PROVE  /\ DOMAIN HeadOf(text) = InHead(text)
         /\ \A i \in InHead(text) : HeadOf(text)[i] = LineAt(text, i)
BY DEF HeadOf, InHead, Lines

\* The lines of the head, and that no two of them name the same field.
HeadLinesOf(text) == {LineAt(text, i) : i \in InHead(text)}

OneOfEachName(text) ==
  \A i, j \in InHead(text) : LineAt(text, j)[1] = LineAt(text, i)[1] => i = j

\* A text the head of which are the lines S, no two of which have the same name.
HeadHolds(text, S) == Terminated(text) /\ HeadLinesOf(text) = S /\ OneOfEachName(text)

\* An empty line ends the head.
LEMMA HoldsNothing ==
  ASSUME NEW rest, Terminated(rest)
  PROVE  HeadHolds(Join(CRLF, rest), {})
<1>1. IsText(rest) /\ IsText(CRLF)
  BY TwoTokens DEF Terminated, CRLF
<1>2. PICK text : text = LineThen(<< >>, rest)
  OBVIOUS
<1>3. IsLine(<< >>) /\ text = Join(CRLF, rest)
  <2>1. IsText(Join(CRLF, rest))
    BY <1>1, JoinTexts
  <2> QED
    BY <1>2, <2>1, NothingRead, JoinTexts DEF IsLine, LineThen
<1>4. Terminated(text) /\ 1 \in Starts(text) /\ Starts(text) \subseteq Nat \ {0}
  <2>1. PICK n \in Nat : n = Len(<< >>)
    OBVIOUS
  <2>2. /\ Starts(text) = {1} \cup Moved(Starts(rest), n + 2) /\ Starts(rest) \subseteq 1..Len(rest)
        /\ Terminated(text)
    BY <1>2, <1>3, <2>1, LineEnds
  <2> QED
    BY <2>2 DEF Moved
<1>5. LineAt(text, 1) = << >>
  BY <1>2, <1>3, FirstLine
<1>6. InHead(text) = {}
  <2>1. ASSUME NEW i \in InHead(text) PROVE FALSE
    <3>1. i \in Nat \ {0} /\ i < 1
      BY <1>4, <1>5 DEF InHead
    <3> QED
      BY <3>1
  <2> QED
    BY <2>1
<1> QED
  BY <1>3, <1>4, <1>6 DEF HeadHolds, HeadLinesOf, OneOfEachName

\* A line before a text is one more line of its head.
LEMMA LineBefore ==
  ASSUME NEW l, l # << >>, IsLine(l), NEW rest, Terminated(rest),
         NEW text, text = LineThen(l, rest), NEW d \in Nat, d = Len(l) + 2
  PROVE  /\ Terminated(text)
         /\ InHead(text) = {1} \cup Moved(InHead(rest), d)
         /\ LineAt(text, 1) = l /\ \A i \in InHead(rest) : LineAt(text, i + d) = LineAt(rest, i)
         /\ InHead(rest) \subseteq Nat \ {0}
<1>0. Terminated(rest) /\ IsText(l)
  BY DEF IsLine, Without
<1>1. PICK n \in Nat : n = Len(l)
  BY <1>0, TextAsFunction
<1>2. /\ Starts(text) = {1} \cup Moved(Starts(rest), d)
      /\ Starts(rest) \subseteq Nat \ {0} /\ Terminated(text)
  <2>1. /\ Starts(text) = {1} \cup Moved(Starts(rest), n + 2)
        /\ Starts(rest) \subseteq 1..Len(rest) /\ Terminated(text)
    BY <1>0, <1>1, LineEnds
  <2>2. d = n + 2
    BY <1>1
  <2> QED
    BY <2>1, <2>2
<1>3. LineAt(text, 1) = l /\ \A i \in Starts(rest) : LineAt(text, i + d) = LineAt(rest, i)
  BY <1>0, FirstLine, LaterLine
<1>4. ASSUME NEW j \in Starts(text), LineAt(text, j) = << >>
      PROVE  \E k \in Starts(rest) : j = k + d /\ LineAt(rest, k) = << >>
  BY <1>2, <1>3, <1>4 DEF Moved
<1>5. 1 \in InHead(text)
  <2>1. \A j \in Starts(text) : LineAt(text, j) = << >> => 1 < j
    BY <1>2, <1>4
  <2> QED
    BY <1>2, <2>1 DEF InHead
<1>6. ASSUME NEW i \in Starts(rest) PROVE i + d \in InHead(text) <=> i \in InHead(rest)
  <2>1. ASSUME i \in InHead(rest) PROVE i + d \in InHead(text)
    <3>1. ASSUME NEW j \in Starts(text), LineAt(text, j) = << >> PROVE i + d < j
      <4>1. PICK k \in Starts(rest) : j = k + d /\ LineAt(rest, k) = << >>
        BY <1>4, <3>1
      <4>2. i < k /\ i \in Nat /\ k \in Nat
        BY <1>2, <2>1, <4>1 DEF InHead
      <4> QED
        BY <4>1, <4>2
    <3>2. i + d \in Starts(text)
      BY <1>2 DEF Moved
    <3> QED
      BY <3>1, <3>2 DEF InHead
  <2>2. ASSUME i + d \in InHead(text) PROVE i \in InHead(rest)
    <3>1. ASSUME NEW k \in Starts(rest), LineAt(rest, k) = << >> PROVE i < k
      <4>1. k + d \in Starts(text) /\ LineAt(text, k + d) = << >>
        BY <1>2, <1>3, <3>1 DEF Moved
      <4>2. i + d < k + d /\ i \in Nat /\ k \in Nat
        BY <1>2, <2>2, <4>1 DEF InHead
      <4> QED
        BY <4>2
    <3> QED
      BY <3>1 DEF InHead
  <2> QED
    BY <2>1, <2>2
<1>7. InHead(text) = {1} \cup Moved(InHead(rest), d)
  <2>1. ASSUME NEW i \in InHead(text) PROVE i \in {1} \cup Moved(InHead(rest), d)
    <3>1. i \in Starts(text)
      BY <2>1 DEF InHead
    <3> QED
      BY <1>2, <1>6, <2>1, <3>1 DEF Moved
  <2>2. ASSUME NEW k \in InHead(rest) PROVE k + d \in InHead(text)
    <3>1. k \in Starts(rest)
      BY <2>2 DEF InHead
    <3> QED
      BY <1>6, <2>2, <3>1
  <2> QED
    BY <1>5, <2>1, <2>2 DEF Moved
<1>8. InHead(rest) \subseteq Starts(rest)
  BY DEF InHead
<1> QED
  BY <1>2, <1>3, <1>7, <1>8

\* So a head with one more line holds that line too, unless its name was there.
LEMMA HoldsOneMore ==
  ASSUME NEW l, l # << >>, IsLine(l), NEW rest, NEW S, HeadHolds(rest, S),
         \A f \in S : f[1] # l[1]
  PROVE  HeadHolds(LineThen(l, rest), S \cup {l})
<1>1. PICK text : text = LineThen(l, rest)
  OBVIOUS
<1>2. PICK d \in Nat : d = Len(l) + 2
  BY TextAsFunction DEF IsLine, Without
<1>3. /\ Terminated(text)
      /\ InHead(text) = {1} \cup Moved(InHead(rest), d)
      /\ LineAt(text, 1) = l /\ \A i \in InHead(rest) : LineAt(text, i + d) = LineAt(rest, i)
      /\ InHead(rest) \subseteq Nat \ {0}
  BY <1>1, <1>2, LineBefore DEF HeadHolds
<1>4. HeadLinesOf(text) = S \cup {l}
  <2>1. HeadLinesOf(rest) = S
    BY DEF HeadHolds
  <2>2. ASSUME NEW f \in HeadLinesOf(text) PROVE f \in HeadLinesOf(rest) \cup {l}
    BY <1>3, <2>2 DEF HeadLinesOf, Moved
  <2>3. ASSUME NEW f \in HeadLinesOf(rest) PROVE f \in HeadLinesOf(text)
    <3>1. PICK i \in InHead(rest) : f = LineAt(rest, i)
      BY <2>3 DEF HeadLinesOf
    <3>2. i + d \in InHead(text) /\ f = LineAt(text, i + d)
      BY <1>3, <3>1 DEF Moved
    <3> QED
      BY <3>2 DEF HeadLinesOf
  <2>4. l \in HeadLinesOf(text)
    BY <1>3 DEF HeadLinesOf
  <2> QED
    BY <2>1, <2>2, <2>3, <2>4
<1>5. OneOfEachName(text)
  <2>1. ASSUME NEW i \in InHead(rest) PROVE LineAt(rest, i)[1] # l[1]
    BY DEF HeadHolds, HeadLinesOf
  <2>2. ASSUME NEW i \in InHead(text), NEW j \in InHead(text),
               LineAt(text, j)[1] = LineAt(text, i)[1]
        PROVE  i = j
    <3>1. /\ i = 1 \/ \E k \in InHead(rest) : i = k + d
          /\ j = 1 \/ \E k \in InHead(rest) : j = k + d
      BY <1>3 DEF Moved
    <3>2. CASE i = 1 /\ j = 1
      BY <3>2
    <3>3. ASSUME NEW k \in InHead(rest), i = k + d, j = 1
          PROVE  FALSE
      BY <1>3, <2>1, <2>2, <3>3
    <3>4. ASSUME NEW k \in InHead(rest), j = k + d, i = 1
          PROVE  FALSE
      BY <1>3, <2>1, <2>2, <3>4
    <3>5. ASSUME NEW k \in InHead(rest), NEW m \in InHead(rest), i = k + d, j = m + d
          PROVE  i = j
      BY <1>3, <2>2, <3>5 DEF HeadHolds, OneOfEachName
    <3> QED
      BY <3>1, <3>2, <3>3, <3>4, <3>5
  <2> QED
    BY <2>2 DEF OneOfEachName
<1> QED
  BY <1>1, <1>3, <1>4, <1>5 DEF HeadHolds

-------------------------------------------------------------------------------
(* Base64: what is regrouped from bytes to sextets and back is the same.   *)

\* One turn of the recursion in BitsFrom.
Reading(f, items, width, i, n) ==
  [j \in 0..n |-> IF j = 0 THEN 0 ELSE 2 * f[j - 1] + Bit(items, width, i + j - 1)]

Reads(f, items, width, i, n) ==
  \A j \in 0..n : f[j] = IF j = 0 THEN 0 ELSE 2 * f[j - 1] + Bit(items, width, i + j - 1)

\* A function that Reading leaves as it is reads bit by bit.
LEMMA ReadingSteps ==
  ASSUME NEW f, NEW items, NEW width, NEW i, NEW n \in Nat, f = Reading(f, items, width, i, n)
  PROVE  Reads(f, items, width, i, n)
<1>1. \A j \in 0..n : Reading(f, items, width, i, n)[j]
                        = IF j = 0 THEN 0 ELSE 2 * f[j - 1] + Bit(items, width, i + j - 1)
  BY DEF Reading
<1> QED
  BY <1>1 DEF Reads

\* There is one: it is built one bit at a time.
LEMMA ReadingExists ==
  ASSUME NEW items, NEW width, NEW i, NEW n \in Nat
  PROVE  \E f : f = Reading(f, items, width, i, n)
<1> DEFINE R(f, k) == Reading(f, items, width, i, k)
           T == {k \in Nat : \E f : f = R(f, k)}
<1>1. 0 \in T
  <2>1. R(items, 0) = R(R(items, 0), 0)
    BY DEF Reading
  <2> QED
    BY <2>1
<1>2. ASSUME NEW k \in Nat, k \in T PROVE k + 1 \in T
  <2>1. PICK f : f = R(f, k)
    BY <1>2
  <2>0. Reads(f, items, width, i, k)
    BY <2>1, ReadingSteps
  <2> DEFINE g == R(f, k + 1)
  <2>2. ASSUME NEW j \in 0..(k + 1)
        PROVE  g[j] = IF j = 0 THEN 0 ELSE 2 * g[j - 1] + Bit(items, width, i + j - 1)
    <3>1. g[j] = IF j = 0 THEN 0 ELSE 2 * f[j - 1] + Bit(items, width, i + j - 1)
      BY DEF Reading
    <3>2. ASSUME j # 0 PROVE g[j - 1] = f[j - 1]
      <4>0. PICK x : x = j - 1
        OBVIOUS
      <4>1. x \in 0..k /\ x \in 0..(k + 1)
        BY <3>2, <4>0
      <4>2. g[x] = IF x = 0 THEN 0 ELSE 2 * f[x - 1] + Bit(items, width, i + x - 1)
        BY <4>1 DEF Reading
      <4>3. f[x] = IF x = 0 THEN 0 ELSE 2 * f[x - 1] + Bit(items, width, i + x - 1)
        BY <2>0, <4>1 DEF Reads
      <4> QED
        BY <4>0, <4>2, <4>3
    <3> QED
      BY <3>1, <3>2
  <2>3. DOMAIN g = 0..(k + 1) /\ g = [j \in DOMAIN g |-> g[j]]
    BY DEF Reading
  <2> HIDE DEF g
  <2>4. g = R(g, k + 1)
    BY <2>2, <2>3 DEF Reading
  <2>5. \E h : h = R(h, k + 1)
    BY <2>4
  <2> QED
    BY <2>5
<1>3. \A k \in Nat : k \in T => k + 1 \in T
  BY <1>2
<1> HIDE DEF T
<1>4. n \in T
  BY <1>1, <1>3, AllNumbers
<1> QED
  BY <1>4 DEF T

\* BitsFrom adds one bit after the other.
LEMMA BitsSteps ==
  ASSUME NEW items, NEW width, NEW i, NEW n \in Nat
  PROVE  \E f : BitsFrom(items, width, i, n) = f[n] /\ Reads(f, items, width, i, n)
<1> DEFINE f == CHOOSE f : f = Reading(f, items, width, i, n)
<1>1. f = Reading(f, items, width, i, n)
  BY ReadingExists
<1>2. BitsFrom(items, width, i, n) = f[n]
  BY DEF BitsFrom, Reading
<1> HIDE DEF f
<1>3. Reads(f, items, width, i, n)
  BY <1>1, ReadingSteps
<1> QED
  BY <1>2, <1>3

\* The powers of two in use.
LEMMA Powers ==
  /\ 2^(5-0) = 32 /\ 2^(5-1) = 16 /\ 2^(5-2) = 8 /\ 2^(5-3) = 4 /\ 2^(5-4) = 2 /\ 2^(5-5) = 1
  /\ 2^(7-0) = 128 /\ 2^(7-1) = 64 /\ 2^(7-2) = 32 /\ 2^(7-3) = 16
  /\ 2^(7-4) = 8 /\ 2^(7-5) = 4 /\ 2^(7-6) = 2 /\ 2^(7-7) = 1
OBVIOUS

\* A number from its bits, and its bits from it.
LEMMA BitsOfSix ==
  ASSUME NEW a \in {0, 1}, NEW b \in {0, 1}, NEW c \in {0, 1}, NEW d \in {0, 1}, NEW e \in {0, 1},
         NEW f \in {0, 1}, NEW v, v = 2 * (2 * (2 * (2 * (2 * (2 * 0 + a) + b) + c) + d) + e) + f
  PROVE  /\ v \in 0..63
         /\ (v \div 32) % 2 = a /\ (v \div 16) % 2 = b /\ (v \div 8) % 2 = c
         /\ (v \div 4) % 2 = d /\ (v \div 2) % 2 = e /\ (v \div 1) % 2 = f
<1>1. v = 32 * a + 16 * b + 8 * c + 4 * d + 2 * e + f /\ v \in Nat
  OBVIOUS
<1>2. v \in 0..63
  BY <1>1
<1>3. v \div 32 = a /\ v \div 16 = 2 * a + b
  BY <1>1
<1>4. v \div 8 = 4 * a + 2 * b + c /\ v \div 4 = 8 * a + 4 * b + 2 * c + d
  BY <1>1
<1>5. v \div 2 = 16 * a + 8 * b + 4 * c + 2 * d + e /\ v \div 1 = v
  BY <1>1
<1> QED
  BY <1>1, <1>2, <1>3, <1>4, <1>5

\* A byte from its bits.
LEMMA BitsOfEight ==
  ASSUME NEW a \in 0..255,
         NEW b, NEW c, NEW d, NEW e, NEW f, NEW g, NEW h, NEW i,
         b = (a \div 128) % 2, c = (a \div 64) % 2, d = (a \div 32) % 2, e = (a \div 16) % 2,
         f = (a \div 8) % 2, g = (a \div 4) % 2, h = (a \div 2) % 2, i = (a \div 1) % 2
  PROVE  2 * (2 * (2 * (2 * (2 * (2 * (2 * (2 * 0 + b) + c) + d) + e) + f) + g) + h) + i = a
<1>1. b = a \div 128
  OBVIOUS
<1>2. 2 * b + c = a \div 64
  BY <1>1
<1>3. 2 * (a \div 64) + d = a \div 32 /\ 2 * (a \div 32) + e = a \div 16
  OBVIOUS
<1>4. 2 * (a \div 16) + f = a \div 8 /\ 2 * (a \div 8) + g = a \div 4
  OBVIOUS
<1>5. 2 * (a \div 4) + h = a \div 2 /\ 2 * (a \div 2) + i = a
  OBVIOUS
<1> QED
  BY <1>1, <1>2, <1>3, <1>4, <1>5

\* Six bits are a number below 64, and the bits of that number.
LEMMA SixBits ==
  ASSUME NEW items, NEW width, NEW i \in Nat,
         \A j \in 0..5 : Bit(items, width, i + j) \in {0, 1}
  PROVE  /\ BitsFrom(items, width, i, 6) \in 0..63
         /\ \A j \in 0..5 :
              (BitsFrom(items, width, i, 6) \div 2^(5 - j)) % 2 = Bit(items, width, i + j)
<1>1. PICK f : BitsFrom(items, width, i, 6) = f[6] /\ Reads(f, items, width, i, 6)
  BY BitsSteps
<1>2. PICK b : b = [j \in 0..5 |-> Bit(items, width, i + j)]
  OBVIOUS
<1>3. \A j \in 0..5 : b[j] \in {0, 1} /\ b[j] = Bit(items, width, i + j)
  BY <1>2
<1>4. f[0] = 0
  BY <1>1 DEF Reads
<1>5. ASSUME NEW j \in 0..5 PROVE f[j + 1] = 2 * f[j] + b[j]
  <2>1. j + 1 \in 0..6 /\ j + 1 # 0 /\ (j + 1) - 1 = j /\ i + (j + 1) - 1 = i + j
    OBVIOUS
  <2>2. f[j + 1] = 2 * f[(j + 1) - 1] + Bit(items, width, i + (j + 1) - 1)
    BY <1>1, <2>1 DEF Reads
  <2> QED
    BY <1>3, <2>1, <2>2
<1>6. /\ f[1] = 2 * f[0] + b[0] /\ f[2] = 2 * f[1] + b[1] /\ f[3] = 2 * f[2] + b[2]
      /\ f[4] = 2 * f[3] + b[3] /\ f[5] = 2 * f[4] + b[4] /\ f[6] = 2 * f[5] + b[5]
  <2>1. /\ f[0 + 1] = 2 * f[0] + b[0] /\ f[1 + 1] = 2 * f[1] + b[1] /\ f[2 + 1] = 2 * f[2] + b[2]
        /\ f[3 + 1] = 2 * f[3] + b[3] /\ f[4 + 1] = 2 * f[4] + b[4] /\ f[5 + 1] = 2 * f[5] + b[5]
    BY <1>5
  <2> QED
    BY <2>1
<1>7. b[0] \in {0, 1} /\ b[1] \in {0, 1} /\ b[2] \in {0, 1}
      /\ b[3] \in {0, 1} /\ b[4] \in {0, 1} /\ b[5] \in {0, 1}
  BY <1>3
<1>8. PICK a0, a1, a2, a3, a4, a5, v :
        /\ a0 = b[0] /\ a1 = b[1] /\ a2 = b[2] /\ a3 = b[3] /\ a4 = b[4] /\ a5 = b[5] /\ v = f[6]
  OBVIOUS
<1>9. /\ a0 \in {0, 1} /\ a1 \in {0, 1} /\ a2 \in {0, 1}
      /\ a3 \in {0, 1} /\ a4 \in {0, 1} /\ a5 \in {0, 1}
      /\ v = 2 * (2 * (2 * (2 * (2 * (2 * 0 + a0) + a1) + a2) + a3) + a4) + a5
  BY <1>4, <1>6, <1>7, <1>8
<1>10. /\ v \in 0..63
       /\ (v \div 32) % 2 = a0 /\ (v \div 16) % 2 = a1 /\ (v \div 8) % 2 = a2
       /\ (v \div 4) % 2 = a3 /\ (v \div 2) % 2 = a4 /\ (v \div 1) % 2 = a5
  BY <1>9, BitsOfSix
<1>11. ASSUME NEW j \in 0..5 PROVE (v \div 2^(5 - j)) % 2 = b[j]
  <2>1. j = 0 \/ j = 1 \/ j = 2 \/ j = 3 \/ j = 4 \/ j = 5
    OBVIOUS
  <2>2. /\ (v \div 2^(5 - 0)) % 2 = b[0] /\ (v \div 2^(5 - 1)) % 2 = b[1]
        /\ (v \div 2^(5 - 2)) % 2 = b[2]
        /\ (v \div 2^(5 - 3)) % 2 = b[3] /\ (v \div 2^(5 - 4)) % 2 = b[4]
        /\ (v \div 2^(5 - 5)) % 2 = b[5]
    BY <1>8, <1>10, Powers
  <2> QED
    BY <2>1, <2>2
<1> QED
  BY <1>1, <1>3, <1>8, <1>10, <1>11

\* The eight bits of a byte make that byte.
LEMMA EightBits ==
  ASSUME NEW items, NEW width, NEW i \in Nat, NEW a \in 0..255,
         \A j \in 0..7 : Bit(items, width, i + j) = (a \div 2^(7 - j)) % 2
  PROVE  BitsFrom(items, width, i, 8) = a
<1>1. PICK f : BitsFrom(items, width, i, 8) = f[8] /\ Reads(f, items, width, i, 8)
  BY BitsSteps
<1>4. f[0] = 0
  BY <1>1 DEF Reads
<1>2. PICK b : b = [j \in 0..7 |-> (a \div 2^(7 - j)) % 2]
  OBVIOUS
<1>3. \A j \in 0..7 : b[j] = Bit(items, width, i + j) /\ b[j] = (a \div 2^(7 - j)) % 2
  BY <1>2
<1>5. ASSUME NEW j \in 0..7 PROVE f[j + 1] = 2 * f[j] + b[j]
  <2>1. j + 1 \in 0..8 /\ j + 1 # 0 /\ (j + 1) - 1 = j /\ i + (j + 1) - 1 = i + j
    OBVIOUS
  <2>2. f[j + 1] = 2 * f[(j + 1) - 1] + Bit(items, width, i + (j + 1) - 1)
    BY <1>1, <2>1 DEF Reads
  <2> QED
    BY <1>3, <2>1, <2>2
<1>6. /\ f[1] = 2 * f[0] + b[0] /\ f[2] = 2 * f[1] + b[1] /\ f[3] = 2 * f[2] + b[2]
      /\ f[4] = 2 * f[3] + b[3] /\ f[5] = 2 * f[4] + b[4] /\ f[6] = 2 * f[5] + b[5]
      /\ f[7] = 2 * f[6] + b[6] /\ f[8] = 2 * f[7] + b[7]
  <2>1. /\ f[0 + 1] = 2 * f[0] + b[0] /\ f[1 + 1] = 2 * f[1] + b[1] /\ f[2 + 1] = 2 * f[2] + b[2]
        /\ f[3 + 1] = 2 * f[3] + b[3] /\ f[4 + 1] = 2 * f[4] + b[4] /\ f[5 + 1] = 2 * f[5] + b[5]
        /\ f[6 + 1] = 2 * f[6] + b[6] /\ f[7 + 1] = 2 * f[7] + b[7]
    BY <1>5
  <2> QED
    BY <2>1
<1>7. PICK a0, a1, a2, a3, a4, a5, a6, a7, v :
        /\ a0 = b[0] /\ a1 = b[1] /\ a2 = b[2] /\ a3 = b[3] /\ a4 = b[4] /\ a5 = b[5]
        /\ a6 = b[6] /\ a7 = b[7] /\ v = f[8]
  OBVIOUS
<1>8. v = 2 * (2 * (2 * (2 * (2 * (2 * (2 * (2 * 0 + a0) + a1) + a2) + a3) + a4) + a5) + a6) + a7
  BY <1>4, <1>6, <1>7
<1>9. /\ a0 = (a \div 128) % 2 /\ a1 = (a \div 64) % 2 /\ a2 = (a \div 32) % 2
      /\ a3 = (a \div 16) % 2
      /\ a4 = (a \div 8) % 2 /\ a5 = (a \div 4) % 2 /\ a6 = (a \div 2) % 2 /\ a7 = (a \div 1) % 2
  <2>1. /\ a0 = (a \div 2^(7-0)) % 2 /\ a1 = (a \div 2^(7-1)) % 2 /\ a2 = (a \div 2^(7-2)) % 2
        /\ a3 = (a \div 2^(7-3)) % 2 /\ a4 = (a \div 2^(7-4)) % 2 /\ a5 = (a \div 2^(7-5)) % 2
        /\ a6 = (a \div 2^(7-6)) % 2 /\ a7 = (a \div 2^(7-7)) % 2
    BY <1>3, <1>7
  <2> QED
    BY <2>1, Powers
<1>10. v = a
  BY <1>8, <1>9, BitsOfEight
<1> QED
  BY <1>1, <1>7, <1>10

\* A bit of bytes is a bit, and a bit of the byte it is in.
LEMMA ByteBits ==
  ASSUME NEW s \in Seq(0..255), NEW i \in Nat
  PROVE  Bit(s, 8, i) \in {0, 1}
<1>1. PICK q \in Nat, r \in 0..7 : q = i \div 8 /\ r = i % 8
  OBVIOUS
<1>2. CASE q < Len(s)
  <2>1. q + 1 \in 1..Len(s)
    BY <1>2
  <2>2. PICK a \in 0..255 : a = s[q + 1]
    BY <2>1, ElementOfSeq
  <2>3. PICK p \in Nat \ {0} : p = 2^(8 - 1 - r)
    <3>1. r = 0 \/ r = 1 \/ r = 2 \/ r = 3 \/ r = 4 \/ r = 5 \/ r = 6 \/ r = 7
      OBVIOUS
    <3>2. 8 - 1 - r = 7 - r
      OBVIOUS
    <3>3. /\ 2^(7-0) \in Nat \ {0} /\ 2^(7-1) \in Nat \ {0} /\ 2^(7-2) \in Nat \ {0}
          /\ 2^(7-3) \in Nat \ {0}
          /\ 2^(7-4) \in Nat \ {0} /\ 2^(7-5) \in Nat \ {0} /\ 2^(7-6) \in Nat \ {0}
          /\ 2^(7-7) \in Nat \ {0}
      BY Powers
    <3>4. 2^(7 - r) \in Nat \ {0}
      BY <3>1, <3>3, Zenon
    <3> QED
      BY <3>2, <3>4
  <2>4. Bit(s, 8, i) = (a \div p) % 2
    BY <1>1, <1>2, <2>2, <2>3 DEF Bit
  <2> QED
    BY <2>4
<1>3. CASE ~(q < Len(s))
  BY <1>1, <1>3 DEF Bit
<1> QED
  BY <1>2, <1>3

\* The m sextets of bytes.
LEMMA Sextets ==
  ASSUME NEW s \in Seq(0..255), NEW m \in Nat, NEW x, x = Regrouped(s, 8, 6, m)
  PROVE  /\ IsText(x) /\ Len(x) = m /\ \A k \in 1..m : x[k] \in 0..63
         /\ \A i \in 0..(6 * m - 1) : Bit(x, 6, i) = Bit(s, 8, i)
<1>1. IsText(x) /\ Len(x) = m /\ \A k \in 1..m : x[k] = BitsFrom(s, 8, (k - 1) * 6, 6)
  <2>1. DOMAIN x = 1..m /\ x = [k \in 1..m |-> x[k]]
    BY DEF Regrouped
  <2> QED
    BY <2>1, FunctionAsText DEF Regrouped
<1>2. ASSUME NEW k \in 1..m
      PROVE  /\ x[k] \in 0..63
             /\ \A j \in 0..5 : (x[k] \div 2^(5 - j)) % 2 = Bit(s, 8, (k - 1) * 6 + j)
  <2>1. PICK i \in Nat : i = (k - 1) * 6
    OBVIOUS
  <2>2. \A j \in 0..5 : Bit(s, 8, i + j) \in {0, 1}
    BY <2>1, ByteBits
  <2>3. x[k] = BitsFrom(s, 8, i, 6)
    BY <1>1, <2>1
  <2>4. /\ BitsFrom(s, 8, i, 6) \in 0..63
        /\ \A j \in 0..5 : (BitsFrom(s, 8, i, 6) \div 2^(5 - j)) % 2 = Bit(s, 8, i + j)
    BY <2>2, SixBits
  <2> QED
    BY <2>1, <2>3, <2>4, Zenon
<1>3. ASSUME NEW i \in 0..(6 * m - 1) PROVE Bit(x, 6, i) = Bit(s, 8, i)
  <2>1. PICK k \in 1..m, j \in 0..5 : k = (i \div 6) + 1 /\ j = i % 6 /\ i = (k - 1) * 6 + j
    <3>1. i \div 6 + 1 \in 1..m /\ i % 6 \in 0..5 /\ i = ((i \div 6 + 1) - 1) * 6 + (i % 6)
      OBVIOUS
    <3> QED
      BY <3>1
  <2>2. i \div 6 < Len(x) /\ 6 - 1 - j = 5 - j
    BY <1>1, <2>1
  <2>3. Bit(x, 6, i) = (x[k] \div 2^(5 - j)) % 2
    BY <2>1, <2>2 DEF Bit
  <2> QED
    BY <1>2, <2>1, <2>3
<1> QED
  BY <1>1, <1>2, <1>3

\* The bytes come back.
LEMMA BytesAgain ==
  ASSUME NEW s \in Seq(0..255), NEW m \in Nat, 8 * Len(s) <= 6 * m,
         NEW x, x = Regrouped(s, 8, 6, m)
  PROVE  Regrouped(x, 6, 8, Len(s)) = s
<1>1. PICK n \in Nat : n = Len(s)
  OBVIOUS
<1>2. ASSUME NEW k \in 1..n PROVE BitsFrom(x, 6, (k - 1) * 8, 8) = s[k]
  <2>1. PICK a \in 0..255 : a = s[k]
    BY <1>1, <1>2, ElementOfSeq
  <2>2. PICK i \in Nat : i = (k - 1) * 8
    OBVIOUS
  <2>3. ASSUME NEW j \in 0..7 PROVE Bit(x, 6, i + j) = (a \div 2^(7 - j)) % 2
    <3>1. i + j \in 0..(6 * m - 1)
      BY <1>1, <2>2
    <3>2. Bit(x, 6, i + j) = Bit(s, 8, i + j)
      BY <3>1, Sextets
    <3>3. /\ (i + j) \div 8 = k - 1 /\ (i + j) % 8 = j
          /\ (k - 1) + 1 = k /\ k - 1 < Len(s) /\ 8 - 1 - j = 7 - j
      <4>1. PICK q \in Nat : q = k - 1
        OBVIOUS
      <4>2. i + j = 8 * q + j
        BY <2>2, <4>1
      <4>3. (8 * q + j) \div 8 = q /\ (8 * q + j) % 8 = j
        OBVIOUS
      <4>4. q + 1 = k /\ q < Len(s) /\ 8 - 1 - j = 7 - j
        BY <1>1, <4>1
      <4> QED
        BY <4>1, <4>2, <4>3, <4>4
    <3>4. Bit(s, 8, i + j) = (s[k] \div 2^(7 - j)) % 2
      BY <3>3 DEF Bit
    <3> QED
      BY <2>1, <3>2, <3>4
  <2>4. BitsFrom(x, 6, i, 8) = a
    BY <2>3, EightBits
  <2> QED
    BY <2>1, <2>2, <2>4
<1>3. Regrouped(x, 6, 8, Len(s)) = [k \in 1..n |-> s[k]]
  BY <1>1, <1>2 DEF Regrouped
<1>4. s = [k \in 1..n |-> s[k]]
  BY <1>1
<1> QED
  BY <1>3, <1>4

-------------------------------------------------------------------------------
(* Base64: the letters.                                                    *)

\* The alphabet has 64 letters, all different and none with a meaning of its own.
LEMMA Letters ==
  /\ DOMAIN Alphabet = 1..64
  /\ \A i \in 1..64 : Alphabet[i] \notin {"SP", "CR", "LF", "=", "Host"}
  /\ \A v \in 0..63 : LetterValue(Alphabet[v + 1]) = v
<1>1. DOMAIN Alphabet = 1..64
  BY DEF Alphabet
<1>2. \A i \in 1..64 : Alphabet[i] \notin {"SP", "CR", "LF", "=", "Host"}
  BY DEF Alphabet
<1>3. \A i, j \in 1..64 : Alphabet[i] = Alphabet[j] => i = j
  BY DEF Alphabet
<1>4. ASSUME NEW v \in 0..63 PROVE LetterValue(Alphabet[v + 1]) = v
  <2>1. ASSUME NEW u \in 0..63, Alphabet[u + 1] = Alphabet[v + 1] PROVE u = v
    <3>1. u + 1 \in 1..64 /\ v + 1 \in 1..64
      OBVIOUS
    <3>2. u + 1 = v + 1
      BY <1>3, <2>1, <3>1
    <3> QED
      BY <3>2
  <2> QED
    BY <2>1 DEF LetterValue
<1> QED
  BY <1>1, <1>2, <1>4

\* The number of letters for n bytes.
SextetCount(n) == (8 * n + 5) \div 6

\* How many letters bytes need, and how many signs fill the last group of four.
LEMMA Counts ==
  ASSUME NEW n \in Nat
  PROVE  /\ SextetCount(n) \in Nat /\ 8 * n <= 6 * SextetCount(n)
         /\ (6 * SextetCount(n)) \div 8 = n
         /\ Padding(n) \in 0..2 /\ (SextetCount(n) + Padding(n)) % 4 = 0
<1>1. PICK q \in Nat, r \in 0..2 : n = 3 * q + r /\ n % 3 = r
  <2>1. n \div 3 \in Nat /\ n % 3 \in 0..2 /\ n = 3 * (n \div 3) + (n % 3)
    OBVIOUS
  <2> QED
    BY <2>1
<1>2. CASE r = 0
  BY <1>1, <1>2 DEF SextetCount, Padding
<1>3. CASE r = 1
  BY <1>1, <1>3 DEF SextetCount, Padding
<1>4. CASE r = 2
  BY <1>1, <1>4 DEF SextetCount, Padding
<1> QED
  BY <1>2, <1>3, <1>4

\* The letters of bytes, and the signs after them.
LettersOf(s) ==
  LET sextets == Regrouped(s, 8, 6, SextetCount(Len(s)))
  IN  [k \in DOMAIN sextets |-> Alphabet[sextets[k] + 1]]
Signs(n) == [k \in 1..n |-> "="]

\* There is one letter for each sextet.
LEMMA LettersText ==
  ASSUME NEW s \in Seq(0..255), NEW m \in Nat, m = SextetCount(Len(s)),
         NEW x, x = Regrouped(s, 8, 6, m)
  PROVE  /\ IsText(LettersOf(s)) /\ Len(LettersOf(s)) = m
         /\ \A k \in 1..m : /\ LettersOf(s)[k] = Alphabet[x[k] + 1] /\ x[k] \in 0..63
                            /\ LettersOf(s)[k] \notin {"SP", "CR", "LF", "=", "Host"}
<1>0. IsText(x) /\ Len(x) = m /\ \A k \in 1..m : x[k] \in 0..63
  BY Sextets
<1>1. ASSUME NEW k \in 1..m
      PROVE  x[k] \in 0..63 /\ Alphabet[x[k] + 1] \notin {"SP", "CR", "LF", "=", "Host"}
  <2>1. PICK v \in 0..63 : v = x[k]
    BY <1>0
  <2>2. v + 1 \in 1..64
    OBVIOUS
  <2> QED
    BY <2>1, <2>2, Letters
<1>2. DOMAIN x = 1..m
  BY <1>0, TextAsFunction
<1>3. PICK t : t = LettersOf(s)
  OBVIOUS
<1>4. t = [k \in 1..m |-> Alphabet[x[k] + 1]]
  BY <1>2, <1>3 DEF LettersOf
<1>5. DOMAIN t = 1..m /\ t = [k \in 1..m |-> t[k]]
  BY <1>4
<1>6. IsText(t) /\ Len(t) = m
  BY <1>5, FunctionAsText
<1>7. ASSUME NEW k \in 1..m
      PROVE  /\ t[k] = Alphabet[x[k] + 1] /\ x[k] \in 0..63
             /\ t[k] \notin {"SP", "CR", "LF", "=", "Host"}
  BY <1>1, <1>4
<1> QED
  BY <1>3, <1>6, <1>7

\* Signs are text.
LEMMA SignsText ==
  ASSUME NEW n \in Nat
  PROVE  IsText(Signs(n)) /\ Len(Signs(n)) = n /\ \A k \in 1..n : Signs(n)[k] = "="
<1>1. PICK t : t = Signs(n)
  OBVIOUS
<1>2. DOMAIN t = 1..n /\ t = [k \in 1..n |-> t[k]] /\ \A k \in 1..n : t[k] = "="
  BY <1>1 DEF Signs
<1> QED
  BY <1>1, <1>2, FunctionAsText

\* Base64Encode() writes the broken letters and then the signs.
LEMMA EncodeParts ==
  ASSUME NEW s \in Seq(0..255)
  PROVE  Base64Encode(s) = Join(Broken(LettersOf(s)), Signs(Padding(Len(s))))
BY DEF Base64Encode, LettersOf, SextetCount, Signs, Join

\* Where letters and line feeds are in a broken text.
LEMMA BreakPlaces ==
  ASSUME NEW n \in Nat \ {0}, NEW w \in Nat \ {0},
         NEW k \in 1..(n + ((n - 1) \div w)), k % (w + 1) # 0
  PROVE  k - (k \div (w + 1)) \in 1..n
<1>1. PICK p \in Nat, t \in Nat : p = (n - 1) \div w /\ n - 1 = p * w + t /\ t < w
  <2>1. n - 1 \in Nat
    OBVIOUS
  <2>2. (n - 1) \div w \in Nat /\ (n - 1) % w \in Nat /\ (n - 1) % w < w
    BY <2>1
  <2>3. n - 1 = ((n - 1) \div w) * w + ((n - 1) % w)
    BY <2>1
  <2> QED
    BY <2>2, <2>3
<1>2. PICK q \in Nat, r \in Nat : q = k \div (w + 1) /\ k = q * (w + 1) + r /\ 1 <= r /\ r <= w
  <2>1. k \in Nat /\ w + 1 \in Nat \ {0}
    OBVIOUS
  <2>2. k \div (w + 1) \in Nat /\ k % (w + 1) \in Nat /\ k % (w + 1) < w + 1
    BY <2>1
  <2>3. k = (k \div (w + 1)) * (w + 1) + (k % (w + 1))
    BY <2>1
  <2> QED
    BY <2>2, <2>3
<1>3. PICK x \in Nat : x = q * w
  OBVIOUS
<1>4. k - q = x + r /\ k <= n + p
  BY <1>1, <1>2, <1>3
<1>5. CASE q >= p
  BY <1>2, <1>4, <1>5
<1>6. CASE q < p
  <2>1. PICK d \in Nat : p = q + 1 + d
    <3>1. p - q - 1 \in Nat /\ p = q + 1 + (p - q - 1)
      BY <1>6
    <3> QED
      BY <3>1
  <2>2. PICK y \in Nat : y = d * w
    OBVIOUS
  <2>3. p * w = x + w + y
    BY <1>3, <2>1, <2>2
  <2> QED
    BY <1>1, <1>2, <1>4, <2>2, <2>3
<1> QED
  BY <1>2, <1>5, <1>6

\* Broken letters are letters and line feeds.
LEMMA BrokenText ==
  ASSUME NEW s \in Seq(0..255)
  PROVE  Without(Broken(LettersOf(s)), {"SP", "CR", "=", "Host"})
<1>1. PICK m \in Nat : m = SextetCount(Len(s))
  BY Counts
<1>2. PICK t : t = LettersOf(s)
  OBVIOUS
<1>3. /\ IsText(t) /\ Len(t) = m
      /\ \A k \in 1..m : t[k] \notin {"SP", "CR", "LF", "=", "Host"}
  BY <1>1, <1>2, LettersText
<1>4. PICK n \in Nat : n = m + (IF t = << >> THEN 0 ELSE (m - 1) \div LineWidth)
  <2>1. t # << >> => m - 1 \in Nat
    BY <1>3, TextAsFunction
  <2>2. t # << >> => (m - 1) \div LineWidth \in Nat
    BY <2>1, TextAssumption
  <2> QED
    BY <2>2
<1>5. PICK b : b = Broken(t)
  OBVIOUS
<1>6. b = [k \in 1..n |-> IF k % (LineWidth + 1) = 0 THEN "LF" ELSE t[k - (k \div (LineWidth + 1))]]
  BY <1>3, <1>4, <1>5 DEF Broken
<1>7. IsText(b) /\ DOMAIN b = 1..n
  <2>1. DOMAIN b = 1..n /\ b = [k \in 1..n |-> b[k]]
    BY <1>6
  <2> QED
    BY <2>1, FunctionAsText
<1>8. ASSUME NEW k \in 1..n PROVE b[k] \notin {"SP", "CR", "=", "Host"}
  <2>1. CASE k % (LineWidth + 1) = 0
    BY <1>6, <2>1
  <2>2. CASE k % (LineWidth + 1) # 0
    <3>1. PICK j : j = k - (k \div (LineWidth + 1))
      OBVIOUS
    <3>2. j \in 1..m
      <4>1. m # 0 /\ t # << >>
        BY <1>3, <1>4, TextAsFunction
      <4>2. m \in Nat \ {0} /\ k \in 1..(m + ((m - 1) \div LineWidth))
        BY <1>4, <4>1
      <4>3. LineWidth \in Nat \ {0}
        BY TextAssumption
      <4> QED
        BY <2>2, <3>1, <4>2, <4>3, BreakPlaces
    <3> QED
      BY <1>3, <1>6, <2>2, <3>1, <3>2
  <2> QED
    BY <2>1, <2>2
<1> QED
  BY <1>2, <1>5, <1>7, <1>8 DEF Without, ToSet

\* Up to the width of a line, letters are not broken.
LEMMA UnbrokenText ==
  ASSUME NEW s \in Seq(0..255), Len(s) <= (LineWidth \div 4) * 3
  PROVE  Broken(LettersOf(s)) = LettersOf(s)
<1>1. PICK m \in Nat : m = SextetCount(Len(s))
  BY Counts
<1>2. PICK t : t = LettersOf(s)
  OBVIOUS
<1>3. IsText(t) /\ Len(t) = m
  BY <1>1, <1>2, LettersText
<1>w. PICK q \in Nat, w \in Nat \ {0} : w = LineWidth /\ w = 4 * q /\ q = LineWidth \div 4
  <2>1. LineWidth \in Nat \ {0} /\ LineWidth % 4 = 0
    BY TextAssumption
  <2>2. LineWidth \div 4 \in Nat /\ LineWidth = 4 * (LineWidth \div 4)
    BY <2>1
  <2> QED
    BY <2>1, <2>2
<1>4. m <= w
  <2>1. PICK n \in Nat : n = Len(s)
    OBVIOUS
  <2>2. n <= q * 3 /\ m = (8 * n + 5) \div 6
    BY <1>1, <1>w, <2>1 DEF SextetCount
  <2> QED
    BY <1>w, <2>2
<1>5. IF t = << >> THEN m = 0 ELSE (m - 1) \div w = 0
  <2>1. t = << >> => m = 0
    BY <1>3, TextAsFunction
  <2>2. t # << >> => m >= 1
    BY <1>3, TextAsFunction
  <2>3. m >= 1 => (m - 1) \div w = 0
    BY <1>4
  <2> QED
    BY <2>1, <2>2, <2>3
<1>6. ASSUME NEW k \in 1..m PROVE k % (w + 1) # 0 /\ k - (k \div (w + 1)) = k
  <2>0. k \in Nat \ {0} /\ k <= w
    BY <1>4
  <2>1. k \div (w + 1) = 0 /\ k % (w + 1) = k
    BY <2>0
  <2> QED
    BY <2>1
<1>7. Broken(t) = [k \in 1..m |-> IF k % (w + 1) = 0 THEN "LF" ELSE t[k - (k \div (w + 1))]]
  <2>1. Len(t) + (IF t = << >> THEN 0 ELSE (Len(t) - 1) \div LineWidth) = m
    BY <1>3, <1>5, <1>w
  <2> QED
    BY <1>w, <2>1 DEF Broken
<1>8. Broken(t) = [k \in 1..m |-> t[k]]
  BY <1>6, <1>7
<1>9. t = [k \in 1..m |-> t[k]]
  BY <1>2, <1>1, Sextets, TextAsFunction DEF LettersOf
<1> QED
  BY <1>2, <1>8, <1>9

\* Base64 text holds no space, no carriage return and no name of a header.
LEMMA EncodedText ==
  ASSUME NEW s \in Seq(0..255)
  PROVE  Without(Base64Encode(s), {"SP", "CR", "Host"})
<1>1. PICK a, b : a = Broken(LettersOf(s)) /\ b = Signs(Padding(Len(s)))
  OBVIOUS
<1>2. Padding(Len(s)) \in Nat
  <2>1. PICK n \in Nat : n = Len(s)
    OBVIOUS
  <2>2. Padding(n) \in 0..2
    BY <2>1, Counts
  <2> QED
    BY <2>1, <2>2
<1>3. Without(a, {"SP", "CR", "Host"})
  BY <1>1, BrokenText DEF Without
<1>4. Without(b, {"SP", "CR", "Host"})
  <2>1. IsText(b) /\ DOMAIN b = 1..Padding(Len(s)) /\ \A k \in 1..Padding(Len(s)) : b[k] = "="
    BY <1>1, <1>2, SignsText, TextAsFunction
  <2> QED
    BY <2>1 DEF Without, ToSet
<1>5. Base64Encode(s) = Join(a, b)
  BY <1>1, EncodeParts
<1> QED
  BY <1>3, <1>4, <1>5, JoinWithout

-------------------------------------------------------------------------------
(* The lines of this protocol.                                             *)

\* What was joined can be cut apart again.
LEMMA JoinedParts ==
  ASSUME NEW a, NEW b, IsText(a), IsText(b), NEW v, v = Join(a, b)
  PROVE  /\ IsText(v) /\ Len(v) = Len(a) + Len(b) /\ DOMAIN v = 1..Len(v)
         /\ \A i \in 1..Len(a) : v[i] = a[i]
         /\ \A i \in 1..Len(b) : v[i + Len(a)] = b[i]
         /\ SubSeq(v, 1, Len(a)) = a /\ SubSeq(v, Len(a) + 1, Len(v)) = b
<1>1. PICK n, m \in Nat : n = Len(a) /\ m = Len(b)
  BY TextAsFunction
<1>2. /\ IsText(v) /\ Len(v) = n + m
      /\ \A i \in 1..(n + m) : v[i] = IF i <= n THEN a[i] ELSE b[i - n]
  BY <1>1, JoinedTokens DEF Join
<1>3. \A i \in 1..n : v[i] = a[i]
  BY <1>2
<1>4. ASSUME NEW i \in 1..m PROVE v[i + n] = b[i]
  <2>1. i + n \in 1..(n + m) /\ ~(i + n <= n) /\ (i + n) - n = i
    OBVIOUS
  <2> QED
    BY <1>2, <2>1
<1>5. DOMAIN v = 1..Len(v)
  BY <1>2, TextAsFunction
<1>6. SubSeq(v, 1, n) = a
  <2>1. PICK p : p = SubSeq(v, 1, n)
    OBVIOUS
  <2>2. IsText(p) /\ Len(p) = n
    BY <1>2, <2>1, CutShorter
  <2>3. ASSUME NEW i \in 1..n PROVE p[i] = a[i]
    <3>1. PICK S : v \in Seq(S)
      BY <1>2 DEF IsText
    <3>2. p[i] = v[i]
      BY <1>2, <2>1, <3>1
    <3> QED
      BY <1>3, <3>2
  <2> QED
    BY <1>1, <2>1, <2>2, <2>3, SameText
<1>7. SubSeq(v, n + 1, Len(v)) = b
  <2>1. PICK p : p = SubSeq(v, n + 1, Len(v))
    OBVIOUS
  <2>2. IsText(p) /\ Len(p) = m
    <3>1. n \in 0..Len(v) /\ Len(v) - n = m
      BY <1>2
    <3> QED
      BY <1>2, <2>1, <3>1, CutShorter
  <2>3. ASSUME NEW i \in 1..m PROVE p[i] = b[i]
    <3>1. PICK S : v \in Seq(S)
      BY <1>2 DEF IsText
    <3>2. p[i] = v[i + n]
      BY <1>2, <2>1, <3>1
    <3> QED
      BY <1>4, <3>2
  <2> QED
    BY <1>1, <2>1, <2>2, <2>3, SameText
<1> QED
  BY <1>1, <1>2, <1>3, <1>4, <1>5, <1>6, <1>7

\* A text of three tokens, and one of two.
LEMMA ThreeTokens ==
  ASSUME NEW a, NEW b, NEW c
  PROVE  /\ IsText(<<a, b, c>>) /\ Len(<<a, b, c>>) = 3 /\ ToSet(<<a, b, c>>) = {a, b, c}
         /\ IsText(<<a, b>>) /\ Len(<<a, b>>) = 2 /\ ToSet(<<a, b>>) = {a, b}
<1>1. <<a, b, c>> \in Seq({a, b, c}) /\ <<a, b>> \in Seq({a, b})
  OBVIOUS
<1>2. IsText(<<a, b, c>>) /\ IsText(<<a, b>>)
  BY <1>1 DEF IsText
<1>3. ToSet(<<a, b, c>>) = {a, b, c} /\ ToSet(<<a, b>>) = {a, b}
  BY DEF ToSet
<1> QED
  BY <1>2, <1>3

\* A field, without the end of its line.
FieldOf(name, value) == Join(<<name, ":", "SP">>, value)

\* Its tokens, its name and its value.
LEMMA FieldTokens ==
  ASSUME NEW name, NEW value, IsText(value), NEW f, f = FieldOf(name, value)
  PROVE  /\ FieldLine(name, value) = Join(f, CRLF)
         /\ IsText(f) /\ f # << >> /\ f[1] = name /\ Value(f) = value
         /\ value # << >> => IsField(f)
         /\ \A E : Without(value, E) /\ E \cap {name, ":", "SP"} = {} => Without(f, E)
<1>1. PICK a : a = <<name, ":", "SP">>
  OBVIOUS
<1>2. IsText(a) /\ Len(a) = 3 /\ ToSet(a) = {name, ":", "SP"}
  BY <1>1, ThreeTokens
<1>3. f = Join(a, value)
  BY <1>1 DEF FieldOf
<1>4. Len(value) \in Nat /\ (value = << >> <=> Len(value) = 0)
  BY TextAsFunction
<1>5. /\ IsText(f) /\ Len(f) = 3 + Len(value)
      /\ \A i \in 1..3 : f[i] = a[i]
      /\ SubSeq(f, 4, Len(f)) = value
  <2>2. IsText(a)
    BY <1>2
  <2>3. /\ IsText(f) /\ Len(f) = Len(a) + Len(value)
        /\ \A i \in 1..Len(a) : f[i] = a[i]
        /\ SubSeq(f, Len(a) + 1, Len(f)) = value
    BY <1>3, <2>2, JoinedParts
  <2>4. Len(a) = 3 /\ Len(a) + 1 = 4
    BY <1>2
  <2> QED
    BY <2>3, <2>4
<1>6. f[1] = name /\ f[2] = ":" /\ f[3] = "SP"
  BY <1>1, <1>5
<1>7. f # << >>
  BY <1>4, <1>5, TextAsFunction
<1>8. Value(f) = value
  BY <1>5 DEF Value
<1>9. value # << >> => IsField(f)
  BY <1>4, <1>5, <1>6 DEF IsField
<1>10. FieldLine(name, value) = Join(f, CRLF)
  BY DEF FieldLine, FieldOf, Join
<1>11. ASSUME NEW E, Without(value, E), E \cap {name, ":", "SP"} = {}
       PROVE  Without(f, E)
  <2>1. Without(a, E)
    BY <1>2, <1>11 DEF Without
  <2> QED
    BY <1>3, <1>11, <2>1, JoinWithout
<1> QED
  BY <1>5, <1>6, <1>7, <1>8, <1>9, <1>10, <1>11

\* The end of a line is text.
LEMMA LineEnd == IsText(CRLF) /\ CRLF # << >>
BY ThreeTokens, TextAsFunction DEF CRLF

\* A field before a head is one more field of it.
LEMMA HoldsField ==
  ASSUME NEW name, name \notin {"CR", "LF"}, NEW value, IsLine(value),
         NEW rest, NEW S, HeadHolds(rest, S), \A g \in S : g[1] # name
  PROVE  HeadHolds(Join(FieldLine(name, value), rest), S \cup {FieldOf(name, value)})
<1>1. PICK f : f = FieldOf(name, value)
  OBVIOUS
<1>2. IsText(value) /\ IsText(rest)
  BY DEF IsLine, Without, HeadHolds, Terminated
<1>3. FieldLine(name, value) = Join(f, CRLF) /\ IsText(f) /\ f # << >> /\ f[1] = name
  BY <1>1, <1>2, FieldTokens
<1>4. IsLine(f)
  <2>1. {"CR", "LF"} \cap {name, ":", "SP"} = {}
    OBVIOUS
  <2> QED
    BY <1>1, <1>2, <2>1, FieldTokens DEF IsLine
<1>5. HeadHolds(LineThen(f, rest), S \cup {f})
  BY <1>3, <1>4, HoldsOneMore
<1>6. Join(FieldLine(name, value), rest) = LineThen(f, rest)
  BY <1>2, <1>3, LineEnd, JoinTexts DEF LineThen
<1> QED
  BY <1>1, <1>5, <1>6

\* Text before text that ends with a line feed.
LEMMA TerminatedJoin ==
  ASSUME NEW a, IsText(a), NEW b, Terminated(b), b # << >>
  PROVE  Terminated(Join(a, b)) /\ Join(a, b) # << >>
<1>1. PICK v : v = Join(a, b)
  OBVIOUS
<1>2. IsText(b) /\ b[Len(b)] = "LF"
  BY DEF Terminated
<1>3. Len(a) \in Nat /\ Len(b) \in Nat \ {0}
  BY <1>2, TextAsFunction
<1>4. IsText(v) /\ Len(v) = Len(a) + Len(b) /\ \A i \in 1..Len(b) : v[i + Len(a)] = b[i]
  BY <1>1, <1>2, <1>3, JoinedParts
<1>5. v[Len(v)] = "LF"
  <2>1. Len(b) \in 1..Len(b) /\ Len(v) = Len(b) + Len(a)
    BY <1>3, <1>4
  <2> QED
    BY <1>2, <1>4, <2>1
<1>6. v # << >>
  BY <1>3, <1>4, TextAsFunction
<1> QED
  BY <1>1, <1>4, <1>5, <1>6 DEF Terminated

-------------------------------------------------------------------------------
(* Credentials in a line of a head.                                        *)

\* What is encoded of credentials.
Bytes(auth) == auth.user \o <<58>> \o auth.password

\* What application and engine hold as credentials.
Auths == [user : Seq(0..255), password : Seq(0..255)]

\* It is bytes, as many as Short() counts.
LEMMA BytesLength ==
  ASSUME NEW auth \in Auths
  PROVE  Bytes(auth) \in Seq(0..255) /\ Len(Bytes(auth)) = Len(auth.user) + 1 + Len(auth.password)
<1>1. auth.user \in Seq(0..255) /\ auth.password \in Seq(0..255) /\ <<58>> \in Seq(0..255)
  BY DEF Auths
<1> QED
  BY <1>1 DEF Bytes

\* The value of a field with credentials, and the fields there are for them.
BasicValue(auth) == Join(<<"Basic", "SP">>, Base64Encode(Bytes(auth)))

BasicFields(name, auth) ==
  IF auth.user = << >> THEN {} ELSE {FieldOf(name, BasicValue(auth))}

\* They fit into a line when they are short.
LEMMA BasicValueText ==
  ASSUME NEW auth \in Auths
  PROVE  /\ Without(BasicValue(auth), {"CR", "Host"})
         /\ BasicValue(auth) # << >>
         /\ Short(auth) => IsLine(BasicValue(auth))
<1>1. PICK s \in Seq(0..255) : s = Bytes(auth) /\ Len(s) = Len(auth.user) + 1 + Len(auth.password)
  BY BytesLength
<1>2. PICK a, b : a = <<"Basic", "SP">> /\ b = Base64Encode(s)
  OBVIOUS
<1>3. BasicValue(auth) = Join(a, b)
  BY <1>1, <1>2 DEF BasicValue
<1>4. IsText(a) /\ Len(a) = 2 /\ ToSet(a) = {"Basic", "SP"}
  BY <1>2, ThreeTokens
<1>5. Without(b, {"SP", "CR", "Host"})
  BY <1>2, EncodedText
<1>6. Without(a, {"CR", "Host"}) /\ Without(b, {"CR", "Host"})
  BY <1>4, <1>5 DEF Without
<1>7. Join(a, b) # << >>
  <2>1. IsText(b)
    BY <1>5 DEF Without
  <2>2. PICK t : t = Join(a, b)
    OBVIOUS
  <2>3. IsText(a) /\ Len(b) \in Nat
    BY <1>4, <2>1, TextAsFunction
  <2>4. IsText(t) /\ Len(t) = Len(a) + Len(b)
    BY <2>1, <2>2, <2>3, JoinedParts
  <2>5. Len(t) # 0
    BY <1>4, <2>3, <2>4
  <2> QED
    BY <2>2, <2>4, <2>5, TextAsFunction
<1>8. ASSUME Short(auth) PROVE IsLine(BasicValue(auth))
  <2>1. Len(s) <= (LineWidth \div 4) * 3
    BY <1>1, <1>8 DEF Short
  <2>2. PICK p \in Nat : p = Padding(Len(s))
    <3>1. PICK n \in Nat : n = Len(s)
      OBVIOUS
    <3>2. Padding(n) \in 0..2
      BY <3>1, Counts
    <3> QED
      BY <3>1, <3>2
  <2>3. PICK l, g : l = LettersOf(s) /\ g = Signs(p)
    OBVIOUS
  <2>4. b = Join(l, g)
    BY <1>2, <2>1, <2>2, <2>3, EncodeParts, UnbrokenText
  <2>5. IsText(l) /\ \A k \in 1..Len(l) : l[k] \notin {"SP", "CR", "LF", "=", "Host"}
    <3>1. PICK m \in Nat : m = SextetCount(Len(s))
      BY Counts
    <3> QED
      BY <2>3, <3>1, LettersText
  <2>6. IsText(g) /\ \A k \in 1..Len(g) : g[k] = "="
    BY <2>2, <2>3, SignsText
  <2>7. Without(l, {"CR", "LF"}) /\ Without(g, {"CR", "LF"})
    BY <2>5, <2>6, TextAsFunction DEF Without, ToSet
  <2>8. Without(a, {"CR", "LF"})
    BY <1>4 DEF Without
  <2> QED
    BY <1>3, <2>4, <2>7, <2>8, JoinWithout DEF IsLine
<1> QED
  BY <1>3, <1>6, <1>7, <1>8, JoinWithout

\* The line of short credentials is one field, or nothing without a user.
LEMMA HoldsBasic ==
  ASSUME NEW auth \in Auths, Short(auth), NEW name, name \notin {"CR", "LF"},
         NEW rest, NEW S, HeadHolds(rest, S), \A g \in S : g[1] # name
  PROVE  HeadHolds(Join(BasicLine(name, auth), rest), S \cup BasicFields(name, auth))
<1>1. CASE auth.user = << >>
  <2>1. IsText(rest)
    BY DEF HeadHolds, Terminated
  <2>2. Join(BasicLine(name, auth), rest) = rest
    BY <1>1, <2>1, JoinTexts DEF BasicLine
  <2> QED
    BY <1>1, <2>2 DEF BasicFields
<1>2. CASE auth.user # << >>
  <2>1. BasicLine(name, auth) = FieldLine(name, BasicValue(auth))
    BY <1>2 DEF BasicLine, BasicValue, Bytes, Join
  <2>2. IsLine(BasicValue(auth))
    BY BasicValueText
  <2> QED
    BY <1>2, <2>1, <2>2, HoldsField DEF BasicFields
<1> QED
  BY <1>1, <1>2

\* However long they are, the line is text without a name of a header in it.
LEMMA BasicLineText ==
  ASSUME NEW auth \in Auths, NEW name, name # "Host"
  PROVE  Without(BasicLine(name, auth), {"Host"})
<1>1. CASE auth.user = << >>
  BY <1>1, NothingRead DEF BasicLine
<1>2. CASE auth.user # << >>
  <2>1. PICK v : v = BasicValue(auth)
    OBVIOUS
  <2>2. BasicLine(name, auth) = FieldLine(name, v)
    BY <1>2, <2>1 DEF BasicLine, BasicValue, Bytes, Join
  <2>3. Without(v, {"Host"}) /\ IsText(v)
    BY <2>1, BasicValueText DEF Without
  <2>4. PICK f : f = FieldOf(name, v)
    OBVIOUS
  <2>5. Without(f, {"Host"}) /\ FieldLine(name, v) = Join(f, CRLF)
    <3>1. {"Host"} \cap {name, ":", "SP"} = {}
      OBVIOUS
    <3> QED
      BY <2>3, <2>4, <3>1, FieldTokens
  <2>6. Without(CRLF, {"Host"})
    <3>1. IsText(<<"CR", "LF">>) /\ ToSet(<<"CR", "LF">>) = {"CR", "LF"}
      BY ThreeTokens
    <3> QED
      BY <3>1 DEF CRLF, Without
  <2> QED
    BY <2>2, <2>5, <2>6, JoinWithout
<1> QED
  BY <1>1, <1>2

\* Short credentials come back out of the value of the field.
LEMMA BasicDecoded ==
  ASSUME NEW auth \in Auths, Short(auth), NEW v, v = BasicValue(auth)
  PROVE  /\ SubSeq(v, 1, 2) = <<"Basic", "SP">>
         /\ Len(SubSeq(v, 3, Len(v))) % 4 = 0
         /\ Decoded(SubSeq(v, 3, Len(v))) = Bytes(auth)
<1>1. PICK s \in Seq(0..255) : s = Bytes(auth) /\ Len(s) = Len(auth.user) + 1 + Len(auth.password)
  BY BytesLength
<1>2. PICK n \in Nat : n = Len(s)
  OBVIOUS
<1>3. PICK m \in Nat, p \in Nat : m = SextetCount(n) /\ p = Padding(n) /\ p \in 0..2
  <2>1. SextetCount(n) \in Nat /\ Padding(n) \in 0..2
    BY Counts
  <2> QED
    BY <2>1
<1>4. 8 * n <= 6 * m /\ (6 * m) \div 8 = n /\ (m + p) % 4 = 0
  BY <1>3, Counts
<1>5. PICK l, g : l = LettersOf(s) /\ g = Signs(p)
  OBVIOUS
<1>6. PICK code : code = Base64Encode(s)
  OBVIOUS
<1>7. code = Join(l, g)
  <2>1. Len(s) <= (LineWidth \div 4) * 3
    BY <1>1 DEF Short
  <2> QED
    BY <1>2, <1>3, <1>5, <1>6, <2>1, EncodeParts, UnbrokenText
<1>8. PICK x : x = Regrouped(s, 8, 6, m)
  OBVIOUS
<1>9. /\ IsText(l) /\ Len(l) = m
      /\ \A k \in 1..m : l[k] = Alphabet[x[k] + 1] /\ x[k] \in 0..63 /\ l[k] # "="
  BY <1>2, <1>3, <1>5, <1>8, LettersText
<1>10. IsText(g) /\ Len(g) = p /\ \A k \in 1..p : g[k] = "="
  BY <1>5, SignsText
<1>11. /\ IsText(code) /\ Len(code) = m + p /\ DOMAIN code = 1..Len(code)
       /\ \A i \in 1..m : code[i] = l[i]
       /\ \A i \in 1..p : code[i + m] = g[i]
       /\ SubSeq(code, 1, m) = l
  <2>1. m = Len(l) /\ IsText(l) /\ IsText(g)
    BY <1>9, <1>10
  <2>2. /\ IsText(code) /\ Len(code) = m + Len(g) /\ DOMAIN code = 1..Len(code)
        /\ \A i \in 1..m : code[i] = l[i]
        /\ \A i \in 1..Len(g) : code[i + m] = g[i]
        /\ SubSeq(code, 1, m) = l
    BY <1>7, <2>1, JoinedParts
  <2> QED
    BY <1>10, <2>2
<1>12. SubSeq(v, 1, 2) = <<"Basic", "SP">> /\ SubSeq(v, 3, Len(v)) = code
  <2>1. PICK a : a = <<"Basic", "SP">>
    OBVIOUS
  <2>2. IsText(a) /\ Len(a) = 2
    BY <2>1, ThreeTokens
  <2>3. v = Join(a, code)
    BY <1>1, <1>6, <2>1 DEF BasicValue
  <2>4. IsText(code) /\ IsText(a)
    BY <1>11, <2>2
  <2>5. SubSeq(v, 1, Len(a)) = a /\ SubSeq(v, Len(a) + 1, Len(v)) = code
    BY <2>3, <2>4, JoinedParts
  <2>6. Len(a) = 2 /\ Len(a) + 1 = 3
    BY <2>2
  <2> QED
    BY <2>1, <2>5, <2>6
<1>13. Cardinality({i \in DOMAIN code : code[i] # "="}) = m
  <2>1. {i \in DOMAIN code : code[i] # "="} = 1..m
    <3>1. ASSUME NEW i \in 1..m PROVE i \in DOMAIN code /\ code[i] # "="
      BY <1>9, <1>11
    <3>2. ASSUME NEW i \in DOMAIN code, i \notin 1..m PROVE code[i] = "="
      <4>1. i - m \in 1..p /\ i = (i - m) + m
        BY <1>11, <3>2
      <4> QED
        BY <1>10, <1>11, <4>1
    <3> QED
      BY <3>1, <3>2
  <2>2. Cardinality(1..m) = m
    BY FS_Interval
  <2> QED
    BY <2>1, <2>2
<1>14. [i \in DOMAIN l |-> LetterValue(l[i])] = x
  <2>1. DOMAIN l = 1..m
    BY <1>9, TextAsFunction
  <2>2. ASSUME NEW k \in 1..m PROVE LetterValue(l[k]) = x[k]
    BY <1>9, Letters
  <2>3. x = [k \in 1..m |-> x[k]]
    BY <1>8 DEF Regrouped
  <2> QED
    BY <2>1, <2>2, <2>3
<1>15. Regrouped(x, 6, 8, n) = s
  BY <1>2, <1>4, <1>8, BytesAgain
<1>16. Decoded(code) = s
  BY <1>4, <1>9, <1>11, <1>13, <1>14, <1>15 DEF Decoded
<1> QED
  BY <1>1, <1>4, <1>11, <1>12, <1>16

-------------------------------------------------------------------------------
(* What the server finds in a text of this protocol.                       *)

\* A request line.
RequestLine(word, target) == Join(<<word, "SP">>, Join(target, <<"SP", "HTTP/1.0">>))

\* A request line of three words: the middle one is the target.
LEMMA ThreeWords ==
  ASSUME NEW word, word \notin Separators, NEW target, Without(target, Separators),
         NEW l, l = RequestLine(word, target)
  PROVE  /\ IsLine(l) /\ l # << >> /\ RequestTarget(l) = target
         /\ Cardinality({i \in DOMAIN l : l[i] = "SP"}) = 2
<1>1. PICK w, v : w = <<word, "SP">> /\ v = <<"SP", "HTTP/1.0">>
  OBVIOUS
<1>2. IsText(target) /\ ToSet(target) \cap {"SP", "CR", "LF"} = {}
  BY DEF Without, Separators
<1>3. PICK n \in Nat : n = Len(target)
  BY <1>2, TextAsFunction
<1>4. IsText(w) /\ IsText(v)
  BY <1>1, ThreeTokens
<1>5. Len(w) = 2 /\ ToSet(w) = {word, "SP"} /\ Len(v) = 2 /\ ToSet(v) = {"SP", "HTTP/1.0"}
  BY <1>1, ThreeTokens
<1>6. PICK r : r = Join(target, v)
  OBVIOUS
<1>7. /\ IsText(r) /\ Len(r) = Len(target) + Len(v)
      /\ \A i \in 1..Len(target) : r[i] = target[i]
      /\ \A i \in 1..Len(v) : r[i + Len(target)] = v[i]
  BY <1>2, <1>4, <1>6, JoinedParts
<1>8. l = Join(w, r)
  BY <1>1, <1>6 DEF RequestLine
<1>9. IsText(r)
  BY <1>7
<1>10. /\ IsText(l) /\ Len(l) = Len(w) + Len(r) /\ DOMAIN l = 1..Len(l)
       /\ \A i \in 1..Len(w) : l[i] = w[i]
       /\ \A i \in 1..Len(r) : l[i + Len(w)] = r[i]
  BY <1>4, <1>8, <1>9, JoinedParts
<1>11. Len(r) = n + 2 /\ Len(l) = n + 4 /\ DOMAIN l = 1..(n + 4)
  BY <1>3, <1>5, <1>7, <1>10
<1>12. l[1] = word /\ l[2] = "SP"
  BY <1>1, <1>5, <1>10
<1>13. ASSUME NEW i \in 1..n PROVE l[i + 2] = target[i]
  BY <1>3, <1>5, <1>7, <1>10, <1>11
<1>14. l[n + 3] = "SP" /\ l[n + 4] = "HTTP/1.0"
  <2>1. r[1 + n] = v[1] /\ r[2 + n] = v[2]
    BY <1>3, <1>5, <1>7
  <2>2. l[(1 + n) + 2] = r[1 + n] /\ l[(2 + n) + 2] = r[2 + n]
    BY <1>5, <1>10, <1>11
  <2>3. (1 + n) + 2 = n + 3 /\ (2 + n) + 2 = n + 4
    OBVIOUS
  <2> QED
    BY <1>1, <2>1, <2>2, <2>3
<1>15. ASSUME NEW i \in 1..n PROVE target[i] \notin {"SP", "CR", "LF"}
  BY <1>2, <1>3, TextAsFunction DEF ToSet
<1>16. {i \in DOMAIN l : l[i] = "SP"} = {2, n + 3}
  <2>1. ASSUME NEW i \in 1..(n + 4), l[i] = "SP" PROVE i \in {2, n + 3}
    <3>1. i = 1 \/ i = 2 \/ i - 2 \in 1..n \/ i = n + 3 \/ i = n + 4
      OBVIOUS
    <3>2. i # 1
      BY <1>12, <2>1 DEF Separators
    <3>3. i # n + 4
      BY <1>14, <2>1
    <3>4. i - 2 \notin 1..n
      <4>1. ASSUME i - 2 \in 1..n PROVE FALSE
        <5>1. l[(i - 2) + 2] = target[i - 2] /\ target[i - 2] # "SP"
          BY <1>13, <1>15, <4>1
        <5>2. (i - 2) + 2 = i
          OBVIOUS
        <5> QED
          BY <2>1, <5>1, <5>2
      <4> QED
        BY <4>1
    <3> QED
      BY <3>1, <3>2, <3>3, <3>4
  <2>2. 2 \in 1..(n + 4) /\ n + 3 \in 1..(n + 4)
    OBVIOUS
  <2> QED
    BY <1>11, <1>12, <1>14, <2>1, <2>2
<1>17. Cardinality({2, n + 3}) = 2
  <2>0. n + 3 \notin {2}
    OBVIOUS
  <2>1. Cardinality({2}) = 1 /\ IsFiniteSet({2}) /\ n + 3 \notin {2}
    BY <2>0, FS_Singleton
  <2>2. Cardinality({2} \cup {n + 3}) = 2
    BY <2>1, FS_AddElement
  <2>3. {2} \cup {n + 3} = {2, n + 3}
    OBVIOUS
  <2> QED
    BY <2>2, <2>3
<1>18. RequestTarget(l) = target
  <2>1. (CHOOSE i \in {2, n + 3} : \A j \in {2, n + 3} : i <= j) = 2
    OBVIOUS
  <2>2. (CHOOSE i \in {2, n + 3} : \A j \in {2, n + 3} : j <= i) = n + 3
    OBVIOUS
  <2>3. RequestTarget(l) = SubSeq(l, 3, n + 2)
    <3>1. 2 + 1 = 3 /\ (n + 3) - 1 = n + 2
      OBVIOUS
    <3>2. RequestTarget(l) =
            SubSeq(l, (CHOOSE i \in {2, n + 3} : \A j \in {2, n + 3} : i <= j) + 1,
                      (CHOOSE i \in {2, n + 3} : \A j \in {2, n + 3} : j <= i) - 1)
      BY <1>16 DEF RequestTarget
    <3> QED
      BY <2>1, <2>2, <3>1, <3>2
  <2>4. PICK p : p = SubSeq(l, 3, n + 2)
    OBVIOUS
  <2>5. PICK S : l \in Seq(S)
    BY <1>10 DEF IsText
  <2>6. p \in Seq(S) /\ Len(p) = n /\ \A i \in 1..n : p[i] = l[i + 2]
    BY <1>11, <2>4, <2>5
  <2>7. IsText(p)
    BY <2>6 DEF IsText
  <2> QED
    BY <1>2, <1>3, <1>13, <2>3, <2>4, <2>6, <2>7, SameText
<1>19. IsLine(l)
  <2>1. ASSUME NEW i \in 1..(n + 4) PROVE l[i] \notin {"CR", "LF"}
    <3>1. i = 1 \/ i = 2 \/ i - 2 \in 1..n \/ i = n + 3 \/ i = n + 4
      OBVIOUS
    <3>2. CASE i - 2 \in 1..n
      <4>1. l[(i - 2) + 2] = target[i - 2] /\ target[i - 2] \notin {"CR", "LF"}
        BY <1>13, <1>15, <3>2
      <4>2. (i - 2) + 2 = i
        OBVIOUS
      <4> QED
        BY <4>1, <4>2
    <3> QED
      BY <1>12, <1>14, <3>1, <3>2 DEF Separators
  <2> QED
    BY <1>10, <1>11, <2>1 DEF IsLine, Without, ToSet
<1>20. l # << >>
  BY <1>10, <1>11, TextAsFunction
<1> QED
  BY <1>16, <1>17, <1>18, <1>19, <1>20

\* The head a server finds: the request line, and the head of what follows it.
LEMMA HeadFound ==
  ASSUME NEW l, l # << >>, IsLine(l), NEW rest, Terminated(rest),
         NEW text, text = LineThen(l, rest), NEW d \in Nat, d = Len(l) + 2,
         NEW head, head = HeadOf(text)
  PROVE  /\ head[1] = l /\ Fields(head) = Moved(InHead(rest), d)
         /\ \A i \in InHead(rest) : head[i + d] = LineAt(rest, i)
<1>1. /\ InHead(text) = {1} \cup Moved(InHead(rest), d)
      /\ LineAt(text, 1) = l /\ \A i \in InHead(rest) : LineAt(text, i + d) = LineAt(rest, i)
      /\ InHead(rest) \subseteq Nat \ {0}
  BY LineBefore
<1>2. DOMAIN head = InHead(text) /\ \A i \in InHead(text) : head[i] = LineAt(text, i)
  BY HeadAsSet
<1>3. 1 \notin Moved(InHead(rest), d)
  <2>1. ASSUME NEW i \in InHead(rest) PROVE i + d # 1
    <3>1. i \in Nat \ {0} /\ d >= 2
      <4>1. Len(l) \in Nat
        BY TextAsFunction DEF IsLine, Without
      <4> QED
        BY <1>1, <4>1
    <3> QED
      BY <3>1
  <2> QED
    BY <2>1 DEF Moved
<1>4. ASSUME NEW i \in InHead(rest) PROVE i + d \in InHead(text)
  BY <1>1 DEF Moved
<1> QED
  BY <1>1, <1>2, <1>3, <1>4 DEF Fields

\* So its fields are the lines of the head of what follows, by name and by value.
LEMMA FieldsFound ==
  ASSUME NEW l, l # << >>, IsLine(l), NEW rest, NEW S, HeadHolds(rest, S),
         NEW head, head = HeadOf(LineThen(l, rest))
  PROVE  /\ head[1] = l
         /\ \A i \in Fields(head) :
              head[i] \in S /\ \A j \in Fields(head) : head[j][1] = head[i][1] => i = j
         /\ \A name : Named(head, name) = {Value(f) : f \in {g \in S : g[1] = name}}
<1>1. PICK d \in Nat : d = Len(l) + 2
  BY TextAsFunction DEF IsLine, Without
<1>2. /\ head[1] = l /\ Fields(head) = Moved(InHead(rest), d)
      /\ \A i \in InHead(rest) : head[i + d] = LineAt(rest, i)
  BY <1>1, HeadFound DEF HeadHolds
<1>3. /\ S = {LineAt(rest, i) : i \in InHead(rest)}
      /\ \A i, j \in InHead(rest) : LineAt(rest, j)[1] = LineAt(rest, i)[1] => i = j
  BY DEF HeadHolds, HeadLinesOf, OneOfEachName
<1>4. ASSUME NEW i \in Fields(head)
      PROVE  \E k \in InHead(rest) : i = k + d /\ head[i] = LineAt(rest, k)
  BY <1>2 DEF Moved
<1>5. ASSUME NEW f \in S PROVE \E i \in Fields(head) : head[i] = f
  <2>1. PICK k \in InHead(rest) : f = LineAt(rest, k)
    BY <1>3
  <2>2. k + d \in Fields(head) /\ head[k + d] = f
    BY <1>2, <2>1 DEF Moved
  <2> QED
    BY <2>2
<1>6. ASSUME NEW i \in Fields(head) PROVE head[i] \in S
  BY <1>3, <1>4
<1>7. ASSUME NEW i \in Fields(head), NEW j \in Fields(head), head[j][1] = head[i][1]
      PROVE  i = j
  <2>1. PICK k \in InHead(rest) : i = k + d /\ head[i] = LineAt(rest, k)
    BY <1>4
  <2>2. PICK m \in InHead(rest) : j = m + d /\ head[j] = LineAt(rest, m)
    BY <1>4
  <2>3. k = m
    BY <1>3, <1>7, <2>1, <2>2
  <2> QED
    BY <2>1, <2>2, <2>3
<1>8. ASSUME NEW name
      PROVE  Named(head, name) = {Value(f) : f \in {g \in S : g[1] = name}}
  <2>1. ASSUME NEW v \in Named(head, name)
        PROVE  v \in {Value(f) : f \in {g \in S : g[1] = name}}
    <3>1. PICK i \in Fields(head) : head[i][1] = name /\ v = Value(head[i])
      BY <2>1 DEF Named
    <3> QED
      BY <1>6, <3>1
  <2>2. ASSUME NEW f \in S, f[1] = name PROVE Value(f) \in Named(head, name)
    <3>1. PICK i \in Fields(head) : head[i] = f
      BY <1>5
    <3> QED
      BY <2>2, <3>1 DEF Named
  <2> QED
    BY <2>1, <2>2
<1> QED
  BY <1>2, <1>6, <1>7, <1>8

\* A line of a head starts with a token of the text.
LEMMA NotNamed ==
  ASSUME NEW rest, Terminated(rest), NEW name, Without(rest, {name}), NEW i \in InHead(rest)
  PROVE  LineAt(rest, i)[1] # name
<1>1. i \in Starts(rest) /\ (LineAt(rest, i) = << >> => i < i)
  BY DEF InHead
<1>2. IsText(rest) /\ Len(rest) \in Nat /\ DOMAIN rest = 1..Len(rest)
  BY TextAsFunction DEF Without
<1>3. Ends(rest) \subseteq 1..Len(rest)
  BY <1>2 DEF Ends
<1>4. i \in Nat \ {0}
  BY <1>1, <1>3 DEF Starts
<1>5. LineAt(rest, i) # << >>
  BY <1>1, <1>4
<1>6. PICK e \in 1..Len(rest) : e = EndOf(rest, i) /\ i <= e
  BY <1>1, <1>3, EndExists
<1>7. PICK b \in Int : LineAt(rest, i) = SubSeq(rest, i, b) /\ b <= e
  <2>1. LineAt(rest, i) =
          SubSeq(rest, i, IF i <= e - 1 /\ rest[e - 1] = "CR" THEN e - 1 - 1 ELSE e - 1)
    BY <1>6 DEF LineAt
  <2>2. e - 1 \in Int /\ e - 1 <= e /\ e - 1 - 1 \in Int /\ e - 1 - 1 <= e
    BY <1>2, <1>6
  <2>3. CASE i <= e - 1 /\ rest[e - 1] = "CR"
    BY <2>1, <2>2, <2>3
  <2>4. CASE ~(i <= e - 1 /\ rest[e - 1] = "CR")
    BY <2>1, <2>2, <2>4
  <2> QED
    BY <2>3, <2>4
<1>8. PICK T : rest \in Seq(T)
  BY <1>2 DEF IsText
<1>9. i <= b
  BY <1>4, <1>5, <1>6, <1>7, <1>8
<1>10. LineAt(rest, i)[1] = rest[i]
  BY <1>4, <1>6, <1>7, <1>8, <1>9
<1>11. rest[i] \in ToSet(rest)
  BY <1>2, <1>4, <1>6 DEF ToSet
<1> QED
  BY <1>10, <1>11 DEF Without

\* A field the name of which does not come again is the only one of its name.
LEMMA OnlyOne ==
  ASSUME NEW l, l # << >>, IsLine(l), NEW f, f # << >>, IsLine(f),
         NEW rest, Terminated(rest), Without(rest, {f[1]}),
         NEW head, head = HeadOf(LineThen(l, LineThen(f, rest)))
  PROVE  head[1] = l /\ Named(head, f[1]) = {Value(f)}
<1>1. PICK d \in Nat, c \in Nat : d = Len(l) + 2 /\ c = Len(f) + 2
  <2>1. Len(l) \in Nat /\ Len(f) \in Nat
    BY TextAsFunction DEF IsLine, Without
  <2> QED
    BY <2>1
<1>2. PICK t : t = LineThen(f, rest)
  OBVIOUS
<1>3. /\ Terminated(t) /\ InHead(t) = {1} \cup Moved(InHead(rest), c)
      /\ LineAt(t, 1) = f /\ \A i \in InHead(rest) : LineAt(t, i + c) = LineAt(rest, i)
  BY <1>1, <1>2, LineBefore
<1>4. /\ head[1] = l /\ Fields(head) = Moved(InHead(t), d)
      /\ \A i \in InHead(t) : head[i + d] = LineAt(t, i)
  <2>1. PICK text : text = LineThen(l, t)
    OBVIOUS
  <2>2. head = HeadOf(text) /\ Terminated(t) /\ d = Len(l) + 2
    BY <1>1, <1>2, <1>3, <2>1
  <2> QED
    BY <2>1, <2>2, HeadFound
<1>5. ASSUME NEW i \in InHead(t), LineAt(t, i)[1] = f[1] PROVE i = 1
  <2>1. ASSUME NEW k \in InHead(rest), i = k + c PROVE FALSE
    BY <1>3, <1>5, <2>1, NotNamed
  <2> QED
    BY <1>3, <2>1 DEF Moved
<1>6. {k \in Fields(head) : head[k][1] = f[1]} = {1 + d}
  <2>1. 1 + d \in Fields(head) /\ head[1 + d] = f
    BY <1>3, <1>4 DEF Moved
  <2>2. ASSUME NEW k \in Fields(head), head[k][1] = f[1] PROVE k = 1 + d
    <3>1. PICK i \in InHead(t) : k = i + d /\ head[k] = LineAt(t, i)
      BY <1>4 DEF Moved
    <3> QED
      BY <1>5, <2>2, <3>1
  <2> QED
    BY <2>1, <2>2
<1>7. head[1 + d] = f
  BY <1>3, <1>4
<1> QED
  BY <1>4, <1>6, <1>7 DEF Named

-------------------------------------------------------------------------------
(* The two texts, line by line.                                            *)

\* What the server is to be asked for.
AskedFor ==
  IF proxied THEN <<url.scheme, "://", url.host, ":", PortOf(url)>> \o (Path \o url.query)
  ELSE Path \o url.query

\* The credentials of a proxy go to a proxy only.
ProxyAuth == IF proxied THEN proxyauth ELSE NoAuth

\* What follows the Host line of a request, and the request line of CONNECT.
AfterHost ==
  Join(BasicLine("Authorization", httpauth),
    Join(BasicLine("Proxy-Authorization", ProxyAuth),
      Join(FieldLine("Accept", <<"*/*">>),
        Join(FieldLine("Connection", <<"close">>), Join(CRLF, CRLF)))))
AfterConnect == Join(BasicLine("Proxy-Authorization", proxyauth), Join(CRLF, << >>))

\* The target holds no space and no line end.
LEMMA TargetText ==
  ASSUME TypeOK
  PROVE  /\ Without(AskedFor, Separators) /\ Without(<<url.host, ":", PortOf(url)>>, Separators)
         /\ IsText(Path) /\ IsText(url.query) /\ IsLine(<<url.host>>)
<1>1. IsURL(url)
  BY TextAssumption DEF TypeOK
<1>2. url.scheme \notin Separators /\ url.host \notin Separators /\ PortOf(url) \notin Separators
  <2>1. DefaultPort(url.scheme) \notin Separators
    BY DEF DefaultPort, Separators
  <2>2. url.scheme \notin Separators
    BY <1>1 DEF IsURL, Separators
  <2> QED
    BY <1>1, <2>1, <2>2 DEF IsURL, PortOf
<1>3. Without(Path, Separators) /\ Without(url.query, Separators)
  <2>1. Without(url.path, Separators) /\ Without(url.query, Separators)
    BY <1>1 DEF IsURL, Without, IsText
  <2>2. Without(<<"/">>, Separators)
    BY ShortTexts DEF Without, ToSet, Separators
  <2> QED
    BY <2>1, <2>2 DEF Path
<1>4. Without(<<url.scheme, "://", url.host, ":", PortOf(url)>>, Separators)
  <2>1. PICK a, b : a = url.scheme /\ b = url.host
    OBVIOUS
  <2>2. PICK c : c = PortOf(url)
    OBVIOUS
  <2>3. {a, b, c, ":", "://"} \cap Separators = {}
    BY <1>2, <2>1, <2>2 DEF Separators
  <2>4. <<a, "://", b, ":", c>> \in Seq({a, b, c, ":", "://"})
    OBVIOUS
  <2>5. ToSet(<<a, "://", b, ":", c>>) \subseteq {a, b, c, ":", "://"}
    BY DEF ToSet
  <2> QED
    BY <2>1, <2>2, <2>3, <2>4, <2>5 DEF Without, IsText
<1>5. Without(<<url.host, ":", PortOf(url)>>, Separators)
  <2>1. PICK b, c : b = url.host /\ c = PortOf(url)
    OBVIOUS
  <2>2. {b, ":", c} \cap Separators = {}
    BY <1>2, <2>1 DEF Separators
  <2>3. <<b, ":", c>> \in Seq({b, ":", c})
    OBVIOUS
  <2>4. ToSet(<<b, ":", c>>) \subseteq {b, ":", c}
    BY DEF ToSet
  <2> QED
    BY <2>1, <2>2, <2>3, <2>4 DEF Without, IsText
<1>6. Without(Join(Path, url.query), Separators)
  BY <1>3, JoinWithout
<1>7. Without(AskedFor, Separators)
  BY <1>4, <1>6, JoinWithout DEF AskedFor, Join
<1>8. IsLine(<<url.host>>)
  BY <1>2, ShortTexts DEF IsLine, Without, ToSet, Separators
<1> QED
  BY <1>3, <1>5, <1>7, <1>8 DEF Without

\* The credentials engine and response hold.
LEMMA AuthsHeld ==
  ASSUME TypeOK
  PROVE  /\ {httpauth, proxyauth, ProxyAuth, NoAuth} \subseteq Auths
         /\ Short(NoAuth) /\ NoAuth.user = << >>
<1>1. NoAuth \in Auths /\ NoAuth.user = << >>
  BY DEF NoAuth, Auths
<1>2. Credentials \subseteq Auths
  BY TextAssumption DEF Auths
<1>3. httpauth \in Auths /\ proxyauth \in Auths
  BY <1>1, <1>2 DEF TypeOK
<1>4. Short(NoAuth)
  <2>1. PICK q \in Nat : q = LineWidth \div 4 /\ q >= 1
    <3>1. LineWidth \div 4 \in Nat /\ LineWidth \div 4 >= 1
      BY TextAssumption
    <3> QED
      BY <3>1
  <2>2. Len(NoAuth.user) + 1 + Len(NoAuth.password) = 1
    BY DEF NoAuth
  <2>3. 1 <= q * 3
    BY <2>1
  <2> QED
    BY <2>1, <2>2, <2>3 DEF Short
<1> QED
  BY <1>1, <1>3, <1>4 DEF ProxyAuth

\* After ParseURL, "Host" is the only name in the map of headers.
LEMMA OneHeader ==
  ASSUME sendheaders = [name \in {"Host"} |-> <<url.host>>]
  PROVE  HeaderLines = FieldLine("Host", <<url.host>>)
<1>1. DOMAIN sendheaders = {"Host"} /\ sendheaders["Host"] = <<url.host>>
  OBVIOUS
<1>2. PICK names : names = SetToSeq({"Host"})
  OBVIOUS
<1>3. Cardinality({"Host"}) = 1
  BY FS_Singleton
<1>4. \E f \in [1..1 -> {"Host"}] : IsInjective(f)
  <2>1. PICK f : f = [i \in 1..1 |-> "Host"]
    OBVIOUS
  <2>2. f \in [1..1 -> {"Host"}] /\ IsInjective(f)
    BY <2>1 DEF IsInjective
  <2> QED
    BY <2>2
<1>5. names \in [1..1 -> {"Host"}]
  BY <1>2, <1>3, <1>4 DEF SetToSeq
<1>6. DOMAIN names = {1} /\ names[1] = "Host"
  <2>1. 1..1 = {1}
    OBVIOUS
  <2> QED
    BY <1>5, <2>1
<1>7. PICK l : l = FieldLine("Host", <<url.host>>)
  OBVIOUS
<1>8. IsText(l)
  <2>1. PICK f : f = FieldOf("Host", <<url.host>>)
    OBVIOUS
  <2>2. IsText(f) /\ l = Join(f, CRLF)
    BY <1>7, <2>1, ShortTexts, FieldTokens
  <2> QED
    BY <2>2, LineEnd, JoinTexts
<1>9. PICK s : s = <<l>>
  OBVIOUS
<1>10. [i \in DOMAIN names |-> FieldLine(names[i], sendheaders[names[i]])] = s
  <2>1. [i \in {1} |-> FieldLine(names[i], sendheaders[names[i]])] = [i \in {1} |-> l]
    BY <1>1, <1>6, <1>7
  <2>2. [i \in {1} |-> l] = <<l>>
    OBVIOUS
  <2> QED
    BY <1>6, <1>9, <2>1, <2>2
<1>11. HeaderLines = FlattenSeq(s)
  BY <1>1, <1>2, <1>10 DEF HeaderLines
<1>12. /\ AreTexts(s) /\ s # << >> /\ s[1] = l /\ Tail(s) = << >>
  <2>1. Len(s) = 1 /\ s[1] = l /\ s # << >> /\ Tail(s) = << >>
    BY <1>9
  <2>2. IsText(s)
    BY <1>9, ShortTexts
  <2> QED
    BY <1>8, <2>1, <2>2 DEF AreTexts
<1>13. AreTexts(<< >>)
  BY ShortTexts DEF AreTexts
<1>14. FlattenSeq(<< >>) = << >>
  BY <1>13, FlattenFirst
<1>15. FlattenSeq(s) = l \o << >>
  BY <1>12, <1>14, FlattenFirst
<1> QED
  BY <1>7, <1>8, <1>11, <1>15, JoinNothing

\* CONNECT: the request line, the credentials of the proxy, and an empty line.
LEMMA TunnelParts ==
  ASSUME TypeOK, HopReady, TextOfHop, place = "tunnel"
  PROVE  sent = LineThen(RequestLine("CONNECT", <<url.host, ":", PortOf(url)>>), AfterConnect)
<1>1. targeturl = <<url.host, ":", PortOf(url)>> /\ sent = Tunnel
  BY DEF HopReady, TextOfHop
<1>2. PICK w, v : w = <<"CONNECT", "SP">> /\ v = <<"SP", "HTTP/1.0">>
  OBVIOUS
<1>3. PICK p, c : p = BasicLine("Proxy-Authorization", proxyauth) /\ c = CRLF
  OBVIOUS
<1>4. PICK g : g = targeturl
  OBVIOUS
<1>5. IsText(w) /\ IsText(v) /\ IsText(g) /\ IsText(c)
  BY <1>1, <1>2, <1>3, <1>4, ThreeTokens, LineEnd
<1>6. IsText(p)
  BY <1>3, AuthsHeld, BasicLineText DEF Without
<1>7. sent = Join(Join(Join(Join(Join(w, g), v), c), p), c)
  BY <1>1, <1>2, <1>3, <1>4 DEF Tunnel, Join
<1>8. Join(Join(Join(Join(w, g), v), c), p) = Join(w, Join(g, Join(v, Join(c, p))))
  BY <1>5, <1>6, GroupedRight
<1>9. sent = Join(Join(w, Join(g, v)), Join(c, Join(p, Join(c, << >>))))
  BY <1>5, <1>6, <1>7, <1>8, JoinTexts
<1> QED
  BY <1>1, <1>2, <1>3, <1>4, <1>9 DEF LineThen, RequestLine, AfterConnect

\* GET: the request line, the Host line and the other fields, and two line ends.
LEMMA RequestParts ==
  ASSUME TypeOK, HopReady, TextOfHop, place = "answer"
  PROVE  sent = LineThen(RequestLine("GET", AskedFor),
                  Join(FieldLine("Host", <<url.host>>), AfterHost))
<1>1. PICK h, g : /\ h = (IF proxied THEN <<url.scheme, "://", url.host, ":", PortOf(url)>>
                          ELSE << >>)
                  /\ g = AskedFor
  OBVIOUS
<1>2. PICK p, q : p = Path /\ q = url.query
  OBVIOUS
<1>3. PICK w, v, c : w = <<"GET", "SP">> /\ v = <<"SP", "HTTP/1.0">> /\ c = CRLF
  OBVIOUS
<1>4. PICK l : l = FieldLine("Host", <<url.host>>)
  OBVIOUS
<1>5. PICK b, x : /\ b = BasicLine("Authorization", httpauth)
                  /\ x = BasicLine("Proxy-Authorization", ProxyAuth)
  OBVIOUS
<1>6. PICK y, z : y = FieldLine("Accept", <<"*/*">>) /\ z = FieldLine("Connection", <<"close">>)
  OBVIOUS
<1>7. IsText(w) /\ IsText(v) /\ IsText(c) /\ IsText(p) /\ IsText(q)
  BY <1>2, <1>3, ThreeTokens, LineEnd, TargetText
<1>8. IsText(h)
  <2>1. \A d1, d2, d3, d4, d5 : <<d1, d2, d3, d4, d5>> \in Seq({d1, d2, d3, d4, d5})
    OBVIOUS
  <2> QED
    BY <1>1, <2>1, ShortTexts DEF IsText
<1>9. IsText(b) /\ IsText(x)
  BY <1>5, AuthsHeld, BasicLineText DEF Without
<1>10. IsText(l) /\ IsText(y) /\ IsText(z)
  <2>1. ASSUME NEW name, NEW value, IsText(value) PROVE IsText(FieldLine(name, value))
    <3>1. PICK f : f = FieldOf(name, value)
      OBVIOUS
    <3>2. IsText(f) /\ FieldLine(name, value) = Join(f, CRLF)
      BY <2>1, <3>1, FieldTokens
    <3> QED
      BY <3>2, LineEnd, JoinTexts
  <2> QED
    BY <1>4, <1>6, <2>1, ShortTexts
<1>11. g = Join(h, Join(p, q))
  <2>1. IsText(Join(p, q))
    BY <1>7, JoinTexts
  <2> QED
    BY <1>1, <1>2, <2>1, JoinTexts DEF AskedFor, Join
<1>12. /\ path = p /\ url.query = q /\ HeaderLines = l /\ ProxyLine = x
       /\ (IF proxied THEN host ELSE << >>) = h
  <2>1. /\ path = Path /\ host = <<url.scheme, "://", url.host, ":", PortOf(url)>>
        /\ sendheaders = [name \in {"Host"} |-> <<url.host>>]
    BY DEF HopReady
  <2>2. HeaderLines = l
    BY <1>4, <2>1, OneHeader
  <2>3. ProxyLine = x
    BY <1>5 DEF ProxyLine, ProxyAuth, BasicLine, NoAuth
  <2> QED
    BY <1>1, <1>2, <2>1, <2>2, <2>3
<1>13. PICK a : a = Join(Join(Join(Join(w, h), p), q), v)
  OBVIOUS
<1>14. PICK k : k = Join(Join(Join(Join(a, c), l), b), x)
  OBVIOUS
<1>15. sent = Join(Join(Join(Join(k, y), z), c), c)
  <2>1. sent = Request
    BY DEF TextOfHop
  <2> QED
    BY <1>3, <1>5, <1>6, <1>12, <1>13, <1>14, <2>1 DEF Request, Join
<1>16. a = Join(w, Join(h, Join(p, Join(q, v))))
  BY <1>7, <1>8, <1>13, GroupedRight
<1>17. IsText(a) /\ a = Join(w, Join(g, v))
  BY <1>7, <1>8, <1>11, <1>16, JoinTexts
<1>18. k = Join(a, Join(c, Join(l, Join(b, x))))
  BY <1>7, <1>9, <1>10, <1>14, <1>17, GroupedRight
<1>19. IsText(k)
  BY <1>7, <1>9, <1>10, <1>17, <1>18, JoinTexts
<1>20. PICK r : r = Join(y, Join(z, Join(c, c)))
  OBVIOUS
<1>21. IsText(r) /\ sent = Join(k, r)
  BY <1>7, <1>10, <1>15, <1>19, <1>20, GroupedRight, JoinTexts
<1>22. Join(k, r) = Join(a, Join(c, Join(l, Join(b, Join(x, r)))))
  BY <1>7, <1>9, <1>10, <1>17, <1>18, <1>21, JoinTexts
<1> QED
  BY <1>1, <1>3, <1>4, <1>5, <1>6, <1>17, <1>20, <1>21, <1>22
     DEF LineThen, RequestLine, AfterHost

-------------------------------------------------------------------------------
(* The head of each of them.                                               *)

\* What comes after the Host line, whatever the credentials: text that ends with a
\* line feed and names no Host again.
LEMMA NoOtherHost ==
  ASSUME TypeOK
  PROVE  /\ Terminated(AfterHost) /\ Without(AfterHost, {"Host"})
         /\ Terminated(AfterConnect)
<1>1. PICK b, x, p : /\ b = BasicLine("Authorization", httpauth)
                     /\ x = BasicLine("Proxy-Authorization", ProxyAuth)
                     /\ p = BasicLine("Proxy-Authorization", proxyauth)
  OBVIOUS
<1>2. Without(b, {"Host"}) /\ Without(x, {"Host"}) /\ Without(p, {"Host"})
  BY <1>1, AuthsHeld, BasicLineText
<1>3. PICK c : c = CRLF
  OBVIOUS
<1>4. IsText(c) /\ c # << >> /\ Without(c, {"Host"}) /\ Terminated(c)
  <2>1. IsText(<<"CR", "LF">>) /\ ToSet(<<"CR", "LF">>) = {"CR", "LF"} /\ Len(<<"CR", "LF">>) = 2
    BY ThreeTokens
  <2>2. <<"CR", "LF">>[2] = "LF"
    OBVIOUS
  <2> QED
    BY <1>3, <2>1, <2>2, LineEnd DEF CRLF, Without, Terminated
<1>5. ASSUME NEW name, NEW word, {name, word} \cap {"Host"} = {}
      PROVE  Without(FieldLine(name, <<word>>), {"Host"})
  <2>1. PICK f : f = FieldOf(name, <<word>>)
    OBVIOUS
  <2>2. IsText(<<word>>) /\ Without(<<word>>, {"Host"})
    <3>1. ToSet(<<word>>) = {word}
      BY DEF ToSet
    <3> QED
      BY <1>5, <3>1, ShortTexts DEF Without
  <2>3. {"Host"} \cap {name, ":", "SP"} = {}
    BY <1>5
  <2>4. Without(f, {"Host"}) /\ FieldLine(name, <<word>>) = Join(f, c)
    BY <1>3, <2>1, <2>2, <2>3, FieldTokens
  <2> QED
    BY <1>4, <2>4, JoinWithout
<1>6. PICK y, z : y = FieldLine("Accept", <<"*/*">>) /\ z = FieldLine("Connection", <<"close">>)
  OBVIOUS
<1>7. Without(y, {"Host"}) /\ Without(z, {"Host"})
  BY <1>5, <1>6
<1>8. AfterHost = Join(b, Join(x, Join(y, Join(z, Join(c, c)))))
  BY <1>1, <1>3, <1>6 DEF AfterHost
<1>9. Without(AfterHost, {"Host"})
  BY <1>2, <1>4, <1>7, <1>8, JoinWithout
<1>10. Terminated(AfterHost)
  <2>1. IsText(b) /\ IsText(x) /\ IsText(y) /\ IsText(z)
    BY <1>2, <1>7 DEF Without
  <2> QED
    BY <1>4, <1>8, <2>1, TerminatedJoin
<1>11. Terminated(AfterConnect)
  <2>1. AfterConnect = Join(p, c)
    BY <1>1, <1>3, <1>4, JoinTexts DEF AfterConnect
  <2>2. IsText(p)
    BY <1>2 DEF Without
  <2> QED
    BY <1>4, <2>1, <2>2, TerminatedJoin
<1> QED
  BY <1>9, <1>10, <1>11

\* The fields of the two texts.
ConnectFields == BasicFields("Proxy-Authorization", proxyauth)
RequestFields ==
  BasicFields("Authorization", httpauth) \cup BasicFields("Proxy-Authorization", ProxyAuth)
    \cup {FieldOf("Accept", <<"*/*">>), FieldOf("Connection", <<"close">>),
          FieldOf("Host", <<url.host>>)}

\* They are fields, with the names given to them.
LEMMA FieldNames ==
  /\ \A name, word : /\ IsField(FieldOf(name, <<word>>)) /\ FieldOf(name, <<word>>)[1] = name
  /\ \A name : \A auth \in Auths : \A f \in BasicFields(name, auth) : IsField(f) /\ f[1] = name
<1>1. ASSUME NEW name, NEW word
      PROVE  IsField(FieldOf(name, <<word>>)) /\ FieldOf(name, <<word>>)[1] = name
  <2>1. PICK v, f : v = <<word>> /\ f = FieldOf(name, v)
    OBVIOUS
  <2>2. IsText(v) /\ v # << >>
    BY <2>1, ShortTexts
  <2> QED
    BY <2>1, <2>2, FieldTokens
<1>2. ASSUME NEW name, NEW auth \in Auths, NEW f \in BasicFields(name, auth)
      PROVE  IsField(f) /\ f[1] = name
  <2>1. PICK v : v = BasicValue(auth) /\ f = FieldOf(name, v)
    BY <1>2 DEF BasicFields
  <2>2. IsText(v) /\ v # << >>
    BY <2>1, BasicValueText DEF Without
  <2> QED
    BY <2>1, <2>2, FieldTokens
<1> QED
  BY <1>1, <1>2

\* With short credentials, the head of what follows is those fields, each name once.
LEMMA RequestHead ==
  ASSUME TypeOK, Short(httpauth), Short(proxyauth)
  PROVE  HeadHolds(Join(FieldLine("Host", <<url.host>>), AfterHost), RequestFields)
<1>1. httpauth \in Auths /\ ProxyAuth \in Auths /\ Short(ProxyAuth)
  BY AuthsHeld DEF ProxyAuth
<1>2. PICK y, z, h : /\ y = FieldOf("Accept", <<"*/*">>) /\ z = FieldOf("Connection", <<"close">>)
                     /\ h = FieldOf("Host", <<url.host>>)
  OBVIOUS
<1>3. y[1] = "Accept" /\ z[1] = "Connection" /\ h[1] = "Host"
  BY <1>2, FieldNames
<1>4. PICK B, X : B = BasicFields("Authorization", httpauth)
                  /\ X = BasicFields("Proxy-Authorization", ProxyAuth)
  OBVIOUS
<1>5. (\A f \in B : f[1] = "Authorization") /\ (\A f \in X : f[1] = "Proxy-Authorization")
  BY <1>1, <1>4, FieldNames
<1>6. IsLine(<<"*/*">>) /\ IsLine(<<"close">>) /\ IsLine(<<url.host>>)
  <2>1. IsLine(<<"*/*">>) /\ IsLine(<<"close">>)
    BY ShortTexts DEF IsLine, Without, ToSet
  <2> QED
    BY <2>1, TargetText
<1>7. HeadHolds(Join(CRLF, CRLF), {})
  <2>1. Terminated(CRLF)
    <3>1. IsText(<<"CR", "LF">>) /\ Len(<<"CR", "LF">>) = 2
      BY ThreeTokens
    <3>2. <<"CR", "LF">>[2] = "LF"
      OBVIOUS
    <3> QED
      BY <3>1, <3>2 DEF CRLF, Terminated
  <2> QED
    BY <2>1, HoldsNothing
<1>8. PICK r1 : r1 = Join(FieldLine("Connection", <<"close">>), Join(CRLF, CRLF))
  OBVIOUS
<1>9. HeadHolds(r1, {z})
  <2>1. HeadHolds(r1, {} \cup {z})
    BY <1>2, <1>6, <1>7, <1>8, HoldsField
  <2>2. {} \cup {z} = {z}
    OBVIOUS
  <2> QED
    BY <2>1, <2>2
<1>10. PICK r2 : r2 = Join(FieldLine("Accept", <<"*/*">>), r1)
  OBVIOUS
<1>11. HeadHolds(r2, {z} \cup {y})
  <2>1. \A g \in {z} : g[1] # "Accept"
    BY <1>3
  <2> QED
    BY <1>2, <1>6, <1>9, <1>10, <2>1, HoldsField
<1>12. PICK r3 : r3 = Join(BasicLine("Proxy-Authorization", ProxyAuth), r2)
  OBVIOUS
<1>13. HeadHolds(r3, ({z} \cup {y}) \cup X)
  <2>1. \A g \in {z} \cup {y} : g[1] # "Proxy-Authorization"
    BY <1>3
  <2> QED
    BY <1>1, <1>4, <1>11, <1>12, <2>1, HoldsBasic
<1>14. PICK r4 : r4 = Join(BasicLine("Authorization", httpauth), r3)
  OBVIOUS
<1>15. HeadHolds(r4, (({z} \cup {y}) \cup X) \cup B)
  <2>1. \A g \in ({z} \cup {y}) \cup X : g[1] # "Authorization"
    BY <1>3, <1>5
  <2> QED
    BY <1>1, <1>4, <1>13, <1>14, <2>1, HoldsBasic
<1>16. HeadHolds(Join(FieldLine("Host", <<url.host>>), r4),
                 ((({z} \cup {y}) \cup X) \cup B) \cup {h})
  <2>1. \A g \in (({z} \cup {y}) \cup X) \cup B : g[1] # "Host"
    BY <1>3, <1>5
  <2> QED
    BY <1>2, <1>6, <1>15, <2>1, HoldsField
<1>17. r4 = AfterHost
  BY <1>8, <1>10, <1>12, <1>14 DEF AfterHost
<1>18. ((({z} \cup {y}) \cup X) \cup B) \cup {h} = RequestFields
  BY <1>2, <1>4 DEF RequestFields
<1> QED
  BY <1>16, <1>17, <1>18

\* The same of CONNECT.
LEMMA ConnectHead ==
  ASSUME TypeOK, Short(proxyauth)
  PROVE  HeadHolds(AfterConnect, ConnectFields)
<1>1. HeadHolds(Join(CRLF, << >>), {})
  BY ShortTexts, HoldsNothing DEF Terminated
<1>2. HeadHolds(AfterConnect, {} \cup BasicFields("Proxy-Authorization", proxyauth))
  BY <1>1, AuthsHeld, HoldsBasic DEF AfterConnect
<1> QED
  BY <1>2 DEF ConnectFields

\* The request lines.
LEMMA RequestLines ==
  ASSUME TypeOK, NEW l,
         \/ l = RequestLine("GET", AskedFor)
         \/ l = RequestLine("CONNECT", <<url.host, ":", PortOf(url)>>)
  PROVE  /\ IsLine(l) /\ l # << >> /\ Cardinality({i \in DOMAIN l : l[i] = "SP"}) = 2
         /\ l = RequestLine("GET", AskedFor) => RequestTarget(l) = AskedFor
         /\ l = RequestLine("CONNECT", <<url.host, ":", PortOf(url)>>) =>
              RequestTarget(l) = <<url.host, ":", PortOf(url)>>
<1>1. PICK g, c : g = AskedFor /\ c = <<url.host, ":", PortOf(url)>>
  OBVIOUS
<1>2. Without(g, Separators) /\ Without(c, Separators)
  BY <1>1, TargetText
<1>3. "GET" \notin Separators /\ "CONNECT" \notin Separators
  BY DEF Separators
<1> QED
  BY <1>1, <1>2, <1>3, ThreeWords

\* A text with short credentials in a field of their own name: they arrive.
LEMMA ArriveWhen ==
  ASSUME NEW name, NEW auth \in Auths, Short(auth),
         Named(HeadLines, name) = {Value(f) : f \in BasicFields(name, auth)}
  PROVE  Arrives(name, auth)
<1>1. CASE auth.user = << >>
  BY <1>1 DEF Arrives, BasicFields
<1>2. CASE auth.user # << >>
  <2>1. PICK v, f : v = BasicValue(auth) /\ f = FieldOf(name, v)
    OBVIOUS
  <2>2. Value(f) = v
    <3>1. IsText(v)
      BY <2>1, BasicValueText DEF Without
    <3> QED
      BY <2>1, <3>1, FieldTokens
  <2>3. Named(HeadLines, name) = {v}
    BY <1>2, <2>1, <2>2 DEF BasicFields
  <2>4. /\ SubSeq(v, 1, 2) = <<"Basic", "SP">> /\ Len(SubSeq(v, 3, Len(v))) % 4 = 0
        /\ Decoded(SubSeq(v, 3, Len(v))) = auth.user \o <<58>> \o auth.password
    BY <2>1, BasicDecoded DEF Bytes
  <2>5. v \in Named(HeadLines, name)
    BY <2>3
  <2> QED
    BY <1>2, <2>3, <2>4, <2>5 DEF Arrives
<1> QED
  BY <1>1, <1>2

-------------------------------------------------------------------------------
(* The theorems.                                                           *)

\* In every state of the invariant, the server finds what it should.
LEMMA HopFound ==
  ASSUME TypeOK, HopReady, TextOfHop
  PROVE  HeadWellFormed /\ CredentialsArrive /\ AsksForURL /\ ConnectNamesTarget
<1>1. CASE place = "answer"
  <2>1. PICK l : l = RequestLine("GET", AskedFor)
    OBVIOUS
  <2>2. PICK rest : rest = Join(FieldLine("Host", <<url.host>>), AfterHost)
    OBVIOUS
  <2>3. sent = LineThen(l, rest)
    BY <1>1, <2>1, <2>2, RequestParts
  <2>4. /\ IsLine(l) /\ l # << >> /\ RequestTarget(l) = AskedFor
        /\ Cardinality({i \in DOMAIN l : l[i] = "SP"}) = 2
    BY <2>1, RequestLines
  <2>5. PICK head : head = HeadLines /\ head = HeadOf(LineThen(l, rest))
    BY <2>3 DEF HeadLines
  <2>6. ASSUME Short(httpauth), Short(proxyauth)
        PROVE  /\ \A i \in Fields(head) :
                    head[i] \in RequestFields
                      /\ \A j \in Fields(head) : head[j][1] = head[i][1] => i = j
               /\ \A name : Named(head, name) =
                              {Value(f) : f \in {g \in RequestFields : g[1] = name}}
    <3>1. HeadHolds(rest, RequestFields)
      BY <2>2, <2>6, RequestHead
    <3> QED
      BY <2>4, <2>5, <3>1, FieldsFound
  <2>7. head[1] = l /\ Named(head, "Host") = {<<url.host>>}
    <3>1. PICK f, v : v = <<url.host>> /\ f = FieldOf("Host", v)
      OBVIOUS
    <3>2. IsText(v) /\ IsLine(v)
      BY <3>1, ShortTexts, TargetText
    <3>3. /\ FieldLine("Host", v) = Join(f, CRLF)
          /\ IsText(f) /\ f # << >> /\ f[1] = "Host" /\ Value(f) = v
      BY <3>1, <3>2, FieldTokens
    <3>4. IsLine(f)
      <4>1. {"CR", "LF"} \cap {"Host", ":", "SP"} = {}
        OBVIOUS
      <4> QED
        BY <3>1, <3>2, <4>1, FieldTokens DEF IsLine
    <3>5. PICK t : t = AfterHost /\ Terminated(t) /\ Without(t, {"Host"})
      BY NoOtherHost
    <3>6. rest = LineThen(f, t)
      <4>1. IsText(t)
        BY <3>5 DEF Without
      <4> QED
        BY <2>2, <3>1, <3>3, <3>5, <4>1, LineEnd, JoinTexts DEF LineThen
    <3>7. head = HeadOf(LineThen(l, LineThen(f, t))) /\ Without(t, {f[1]})
      BY <2>5, <3>3, <3>5, <3>6
    <3>8. IsLine(l) /\ l # << >> /\ f # << >> /\ Terminated(t)
      BY <2>4, <3>3, <3>5
    <3>9. head[1] = l /\ Named(head, f[1]) = {Value(f)}
      BY <3>4, <3>7, <3>8, OnlyOne
    <3> QED
      BY <3>1, <3>3, <3>9
  <2>8. HeadWellFormed
    <3>1. ASSUME Short(httpauth), Short(proxyauth), NEW f \in RequestFields
          PROVE  IsField(f)
      BY AuthsHeld, FieldNames DEF RequestFields
    <3> QED
      BY <2>4, <2>5, <2>6, <2>7, <3>1 DEF HeadWellFormed
  <2>9. AsksForURL
    <3>1. AskedFor = IF proxied
                     THEN <<url.scheme, "://", url.host, ":", PortOf(url)>> \o (Path \o url.query)
                     ELSE Path \o url.query
      BY DEF AskedFor
    <3> QED
      BY <2>4, <2>5, <2>7, <3>1 DEF AsksForURL, Path
  <2>10. ASSUME Short(httpauth), Short(proxyauth)
         PROVE  /\ Arrives("Authorization", httpauth)
                /\ Arrives("Proxy-Authorization", ProxyAuth)
    <3>1. httpauth \in Auths /\ ProxyAuth \in Auths /\ Short(ProxyAuth)
      BY <2>10, AuthsHeld DEF ProxyAuth
    <3>2. {g \in RequestFields : g[1] = "Authorization"} = BasicFields("Authorization", httpauth)
      BY <3>1, FieldNames DEF RequestFields
    <3>3. {g \in RequestFields : g[1] = "Proxy-Authorization"} =
            BasicFields("Proxy-Authorization", ProxyAuth)
      BY <3>1, FieldNames DEF RequestFields
    <3> QED
      BY <2>5, <2>6, <2>10, <3>1, <3>2, <3>3, ArriveWhen
  <2>11. CredentialsArrive
    BY <1>1, <2>10 DEF CredentialsArrive, ProxyAuth
  <2>12. ConnectNamesTarget
    BY <1>1 DEF ConnectNamesTarget
  <2> QED
    BY <2>8, <2>9, <2>11, <2>12
<1>2. CASE place = "tunnel"
  <2>1. PICK l : l = RequestLine("CONNECT", <<url.host, ":", PortOf(url)>>)
    OBVIOUS
  <2>2. sent = LineThen(l, AfterConnect)
    BY <1>2, <2>1, TunnelParts
  <2>3. /\ IsLine(l) /\ l # << >> /\ RequestTarget(l) = <<url.host, ":", PortOf(url)>>
        /\ Cardinality({i \in DOMAIN l : l[i] = "SP"}) = 2
    BY <2>1, RequestLines
  <2>4. PICK head : head = HeadLines /\ head = HeadOf(LineThen(l, AfterConnect))
    BY <2>2 DEF HeadLines
  <2>5. ASSUME Short(proxyauth)
        PROVE  /\ \A i \in Fields(head) :
                    head[i] \in ConnectFields
                      /\ \A j \in Fields(head) : head[j][1] = head[i][1] => i = j
               /\ \A name : Named(head, name) =
                              {Value(f) : f \in {g \in ConnectFields : g[1] = name}}
    <3>1. HeadHolds(AfterConnect, ConnectFields)
      BY <2>5, ConnectHead
    <3> QED
      BY <2>3, <2>4, <3>1, FieldsFound
  <2>6. head[1] = l
    <3>1. PICK d \in Nat : d = Len(l) + 2
      BY <2>3, TextAsFunction DEF IsLine, Without
    <3>2. PICK t : t = LineThen(l, AfterConnect)
      OBVIOUS
    <3> QED
      BY <2>3, <2>4, <3>1, <3>2, NoOtherHost, HeadFound
  <2>7. HeadWellFormed
    <3>1. ASSUME NEW f \in ConnectFields PROVE IsField(f)
      BY AuthsHeld, FieldNames DEF ConnectFields
    <3> QED
      BY <2>3, <2>4, <2>5, <2>6, <3>1 DEF HeadWellFormed
  <2>8. ASSUME Short(proxyauth)
        PROVE  /\ Arrives("Authorization", NoAuth)
               /\ Arrives("Proxy-Authorization", proxyauth)
    <3>1. NoAuth \in Auths /\ proxyauth \in Auths /\ Short(NoAuth) /\ NoAuth.user = << >>
      BY AuthsHeld
    <3>2. {g \in ConnectFields : g[1] = "Authorization"} = BasicFields("Authorization", NoAuth)
      <4>1. \A g \in ConnectFields : g[1] = "Proxy-Authorization"
        BY <3>1, FieldNames DEF ConnectFields
      <4> QED
        BY <3>1, <4>1 DEF BasicFields
    <3>3. {g \in ConnectFields : g[1] = "Proxy-Authorization"} =
            BasicFields("Proxy-Authorization", proxyauth)
      BY <3>1, FieldNames DEF ConnectFields
    <3> QED
      BY <2>4, <2>5, <2>8, <3>1, <3>2, <3>3, ArriveWhen
  <2>9. CredentialsArrive
    BY <1>2, <2>8 DEF CredentialsArrive
  <2>10. ConnectNamesTarget
    <3>1. url.scheme = "https"
      BY <1>2 DEF HopReady
    <3>2. PortOf(url) = IF url.port = None THEN "443" ELSE url.port
      BY <3>1 DEF PortOf, DefaultPort
    <3> QED
      BY <2>3, <2>4, <2>6, <3>2 DEF ConnectNamesTarget
  <2>11. AsksForURL
    BY <1>2 DEF AsksForURL
  <2> QED
    BY <2>7, <2>9, <2>10, <2>11
<1>3. CASE place \notin {"tunnel", "answer"}
  BY <1>3 DEF HeadWellFormed, HasText, CredentialsArrive, AsksForURL, ConnectNamesTarget
<1> QED
  BY <1>1, <1>2, <1>3

\* The head the server finds is well formed, for all URLs and all short credentials.
THEOREM HeadsWellFormed == Spec => []HeadWellFormed
BY HopAlways, HopFound, PTL

\* The credentials an application set, and no others, come out of Base64Encode() and
\* the header lines again, byte by byte, at the server and at the proxy.
THEOREM CredentialsAlwaysArrive == Spec => []CredentialsArrive
BY HopAlways, HopFound, PTL

\* Every request is for the URL of its hop, whatever hops came before it and however
\* long the credentials are.
THEOREM AlwaysAsksForURL == Spec => []AsksForURL
BY HopAlways, HopFound, PTL

\* Every CONNECT is for the host and port of its hop.
THEOREM AlwaysNamesTarget == Spec => []ConnectNamesTarget
BY HopAlways, HopFound, PTL
===============================================================================
