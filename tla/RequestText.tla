------------------------------ MODULE RequestText ------------------------------
(***************************************************************************)
(* The text http_engine::send() writes, CONNECT and request, out of the    *)
(* URL, the credentials and what earlier hops left in engine and response; *)
(* and how a server reads it.  How connections come and go is module       *)
(* HttpEngine.                                                             *)
(*                                                                         *)
(* Text is a sequence of tokens: a letter of base64 or a control character *)
(* is one token, and so is a word no property looks into.  User names and  *)
(* passwords are sequences of bytes.  The body and the arguments of a      *)
(* request are always empty: nothing in the library fills them.            *)
(*                                                                         *)
(* A definition whose name ends in Bug is a plausible mistake in the code  *)
(* its unsuffixed twin models; no specification uses it.                   *)
(***************************************************************************)
EXTENDS Integers, SequencesExt

CONSTANTS
  URLs,        \* those that occur: [scheme, host, port, path, query]
  Credentials, \* those an application sets: [user, password]
  ProxyVar,    \* ProxyVar[s]: the host the variable <s>_proxy names, or None
  LineWidth,   \* the literal 72 of it_base64_t
  None         \* no proxy; no port in a URL

\* What a server reads as the end of a word or of a line.
Separators == {"SP", "CR", "LF"}

\* The URLs this module is about hold no space and no line end, as RFC 3986 wants it;
\* the expression send() takes them apart with does not look.
IsURL(u) ==
  /\ u.scheme \in {"http", "https"} /\ {u.host, u.port} \cap Separators = {}
  /\ u.path \in Seq(ToSet(u.path)) /\ u.query \in Seq(ToSet(u.query))
  /\ (ToSet(u.path) \cup ToSet(u.query)) \cap Separators = {}

ASSUME TextAssumption ==
  /\ \A u \in URLs : IsURL(u)
  /\ Credentials \subseteq [user : Seq(0..255), password : Seq(0..255)]
  /\ DOMAIN ProxyVar = {"http", "https"}
  /\ LineWidth \in Nat \ {0} /\ LineWidth % 4 = 0

CRLF == <<"CR", "LF">>

-------------------------------------------------------------------------------
(* Base64Encode().                                                         *)

Alphabet ==
  <<"A","B","C","D","E","F","G","H","I","J","K","L","M","N","O","P","Q","R","S","T","U","V",
    "W","X","Y","Z","a","b","c","d","e","f","g","h","i","j","k","l","m","n","o","p","q","r",
    "s","t","u","v","w","x","y","z","0","1","2","3","4","5","6","7","8","9","+","/">>

\* Bit i of items of the given width, most significant first; 0 past the end.
Bit(items, width, i) ==
  IF i \div width < Len(items)
  THEN (items[(i \div width) + 1] \div 2^(width - 1 - (i % width))) % 2
  ELSE 0

\* The number that n bits from bit i on make.
BitsFrom(items, width, i, n) ==
  LET value[j \in 0..n] == IF j = 0 THEN 0 ELSE 2 * value[j - 1] + Bit(items, width, i + j - 1)
  IN  value[n]

\* The items of one width regrouped into n items of another.
Regrouped(items, width, other, n) ==
  [k \in 1..n |-> BitsFrom(items, width, (k - 1) * other, other)]

\* insert_linebreaks: a line feed between every LineWidth letters.
Broken(letters) ==
  [k \in 1..(Len(letters) + (IF letters = << >> THEN 0 ELSE (Len(letters) - 1) \div LineWidth)) |->
     IF k % (LineWidth + 1) = 0 THEN "LF" ELSE letters[k - (k \div (LineWidth + 1))]]

PaddingBug(n) == 3 - (n % 3)
Padding(n) == (3 - (n % 3)) % 3

Base64Encode(s) ==
  LET sextets == Regrouped(s, 8, 6, (8 * Len(s) + 5) \div 6) IN
  Broken([k \in DOMAIN sextets |-> Alphabet[sextets[k] + 1]])
    \o [k \in 1..Padding(Len(s)) |-> "="]

-------------------------------------------------------------------------------

VARIABLES
  \* http_response
  url, sendheaders, httpauth,
  \* http_engine
  proxyauth,
  path,        \* this->url
  host,        \* this->host
  targeturl,
  secure,      \* http_type is SSL_HTTPS
  proxied,     \* http_proxy is HTTP_PROXY
  place,       \* where send() is, or "idle"
  sent         \* the text written last in this hop

responseVars == <<url, sendheaders, httpauth>>
engineVars == <<proxyauth, path, host, targeturl, secure, proxied>>
vars == <<responseVars, engineVars, place, sent>>

NoAuth == [user |-> << >>, password |-> << >>]

Init ==
  /\ url \in URLs
  /\ sendheaders = << >> /\ httpauth = NoAuth /\ proxyauth = NoAuth
  /\ path = <<"/">> /\ host = << >> /\ targeturl = << >>
  /\ secure = FALSE /\ proxied = FALSE
  /\ place = "idle" /\ sent = << >>

-------------------------------------------------------------------------------
(* The application, between transfers.                                     *)

SetHTTPAuth(auth) ==
  /\ place = "idle"
  /\ httpauth' = auth
  /\ UNCHANGED <<url, sendheaders, engineVars, place, sent>>

SetProxyAuth(auth) ==
  /\ place = "idle"
  /\ proxyauth' = auth
  /\ UNCHANGED <<responseVars, path, host, targeturl, secure, proxied, place, sent>>

\* std::map::insert keeps an entry that is there.
Inserted(m, name, value) ==
  [k \in DOMAIN m \cup {name} |-> IF k \in DOMAIN m THEN m[k] ELSE value]

\* A name that find() does not find is refused.
SetHeader(name, value) ==
  /\ place = "idle"
  /\ sendheaders' =
       IF name \in DOMAIN sendheaders THEN Inserted(sendheaders, name, value) ELSE sendheaders
  /\ UNCHANGED <<url, httpauth, engineVars, place, sent>>

\* setURL and Starttransfer.
Starttransfer(u) ==
  /\ place = "idle" /\ place' = "parse"
  /\ url' = u
  /\ UNCHANGED <<sendheaders, httpauth, engineVars, sent>>

Reset ==
  /\ place = "idle"
  /\ path' = <<"/">> /\ host' = << >> /\ secure' = FALSE /\ proxied' = FALSE
  /\ UNCHANGED <<responseVars, proxyauth, targeturl, place, sent>>

-------------------------------------------------------------------------------
(* send().                                                                 *)

DefaultPort(scheme) == IF scheme = "http" THEN "80" ELSE "443"
PortOfBug(u) == u.port
PortOf(u) == IF u.port = None THEN DefaultPort(u.scheme) ELSE u.port

HostHeaderBug(u) == IF "Host" \in DOMAIN sendheaders THEN sendheaders["Host"] ELSE <<u.host>>
HostHeader(u) == <<u.host>>

\* A proxy is asked for a tunnel first, for https only.
PlaceAfterParseBug(tls, proxy) == IF proxy THEN "connect" ELSE "request"
PlaceAfterParse(tls, proxy) == IF tls /\ proxy THEN "connect" ELSE "request"

ParseURL ==
  /\ place = "parse"
  /\ path' = IF url.path = << >> THEN <<"/">> ELSE url.path
  /\ secure' = (url.scheme = "https")
  /\ host' = <<url.scheme, "://", url.host, ":", PortOf(url)>>
  /\ targeturl' = <<url.host, ":", PortOf(url)>>
  /\ sendheaders' = [name \in DOMAIN sendheaders \cup {"Host"} |->
                       IF name = "Host" THEN HostHeader(url) ELSE sendheaders[name]]
  /\ proxied' = (proxied \/ ProxyVar[url.scheme] # None)
  /\ place' = PlaceAfterParse(secure', proxied')
  /\ UNCHANGED <<url, httpauth, proxyauth, sent>>

FieldLine(name, value) == <<name, ":", "SP">> \o value \o CRLF

BasicLine(name, auth) ==
  IF auth.user = << >> THEN << >>
  ELSE FieldLine(name, <<"Basic", "SP">> \o Base64Encode(auth.user \o <<58>> \o auth.password))

SendConnect ==
  /\ place = "connect" /\ place' = "tunnel"
  /\ sent' = <<"CONNECT", "SP">> \o targeturl \o <<"SP", "HTTP/1.0">> \o CRLF
               \o BasicLine("Proxy-Authorization", proxyauth) \o CRLF
  /\ UNCHANGED <<responseVars, engineVars>>

\* The proxy agrees, and the handshake succeeds.
Tunnelled ==
  /\ place = "tunnel" /\ place' = "request"
  /\ UNCHANGED <<responseVars, engineVars, sent>>

ProxyLineBug == BasicLine("Authorization", proxyauth)
ProxyLine == IF proxied THEN BasicLine("Proxy-Authorization", proxyauth) ELSE << >>

HeaderLines ==
  LET names == SetToSeq(DOMAIN sendheaders) IN
  FlattenSeq([i \in DOMAIN names |-> FieldLine(names[i], sendheaders[names[i]])])

\* The blank line is one line end too many, after "Connection: close" and its own.
SendRequest ==
  /\ place = "request" /\ place' = "answer"
  /\ sent' =
       <<"GET", "SP">> \o (IF proxied THEN host ELSE << >>) \o path \o url.query
         \o <<"SP", "HTTP/1.0">> \o CRLF
         \o HeaderLines \o BasicLine("Authorization", httpauth) \o ProxyLine
         \o FieldLine("Accept", <<"*/*">>) \o FieldLine("Connection", <<"close">>)
         \o CRLF \o CRLF
  /\ UNCHANGED <<responseVars, engineVars>>

\* receive() followed a redirect, or the transfer is over.
FollowRedirect(u) ==
  /\ place = "answer" /\ place' = "parse"
  /\ url' = u /\ sent' = << >>
  /\ UNCHANGED <<sendheaders, httpauth, engineVars>>

End ==
  /\ place \in {"connect", "tunnel", "request", "answer"} /\ place' = "idle"
  /\ sent' = << >>
  /\ UNCHANGED <<responseVars, engineVars>>

Next ==
  \/ \E auth \in Credentials : SetHTTPAuth(auth) \/ SetProxyAuth(auth)
  \/ SetHeader("X-Trace", <<"on">>) \/ SetHeader("Host", <<"other">>)
  \/ \E u \in URLs : Starttransfer(u) \/ FollowRedirect(u)
  \/ Reset
  \/ ParseURL \/ SendConnect \/ Tunnelled \/ SendRequest \/ End

Spec == Init /\ [][Next]_vars

-------------------------------------------------------------------------------
(* How a server reads it.                                                  *)

\* A line ends at a line feed; a carriage return before it is not part of it.
Ends(text) == {i \in DOMAIN text : text[i] = "LF"}
EndOf(text, i) == CHOOSE j \in Ends(text) : i <= j /\ \A k \in Ends(text) : i <= k => j <= k
LineAt(text, i) ==
  LET e == EndOf(text, i) - 1 IN SubSeq(text, i, IF i <= e /\ text[e] = "CR" THEN e - 1 ELSE e)

\* The lines of a text by the place where they start.
Starts(text) == ({1} \cup {j + 1 : j \in Ends(text)}) \ {Len(text) + 1}
Lines(text) == [i \in Starts(text) |-> LineAt(text, i)]

\* The lines before the first empty one: at 1 the request line, then the fields.
HeadOf(text) ==
  LET ls == Lines(text)
      inHead == {i \in DOMAIN ls : \A j \in DOMAIN ls : ls[j] = << >> => i < j}
  IN  [i \in inHead |-> ls[i]]
HeadLines == HeadOf(sent)
Fields(head) == DOMAIN head \ {1}

IsField(l) == Len(l) > 3 /\ l[2] = ":" /\ l[3] = "SP"
Value(l) == SubSeq(l, 4, Len(l))
Named(head, name) == {Value(head[i]) : i \in {k \in Fields(head) : head[k][1] = name}}

\* What the request line asks for: the tokens between its two spaces.
RequestTarget(l) ==
  LET spaces == {i \in DOMAIN l : l[i] = "SP"}
      a == CHOOSE i \in spaces : \A j \in spaces : i <= j
      b == CHOOSE i \in spaces : \A j \in spaces : j <= i
  IN  SubSeq(l, a + 1, b - 1)

\* The bytes that base64 letters stand for; padding fills the last group of four.
LetterValue(c) == CHOOSE v \in 0..63 : Alphabet[v + 1] = c
Decoded(text) ==
  LET letters == SubSeq(text, 1, Cardinality({i \in DOMAIN text : text[i] # "="}))
  IN  Regrouped([i \in DOMAIN letters |-> LetterValue(letters[i])], 6, 8, (6 * Len(letters)) \div 8)

-------------------------------------------------------------------------------
(* Properties.                                                             *)

HasText == place \in {"tunnel", "answer"}

\* Longer credentials are broken into two lines of the head.
Short(auth) == Len(auth.user) + 1 + Len(auth.password) <= (LineWidth \div 4) * 3

\* Every variable stays in its range, and send() is in a tunnel only when TLS goes
\* through a proxy.
TypeOK ==
  /\ url \in URLs
  /\ {httpauth, proxyauth} \subseteq Credentials \cup {NoAuth}
  /\ {secure, proxied} \subseteq BOOLEAN
  /\ place \in {"idle", "parse", "connect", "tunnel", "request", "answer"}
  /\ place \in {"connect", "tunnel"} => secure /\ proxied

\* Whatever credentials the application set, as long as they are short enough, the
\* server finds a request line of three parts and then fields, none of them twice.
HeadWellFormed ==
  HasText /\ Short(httpauth) /\ Short(proxyauth) =>
    LET head == HeadLines IN
    /\ Cardinality({i \in DOMAIN head[1] : head[1][i] = "SP"}) = 2
    /\ \A i \in Fields(head) :
         IsField(head[i]) /\ \A j \in Fields(head) : head[j][1] = head[i][1] => i = j

\* The only field of that name decodes to what the application set last; there is
\* none when it set no user.
Arrives(name, auth) ==
  LET values == Named(HeadLines, name) IN
  IF auth.user = << >> THEN values = {}
  ELSE \E v \in values :
         LET code == SubSeq(v, 3, Len(v)) IN
         /\ values = {v} /\ SubSeq(v, 1, 2) = <<"Basic", "SP">>
         /\ Len(code) % 4 = 0 /\ Decoded(code) = auth.user \o <<58>> \o auth.password

\* User and password arrive unharmed with every request.  Those of the proxy arrive
\* with CONNECT, and with the request of every hop once one has had a proxy; before
\* that no hop sends them.
CredentialsArrive ==
  /\ place = "answer" /\ Short(httpauth) /\ Short(proxyauth) =>
       /\ Arrives("Authorization", httpauth)
       /\ Arrives("Proxy-Authorization", IF proxied THEN proxyauth ELSE NoAuth)
  /\ place = "tunnel" /\ Short(proxyauth) =>
       /\ Arrives("Authorization", NoAuth)
       /\ Arrives("Proxy-Authorization", proxyauth)

\* The request asks for the resource the URL of this hop names, whichever hops came
\* before: an absolute target is that URL with its port spelled out, and to any
\* other Host and path belong.
AsksForURL ==
  place = "answer" =>
    LET head == HeadLines
        resource == (IF url.path = << >> THEN <<"/">> ELSE url.path) \o url.query
    IN  /\ RequestTarget(head[1]) =
             IF proxied THEN <<url.scheme, "://", url.host, ":", PortOf(url)>> \o resource
             ELSE resource
        /\ Named(head, "Host") = {<<url.host>>}

\* The proxy is asked for a tunnel to the host and the port of the URL of this hop.
ConnectNamesTarget ==
  place = "tunnel" =>
    RequestTarget(HeadLines[1]) = <<url.host, ":", IF url.port = None THEN "443" ELSE url.port>>
===============================================================================
