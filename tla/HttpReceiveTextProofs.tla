------------------------- MODULE HttpReceiveTextProofs -------------------------
(***************************************************************************)
(* Theorems about what receive() makes of the text a server sends, for     *)
(* every message, every way the network cuts it, every read size and any   *)
(* number of transfers and redirects: a well-formed head arrives as it was *)
(* sent, and the body arrives in order, nothing missing, doubled or added. *)
(*                                                                         *)
(* The argument is one inductive invariant, Faithful.  Let lost be what    *)
(* the connection will never deliver, and Ahead(lost) the chunk being      *)
(* parsed, what the network still holds and lost, joined.  At every point  *)
(* of receive(), what the parser has of the current part joined to         *)
(* Ahead(lost) is what the server means from that part on.  Each From...   *)
(* below is the message from one of its parts on, each At... the claim for *)
(* one state of the parser, and each ...Advances lemma one case of its     *)
(* switch: a token inside a part moves from Ahead to the part, and a token *)
(* that ends a part shows the part is complete, because no part of a       *)
(* well-formed head holds what ends it (TextLemmas, PartGoesOn and         *)
(* PartEnds).                                                              *)
(***************************************************************************)
EXTENDS HttpReceiveProofs

-------------------------------------------------------------------------------
(* What is still to come, part by part, as the server means it.            *)

LineEnd(rest) == Join(<<"CR">>, Join(<<"LF">>, rest))

\* From the field after the first n on.
FieldLines(m, n) == [i \in 1..(Len(m.headers) - n) |-> FieldLine(m.headers[n + i])]
FromField(m, n) == Join(FlattenSeq(FieldLines(m, n)), Join(Line(<< >>), m.body))

FromValue(m, n) == Join(m.headers[n + 1][2], LineEnd(FromField(m, n + 1)))
FromDescription(m) == Join(m.description, LineEnd(FromField(m, 0)))
FromStatus(m) == Join(m.status, Join(<<"SP">>, FromDescription(m)))
FromVersion(m) == Join(m.version, Join(<<"SP">>, FromStatus(m)))

\* The parts of a message are texts.
LEMMA MessageTexts ==
  ASSUME NEW m, IsMessage(m)
  PROVE  /\ IsText(m.version) /\ IsText(m.status) /\ IsText(m.description) /\ IsText(m.body)
         /\ Len(m.headers) \in Nat /\ DOMAIN m.headers = 1..Len(m.headers)
         /\ \A i \in 1..Len(m.headers) :
              IsText(m.headers[i][1]) /\ IsText(m.headers[i][2]) /\ m.headers[i] \in ToSet(m.headers)
         /\ \A f \in ToSet(m.headers) : \E i \in 1..Len(m.headers) : f = m.headers[i]
<1>1. /\ m.version \in Seq(ToSet(m.version)) /\ m.status \in Seq(ToSet(m.status))
      /\ m.description \in Seq(ToSet(m.description)) /\ m.body \in Seq(ToSet(m.body))
  BY DEF IsMessage
<1>2. IsText(m.version) /\ IsText(m.status) /\ IsText(m.description) /\ IsText(m.body)
  BY <1>1 DEF IsText
<1>3. IsText(m.headers)
  BY DEF IsMessage, IsText
<1>4. Len(m.headers) \in Nat /\ DOMAIN m.headers = 1..Len(m.headers)
  BY <1>3, TextAsFunction
<1>5. \A i \in 1..Len(m.headers) : m.headers[i] \in ToSet(m.headers)
  BY <1>4 DEF ToSet
<1>6. \A f \in ToSet(m.headers) : \E i \in 1..Len(m.headers) : f = m.headers[i]
  BY <1>4 DEF ToSet
<1>7. ASSUME NEW f \in ToSet(m.headers) PROVE IsText(f[1]) /\ IsText(f[2])
  <2>1. f[1] \in Seq(ToSet(f[1])) /\ f[2] \in Seq(ToSet(f[2]))
    BY DEF IsMessage
  <2> QED
    BY <2>1 DEF IsText
<1> QED
  BY <1>2, <1>4, <1>5, <1>6, <1>7

\* The tokens receive() gives a meaning to, as texts.
LEMMA Marks ==
  /\ IsText(<<"CR">>) /\ IsText(<<"LF">>) /\ IsText(<<"SP">>) /\ IsText(<<":">>) /\ IsText(<<"CR", "LF">>)
  /\ Join(<<"CR">>, <<"LF">>) = <<"CR", "LF">> /\ Join(<<":">>, <<"SP">>) = <<":", "SP">>
<1>1. /\ IsText(<<"CR">>) /\ IsText(<<"LF">>) /\ IsText(<<"SP">>) /\ IsText(<<":">>)
  BY ShortTexts
<1>2. Join(<<"CR">>, <<"LF">>) = <<"CR", "LF">> /\ Join(<<":">>, <<"SP">>) = <<":", "SP">>
  BY TwoTokens DEF Join
<1> QED
  BY <1>1, <1>2, TwoTokens

\* A line, and what follows it.
LEMMA LineThen ==
  ASSUME NEW t, NEW rest, IsText(t), IsText(rest)
  PROVE  /\ IsText(LineEnd(rest)) /\ IsText(Line(t))
         /\ Line(t) = Join(t, <<"CR", "LF">>)
         /\ Join(<<"CR", "LF">>, rest) = LineEnd(rest)
<1>1. Line(t) = Join(t, <<"CR", "LF">>)
  BY DEF Line, Join
<1> QED
  BY <1>1, Marks, JoinTexts DEF LineEnd

\* The lines of the fields are texts.
LEMMA FieldLineText ==
  ASSUME NEW f, IsText(f[1]), IsText(f[2])
  PROVE  /\ IsText(FieldLine(f))
         /\ f[3] => FieldLine(f) = Join(Join(Join(f[1], <<":", "SP">>), f[2]), <<"CR", "LF">>)
<1> DEFINE sep == IF f[3] THEN <<":", "SP">> ELSE <<":">>
<1>1. IsText(sep) /\ (f[3] => sep = <<":", "SP">>)
  BY Marks, JoinTexts
<1> HIDE DEF sep
<1>2. IsText(Join(Join(f[1], sep), f[2]))
  BY <1>1, JoinTexts
<1>3. FieldLine(f) = Line(Join(Join(f[1], sep), f[2]))
  BY DEF FieldLine, Join, sep
<1>4. IsText(FieldLine(f)) /\ FieldLine(f) = Join(Join(Join(f[1], sep), f[2]), <<"CR", "LF">>)
  BY <1>2, <1>3, ShortTexts, LineThen
<1> QED
  BY <1>1, <1>4

\* The lines of the fields from n + 1 on are texts, and so is all of them together.
LEMMA FieldLinesTexts ==
  ASSUME NEW m, IsMessage(m), NEW n \in 0..Len(m.headers)
  PROVE  /\ AreTexts(FieldLines(m, n)) /\ Len(FieldLines(m, n)) = Len(m.headers) - n
         /\ \A i \in 1..(Len(m.headers) - n) : FieldLines(m, n)[i] = FieldLine(m.headers[n + i])
         /\ IsText(FlattenSeq(FieldLines(m, n)))
<1>0. Len(m.headers) - n \in Nat
  BY MessageTexts
<1>1. PICK k \in Nat : k = Len(m.headers) - n
  BY <1>0
<1>2. FieldLines(m, n) = [i \in 1..k |-> FieldLine(m.headers[n + i])]
  BY <1>1 DEF FieldLines
<1>3. ASSUME NEW i \in 1..k PROVE IsText(FieldLine(m.headers[n + i]))
  <2>1. n + i \in 1..Len(m.headers)
    BY <1>1, MessageTexts
  <2> QED
    BY <2>1, MessageTexts, FieldLineText
<1>4. /\ IsText(FieldLines(m, n)) /\ Len(FieldLines(m, n)) = k
      /\ \A i \in 1..k : FieldLines(m, n)[i] = FieldLine(m.headers[n + i])
  <2>1. PICK s : s = FieldLines(m, n)
    OBVIOUS
  <2>2. DOMAIN s = 1..k /\ s = [i \in 1..k |-> s[i]] /\ \A i \in 1..k : s[i] = FieldLine(m.headers[n + i])
    BY <1>2, <2>1
  <2> QED
    BY <2>1, <2>2, FunctionAsText
<1>5. AreTexts(FieldLines(m, n))
  BY <1>3, <1>4 DEF AreTexts
<1> QED
  BY <1>1, <1>4, <1>5, FlattenFirst

\* Nothing but the empty line is left of the head.
LEMMA NoFieldLeft ==
  ASSUME NEW m, IsMessage(m)
  PROVE  FromField(m, Len(m.headers)) = LineEnd(m.body) /\ IsText(LineEnd(m.body))
<1>1. Len(m.headers) \in 0..Len(m.headers) /\ Len(m.headers) - Len(m.headers) = 0
  BY MessageTexts
<1>2. AreTexts(FieldLines(m, Len(m.headers))) /\ Len(FieldLines(m, Len(m.headers))) = 0
  BY <1>1, FieldLinesTexts
<1>3. FlattenSeq(FieldLines(m, Len(m.headers))) = << >>
  BY <1>2, TextAsFunction, FlattenFirst DEF AreTexts
<1>4. IsText(m.body) /\ IsText(Line(<< >>)) /\ Line(<< >>) = <<"CR", "LF">>
  BY MessageTexts, ShortTexts, LineThen, JoinTexts, Marks
<1> QED
  BY <1>3, <1>4, JoinTexts, LineThen, ShortTexts DEF FromField

\* One field, and the others.
LEMMA FieldFirst ==
  ASSUME NEW m, IsMessage(m), NEW n \in 0..(Len(m.headers) - 1), m.headers[n + 1][3]
  PROVE  /\ FromField(m, n) = Join(m.headers[n + 1][1], Join(<<":">>, Join(<<"SP">>, FromValue(m, n))))
         /\ IsText(FromField(m, n)) /\ IsText(FromField(m, n + 1)) /\ IsText(FromValue(m, n))
<1>1. /\ Len(m.headers) \in Nat /\ n \in 0..Len(m.headers) /\ n + 1 \in 0..Len(m.headers)
      /\ n + 1 \in 1..Len(m.headers) /\ Len(m.headers) - n # 0
      /\ Len(m.headers) - (n + 1) = (Len(m.headers) - n) - 1
  BY MessageTexts
<1>2. PICK f : f = m.headers[n + 1] /\ IsText(f[1]) /\ IsText(f[2]) /\ f[3]
  BY <1>1, MessageTexts
<1>3. PICK s, t : s = FieldLines(m, n) /\ t = FieldLines(m, n + 1)
  OBVIOUS
<1>4. /\ AreTexts(s) /\ AreTexts(t) /\ IsText(FlattenSeq(s)) /\ IsText(FlattenSeq(t))
      /\ Len(s) = Len(m.headers) - n /\ Len(t) = Len(s) - 1
      /\ \A i \in 1..Len(s) : s[i] = FieldLine(m.headers[n + i])
      /\ \A i \in 1..Len(t) : t[i] = FieldLine(m.headers[(n + 1) + i])
  <2>1. /\ AreTexts(s) /\ IsText(FlattenSeq(s)) /\ Len(s) = Len(m.headers) - n
        /\ \A i \in 1..(Len(m.headers) - n) : s[i] = FieldLine(m.headers[n + i])
    BY <1>1, <1>3, FieldLinesTexts
  <2>2. PICK k : k = n + 1
    OBVIOUS
  <2>3. t = FieldLines(m, k) /\ k \in 0..Len(m.headers)
    BY <1>1, <1>3, <2>2
  <2>4. /\ AreTexts(t) /\ IsText(FlattenSeq(t)) /\ Len(t) = Len(m.headers) - k
        /\ \A i \in 1..(Len(m.headers) - k) : t[i] = FieldLine(m.headers[k + i])
    BY <2>3, FieldLinesTexts
  <2> QED
    BY <1>1, <2>1, <2>2, <2>4
<1>5. s # << >> /\ s[1] = FieldLine(f)
  <2>1. Len(s) \in Nat /\ 1 \in 1..Len(s)
    BY <1>1, <1>4
  <2>2. s[1] = FieldLine(m.headers[n + 1])
    BY <1>4, <2>1
  <2> QED
    BY <1>2, <1>1, <1>4, <2>2, Len(<< >>) = 0
<1>6. t = Tail(s)
  <2>1. PICK S : s \in Seq(S)
    BY <1>4 DEF AreTexts, IsText
  <2>2. /\ IsText(Tail(s)) /\ Len(Tail(s)) = Len(s) - 1
        /\ \A i \in 1..Len(Tail(s)) : Tail(s)[i] = s[i + 1]
    BY <1>5, <2>1, HeadTailProperties DEF IsText
  <2>3. ASSUME NEW i \in 1..Len(t) PROVE t[i] = Tail(s)[i]
    <3>1. i \in 1..Len(Tail(s)) /\ i + 1 \in 1..Len(s) /\ (n + 1) + i = n + (i + 1)
      BY <1>1, <1>4, <2>2
    <3> QED
      BY <1>4, <2>2, <3>1
  <2> QED
    BY <1>4, <2>2, <2>3, SameText DEF AreTexts
<1>7. FlattenSeq(s) = Join(FieldLine(f), FlattenSeq(t))
  BY <1>4, <1>5, <1>6, FlattenFirst DEF Join
<1>8. PICK e : e = Join(Line(<< >>), m.body) /\ IsText(e)
  BY MessageTexts, ShortTexts, LineThen, JoinTexts
<1>9. /\ FromField(m, n) = Join(Join(FieldLine(f), FlattenSeq(t)), e)
      /\ FromField(m, n + 1) = Join(FlattenSeq(t), e)
  BY <1>3, <1>7, <1>8 DEF FromField
<1>10. IsText(FromField(m, n + 1)) /\ IsText(FieldLine(f))
  BY <1>2, <1>4, <1>8, <1>9, JoinTexts, FieldLineText
<1>11. FromField(m, n) = Join(FieldLine(f), FromField(m, n + 1))
  BY <1>4, <1>8, <1>9, <1>10, JoinTexts
<1>12. PICK sep, end, rest : /\ sep = <<":", "SP">> /\ end = <<"CR", "LF">>
                             /\ rest = FromField(m, n + 1)
                             /\ IsText(sep) /\ IsText(end) /\ IsText(rest)
  BY <1>10, Marks, TwoTokens
<1>13. FieldLine(f) = Join(Join(Join(f[1], sep), f[2]), end)
  BY <1>2, <1>12, FieldLineText
<1>14. Join(FieldLine(f), rest) = Join(f[1], Join(sep, Join(f[2], Join(end, rest))))
  BY <1>2, <1>12, <1>13, GroupedRight
<1>15. Join(end, rest) = LineEnd(rest) /\ IsText(LineEnd(rest))
  BY <1>12, ShortTexts, LineThen
<1>16. FromValue(m, n) = Join(f[2], Join(end, rest)) /\ IsText(FromValue(m, n))
  BY <1>2, <1>12, <1>15, JoinTexts DEF FromValue
<1>17. Join(sep, FromValue(m, n)) = Join(<<":">>, Join(<<"SP">>, FromValue(m, n)))
  <2>1. PICK c, p : c = <<":">> /\ p = <<"SP">> /\ IsText(c) /\ IsText(p) /\ sep = Join(c, p)
    BY <1>12, Marks
  <2>2. Join(Join(c, p), FromValue(m, n)) = Join(c, Join(p, FromValue(m, n)))
    BY <1>16, <2>1, JoinTexts
  <2> QED
    BY <2>1, <2>2
<1>18. FromField(m, n) = Join(f[1], Join(<<":">>, Join(<<"SP">>, FromValue(m, n))))
  BY <1>11, <1>12, <1>14, <1>16, <1>17
<1>19. IsText(FromField(m, n))
  BY <1>10, <1>11, JoinTexts
<1> QED
  BY <1>2, <1>10, <1>16, <1>18, <1>19

\* The whole message.
LEMMA WireParts ==
  ASSUME NEW m, IsMessage(m)
  PROVE  /\ Wire(m) = FromVersion(m)
         /\ IsText(FromField(m, 0)) /\ IsText(LineEnd(FromField(m, 0)))
         /\ IsText(FromDescription(m)) /\ IsText(FromStatus(m)) /\ IsText(FromVersion(m))
<1>1. /\ Len(m.headers) \in Nat /\ 0 \in 0..Len(m.headers)
      /\ IsText(m.version) /\ IsText(m.status) /\ IsText(m.description) /\ IsText(m.body)
  BY MessageTexts
<1>2. PICK f : f = FlattenSeq(FieldLines(m, 0)) /\ IsText(f)
  BY <1>1, FieldLinesTexts
<1>3. PICK sp, end, none : /\ sp = <<"SP">> /\ end = <<"CR", "LF">> /\ none = Line(<< >>)
                           /\ IsText(sp) /\ IsText(end) /\ IsText(none)
  BY Marks, TwoTokens, ShortTexts, LineThen
<1>4. FlattenSeq([i \in DOMAIN m.headers |-> FieldLine(m.headers[i])]) = f
  <2>1. DOMAIN m.headers = 1..(Len(m.headers) - 0) /\ \A i \in 1..Len(m.headers) : 0 + i = i
    BY MessageTexts
  <2>2. [i \in DOMAIN m.headers |-> FieldLine(m.headers[i])] = FieldLines(m, 0)
    BY <1>1, <2>1 DEF FieldLines
  <2> QED
    BY <1>2, <2>2
<1>5. PICK a : a = Join(Join(Join(Join(m.version, sp), m.status), sp), m.description) /\ IsText(a)
  BY <1>1, <1>3, JoinTexts
<1>6. Wire(m) = Join(Join(Join(Join(a, end), f), none), m.body)
  <2>1. Line(m.version \o <<"SP">> \o m.status \o <<"SP">> \o m.description) = Join(a, end)
    BY <1>3, <1>5 DEF Line, Join
  <2>2. Wire(m) = Join(Join(Join(Line(m.version \o <<"SP">> \o m.status \o <<"SP">> \o m.description), f), none), m.body)
    BY <1>3, <1>4 DEF Wire, Join
  <2> QED
    BY <2>1, <2>2
<1>7. Wire(m) = Join(a, Join(end, FromField(m, 0))) /\ IsText(FromField(m, 0))
  BY <1>1, <1>2, <1>3, <1>5, <1>6, GroupedRight, JoinTexts DEF FromField
<1>8. PICK rest : /\ rest = LineEnd(FromField(m, 0)) /\ IsText(rest)
                  /\ Join(end, FromField(m, 0)) = rest
  BY <1>3, <1>7, LineThen, ShortTexts
<1>9. Join(a, rest) = Join(Join(Join(Join(m.version, sp), m.status), sp), Join(m.description, rest))
  BY <1>1, <1>3, <1>5, <1>8, JoinTexts
<1>10. FromDescription(m) = Join(m.description, rest) /\ IsText(FromDescription(m))
  BY <1>1, <1>8, JoinTexts DEF FromDescription
<1>11. Join(a, rest) = Join(m.version, Join(sp, Join(m.status, Join(sp, FromDescription(m)))))
  BY <1>1, <1>3, <1>9, <1>10, GroupedRight
<1>12. FromStatus(m) = Join(m.status, Join(sp, FromDescription(m))) /\ IsText(FromStatus(m))
  BY <1>1, <1>3, <1>10, JoinTexts DEF FromStatus
<1>13. FromVersion(m) = Join(m.version, Join(sp, FromStatus(m))) /\ IsText(FromVersion(m))
  BY <1>1, <1>3, <1>12, JoinTexts DEF FromVersion
<1> QED
  BY <1>7, <1>8, <1>10, <1>11, <1>12, <1>13

\* No part of a well-formed head holds what ends it.
LEMMA PartsEnd ==
  ASSUME NEW m, IsMessage(m), WellFormed(m)
  PROVE  /\ Without(m.version, {"SP"}) /\ Without(m.status, {"SP"})
         /\ Without(m.description, {"CR", "LF"})
         /\ \A i \in 1..Len(m.headers) :
              /\ Without(m.headers[i][1], {"CR", "LF", ":", "SP"})
              /\ Without(m.headers[i][2], {"CR", "LF"})
BY MessageTexts DEF WellFormed, Without

-------------------------------------------------------------------------------
(* The fields of a head.                                                   *)

\* The first field with a key gives its value.
LEMMA FirstFieldCounts ==
  ASSUME NEW m, IsMessage(m), NEW n \in 0..(Len(m.headers) - 1), NEW k, k = m.headers[n + 1][1],
         \A i \in 1..n : m.headers[i][1] # k
  PROVE  FieldValue(m, k) = m.headers[n + 1][2]
<1> DEFINE I == {i \in 1..Len(m.headers) : m.headers[i][1] = k}
<1>1. Len(m.headers) \in Nat
  BY MessageTexts
<1>2. n + 1 \in I /\ \A i \in I : n + 1 <= i
  BY <1>1
<1>3. I \subseteq Nat
  BY <1>1
<1>4. SelectInSeq(m.headers, LAMBDA f : f[1] = k) = IF I # {} THEN Min(I) ELSE 0
  BY DEF SelectInSeq
<1> HIDE DEF I
<1>5. Min(I) = n + 1
  <2>1. PICK x \in Nat : x = n + 1
    BY <1>2, <1>3
  <2>2. x \in I /\ \A i \in I : x <= i
    BY <1>2, <2>1
  <2>3. Min(I) \in I /\ \A i \in I : Min(I) <= i
    BY <2>2 DEF Min
  <2>4. Min(I) <= x /\ x <= Min(I) /\ Min(I) \in Nat
    BY <1>3, <2>2, <2>3
  <2> QED
    BY <2>1, <2>4
<1>6. SelectInSeq(m.headers, LAMBDA f : f[1] = k) = n + 1
  BY <1>2, <1>4, <1>5
<1> QED
  BY <1>6 DEF FieldValue

\* The fields among the first n, as a map holds them.
Stored(m, fields, n) ==
  /\ DOMAIN fields = {m.headers[i][1] : i \in 1..n}
  /\ \A k \in DOMAIN fields : fields[k] = FieldValue(m, k)

\* Before the first field, an empty map holds what it should.
LEMMA NothingStored ==
  ASSUME NEW m, NEW fields, DOMAIN fields = {}
  PROVE  Stored(m, fields, 0)
BY DEF Stored

\* std::map::insert of the next field: the first of a name stays.
LEMMA NextStored ==
  ASSUME NEW m, IsMessage(m), NEW n \in 0..(Len(m.headers) - 1), NEW fields, Stored(m, fields, n)
  PROVE  Stored(m, InsertAll(fields, [k \in {m.headers[n + 1][1]} |-> m.headers[n + 1][2]]), n + 1)
<1> DEFINE key == m.headers[n + 1][1]
           new == InsertAll(fields, [k \in {key} |-> m.headers[n + 1][2]])
<1>1. DOMAIN new = DOMAIN fields \cup {key}
      /\ \A k \in DOMAIN new : new[k] = IF k \in DOMAIN fields THEN fields[k] ELSE m.headers[n + 1][2]
  BY DEF InsertAll
<1>2. n \in Nat
  BY MessageTexts
<1>3. DOMAIN new = {m.headers[i][1] : i \in 1..(n + 1)}
  <2>1. DOMAIN new = {m.headers[i][1] : i \in 1..n} \cup {key}
    BY <1>1 DEF Stored
  <2>2. \A i : i \in 1..(n + 1) <=> i \in 1..n \/ i = n + 1
    BY <1>2
  <2> QED
    BY <2>1, <2>2
<1>4. ASSUME NEW k \in DOMAIN new PROVE new[k] = FieldValue(m, k)
  <2>1. CASE k \in DOMAIN fields
    BY <1>1, <2>1 DEF Stored
  <2>2. CASE k \notin DOMAIN fields
    <3>1. k = key /\ \A i \in 1..n : m.headers[i][1] # k
      BY <1>1, <2>2 DEF Stored
    <3>2. FieldValue(m, k) = m.headers[n + 1][2]
      BY <3>1, FirstFieldCounts
    <3> QED
      BY <1>1, <2>2, <3>2
  <2> QED
    BY <2>1, <2>2
<1> QED
  BY <1>3, <1>4 DEF Stored

\* After the last field, the map has every name of the message.
LEMMA AllStored ==
  ASSUME NEW m, IsMessage(m), NEW fields, Stored(m, fields, Len(m.headers))
  PROVE  DOMAIN fields = Keys(m)
<1>1. Keys(m) = {m.headers[i][1] : i \in 1..Len(m.headers)}
  BY MessageTexts DEF Keys
<1> QED
  BY <1>1 DEF Stored

-------------------------------------------------------------------------------
(* Where the parser is in the message m, when r is all that is still to be *)
(* parsed: what it holds of a part, joined to r, is what the server means  *)
(* from that part on; or the part is complete, and its end partly read.    *)

NoFields == head.key = << >> /\ DOMAIN head.headers = {}

AtVersion(m, r) ==
  /\ head.state = "VERSION" /\ head.description = << >> /\ NoFields
  /\ Without(head.version, {"SP"}) /\ Join(head.version, r) = FromVersion(m)

AtStatus(m, r) ==
  /\ head.state = "STATUS" /\ head.description = << >> /\ NoFields
  /\ head.version = m.version
  /\ Without(head.temp, {"SP"}) /\ Join(head.temp, r) = FromStatus(m)

AtDescription(m, r) ==
  /\ head.state = "DESCRIPTION" /\ NoFields
  /\ head.version = m.version /\ head.status = Number(m.status)
  /\ \/ Without(head.description, {"CR", "LF"}) /\ Join(head.description, r) = FromDescription(m)
     \/ head.description = m.description /\ r = Join(<<"LF">>, FromField(m, 0))

\* The status line was read, and n fields.
LinesRead(m, n) ==
  /\ head.version = m.version /\ head.status = Number(m.status) /\ head.description = m.description
  /\ Stored(m, head.headers, n)

AtKey(m, r, n) ==
  /\ head.state = "HEADER_KEY" /\ n \in 0..Len(m.headers) /\ LinesRead(m, n)
  /\ \/ Without(head.key, {"CR", "LF", ":", "SP"}) /\ Join(head.key, r) = FromField(m, n)
     \/ n # Len(m.headers) /\ head.key = m.headers[n + 1][1] /\ r = Join(<<"SP">>, FromValue(m, n))
     \/ n = Len(m.headers) /\ head.key = << >> /\ r = Join(<<"LF">>, m.body)

AtValue(m, r, n) ==
  /\ head.state = "HEADER_VALUE" /\ n \in 0..(Len(m.headers) - 1) /\ LinesRead(m, n)
  /\ head.key = m.headers[n + 1][1]
  /\ \/ Without(head.value, {"CR", "LF"}) /\ Join(head.value, r) = FromValue(m, n)
     \/ head.value = m.headers[n + 1][2] /\ r = Join(<<"LF">>, FromField(m, n + 1))

AtHead(m, r) ==
  \/ AtVersion(m, r) \/ AtStatus(m, r) \/ AtDescription(m, r)
  \/ \E n \in 0..Len(m.headers) : AtKey(m, r, n) \/ AtValue(m, r, n)

\* The token receive() looks at is the first of r, in a well-formed message.
Coming(m, r) ==
  /\ IsHead(head)
  /\ IsMessage(m) /\ WellFormed(m) /\ Spaced(m)
  /\ IsText(r) /\ r # << >> /\ Head(r) = Head(chunk)

\* VERSION goes on, or the space shows that the version is complete.
LEMMA VersionAdvances ==
  ASSUME NEW m, NEW r, Coming(m, r), AtVersion(m, r), Version
  PROVE  (AtVersion(m, Tail(r)) \/ AtStatus(m, Tail(r)))'
<1>0. IsText(r) /\ r # << >> /\ Head(r) = Head(chunk) /\ IsMessage(m)
  BY DEF Coming
<1>1. CASE Head(chunk) # "SP"
  <2>1. /\ head'.version = Append(head.version, Head(r))
        /\ head'.state = head.state /\ head'.description = head.description
        /\ head'.key = head.key /\ head'.headers = head.headers
    BY <1>0, <1>1 DEF Version, Take, Coming, IsHead, NoHead
  <2>2. Head(r) \notin {"SP"}
    BY <1>0, <1>1
  <2>3. /\ Without(Append(head.version, Head(r)), {"SP"})
        /\ Join(Append(head.version, Head(r)), Tail(r)) = Join(head.version, r)
    BY <1>0, <2>2, PartGoesOn DEF AtVersion
  <2> QED
    BY <2>1, <2>3 DEF AtVersion, NoFields
<1>2. CASE Head(chunk) = "SP"
  <2>1. /\ head'.state = "STATUS" /\ head'.temp = << >>
        /\ head'.version = head.version /\ head'.description = head.description
        /\ head'.key = head.key /\ head'.headers = head.headers
    BY <1>0, <1>2 DEF Version, Take, Coming, IsHead, NoHead
  <2>2. Without(m.version, {"SP"}) /\ IsText(FromStatus(m)) /\ Head(r) \in {"SP"} /\ "SP" \in {"SP"}
    BY <1>0, <1>2, PartsEnd, WireParts DEF Coming
  <2>3. Join(head.version, r) = Join(m.version, Join(<<"SP">>, FromStatus(m)))
    BY DEF AtVersion, FromVersion
  <2>4. head.version = m.version /\ Tail(r) = FromStatus(m)
    BY <1>0, <2>2, <2>3, PartEnds DEF AtVersion
  <2>5. Join(<< >>, Tail(r)) = FromStatus(m) /\ Without(<< >>, {"SP"})
    BY <2>2, <2>4, JoinTexts, NothingRead
  <2> QED
    BY <2>1, <2>4, <2>5 DEF AtVersion, AtStatus, NoFields
<1> QED
  BY <1>1, <1>2

\* STATUS goes on, or the space shows that the status is complete.
LEMMA StatusAdvances ==
  ASSUME NEW m, NEW r, Coming(m, r), AtStatus(m, r), Status
  PROVE  (AtStatus(m, Tail(r)) \/ AtDescription(m, Tail(r)))'
<1>0. IsText(r) /\ r # << >> /\ Head(r) = Head(chunk) /\ IsMessage(m)
  BY DEF Coming
<1>1. CASE Head(chunk) # "SP"
  <2>1. /\ head'.temp = Append(head.temp, Head(r))
        /\ head'.state = head.state /\ head'.description = head.description
        /\ head'.key = head.key /\ head'.headers = head.headers /\ head'.version = head.version
    BY <1>0, <1>1 DEF Status, Take, Coming, IsHead, NoHead
  <2>2. Head(r) \notin {"SP"}
    BY <1>0, <1>1
  <2>3. /\ Without(Append(head.temp, Head(r)), {"SP"})
        /\ Join(Append(head.temp, Head(r)), Tail(r)) = Join(head.temp, r)
    BY <1>0, <2>2, PartGoesOn DEF AtStatus
  <2> QED
    BY <2>1, <2>3 DEF AtStatus, NoFields
<1>2. CASE Head(chunk) = "SP"
  <2>1. /\ head'.state = "DESCRIPTION" /\ head'.status = Number(head.temp)
        /\ head'.version = head.version /\ head'.description = head.description
        /\ head'.key = head.key /\ head'.headers = head.headers
    BY <1>0, <1>2 DEF Status, Take, Coming, IsHead, NoHead
  <2>2. Without(m.status, {"SP"}) /\ IsText(FromDescription(m)) /\ Head(r) \in {"SP"} /\ "SP" \in {"SP"}
    BY <1>0, <1>2, PartsEnd, WireParts DEF Coming
  <2>3. Join(head.temp, r) = Join(m.status, Join(<<"SP">>, FromDescription(m)))
    BY DEF AtStatus, FromStatus
  <2>4. head.temp = m.status /\ Tail(r) = FromDescription(m)
    BY <1>0, <2>2, <2>3, PartEnds DEF AtStatus
  <2>5. Join(<< >>, Tail(r)) = FromDescription(m) /\ Without(<< >>, {"CR", "LF"})
    BY <2>2, <2>4, JoinTexts, NothingRead
  <2> QED
    BY <2>1, <2>4, <2>5 DEF AtStatus, AtDescription, NoFields
<1> QED
  BY <1>1, <1>2

\* DESCRIPTION goes on, or its line ends and the fields begin.
LEMMA DescriptionAdvances ==
  ASSUME NEW m, NEW r, Coming(m, r), AtDescription(m, r), Description
  PROVE  (AtDescription(m, Tail(r)) \/ AtKey(m, Tail(r), 0))'
<1>0. /\ IsText(r) /\ r # << >> /\ Head(r) = Head(chunk) /\ IsMessage(m)
      /\ IsText(FromField(m, 0)) /\ Len(m.headers) \in Nat
  BY WireParts, MessageTexts DEF Coming
<1>1. CASE Without(head.description, {"CR", "LF"}) /\ Join(head.description, r) = FromDescription(m)
  <2>1. CASE Head(chunk) \notin {"CR", "LF"}
    <3>1. /\ head'.description = Append(head.description, Head(r))
          /\ head'.state = head.state /\ head'.version = head.version /\ head'.status = head.status
          /\ head'.key = head.key /\ head'.headers = head.headers
      BY <1>0, <2>1 DEF Description, Take, Coming, IsHead, NoHead
    <3>2. Head(r) \notin {"CR", "LF"}
      BY <1>0, <2>1
    <3>3. /\ Without(Append(head.description, Head(r)), {"CR", "LF"})
          /\ Join(Append(head.description, Head(r)), Tail(r)) = Join(head.description, r)
      BY <1>0, <1>1, <3>2, PartGoesOn
    <3> QED
      BY <1>1, <3>1, <3>3 DEF AtDescription, NoFields
  <2>2. CASE Head(chunk) \in {"CR", "LF"}
    <3>1. /\ Without(m.description, {"CR", "LF"}) /\ IsText(Join(<<"LF">>, FromField(m, 0)))
          /\ Head(r) \in {"CR", "LF"} /\ "CR" \in {"CR", "LF"}
      BY <1>0, <2>2, PartsEnd, TokenAhead DEF Coming
    <3>2. Join(head.description, r) = Join(m.description, Join(<<"CR">>, Join(<<"LF">>, FromField(m, 0))))
      BY <1>1 DEF FromDescription, LineEnd
    <3>3. /\ head.description = m.description /\ Head(r) = "CR"
          /\ Tail(r) = Join(<<"LF">>, FromField(m, 0))
      BY <1>0, <1>1, <3>1, <3>2, PartEnds
    <3>4. head' = head
      BY <1>0, <3>3 DEF Description, Take
    <3> QED
      BY <3>3, <3>4 DEF AtDescription, NoFields
  <2> QED
    BY <2>1, <2>2
<1>2. CASE head.description = m.description /\ r = Join(<<"LF">>, FromField(m, 0))
  <2>1. Head(r) = "LF" /\ Tail(r) = FromField(m, 0)
    BY <1>0, <1>2, TokenAhead
  <2>2. /\ head'.state = "HEADER_KEY" /\ head'.description = head.description
        /\ head'.version = head.version /\ head'.status = head.status
        /\ head'.key = head.key /\ head'.headers = head.headers
    BY <1>0, <2>1 DEF Description, Take, Coming, IsHead, NoHead
  <2>3. Without(<< >>, {"CR", "LF", ":", "SP"}) /\ Join(<< >>, Tail(r)) = FromField(m, 0)
    BY <1>0, <2>1, NothingRead, JoinTexts
  <2>4. 0 \in 0..Len(m.headers) /\ Stored(m, head.headers, 0)
    <3>1. PICK fields : fields = head.headers
      OBVIOUS
    <3>2. DOMAIN fields = {}
      BY <3>1 DEF AtDescription, NoFields
    <3>3. Stored(m, fields, 0)
      BY <3>2, NothingStored
    <3> QED
      BY <1>0, <3>1, <3>3
  <2> QED
    BY <1>2, <2>2, <2>3, <2>4 DEF AtDescription, AtKey, LinesRead, NoFields
<1> QED
  BY <1>1, <1>2 DEF AtDescription

\* HEADER_KEY goes on, or the colon and the space after it lead to the value.
LEMMA KeyAdvances ==
  ASSUME NEW m, NEW r, Coming(m, r), NEW n, AtKey(m, r, n), HeaderKey
  PROVE  (AtKey(m, Tail(r), n) \/ AtValue(m, Tail(r), n))'
<1>0. /\ IsText(r) /\ r # << >> /\ Head(r) = Head(chunk) /\ IsMessage(m)
      /\ Len(m.headers) \in Nat /\ n \in 0..Len(m.headers)
      /\ Head(chunk) # "LF"
  BY MessageTexts DEF Coming, AtKey, HeaderKey
<1> DEFINE ends == {"CR", "LF", ":", "SP"}
<1>f. ASSUME n # Len(m.headers)
      PROVE  /\ n \in 0..(Len(m.headers) - 1)
             /\ Without(m.headers[n + 1][1], ends) /\ IsText(FromValue(m, n))
             /\ FromField(m, n) = Join(m.headers[n + 1][1], Join(<<":">>, Join(<<"SP">>, FromValue(m, n))))
  <2>1. n \in 0..(Len(m.headers) - 1) /\ n + 1 \in 1..Len(m.headers)
    BY <1>0, <1>f
  <2>2. m.headers[n + 1][3]
    BY <1>0, <2>1, MessageTexts DEF Coming, Spaced
  <2> QED
    BY <1>0, <2>1, <2>2, PartsEnd, FieldFirst DEF Coming
<1>1. CASE Without(head.key, ends) /\ Join(head.key, r) = FromField(m, n)
  <2>1. CASE Head(chunk) \notin ends
    <3>1. /\ head'.key = Append(head.key, Head(r))
          /\ head'.state = head.state /\ head'.version = head.version /\ head'.status = head.status
          /\ head'.description = head.description /\ head'.headers = head.headers
      BY <1>0, <2>1 DEF HeaderKey, Take, Coming, IsHead, NoHead
    <3>2. Head(r) \notin ends
      BY <1>0, <2>1
    <3>3. /\ Without(Append(head.key, Head(r)), ends)
          /\ Join(Append(head.key, Head(r)), Tail(r)) = Join(head.key, r)
      BY <1>0, <1>1, <3>2, PartGoesOn
    <3> QED
      BY <1>1, <3>1, <3>3 DEF AtKey, LinesRead
  <2>2. CASE Head(chunk) \in ends /\ n # Len(m.headers)
    <3>1. IsText(Join(<<"SP">>, FromValue(m, n))) /\ Head(r) \in ends /\ ":" \in ends
      BY <1>0, <1>f, <2>2, TokenAhead
    <3> HIDE DEF ends
    <3>2. /\ head.key = m.headers[n + 1][1] /\ Head(r) = ":"
          /\ Tail(r) = Join(<<"SP">>, FromValue(m, n))
      BY <1>0, <1>1, <1>f, <2>2, <3>1, PartEnds
    <3>3. head' = head
      BY <1>0, <3>2 DEF HeaderKey, Take
    <3> QED
      BY <2>2, <3>2, <3>3 DEF AtKey, LinesRead
  <2>3. CASE Head(chunk) \in ends /\ n = Len(m.headers)
    <3>1. /\ IsText(Join(<<"LF">>, m.body)) /\ Head(r) \in ends /\ "CR" \in ends
          /\ Without(<< >>, ends)
      BY <1>0, <2>3, TokenAhead, MessageTexts, NothingRead
    <3>2. Join(head.key, r) = Join(<< >>, Join(<<"CR">>, Join(<<"LF">>, m.body)))
      <4>1. FromField(m, n) = LineEnd(m.body) /\ IsText(LineEnd(m.body))
        BY <1>0, <2>3, NoFieldLeft
      <4> QED
        BY <1>1, <4>1, JoinTexts DEF LineEnd
    <3> HIDE DEF ends
    <3>3. head.key = << >> /\ Head(r) = "CR" /\ Tail(r) = Join(<<"LF">>, m.body)
      BY <1>0, <1>1, <3>1, <3>2, PartEnds
    <3>4. head' = head
      BY <1>0, <3>3 DEF HeaderKey, Take
    <3> QED
      BY <2>3, <3>3, <3>4 DEF AtKey, LinesRead
  <2> QED
    BY <2>1, <2>2, <2>3
<1>2. CASE n # Len(m.headers) /\ head.key = m.headers[n + 1][1] /\ r = Join(<<"SP">>, FromValue(m, n))
  <2>1. Head(r) = "SP" /\ Tail(r) = FromValue(m, n)
    BY <1>f, <1>2, TokenAhead
  <2>2. /\ head'.state = "HEADER_VALUE" /\ head'.value = << >>
        /\ head'.key = head.key /\ head'.version = head.version /\ head'.status = head.status
        /\ head'.description = head.description /\ head'.headers = head.headers
    BY <1>0, <2>1 DEF HeaderKey, Take, Coming, IsHead, NoHead
  <2>3. Without(<< >>, {"CR", "LF"}) /\ Join(<< >>, Tail(r)) = FromValue(m, n)
    BY <1>f, <1>2, <2>1, NothingRead, JoinTexts
  <2> QED
    BY <1>f, <1>2, <2>2, <2>3 DEF AtKey, AtValue, LinesRead
<1>3. CASE n = Len(m.headers) /\ head.key = << >> /\ r = Join(<<"LF">>, m.body)
  <2>1. Head(r) = "LF"
    BY <1>0, <1>3, TokenAhead, MessageTexts
  <2> QED
    BY <1>0, <2>1
<1> QED
  BY <1>1, <1>2, <1>3 DEF AtKey

\* HEADER_VALUE goes on, or its line ends, the field is stored and the next begins.
LEMMA ValueAdvances ==
  ASSUME NEW m, NEW r, Coming(m, r), NEW n, AtValue(m, r, n), HeaderValue
  PROVE  (AtValue(m, Tail(r), n) \/ AtKey(m, Tail(r), n + 1))'
<1>0. /\ IsText(r) /\ r # << >> /\ Head(r) = Head(chunk) /\ IsMessage(m)
      /\ Len(m.headers) \in Nat /\ n \in 0..(Len(m.headers) - 1)
      /\ n + 1 \in 0..Len(m.headers) /\ n + 1 \in 1..Len(m.headers)
  BY MessageTexts DEF Coming, AtValue
<1>f. Without(m.headers[n + 1][2], {"CR", "LF"}) /\ IsText(FromField(m, n + 1))
  <2>1. m.headers[n + 1][3]
    BY <1>0, MessageTexts DEF Coming, Spaced
  <2> QED
    BY <1>0, <2>1, PartsEnd, FieldFirst DEF Coming
<1>1. CASE Without(head.value, {"CR", "LF"}) /\ Join(head.value, r) = FromValue(m, n)
  <2>1. CASE Head(chunk) \notin {"CR", "LF"}
    <3>1. /\ head'.value = Append(head.value, Head(r)) /\ head'.key = head.key
          /\ head'.state = head.state /\ head'.version = head.version /\ head'.status = head.status
          /\ head'.description = head.description /\ head'.headers = head.headers
      BY <1>0, <2>1 DEF HeaderValue, Take, Coming, IsHead, NoHead
    <3>2. Head(r) \notin {"CR", "LF"}
      BY <1>0, <2>1
    <3>3. /\ Without(Append(head.value, Head(r)), {"CR", "LF"})
          /\ Join(Append(head.value, Head(r)), Tail(r)) = Join(head.value, r)
      BY <1>0, <1>1, <3>2, PartGoesOn
    <3> QED
      BY <1>1, <3>1, <3>3 DEF AtValue, LinesRead
  <2>2. CASE Head(chunk) \in {"CR", "LF"}
    <3>1. /\ IsText(Join(<<"LF">>, FromField(m, n + 1)))
          /\ Head(r) \in {"CR", "LF"} /\ "CR" \in {"CR", "LF"}
      BY <1>0, <1>f, <2>2, TokenAhead
    <3>2. Join(head.value, r) = Join(m.headers[n + 1][2], Join(<<"CR">>, Join(<<"LF">>, FromField(m, n + 1))))
      BY <1>1 DEF FromValue, LineEnd
    <3>3. /\ head.value = m.headers[n + 1][2] /\ Head(r) = "CR"
          /\ Tail(r) = Join(<<"LF">>, FromField(m, n + 1))
      BY <1>0, <1>1, <1>f, <3>1, <3>2, PartEnds
    <3>4. head' = head
      BY <1>0, <3>3 DEF HeaderValue, Take
    <3> QED
      BY <3>3, <3>4 DEF AtValue, LinesRead
  <2> QED
    BY <2>1, <2>2
<1>2. CASE head.value = m.headers[n + 1][2] /\ r = Join(<<"LF">>, FromField(m, n + 1))
  <2>1. Head(r) = "LF" /\ Tail(r) = FromField(m, n + 1)
    BY <1>f, <1>2, TokenAhead
  <2>2. /\ head'.state = "HEADER_KEY" /\ head'.key = << >>
        /\ head'.headers = InsertAll(head.headers, [k \in {head.key} |-> head.value])
        /\ head'.version = head.version /\ head'.status = head.status
        /\ head'.description = head.description
    BY <1>0, <2>1 DEF HeaderValue, KeyAfterStore, Take, Coming, IsHead, NoHead
  <2>3. Without(<< >>, {"CR", "LF", ":", "SP"}) /\ Join(<< >>, Tail(r)) = FromField(m, n + 1)
    BY <1>f, <2>1, NothingRead, JoinTexts
  <2>4. Stored(m, head.headers, n)
    BY DEF AtValue, LinesRead
  <2>5. Stored(m, head'.headers, n + 1)
    <3>1. head'.headers = InsertAll(head.headers, [k \in {m.headers[n + 1][1]} |-> m.headers[n + 1][2]])
      BY <1>2, <2>2 DEF AtValue
    <3> QED
      BY <1>0, <2>4, <3>1, NextStored
  <2> QED
    BY <1>0, <2>2, <2>3, <2>5 DEF AtValue, AtKey, LinesRead
<1> QED
  BY <1>1, <1>2 DEF AtValue

\* A token of the head moves the parser on in the message.
LEMMA HeadAdvances ==
  ASSUME NEW m, NEW r, Coming(m, r), AtHead(m, r), HeadToken
  PROVE  AtHead(m, Tail(r))'
<1>0. Len(m.headers) \in Nat /\ 0 \in 0..Len(m.headers)
  BY MessageTexts DEF Coming
<1>1. CASE AtVersion(m, r)
  BY <1>1, VersionAdvances
  DEF AtHead, AtVersion, HeadToken, Version, Status, Description, HeaderKey, HeaderValue, Parsing
<1>2. CASE AtStatus(m, r)
  BY <1>2, StatusAdvances
  DEF AtHead, AtStatus, HeadToken, Version, Status, Description, HeaderKey, HeaderValue, Parsing
<1>3. CASE AtDescription(m, r)
  <2>1. Description
    BY <1>3 DEF AtDescription, HeadToken, Version, Status, HeaderKey, HeaderValue, Parsing
  <2> QED
    BY <1>0, <1>3, <2>1, DescriptionAdvances DEF AtHead
<1>4. ASSUME NEW n \in 0..Len(m.headers), AtKey(m, r, n)
      PROVE  AtHead(m, Tail(r))'
  <2>1. HeaderKey
    BY <1>4 DEF AtKey, HeadToken, Version, Status, Description, HeaderValue, Parsing
  <2> QED
    BY <1>4, <2>1, KeyAdvances DEF AtHead
<1>5. ASSUME NEW n \in 0..Len(m.headers), AtValue(m, r, n)
      PROVE  AtHead(m, Tail(r))'
  <2>1. HeaderValue
    BY <1>5 DEF AtValue, HeadToken, Version, Status, Description, HeaderKey, Parsing
  <2>2. n + 1 \in 0..Len(m.headers)
    BY <1>0, <1>5 DEF AtValue
  <2> QED
    BY <1>5, <2>1, <2>2, ValueAdvances DEF AtHead
<1> QED
  BY <1>1, <1>2, <1>3, <1>4, <1>5 DEF AtHead

\* The empty line is reached when all fields were stored; then the body follows.
LEMMA HeadEnds ==
  ASSUME NEW m, NEW r, Coming(m, r), AtHead(m, r), EndOfHead
  PROVE  LinesRead(m, Len(m.headers)) /\ Tail(r) = m.body
<1>0. /\ IsText(r) /\ r # << >> /\ Head(r) = "LF" /\ IsMessage(m) /\ Len(m.headers) \in Nat
      /\ IsText(m.body)
  BY MessageTexts DEF Coming, EndOfHead
<1>1. PICK n \in 0..Len(m.headers) : AtKey(m, r, n)
  BY DEF AtHead, AtVersion, AtStatus, AtDescription, AtValue, EndOfHead, Parsing
<1> DEFINE ends == {"CR", "LF", ":", "SP"}
<1>2. CASE Without(head.key, ends) /\ Join(head.key, r) = FromField(m, n)
  <2>0. Head(r) \in ends /\ ":" \in ends /\ "CR" \in ends
    BY <1>0
  <2>1. CASE n # Len(m.headers)
    <3>1. n \in 0..(Len(m.headers) - 1) /\ n + 1 \in 1..Len(m.headers)
      BY <1>0, <2>1
    <3>2. m.headers[n + 1][3] /\ Without(m.headers[n + 1][1], ends)
      BY <1>0, <3>1, MessageTexts, PartsEnd DEF Coming, Spaced
    <3>3. /\ FromField(m, n) = Join(m.headers[n + 1][1], Join(<<":">>, Join(<<"SP">>, FromValue(m, n))))
          /\ IsText(Join(<<"SP">>, FromValue(m, n)))
      BY <1>0, <3>1, <3>2, FieldFirst, TokenAhead
    <3> HIDE DEF ends
    <3>4. Head(r) = ":"
      BY <1>0, <1>2, <2>0, <3>2, <3>3, PartEnds
    <3> QED
      BY <1>0, <3>4
  <2>2. CASE n = Len(m.headers)
    <3>1. FromField(m, n) = LineEnd(m.body) /\ IsText(LineEnd(m.body))
      BY <1>0, <2>2, NoFieldLeft
    <3>2. Join(head.key, r) = Join(<< >>, Join(<<"CR">>, Join(<<"LF">>, m.body)))
      BY <1>2, <3>1, JoinTexts DEF LineEnd
    <3>3. IsText(Join(<<"LF">>, m.body)) /\ Without(<< >>, ends)
      BY <1>0, TokenAhead, NothingRead
    <3> HIDE DEF ends
    <3>4. Head(r) = "CR"
      BY <1>0, <1>2, <2>0, <3>2, <3>3, PartEnds
    <3> QED
      BY <1>0, <3>4
  <2> QED
    BY <2>1, <2>2
<1>3. CASE n # Len(m.headers) /\ r = Join(<<"SP">>, FromValue(m, n))
  <2>1. n \in 0..(Len(m.headers) - 1) /\ n + 1 \in 1..Len(m.headers)
    BY <1>0, <1>3
  <2>2. m.headers[n + 1][3]
    BY <1>0, <2>1, MessageTexts DEF Coming, Spaced
  <2>3. Head(r) = "SP"
    BY <1>0, <1>3, <2>1, <2>2, FieldFirst, TokenAhead
  <2> QED
    BY <1>0, <2>3
<1>4. CASE n = Len(m.headers) /\ r = Join(<<"LF">>, m.body)
  BY <1>0, <1>1, <1>4, TokenAhead DEF AtKey
<1> QED
  BY <1>1, <1>2, <1>3, <1>4 DEF AtKey

-------------------------------------------------------------------------------
(* What the steps of receive() leave alone.                                *)

Working == phase \in {"read", "parse", "flush", "complete"}

\* Outside receive() its variables hold nothing, and chunk nothing but while parsing.
Locals ==
  /\ phase # "parse" => chunk = << >>
  /\ ~Working => head = NoHead

\* No transfer has begun.
LEMMA LocalsInit == Init => Locals
BY DEF Init, Locals, Working

\* Every way out of receive() drops its variables.
LEMMA LocalsStep == Shape /\ Locals /\ [Next]_vars => Locals'
<1> SUFFICES ASSUME Shape, Locals, [Next]_vars PROVE Locals'
  OBVIOUS
<1> USE DEF Locals, Working
<1>1. CASE UNCHANGED vars \/ Finished
  BY <1>1 DEF Finished, vars, bufferVars
<1>2. CASE \/ \E u \in FileParts : Starttransfer(u)
           \/ Reset \/ ResetThrows \/ ConnectFails \/ ReadNothing \/ Ok \/ Flush
           \/ \E c \in Connections : \E n \in 0..Len(Wire(c.message)) : Connect(c, n)
           \/ \E n \in ReadSizes : Read(n)
  BY <1>2 DEF Starttransfer, Reset, ResetThrows, ConnectFails, ReadNothing, Ok, Parsing, Flush,
     Connect, Read, bufferVars, ApplicationsTurn
<1>3. CASE HeadToken \/ AcceptHead \/ Body
  <2>1. Consume
    BY <1>3, HeadTokenStep DEF AcceptHead, Body
  <2> QED
    BY <2>1 DEF Consume, AfterToken
<1>4. CASE Ends \/ FollowRedirect
  <2>1. Leave(phase') /\ phase' \in {"returned", "threw", "connect"}
    BY <1>4, EndStep DEF FollowRedirect, Leave
  <2> QED
    BY <2>1 DEF Leave
<1> QED
  BY <1>1, <1>2, <1>3, <1>4 DEF Next, Worker, Receive, HeadToken, Ends

\* What was delivered is a text.
LEMMA DeliveredText ==
  ASSUME Storage, Filed
  PROVE  IsText(Delivered) /\ IsText(body)
<1>1. IsText(IF target = NoPath THEN << >> ELSE disk[target])
  BY ShortTexts DEF Storage, Filed
<1> QED
  BY <1>1, JoinedTokens DEF Delivered, Storage

\* flush() moves what was delivered, and leaves it what it was.
LEMMA FlushDelivers ==
  ASSUME Counted, tidy, Flush
  PROVE  Delivered' = Delivered
<1>1. /\ Storage /\ phase = "flush" /\ target = IF opened THEN filepath ELSE NoPath
      /\ target' = IF opened' THEN filepath' ELSE target
  BY DEF Counted, Sizes, Flush, ApplicationsTurn
<1>2. CASE FlushKeeps
  <2>1. UNCHANGED <<body, disk, opened>> /\ (opened => filepath' = filepath)
    BY <1>1, <1>2 DEF FlushKeeps, Storage
  <2>2. UNCHANGED target
    BY <1>1, <2>1
  <2> QED
    BY <2>1, <2>2 DEF Delivered
<1>3. CASE FlushWrites
  <2>1. /\ filepath' # NoPath /\ opened' = TRUE /\ disk'[filepath'] = Contents \o body
        /\ IsText(Contents) /\ IsText(body)
    BY <1>1, <1>3, WriteGrows DEF FlushWrites, Storage
  <2>2. Delivered = Contents \o body
    BY <1>1 DEF Delivered, Contents, Storage
  <2>3. body' = << >> /\ target' = filepath'
    BY <1>1, <1>3, <2>1 DEF FlushWrites, BodyAfterWrite
  <2>4. Delivered' = (Contents \o body) \o << >>
    BY <2>1, <2>3 DEF Delivered
  <2>5. PICK s : s = Contents \o body /\ IsText(s)
    BY <2>1, JoinedTokens
  <2> QED
    BY <2>2, <2>4, <2>5, JoinNothing
<1> QED
  BY <1>2, <1>3 DEF Flush

\* Until the head is accepted, the response of an application that resets is as
\* reset() left it, save the length send() notes.
Untouched ==
  tidy =>
    /\ fresh => status = 0 /\ DOMAIN headers = {}
    /\ ~ApplicationsTurn /\ head.state \in HeadStates =>
         /\ status = 0 /\ Delivered = << >>
         /\ DOMAIN headers \subseteq {ContentLength}
         /\ Working => ContentLength \in DOMAIN headers

\* A new response is as reset() leaves one.
LEMMA UntouchedInit == Init => Untouched
BY DEF Init, ResponseInit, Untouched, ApplicationsTurn

\* Only accepting the head, and what comes after it, writes to the response.
LEMMA UntouchedStep == Shape /\ Counted /\ Untouched /\ [Next]_vars => Untouched'
<1> SUFFICES ASSUME Shape, Counted, Untouched, [Next]_vars PROVE Untouched'
  OBVIOUS
<1> USE DEF ApplicationsTurn, Working
<1>i. fresh => phase = "idle"
  BY DEF Counted, Storage
<1>1. CASE UNCHANGED vars \/ Finished
  <2>1. UNCHANGED <<phase, tidy, fresh, status, headers, head, target, disk, body>>
    BY <1>1 DEF Finished, vars, appVars, responseVars, metaVars, bodyVars, fileVars
  <2>2. Delivered' = Delivered
    BY <2>1 DEF Delivered
  <2> QED
    BY <2>1, <2>2 DEF Untouched
<1>9. CASE ResetThrows
  <2>1. /\ ApplicationsTurn /\ ~fresh /\ UNCHANGED <<phase, tidy, fresh>>
    BY <1>9 DEF ResetThrows, appVars
  <2> QED
    BY <2>1 DEF Untouched
<1>2. ASSUME NEW u \in FileParts, Starttransfer(u)
      PROVE  Untouched'
  <2>1. /\ phase' = "connect" /\ target' = NoPath /\ tidy' = (tidy /\ fresh) /\ fresh' = FALSE
        /\ UNCHANGED <<head, status, headers, body, disk>>
    BY <1>2 DEF Starttransfer, metaVars, bodyVars
  <2>2. ASSUME tidy' PROVE Delivered' = << >> /\ status = 0 /\ DOMAIN headers = {}
    <3>1. body = << >> /\ tidy /\ fresh
      BY <2>1, <2>2 DEF Counted, Sizes
    <3>2. Delivered' = << >> \o << >>
      BY <2>1, <3>1 DEF Delivered
    <3> QED
      BY <3>1, <3>2, JoinNothing, ShortTexts DEF Untouched
  <2> QED
    BY <2>1, <2>2 DEF Untouched
<1>3. CASE Reset
  BY <1>3 DEF Reset, ResetResponse, HeadersAfterReset, Untouched
<1>4. ASSUME NEW c \in Connections, NEW n \in 0..Len(Wire(c.message)), Connect(c, n)
      PROVE  Untouched'
  <2>1. /\ phase = "connect" /\ phase' = "read"
        /\ DOMAIN headers' = DOMAIN headers \cup {ContentLength}
        /\ UNCHANGED <<head, status, body, disk, target, tidy, fresh>>
    BY <1>4 DEF Connect, appVars, bodyVars, fileVars
  <2>2. Delivered' = Delivered
    BY <2>1 DEF Delivered
  <2> QED
    BY <1>i, <2>1, <2>2 DEF Untouched
<1>5. CASE \/ ConnectFails \/ ReadNothing \/ Ok \/ HeadToken \/ FollowRedirect
           \/ \E n \in ReadSizes : Read(n)
  <2>1. /\ ~ApplicationsTurn /\ UNCHANGED <<tidy, fresh, status, headers, body, disk, target>>
        /\ Working' => Working /\ (head'.state \in HeadStates => head.state \in HeadStates)
        /\ ~Working' => phase' = "threw" \/ head.state \in HeadStates
    BY <1>5, HeadTokenStep
    DEF ConnectFails, ReadNothing, Ok, Parsing, FollowRedirect, Redirected, EndOfHead, Read, HeadToken,
        Leave, Consume, AfterToken, appVars, responseVars, metaVars, bodyVars, fileVars, HeadStates
  <2>2. Delivered' = Delivered
    BY <2>1 DEF Delivered
  <2> QED
    BY <1>i, <2>1, <2>2 DEF Untouched
<1>6. CASE Ends
  <2>1. phase \in {"read", "parse", "flush", "complete"} /\ phase' \in {"returned", "threw"}
    BY <1>6, EndStep
  <2>2. UNCHANGED <<tidy, fresh>>
    BY <1>6 DEF Ends, ReadEof, ReadThrows, BadStatus, FatalStatus, RedirectFails, FinalWithoutBody,
       DisconnectThrows, BadContentLength, Accepting, Complete, FlushFails, appVars
  <2> QED
    BY <1>i, <2>1, <2>2 DEF Untouched
<1>7. CASE AcceptHead \/ Body
  <2>1. head'.state \in {"BODY", "OK"} /\ phase = "parse" /\ UNCHANGED <<tidy, fresh>>
    BY <1>7 DEF AcceptHead, Accepting, EndOfHead, Body, Parsing, Shape, IsHead, NoHead, appVars
  <2> QED
    BY <1>i, <2>1 DEF Untouched, HeadStates
<1>8. CASE Flush
  <2>1. /\ phase = "flush" /\ phase' \in {"read", "complete"}
        /\ UNCHANGED <<tidy, fresh, status, headers, head>>
    BY <1>8 DEF Flush, appVars, metaVars
  <2>2. tidy => Delivered' = Delivered
    BY <1>8, FlushDelivers
  <2> QED
    BY <1>i, <2>1, <2>2 DEF Untouched
<1> QED
  BY <1>1, <1>2, <1>3, <1>4, <1>5, <1>6, <1>7, <1>8, <1>9
  DEF Next, Worker, Receive, HeadToken, Ends

-------------------------------------------------------------------------------
(* The inductive invariant: whatever is still to be parsed, it continues   *)
(* what was, so that together they are what the server means to send.      *)

Announced(m) == FieldValue(m, ContentLength)

HeadKept(m) ==
  /\ version = m.version /\ status = Number(m.status) /\ description = m.description
  /\ DOMAIN headers = Keys(m) \cup {ContentLength}
  /\ \A k \in Keys(m) \ {ContentLength} : headers[k] = FieldValue(m, k)

AtBody(m, r) ==
  /\ head.state = "BODY" /\ HeadKept(m)
  /\ Join(Delivered, r) = m.body
  /\ IF ContentLength \in Keys(m)
     THEN IsNumeral(Announced(m)) /\ body_size = Number(Announced(m))
     ELSE body_size = 0

Enough(m) == Len(Delivered) >= Number(Announced(m)) /\ IsPrefix(Delivered, m.body)

AllThere(m) ==
  IF ContentLength \in Keys(m) /\ Number(Announced(m)) <= Len(m.body)
  THEN Enough(m)
  ELSE Delivered = m.body

BodyDone(m) ==
  /\ head.state = "OK" /\ HeadKept(m)
  /\ ContentLength \in Keys(m) /\ IsNumeral(Announced(m)) /\ Enough(m)

Follows(m, r) == AtHead(m, r) \/ AtBody(m, r) \/ BodyDone(m)

\* What the network may have lost is the end of the message.
Ahead(lost) == Join(chunk, Join(wire, lost))

Faithful ==
  tidy /\ Expected =>
    /\ Working =>
         \E lost : /\ IsText(lost) /\ (whole => lost = << >>)
                   /\ Follows(peer.message, Ahead(lost))
    /\ Succeeded /\ whole => AllThere(peer.message)

\* As much as was announced is all there is to deliver: it is a part of the body.
LEMMA DoneIsAll ==
  ASSUME NEW m, IsMessage(m), BodyDone(m), Storage, Filed
  PROVE  AllThere(m)
<1>1. PICK d, n : d = Len(Delivered) /\ n = Number(Announced(m))
  OBVIOUS
<1>2. d \in Nat /\ Len(m.body) \in Nat /\ n \in Nat
  BY <1>1, DeliveredText, MessageTexts, TextAsFunction, ReceiveAssumption
  DEF BodyDone, IsNumeral, Number
<1>3. d >= n /\ d <= Len(m.body)
  BY <1>1 DEF BodyDone, Enough, IsPrefix
<1>4. n <= Len(m.body)
  BY <1>2, <1>3
<1> QED
  BY <1>1, <1>4 DEF BodyDone, AllThere

\* Nothing was asked for yet.
LEMMA FaithfulInit == Init => Faithful
BY DEF Init, Faithful, Working, Succeeded

\* The messages of the peers are messages.
LEMMA PeersMessage ==
  ASSUME Types
  PROVE  IsMessage(peer.message)
<1>1. IsMessage(NoMessage)
  <2>1. << >> \in Seq(ToSet(<< >>))
    BY ShortTexts, TextAsFunction
  <2>2. ToSet(<< >>) = {}
    BY DEF ToSet
  <2> QED
    BY <2>1, <2>2 DEF IsMessage, NoMessage
<1> QED
  BY <1>1, ReceiveAssumption DEF Types, NoPeer

\* One token of what is ahead is the first of chunk.
LEMMA TokenTaken ==
  ASSUME IsText(chunk), chunk # << >>, IsText(wire), NEW lost, IsText(lost)
  PROVE  /\ IsText(Ahead(lost)) /\ Ahead(lost) # << >> /\ Head(Ahead(lost)) = Head(chunk)
         /\ Tail(Ahead(lost)) = Join(Tail(chunk), Join(wire, lost))
<1>1. PICK t : t = Join(wire, lost) /\ IsText(t)
  BY JoinTexts
<1>2. /\ chunk \o t # << >> /\ Head(chunk \o t) = Head(chunk)
      /\ Tail(chunk \o t) = Tail(chunk) \o t
  BY <1>1, FirstOfJoined
<1>3. IsText(Ahead(lost))
  BY <1>1, JoinTexts DEF Ahead
<1> QED
  BY <1>1, <1>2, <1>3 DEF Ahead, Join

\* Outside the token steps: nothing the invariant speaks of changes.
LEMMA FollowsStays ==
  ASSUME NEW m, NEW r, Follows(m, r),
         UNCHANGED <<head, version, status, description, headers, body_size>>,
         Delivered' = Delivered
  PROVE  Follows(m, r)'
BY DEF Follows, AtHead, AtVersion, AtStatus, AtDescription, AtKey, AtValue, NoFields, LinesRead,
   AtBody, BodyDone, HeadKept, Enough

\* The connection is made, and nothing was read of the message yet.
LEMMA ConnectFollows ==
  ASSUME Locals, NEW c \in Connections, NEW n \in 0..Len(Wire(c.message)), Connect(c, n), phase = "connect"
  PROVE  \E lost, r : /\ IsText(lost) /\ (whole' => lost = << >>)
                      /\ r = Ahead(lost)' /\ Follows(c.message, r)'
<1> DEFINE m == c.message
<1>1. IsMessage(m) /\ Wire(m) = FromVersion(m) /\ IsText(Wire(m))
  BY ReceiveAssumption, WireParts
<1>2. PICK lost : lost = SubSeq(Wire(m), n + 1, Len(Wire(m)))
  OBVIOUS
<1>3. /\ IsText(wire') /\ IsText(lost) /\ Len(lost) = Len(Wire(m)) - n
      /\ Join(wire', lost) = Wire(m)
  BY <1>1, <1>2, CutShorter, CutJoins DEF Connect, Join
<1>4. whole' => lost = << >>
  <2>1. Len(Wire(m)) \in Nat /\ (lost = << >> <=> Len(lost) = 0)
    BY <1>1, <1>3, TextAsFunction
  <2>2. whole' => n = Len(Wire(m))
    BY Zenon DEF Connect
  <2> QED
    BY <1>3, <2>1, <2>2
<1>5. chunk' = << >> /\ head' = NoHead
  BY DEF Locals, Connect, Working
<1>6. Ahead(lost)' = Wire(m)
  BY <1>1, <1>3, <1>5, JoinTexts DEF Ahead
<1>7. AtVersion(m, Wire(m))'
  <2>1. Without(<< >>, {"SP"}) /\ Join(<< >>, Wire(m)) = FromVersion(m)
    BY <1>1, NothingRead, JoinTexts
  <2> QED
    BY <1>5, <2>1 DEF AtVersion, NoFields, NoHead
<1> QED
  BY <1>3, <1>4, <1>6, <1>7 DEF Follows, AtHead

\* A read cuts what is ahead, and does not change it.
LEMMA ReadFollows ==
  ASSUME Shape, Locals, NEW size \in ReadSizes, Read(size), NEW lost, IsText(lost)
  PROVE  Ahead(lost)' = Ahead(lost)
<1>1. IsText(wire) /\ wire # << >> /\ size \in Nat \ {0} /\ chunk = << >>
  BY ReceiveAssumption DEF Shape, Locals, Read
<1>2. Len(wire) \in Nat
  BY <1>1, TextAsFunction
<1>3. PICK n \in 0..Len(wire) :
        chunk' = SubSeq(wire, 1, n) /\ wire' = SubSeq(wire, n + 1, Len(wire))
  <2> DEFINE n == IF size < Len(wire) THEN size ELSE Len(wire)
  <2>1. n \in 0..Len(wire)
    BY <1>1, <1>2
  <2> QED
    BY <2>1 DEF Read
<1>4. PICK a, b : a = chunk' /\ b = wire'
  OBVIOUS
<1>5. IsText(a) /\ IsText(b) /\ Join(a, b) = wire
  BY <1>1, <1>3, <1>4, CutShorter, CutJoins DEF Join
<1>6. Ahead(lost)' = Join(a, Join(b, lost))
  BY <1>4 DEF Ahead
<1>7. Join(Join(a, b), lost) = Join(a, Join(b, lost))
  BY <1>5, JoinTexts
<1>8. Ahead(lost) = Join(wire, lost)
  <2>1. IsText(Join(wire, lost))
    BY <1>1, JoinTexts
  <2> QED
    BY <1>1, <2>1, JoinTexts DEF Ahead
<1> QED
  BY <1>5, <1>6, <1>7, <1>8

\* The head is accepted: the response holds it as it was sent, and the body follows.
LEMMA AcceptFollows ==
  ASSUME Shape, Storage, Untouched, tidy, NEW m, NEW r, Coming(m, r), AtHead(m, r), AcceptHead
  PROVE  Follows(m, Tail(r))'
<1>1. LinesRead(m, Len(m.headers)) /\ Tail(r) = m.body /\ IsMessage(m) /\ IsText(m.body)
  BY HeadEnds, MessageTexts DEF AcceptHead, Accepting, Coming
<1>2. /\ Delivered = << >> /\ DOMAIN headers = {ContentLength}
  <2>1. ~ApplicationsTurn /\ Working /\ head.state \in HeadStates
    BY DEF AcceptHead, Accepting, EndOfHead, Parsing, ApplicationsTurn, Working, HeadStates
  <2> QED
    BY <2>1 DEF Untouched
<1>3. /\ DOMAIN head.headers = Keys(m)
      /\ \A k \in Keys(m) : head.headers[k] = FieldValue(m, k)
  BY <1>1, AllStored DEF LinesRead, Stored
<1>4. HeadKept(m)'
  <2>1. version' = m.version /\ status' = Number(m.status) /\ description' = m.description
    BY <1>1 DEF AcceptHead, Accepting, LinesRead
  <2>2. headers' = InsertAll(headers, head.headers)
    BY DEF AcceptHead
  <2>3. /\ DOMAIN headers' = Keys(m) \cup {ContentLength}
        /\ \A k \in Keys(m) \ {ContentLength} : headers'[k] = FieldValue(m, k)
    BY <1>2, <1>3, <2>2 DEF InsertAll
  <2> QED
    BY <2>1, <2>3 DEF HeadKept
<1>5. Delivered' = << >>
  BY <1>2 DEF AcceptHead, Accepting, Delivered, fileVars
<1>6. /\ ContentLength \in Keys(m) => IsNumeral(Announced(m)) /\ body_size' = Number(Announced(m))
      /\ ContentLength \notin Keys(m) => body_size' = 0
  BY <1>3 DEF AcceptHead, Announces, AnnouncedSize, Announced
<1>7. Join(<< >>, m.body) = m.body /\ IsPrefix(<< >>, m.body)
  <2>1. PICK e, b : e = << >> /\ b = m.body /\ IsText(e) /\ IsText(b)
    BY <1>1, ShortTexts
  <2>2. IsPrefix(e, e \o b) /\ e \o b = b
    BY <2>1, JoinedBegins, JoinNothing
  <2> QED
    BY <2>1, <2>2 DEF Join
<1>8. head'.state = IF ContentLength \in Keys(m) /\ body_size' = 0 THEN "OK" ELSE "BODY"
  <2>1. head'.state = IF Announces /\ AnnouncedSize = 0 THEN "OK" ELSE "BODY"
    BY DEF AcceptHead, Shape, IsHead, NoHead
  <2> QED
    BY <1>3, <2>1 DEF AcceptHead, Announces
<1>9. CASE ContentLength \in Keys(m) /\ body_size' = 0
  BY <1>4, <1>5, <1>6, <1>7, <1>8, <1>9, Len(<< >>) = 0 DEF Follows, BodyDone, Enough
<1>10. CASE ~(ContentLength \in Keys(m) /\ body_size' = 0)
  BY <1>1, <1>4, <1>5, <1>6, <1>7, <1>8, <1>10 DEF Follows, AtBody
<1> QED
  BY <1>9, <1>10

\* A token of the body is delivered.
LEMMA BodyFollows ==
  ASSUME Shape, Storage, Filed, NEW m, NEW r, Coming(m, r), AtBody(m, r), Body
  PROVE  Follows(m, Tail(r))'
<1>1. IsText(r) /\ r # << >> /\ Head(r) = Head(chunk)
  BY DEF Coming
<1>2. PICK a, b : a = Delivered /\ b = body /\ IsText(a) /\ IsText(b)
  BY DeliveredText
<1>3. PICK f : f = (IF target = NoPath THEN << >> ELSE disk[target]) /\ IsText(f)
  BY ShortTexts DEF Storage, Filed
<1>4. PICK c : c = Head(r)
  OBVIOUS
<1>5. body' = Append(b, c) /\ Delivered' = Join(f, Append(b, c)) /\ a = Join(f, b)
      /\ UNCHANGED <<version, status, description, headers, body_size>>
  BY <1>1, <1>2, <1>3, <1>4 DEF Body, SetBody, Delivered, metaVars, fileVars, Join
<1>6. Delivered' = Append(a, c)
  <2>1. PICK one : one = <<c>> /\ IsText(one)
    BY ShortTexts
  <2>2. Append(a, c) = Join(a, one) /\ Append(b, c) = Join(b, one)
    BY <1>2, <2>1, AppendIsJoin
  <2> QED
    BY <1>2, <1>3, <1>5, <2>1, <2>2, JoinTexts
<1>7. Without(a, {}) /\ Head(r) \notin {}
  BY <1>2 DEF Without
<1>8. IsText(Append(a, c)) /\ Join(Append(a, c), Tail(r)) = m.body
  BY <1>1, <1>2, <1>4, <1>7, PartGoesOn DEF AtBody, Without
<1>9. IsPrefix(Append(a, c), m.body)
  BY <1>1, <1>8, JoinedBegins, FirstToken DEF Join
<1>10. HeadKept(m)'
  BY <1>5 DEF AtBody, HeadKept
<1>11. head'.state = IF Len(body') = body_size THEN "OK" ELSE "BODY"
  BY DEF Body, BodyFull, Shape, IsHead, NoHead
<1>12. CASE Len(body') = body_size
  <2>1. Len(b) \in Nat /\ Len(body') = Len(b) + 1 /\ IsText(Append(b, c))
    BY <1>2, <1>5, AppendedLength
  <2>2. ContentLength \in Keys(m) /\ IsNumeral(Announced(m)) /\ body_size = Number(Announced(m))
    BY <1>12, <2>1 DEF AtBody
  <2>3. Len(f) \in Nat /\ Len(Delivered') = Len(f) + Len(body')
    <3>1. PICK g : g = Append(b, c) /\ IsText(g)
      BY <2>1
    <3>2. Len(f \o g) = Len(f) + Len(g) /\ Len(f) \in Nat
      BY <1>3, <3>1, JoinedLength, TextAsFunction
    <3> QED
      BY <1>5, <3>1, <3>2 DEF Join
  <2>4. Len(Delivered') >= Number(Announced(m))
    <3>1. PICK x, y, z : x = Len(Delivered') /\ y = Number(Announced(m)) /\ z = Len(body')
      OBVIOUS
    <3>2. z \in Nat /\ y = z /\ x = Len(f) + z
      <4>1. z \in Nat
        BY <2>1, <3>1
      <4>2. y = z
        BY <1>12, <2>2, <3>1
      <4>3. x = Len(f) + z
        BY <2>3, <3>1
      <4> QED
        BY <4>1, <4>2, <4>3
    <3>3. x >= y
      BY <2>3, <3>2
    <3> QED
      BY <3>1, <3>3
  <2> QED
    BY <1>6, <1>9, <1>10, <1>11, <1>12, <2>2, <2>4 DEF Follows, BodyDone, Enough
<1>13. CASE Len(body') # body_size
  BY <1>5, <1>6, <1>8, <1>10, <1>11, <1>13 DEF Follows, AtBody
<1> QED
  BY <1>12, <1>13

\* The end of the connection is the end of the body, unless data was lost.
LEMMA EofIsEnd ==
  ASSUME Shape, Storage, Filed, Locals, Untouched, tidy, Expected, IsMessage(peer.message), ReadEof,
         NEW lost, IsText(lost), whole => lost = << >>, Follows(peer.message, Ahead(lost))
  PROVE  Succeeded' /\ whole' => AllThere(peer.message)'
<1> SUFFICES ASSUME status \in 200..299, whole PROVE AllThere(peer.message)'
  BY DEF ReadEof, Succeeded, metaVars, netVars
<1>1. PICK m : m = peer.message /\ IsText(m.body)
  BY MessageTexts
<1>2. Delivered' = Delivered /\ peer' = peer /\ IsText(Delivered)
  BY DeliveredText DEF ReadEof, Delivered, netVars, fileVars
<1>3. Ahead(lost) = << >>
  <2>1. wire = << >> /\ chunk = << >> /\ lost = << >>
    BY DEF ReadEof, Locals
  <2> QED
    BY <2>1, ShortTexts, JoinTexts DEF Ahead
<1>4. CASE AtHead(m, Ahead(lost))
  <2>1. ~ApplicationsTurn /\ head.state \in HeadStates
    BY <1>4 DEF ReadEof, ApplicationsTurn, AtHead, AtVersion, AtStatus, AtDescription, AtKey, AtValue,
       HeadStates
  <2>2. status = 0
    BY <2>1 DEF Untouched
  <2> QED
    BY <2>2
<1>5. CASE AtBody(m, Ahead(lost))
  <2>1. Delivered = m.body
    BY <1>2, <1>3, <1>5, JoinTexts DEF AtBody
  <2>2. IsPrefix(m.body, m.body) /\ Len(m.body) \in Nat
    BY <1>1, BeginsWithItself, TextAsFunction
  <2>3. PICK n, l : n = Number(Announced(m)) /\ l = Len(m.body)
    OBVIOUS
  <2>4. ContentLength \in Keys(m) => n \in Nat
    BY <1>5, <2>3, ReceiveAssumption DEF AtBody, IsNumeral, Number
  <2>5. ContentLength \in Keys(m) /\ n <= l => l >= n
    BY <2>2, <2>3, <2>4
  <2> QED
    BY <1>1, <1>2, <2>1, <2>2, <2>3, <2>5 DEF AllThere, Enough
<1>6. CASE BodyDone(m)
  <2>1. AllThere(m)
    BY <1>1, <1>6, DoneIsAll
  <2> QED
    BY <1>1, <1>2, <2>1 DEF AllThere, Enough
<1> QED
  BY <1>1, <1>4, <1>5, <1>6 DEF Follows

\* A step inside receive(), the last one apart, goes on with the message.
LEMMA WorkFollows ==
  ASSUME Shape, Counted, Filed, Types, Locals, Untouched, tidy, Expected, Expected',
         Working, Working', Next,
         NEW m, m = peer.message, NEW lost, IsText(lost), Follows(m, Ahead(lost))
  PROVE  \E r : r = Ahead(lost)' /\ Follows(m, r)'
<1> USE DEF Working
<1>m. IsMessage(m) /\ WellFormed(m) /\ Spaced(m) /\ Storage
  BY PeersMessage DEF Expected, Counted
<1>1. ASSUME NEW size \in ReadSizes, Read(size)
      PROVE  \E r : r = Ahead(lost)' /\ Follows(m, r)'
  <2>1. Ahead(lost)' = Ahead(lost)
    BY <1>1, ReadFollows
  <2>2. /\ UNCHANGED <<head, version, status, description, headers, body_size>>
        /\ Delivered' = Delivered
    BY <1>1 DEF Read, Delivered, responseVars, metaVars, bodyVars, fileVars
  <2>3. PICK r : r = Ahead(lost)
    OBVIOUS
  <2>4. Follows(m, r)'
    BY <2>2, <2>3, FollowsStays
  <2> QED
    BY <2>1, <2>3, <2>4
<1>2. CASE Flush
  <2>1. UNCHANGED <<chunk, wire, head, version, status, description, headers, body_size>>
    BY <1>2 DEF Flush, netVars, bufferVars, metaVars
  <2>2. Delivered' = Delivered
    BY <1>2, FlushDelivers
  <2>3. PICK r : r = Ahead(lost)
    OBVIOUS
  <2>4. Follows(m, r)'
    BY <2>1, <2>2, <2>3, FollowsStays
  <2>5. Ahead(lost)' = Ahead(lost)
    BY <2>1 DEF Ahead
  <2> QED
    BY <2>3, <2>4, <2>5
<1>3. CASE Ok
  <2>1. /\ head.state = "OK" /\ Delivered' = Delivered
        /\ UNCHANGED <<head, version, status, description, headers, body_size>>
    BY <1>3 DEF Ok, Parsing, Delivered, responseVars, metaVars, bodyVars, fileVars
  <2>2. PICK s : s = Ahead(lost)
    OBVIOUS
  <2>3. BodyDone(m)
    BY <2>1 DEF Follows, AtHead, AtVersion, AtStatus, AtDescription, AtKey, AtValue, AtBody
  <2>4. BodyDone(m)'
    BY <2>1, <2>3 DEF BodyDone, HeadKept, Enough
  <2> QED
    BY <2>4 DEF Follows
<1>4. CASE HeadToken \/ AcceptHead \/ Body
  <2>0. PICK r : r = Ahead(lost)
    OBVIOUS
  <2>1. /\ phase = "parse" /\ IsText(chunk) /\ chunk # << >> /\ IsText(wire) /\ IsHead(head)
        /\ Consume /\ UNCHANGED wire
    BY <1>4, HeadTokenStep
    DEF Shape, AcceptHead, Accepting, EndOfHead, Body, Parsing, netVars
  <2>2. Coming(m, r) /\ Tail(r) = Join(Tail(chunk), Join(wire, lost))
    BY <1>m, <2>0, <2>1, TokenTaken DEF Coming
  <2>3. Tail(r) = Ahead(lost)'
    BY <2>1, <2>2 DEF Ahead, Consume
  <2>4. Follows(m, Tail(r))'
    <3>1. CASE HeadToken
      <4>1. AtHead(m, r)
        BY <2>0, <3>1, HeadTokenStep DEF Follows, AtBody, BodyDone, HeadStates
      <4> QED
        BY <2>2, <3>1, <4>1, HeadAdvances DEF Follows
    <3>2. CASE AcceptHead
      <4>1. AtHead(m, r)
        BY <2>0, <3>2 DEF Follows, AtBody, BodyDone, AcceptHead, Accepting, EndOfHead, Parsing
      <4> QED
        BY <1>m, <2>2, <3>2, <4>1, AcceptFollows
    <3>3. CASE Body
      <4>1. AtBody(m, r)
        BY <2>0, <3>3 DEF Follows, AtHead, AtVersion, AtStatus, AtDescription, AtKey, AtValue, BodyDone,
           Body, Parsing
      <4> QED
        BY <1>m, <2>2, <3>3, <4>1, BodyFollows
    <3> QED
      BY <1>4, <3>1, <3>2, <3>3
  <2> QED
    BY <2>3, <2>4
<1>5. CASE ReadNothing
  <2>1. errors' # 0
    BY <1>5 DEF ReadNothing, Shape
  <2> QED
    BY <2>1 DEF Expected
<1>6. CASE Ends
  BY <1>6, EndStep
<1>7. ~(ConnectFails \/ Reset \/ ResetThrows \/ Finished \/ FollowRedirect)
  BY DEF ConnectFails, Reset, ResetThrows, Finished, FollowRedirect, Leave, ApplicationsTurn
<1>8. ASSUME NEW u \in FileParts PROVE ~Starttransfer(u)
  BY DEF Starttransfer, ApplicationsTurn
<1>9. ASSUME NEW c \in Connections, NEW n \in 0..Len(Wire(c.message)) PROVE ~Connect(c, n)
  BY DEF Connect
<1> QED
  BY <1>1, <1>2, <1>3, <1>4, <1>5, <1>6, <1>7, <1>8, <1>9 DEF Next, Worker, Receive, HeadToken, Ends

\* Every step keeps the parser at the place where the server is.
LEMMA FaithfulStep ==
  ASSUME Shape, Counted, Filed, Types, Locals, Untouched, Faithful, [Next]_vars
  PROVE  Faithful'
<1> SUFFICES ASSUME tidy', Expected'
             PROVE  /\ Working' => \E lost : /\ IsText(lost) /\ (whole' => lost = << >>)
                                             /\ \E r : r = Ahead(lost)' /\ Follows(peer.message, r)'
                    /\ Succeeded' /\ whole' => AllThere(peer.message)'
  BY DEF Faithful
<1> USE DEF Working
<1>1. CASE UNCHANGED vars \/ ResetThrows
  <2>1. UNCHANGED <<phase, peer, errors, whole, wire, chunk, head, tidy, target, version, status,
                    description, headers, body, body_size, disk>>
    BY <1>1 DEF vars, ResetThrows, ResetResponseThrows, netVars, bufferVars, appVars, responseVars,
       metaVars, bodyVars, fileVars
  <2>2. tidy /\ Expected /\ Delivered' = Delivered
    BY <2>1 DEF Expected, Delivered
  <2>3. PICK m : m = peer.message
    OBVIOUS
  <2>4. ASSUME Working
        PROVE  \E lost : /\ IsText(lost) /\ (whole' => lost = << >>)
                         /\ \E r : r = Ahead(lost)' /\ Follows(peer.message, r)'
    <3>1. PICK lost : /\ IsText(lost) /\ (whole => lost = << >>) /\ Follows(m, Ahead(lost))
      BY <2>2, <2>3, <2>4 DEF Faithful
    <3>2. PICK r : r = Ahead(lost)
      OBVIOUS
    <3>3. Follows(m, r)' /\ Ahead(lost)' = r
      BY <2>1, <2>2, <3>1, <3>2, FollowsStays DEF Ahead
    <3> QED
      BY <2>1, <2>3, <3>1, <3>3
  <2>5. Succeeded /\ whole => AllThere(peer.message)
    BY <2>2 DEF Faithful
  <2> QED
    BY <2>1, <2>2, <2>4, <2>5 DEF Succeeded, AllThere, Enough
<1>2. CASE Finished
  BY <1>1, <1>2 DEF Finished
<1>3. ASSUME phase' \in {"idle", "connect", "threw"}
      PROVE  ~Working' /\ ~Succeeded'
  BY <1>3 DEF Succeeded
<1>4. ASSUME NEW u \in FileParts, Starttransfer(u)
      PROVE  ~Working' /\ ~Succeeded'
  BY <1>3, <1>4 DEF Starttransfer
<1>5. CASE Reset \/ ConnectFails \/ FollowRedirect
  BY <1>3, <1>5 DEF Reset, ConnectFails, FollowRedirect, Leave
<1>6. ASSUME NEW c \in Connections, NEW n \in 0..Len(Wire(c.message)), Connect(c, n)
      PROVE  /\ \E lost : /\ IsText(lost) /\ (whole' => lost = << >>)
                          /\ \E r : r = Ahead(lost)' /\ Follows(peer.message, r)'
             /\ ~Succeeded'
  <2>1. phase = "connect" /\ phase' = "read" /\ peer' = c
    BY <1>6 DEF Connect
  <2>2. PICK lost, r : /\ IsText(lost) /\ (whole' => lost = << >>)
                       /\ r = Ahead(lost)' /\ Follows(c.message, r)'
    BY <1>6, <2>1, ConnectFollows
  <2>3. Follows(peer.message, r)'
    BY <2>1, <2>2
  <2> QED
    BY <2>1, <2>2, <2>3 DEF Succeeded
<1>7. ASSUME Working, Next, ~Finished, ~FollowRedirect
      PROVE  /\ Expected /\ tidy /\ peer' = peer /\ whole' = whole
             /\ ReadEof \/ Ends \/ Working'
  <2>1. ~ReadNothing
    BY DEF ReadNothing, Shape, Expected
  <2>2. /\ UNCHANGED <<netVars, tidy>> \/ UNCHANGED <<peer, errors, whole, tidy>>
        /\ Ends \/ Working'
    <3>1. CASE Ends
      <4>1. UNCHANGED netVars
        BY <3>1, EndStep
      <4>2. UNCHANGED tidy
        BY <3>1 DEF Ends, ReadEof, ReadThrows, BadStatus, FatalStatus, RedirectFails, FinalWithoutBody,
           DisconnectThrows, BadContentLength, Accepting, Complete, FlushFails, appVars
      <4> QED
        BY <3>1, <4>1, <4>2
    <3>2. CASE HeadToken
      BY <3>2, HeadTokenStep DEF Consume, AfterToken, appVars
    <3>3. CASE AcceptHead \/ Body \/ Ok \/ Flush \/ \E size \in ReadSizes : Read(size)
      BY <3>3 DEF AcceptHead, Accepting, Body, Ok, Flush, Read, Consume, AfterToken, appVars
    <3>4. ~(ConnectFails \/ Reset \/ ResetThrows)
      BY <1>7 DEF ConnectFails, Reset, ResetThrows, ApplicationsTurn
    <3>5. ASSUME NEW u \in FileParts PROVE ~Starttransfer(u)
      BY <1>7 DEF Starttransfer, ApplicationsTurn
    <3>6. ASSUME NEW c \in Connections, NEW n \in 0..Len(Wire(c.message)) PROVE ~Connect(c, n)
      BY <1>7 DEF Connect
    <3> QED
      BY <1>7, <2>1, <3>1, <3>2, <3>3, <3>4, <3>5, <3>6
      DEF Next, Worker, Receive, HeadToken, Ends
  <2> QED
    BY <2>2 DEF netVars, Expected
<1>8. CASE Ends
  <2>1. /\ Working /\ ~Working' /\ ~Finished /\ ~FollowRedirect /\ Next
    BY <1>8, EndStep DEF Finished, FollowRedirect, Leave, Next, Worker, Receive, Ends, ApplicationsTurn
  <2>2. Expected /\ tidy /\ peer' = peer /\ whole' = whole
    BY <1>7, <2>1
  <2>3. PICK lost : /\ IsText(lost) /\ (whole => lost = << >>) /\ Follows(peer.message, Ahead(lost))
    BY <2>1, <2>2 DEF Faithful
  <2>4. CASE ReadEof
    <3>1. IsMessage(peer.message) /\ Storage
      BY PeersMessage DEF Counted
    <3>2. Succeeded' /\ whole' => AllThere(peer.message)'
      BY <2>2, <2>3, <2>4, <3>1, EofIsEnd
    <3> QED
      BY <2>1, <3>2
  <2>5. CASE FatalStatus \/ RedirectFails
    <3>1. status' = head.status /\ head.status \in Nat /\ head.status >= 300
      BY <2>5 DEF FatalStatus, RedirectFails, Redirected, FinalWithoutBody, IsFatal, IsRedirect,
         Shape, IsHead
    <3>2. ~Succeeded'
      BY <3>1 DEF Succeeded
    <3> QED
      BY <2>1, <3>2
  <2>6. CASE Complete
    <3>1. head.state = "OK" /\ Delivered' = Delivered
      BY <2>6 DEF Complete, Shape, Delivered, bodyVars
    <3>2. BodyDone(peer.message)
      BY <2>3, <3>1 DEF Follows, AtHead, AtVersion, AtStatus, AtDescription, AtKey, AtValue, AtBody
    <3>3. AllThere(peer.message)
      BY <1>8, <3>2, PeersMessage, DoneIsAll DEF Shape, Counted
    <3>4. AllThere(peer.message)'
      BY <2>2, <3>1, <3>3 DEF AllThere, Enough
    <3> QED
      BY <2>1, <3>4
  <2>7. CASE ReadThrows \/ BadStatus \/ DisconnectThrows \/ BadContentLength \/ FlushFails
    <3>1. phase' = "threw"
      BY <2>7 DEF ReadThrows, BadStatus, DisconnectThrows, BadContentLength, FlushFails, Leave
    <3> QED
      BY <1>3, <3>1
  <2> QED
    BY <1>8, <2>4, <2>5, <2>6, <2>7 DEF Ends
<1>9. CASE Working /\ Next /\ ~Finished /\ ~FollowRedirect /\ ~Ends
  <2>1. Expected /\ tidy /\ peer' = peer /\ whole' = whole /\ Working'
    BY <1>7, <1>9 DEF Ends
  <2>2. PICK lost : /\ IsText(lost) /\ (whole => lost = << >>) /\ Follows(peer.message, Ahead(lost))
    BY <1>9, <2>1 DEF Faithful
  <2>3. PICK m : m = peer.message
    OBVIOUS
  <2>4. PICK r : r = Ahead(lost)' /\ Follows(m, r)'
    BY <1>9, <2>1, <2>2, <2>3, WorkFollows
  <2>5. Follows(peer.message, r)'
    BY <2>1, <2>3, <2>4
  <2>6. ~Succeeded'
    BY <2>1 DEF Succeeded
  <2> QED
    BY <2>1, <2>2, <2>4, <2>5, <2>6
<1>10. Next /\ ~Working => \/ Reset \/ ResetThrows \/ ConnectFails \/ Finished
                           \/ \E u \in FileParts : Starttransfer(u)
                           \/ \E c \in Connections : \E n \in 0..Len(Wire(c.message)) : Connect(c, n)
  <2>1. ASSUME HeadToken PROVE Working
    BY <2>1, HeadTokenStep
  <2>2. ASSUME Ends PROVE Working
    BY <2>2, EndStep
  <2>3. ASSUME \/ AcceptHead \/ Body \/ Ok \/ Flush \/ FollowRedirect \/ ReadNothing
               \/ \E size \in ReadSizes : Read(size)
        PROVE  Working
    BY <2>3 DEF AcceptHead, Accepting, FollowRedirect, Redirected, EndOfHead, Body, Ok, Parsing, Flush,
       Read, ReadNothing
  <2> QED
    BY <2>1, <2>2, <2>3 DEF Next, Worker, Receive, HeadToken, Ends
<1>11. CASE Next /\ ~Working
  BY <1>1, <1>2, <1>4, <1>5, <1>6, <1>10, <1>11 DEF Connect, Succeeded
<1> QED
  BY <1>1, <1>2, <1>5, <1>8, <1>9, <1>11

-------------------------------------------------------------------------------
(* The file that a failed write leaves.                                    *)

\* A text cut in two is the two parts joined.
LEMMA CutInTwo ==
  ASSUME NEW s, IsText(s), NEW n \in 0..Len(s)
  PROVE  \E rest : IsText(SubSeq(s, 1, n)) /\ IsText(rest) /\ s = Join(SubSeq(s, 1, n), rest)
<1>1. PICK a, b : a = SubSeq(s, 1, n) /\ b = SubSeq(s, n + 1, Len(s))
  OBVIOUS
<1>2. IsText(a) /\ IsText(b) /\ a \o b = s
  BY <1>1, CutShorter, CutJoins
<1> QED
  BY <1>1, <1>2 DEF Join

\* The beginning of a beginning is one.
LEMMA BeginningBegins ==
  ASSUME NEW s, NEW t, NEW u, IsText(s), IsText(t), IsText(u), IsPrefix(Join(s, t), u)
  PROVE  IsPrefix(s, u)
<1>1. PICK d : d = Join(s, t) /\ IsText(d)
  BY JoinTexts
<1>2. PICK n : n = Len(d) /\ n \in Nat
  BY <1>1, TextAsFunction
<1>3. SubSeq(d, 1, n) = d
  BY <1>1, <1>2, SubSeqFull DEF IsText
<1>4. n <= Len(u) /\ Len(u) \in Nat /\ SubSeq(u, 1, n) = d
  BY <1>1, <1>2, <1>3, TextAsFunction DEF IsPrefix
<1>5. n \in 0..Len(u)
  BY <1>2, <1>4
<1>6. PICK r : IsText(r) /\ u = Join(d, r)
  <2>1. \E rest : IsText(SubSeq(u, 1, n)) /\ IsText(rest) /\ u = Join(SubSeq(u, 1, n), rest)
    BY <1>5, CutInTwo, Zenon
  <2> QED
    BY <1>4, <2>1, Zenon
<1>7. PICK e : e = Join(t, r) /\ IsText(e)
  BY <1>6, JoinTexts
<1>8. u = Join(s, e)
  BY <1>1, <1>6, <1>7, JoinTexts
<1> QED
  BY <1>7, <1>8, JoinedBegins DEF Join

\* At every point of receive(), what was delivered is a beginning of the body: nothing,
\* while the parser is in the head.
LEMMA DeliveredBegins ==
  ASSUME Shape, Counted, Filed, Types, Untouched, Faithful, tidy, Expected, Working
  PROVE  IsPrefix(Delivered, peer.message.body)
<1>1. PICK m : m = peer.message /\ IsText(m.body)
  BY PeersMessage, MessageTexts
<1>2. IsText(Delivered) /\ Len(m.body) \in Nat
  BY <1>1, DeliveredText, TextAsFunction DEF Counted
<1>3. PICK lost : IsText(lost) /\ Follows(m, Ahead(lost))
  BY <1>1 DEF Faithful
<1>4. CASE AtHead(m, Ahead(lost))
  <2>1. ~ApplicationsTurn /\ head.state \in HeadStates
    BY <1>4 DEF Working, ApplicationsTurn, AtHead, AtVersion, AtStatus, AtDescription, AtKey, AtValue,
       HeadStates
  <2>2. Delivered = << >>
    BY <2>1 DEF Untouched
  <2>3. IsPrefix(<< >>, << >> \o m.body) /\ << >> \o m.body = m.body
    BY <1>1, ShortTexts, JoinedBegins, JoinNothing
  <2> QED
    BY <1>1, <2>2, <2>3
<1>5. CASE AtBody(m, Ahead(lost))
  <2>1. PICK r : r = Ahead(lost) /\ IsText(r)
    BY <1>3, JoinTexts DEF Ahead, Shape
  <2>2. IsPrefix(Delivered, Delivered \o r)
    BY <1>2, <2>1, JoinedBegins
  <2> QED
    BY <1>1, <1>5, <2>1, <2>2 DEF AtBody, Join
<1>6. CASE BodyDone(m)
  BY <1>1, <1>6 DEF BodyDone, Enough
<1> QED
  BY <1>3, <1>4, <1>5, <1>6 DEF Follows

\* After an exception, the file this transfer wrote to holds a beginning of the body.
PartialFile ==
  tidy /\ Expected /\ phase = "threw" /\ target # NoPath =>
    IsPrefix(disk[target], peer.message.body)

\* No transfer has begun.
LEMMA PartialFileInit == Init => PartialFile
BY DEF Init, PartialFile

\* A write that fails has put a beginning of what was in memory into the file.
LEMMA FailedWriteBegins ==
  ASSUME Counted, Filed, tidy, FlushFails, target' # NoPath
  PROVE  \E rest : IsText(disk'[target']) /\ IsText(rest) /\ Delivered = Join(disk'[target'], rest)
<1>1. /\ Storage /\ phase = "flush" /\ target = IF opened THEN filepath ELSE NoPath
      /\ target' = IF opened' THEN filepath' ELSE target
      /\ opened \/ filename # NoName
  BY DEF Counted, Sizes, FlushFails, FlushThrows, ApplicationsTurn
<1>2. PICK n \in 0..Len(body) : WriteToFile(SubSeq(body, 1, n))
  BY <1>1 DEF FlushFails, FlushThrows
<1>3. PICK a, b : a = SubSeq(body, 1, n) /\ IsText(a) /\ IsText(b) /\ body = Join(a, b)
  <2>1. PICK rest : IsText(SubSeq(body, 1, n)) /\ IsText(rest) /\ body = Join(SubSeq(body, 1, n), rest)
    BY <1>1, CutInTwo DEF Storage
  <2> QED
    BY <2>1
<1>4. opened' = TRUE /\ disk'[filepath'] = Join(Contents, a) /\ IsText(Contents)
  BY <1>1, <1>2, <1>3, WriteGrows DEF Join
<1>5. Delivered = Join(Contents, body)
  BY <1>1 DEF Delivered, Contents, Storage, Join
<1>6. Join(Contents, body) = Join(Join(Contents, a), b) /\ IsText(Join(Contents, a))
  BY <1>3, <1>4, JoinTexts
<1> QED
  BY <1>1, <1>3, <1>4, <1>5, <1>6

\* Every exception leaves a beginning of the body in the file.
LEMMA PartialFileStep ==
  ASSUME Shape, Counted, Filed, Types, Untouched, Faithful, PartialFile, [Next]_vars
  PROVE  PartialFile'
<1> SUFFICES ASSUME tidy', Expected', phase' = "threw", target' # NoPath
             PROVE  IsPrefix(disk'[target'], peer'.message.body)
  BY DEF PartialFile
<1>s. Storage /\ IsText(Delivered) /\ IsText(body) /\ IsText(peer.message.body)
  BY DeliveredText, PeersMessage, MessageTexts DEF Counted
<1>1. CASE UNCHANGED vars \/ Finished \/ ResetThrows
  <2>1. UNCHANGED <<phase, peer, errors, tidy, target, disk>>
    BY <1>1 DEF Finished, vars, ResetThrows, ResetResponseThrows, netVars, appVars, responseVars, fileVars
  <2> QED
    BY <2>1 DEF PartialFile, Expected
<1>2. ASSUME UNCHANGED <<peer, errors, tidy, target, disk>>, IsPrefix(Delivered, peer.message.body)
      PROVE  IsPrefix(disk'[target'], peer'.message.body)
  <2>1. PICK t : t = disk[target] /\ IsText(t) /\ Delivered = Join(t, body)
    BY <1>2, <1>s DEF Storage, Filed, Delivered, Join
  <2>2. IsPrefix(t, peer.message.body)
    BY <1>2, <1>s, <2>1, BeginningBegins
  <2> QED
    BY <1>2, <2>1, <2>2
<1>3. CASE ConnectFails
  <2>1. phase = "connect" /\ UNCHANGED <<peer, errors, tidy, target, disk>>
    BY <1>3 DEF ConnectFails, netVars, appVars, responseVars, fileVars
  <2>2. Delivered = << >>
    BY <2>1 DEF Untouched, Shape, ApplicationsTurn
  <2>3. IsPrefix(<< >>, << >> \o peer.message.body) /\ << >> \o peer.message.body = peer.message.body
    BY <1>s, ShortTexts, JoinedBegins, JoinNothing
  <2> QED
    BY <1>2, <2>1, <2>2, <2>3
<1>4. CASE Ends
  <2>1. /\ Working /\ UNCHANGED <<peer, errors, tidy>>
        /\ FlushFails \/ UNCHANGED <<target, disk>>
    <3>1. Working /\ UNCHANGED <<peer, errors>>
      BY <1>4, EndStep DEF Working, netVars
    <3>2. UNCHANGED tidy
      BY <1>4 DEF Ends, ReadEof, ReadThrows, BadStatus, FatalStatus, RedirectFails, FinalWithoutBody,
         DisconnectThrows, BadContentLength, Accepting, Complete, FlushFails, appVars
    <3>3. FlushFails \/ UNCHANGED <<target, disk>>
      BY <1>4 DEF Ends, ReadEof, ReadThrows, BadStatus, FatalStatus, RedirectFails, FinalWithoutBody,
         DisconnectThrows, BadContentLength, Accepting, Complete, responseVars, fileVars
    <3> QED
      BY <3>1, <3>2, <3>3
  <2>2. Expected /\ tidy
    BY <2>1 DEF Expected
  <2>3. IsPrefix(Delivered, peer.message.body)
    BY <2>1, <2>2, DeliveredBegins
  <2>4. CASE UNCHANGED <<target, disk>>
    BY <1>2, <2>1, <2>3, <2>4
  <2>5. CASE FlushFails
    <3>1. PICK t, rest : t = disk'[target'] /\ IsText(t) /\ IsText(rest) /\ Delivered = Join(t, rest)
      BY <2>2, <2>5, FailedWriteBegins
    <3>2. IsPrefix(t, peer.message.body)
      BY <1>s, <2>3, <3>1, BeginningBegins
    <3> QED
      BY <2>1, <3>1, <3>2
  <2> QED
    BY <2>1, <2>4, <2>5
<1>5. ~HeadToken /\ ~(AcceptHead \/ Body)
  <2>1. HeadToken \/ AcceptHead \/ Body => Consume
    BY HeadTokenStep DEF AcceptHead, Body
  <2> QED
    BY <2>1 DEF Consume, AfterToken
<1>6. ~(Reset \/ ReadNothing \/ FollowRedirect \/ Ok \/ Flush)
  BY DEF Reset, ReadNothing, FollowRedirect, Leave, Ok, Flush
<1>7. ASSUME NEW u \in FileParts PROVE ~Starttransfer(u)
  BY DEF Starttransfer
<1>8. ASSUME NEW c \in Connections, NEW n \in 0..Len(Wire(c.message)) PROVE ~Connect(c, n)
  BY DEF Connect
<1>9. ASSUME NEW size \in ReadSizes PROVE ~Read(size)
  BY DEF Read
<1> QED
  BY <1>1, <1>3, <1>4, <1>5, <1>6, <1>7, <1>8, <1>9 DEF Next, Worker, Receive, HeadToken, Ends

-------------------------------------------------------------------------------
(* The theorems.                                                           *)

\* The invariant: at every point of receive(), in every transfer of an application that
\* resets its response, what the parser has of the part it is in, joined to what is
\* still to come, is what the server means to send from that part on.
THEOREM FaithfulAlways ==
  Spec => [](Shape /\ Counted /\ Filed /\ Types /\ Locals /\ Untouched /\ Faithful /\ PartialFile)
<1> DEFINE IInv == Shape /\ Counted /\ Filed /\ Types /\ Locals /\ Untouched /\ Faithful /\ PartialFile
<1>1. Init => IInv
  BY ShapeInit, CountedInit, FiledInit, TypesInit, LocalsInit, UntouchedInit, FaithfulInit, PartialFileInit
<1>2. IInv /\ [Next]_vars => IInv'
  BY ShapeStep, CountedStep, FiledStep, TypesStep, LocalsStep, UntouchedStep, FaithfulStep, PartialFileStep
  DEF Counted
<1> QED
  BY <1>1, <1>2, PTL DEF Spec

\* In the body, the parser is in the body of the message.
LEMMA InBodyFollows ==
  ASSUME Shape, Faithful, InBody, tidy, Expected
  PROVE  \E lost : IsText(lost) /\ (AtBody(peer.message, Ahead(lost)) \/ BodyDone(peer.message))
<1>1. Working
  BY DEF InBody, ApplicationsTurn, Shape, Phases, Working
<1>2. PICK lost : IsText(lost) /\ Follows(peer.message, Ahead(lost))
  BY <1>1 DEF Faithful
<1> QED
  BY <1>2 DEF InBody, Follows, AtHead, AtVersion, AtStatus, AtDescription, AtKey, AtValue

\* The head of a well-formed answer arrives as it was sent, however the network cuts it
\* and whatever answers, redirects and transfers came before.
THEOREM HeadArrives == Spec => []HeadAsSent
<1>1. Shape /\ Faithful => HeadAsSent
  BY InBodyFollows DEF HeadAsSent, AtBody, BodyDone, HeadKept
<1> QED
  BY <1>1, FaithfulAlways, PTL

\* The body is delivered in order, nothing missing, doubled or added, and all of it when
\* the transfer succeeds on a connection that lost nothing; a transfer that failed leaves
\* the beginning of it in its file.
THEOREM BodyArrives == Spec => []BodyAsSent
<1>1. ASSUME Shape, Counted, Filed, Types, Untouched, Faithful, PartialFile PROVE BodyAsSent
  <2>1. ASSUME tidy, Expected, InBody PROVE IsPrefix(Delivered, peer.message.body)
    <3>1. Working
      BY <1>1, <2>1 DEF InBody, ApplicationsTurn, Shape, Phases, Working
    <3> QED
      BY <1>1, <2>1, <3>1, DeliveredBegins
  <2>2. ASSUME tidy, Expected, Succeeded, whole PROVE AllThere(peer.message)
    BY <1>1, <2>2 DEF Faithful
  <2>3. ASSUME tidy, Expected, phase = "threw", target # NoPath
        PROVE  IsPrefix(disk[target], peer.message.body)
    BY <1>1, <2>3 DEF PartialFile
  <2> QED
    BY <2>1, <2>2, <2>3 DEF BodyAsSent, AllThere, Enough, Announced
<1> QED
  BY <1>1, FaithfulAlways, PTL
================================================================================
