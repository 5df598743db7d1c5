------------------------------ MODULE TextLemmas ------------------------------
(***************************************************************************)
(* Facts about texts, which are sequences of tokens of any kind: how they  *)
(* are cut, joined and read token by token.  The proofs about the text     *)
(* receive() parses and the text send() writes rest on them.               *)
(*                                                                         *)
(* Where a fact needs induction, it is by the least counterexample: a      *)
(* nonempty set of numbers has a least element.                            *)
(***************************************************************************)
EXTENDS Integers, SequencesExt, SequenceTheorems, WellFoundedInduction, TLAPS

\* A sequence, whatever its elements are.
IsText(s) == \E S : s \in Seq(S)

-------------------------------------------------------------------------------
(* Induction.                                                              *)

\* A nonempty set of natural numbers has a least element.
LEMMA LeastNumber ==
  ASSUME NEW T, T \subseteq Nat, T # {}
  PROVE  \E x \in T : \A y \in T : x <= y
<1>1. \E x \in T : \A y \in T : ~(<<y, x>> \in OpToRel(<, Nat))
  BY WFMin, NatLessThanWellFounded
<1>2. \A x, y \in Nat : ~(<<y, x>> \in OpToRel(<, Nat)) => x <= y
  BY DEF OpToRel
<1> QED
  BY <1>1, <1>2

\* A set that holds 0 and, with every number, the next one holds all of them.
LEMMA AllNumbers ==
  ASSUME NEW T, 0 \in T, \A n \in Nat : n \in T => n + 1 \in T
  PROVE  Nat \subseteq T
<1> SUFFICES ASSUME Nat \ T # {} PROVE FALSE
  OBVIOUS
<1>1. PICK x \in Nat \ T : \A y \in Nat \ T : x <= y
  BY LeastNumber
<1>2. x # 0 /\ x - 1 \in Nat /\ x - 1 \in T
  BY <1>1
<1> QED
  BY <1>1, <1>2

\* A set that holds 1 and, with every index below n, the next one holds all indices.
LEMMA AllIndices ==
  ASSUME NEW n \in Nat, NEW T, 1 \in T, \A i \in 1..n : i \in T /\ i + 1 \in 1..n => i + 1 \in T
  PROVE  1..n \subseteq T
<1> SUFFICES ASSUME (1..n) \ T # {} PROVE FALSE
  OBVIOUS
<1>1. PICK x \in (1..n) \ T : \A y \in (1..n) \ T : x <= y
  <2>1. (1..n) \ T \subseteq Nat
    OBVIOUS
  <2> QED
    BY <2>1, LeastNumber
<1>2. x # 1 /\ x - 1 \in 1..n /\ x - 1 \in T /\ (x - 1) + 1 = x
  BY <1>1
<1> QED
  BY <1>1, <1>2

-------------------------------------------------------------------------------
(* Length.                                                                 *)

\* Taking the first element of a text leaves a shorter one.
LEMMA TailShorter ==
  ASSUME NEW s, IsText(s), s # << >>
  PROVE  IsText(Tail(s)) /\ Len(s) \in Nat /\ Len(Tail(s)) = Len(s) - 1
<1>1. PICK S : s \in Seq(S)
  BY DEF IsText
<1> QED
  BY <1>1 DEF IsText

\* Cutting a text in two leaves texts, the second as much shorter as the first is long.
LEMMA CutShorter ==
  ASSUME NEW s, IsText(s), NEW n \in 0..Len(s)
  PROVE  /\ IsText(SubSeq(s, 1, n)) /\ Len(SubSeq(s, 1, n)) = n
         /\ IsText(SubSeq(s, n + 1, Len(s))) /\ Len(SubSeq(s, n + 1, Len(s))) = Len(s) - n
<1>1. PICK S : s \in Seq(S)
  BY DEF IsText
<1>2. SubSeq(s, 1, n) \in Seq(S) /\ SubSeq(s, n + 1, Len(s)) \in Seq(S)
  BY <1>1
<1>3. Len(SubSeq(s, 1, n)) = n /\ Len(SubSeq(s, n + 1, Len(s))) = Len(s) - n
  BY <1>1
<1> QED
  BY <1>2, <1>3 DEF IsText

\* A text and what follows it are as long as the two together.
LEMMA JoinedLength ==
  ASSUME NEW s, NEW t, IsText(s), IsText(t)
  PROVE  IsText(s \o t) /\ Len(s \o t) = Len(s) + Len(t)
<1>1. PICK S, T : s \in Seq(S) /\ t \in Seq(T)
  BY DEF IsText
<1>2. s \in Seq(S \cup T) /\ t \in Seq(S \cup T)
  BY <1>1
<1>3. s \o t \in Seq(S \cup T) /\ Len(s \o t) = Len(s) + Len(t)
  BY <1>2
<1> QED
  BY <1>3 DEF IsText

\* A text grows by what is appended to it.
LEMMA AppendedLength ==
  ASSUME NEW s, NEW e, IsText(s)
  PROVE  IsText(Append(s, e)) /\ Len(s) \in Nat /\ Len(Append(s, e)) = Len(s) + 1
<1>1. PICK S : s \in Seq(S)
  BY DEF IsText
<1>2. s \in Seq(S \cup {e})
  BY <1>1
<1>3. Append(s, e) \in Seq(S \cup {e})
  BY <1>2
<1> QED
  BY <1>1, <1>2, <1>3 DEF IsText

\* The beginning of anything is a text.
LEMMA BeginningIsText ==
  ASSUME NEW s, NEW n \in Nat
  PROVE  IsText(SubSeq(s, 1, n))
<1>1. SubSeq(s, 1, n) \in Seq({s[i] : i \in 1..n})
  BY SubSeqProperties
<1> QED
  BY <1>1 DEF IsText

\* Nothing, and one token, are texts.
LEMMA ShortTexts == IsText(<< >>) /\ \A e : IsText(<<e>>)
<1>1. << >> \in Seq({}) /\ \A e : <<e>> \in Seq({e})
  OBVIOUS
<1> QED
  BY <1>1 DEF IsText

\* A text is a function on the numbers up to its length.
LEMMA TextAsFunction ==
  ASSUME NEW s, IsText(s)
  PROVE  Len(s) \in Nat /\ DOMAIN s = 1..Len(s) /\ (s = << >> <=> Len(s) = 0)
         /\ s \in Seq(ToSet(s))
<1>1. PICK S : s \in Seq(S)
  BY DEF IsText
<1>2. Len(s) \in Nat /\ DOMAIN s = 1..Len(s) /\ (s = << >> <=> Len(s) = 0)
  BY <1>1, EmptySeq, LenProperties
<1>3. s \in Seq(ToSet(s))
  BY <1>1, SeqOfRange DEF Range, ToSet
<1> QED
  BY <1>2, <1>3

\* Texts of the same length with the same tokens are equal.
LEMMA SameText ==
  ASSUME NEW s, NEW t, IsText(s), IsText(t), Len(s) = Len(t),
         \A i \in 1..Len(s) : s[i] = t[i]
  PROVE  s = t
<1>1. PICK S, T : s \in Seq(S) /\ t \in Seq(T)
  BY DEF IsText
<1>2. s \in Seq(S \cup T) /\ t \in Seq(S \cup T)
  BY <1>1
<1> QED
  BY <1>2, SeqEqual

\* A function on the numbers up to k is a text of that length.
LEMMA FunctionAsText ==
  ASSUME NEW k \in Nat, NEW s, DOMAIN s = 1..k, s = [i \in 1..k |-> s[i]]
  PROVE  IsText(s) /\ Len(s) = k
<1> DEFINE S == {s[i] : i \in 1..k}
<1>1. s \in [1..k -> S]
  OBVIOUS
<1>2. s \in Seq(S)
  BY <1>1, SeqDef
<1>3. Len(s) \in Nat /\ 1..k = 1..Len(s)
  BY <1>2, LenProperties
<1>4. Len(s) = k
  <2>1. k \in 1..k \/ k = 0
    OBVIOUS
  <2>2. Len(s) \in 1..Len(s) \/ Len(s) = 0
    BY <1>3
  <2> QED
    BY <1>3, <2>1, <2>2
<1> QED
  BY <1>2, <1>4 DEF IsText

-------------------------------------------------------------------------------
(* Joining.                                                                *)

\* The tokens of a text and of what follows it.
LEMMA JoinedTokens ==
  ASSUME NEW s, NEW t, IsText(s), IsText(t)
  PROVE  /\ IsText(s \o t) /\ Len(s \o t) = Len(s) + Len(t)
         /\ \A i \in 1..Len(s) + Len(t) :
              (s \o t)[i] = IF i <= Len(s) THEN s[i] ELSE t[i - Len(s)]
<1>1. PICK S, T : s \in Seq(S) /\ t \in Seq(T)
  BY DEF IsText
<1>2. s \in Seq(S \cup T) /\ t \in Seq(S \cup T)
  BY <1>1
<1> QED
  BY <1>2, ConcatProperties DEF IsText

\* Joining is associative, and nothing adds nothing.
LEMMA JoinAssociative ==
  ASSUME NEW s, NEW t, NEW u, IsText(s), IsText(t), IsText(u)
  PROVE  (s \o t) \o u = s \o (t \o u)
<1>1. PICK S, T, U : s \in Seq(S) /\ t \in Seq(T) /\ u \in Seq(U)
  BY DEF IsText
<1>2. s \in Seq(S \cup T \cup U) /\ t \in Seq(S \cup T \cup U) /\ u \in Seq(S \cup T \cup U)
  BY <1>1
<1> QED
  BY <1>2, ConcatAssociative

\* Joining nothing changes nothing.
LEMMA JoinNothing ==
  ASSUME NEW s, IsText(s)
  PROVE  s \o << >> = s /\ << >> \o s = s
BY ConcatEmptySeq DEF IsText

\* What is joined to the same text on the left is the same if the results are.
LEMMA JoinCancels ==
  ASSUME NEW s, NEW t, NEW u, IsText(s), IsText(t), IsText(u), s \o t = s \o u
  PROVE  t = u
<1>1. PICK S, T, U : s \in Seq(S) /\ t \in Seq(T) /\ u \in Seq(U)
  BY DEF IsText
<1>2. s \in Seq(S \cup T \cup U) /\ t \in Seq(S \cup T \cup U) /\ u \in Seq(S \cup T \cup U)
  BY <1>1
<1> QED
  BY <1>2, ConcatSimplifications

\* Two tokens.
LEMMA TwoTokens ==
  ASSUME NEW a, NEW b
  PROVE  <<a, b>> = <<a>> \o <<b>> /\ IsText(<<a, b>>)
<1>1. <<a>> \in Seq({a, b}) /\ <<b>> \in Seq({a, b}) /\ <<a, b>> \in Seq({a, b})
  OBVIOUS
<1>2. Len(<<a>>) = 1 /\ Len(<<b>>) = 1 /\ Len(<<a, b>>) = 2 /\ <<a>>[1] = a /\ <<b>>[1] = b
      /\ <<a, b>>[1] = a /\ <<a, b>>[2] = b
  OBVIOUS
<1>3. IsText(<<a>>) /\ IsText(<<b>>) /\ IsText(<<a, b>>)
  BY <1>1 DEF IsText
<1>4. PICK s, t, u : s = <<a>> /\ t = <<b>> /\ u = <<a, b>>
  OBVIOUS
<1>5. IsText(s \o t) /\ Len(s \o t) = 2 /\ (s \o t)[1] = a /\ (s \o t)[2] = b
  <2>1. IsText(s) /\ IsText(t) /\ Len(s) = 1 /\ Len(t) = 1 /\ s[1] = a /\ t[1] = b
    BY <1>2, <1>3, <1>4
  <2>2. 1 \in 1..(Len(s) + Len(t)) /\ 2 \in 1..(Len(s) + Len(t)) /\ 1 <= Len(s) /\ ~(2 <= Len(s))
        /\ 2 - Len(s) = 1
    BY <2>1
  <2>3. IsText(s \o t) /\ Len(s \o t) = Len(s) + Len(t)
    BY <2>1, JoinedTokens
  <2>4. \A i \in 1..Len(s) + Len(t) : (s \o t)[i] = IF i <= Len(s) THEN s[i] ELSE t[i - Len(s)]
    BY <2>1, JoinedTokens
  <2>5. (s \o t)[1] = s[1] /\ (s \o t)[2] = t[2 - Len(s)]
    BY <2>2, <2>4
  <2> QED
    BY <2>1, <2>2, <2>3, <2>5
<1>6. ASSUME NEW i \in 1..2 PROVE u[i] = (s \o t)[i]
  BY <1>2, <1>4, <1>5
<1>7. u = s \o t
  BY <1>2, <1>3, <1>4, <1>5, <1>6, SameText
<1> QED
  BY <1>3, <1>4, <1>7

\* A text begins with what something else was joined to.
LEMMA JoinedBegins ==
  ASSUME NEW s, NEW t, IsText(s), IsText(t)
  PROVE  IsPrefix(s, s \o t)
<1>1. Len(s) \in Nat /\ Len(t) \in Nat
  BY TextAsFunction
<1>2. Len(s) <= Len(s \o t)
  BY <1>1, JoinedTokens
<1>3. /\ IsText(SubSeq(s, 1, Len(s))) /\ Len(SubSeq(s, 1, Len(s))) = Len(s)
      /\ \A i \in 1..Len(s) : SubSeq(s, 1, Len(s))[i] = s[i]
  <2>1. PICK S : s \in Seq(S)
    BY DEF IsText
  <2>2. SubSeq(s, 1, Len(s)) = s
    BY <2>1, SubSeqFull
  <2> QED
    BY <2>2
<1>4. /\ IsText(SubSeq(s \o t, 1, Len(s))) /\ Len(SubSeq(s \o t, 1, Len(s))) = Len(s)
      /\ \A i \in 1..Len(s) : SubSeq(s \o t, 1, Len(s))[i] = (s \o t)[i]
  <2>1. PICK S : s \o t \in Seq(S)
    BY JoinedTokens DEF IsText
  <2>2. \A i \in 1..Len(s) : (s \o t)[i] \in S
    BY <1>1, <2>1, JoinedTokens, ElementOfSeq
  <2>3. /\ SubSeq(s \o t, 1, Len(s)) \in Seq(S)
        /\ Len(SubSeq(s \o t, 1, Len(s))) = IF 1 <= Len(s) THEN Len(s) - 1 + 1 ELSE 0
        /\ \A i \in 1..(Len(s) - 1 + 1) : SubSeq(s \o t, 1, Len(s))[i] = (s \o t)[1 + i - 1]
    BY <1>1, <2>2, SubSeqProperties
  <2>4. Len(SubSeq(s \o t, 1, Len(s))) = Len(s)
    BY <1>1, <2>3
  <2>5. ASSUME NEW i \in 1..Len(s)
        PROVE  SubSeq(s \o t, 1, Len(s))[i] = (s \o t)[i]
    <3>1. i \in 1..(Len(s) - 1 + 1) /\ 1 + i - 1 = i
      BY <1>1
    <3> QED
      BY <2>3, <3>1
  <2>6. IsText(SubSeq(s \o t, 1, Len(s)))
    BY <2>3 DEF IsText
  <2> QED
    BY <2>4, <2>5, <2>6
<1>5. \A i \in 1..Len(s) : (s \o t)[i] = s[i]
  BY <1>1, JoinedTokens
<1>6. SubSeq(s, 1, Len(s)) = SubSeq(s \o t, 1, Len(s))
  BY <1>3, <1>4, <1>5, SameText
<1> QED
  BY <1>2, <1>6 DEF IsPrefix

\* A text is a beginning of itself.
LEMMA BeginsWithItself ==
  ASSUME NEW s, IsText(s)
  PROVE  IsPrefix(s, s)
BY TextAsFunction DEF IsPrefix

-------------------------------------------------------------------------------
(* Reading token by token.                                                 *)

\* The first token and the others make up the text.
LEMMA FirstToken ==
  ASSUME NEW s, IsText(s), s # << >>
  PROVE  /\ IsText(Tail(s)) /\ Head(s) \in ToSet(s) /\ ToSet(Tail(s)) \subseteq ToSet(s)
         /\ s = <<Head(s)>> \o Tail(s)
<1>1. PICK S : s \in Seq(S)
  BY DEF IsText
<1>2. /\ Head(s) = s[1] /\ Tail(s) \in Seq(S) /\ Len(Tail(s)) = Len(s) - 1
      /\ \A i \in 1..Len(Tail(s)) : Tail(s)[i] = s[i + 1]
      /\ Len(s) \in Nat \ {0} /\ DOMAIN s = 1..Len(s) /\ DOMAIN Tail(s) = 1..Len(Tail(s))
  BY <1>1, HeadTailProperties, EmptySeq, LenProperties
<1>3. Head(s) \in ToSet(s) /\ ToSet(Tail(s)) \subseteq ToSet(s)
  BY <1>2 DEF ToSet
<1>4. s = <<Head(s)>> \o Tail(s)
  BY <1>1, <1>2
<1> QED
  BY <1>2, <1>3, <1>4 DEF IsText

\* The first token of two texts joined.
LEMMA FirstOfJoined ==
  ASSUME NEW s, NEW t, IsText(s), IsText(t), s # << >>
  PROVE  /\ s \o t # << >>
         /\ Head(s \o t) = Head(s) /\ Tail(s \o t) = Tail(s) \o t
<1>1. PICK S, T : s \in Seq(S) /\ t \in Seq(T)
  BY DEF IsText
<1>2. s \in Seq(S \cup T) /\ t \in Seq(S \cup T) /\ s \o t \in Seq(S \cup T) /\ s \o t # << >>
  BY <1>1, ConcatEqualIffEmpty, ConcatProperties
<1>3. Head(s \o t) = Head(s)
  BY <1>2
<1>4. Tail(s \o t) = Tail(s) \o t
  BY <1>2
<1> QED
  BY <1>2, <1>3, <1>4

\* One token before a text.
LEMMA TokenFirst ==
  ASSUME NEW c, NEW t, IsText(t)
  PROVE  Head(<<c>> \o t) = c /\ Tail(<<c>> \o t) = t /\ <<c>> \o t # << >> /\ IsText(<<c>> \o t)
<1>1. /\ IsText(<<c>>) /\ <<c>> # << >> /\ Head(<<c>>) = c /\ Tail(<<c>>) = << >>
  <2>1. <<c>> \in Seq({c}) /\ <<c>> # << >> /\ Head(<<c>>) = c
    OBVIOUS
  <2>2. Len(Tail(<<c>>)) = 0 /\ Tail(<<c>>) \in Seq({c})
    BY <2>1, HeadTailProperties
  <2> QED
    BY <2>1, <2>2, EmptySeq DEF IsText
<1>2. << >> \o t = t
  BY JoinNothing
<1>3. <<c>> \o t # << >> /\ Head(<<c>> \o t) = c /\ Tail(<<c>> \o t) = << >> \o t
  BY <1>1, FirstOfJoined
<1>4. IsText(<<c>> \o t)
  BY <1>1, JoinedTokens
<1> QED
  BY <1>2, <1>3, <1>4

\* A token moves from what is ahead to what was read.
LEMMA TokenMoves ==
  ASSUME NEW s, NEW t, IsText(s), IsText(t), t # << >>
  PROVE  Append(s, Head(t)) \o Tail(t) = s \o t /\ IsText(Append(s, Head(t)))
<1>1. IsText(Tail(t)) /\ t = <<Head(t)>> \o Tail(t)
  BY FirstToken
<1>2. IsText(<<Head(t)>>)
  <2>1. <<Head(t)>> \in Seq({Head(t)})
    OBVIOUS
  <2> QED
    BY <2>1 DEF IsText
<1>3. Append(s, Head(t)) = s \o <<Head(t)>> /\ IsText(Append(s, Head(t)))
  <2>1. PICK S : s \in Seq(S)
    BY DEF IsText
  <2>2. s \in Seq(S \cup {Head(t)})
    BY <2>1
  <2> QED
    BY <2>2, AppendIsConcat, AppendProperties DEF IsText
<1>4. PICK c, u : c = <<Head(t)>> /\ u = Tail(t)
  OBVIOUS
<1>5. IsText(c) /\ IsText(u)
  BY <1>1, <1>2, <1>4
<1>6. (s \o c) \o u = s \o (c \o u)
  BY <1>5, JoinAssociative
<1> QED
  BY <1>1, <1>3, <1>4, <1>6

\* A text cut in two is the two parts joined.
LEMMA CutJoins ==
  ASSUME NEW s, IsText(s), NEW n \in 0..Len(s)
  PROVE  SubSeq(s, 1, n) \o SubSeq(s, n + 1, Len(s)) = s
<1>1. PICK S : s \in Seq(S)
  BY DEF IsText
<1>2. Len(s) \in Nat
  BY <1>1
<1>3. SubSeq(s, 1, n) \o SubSeq(s, n + 1, Len(s)) = SubSeq(s, 1, Len(s))
  <2>1. 1 \in 1..(Len(s) + 1) /\ n \in (1 - 1)..Len(s) /\ Len(s) \in n..Len(s)
    BY <1>2
  <2> QED
    BY <1>1, <2>1, ConcatAdjacentSubSeq
<1> QED
  BY <1>1, <1>3, SubSeqFull

-------------------------------------------------------------------------------
(* Texts made of texts.                                                    *)

AreTexts(s) == IsText(s) /\ \A i \in 1..Len(s) : IsText(s[i])

\* One turn of the recursion in FlattenSeq, for the first n texts.
Joining(f, s, n) == [i \in 1..n |-> IF i = 1 THEN s[i] ELSE f[i - 1] \o s[i]]

Joins(f, s, n) == \A i \in 1..n : f[i] = IF i = 1 THEN s[i] ELSE f[i - 1] \o s[i]

\* A function that Joining leaves as it is joins from left to right.
LEMMA JoiningSteps ==
  ASSUME NEW f, NEW s, NEW n \in Nat, f = Joining(f, s, n)
  PROVE  Joins(f, s, n)
<1>1. \A i \in 1..n : Joining(f, s, n)[i] = IF i = 1 THEN s[i] ELSE f[i - 1] \o s[i]
  BY DEF Joining
<1>2. \A i \in 1..n : f[i] = IF i = 1 THEN s[i] ELSE f[i - 1] \o s[i]
  BY <1>1
<1> QED
  BY <1>2 DEF Joins

\* There is one: it is built one argument at a time.
LEMMA JoiningExists ==
  ASSUME NEW s, NEW n \in Nat
  PROVE  \E f : f = Joining(f, s, n)
<1> DEFINE T == {k \in Nat : \E f : f = Joining(f, s, k)}
<1>1. 0 \in T
  <2>1. Joining(s, s, 0) = Joining(Joining(s, s, 0), s, 0)
    BY DEF Joining
  <2> QED
    BY <2>1
<1>2. ASSUME NEW k \in Nat, k \in T
      PROVE  k + 1 \in T
  <2>1. PICK f : f = Joining(f, s, k)
    BY <1>2
  <2>0. Joins(f, s, k)
    BY <2>1, JoiningSteps
  <2> DEFINE g == Joining(f, s, k + 1)
  <2>2. ASSUME NEW i \in 1..(k + 1)
        PROVE  g[i] = IF i = 1 THEN s[i] ELSE g[i - 1] \o s[i]
    <3>1. g[i] = IF i = 1 THEN s[i] ELSE f[i - 1] \o s[i]
      BY DEF Joining
    <3>2. ASSUME i # 1 PROVE g[i - 1] = f[i - 1]
      <4>1. i - 1 \in 1..k /\ i - 1 \in 1..(k + 1)
        BY <3>2
      <4>2. g[i - 1] = IF i - 1 = 1 THEN s[i - 1] ELSE f[(i - 1) - 1] \o s[i - 1]
        BY <4>1 DEF Joining
      <4>3. f[i - 1] = IF i - 1 = 1 THEN s[i - 1] ELSE f[(i - 1) - 1] \o s[i - 1]
        BY <2>0, <4>1 DEF Joins
      <4> QED
        BY <4>2, <4>3
    <3> QED
      BY <3>1, <3>2
  <2>3. DOMAIN g = 1..(k + 1) /\ g = [i \in DOMAIN g |-> g[i]]
    BY DEF Joining
  <2> HIDE DEF g
  <2>4. g = Joining(g, s, k + 1)
    BY <2>2, <2>3 DEF Joining
  <2>5. \E h : h = Joining(h, s, k + 1)
    BY <2>4
  <2> QED
    BY <2>5
<1>3. \A k \in Nat : k \in T => k + 1 \in T
  BY <1>2
<1> HIDE DEF T
<1>4. n \in T
  BY <1>1, <1>3, AllNumbers
<1> QED
  BY <1>4 DEF T

\* FlattenSeq joins the texts of s from left to right.
LEMMA FlattenSteps ==
  ASSUME NEW s, AreTexts(s), s # << >>
  PROVE  \E f : /\ FlattenSeq(s) = f[Len(s)] /\ f[1] = s[1]
                /\ \A i \in 2..Len(s) : f[i] = f[i - 1] \o s[i]
                /\ \A i \in 1..Len(s) : IsText(f[i])
<1> DEFINE f == CHOOSE f : f = Joining(f, s, Len(s))
           T == {k \in Nat : k + 1 \in 1..Len(s) => IsText(f[k + 1])}
<1>1. Len(s) \in Nat \ {0}
  BY TextAsFunction DEF AreTexts
<1>2. f = Joining(f, s, Len(s))
  BY <1>1, JoiningExists
<1>3. FlattenSeq(s) = f[Len(s)]
  BY <1>1 DEF FlattenSeq, Joining
<1> HIDE DEF f
<1>4. f[1] = s[1] /\ \A i \in 2..Len(s) : f[i] = f[i - 1] \o s[i]
  <2>1. Joins(f, s, Len(s))
    BY <1>1, <1>2, JoiningSteps
  <2>2. 1 \in 1..Len(s) /\ \A i \in 2..Len(s) : i \in 1..Len(s) /\ i # 1
    BY <1>1
  <2> QED
    BY <2>1, <2>2 DEF Joins
<1>5. 0 \in T
  BY <1>1, <1>4 DEF AreTexts
<1>6. ASSUME NEW k \in Nat, k \in T, k + 2 \in 1..Len(s)
      PROVE  IsText(f[k + 2])
  <2>1. k + 1 \in 1..Len(s) /\ k + 2 \in 2..Len(s) /\ (k + 2) - 1 = k + 1
    BY <1>1, <1>6
  <2>2. f[k + 2] = f[k + 1] \o s[k + 2]
    BY <1>4, <2>1
  <2> QED
    BY <1>6, <2>1, <2>2, JoinedTokens DEF AreTexts
<1>7. \A k \in Nat : k \in T => k + 1 \in T
  BY <1>6
<1> HIDE DEF T
<1>8. Nat \subseteq T
  BY <1>5, <1>7, AllNumbers
<1>9. \A i \in 1..Len(s) : i - 1 \in Nat /\ (i - 1) + 1 = i
  BY <1>1
<1>10. \A i \in 1..Len(s) : IsText(f[i])
  BY <1>8, <1>9 DEF T
<1> QED
  BY <1>3, <1>4, <1>10

\* f joins one text more than g, and that one first.
Beyond(t, f, g, i) == f[i + 1] = t \o g[i]

\* The first text comes first, and then the others.
LEMMA FlattenFirst ==
  ASSUME NEW s, AreTexts(s)
  PROVE  /\ IsText(FlattenSeq(s))
         /\ s = << >> => FlattenSeq(s) = << >>
         /\ s # << >> => AreTexts(Tail(s)) /\ FlattenSeq(s) = s[1] \o FlattenSeq(Tail(s))
<1>1. CASE s = << >>
  BY <1>1 DEF FlattenSeq, AreTexts
<1>2. CASE s # << >>
  <2>1. PICK S : s \in Seq(S)
    BY DEF AreTexts, IsText
  <2>2. /\ Len(s) \in Nat \ {0}
        /\ Len(Tail(s)) = Len(s) - 1 /\ \A i \in 1..Len(Tail(s)) : Tail(s)[i] = s[i + 1]
        /\ IsText(Tail(s))
    BY <1>2, <2>1, HeadTailProperties, EmptySeq DEF IsText
  <2>3. AreTexts(Tail(s)) /\ IsText(s[1])
    BY <2>2 DEF AreTexts
  <2>4. PICK f : /\ FlattenSeq(s) = f[Len(s)] /\ f[1] = s[1]
                 /\ \A i \in 2..Len(s) : f[i] = f[i - 1] \o s[i]
                 /\ \A i \in 1..Len(s) : IsText(f[i])
    BY <1>2, FlattenSteps
  <2>5. IsText(FlattenSeq(s))
    BY <2>2, <2>4
  <2>6. CASE Len(s) = 1
    <3>1. Tail(s) = << >>
      <4>1. IsText(Tail(s)) /\ Len(Tail(s)) = 0
        BY <2>2, <2>6
      <4> QED
        BY <4>1, TextAsFunction
    <3>2. FlattenSeq(Tail(s)) = << >>
      BY <3>1 DEF FlattenSeq
    <3> QED
      BY <1>2, <2>3, <2>4, <2>5, <2>6, <3>2, JoinNothing
  <2>7. CASE Len(s) # 1
    <3>1. Tail(s) # << >>
      BY <2>2, <2>7, Len(<< >>) = 0
    <3>2. PICK g : /\ FlattenSeq(Tail(s)) = g[Len(Tail(s))] /\ g[1] = Tail(s)[1]
                   /\ \A i \in 2..Len(Tail(s)) : g[i] = g[i - 1] \o Tail(s)[i]
                   /\ \A i \in 1..Len(Tail(s)) : IsText(g[i])
      BY <2>3, <3>1, FlattenSteps
    <3>3. Beyond(s[1], f, g, 1)
      <4>1. 2 \in 2..Len(s) /\ 1 \in 1..Len(Tail(s)) /\ 2 - 1 = 1 /\ 1 + 1 = 2
        BY <2>2, <2>7
      <4>2. f[2] = f[1] \o s[2] /\ g[1] = s[2]
        BY <2>2, <2>4, <3>2, <4>1
      <4> QED
        BY <2>4, <4>1, <4>2 DEF Beyond
    <3>4. ASSUME NEW i \in 1..Len(Tail(s)), i + 1 \in 1..Len(Tail(s)), Beyond(s[1], f, g, i)
          PROVE  Beyond(s[1], f, g, i + 1)
      <4>0. PICK j \in Nat : j = i + 1
        BY <2>2
      <4>1. j \in 2..Len(Tail(s)) /\ j + 1 \in 2..Len(s) /\ (j + 1) - 1 = j /\ j - 1 = i
        BY <2>2, <3>4, <4>0
      <4>2. f[j + 1] = f[j] \o s[j + 1] /\ g[j] = g[i] \o Tail(s)[j]
        <5>1. f[j + 1] = f[(j + 1) - 1] \o s[j + 1] /\ g[j] = g[j - 1] \o Tail(s)[j]
          BY <2>4, <3>2, <4>1
        <5> QED
          BY <4>1, <5>1
      <4>3. Tail(s)[j] = s[j + 1] /\ IsText(g[i]) /\ IsText(s[j + 1])
        <5>1. j \in 1..Len(Tail(s)) /\ j + 1 \in 1..Len(s)
          BY <2>2, <4>1
        <5> QED
          BY <2>2, <3>2, <3>4, <5>1 DEF AreTexts
      <4>4. f[j] = s[1] \o g[i]
        BY <3>4, <4>0 DEF Beyond
      <4>5. /\ IsText(s[1]) /\ IsText(g[i]) /\ IsText(s[j + 1])
            /\ f[j] = s[1] \o g[i] /\ f[j + 1] = f[j] \o s[j + 1] /\ g[j] = g[i] \o s[j + 1]
        BY <2>3, <4>2, <4>3, <4>4
      <4>6. f[j + 1] = s[1] \o g[j]
        <5>1. PICK a, b, c : a = s[1] /\ b = g[i] /\ c = s[j + 1]
          OBVIOUS
        <5>2. IsText(a) /\ IsText(b) /\ IsText(c)
          BY <4>5, <5>1
        <5>3. (a \o b) \o c = a \o (b \o c)
          BY <5>2, JoinAssociative
        <5> QED
          BY <4>5, <5>1, <5>3
      <4> QED
        BY <4>0, <4>6 DEF Beyond
    <3> DEFINE n == Len(Tail(s))
               T == {i \in 1..n : Beyond(s[1], f, g, i)}
    <3>5. n \in Nat \ {0} /\ n + 1 = Len(s)
      BY <2>2, <2>7
    <3> HIDE DEF n
    <3>6. 1 \in T
      <4>1. 1 \in 1..n
        BY <3>5
      <4> QED
        BY <3>3, <4>1
    <3>7. \A i \in 1..n : i \in T /\ i + 1 \in 1..n => i + 1 \in T
      BY <3>4 DEF n
    <3> HIDE DEF T
    <3>8. f[Len(s)] = s[1] \o g[Len(Tail(s))]
      <4>1. n \in T
        <5>1. n \in 1..n
          BY <3>5
        <5> QED
          BY <3>5, <3>6, <3>7, <5>1, AllIndices
      <4> QED
        BY <3>5, <4>1 DEF T, Beyond, n
    <3> QED
      BY <1>2, <2>3, <2>4, <2>5, <3>2, <3>8
  <2> QED
    BY <2>6, <2>7
<1> QED
  BY <1>1, <1>2

-------------------------------------------------------------------------------
(* The end of a part.                                                      *)

\* A text that grows by one token holds that one more.
LEMMA TokenAdded ==
  ASSUME NEW s, NEW e, IsText(s)
  PROVE  IsText(Append(s, e)) /\ ToSet(Append(s, e)) = ToSet(s) \cup {e}
<1>1. PICK S : s \in Seq(S)
  BY DEF IsText
<1>2. s \in Seq(S \cup {e})
  BY <1>1
<1>3. /\ Append(s, e) \in Seq(S \cup {e}) /\ Len(s) \in Nat /\ Len(Append(s, e)) = Len(s) + 1
      /\ \A i \in 1..Len(s) : Append(s, e)[i] = s[i]
      /\ Append(s, e)[Len(s) + 1] = e
      /\ DOMAIN s = 1..Len(s) /\ DOMAIN Append(s, e) = 1..(Len(s) + 1)
  BY <1>2, AppendProperties, LenProperties
<1>4. \A i \in 1..(Len(s) + 1) : i \in 1..Len(s) \/ i = Len(s) + 1
  BY <1>3
<1>5. Len(s) + 1 \in 1..(Len(s) + 1) /\ \A i \in 1..Len(s) : i \in 1..(Len(s) + 1)
  BY <1>3
<1> QED
  BY <1>3, <1>4, <1>5 DEF ToSet, IsText

\* A text without a token of E is not longer than one an end of which is in E.
LEMMA NotLonger ==
  ASSUME NEW s, NEW t, NEW u, NEW v, IsText(s), IsText(t), IsText(u), IsText(v),
         NEW E, ToSet(u) \cap E = {}, t # << >>, Head(t) \in E, s \o t = u \o v
  PROVE  Len(u) <= Len(s)
<1> SUFFICES ASSUME ~(Len(u) <= Len(s)) PROVE FALSE
  OBVIOUS
<1>1. Len(s) \in Nat /\ Len(u) \in Nat /\ Len(v) \in Nat /\ Len(t) \in Nat /\ Len(t) # 0
      /\ DOMAIN u = 1..Len(u)
  BY TextAsFunction
<1>2. PICK i \in Nat : i = Len(s) + 1
  BY <1>1
<1>3. i \in 1..(Len(s) + Len(t)) /\ ~(i <= Len(s)) /\ i - Len(s) = 1
      /\ i \in 1..(Len(u) + Len(v)) /\ i <= Len(u) /\ i \in DOMAIN u
  BY <1>1, <1>2
<1>4. (s \o t)[i] = t[1] /\ (u \o v)[i] = u[i]
  BY <1>3, JoinedTokens
<1>5. t[1] = Head(t)
  <2>1. PICK T : t \in Seq(T)
    BY DEF IsText
  <2> QED
    BY <2>1
<1>6. u[i] \in ToSet(u)
  BY <1>3 DEF ToSet
<1> QED
  BY <1>4, <1>5, <1>6

\* A text is cut at the first token of E in one way only.
LEMMA EndReached ==
  ASSUME NEW s, NEW t, NEW u, NEW v, IsText(s), IsText(t), IsText(u), IsText(v),
         NEW E, ToSet(s) \cap E = {}, ToSet(u) \cap E = {},
         t # << >>, Head(t) \in E, v # << >>, Head(v) \in E, s \o t = u \o v
  PROVE  s = u /\ t = v
<1>1. Len(u) <= Len(s) /\ Len(s) <= Len(u)
  BY NotLonger
<1>2. Len(s) \in Nat /\ Len(u) \in Nat /\ Len(t) \in Nat /\ Len(v) \in Nat
  BY TextAsFunction
<1>3. Len(s) = Len(u)
  BY <1>1, <1>2
<1>4. ASSUME NEW i \in 1..Len(s) PROVE s[i] = u[i]
  <2>1. i \in 1..(Len(s) + Len(t)) /\ i \in 1..(Len(u) + Len(v)) /\ i <= Len(s) /\ i <= Len(u)
    BY <1>2, <1>3
  <2>2. (s \o t)[i] = s[i] /\ (u \o v)[i] = u[i]
    BY <2>1, JoinedTokens
  <2> QED
    BY <2>2
<1>5. s = u
  BY <1>3, <1>4, SameText
<1>6. s \o t = s \o v
  BY <1>5
<1> QED
  BY <1>5, <1>6, JoinCancels

\* Joining, as a name the provers do not look behind.
Join(s, t) == s \o t

\* Texts join to texts, and grouping does not matter.
LEMMA JoinTexts ==
  /\ \A s, t : IsText(s) /\ IsText(t) => IsText(Join(s, t))
  /\ \A s, t, u : IsText(s) /\ IsText(t) /\ IsText(u) => Join(Join(s, t), u) = Join(s, Join(t, u))
  /\ \A s : IsText(s) => Join(<< >>, s) = s /\ Join(s, << >>) = s
<1>1. ASSUME NEW s, NEW t, IsText(s), IsText(t)
      PROVE  IsText(Join(s, t))
  BY <1>1, JoinedTokens DEF Join
<1>2. ASSUME NEW s, NEW t, NEW u, IsText(s), IsText(t), IsText(u)
      PROVE  Join(Join(s, t), u) = Join(s, Join(t, u))
  <2>1. (s \o t) \o u = s \o (t \o u)
    BY <1>2, JoinAssociative
  <2> QED
    BY <2>1 DEF Join
<1>3. ASSUME NEW s, IsText(s)
      PROVE  Join(<< >>, s) = s /\ Join(s, << >>) = s
  BY <1>3, JoinNothing DEF Join
<1> QED
  BY <1>1, <1>2, <1>3

\* Appending a token is joining a text of one.
LEMMA AppendIsJoin ==
  ASSUME NEW s, NEW e, IsText(s)
  PROVE  Append(s, e) = Join(s, <<e>>)
<1>1. PICK S : s \in Seq(S)
  BY DEF IsText
<1>2. s \in Seq(S \cup {e})
  BY <1>1
<1> QED
  BY <1>2, AppendIsConcat DEF Join

\* Four texts and a fifth, grouped from the right.
LEMMA GroupedRight ==
  ASSUME NEW a, NEW b, NEW c, NEW d, NEW e,
         IsText(a), IsText(b), IsText(c), IsText(d), IsText(e)
  PROVE  /\ Join(Join(Join(Join(a, b), c), d), e) = Join(a, Join(b, Join(c, Join(d, e))))
         /\ IsText(Join(Join(Join(a, b), c), d))
BY JoinTexts

\* One token before a text.
LEMMA TokenAhead ==
  ASSUME NEW c, NEW t, IsText(t)
  PROVE  /\ IsText(Join(<<c>>, t)) /\ Join(<<c>>, t) # << >>
         /\ Head(Join(<<c>>, t)) = c /\ Tail(Join(<<c>>, t)) = t
BY TokenFirst DEF Join

\* A text that ends where a token of a set comes.
Without(text, tokens) == IsText(text) /\ ToSet(text) \cap tokens = {}

\* Of nothing, no token ends anything.
LEMMA NothingRead ==
  ASSUME NEW E
  PROVE  Without(<< >>, E)
BY ShortTexts DEF Without, ToSet

\* What is read of a part goes on with a token that does not end it.
LEMMA PartGoesOn ==
  ASSUME NEW a, NEW r, NEW E, Without(a, E), IsText(r), r # << >>, Head(r) \notin E
  PROVE  Without(Append(a, Head(r)), E) /\ Join(Append(a, Head(r)), Tail(r)) = Join(a, r)
<1>1. Append(a, Head(r)) \o Tail(r) = a \o r
  BY TokenMoves DEF Without
<1>2. Without(Append(a, Head(r)), E)
  BY TokenAdded DEF Without
<1> QED
  BY <1>1, <1>2 DEF Join

\* At a token that ends it, all of the part was read.
LEMMA PartEnds ==
  ASSUME NEW a, NEW r, NEW E, Without(a, E), IsText(r), r # << >>, Head(r) \in E,
         NEW u, NEW e \in E, NEW rest, Without(u, E), IsText(rest),
         Join(a, r) = Join(u, Join(<<e>>, rest))
  PROVE  a = u /\ Head(r) = e /\ Tail(r) = rest /\ r = Join(<<e>>, rest)
<1>1. PICK v : v = <<e>> \o rest
  OBVIOUS
<1>2. IsText(v) /\ v # << >> /\ Head(v) = e /\ Tail(v) = rest
  BY <1>1, TokenFirst
<1>3. a \o r = u \o v
  BY <1>1 DEF Join
<1>4. a = u /\ r = v
  BY <1>2, <1>3, EndReached DEF Without
<1> QED
  BY <1>1, <1>2, <1>4 DEF Join

\* What neither of two texts holds, they do not hold together.
LEMMA JoinWithout ==
  ASSUME NEW E, NEW a, NEW b, Without(a, E), Without(b, E)
  PROVE  Without(Join(a, b), E)
<1>1. PICK s : s = a \o b
  OBVIOUS
<1>2. IsText(a) /\ IsText(b) /\ Len(a) \in Nat /\ Len(b) \in Nat
      /\ DOMAIN a = 1..Len(a) /\ DOMAIN b = 1..Len(b)
  BY TextAsFunction DEF Without
<1>3. /\ IsText(s) /\ Len(s) = Len(a) + Len(b)
      /\ \A i \in 1..Len(a) + Len(b) : s[i] = IF i <= Len(a) THEN a[i] ELSE b[i - Len(a)]
  BY <1>1, <1>2, JoinedTokens
<1>4. DOMAIN s = 1..(Len(a) + Len(b))
  BY <1>3, TextAsFunction
<1>5. ASSUME NEW i \in 1..(Len(a) + Len(b)) PROVE s[i] \notin E
  <2>1. CASE i <= Len(a)
    <3>1. i \in 1..Len(a) /\ s[i] = a[i]
      BY <1>2, <1>3, <2>1
    <3> QED
      BY <1>2, <3>1 DEF Without, ToSet
  <2>2. CASE ~(i <= Len(a))
    <3>1. PICK j : j = i - Len(a)
      OBVIOUS
    <3>2. j \in 1..Len(b) /\ s[i] = b[j]
      BY <1>2, <1>3, <2>2, <3>1
    <3> QED
      BY <1>2, <3>2 DEF Without, ToSet
  <2> QED
    BY <2>1, <2>2
<1> QED
  BY <1>1, <1>3, <1>4, <1>5 DEF Without, ToSet, Join
===============================================================================
