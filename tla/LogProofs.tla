------------------------------- MODULE LogProofs -------------------------------
(***************************************************************************)
(* Theorems about Log, for any number of writers and implementations.      *)
(*                                                                         *)
(* CarefulIsSafe is not inductive: what a writer tested before the last    *)
(* configuration step must still be what it calls.  CarefulState says that *)
(* a careful application never lets the two drift apart.                   *)
(***************************************************************************)
EXTENDS Log, TLAPS

\* As long as the application is careful, nothing freed was touched, whoever is
\* inside Write() holds the implementation in use, and an instance that exists
\* has none or a live one.
CarefulState ==
  careful /\ ~revived =>
    /\ ~broken
    /\ \A w \in Writers : inside[w] => called[w] = m_pImpl /\ Alive(m_pImpl)
    /\ s_instance => m_pImpl = Null \/ Alive(m_pImpl)

\* The constructed log is typed.
LEMMA TypeInit == Init => TypeOK
<1> SUFFICES ASSUME Init PROVE TypeOK
  OBVIOUS
<1> USE DEF Init, Addresses
<1>1. s_instance \in BOOLEAN /\ {broken, careful, revived} \subseteq BOOLEAN
  BY Zenon
<1>2. inside \in [Writers -> BOOLEAN] /\ called \in [Writers -> Addresses \cup {Null}]
  BY Zenon
<1>3. \A w \in Writers : inside[w] => called[w] \in Addresses
  BY Zenon
<1>4. m_pImpl \in Addresses \cup {Null} /\ heap \in [Addresses -> {"unused", "alive", "freed"}]
  BY Zenon
<1>5. currentlevel \in LogLevels
  BY SMT DEF LogLevels
<1> QED
  BY <1>1, <1>2, <1>3, <1>4, <1>5 DEF TypeOK

\* Every step keeps the type.
LEMMA TypeStep == TypeOK /\ [Next]_vars => TypeOK'
<1> SUFFICES ASSUME TypeOK, [Next]_vars PROVE TypeOK'
  OBVIOUS
<1> USE LogAssumption DEF TypeOK, Addresses
<1>1. ASSUME NEW i \in LogImpls, Create(i) PROVE TypeOK'
  BY <1>1 DEF Create, Construct
<1>2. ASSUME Destroy PROVE TypeOK'
  BY <1>2, Zenon DEF Destroy, Deleted, DeletedTwice, Alive
<1>3. ASSUME NEW i \in Impls \cup {Null}, SetLoggingClass(i) PROVE TypeOK'
  BY <1>3, Zenon DEF SetLoggingClass, Deleted, DeletedTwice, Alive
<1>4. ASSUME NEW level \in Levels, SetLoggingState(level) PROVE TypeOK'
  BY <1>4 DEF SetLoggingState, history
<1>5. ASSUME NEW w \in Writers, WriteTests(w) PROVE TypeOK'
  BY <1>5 DEF WriteTests, MayCall, history
<1>6. ASSUME NEW w \in Writers, WriteCalls(w) PROVE TypeOK'
  BY <1>6 DEF WriteCalls, Alive, history
<1>7. ASSUME UNCHANGED vars PROVE TypeOK'
  BY <1>7 DEF vars, history
<1> QED
  BY <1>1, <1>2, <1>3, <1>4, <1>5, <1>6, <1>7 DEF Next, Application

\* Type correctness of the log, and a pointer for every writer inside.
THEOREM LogTypeCorrect == Spec => []TypeOK
BY TypeInit, TypeStep, PTL DEF Spec

\* Nothing was touched before the log was made.
LEMMA CarefulInit == Init => CarefulState
BY DEF Init, CarefulState

\* Every step keeps a careful application out of trouble.
LEMMA CarefulStep == TypeOK /\ CarefulState /\ [Next]_vars => CarefulState'
<1> SUFFICES ASSUME TypeOK, CarefulState, [Next]_vars PROVE CarefulState'
  OBVIOUS
<1> USE LogAssumption DEF CarefulState, Addresses, history
<1>1. ASSUME NEW i \in LogImpls, Create(i) PROVE CarefulState'
  BY <1>1 DEF Create, Construct, Alive, TypeOK
<1>2. ASSUME Destroy PROVE CarefulState'
  BY <1>2 DEF Destroy, Deleted, DeletedTwice, Careful, Alive, TypeOK
<1>3. ASSUME NEW i \in Impls \cup {Null}, SetLoggingClass(i) PROVE CarefulState'
  BY <1>3 DEF SetLoggingClass, Deleted, DeletedTwice, Careful, Alive, TypeOK
<1>4. ASSUME NEW level \in Levels, SetLoggingState(level) PROVE CarefulState'
  BY <1>4 DEF SetLoggingState, Alive
<1>5. ASSUME NEW w \in Writers, WriteTests(w) PROVE CarefulState'
  BY <1>5 DEF WriteTests, MayCall, Alive, TypeOK
<1>6. ASSUME NEW w \in Writers, WriteCalls(w) PROVE CarefulState'
  BY <1>6 DEF WriteCalls, Alive, TypeOK
<1>7. ASSUME UNCHANGED vars PROVE CarefulState'
  BY <1>7 DEF vars, Alive
<1> QED
  BY <1>1, <1>2, <1>3, <1>4, <1>5, <1>6, <1>7 DEF Next, Application

\* A careful application is safe whatever the interleaving with its writers.
THEOREM CarefulAlwaysSafe == Spec => []CarefulIsSafe
<1>1. CarefulState => CarefulIsSafe
  BY DEF CarefulState, CarefulIsSafe
<1> QED
  BY <1>1, CarefulInit, CarefulStep, TypeInit, TypeStep, PTL DEF Spec

\* Every step accounts for the implementations it makes or replaces.
LEMMA NothingLeaksStep == TypeOK /\ NothingLeaks /\ [Next]_vars => NothingLeaks'
<1> SUFFICES ASSUME TypeOK, NothingLeaks, [Next]_vars PROVE NothingLeaks'
  OBVIOUS
<1> USE LogAssumption DEF NothingLeaks, Alive, TypeOK, Addresses
<1>1. ASSUME NEW i \in LogImpls, Create(i) PROVE NothingLeaks'
  BY <1>1 DEF Create, Construct
<1>2. ASSUME Destroy PROVE NothingLeaks'
  BY <1>2 DEF Destroy, Deleted, DeletedTwice
<1>3. ASSUME NEW i \in Impls \cup {Null}, SetLoggingClass(i) PROVE NothingLeaks'
  BY <1>3 DEF SetLoggingClass, Deleted, DeletedTwice
<1>4. ASSUME UNCHANGED <<heap, m_pImpl>> PROVE NothingLeaks'
  BY <1>4
<1> QED
  BY <1>1, <1>2, <1>3, <1>4
  DEF Next, Application, SetLoggingState, WriteTests, WriteCalls, vars

\* In any use, careful or not, Log loses no implementation: the only one alive
\* is the one m_pImpl points to.
THEOREM NothingEverLeaks == Spec => []NothingLeaks
<1>1. Init => NothingLeaks
  BY DEF Init, NothingLeaks, Alive, Addresses
<1> QED
  BY <1>1, TypeInit, TypeStep, NothingLeaksStep, PTL DEF Spec
================================================================================
