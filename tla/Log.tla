---------------------------------- MODULE Log ----------------------------------
(***************************************************************************)
(* The logging singleton Log and the implementation it points to, used by  *)
(* the application that configures it and by every thread that logs: each  *)
(* step of an http_engine worker does.  Nothing in Log is locked, so       *)
(* Write() is two steps, the test of the pointers and the call through     *)
(* them, and anything may come between.                                    *)
(*                                                                         *)
(* Deleting or calling a freed implementation is undefined: the model      *)
(* records it in broken and stops.  A freed address is not given out again.*)
(* What is printed, and at which level, is left out: level, console and    *)
(* time stamp change nothing in Log.                                       *)
(***************************************************************************)
EXTENDS Naturals

CONSTANTS
  Impls,    \* implementations of the application's, by address
  LogImpls, \* those Create() makes, which never leave Log: LogImpl is private
  Writers,  \* threads that log
  Levels,   \* the LogLevels in use
  Null

\* LogLevel, by its values; LogLevel_Fatal is 1.
LogLevels == 0..5

ASSUME LogAssumption ==
  /\ Impls \cap LogImpls = {} /\ Null \notin Impls \cup LogImpls
  /\ Levels \subseteq LogLevels

Addresses == Impls \cup LogImpls

VARIABLES
  s_instance,    \* the singleton exists
  m_pImpl,
  currentlevel,
  heap,          \* heap[i]: "unused", "alive" or "freed"
  inside,        \* inside[w]: w has tested the pointers in Write() and not called yet
  called,        \* called[w]: the pointer w tested
  broken,
  \* history
  careful,       \* the application kept to Careful
  revived        \* Create found an implementation that Destroy had deleted

history == <<careful, revived>>
vars == <<s_instance, m_pImpl, currentlevel, heap, inside, called, broken, history>>

Init ==
  /\ s_instance = FALSE /\ m_pImpl = Null /\ currentlevel = 1
  /\ heap = [i \in Addresses |-> "unused"]
  /\ inside = [w \in Writers |-> FALSE] /\ called = [w \in Writers |-> Null]
  /\ broken = FALSE /\ careful = TRUE /\ revived = FALSE

Alive(i) == i \in Addresses /\ heap[i] = "alive"

\* What the header does not ask for and the code needs: the implementation is
\* replaced or destroyed with no writer inside, and not replaced once destroyed.
Careful == (\A w \in Writers : ~inside[w]) /\ (m_pImpl = Null \/ Alive(m_pImpl))

-------------------------------------------------------------------------------
(* The application.                                                        *)

\* The constructor: a LogImpl, unless m_pImpl is set.
Construct(i) ==
  IF m_pImpl = Null
  THEN m_pImpl' = i /\ heap' = [heap EXCEPT ![i] = "alive"]
  ELSE UNCHANGED <<m_pImpl, heap>>

\* An instance that exists is returned as it is.
Create(i) ==
  /\ heap[i] = "unused"
  /\ IF s_instance THEN UNCHANGED <<m_pImpl, heap>> ELSE Construct(i)
  /\ s_instance' = TRUE
  /\ revived' = (revived \/ (~s_instance /\ m_pImpl # Null /\ ~Alive(m_pImpl)))
  /\ UNCHANGED <<currentlevel, inside, called, broken, careful>>

\* delete m_pImpl: what it frees, and whether it was freed before.
DeletedBug == {}
Deleted == {m_pImpl}
DeletedTwice == m_pImpl # Null /\ ~Alive(m_pImpl)

\* The destructor leaves m_pImpl as it is.
Destroy ==
  /\ heap' = [i \in Addresses |-> IF s_instance /\ i \in Deleted THEN "freed" ELSE heap[i]]
  /\ broken' = (s_instance /\ DeletedTwice)
  /\ s_instance' = FALSE
  /\ careful' = (careful /\ (s_instance => Careful))
  /\ UNCHANGED <<m_pImpl, currentlevel, inside, called, revived>>

\* LogClass: a new implementation of the application's, the one it has set
\* already, or null.  The old one is deleted first, whoever made it.
SetLoggingClass(i) ==
  /\ i \in {Null, m_pImpl} \cup {j \in Impls : heap[j] = "unused"}
  /\ m_pImpl' = i
  /\ broken' = DeletedTwice
  /\ heap' = [j \in Addresses |->
                IF j \in Deleted THEN "freed" ELSE IF j = i THEN "alive" ELSE heap[j]]
  /\ careful' = (careful /\ Careful /\ (i = m_pImpl => i = Null))
  /\ UNCHANGED <<s_instance, currentlevel, inside, called, revived>>

\* Nothing reads currentlevel.
SetLoggingState(level) ==
  /\ currentlevel' = level
  /\ UNCHANGED <<s_instance, m_pImpl, heap, inside, called, broken, history>>

-------------------------------------------------------------------------------
(* Any thread: Log::Write, and Log::SetLogFileName, which has its shape.   *)

MayCallBug == m_pImpl # Null
MayCallNullBug == s_instance
MayCall == s_instance /\ m_pImpl # Null

WriteTests(w) ==
  /\ ~inside[w]
  /\ MayCall
  /\ inside' = [inside EXCEPT ![w] = TRUE]
  /\ called' = [called EXCEPT ![w] = m_pImpl]
  /\ UNCHANGED <<s_instance, m_pImpl, currentlevel, heap, broken, history>>

\* The call uses the pointer that was tested, or reads m_pImpl again: compilers
\* may do either.
WriteCalls(w) ==
  /\ inside[w]
  /\ \E i \in {called[w], m_pImpl} : broken' = ~Alive(i)
  /\ inside' = [inside EXCEPT ![w] = FALSE] /\ called' = [called EXCEPT ![w] = Null]
  /\ UNCHANGED <<s_instance, m_pImpl, currentlevel, heap, history>>

-------------------------------------------------------------------------------

Application ==
  \/ \E i \in LogImpls : Create(i)
  \/ Destroy
  \/ \E i \in Impls \cup {Null} : SetLoggingClass(i)
  \/ \E level \in Levels : SetLoggingState(level)

Next ==
  \/ ~broken /\ Application
  \/ ~broken /\ \E w \in Writers : WriteTests(w) \/ WriteCalls(w)
  \/ broken /\ UNCHANGED vars

Spec == Init /\ [][Next]_vars

-------------------------------------------------------------------------------
(* Properties.                                                             *)

\* Every variable stays in its range, and a writer inside has a pointer to call.
TypeOK ==
  /\ s_instance \in BOOLEAN
  /\ m_pImpl \in Addresses \cup {Null}
  /\ currentlevel \in LogLevels
  /\ heap \in [Addresses -> {"unused", "alive", "freed"}]
  /\ inside \in [Writers -> BOOLEAN]
  /\ called \in [Writers -> Addresses \cup {Null}]
  /\ \A w \in Writers : inside[w] => called[w] \in Addresses
  /\ {broken, careful, revived} \subseteq BOOLEAN

\* An application that replaces or destroys the implementation only with no
\* message in flight, and never uses the log again after Destroy, never makes a
\* thread call or delete a freed implementation, in any interleaving.
CarefulIsSafe == careful /\ ~revived => ~broken

\* No implementation is lost: every one that was handed to Log and not freed is
\* the one m_pImpl points to.
NothingLeaks == \A i \in Addresses : Alive(i) => m_pImpl = i

-------------------------------------------------------------------------------
(* What the documentation says and the code does not do.                   *)

\* LogClass.hpp:78: after Destroy "The log can no longer be written to without
\* another call to Create": with that call, it can.
CreateRevives == careful /\ s_instance /\ m_pImpl # Null => Alive(m_pImpl)
================================================================================
