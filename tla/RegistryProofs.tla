--------------------------- MODULE RegistryProofs ---------------------------
(* Registry, for every set of ids, cap and number of sessions. *)
EXTENDS Registry, FiniteSetTheorems, FunctionTheorems, TLAPS

(* The registry starts with an empty table and the watcher in its first loop. *)
LEMMA TypeInit ==
    ASSUME Init
    PROVE  TypeOK
<1> USE RegistryAssumption DEF Init
<1>1. table \in [Ids -> 0..MaxOpens]
  OBVIOUS
<1>2. opens \in 0..MaxOpens
  OBVIOUS
<1>3. running \subseteq Ids \X (1..opens)
  OBVIOUS
<1>4. permit \in BOOLEAN
  OBVIOUS
<1>5. watcher \in WatcherStates
  BY DEF WatcherStates
<1> QED
  BY <1>1, <1>2, <1>3, <1>4, <1>5 DEF TypeOK

(* attach_or_create, remove and the watcher's steps keep the types.        *)
LEMMA TypeStep ==
    ASSUME TypeOK, [Next]_vars
    PROVE  TypeOK'
<1> USE RegistryAssumption DEF TypeOK, WatcherStates
<1>1. ASSUME NEW id \in Ids, Create(id) PROVE TypeOK'
  BY <1>1 DEF Create
<1>2. ASSUME NEW a \in running, Remove(a) PROVE TypeOK'
  BY <1>2 DEF Remove
<1>3. CASE FirstCheck
  BY <1>3 DEF FirstCheck, Move
<1>4. CASE Woken
  BY <1>4 DEF Woken, Move
<1>5. CASE Check
  BY <1>5 DEF Check, Move
<1>6. CASE SleepEnds
  BY <1>6 DEF SleepEnds, Move
<1>7. CASE UNCHANGED vars
  BY <1>7 DEF vars
<1> QED
  BY <1>1, <1>2, <1>3, <1>4, <1>5, <1>6, <1>7 DEF Next, WatcherNext

(* Every step of the registry, its actors and the watcher keeps the types. *)
THEOREM TypeCorrect == Spec => []TypeOK
<1>1. Init => TypeOK
  BY TypeInit
<1>2. TypeOK /\ [Next]_vars => TypeOK'
  BY TypeStep
<1> QED
  BY <1>1, <1>2, PTL DEF Spec

-----------------------------------------------------------------------------
(* The two operations on the table keep it equal to the running actors.    *)
LEMMA TableStep ==
    ASSUME TypeOK, TableIsRunning, [Next]_vars
    PROVE  TableIsRunning'
<1> USE RegistryAssumption DEF TypeOK, TableIsRunning, Registered
<1>1. ASSUME NEW id \in Ids, Create(id) PROVE TableIsRunning'
  BY <1>1 DEF Create, Absent
<1>2. ASSUME NEW a \in running, Remove(a) PROVE TableIsRunning'
  <2>1. PICK id \in Ids : table[id] # 0 /\ a = <<id, table[id]>>
    OBVIOUS
  <2>2. running' = running \ {<<id, table[id]>>} /\ table' = [table EXCEPT ![id] = 0]
    BY <1>2, <2>1 DEF Remove
  <2> QED
    BY <2>1, <2>2
<1>3. CASE WatcherNext
  BY <1>3 DEF WatcherNext, FirstCheck, Woken, Check, SleepEnds
<1>4. CASE UNCHANGED vars
  BY <1>4 DEF vars
<1> QED
  BY <1>1, <1>2, <1>3, <1>4 DEF Next

(* The table holds exactly the running actors: attach_or_create never      *)
(* gives an id a second actor, and remove never takes another's entry.     *)
THEOREM TableCorrect == Spec => []TableIsRunning
<1>1. Init => TableIsRunning
  BY DEF Init, TableIsRunning, Registered
<1>2. TypeOK /\ TableIsRunning /\ [Next]_vars => TableIsRunning'
  BY TableStep
<1> QED
  BY <1>1, <1>2, TypeCorrect, PTL DEF Spec

-----------------------------------------------------------------------------
(* The table is finite: at most one entry per id.                          *)
LEMMA RegisteredFinite ==
    /\ IsFiniteSet(Registered)
    /\ Cardinality(Registered) \in Nat
BY RegistryAssumption, FS_Subset, FS_CardinalityType DEF Registered

(* So are the running actors, one for each entry.                          *)
LEMMA RunningFinite ==
    ASSUME TableIsRunning
    PROVE  /\ IsFiniteSet(running)
           /\ Cardinality(running) \in Nat
           /\ Cardinality(running) <= Cardinality(Registered)
<1> DEFINE f == [id \in Registered |-> <<id, table[id]>>]
<1>1. f \in Surjection(Registered, running)
  BY Fun_IsSurj DEF TableIsRunning
<1> QED
  BY <1>1, RegisteredFinite, FS_Surjection, FS_CardinalityType

(* The registered ids are at most MaxSessions.                             *)
TableCap == Cardinality(Registered) <= MaxSessions

(* attach_or_create, remove and the watcher keep the table and its cap.    *)
LEMMA TableCapStep ==
    ASSUME TypeOK, TableCap, [Next]_vars
    PROVE  TableCap'
<1> USE RegistryAssumption DEF TypeOK, TableCap
<1>1. ASSUME NEW id \in Ids, Create(id) PROVE TableCap'
  <2>1. Registered' = Registered \cup {id} /\ id \notin Registered
    BY <1>1 DEF Create, Absent, Registered
  <2>2. Cardinality(Registered \cup {id}) = Cardinality(Registered) + 1
    BY <2>1, RegisteredFinite, FS_AddElement
  <2>3. Cardinality(Registered) < MaxSessions
    BY <1>1 DEF Create, UnderCap
  <2> QED
    BY <2>1, <2>2, <2>3, RegisteredFinite
<1>2. ASSUME NEW a \in running, Remove(a) PROVE TableCap'
  <2>1. Registered' \subseteq Registered
    BY <1>2 DEF Remove, Registered
  <2>2. Cardinality(Registered') \in Nat
        /\ Cardinality(Registered') <= Cardinality(Registered)
    BY <2>1, RegisteredFinite, FS_Subset, FS_CardinalityType
  <2> QED
    BY <2>2, RegisteredFinite
<1>3. CASE WatcherNext
  BY <1>3 DEF WatcherNext, FirstCheck, Woken, Check, SleepEnds, Registered
<1>4. CASE UNCHANGED vars
  BY <1>4 DEF vars, Registered
<1> QED
  BY <1>1, <1>2, <1>3, <1>4 DEF Next

(* Never more than max_sessions actors run at a time.                      *)
THEOREM CapCorrect == Spec => []CapHeld
<1>1. Init => TableCap
  <2> SUFFICES ASSUME Init PROVE TableCap
    OBVIOUS
  <2>1. Registered = {}
    BY DEF Init, Registered
  <2> QED
    BY <2>1, FS_EmptySet, RegistryAssumption DEF TableCap
<1>2. TypeOK /\ TableCap /\ [Next]_vars => TableCap'
  BY TableCapStep
<1>3. TypeOK /\ TableIsRunning /\ TableCap => CapHeld
  <2> SUFFICES ASSUME TypeOK, TableIsRunning, TableCap PROVE CapHeld
    OBVIOUS
  <2> QED
    BY RunningFinite, RegisteredFinite, RegistryAssumption DEF TableCap, CapHeld
<1> QED
  BY <1>1, <1>2, <1>3, TypeCorrect, TableCorrect, PTL DEF Spec

-----------------------------------------------------------------------------
(* The watcher leaves its first loop only after it has seen a session.     *)
SeenOne == watcher \notin {"first", "await"} => opens > 0

(* The steps of wait_until_idle keep what it knows: past its first loop a  *)
(* session has existed.                                                    *)
LEMMA SeenOneStep ==
    ASSUME TypeOK, TableIsRunning, SeenOne, [Next]_vars
    PROVE  SeenOne'
<1> USE DEF TypeOK, SeenOne
<1>1. ASSUME NEW id \in Ids, Create(id) PROVE SeenOne'
  BY <1>1, RegistryAssumption DEF Create
<1>2. ASSUME NEW a \in running, Remove(a) PROVE SeenOne'
  BY <1>2 DEF Remove
<1>3. CASE FirstCheck
  <2>1. ~Empty => opens > 0
    <3> SUFFICES ASSUME NEW id \in Registered PROVE opens > 0
      BY DEF Empty
    <3>1. <<id, table[id]>> \in Ids \X (1..opens)
      BY DEF TableIsRunning
    <3> QED
      BY <3>1, RegistryAssumption
  <2> QED
    BY <1>3, <2>1 DEF FirstCheck, Move
<1>4. CASE Woken
  BY <1>4 DEF Woken, Move
<1>5. CASE Check
  BY <1>5 DEF Check, Move
<1>6. CASE SleepEnds
  BY <1>6 DEF SleepEnds, Move
<1>7. CASE UNCHANGED vars
  BY <1>7 DEF vars
<1> QED
  BY <1>1, <1>2, <1>3, <1>4, <1>5, <1>6, <1>7 DEF Next, WatcherNext

(* wait_until_idle never resolves while an actor runs, nor in a daemon     *)
(* that has had no session.                                                *)
THEOREM ExitCorrect == Spec => ExitsOnlyIdle
<1> DEFINE Exits == watcher' = "exit" /\ watcher # "exit"
<1>1. Init => SeenOne
  BY DEF Init, SeenOne
<1>2. TypeOK /\ TableIsRunning /\ SeenOne /\ [Next]_vars => SeenOne'
  BY SeenOneStep
<1>3. TypeOK /\ TableIsRunning /\ SeenOne /\ [Next]_vars
      => [Exits => running = {} /\ opens > 0]_vars
  <2> SUFFICES ASSUME TypeOK, TableIsRunning, SeenOne, Next, Exits
               PROVE  running = {} /\ opens > 0
    BY DEF vars
  <2>1. SleepEnds
    BY DEF Next, WatcherNext, Create, Remove, FirstCheck, Woken, Check, Move
  <2>2. watcher = "sleep" /\ Empty
    BY <2>1 DEF SleepEnds, Move
  <2> QED
    BY <2>2 DEF SeenOne, TableIsRunning, Empty
<1> QED
  BY <1>1, <1>2, <1>3, TypeCorrect, TableCorrect, PTL DEF Spec, ExitsOnlyIdle

=============================================================================
