---------------------------- MODULE ListingProofs ---------------------------
(***************************************************************************)
(* LIST, for any number of ids, sessions, channels and LISTs:              *)
(* ListComplete.                                                           *)
(***************************************************************************)
EXTENDS Listing, RegistryProofs, SequenceTheorems

Distinct(s) == \A i, j \in 1..Len(s) : s[i] = s[j] => i = j
Members(s) == {s[i] : i \in 1..Len(s)}

(* What handles() returns: everything that is in the table, once.          *)
LEMMA OrderIs ==
    ASSUME NEW S, IsFiniteSet(S), NEW q \in Injection(1..Cardinality(S), S)
    PROVE  q \in Seq(S) /\ Distinct(q) /\ Members(q) = S
<1> DEFINE n == Cardinality(S)
           D == 1..n
<1>1. n \in Nat /\ q \in [D -> S] /\ \A i, j \in D : i # j => q[i] # q[j]
  BY FS_CardinalityType DEF Injection, IsInjective
<1>2. q \in Seq(S) /\ Len(q) = n
  BY <1>1
<1>3. q \in Injection(D, S)
  BY <1>1 DEF Injection, IsInjective
<1>4. Cardinality(D) = n
  BY <1>1, FS_Interval
<1>5. q \in Surjection(D, S)
  BY <1>3, <1>4, FS_Injection
<1>6. \A x \in S : \E i \in D : q[i] = x
  BY <1>5 DEF Surjection
<1> QED
  BY <1>1, <1>2, <1>6 DEF Distinct, Members

(* The library's words for the same.                                      *)
LEMMA InLibraryTerms ==
    ASSUME NEW S, NEW s \in Seq(S)
    PROVE  (IsInjective(s) <=> Distinct(s)) /\ Range(s) = Members(s)
BY DEF IsInjective, Range, Distinct, Members

(* A LIST that has nothing to ask, to await or to say.                     *)
LEMMA EmptyIs == \A S : <<>> \in Seq(S) /\ Distinct(<<>>) /\ Members(<<>>) = {}
BY EmptySeq DEF Distinct, Members

(* Sending to the first handle, or awaiting the first reply, takes just    *)
(* that session off the list.                                              *)
LEMMA TailIs ==
    ASSUME NEW S, NEW q \in Seq(S), q # <<>>, Distinct(q)
    PROVE  /\ Tail(q) \in Seq(S) /\ Distinct(Tail(q))
           /\ Head(q) \in Members(q)
           /\ Members(Tail(q)) = Members(q) \ {Head(q)}
<1> DEFINE n == Len(q)
<1>1. n \in Nat \ {0} /\ Head(q) = q[1] /\ Tail(q) \in Seq(S)
  OBVIOUS
<1>2. Len(Tail(q)) = n - 1 /\ \A i \in 1..(n - 1) : Tail(q)[i] = q[i + 1]
  OBVIOUS
<1> HIDE DEF n
<1>3. \A i, j \in 1..n : q[i] = q[j] => i = j
  BY DEF Distinct, n
<1>4. Members(q) = {q[i] : i \in 1..n}
  BY DEF Members, n
<1>5. Members(Tail(q)) = {q[i + 1] : i \in 1..(n - 1)}
  BY <1>2 DEF Members
<1>6. Distinct(Tail(q))
  <2> SUFFICES ASSUME NEW i \in 1..(n - 1), NEW j \in 1..(n - 1), q[i + 1] = q[j + 1]
               PROVE  i = j
    BY <1>2 DEF Distinct
  <2>1. i + 1 \in 1..n /\ j + 1 \in 1..n
    BY <1>1
  <2> QED
    BY <1>3, <2>1
<1>7. Members(Tail(q)) \subseteq Members(q) \ {q[1]}
  <2> SUFFICES ASSUME NEW i \in 1..(n - 1) PROVE q[i + 1] \in Members(q) \ {q[1]}
    BY <1>5
  <2>1. i + 1 \in 1..n /\ 1 \in 1..n /\ i + 1 # 1
    BY <1>1
  <2> QED
    BY <1>3, <1>4, <2>1
<1>8. Members(q) \ {q[1]} \subseteq Members(Tail(q))
  <2> SUFFICES ASSUME NEW i \in 1..n, q[i] # q[1] PROVE q[i] \in Members(Tail(q))
    BY <1>4
  <2>1. i - 1 \in 1..(n - 1) /\ (i - 1) + 1 = i
    BY <1>1
  <2> QED
    BY <1>5, <2>1
<1>9. q[1] \in Members(q)
  BY <1>1, <1>4
<1> QED
  BY <1>1, <1>6, <1>7, <1>8, <1>9

(* A session that is not on a list yet can be added to it.                 *)
LEMMA AppendIs ==
    ASSUME NEW S, NEW q \in Seq(S), NEW x \in S, Distinct(q), x \notin Members(q)
    PROVE  /\ Append(q, x) \in Seq(S) /\ Distinct(Append(q, x))
           /\ Members(Append(q, x)) = Members(q) \cup {x}
<1> DEFINE n == Len(q)
           r == Append(q, x)
<1>1. n \in Nat /\ r \in Seq(S) /\ Len(r) = n + 1
  OBVIOUS
<1>2. r[n + 1] = x /\ \A i \in 1..n : r[i] = q[i]
  OBVIOUS
<1>3. \A i, j \in 1..n : q[i] = q[j] => i = j
  BY DEF Distinct
<1>4. Members(q) = {q[i] : i \in 1..n} /\ Members(r) = {r[i] : i \in 1..(n + 1)}
  BY <1>1 DEF Members
<1>5. Distinct(r) <=> \A i, j \in 1..(n + 1) : r[i] = r[j] => i = j
  BY <1>1 DEF Distinct
<1> HIDE DEF n, r
<1>6. \A i \in 1..(n + 1) : i \in 1..n \/ i = n + 1
  BY <1>1
<1>7. \A i \in 1..n : i \in 1..(n + 1) /\ r[i] # x
  BY <1>1, <1>2, <1>4
<1>8. Distinct(r)
  BY <1>2, <1>3, <1>5, <1>6, <1>7
<1>9. n + 1 \in 1..(n + 1)
  BY <1>1
<1>10. Members(r) = Members(q) \cup {x}
  BY <1>2, <1>4, <1>6, <1>7, <1>9
<1> QED
  BY <1>1, <1>8, <1>10 DEF r

-----------------------------------------------------------------------------
Actors == Ids \X Nat

(* A receiver is dropped only by an actor that has run and has ended.      *)
GoneInv ==
    /\ gone \subseteq 1..opens
    /\ \A a \in running : a[2] \notin gone

(* Every session that the LIST has taken is in one place: not asked yet,   *)
(* asked, answered, or left out because it has ended.                      *)
CollectInv ==
    /\ snapshot \subseteq Ids \X (1..opens)
    /\ todo \in Seq(Actors) /\ asked \in Seq(Actors) /\ out \in Seq(Actors)
    /\ Distinct(todo) /\ Distinct(asked) /\ Distinct(out)
    /\ Members(todo) \cup Members(asked) \cup Members(out) \subseteq snapshot
    /\ Members(todo) \cap Members(asked) = {}
    /\ Members(asked) \cap Members(out) = {}
    /\ snapshot \cap running \subseteq Members(todo) \cup Members(asked) \cup Members(out)

PhaseInv ==
    /\ lister \in {"idle", "sending", "waiting"}
    /\ lister = "idle" => todo = <<>> /\ asked = <<>> /\ out = <<>>
    /\ lister = "sending" => out = <<>>
    /\ lister = "waiting" => todo = <<>>

ListInv == TypeOK /\ TableIsRunning /\ GoneInv /\ CollectInv /\ PhaseInv

(* The daemon starts without sessions and without a LIST.                  *)
LEMMA ListInitInv ==
    ASSUME ListInit
    PROVE  ListInv
<1> USE DEF ListInit
<1>1. TypeOK
  BY TypeInit
<1>2. TableIsRunning
  BY DEF Init, TableIsRunning, Registered
<1>3. GoneInv
  BY DEF Init, GoneInv
<1>4. CollectInv
  BY EmptyIs DEF CollectInv
<1>5. PhaseInv
  BY DEF PhaseInv
<1> QED
  BY <1>1, <1>2, <1>3, <1>4, <1>5 DEF ListInv

(* A step of the registry gives a new session a new number, and ends       *)
(* others: neither adds to what this LIST owes its client.                 *)
LEMMA RegistryStep ==
    ASSUME ListInv, Next, UNCHANGED <<listVars, inbox, gone>>
    PROVE  ListInv'
<1> USE RegistryAssumption DEF ListInv, listVars
<1>1. TypeOK' /\ TableIsRunning'
  BY TypeStep, TableStep
<1>2. opens \in Nat /\ opens' \in Nat /\ opens <= opens'
  BY DEF TypeOK, Next, Create, Remove, WatcherNext, FirstCheck, Woken, Check, SleepEnds
<1>3. \A a \in running' : a \in running \/ a[2] = opens + 1
  BY DEF Next, Create, Remove, WatcherNext, FirstCheck, Woken, Check, SleepEnds
<1>4. GoneInv'
  BY <1>2, <1>3 DEF GoneInv
<1>5. CollectInv'
  <2>1. snapshot' \subseteq Ids \X (1..opens')
    BY <1>2 DEF CollectInv
  <2>2. snapshot \cap running' \subseteq snapshot \cap running
    BY <1>2, <1>3 DEF CollectInv
  <2> QED
    BY <2>1, <2>2 DEF CollectInv
<1>6. PhaseInv'
  BY DEF PhaseInv
<1> QED
  BY <1>1, <1>4, <1>5, <1>6

(* Commands, the actors that take them and the receivers that are dropped  *)
(* leave the collection alone.                                             *)
LEMMA ChannelStep ==
    ASSUME ListInv,
           \/ \E a \in running : OtherSends(a) \/ ActorTakes(a)
           \/ \E n \in 1..MaxOpens : DropsReceiver(n)
    PROVE  ListInv'
<1> USE DEF ListInv
<1>1. /\ UNCHANGED <<vars, snapshot, todo, asked, out, lister>>
      /\ \/ gone' = gone
         \/ \E n \in 1..MaxOpens : /\ n <= opens /\ gone' = gone \cup {n}
                                   /\ \A a \in running : a[2] # n
  BY DEF OtherSends, ActorTakes, DropsReceiver, listVars
<1>2. TypeOK' /\ TableIsRunning'
  BY <1>1 DEF vars, TypeOK, TableIsRunning, Registered
<1>3. GoneInv'
  <2>1. opens \in Nat
    BY RegistryAssumption DEF TypeOK
  <2>2. running' = running /\ opens' = opens
    BY <1>1 DEF vars
  <2>3. CASE gone' = gone
    BY <2>2, <2>3 DEF GoneInv
  <2>4. ASSUME NEW n \in 1..MaxOpens, n <= opens, gone' = gone \cup {n},
               \A a \in running : a[2] # n
        PROVE  GoneInv'
    BY <2>1, <2>2, <2>4 DEF GoneInv
  <2> QED
    BY <1>1, <2>3, <2>4
<1>4. CollectInv' /\ PhaseInv'
  BY <1>1 DEF vars, CollectInv, PhaseInv
<1> QED
  BY <1>2, <1>3, <1>4

(* handles() takes what is in the table, which is what runs.               *)
LEMMA StartStep ==
    ASSUME ListInv, ListStart
    PROVE  ListInv'
<1> USE RegistryAssumption DEF ListInv, ListStart
<1>1. TypeOK' /\ TableIsRunning' /\ GoneInv'
  BY DEF vars, TypeOK, TableIsRunning, Registered, GoneInv
<1>2. snapshot' = running
  BY DEF TableIsRunning
<1>3. running \subseteq Ids \X (1..opens) /\ opens \in Nat
  BY DEF TypeOK
<1>4. IsFiniteSet(running)
  BY RunningFinite
<1>5. todo' \in Seq(running) /\ Distinct(todo') /\ Members(todo') = running
  BY <1>2, <1>4, OrderIs
<1>6. todo' \in Seq(Actors)
  BY <1>3, <1>5 DEF Actors
<1>7. asked = <<>> /\ out = <<>>
  BY DEF PhaseInv
<1>8. CollectInv'
  BY <1>2, <1>3, <1>5, <1>6, <1>7, EmptyIs DEF CollectInv, vars
<1>9. PhaseInv'
  BY <1>7 DEF PhaseInv
<1> QED
  BY <1>1, <1>8, <1>9

(* The registry and the receivers are not the lister's to change.          *)
LEMMA RegistryKept ==
    ASSUME ListInv, UNCHANGED <<vars, gone>>
    PROVE  TypeOK' /\ TableIsRunning' /\ GoneInv'
BY DEF ListInv, vars, TypeOK, TableIsRunning, Registered, GoneInv

(* A handle moves from the ones to ask to the ones that were asked, or is  *)
(* dropped when its channel is closed: then its session has ended.         *)
LEMMA SendStep ==
    ASSUME ListInv, SendInfo \/ SendFails
    PROVE  ListInv'
<1> USE DEF ListInv
<1> DEFINE a == Head(todo)
<1>1. /\ UNCHANGED <<vars, gone, lister, snapshot, out>>
      /\ lister = "sending" /\ todo # <<>> /\ todo' = Tail(todo)
      /\ asked' = Append(asked, a) \/ (asked' = asked /\ a[2] \in gone)
  BY DEF SendInfo, SendFails
<1>2. TypeOK' /\ TableIsRunning' /\ GoneInv'
  BY <1>1, RegistryKept
<1>3. /\ todo' \in Seq(Actors) /\ Distinct(todo') /\ a \in Members(todo)
      /\ Members(todo') = Members(todo) \ {a}
  BY <1>1, TailIs DEF CollectInv
<1>4. a \in snapshot /\ a \notin Members(asked) /\ snapshot \subseteq Actors
  <2>1. snapshot \subseteq Ids \X (1..opens) /\ opens \in Nat
    BY RegistryAssumption DEF CollectInv, TypeOK
  <2> QED
    BY <1>3, <2>1 DEF CollectInv, Actors
<1> HIDE DEF a
<1>5. CollectInv'
  <2>1. snapshot' = snapshot /\ running' = running /\ out' = out /\ opens' = opens
    BY <1>1 DEF vars
  <2>2. CASE asked' = Append(asked, a)
    <3>1. /\ asked' \in Seq(Actors) /\ Distinct(asked')
          /\ Members(asked') = Members(asked) \cup {a}
      BY <1>4, <2>2, AppendIs DEF CollectInv
    <3>2. Members(out) = {}
      BY <1>1, EmptyIs DEF PhaseInv
    <3> QED
      BY <1>3, <1>4, <2>1, <3>1, <3>2 DEF CollectInv
  <2>3. CASE asked' = asked /\ a[2] \in gone
    <3>1. a \notin running
      BY <2>3 DEF GoneInv
    <3> QED
      BY <1>3, <2>1, <2>3, <3>1 DEF CollectInv
  <2> QED
    BY <1>1, <2>2, <2>3
<1>6. PhaseInv'
  BY <1>1 DEF PhaseInv
<1> QED
  BY <1>2, <1>5, <1>6

(* The same for the replies: what is awaited and does not come is of a     *)
(* session that has ended.                                                 *)
LEMMA AwaitStep ==
    ASSUME ListInv, Await
    PROVE  ListInv'
<1> USE DEF ListInv
<1> DEFINE a == Head(asked)
<1>1. /\ UNCHANGED <<vars, gone, lister, snapshot, todo>>
      /\ lister = "waiting" /\ asked # <<>> /\ asked' = Tail(asked)
      /\ out' = Append(out, a) \/ (out' = out /\ a[2] \in gone)
  BY DEF Await
<1>2. TypeOK' /\ TableIsRunning' /\ GoneInv'
  BY <1>1, RegistryKept
<1>3. /\ asked' \in Seq(Actors) /\ Distinct(asked') /\ a \in Members(asked)
      /\ Members(asked') = Members(asked) \ {a}
  BY <1>1, TailIs DEF CollectInv
<1>4. a \in snapshot /\ a \notin Members(out) /\ snapshot \subseteq Actors
  <2>1. snapshot \subseteq Ids \X (1..opens) /\ opens \in Nat
    BY RegistryAssumption DEF CollectInv, TypeOK
  <2> QED
    BY <1>3, <2>1 DEF CollectInv, Actors
<1> HIDE DEF a
<1>5. CollectInv'
  <2>1. snapshot' = snapshot /\ running' = running /\ todo' = todo /\ opens' = opens
    BY <1>1 DEF vars
  <2>2. CASE out' = Append(out, a)
    <3>1. /\ out' \in Seq(Actors) /\ Distinct(out')
          /\ Members(out') = Members(out) \cup {a}
      BY <1>4, <2>2, AppendIs DEF CollectInv
    <3> QED
      BY <1>3, <1>4, <2>1, <3>1 DEF CollectInv
  <2>3. CASE out' = out /\ a[2] \in gone
    <3>1. a \notin running
      BY <2>3 DEF GoneInv
    <3> QED
      BY <1>3, <2>1, <2>3, <3>1 DEF CollectInv
  <2> QED
    BY <1>1, <2>2, <2>3
<1>6. PhaseInv'
  BY <1>1 DEF PhaseInv
<1> QED
  BY <1>2, <1>5, <1>6

(* The end of the sends, and the reply.                                    *)
LEMMA TurnStep ==
    ASSUME ListInv, SendingDone \/ ListDone \/ Deadline
    PROVE  ListInv'
<1> USE DEF ListInv
<1>1. TypeOK' /\ TableIsRunning' /\ GoneInv'
  BY RegistryKept DEF SendingDone, ListDone, Deadline, Reply
<1>2. CASE SendingDone
  BY <1>1, <1>2 DEF SendingDone, CollectInv, PhaseInv, vars
<1>3. CASE ListDone \/ Deadline
  <2>1. /\ snapshot' = {} /\ asked' = <<>> /\ out' = <<>> /\ todo' = <<>>
        /\ lister' = "idle"
    BY <1>3 DEF ListDone, Deadline, Reply, PhaseInv
  <2>2. CollectInv'
    BY <2>1, EmptyIs DEF CollectInv
  <2> QED
    BY <1>1, <2>1, <2>2 DEF PhaseInv
<1> QED
  BY <1>2, <1>3

(* Every step of collect_sessions and of what runs beside it.              *)
LEMMA ListStep ==
    ASSUME ListInv, [ListNext]_allVars
    PROVE  ListInv'
<1>1. CASE UNCHANGED allVars
  BY <1>1 DEF allVars, listVars, vars, ListInv, TypeOK, TableIsRunning, Registered,
              GoneInv, CollectInv, PhaseInv
<1>2. CASE Next /\ UNCHANGED <<listVars, inbox, gone>>
  BY <1>2, RegistryStep
<1>3. CASE \/ \E a \in running : OtherSends(a) \/ ActorTakes(a)
           \/ \E n \in 1..MaxOpens : DropsReceiver(n)
  BY <1>3, ChannelStep
<1>4. CASE ListStart
  BY <1>4, StartStep
<1>5. CASE SendInfo \/ SendFails
  BY <1>5, SendStep
<1>6. CASE Await
  BY <1>6, AwaitStep
<1>7. CASE SendingDone \/ ListDone \/ Deadline
  BY <1>7, TurnStep
<1> QED
  BY <1>1, <1>2, <1>3, <1>4, <1>5, <1>6, <1>7 DEF ListNext, Collects

(* SESSIONS names sessions of the table that collect_sessions took its     *)
(* handles from, each once, and all of those that still run, unless the    *)
(* deadline cuts it short: however sessions come and go meanwhile.         *)
THEOREM ListCorrect == ListSpec => ListComplete
<1> DEFINE Complete == lister = "waiting" /\ lister' = "idle" =>
              /\ IsInjective(out) /\ Range(out) \subseteq snapshot
              /\ asked = <<>> => snapshot \cap running \subseteq Range(out)
<1>1. ListInit => ListInv
  BY ListInitInv
<1>2. ListInv /\ [ListNext]_allVars => ListInv'
  BY ListStep
<1>3. ListInv /\ [ListNext]_allVars => [Complete]_allVars
  <2> SUFFICES ASSUME ListInv, lister = "waiting"
               PROVE  /\ IsInjective(out) /\ Range(out) \subseteq snapshot
                      /\ asked = <<>> => snapshot \cap running \subseteq Range(out)
    OBVIOUS
  <2>1. todo = <<>> /\ out \in Seq(Actors)
    BY DEF ListInv, PhaseInv, CollectInv
  <2>2. IsInjective(out) /\ Range(out) = Members(out)
    BY <2>1, InLibraryTerms DEF ListInv, CollectInv
  <2> QED
    BY <2>1, <2>2, EmptyIs DEF ListInv, CollectInv
<1> QED
  BY <1>1, <1>2, <1>3, PTL DEF ListSpec, ListComplete

=============================================================================
