------------------------------ MODULE Registry ------------------------------
(***************************************************************************)
(* The session table of registry.rs, the actors that enter and leave it,   *)
(* and wait_until_idle of server.rs, which watches it and ends the daemon. *)
(*                                                                         *)
(* An actor is a pair of a session id and a number: an id whose session    *)
(* has ended can be opened again.  attach_or_create and remove run under   *)
(* the table's lock, so each is one step.  Notify holds at most one permit *)
(* and has one waiter.                                                     *)
(***************************************************************************)
EXTENDS Naturals, FiniteSets

CONSTANTS
    Ids,          \* session ids
    MaxSessions,  \* max_sessions
    MaxOpens      \* bound: sessions created in a behaviour

ASSUME RegistryAssumption ==
    /\ IsFiniteSet(Ids)
    /\ MaxSessions \in Nat
    /\ MaxOpens \in Nat

VARIABLES
    table,       \* the number registered under each id, 0 for none
    opens,       \* sessions created so far
    running,     \* actors that have not removed themselves yet
    permit,      \* the permit of Notify
    watcher      \* where wait_until_idle is

vars == <<table, opens, running, permit, watcher>>

(* "first", "await": the loop before the first session                     *)
(* "check", "sleep", "wait": the loop after it                             *)
(* "exit": it has returned, the daemon shuts down                          *)
WatcherStates == {"first", "await", "check", "sleep", "wait", "exit"}

TypeOK ==
    /\ table \in [Ids -> 0..MaxOpens]
    /\ opens \in 0..MaxOpens
    /\ running \subseteq Ids \X (1..opens)
    /\ permit \in BOOLEAN
    /\ watcher \in WatcherStates

Init ==
    /\ table = [id \in Ids |-> 0]
    /\ opens = 0
    /\ running = {}
    /\ permit = FALSE
    /\ watcher = "first"

Registered == {id \in Ids : table[id] # 0}
Empty == Registered = {}

-----------------------------------------------------------------------------
(* attach_or_create for an id that is not in the table, below the cap: the *)
(* handle is inserted before the actor is spawned.  Its other outcomes,    *)
(* Existing and Rejected, change nothing.                                  *)
UnderCapOrAt == Cardinality(Registered) <= MaxSessions   \* fault: off by one
UnderCap == Cardinality(Registered) < MaxSessions

AbsentUnchecked(id) == TRUE   \* fault: check and insert are not one step
Absent(id) == table[id] = 0

Create(id) ==
    /\ Absent(id) /\ UnderCap
    /\ opens < MaxOpens
    /\ opens' = opens + 1
    /\ table' = [table EXCEPT ![id] = opens + 1]
    /\ running' = running \cup {<<id, opens + 1>>}
    /\ permit' = TRUE
    /\ UNCHANGED watcher

\* Fault: remove does not pulse Notify.
RemoveQuietly(a) ==
    /\ a \in running
    /\ running' = running \ {a}
    /\ table' = [table EXCEPT ![a[1]] = 0]
    /\ UNCHANGED <<opens, permit, watcher>>

\* remove, by the actor on its way out: by id, whoever is registered there.
Remove(a) ==
    /\ a \in running
    /\ running' = running \ {a}
    /\ table' = [table EXCEPT ![a[1]] = 0]
    /\ permit' = TRUE
    /\ UNCHANGED <<opens, watcher>>

-----------------------------------------------------------------------------
(* wait_until_idle.                                                        *)

Move(from, to) == watcher = from /\ watcher' = to

FirstCheck ==
    /\ \/ Empty /\ Move("first", "await")
       \/ ~Empty /\ Move("first", "check")
    /\ UNCHANGED <<table, opens, running, permit>>

\* wait_for_change returns and takes the permit.
Woken ==
    /\ permit
    /\ permit' = FALSE
    /\ Move("await", "first") \/ Move("wait", "check")
    /\ UNCHANGED <<table, opens, running>>

Check ==
    /\ \/ Empty /\ Move("check", "sleep")
       \/ ~Empty /\ Move("check", "wait")
    /\ UNCHANGED <<table, opens, running, permit>>

\* The grace is over: return if the table is empty, else wait again.
SleepEndsUnchecked ==   \* fault: no second look after the sleep
    /\ Move("sleep", "exit")
    /\ UNCHANGED <<table, opens, running, permit>>
SleepEnds ==
    /\ \/ Empty /\ Move("sleep", "exit")
       \/ ~Empty /\ Move("sleep", "wait")
    /\ UNCHANGED <<table, opens, running, permit>>

WatcherNext == FirstCheck \/ Woken \/ Check \/ SleepEnds

Next ==
    \/ \E id \in Ids : Create(id)
    \/ \E a \in running : Remove(a)
    \/ WatcherNext

Spec == Init /\ [][Next]_vars

\* The runtime polls the watcher when it is woken; its sleep ends.
FairSpec == Spec /\ WF_vars(WatcherNext)

-----------------------------------------------------------------------------
(* The table is exactly the running actors: no id has two, no handle is    *)
(* left of an actor that has ended, and remove, which goes by id, never    *)
(* takes away the entry of another actor.                                  *)
TableIsRunning == running = {<<id, table[id]>> : id \in Registered}

(* The cap holds although sessions come and go while others are bound.     *)
CapHeld == Cardinality(running) <= MaxSessions

(* A daemon does not decide to exit while a session runs, and not before   *)
(* one has existed.                                                        *)
ExitsOnlyIdle ==
    [][watcher' = "exit" /\ watcher # "exit" => running = {} /\ opens > 0]_vars

(* Once the watcher has seen a session, an empty table ends the daemon,    *)
(* although one permit may stand for several changes.                      *)
SelfExitsOnceSeen ==
    (watcher \notin {"first", "await"} /\ Empty) ~> (watcher = "exit" \/ ~Empty)

=============================================================================
