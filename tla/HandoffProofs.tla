---------------------------- MODULE HandoffProofs ---------------------------
(***************************************************************************)
(* Handoff for any number of processes.  main unlinks the lockfile while   *)
(* it holds it.  TLC finds two daemons when another process goes on with   *)
(* that file and a third one makes a new file; here it is shown that       *)
(* nothing else can go wrong.  As long as no lockfile is made while an     *)
(* unlinked one is in use, clean exits, also under a launch that waits,    *)
(* crashes at any point and launches that meet a predecessor in any phase  *)
(* of its shutdown leave one daemon at most, at the socket path.           *)
(***************************************************************************)
EXTENDS Handoff, TLAPS

(* Every step of every process keeps the types.                            *)
THEOREM TypeCorrect == Spec => []TypeOK
<1>1. Init => TypeOK
  <2> SUFFICES ASSUME Init PROVE TypeOK
    OBVIOUS
  <2>1. stray \in BOOLEAN
    BY DEF Init
  <2>2. \A p \in Procs : fd[p] # 0 <=> pc[p] \in {"locking"} \cup Holding
    BY DEF Init, Holding, Teardown
  <2> QED
    BY <2>1, <2>2 DEF Init, TypeOK, States
<1>2. TypeOK /\ [Next]_vars => TypeOK'
  <2> SUFFICES ASSUME TypeOK, [Next]_vars PROVE TypeOK'
    OBVIOUS
  <2> USE DEF TypeOK, States, Holding, Teardown, Ended, Goto, End
  <2>1. ASSUME NEW p \in Procs, Launch(p) \/ TakeLock(p) \/ RetryLock(p) \/ GiveUp(p)
        PROVE  TypeOK'
    BY <2>1 DEF Launch, TakeLock, RetryLock, GiveUp
  <2>2. ASSUME NEW p \in Procs, OpenLock(p) PROVE TypeOK'
    BY <2>2 DEF OpenLock
  <2>3. ASSUME NEW p \in Procs, Bind(p) \/ UnlinkStale(p) \/ Rebind(p) \/ Secure(p)
        PROVE  TypeOK'
    BY <2>3 DEF Bind, UnlinkStale, Rebind, Secure
  <2>4. ASSUME NEW p \in Procs,
               Stop(p) \/ RemoveSocket(p) \/ RemoveLock(p) \/ Leave(p) \/ Die(p)
        PROVE  TypeOK'
    BY <2>4 DEF Stop, RemoveSocket, RemoveLock, Leave, Die
  <2>5. CASE UNCHANGED vars
    BY <2>5 DEF vars
  <2> QED
    BY <2>1, <2>2, <2>3, <2>4, <2>5 DEF Next, Step
<1> QED
  BY <1>1, <1>2, PTL DEF Spec

-----------------------------------------------------------------------------
(* The strengthening.  Active processes are those past the flock that have *)
(* not unlinked the lockfile yet.  They and the ones that are about to     *)
(* lock have one file open, which is the one at the path or is at none; so *)
(* there is one active process at most, and the socket path is what that   *)
(* one left there.  One that is leaving touches nothing any more.          *)
Active == Holding \ {"leaving"}
OneInode ==
    \A p, q \in Procs : pc[p] \in Using /\ pc[q] \in Using => fd[p] = fd[q]
AtPath == \A p \in Procs : pc[p] \in Using => lockPath \in {0, fd[p]}
OneActive == \A p, q \in Procs : pc[p] \in Active /\ pc[q] \in Active => p = q
SocketPath == \A p \in Procs :
    /\ pc[p] \in {"securing", "serving"} => sock = p
    /\ pc[p] = "rebinding" => sock = NoProc
    /\ pc[p] = "stale" => sock # NoProc
NoneFailed == \A p \in Procs : pc[p] # "failed"

LockKept == OneInode /\ AtPath /\ OneActive /\ SocketPath /\ NoneFailed
LockInv == ~stray => LockKept

(* Every step keeps the invariant: only TakeLock makes a process active,   *)
(* and it needs the one lock there is; only a new lockfile can make        *)
(* another one, and it is made when none is in use or the step is stray.   *)
LEMMA LockStep ==
    ASSUME TypeOK, LockKept, Next, ~stray, ~stray'
    PROVE  LockKept'
<1> USE HandoffAssumption
    DEF TypeOK, LockKept, OneInode, AtPath, OneActive, SocketPath, Active,
        NoneFailed, Using, Holding, Teardown, Ended, States, Goto, End
<1>1. ASSUME NEW p \in Procs, Launch(p) PROVE LockKept'
  BY <1>1 DEF Launch
<1>2. ASSUME NEW p \in Procs, OpenLock(p) PROVE LockKept'
  <2>1. CASE lockPath = 0
    <3>1. \A q \in Procs : pc[q] \notin Using
      BY <1>2, <2>1 DEF OpenLock
    <3> QED
      BY <1>2, <2>1, <3>1 DEF OpenLock
  <2>2. CASE lockPath # 0
    BY <1>2, <2>2 DEF OpenLock
  <2> QED
    BY <2>1, <2>2
<1>3. ASSUME NEW p \in Procs, TakeLock(p) PROVE LockKept'
  <2>1. \A q \in Procs : pc[q] \notin Active
    BY <1>3 DEF TakeLock, LockFree, LockHolders
  <2> QED
    BY <1>3, <2>1 DEF TakeLock
<1>4. ASSUME NEW p \in Procs, RetryLock(p) \/ GiveUp(p) PROVE LockKept'
  BY <1>4 DEF RetryLock, GiveUp
<1>5. ASSUME NEW p \in Procs, Bind(p) PROVE LockKept'
  BY <1>5 DEF Bind
<1>6. ASSUME NEW p \in Procs, UnlinkStale(p) PROVE LockKept'
  BY <1>6 DEF UnlinkStale
<1>7. ASSUME NEW p \in Procs, Rebind(p) PROVE LockKept'
  BY <1>7 DEF Rebind
<1>8. ASSUME NEW p \in Procs, Secure(p) PROVE LockKept'
  BY <1>8 DEF Secure
<1>9. ASSUME NEW p \in Procs, Stop(p) \/ RemoveSocket(p) \/ Leave(p) PROVE LockKept'
  BY <1>9 DEF Stop, RemoveSocket, Leave
<1>10. ASSUME NEW p \in Procs, RemoveLock(p) PROVE LockKept'
  BY <1>10 DEF RemoveLock
<1>11. ASSUME NEW p \in Procs, Die(p) PROVE LockKept'
  BY <1>11 DEF Die
<1> QED
  BY <1>1, <1>2, <1>3, <1>4, <1>5, <1>6, <1>7, <1>8, <1>9, <1>10, <1>11
  DEF Next, Step

(* A behaviour that has gone stray stays so.                               *)
LEMMA StrayStays == ASSUME Next, stray PROVE stray'
BY DEF Next, Step, Launch, OpenLock, TakeLock, RetryLock, GiveUp, Bind,
       UnlinkStale, Rebind, Secure, Stop, RemoveSocket, RemoveLock, Leave, Die

(* LockInv holds of every reachable state.                                 *)
LEMMA LockInvariant == Spec => []LockInv
<1>1. Init => LockInv
  BY DEF Init, LockInv, LockKept, OneInode, AtPath, OneActive, SocketPath,
         NoneFailed, Using, Active, Holding, Teardown
<1>2. TypeOK /\ LockInv /\ [Next]_vars => LockInv'
  <2> SUFFICES ASSUME TypeOK, LockInv, [Next]_vars PROVE LockInv'
    OBVIOUS
  <2>1. CASE UNCHANGED vars
    BY <2>1 DEF vars, LockInv, LockKept, OneInode, AtPath, OneActive, SocketPath,
                NoneFailed
  <2>2. CASE Next
    BY <2>2, StrayStays, LockStep DEF LockInv
  <2> QED
    BY <2>1, <2>2
<1> QED
  BY <1>1, <1>2, TypeCorrect, PTL DEF Spec

(* However many processes are launched, exit and are killed, at most one   *)
(* serves while no second lockfile has been in use.                        *)
THEOREM OneServes == Spec => []OneUnlessStray
<1>1. LockInv => OneUnlessStray
  BY DEF LockInv, LockKept, OneActive, OneUnlessStray, OneDaemon, Serving, Active,
         Holding, Teardown
<1> QED
  BY <1>1, LockInvariant, PTL

(* No launch runs into another process with the lock held.                 *)
THEOREM LaunchesSucceed == Spec => []NoLaunchFails
<1>1. LockInv => NoLaunchFails
  BY DEF LockInv, LockKept, NoneFailed, NoLaunchFails
<1> QED
  BY <1>1, LockInvariant, PTL

(* The one that serves can be reached at the socket path: neither the      *)
(* cleanup of a predecessor nor a rival's unlink has hit it.               *)
THEOREM Reachable == Spec => []ServingReachable
<1>1. LockInv => ServingReachable
  BY DEF LockInv, LockKept, SocketPath, ServingReachable, Serving
<1> QED
  BY <1>1, LockInvariant, PTL

=============================================================================
