------------------------------- MODULE Handoff ------------------------------
(***************************************************************************)
(* Which process is the daemon.  jftermd processes are launched, serve,    *)
(* shut down or are killed; acquire_daemon of daemonize.rs and main decide *)
(* by an flock on the lockfile which of them binds the socket.             *)
(*                                                                         *)
(* A path names an inode or nothing.  An flock belongs to an inode and     *)
(* lives as long as the descriptor it was taken on, also when the path has *)
(* been unlinked meanwhile.  Lockfile inodes are numbered as they are      *)
(* created; the socket path holds the process that bound the socket there. *)
(***************************************************************************)
EXTENDS Naturals

CONSTANTS
    Procs,       \* the processes launched in a behaviour
    NoProc,      \* nobody
    CleanExits,  \* do daemons shut down cleanly (idle, SIGTERM, SIGINT)?
    Kills        \* are processes killed?

ASSUME HandoffAssumption ==
    /\ NoProc \notin Procs
    /\ CleanExits \in BOOLEAN
    /\ Kills \in BOOLEAN

VARIABLES
    pc,        \* where each process is
    fd,        \* the lockfile inode it has open, 0 for none
    lockPath,  \* the inode at the lockfile path, 0 for none
    inodes,    \* lockfile inodes created so far
    sock,      \* who bound the socket at the socket path, or NoProc
    stray      \* history: a lockfile was made while an unlinked one was in use

vars == <<pc, fd, lockPath, inodes, sock, stray>>

(* Before the lock: "idle" is not launched, "opening" is about to open the *)
(* lockfile, "locking" has it open.  With it: "binding", then, when bind   *)
(* says AddrInUse, "stale" and "rebinding"; "securing" has bound and is    *)
(* about to chmod; "serving" is the daemon.  Shutting down: "stopping" has *)
(* closed its listener, "unlocking" has removed the socket file, "leaving" *)
(* has removed the lockfile.  Ended: "lost" to another daemon, "failed"    *)
(* with an error, "gone" after a clean exit, "killed".                     *)
Teardown == {"stopping", "unlocking", "leaving"}
Holding == {"binding", "stale", "rebinding", "securing", "serving"} \cup Teardown
\* Has the lockfile open, and what it does next depends on it.
Using == {"locking"} \cup (Holding \ {"leaving"})
Ended == {"lost", "failed", "gone", "killed"}
States == {"idle", "opening", "locking"} \cup Holding \cup Ended

(* A process has the lockfile open from the open to the end of the attempt *)
(* or of the process, and not while it sleeps between two attempts.        *)
TypeOK ==
    /\ pc \in [Procs -> States]
    /\ inodes \in Nat
    /\ lockPath \in 0..inodes
    /\ fd \in [Procs -> 0..inodes]
    /\ \A p \in Procs : fd[p] # 0 <=> pc[p] \in {"locking"} \cup Holding
    /\ sock \in Procs \cup {NoProc}
    /\ stray \in BOOLEAN

Init ==
    /\ pc = [p \in Procs |-> "idle"]
    /\ fd = [p \in Procs |-> 0]
    /\ lockPath = 0
    /\ inodes = 0
    /\ sock = NoProc
    /\ stray = FALSE

Goto(p, s) == pc' = [pc EXCEPT ![p] = s]

\* The process ends: its descriptors close and its flock is released.
End(p, how) == Goto(p, how) /\ fd' = [fd EXCEPT ![p] = 0]

LockHolders(i) == {p \in Procs : pc[p] \in Holding /\ fd[p] = i}

-----------------------------------------------------------------------------
Launch(p) ==
    /\ pc[p] = "idle"
    /\ Goto(p, "opening")
    /\ UNCHANGED <<fd, lockPath, inodes, sock, stray>>

(* try_flock opens, creating the file if it is not there, ...              *)
OpenLock(p) ==
    /\ pc[p] = "opening"
    /\ IF lockPath = 0
       THEN /\ inodes' = inodes + 1
            /\ lockPath' = inodes + 1
            /\ fd' = [fd EXCEPT ![p] = inodes + 1]
       ELSE /\ fd' = [fd EXCEPT ![p] = lockPath]
            /\ UNCHANGED <<lockPath, inodes>>
    /\ stray' = (stray \/ (lockPath = 0 /\ \E q \in Procs : pc[q] \in Using))
    /\ Goto(p, "locking")
    /\ UNCHANGED sock

(* ... and locks what it opened, which need not be at the path any more.   *)
LockIgnored(p) == TRUE   \* fault: a held lock does not stop the launch
LockFree(p) == LockHolders(fd[p]) = {}

TakeLock(p) ==
    /\ pc[p] = "locking" /\ LockFree(p)
    /\ Goto(p, "binding")
    /\ UNCHANGED <<fd, lockPath, inodes, sock, stray>>

\* Fault: the file stays open while the launch sleeps.
RetryKeepsOpen(p) ==
    /\ pc[p] = "locking" /\ ~LockFree(p)
    /\ Goto(p, "opening")
    /\ UNCHANGED <<fd, lockPath, inodes, sock, stray>>

\* acquire_flock: close the file, sleep ACQUIRE_POLL, open it again.
RetryLock(p) ==
    /\ pc[p] = "locking" /\ ~LockFree(p)
    /\ Goto(p, "opening")
    /\ fd' = [fd EXCEPT ![p] = 0]
    /\ UNCHANGED <<lockPath, inodes, sock, stray>>

\* Fault: a lock that is held is given up at once, without a window.
GiveUpAtOnce(p) ==
    /\ pc[p] = "locking" /\ ~LockFree(p)
    /\ End(p, "lost")
    /\ UNCHANGED <<lockPath, inodes, sock, stray>>

(* ACQUIRE_TIMEOUT is over.  Assumed of time: a process that has begun to  *)
(* shut down lets go of the lock within the window.                        *)
GiveUp(p) ==
    /\ pc[p] = "locking"
    /\ \E q \in LockHolders(fd[p]) : pc[q] \notin Teardown
    /\ End(p, "lost")
    /\ UNCHANGED <<lockPath, inodes, sock, stray>>

-----------------------------------------------------------------------------
(* acquire_daemon with the lock held.                                      *)

Bind(p) ==
    /\ pc[p] = "binding"
    /\ IF sock = NoProc
       THEN sock' = p /\ Goto(p, "securing")
       ELSE UNCHANGED sock /\ Goto(p, "stale")
    /\ UNCHANGED <<fd, lockPath, inodes, stray>>

\* unlink_stale_socket; a file that has vanished is an error.
UnlinkStale(p) ==
    /\ pc[p] = "stale"
    /\ IF sock = NoProc
       THEN End(p, "failed") /\ UNCHANGED sock
       ELSE sock' = NoProc /\ Goto(p, "rebinding") /\ UNCHANGED fd
    /\ UNCHANGED <<lockPath, inodes, stray>>

Rebind(p) ==
    /\ pc[p] = "rebinding"
    /\ IF sock = NoProc
       THEN sock' = p /\ Goto(p, "securing") /\ UNCHANGED fd
       ELSE UNCHANGED sock /\ End(p, "failed")
    /\ UNCHANGED <<lockPath, inodes, stray>>

\* restrict_socket_perms works on the path; when there is nothing at it the
\* remove_file of the error path finds nothing either.
Secure(p) ==
    /\ pc[p] = "securing"
    /\ IF sock = NoProc THEN End(p, "failed")
       ELSE Goto(p, "serving") /\ UNCHANGED fd
    /\ UNCHANGED <<lockPath, inodes, sock, stray>>

-----------------------------------------------------------------------------
(* main, after the runtime has been told to stop.                          *)

Stop(p) ==
    /\ CleanExits
    /\ pc[p] = "serving"
    /\ Goto(p, "stopping")
    /\ UNCHANGED <<fd, lockPath, inodes, sock, stray>>

RemoveSocket(p) ==
    /\ pc[p] = "stopping"
    /\ sock' = NoProc
    /\ Goto(p, "unlocking")
    /\ UNCHANGED <<fd, lockPath, inodes, stray>>

RemoveLock(p) ==
    /\ pc[p] = "unlocking"
    /\ lockPath' = 0
    /\ Goto(p, "leaving")
    /\ UNCHANGED <<fd, inodes, sock, stray>>

Leave(p) ==
    /\ pc[p] = "leaving"
    /\ End(p, "gone")
    /\ UNCHANGED <<lockPath, inodes, sock, stray>>

\* SIGKILL or a crash: both files stay behind.
Die(p) ==
    /\ Kills
    /\ pc[p] \notin Ended \cup {"idle"}
    /\ End(p, "killed")
    /\ UNCHANGED <<lockPath, inodes, sock, stray>>

Step(p) ==
    \/ OpenLock(p) \/ TakeLock(p) \/ RetryLock(p)
    \/ Bind(p) \/ UnlinkStale(p) \/ Rebind(p) \/ Secure(p)
    \/ RemoveSocket(p) \/ RemoveLock(p) \/ Leave(p)

Next == \E p \in Procs : Launch(p) \/ Step(p) \/ GiveUp(p) \/ Stop(p) \/ Die(p)

Spec == Init /\ [][Next]_vars

(* A launched process runs.  The deadline of acquire_flock passes: SF,     *)
(* because a retry closes and opens the file in between.                   *)
FairSpec ==
    Spec /\ \A p \in Procs : WF_vars(Step(p)) /\ SF_vars(GiveUp(p))

-----------------------------------------------------------------------------
Serving(p) == pc[p] = "serving"

(* Concurrent launches converge on one daemon (PROTOCOL-v1, Spawning).     *)
OneDaemon == \A p, q \in Procs : Serving(p) /\ Serving(q) => p = q

(* main unlinks the lockfile while it holds it.  A launch that has it open *)
(* then locks a file that nobody else can see, and once a third process    *)
(* makes a new one every promise of acquire_daemon is lost.  The           *)
(* properties below say that nothing else can break them: not a crash at   *)
(* any point, not a shutdown under a waiting launch, not any number of     *)
(* launches while there is one lockfile.                                   *)

(* No two daemons serve, unless two lockfiles have been in use at once.    *)
OneUnlessStray == ~stray => OneDaemon

(* A daemon that serves can be reached: the socket file is its own, so no  *)
(* predecessor's cleanup and no rival's stale-socket unlink has hit it.    *)
ServingReachable == ~stray => \A p \in Procs : Serving(p) => sock = p

(* With the lock held, bind, unlink, rebind and chmod cannot run into      *)
(* another process: no launch ends with an error.                          *)
NoLaunchFails == ~stray => \A p \in Procs : pc[p] # "failed"

(* acquire_flock: a launch while the predecessor is tearing down, or after *)
(* it was killed at any point, does not end with no daemon at all.  Only a *)
(* launch that is killed itself, or has left the field to one that is      *)
(* killed then, may.                                                       *)
LaunchReachesDaemon ==
    \A p \in Procs :
        pc[p] = "opening" ~>
            \/ \E q \in Procs : Serving(q) /\ sock = q
            \/ pc[p] = "killed"
            \/ pc[p] = "lost" /\ \E q \in Procs : pc[q] = "killed"
            \/ stray

=============================================================================
