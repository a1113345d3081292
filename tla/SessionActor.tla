---------------------------- MODULE SessionActor ----------------------------
(***************************************************************************)
(* One session: the Session of session.rs and the task that owns it,       *)
(* session_task and actor_loop of server.rs.  The actor takes commands     *)
(* from a bounded channel, drains the PTY into the replay engine, forwards *)
(* frames to at most one client, and removes itself from the registry on   *)
(* the way out.                                                            *)
(*                                                                         *)
(* Every frame for a client is an interval of output positions: a DATA     *)
(* frame carries the units from+1..to, a STATUS or EXIT frame is empty and *)
(* stands at the position the actor had reached.  Two frames follow each   *)
(* other without loss exactly when the second starts where the first ends. *)
(***************************************************************************)
EXTENDS PtyShell, Sequences

CONSTANTS
    Conns,       \* session connections
    NoConn,      \* Option::None for a connection
    CmdCap,      \* capacity of the command channel (256 in the code)
    OutQ,        \* ServerOpts::out_queue (1024 in the code)
    FrameMax,    \* MAX_FRAME_LEN, in units
    InputSizes,  \* sizes of INPUT payloads, in input units
    IoErrors     \* may open, registration, readable() or drain() fail?

(* The out-queue holds any replay and the STATUS and EXIT behind it: 1024  *)
(* frames of 16 MiB in the code.                                           *)
ASSUME ActorAssumption ==
    /\ NoConn \notin Conns
    /\ CmdCap \in Nat \ {0}
    /\ FrameMax \in Nat \ {0}
    /\ OutQ \in Nat /\ (MaxOut + FrameMax - 1) \div FrameMax + 2 <= OutQ
    /\ InputSizes \subseteq Nat
    /\ IoErrors \in BOOLEAN

VARIABLES
    pc,           \* where the actor task is
    fed,          \* output units read from the PTY and fed to the engine
    eng,          \* the engine's knowledge, EngineStatus
    exit,         \* Lifecycle: NoExit, or the status of Dead
    client,       \* the attached client
    lastStatus,   \* last_status: the empty set for None
    pollRunning,  \* poll_running
    grace,        \* is grace_deadline set?
    closing,      \* closing
    killArmed,    \* is kill_deadline set?
    cmdq,         \* the command channel
    rx,           \* connections whose out-queue still has its receiver
    oq            \* the out-queues

loopVars == <<fed, eng, exit, client, lastStatus, pollRunning, grace, closing,
              killArmed>>

actorVars == <<pc, loopVars, cmdq, rx, oq>>

-----------------------------------------------------------------------------
(* Lifecycle, commands and frames.                                         *)

NoExit == "none"
Statuses == Codes \cup {Fabricated}
Dead == exit # NoExit

Command == [ty : {"input", "resize", "info", "close", "attach"},
            conn : Conns \cup {NoConn}, n : Nat]

Input(n)  == [ty |-> "input", conn |-> NoConn, n |-> n]
Resize    == [ty |-> "resize", conn |-> NoConn, n |-> 0]
Info      == [ty |-> "info", conn |-> NoConn, n |-> 0]
Close(n)  == [ty |-> "close", conn |-> NoConn, n |-> n]  \* n: grace_ms
Attach(c) == [ty |-> "attach", conn |-> c, n |-> 0]

Snapshot == [running : BOOLEAN, progress : BOOLEAN]
NoSnapshot == [running |-> FALSE, progress |-> FALSE]

Frame == [ty : {"data", "status", "exit"}, from : 0..MaxOut, to : 0..MaxOut,
          st : Snapshot, code : Statuses \cup {NoExit}]

DataFrame(lo, hi) ==
    [ty |-> "data", from |-> lo, to |-> hi, st |-> NoSnapshot, code |-> NoExit]

\* status_frame and exit_frame, standing at position pos.
StatusFrame(pos, s) ==
    [ty |-> "status", from |-> pos, to |-> pos, st |-> s, code |-> NoExit]
ExitFrame(pos, s) ==
    [ty |-> "exit", from |-> pos, to |-> pos, st |-> NoSnapshot, code |-> s]

AtMost(a, b) == IF a <= b THEN a ELSE b

\* Fault: one frame only, what does not fit into it is cut off.
FrameDataOnce(lo, hi) ==
    IF lo = hi THEN <<>> ELSE <<DataFrame(lo, AtMost(lo + FrameMax, hi))>>

\* frame_data: as many full frames as needed, the last one shorter.
FrameData(lo, hi) ==
    [i \in 1..((hi - lo + FrameMax - 1) \div FrameMax) |->
        DataFrame(lo + (i - 1) * FrameMax, AtMost(lo + i * FrameMax, hi))]

\* effective_status with merge_running.
EffectiveStatus(e, poll) ==
    [running |-> IF e.marking THEN e.running ELSE poll, progress |-> e.progress]

\* Session::poll_running.
PollRunning == ~Dead /\ busy

\* Session::info: what a LIST would answer for this session now.
SessionInfo ==
    [running |-> ~Dead /\ (IF eng.marking THEN eng.running ELSE PollRunning),
     has_client |-> client # NoConn]

(* try_send of several frames in a row.  The receiver may take frames out  *)
(* meanwhile; that is the same as its taking them out just before.         *)
Room(c) == IF c \in rx THEN OutQ - Len(oq[c]) ELSE 0
Sent(c, frames) == SubSeq(frames, 1, AtMost(Len(frames), Room(c)))
Fits(c, frames) == Len(frames) <= Room(c)

\* Fault: a frame that is refused is skipped, the client stays.
PushOrSkip(frames) ==
    IF client = NoConn THEN UNCHANGED <<client, oq>>
    ELSE /\ oq' = [oq EXCEPT ![client] = @ \o Sent(client, frames)]
         /\ UNCHANGED client

\* push_or_drop of each frame: the first one refused drops the client.
PushOrDrop(frames) ==
    IF client = NoConn THEN UNCHANGED <<client, oq>>
    ELSE /\ oq' = [oq EXCEPT ![client] = @ \o Sent(client, frames)]
         /\ client' = IF Fits(client, frames) THEN client ELSE NoConn

\* STATUS is sent only when it differs from the last one sent.
NeverDue(eff) == FALSE   \* fault: only the replay carries a STATUS
StatusDue(eff) == lastStatus # {eff}

-----------------------------------------------------------------------------
ActorTypeOK ==
    /\ ShellTypeOK
    /\ pc \in {"opening", "loop", "broke", "removed", "gone"}
    /\ fed \in 0..MaxOut
    /\ eng \in EngineStatus
    /\ exit \in Statuses \cup {NoExit}
    /\ client \in Conns \cup {NoConn}
    /\ lastStatus \in SUBSET Snapshot
    /\ pollRunning \in BOOLEAN
    /\ grace \in BOOLEAN
    /\ closing \in BOOLEAN
    /\ killArmed \in BOOLEAN
    /\ cmdq \in Seq(Command) /\ Len(cmdq) <= CmdCap
    /\ rx \subseteq Conns
    /\ oq \in [Conns -> Seq(Frame)]
    /\ \A c \in Conns : Len(oq[c]) <= OutQ

ActorInit ==
    /\ ShellInit
    /\ pc = "opening"
    /\ fed = 0
    /\ eng = NoStatus
    /\ exit = NoExit
    /\ client = NoConn
    /\ lastStatus = {}
    /\ pollRunning = FALSE
    /\ grace = FALSE
    /\ closing = FALSE
    /\ killArmed = FALSE
    /\ cmdq = <<>>
    /\ oq = [c \in Conns |-> <<>>]

\* Is the session in the registry?
Registered == pc \in {"opening", "loop", "broke"}

-----------------------------------------------------------------------------
(* session_task: open the PTY, register it with the reactor.               *)

OpenOk ==
    /\ pc = "opening"
    /\ pc' = "loop"
    /\ Spawn
    /\ UNCHANGED <<loopVars, cmdq, rx, oq>>

\* Session::open fails: there is no Pty.
OpenFails ==
    /\ IoErrors /\ pc = "opening"
    /\ pc' = "broke"
    /\ SpawnFails
    /\ UNCHANGED <<loopVars, cmdq, rx, oq>>

\* AsyncFd::with_interest fails: there is a child, and the actor gives up.
RegistrationFails ==
    /\ IoErrors /\ pc = "opening"
    /\ pc' = "broke"
    /\ Spawn
    /\ UNCHANGED <<loopVars, cmdq, rx, oq>>

-----------------------------------------------------------------------------
(* actor_loop, the command arm.  It is polled first.                       *)

Take(ty) ==
    /\ pc = "loop"
    /\ cmdq # <<>> /\ Head(cmdq).ty = ty
    /\ cmdq' = Tail(cmdq)

\* A dead session ignores input; a short write or EAGAIN loses the rest.
TakeInput ==
    /\ Take("input")
    /\ IF Dead THEN UNCHANGED shellVars ELSE WriteInput(Head(cmdq).n)
    /\ UNCHANGED <<pc, loopVars, rx, oq>>

\* The window size is not part of this model.
TakeResize ==
    /\ Take("resize")
    /\ UNCHANGED <<shellVars, pc, loopVars, rx, oq>>

\* The answer is SessionInfo.
TakeInfo ==
    /\ Take("info")
    /\ UNCHANGED <<shellVars, pc, loopVars, rx, oq>>

\* Fault: CLOSE ends the actor at once, without waiting for the reap.
CloseAtOnce ==
    /\ Take("close")
    /\ Hangup
    /\ closing' = TRUE
    /\ pc' = "broke"
    /\ client' = NoConn
    /\ UNCHANGED <<fed, eng, exit, lastStatus, pollRunning, grace, killArmed, rx,
                   oq>>

(* CLOSE hangs up the shell and leaves the reaping to the drain, unless    *)
(* the session is dead already: then the client is told and dropped.       *)
TakeClose ==
    /\ Take("close")
    /\ closing' = TRUE
    /\ killArmed' = (killArmed \/ Head(cmdq).n > 0)
    /\ IF Dead
       THEN /\ pc' = "broke"
            /\ client' = NoConn
            /\ oq' = IF client = NoConn THEN oq
                     ELSE [oq EXCEPT ![client] =
                              @ \o Sent(client, <<ExitFrame(fed, exit)>>)]
            /\ UNCHANGED shellVars
       ELSE /\ Hangup
            /\ UNCHANGED <<pc, client, oq>>
    /\ UNCHANGED <<fed, eng, exit, lastStatus, pollRunning, grace, rx>>

\* Session::replay_for_attach: some suffix of what has been fed, set by
\* want_chunks and the last screen clear.
Replay(lo) == FrameData(lo, fed)

\* attach_client: the replay, then STATUS, and EXIT when dead.  The new client
\* replaces the old one.
AttachClient(c, eff) ==
    /\ \E lo \in 0..fed :
          oq' = [oq EXCEPT ![c] = @ \o
                  Sent(c, Replay(lo) \o <<StatusFrame(fed, eff)>>
                          \o (IF Dead THEN <<ExitFrame(fed, exit)>> ELSE <<>>))]
    /\ client' = c

TakeAttach ==
    /\ Take("attach")
    /\ pollRunning' = IF eng.marking THEN pollRunning ELSE PollRunning
    /\ LET eff == EffectiveStatus(eng, pollRunning')
       IN  /\ AttachClient(Head(cmdq).conn, eff)
           /\ lastStatus' = {eff}
    /\ pc' = IF Dead THEN "broke" ELSE pc
    /\ UNCHANGED <<shellVars, fed, eng, exit, grace, closing, killArmed, rx>>

TakeCommand == TakeInput \/ TakeResize \/ TakeInfo \/ TakeClose \/ TakeAttach

-----------------------------------------------------------------------------
(* actor_loop, the other arms: polled when no command is waiting.          *)

Idle == pc = "loop" /\ cmdq = <<>>

Readable == ~Dead /\ (out # fed \/ AtEof)

\* After EXIT: a session that was told to close ends, another is retained.
NeverRetained ==   \* fault: the retention deadline is not armed
    /\ pc' = IF closing THEN "broke" ELSE pc
    /\ UNCHANGED grace
AlwaysRetained ==  \* fault: CLOSE is forgotten once the shell is reaped
    /\ grace' = TRUE
    /\ UNCHANGED pc
AfterExit ==
    IF closing THEN pc' = "broke" /\ UNCHANGED grace
    ELSE grace' = TRUE /\ UNCHANGED pc

\* Session::drain: feed the engine all there is; on EOF reap the shell.
SessionDrain ==
    /\ fed' = out
    /\ eng' = emitted
    /\ IF AtEof THEN \E s \in Statuses : ReapBlocking(s) /\ exit' = s
       ELSE UNCHANGED <<shellVars, exit>>

(* The readable arm: drain and forward everything there is, refresh the    *)
(* status of a client that is still attached, and on EOF send EXIT and     *)
(* either end (after CLOSE) or start the retention of a dead session.      *)
Drain ==
    /\ Idle /\ Readable
    /\ SessionDrain
    /\ LET data     == FrameData(fed, out)
           attached == client # NoConn /\ Fits(client, data)
           eff      == EffectiveStatus(emitted, pollRunning')
       IN  /\ pollRunning' = IF attached /\ ~emitted.marking /\ ~AtEof
                             THEN busy ELSE pollRunning
           /\ lastStatus' = IF attached THEN {eff} ELSE lastStatus
           /\ PushOrDrop(data
                \o (IF attached /\ StatusDue(eff)
                    THEN <<StatusFrame(out, eff)>> ELSE <<>>)
                \o (IF AtEof THEN <<ExitFrame(out, exit')>> ELSE <<>>))
    /\ IF AtEof THEN AfterExit ELSE UNCHANGED <<pc, grace>>
    /\ UNCHANGED <<closing, killArmed, cmdq, rx>>

\* readable() or drain() fails: the actor gives up, whatever the shell does.
ReadFails ==
    /\ IoErrors /\ Idle /\ ~Dead
    /\ pc' = "broke"
    /\ UNCHANGED <<shellVars, loopVars, cmdq, rx, oq>>

GraceExpires ==
    /\ Idle /\ grace
    /\ pc' = "broke"
    /\ UNCHANGED <<shellVars, loopVars, cmdq, rx, oq>>

\* Fault: the deadline hangs up once more instead of killing.
HangupExpires ==
    /\ Idle /\ killArmed
    /\ IF Dead THEN UNCHANGED shellVars ELSE Hangup
    /\ killArmed' = FALSE
    /\ UNCHANGED <<pc, fed, eng, exit, client, lastStatus, pollRunning, grace,
                   closing, cmdq, rx, oq>>

KillExpires ==
    /\ Idle /\ killArmed
    /\ IF Dead THEN UNCHANGED shellVars ELSE Kill
    /\ killArmed' = FALSE
    /\ UNCHANGED <<pc, fed, eng, exit, client, lastStatus, pollRunning, grace,
                   closing, cmdq, rx, oq>>

\* The tcgetpgrp poll, for a client of a live shell without OSC 133.
PollGateForgetsDeath == client # NoConn /\ ~eng.marking   \* fault
PollGate == client # NoConn /\ ~Dead /\ ~eng.marking

PollTick ==
    /\ Idle /\ PollGate
    /\ pollRunning' = busy
    /\ LET eff == EffectiveStatus(eng, busy)
       IN  /\ lastStatus' = {eff}
           /\ PushOrDrop(IF StatusDue(eff) THEN <<StatusFrame(fed, eff)>>
                         ELSE <<>>)
    /\ UNCHANGED <<shellVars, pc, fed, eng, exit, grace, closing, killArmed,
                   cmdq, rx>>

-----------------------------------------------------------------------------
(* The way out: registry.remove, then the task's values are dropped: the   *)
(* client's sender, the commands still queued, the Pty.                    *)

Remove ==
    /\ pc = "broke"
    /\ pc' = "removed"
    /\ UNCHANGED <<shellVars, loopVars, cmdq, rx, oq>>

Finish ==
    /\ pc = "removed"
    /\ pc' = "gone"
    /\ cmdq' = <<>>
    /\ client' = NoConn
    /\ lastStatus' = {}
    /\ pollRunning' = FALSE /\ grace' = FALSE
    /\ closing' = FALSE /\ killArmed' = FALSE
    /\ DropPty
    /\ UNCHANGED <<fed, eng, exit, rx, oq>>

ActorNext ==
    \/ OpenOk \/ OpenFails \/ RegistrationFails
    \/ TakeInput \/ TakeResize \/ TakeInfo \/ TakeClose \/ TakeAttach
    \/ Drain \/ ReadFails \/ GraceExpires \/ KillExpires \/ PollTick
    \/ Remove \/ Finish

=============================================================================
