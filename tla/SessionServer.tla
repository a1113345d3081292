---------------------------- MODULE SessionServer ---------------------------
(***************************************************************************)
(* One session and the connections that name it: handle_session,           *)
(* reader_task and writer_task of server.rs, around the actor of           *)
(* SessionActor, from the connection that creates the session to the last  *)
(* one that finds it.  A connection that arrives after the session left    *)
(* the registry belongs to another session and is not in this module.      *)
(***************************************************************************)
EXTENDS SessionActor

CONSTANTS
    Creator,    \* the connection whose ATTACH_OR_OPEN creates the session
    Stuck,      \* the connections whose peer may stop reading for good
    Graces,     \* grace_ms of the CLOSE frames clients send
    MaxSends    \* bound: commands other than Attach in a behaviour

ASSUME ServerAssumption ==
    /\ Creator \in Conns
    /\ Stuck \subseteq Conns
    /\ Graces \subseteq Nat
    /\ MaxSends \in Nat

VARIABLES
    conn,   \* where each connection is
    rcv,    \* what its writer has put on the socket, while it runs
    sends   \* commands sent so far

vars == <<shellVars, actorVars, conn, rcv, sends>>

(* "idle"     no connection yet                                            *)
(* "binding"  handle_session holds the command channel, Attach not sent    *)
(* "bound"    reader and writer run                                        *)
(* "eof"      the reader has ended, the writer is to be aborted            *)
(* "shut"     the writer has ended, the reader is to be aborted            *)
(* "closed"   the connection is gone                                       *)
ConnStates == {"idle", "binding", "bound", "eof", "shut", "closed"}

NoPos == MaxOut + 1   \* nothing received yet

Nothing == [upto |-> NoPos, st |-> {}, exit |-> NoExit]

Received == [upto : 0..NoPos, st : SUBSET Snapshot, exit : Statuses \cup {NoExit}]

TypeOK ==
    /\ ActorTypeOK
    /\ conn \in [Conns -> ConnStates]
    /\ rcv \in [Conns -> Received]
    /\ sends \in 0..MaxSends

Init ==
    /\ ActorInit
    /\ conn = [c \in Conns |-> IF c = Creator THEN "binding" ELSE "idle"]
    /\ rx = {Creator}
    /\ rcv = [c \in Conns |-> Nothing]
    /\ sends = 0

-----------------------------------------------------------------------------
(* handle_session.                                                         *)

\* attach_or_create finds the session; the out-queue and its writer start.
BindExisting(c) ==
    /\ conn[c] = "idle" /\ Registered
    /\ conn' = [conn EXCEPT ![c] = "binding"]
    /\ rx' = rx \cup {c}
    /\ UNCHANGED <<shellVars, pc, loopVars, cmdq, oq, rcv, sends>>

ChannelOpen == pc # "gone"
ChannelUnbounded == ChannelOpen   \* fault: senders never wait
ChannelRoom == ChannelOpen /\ Len(cmdq) < CmdCap

SendAttach(c) ==
    /\ conn[c] = "binding" /\ ChannelRoom
    /\ cmdq' = Append(cmdq, Attach(c))
    /\ conn' = [conn EXCEPT ![c] = "bound"]
    /\ UNCHANGED <<shellVars, pc, loopVars, rx, oq, rcv, sends>>

\* The writer of c is gone: its end of the out-queue and what is in it.
WriterGone(c) ==
    /\ rx' = rx \ {c}
    /\ oq' = [oq EXCEPT ![c] = <<>>]
    /\ rcv' = [rcv EXCEPT ![c] = Nothing]

\* The actor has ended: the writer is aborted, the connection closes.
AttachRefused(c) ==
    /\ conn[c] = "binding" /\ ~ChannelOpen
    /\ conn' = [conn EXCEPT ![c] = "closed"]
    /\ WriterGone(c)
    /\ UNCHANGED <<shellVars, pc, loopVars, cmdq, sends>>

\* One half has ended: the other is aborted.
Teardown(c) ==
    /\ conn[c] \in {"eof", "shut"}
    /\ conn' = [conn EXCEPT ![c] = "closed"]
    /\ WriterGone(c)
    /\ UNCHANGED <<shellVars, pc, loopVars, cmdq, sends>>

-----------------------------------------------------------------------------
(* reader_task.                                                            *)

ReaderRuns(c) == conn[c] \in {"bound", "shut"}
AfterReader(c) == [conn EXCEPT ![c] = IF @ = "bound" THEN "eof" ELSE "closed"]

\* INPUT and RESIZE.
ReaderSends(c) ==
    /\ ReaderRuns(c) /\ ChannelRoom /\ sends < MaxSends
    /\ \E cmd \in {Input(n) : n \in InputSizes} \cup {Resize} :
          cmdq' = Append(cmdq, cmd)
    /\ sends' = sends + 1
    /\ UNCHANGED <<shellVars, pc, loopVars, rx, oq, conn, rcv>>

\* CLOSE is the last frame the reader takes from its socket.
ReaderSendsClose(c) ==
    /\ ReaderRuns(c) /\ ChannelRoom /\ sends < MaxSends
    /\ \E g \in Graces : cmdq' = Append(cmdq, Close(g))
    /\ sends' = sends + 1
    /\ conn' = AfterReader(c)
    /\ UNCHANGED <<shellVars, pc, loopVars, rx, oq, rcv>>

\* EOF, a read error, a malformed frame, or a send to an actor that ended.
ReaderEnds(c) ==
    /\ ReaderRuns(c)
    /\ conn' = AfterReader(c)
    /\ UNCHANGED <<shellVars, actorVars, rcv, sends>>

-----------------------------------------------------------------------------
(* writer_task.                                                            *)

WriterRuns(c) == conn[c] \in {"bound", "eof"}
AfterWriter(c) == [conn EXCEPT ![c] = IF @ = "bound" THEN "shut" ELSE "closed"]

WriterWrites(c) ==
    /\ WriterRuns(c) /\ oq[c] # <<>>
    /\ LET f == Head(oq[c])
       IN  rcv' = [rcv EXCEPT ![c] =
                    [upto |-> f.to,
                     st   |-> IF f.ty = "status" THEN {f.st} ELSE @.st,
                     exit |-> IF f.ty = "exit" THEN f.code ELSE @.exit]]
    /\ oq' = [oq EXCEPT ![c] = Tail(@)]
    /\ UNCHANGED <<shellVars, pc, loopVars, cmdq, rx, conn, sends>>

\* The peer is gone: write_all fails.
WriterFails(c) ==
    /\ WriterRuns(c) /\ oq[c] # <<>>
    /\ conn' = AfterWriter(c)
    /\ WriterGone(c)
    /\ UNCHANGED <<shellVars, pc, loopVars, cmdq, sends>>

\* Fault: handle_session keeps a sender of its own.
SenderLeaked(c) ==
    \/ client = c
    \/ \E i \in 1..Len(cmdq) : cmdq[i] = Attach(c)
    \/ conn[c] \in {"binding", "bound"}

\* Who holds a sender of c's out-queue: the actor, a queued Attach, or
\* handle_session until it has sent one.
SenderAlive(c) ==
    \/ client = c
    \/ \E i \in 1..Len(cmdq) : cmdq[i] = Attach(c)
    \/ conn[c] = "binding"

\* recv() is None: every sender is gone and the queue is written out.
WriterEnds(c) ==
    /\ WriterRuns(c) /\ oq[c] = <<>> /\ ~SenderAlive(c)
    /\ conn' = AfterWriter(c)
    /\ WriterGone(c)
    /\ UNCHANGED <<shellVars, pc, loopVars, cmdq, sends>>

-----------------------------------------------------------------------------
\* collect_sessions on some control connection asks this session, which may
\* have left the registry since its sender was cloned.
ListAsks ==
    /\ ChannelRoom /\ sends < MaxSends
    /\ cmdq' = Append(cmdq, Info)
    /\ sends' = sends + 1
    /\ UNCHANGED <<shellVars, pc, loopVars, rx, oq, conn, rcv>>

ConnNext(c) ==
    \/ BindExisting(c) \/ SendAttach(c) \/ AttachRefused(c) \/ Teardown(c)
    \/ ReaderSends(c) \/ ReaderSendsClose(c) \/ ReaderEnds(c)
    \/ WriterWrites(c) \/ WriterFails(c) \/ WriterEnds(c)

Next ==
    \/ ShellNext /\ UNCHANGED <<actorVars, conn, rcv, sends>>
    \/ ActorNext /\ UNCHANGED <<conn, rcv, sends>>
    \/ \E c \in Conns : ConnNext(c)
    \/ ListAsks

(* What the code's scheduling owes: the runtime polls a ready task, timers *)
(* fire and the kernel delivers signals.  A write completes or fails if    *)
(* the peer reads, however slowly, or closes; the peers of Stuck need not. *)
(* Nothing else is owed by clients or by the shell.                        *)
ActorFairness ==
    /\ WF_vars((OpenOk \/ OpenFails \/ RegistrationFails) /\ UNCHANGED <<conn, rcv, sends>>)
    /\ WF_vars(TakeCommand /\ UNCHANGED <<conn, rcv, sends>>)
    /\ WF_vars(Drain /\ UNCHANGED <<conn, rcv, sends>>)
    /\ WF_vars(GraceExpires /\ UNCHANGED <<conn, rcv, sends>>)
    /\ WF_vars(KillExpires /\ UNCHANGED <<conn, rcv, sends>>)
    /\ WF_vars((Remove \/ Finish) /\ UNCHANGED <<conn, rcv, sends>>)
    /\ WF_vars(SignalKills /\ UNCHANGED <<actorVars, conn, rcv, sends>>)

ConnFairness ==
    \A c \in Conns :
        /\ WF_vars(SendAttach(c) \/ AttachRefused(c))
        /\ WF_vars(Teardown(c))
        /\ c \notin Stuck => WF_vars(WriterWrites(c) \/ WriterFails(c))
        /\ WF_vars(WriterEnds(c))

Spec == Init /\ [][Next]_vars
FairSpec == Spec /\ ActorFairness /\ ConnFairness

-----------------------------------------------------------------------------
(* Properties.  c's pipeline is what its writer has put on the socket      *)
(* followed by what is queued for it.                                      *)

Viewing(c) == client = c /\ c \in rx

End(c) == IF oq[c] = <<>> THEN rcv[c].upto ELSE oq[c][Len(oq[c])].to

PipelineStatus(c) ==
    LET at == {i \in 1..Len(oq[c]) : oq[c][i].ty = "status"}
    IN  IF at = {} THEN rcv[c].st
        ELSE {oq[c][i].st : i \in {j \in at : \A k \in at : k <= j}}

(* No frame is missing, repeated or out of order between the replay and    *)
(* the live output, or between two live frames (attach_client, forward_    *)
(* data, push_or_drop): each starts where the one before it ends.          *)
NoGap ==
    \A c \in Conns :
        /\ \A i \in 1..(Len(oq[c]) - 1) : oq[c][i].to = oq[c][i + 1].from
        /\ (oq[c] # <<>> /\ rcv[c].upto # NoPos) => oq[c][1].from = rcv[c].upto

(* A client stays attached only while it has been sent everything: the     *)
(* actor detaches a client it cannot push to instead of skipping a frame.  *)
StreamIntact ==
    /\ NoGap
    /\ \A c \in Conns : Viewing(c) => End(c) = fed

(* The last STATUS in an attached client's pipeline is the effective       *)
(* status now, although STATUS is sent only on a change and last_status    *)
(* survives takeovers and detached drains; and LIST says the same of a     *)
(* live shell that marks its commands (Session::effective_running).        *)
StatusInSync ==
    \A c \in Conns : Viewing(c) =>
        /\ PipelineStatus(c) = {EffectiveStatus(eng, pollRunning)}
        /\ ~Dead /\ eng.marking =>
              \A s \in PipelineStatus(c) : s.running = SessionInfo.running

(* EXIT is the end: nothing but the same EXIT ever follows it, and a       *)
(* client attached to a dead session has it in its pipeline.               *)
ExitFinal ==
    \A c \in Conns :
        /\ \A i \in 1..Len(oq[c]) :
              (\/ rcv[c].exit # NoExit
               \/ \E j \in 1..(i - 1) : oq[c][j].ty = "exit")
              => oq[c][i].ty = "exit"
        /\ \A i \in 1..Len(oq[c]) : oq[c][i].ty = "exit" => oq[c][i].code = exit
        /\ rcv[c].exit \in {NoExit, exit}
        /\ Viewing(c) /\ Dead =>
              \/ rcv[c].exit = exit
              \/ \E i \in 1..Len(oq[c]) : oq[c][i].ty = "exit"

(* A status that is reported is the one the shell ended with, observed by  *)
(* waitpid and not made up (Session::drain, Pty::reap_blocking).           *)
ExitIsReal == Dead => proc = "reaped" /\ exit = code

(* The session stays in the registry until its child is reaped, so that    *)
(* idle self-exit cannot fire between CLOSE and the reap.                  *)
KeptUntilReaped == ~Registered => proc = "reaped"

(* A dead session that is still served waits for its retention deadline,   *)
(* and a session that was told to close never gets there.                  *)
DeadIsLeaving == Dead /\ pc = "loop" => grace /\ ~closing

(* CLOSE{grace_ms > 0} always ends the session, even when the shell traps  *)
(* SIGHUP: the deadline kills the group, the drain reaps it.               *)
CloseEnds == killArmed ~> pc = "gone"

(* A dead session does not stay for ever, reattached or not.               *)
DeadSessionDropped == Dead ~> pc = "gone"

(* An ATTACH_OR_OPEN does not hang: the connection is sent its replay or   *)
(* is closed, whatever the actor is doing when it arrives and whether or   *)
(* not another peer reads.                                                 *)
AttachSettles ==
    \A c \in Conns \ Stuck :
        conn[c] = "binding" ~> (rcv[c].upto # NoPos \/ conn[c] = "closed")

(* A connection that was served and is no longer the client, because of a  *)
(* takeover, a forced detach or the end of the session, sees EOF once its  *)
(* peer has read what was queued.  A peer that has stopped reading does    *)
(* not: the write_all of its writer has no timeout.                        *)
DetachedCloses ==
    \A c \in Conns \ Stuck :
        (client # c /\ rcv[c].upto # NoPos) ~> conn[c] = "closed"

=============================================================================
