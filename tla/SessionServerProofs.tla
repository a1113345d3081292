------------------------- MODULE SessionServerProofs ------------------------
(***************************************************************************)
(* SessionServer for any set of connections, any capacities of its queues  *)
(* and any amount of output.                                               *)
(***************************************************************************)
EXTENDS SessionServer, SequenceTheorems, TLAPS

-----------------------------------------------------------------------------
(* Steps and calls of the shell.                                           *)

(* Sink::osc_dispatch leaves a status.                                     *)
LEMMA FeedType ==
    ASSUME NEW e \in EngineStatus, NEW u \in Units
    PROVE  Feed(e, u) \in EngineStatus
<1> DEFINE f == Feed(e, u)
<1>1. f.marking \in BOOLEAN /\ f.running \in BOOLEAN /\ f.progress \in BOOLEAN
  BY Zenon DEF Feed
<1>2. f = [marking |-> f.marking, running |-> f.running, progress |-> f.progress]
  BY DEF Feed
<1> QED
  BY <1>1, <1>2 DEF EngineStatus

(* A step of the shell keeps its types.                                    *)
LEMMA ShellStep ==
    ASSUME ShellTypeOK, ShellNext
    PROVE  ShellTypeOK'
<1> USE ShellAssumption DEF ShellTypeOK, ShellAssumption
<1>1. ASSUME NEW u \in Units, ShellWrites(u)
      PROVE  ShellTypeOK'
  <2>1. emitted' \in EngineStatus
    BY <1>1, FeedType DEF ShellWrites
  <2> QED
    BY <1>1, <2>1 DEF ShellWrites
<1>2. CASE ForegroundMoves
  BY <1>2 DEF ForegroundMoves
<1>3. CASE ShellReads
  BY <1>3 DEF ShellReads
<1>4. CASE JobStarts
  <2>1. slave' \subseteq {"shell", "job"}
    BY <1>4 DEF JobStarts
  <2> QED
    BY <1>4, <2>1 DEF JobStarts
<1>5. CASE JobEnds \/ ShellClosesTty
  <2>1. slave' \subseteq {"shell", "job"}
    BY <1>5 DEF JobEnds, ShellClosesTty
  <2> QED
    BY <1>5, <2>1 DEF JobEnds, ShellClosesTty
<1>6. ASSUME NEW how \in Codes, Ends(how)
      PROVE  ShellTypeOK'
  <2>1. slave' \subseteq {"shell", "job"} /\ busy' \in BOOLEAN
    BY <1>6 DEF Ends
  <2> QED
    BY <1>6, <2>1 DEF Ends
<1>7. ShellExits \/ SignalKills => \E how \in Codes : Ends(how)
  BY DEF ShellExits, SignalKills, Codes
<1> QED
  BY <1>1, <1>2, <1>3, <1>4, <1>5, <1>6, <1>7 DEF ShellNext

(* Each call of pty.rs, from spawn to drop, keeps the types.               *)
LEMMA CallTypes ==
    ASSUME ShellTypeOK
    PROVE  /\ Spawn \/ SpawnFails => ShellTypeOK'
           /\ Hangup => ShellTypeOK'
           /\ Kill => ShellTypeOK'
           /\ \A n \in Nat : WriteInput(n) => ShellTypeOK'
           /\ \A s \in Statuses : ReapBlocking(s) => ShellTypeOK'
           /\ DropPty => ShellTypeOK'
           /\ UNCHANGED shellVars => ShellTypeOK'
<1> USE ShellAssumption DEF ShellTypeOK, ShellAssumption
<1>1. Spawn \/ SpawnFails => ShellTypeOK'
  BY DEF Spawn, SpawnFails
<1>2. Hangup => ShellTypeOK'
  BY DEF Hangup
<1>3. Kill => ShellTypeOK'
  BY DEF Kill
<1>4. ASSUME NEW n \in Nat, WriteInput(n) PROVE ShellTypeOK'
  BY <1>4 DEF WriteInput, Taken
<1>5. ASSUME NEW s \in Statuses, ReapBlocking(s) PROVE ShellTypeOK'
  BY <1>5 DEF ReapBlocking
<1>6. DropPty => ShellTypeOK'
  <2> SUFFICES ASSUME DropPty PROVE ShellTypeOK'
    OBVIOUS
  <2>1. slave' \subseteq {"shell", "job"} /\ code' \in Codes
    BY DEF DropPty, Codes
  <2>2. inbuf' \in 0..InCap
    BY DEF DropPty
  <2>5. busy' \in BOOLEAN
    BY Zenon DEF DropPty
  <2>3. proc' \in {"unborn", "alive", "zombie", "reaped", "leaked"}
    BY DEF DropPty
  <2>4. UNCHANGED <<doomed, trap, out, emitted>>
    BY DEF DropPty
  <2> QED
    BY <2>1, <2>2, <2>3, <2>4, <2>5
<1>7. UNCHANGED shellVars => ShellTypeOK'
  BY DEF shellVars
<1> QED
  BY <1>1, <1>2, <1>3, <1>4, <1>5, <1>6, <1>7

-----------------------------------------------------------------------------
(* Frames and queues.                                                      *)

(* Multiplication is monotone; the provers take it from here.              *)
LEMMA MultMonotone ==
    ASSUME NEW a \in Nat, NEW b \in Nat, NEW k \in Nat, a <= b
    PROVE  a * k <= b * k
OBVIOUS

(* The i-th frame of a split of d units starts before d.                   *)
LEMMA SplitStart ==
    ASSUME NEW d \in Int, NEW k \in Nat \ {0},
           NEW i \in 1..((d + k - 1) \div k)
    PROVE  (i - 1) * k < d
<1> DEFINE n == (d + k - 1) \div k
<1>1. n \in Int /\ n * k <= d + k - 1
  OBVIOUS
<1>2. i * k <= n * k
  BY <1>1, MultMonotone
<1>3. (i - 1) * k = i * k - k
  OBVIOUS
<1>4. i * k \in Int /\ n * k \in Int
  BY <1>1
<1> QED
  BY <1>1, <1>2, <1>3, <1>4

(* effective_status yields a status.                                       *)
LEMMA SnapshotType ==
    ASSUME NEW e \in EngineStatus, NEW p \in BOOLEAN
    PROVE  EffectiveStatus(e, p) \in Snapshot
<1>1. e.marking \in BOOLEAN /\ e.running \in BOOLEAN /\ e.progress \in BOOLEAN
  BY DEF EngineStatus
<1>2. (IF e.marking THEN e.running ELSE p) \in BOOLEAN
  BY <1>1
<1> QED
  BY <1>1, <1>2 DEF EffectiveStatus, Snapshot

(* What status_frame, exit_frame and frame_data build are frames.          *)
LEMMA FrameTypes ==
    ASSUME NEW lo \in 0..MaxOut, NEW hi \in 0..MaxOut
    PROVE  /\ DataFrame(lo, hi) \in Frame
           /\ \A s \in Snapshot : StatusFrame(lo, s) \in Frame
           /\ \A x \in Statuses : ExitFrame(lo, x) \in Frame
BY DEF DataFrame, StatusFrame, ExitFrame, Frame, NoSnapshot, Snapshot

(* frame_data yields frames, the last of which ends at hi.                 *)
LEMMA FrameDataType ==
    ASSUME NEW lo \in 0..MaxOut, NEW hi \in 0..MaxOut
    PROVE  FrameData(lo, hi) \in Seq(Frame)
<1> DEFINE n == (hi - lo + FrameMax - 1) \div FrameMax
<1> USE ShellAssumption, ActorAssumption DEF ShellAssumption, ActorAssumption
<1>1. n \in Int
  OBVIOUS
<1>2. ASSUME NEW i \in 1..n PROVE FrameData(lo, hi)[i] \in Frame
  <2> DEFINE a == (i - 1) * FrameMax
             b == i * FrameMax
  <2>1. a < hi - lo
    BY SplitStart
  <2>2. a \in Nat /\ b = a + FrameMax
    BY <1>1
  <2>3. lo + a \in 0..MaxOut /\ AtMost(lo + b, hi) \in 0..MaxOut
    BY <2>1, <2>2 DEF AtMost
  <2> QED
    BY <2>3, FrameTypes DEF FrameData
<1>3. FrameData(lo, hi) = [i \in 1..n |-> FrameData(lo, hi)[i]]
  BY DEF FrameData
<1>4. \E m \in Nat : FrameData(lo, hi) \in [1..m -> Frame]
  <2>1. CASE n \in Nat
    BY <1>2, <1>3, <2>1
  <2>2. CASE n \notin Nat
    <3>1. 1..n = 1..0
      BY <1>1, <2>2
    <3> HIDE DEF n
    <3>2. FrameData(lo, hi) \in [1..0 -> Frame]
      BY <1>2, <1>3, <3>1
    <3> QED
      BY <3>2
  <2> QED
    BY <2>1, <2>2
<1> QED
  BY <1>4

(* Sending to an out-queue keeps it a queue of frames within its capacity. *)
LEMMA SentType ==
    ASSUME ActorTypeOK, NEW c \in Conns, NEW frames \in Seq(Frame)
    PROVE  /\ oq[c] \o Sent(c, frames) \in Seq(Frame)
           /\ Len(oq[c] \o Sent(c, frames)) <= OutQ
<1> USE ActorAssumption DEF ActorAssumption, ActorTypeOK
<1> DEFINE n == AtMost(Len(frames), Room(c))
<1>1. oq[c] \in Seq(Frame) /\ Len(oq[c]) \in Nat /\ Len(oq[c]) <= OutQ
  OBVIOUS
<1>2. n \in Nat /\ n <= Len(frames) /\ n <= OutQ - Len(oq[c])
  BY <1>1 DEF AtMost, Room
<1>3. SubSeq(frames, 1, n) \in Seq(Frame) /\ Len(SubSeq(frames, 1, n)) = n
  BY <1>2, SubSeqProperties
<1>4. Sent(c, frames) = SubSeq(frames, 1, n)
  BY DEF Sent
<1> QED
  BY <1>1, <1>2, <1>3, <1>4, ConcatProperties

-----------------------------------------------------------------------------
(* The actor.                                                              *)

(* Receiving a command yields one and leaves a shorter channel.            *)
LEMMA TakeType ==
    ASSUME ActorTypeOK, NEW ty, Take(ty)
    PROVE  /\ pc = "loop"
           /\ Head(cmdq) \in Command
           /\ cmdq' \in Seq(Command) /\ Len(cmdq') <= CmdCap
<1>1. cmdq \in Seq(Command) /\ cmdq # <<>> /\ Len(cmdq) <= CmdCap
  BY DEF ActorTypeOK, Take
<1>2. /\ Head(cmdq) \in Command
      /\ Tail(cmdq) \in Seq(Command) /\ Len(Tail(cmdq)) = Len(cmdq) - 1
  BY <1>1, HeadTailProperties
<1> QED
  BY <1>1, <1>2, ActorAssumption, LenProperties DEF Take, ActorAssumption

(* push_or_drop keeps the queues and leaves a client or none.              *)
LEMMA PushType ==
    ASSUME ActorTypeOK, NEW frames \in Seq(Frame), PushOrDrop(frames)
    PROVE  /\ client' \in Conns \cup {NoConn}
           /\ oq' \in [Conns -> Seq(Frame)]
           /\ \A c \in Conns : Len(oq'[c]) <= OutQ
<1> USE DEF ActorTypeOK
<1>1. CASE client = NoConn
  BY <1>1 DEF PushOrDrop
<1>2. CASE client # NoConn
  <2>1. client \in Conns
    BY <1>2
  <2>2. /\ oq[client] \o Sent(client, frames) \in Seq(Frame)
        /\ Len(oq[client] \o Sent(client, frames)) <= OutQ
    BY <2>1, SentType
  <2>3. oq' = [oq EXCEPT ![client] = oq[client] \o Sent(client, frames)]
    BY <1>2 DEF PushOrDrop
  <2>4. client' \in {client, NoConn}
    BY <1>2 DEF PushOrDrop
  <2> QED
    BY <2>1, <2>2, <2>3, <2>4
<1> QED
  BY <1>1, <1>2

(* Opening, giving up, the two deadlines and the way out keep the types.   *)
LEMMA PassTypes ==
    ASSUME ActorTypeOK,
           \/ OpenOk \/ OpenFails \/ RegistrationFails \/ ReadFails
           \/ GraceExpires \/ KillExpires \/ Remove \/ Finish
    PROVE  ActorTypeOK'
<1> USE DEF ActorTypeOK, loopVars
<1>1. CASE OpenOk \/ OpenFails \/ RegistrationFails
  BY <1>1, CallTypes DEF OpenOk, OpenFails, RegistrationFails
<1>2. CASE ReadFails \/ GraceExpires \/ Remove
  BY <1>2, CallTypes DEF ReadFails, GraceExpires, Remove
<1>3. CASE KillExpires
  BY <1>3, CallTypes DEF KillExpires
<1>4. CASE Finish
  <2>1. ShellTypeOK'
    BY <1>4, CallTypes DEF Finish
  <2>2. cmdq' \in Seq(Command) /\ Len(cmdq') <= CmdCap
    BY <1>4, ActorAssumption DEF Finish, ActorAssumption
  <2> QED
    BY <1>4, <2>1, <2>2 DEF Finish
<1> QED
  BY <1>1, <1>2, <1>3, <1>4

(* INPUT, RESIZE and Info keep the types.                                  *)
LEMMA TakeTypes ==
    ASSUME ActorTypeOK, TakeInput \/ TakeResize \/ TakeInfo
    PROVE  ActorTypeOK'
<1>1. CASE TakeInput
  <2>1. Head(cmdq).n \in Nat /\ cmdq' \in Seq(Command) /\ Len(cmdq') <= CmdCap
    BY <1>1, TakeType DEF TakeInput, Command
  <2>2. ShellTypeOK'
    BY <1>1, <2>1, CallTypes DEF TakeInput, ActorTypeOK
  <2> QED
    BY <1>1, <2>1, <2>2 DEF TakeInput, ActorTypeOK, loopVars
<1>2. CASE TakeResize \/ TakeInfo
  <2>1. cmdq' \in Seq(Command) /\ Len(cmdq') <= CmdCap
    BY <1>2, TakeType DEF TakeResize, TakeInfo
  <2>2. ShellTypeOK'
    BY <1>2, CallTypes DEF TakeResize, TakeInfo, ActorTypeOK
  <2> QED
    BY <1>2, <2>1, <2>2 DEF TakeResize, TakeInfo, ActorTypeOK, loopVars
<1> QED
  BY <1>1, <1>2

(* CLOSE keeps the types: the EXIT it sends a dead session's client fits   *)
(* the out-queue or is dropped.                                            *)
LEMMA CloseTypes == ASSUME ActorTypeOK, TakeClose PROVE ActorTypeOK'
<1>1. cmdq' \in Seq(Command) /\ Len(cmdq') <= CmdCap
  BY TakeType DEF TakeClose
<1>2. ShellTypeOK'
  BY CallTypes DEF TakeClose, ActorTypeOK
<1>3. /\ oq' \in [Conns -> Seq(Frame)]
      /\ \A c \in Conns : Len(oq'[c]) <= OutQ
  <2>1. CASE Dead /\ client # NoConn
    <3> DEFINE frames == <<ExitFrame(fed, exit)>>
    <3>1. client \in Conns /\ exit \in Statuses /\ fed \in 0..MaxOut
      BY <2>1 DEF ActorTypeOK, Dead
    <3>2. frames \in Seq(Frame)
      BY <3>1, FrameTypes
    <3>3. /\ oq[client] \o Sent(client, frames) \in Seq(Frame)
          /\ Len(oq[client] \o Sent(client, frames)) <= OutQ
      BY <3>1, <3>2, SentType
    <3>4. oq' = [oq EXCEPT ![client] = oq[client] \o Sent(client, frames)]
      BY <2>1 DEF TakeClose
    <3> HIDE DEF frames
    <3> QED
      BY <3>1, <3>3, <3>4 DEF ActorTypeOK
  <2>2. CASE ~(Dead /\ client # NoConn)
    BY <2>2 DEF TakeClose, ActorTypeOK
  <2> QED
    BY <2>1, <2>2
<1>4. killArmed' \in BOOLEAN /\ closing' \in BOOLEAN
  BY DEF TakeClose, ActorTypeOK
<1>5. /\ pc' \in {"opening", "loop", "broke", "removed", "gone"}
      /\ client' \in Conns \cup {NoConn}
  BY DEF TakeClose, ActorTypeOK
<1> QED
  BY <1>1, <1>2, <1>3, <1>4, <1>5 DEF TakeClose, ActorTypeOK

(* attach_client keeps the types: the replay lies within the output and    *)
(* within the out-queue.                                                   *)
LEMMA AttachTypes == ASSUME ActorTypeOK, TakeAttach PROVE ActorTypeOK'
<1> DEFINE c   == Head(cmdq).conn
           eff == EffectiveStatus(eng, pollRunning')
           ex  == IF Dead THEN <<ExitFrame(fed, exit)>> ELSE <<>>
<1>1. /\ cmdq' \in Seq(Command) /\ Len(cmdq') <= CmdCap
      /\ c \in Conns \cup {NoConn}
  BY TakeType DEF TakeAttach, Command
<1>2. ShellTypeOK'
  BY CallTypes DEF TakeAttach, ActorTypeOK
<1>3. pollRunning' \in BOOLEAN
  BY DEF TakeAttach, ActorTypeOK, ShellTypeOK, PollRunning
<1>4. eff \in Snapshot
  BY <1>3, SnapshotType DEF ActorTypeOK
<1>5. fed \in 0..MaxOut
  BY DEF ActorTypeOK
<1>6. PICK lo \in 0..fed :
        oq' = [oq EXCEPT ![c] = oq[c] \o
                 Sent(c, FrameData(lo, fed) \o <<StatusFrame(fed, eff)>> \o ex)]
  BY DEF TakeAttach, AttachClient, Replay
<1>7. /\ oq' \in [Conns -> Seq(Frame)]
      /\ \A d \in Conns : Len(oq'[d]) <= OutQ
  <2> DEFINE frames == FrameData(lo, fed) \o <<StatusFrame(fed, eff)>> \o ex
  <2>0. lo \in 0..MaxOut
    BY <1>5, ShellAssumption DEF ShellAssumption
  <2>1. FrameData(lo, fed) \in Seq(Frame)
    BY <1>5, <2>0, FrameDataType
  <2>2. <<StatusFrame(fed, eff)>> \in Seq(Frame)
    BY <1>4, <1>5, FrameTypes
  <2>3. ex \in Seq(Frame)
    BY <1>5, FrameTypes DEF Dead, ActorTypeOK
  <2>4. frames \in Seq(Frame)
    BY <2>1, <2>2, <2>3, ConcatProperties
  <2>5. oq' = [oq EXCEPT ![c] = oq[c] \o Sent(c, frames)]
    BY <1>6
  <2> HIDE DEF frames
  <2>6. CASE c \in Conns
    <3>1. /\ oq[c] \o Sent(c, frames) \in Seq(Frame)
          /\ Len(oq[c] \o Sent(c, frames)) <= OutQ
      BY <2>4, <2>6, SentType
    <3> QED
      BY <2>5, <2>6, <3>1 DEF ActorTypeOK
  <2>7. CASE c \notin Conns
    <3>1. oq \in [Conns -> Seq(Frame)] /\ \A d \in Conns : Len(oq[d]) <= OutQ
      BY DEF ActorTypeOK
    <3>2. oq' \in [Conns -> Seq(Frame)] /\ \A d \in Conns : oq'[d] = oq[d]
      BY <2>5, <2>7, <3>1
    <3> QED
      BY <3>1, <3>2
  <2> QED
    BY <2>6, <2>7
<1>8. lastStatus' \in SUBSET Snapshot
  BY <1>4 DEF TakeAttach
<1>9. /\ pc' \in {"opening", "loop", "broke", "removed", "gone"}
      /\ client' \in Conns \cup {NoConn}
  BY <1>1 DEF TakeAttach, AttachClient, ActorTypeOK
<1> QED
  BY <1>1, <1>2, <1>3, <1>7, <1>8, <1>9 DEF TakeAttach, ActorTypeOK

(* The tcgetpgrp poll keeps the types.                                     *)
LEMMA PollTypes == ASSUME ActorTypeOK, PollTick PROVE ActorTypeOK'
<1> DEFINE eff == EffectiveStatus(eng, busy)
           frames == IF StatusDue(eff) THEN <<StatusFrame(fed, eff)>> ELSE <<>>
<1>1. ShellTypeOK'
  BY CallTypes DEF PollTick, ActorTypeOK
<1>2. eff \in Snapshot
  BY SnapshotType DEF ActorTypeOK, ShellTypeOK
<1>3. frames \in Seq(Frame)
  <2>1. <<StatusFrame(fed, eff)>> \in Seq(Frame)
    BY <1>2, FrameTypes DEF ActorTypeOK
  <2> QED
    BY <2>1
<1>4. PushOrDrop(frames)
  BY DEF PollTick
<1>5. /\ client' \in Conns \cup {NoConn}
      /\ oq' \in [Conns -> Seq(Frame)]
      /\ \A c \in Conns : Len(oq'[c]) <= OutQ
  <2> HIDE DEF frames
  <2> QED
    BY <1>3, <1>4, PushType
<1>6. lastStatus' \in SUBSET Snapshot /\ pollRunning' \in BOOLEAN
  BY <1>2 DEF PollTick, ActorTypeOK, ShellTypeOK
<1> QED
  BY <1>1, <1>5, <1>6 DEF PollTick, ActorTypeOK

(* The readable arm keeps the types: data, STATUS and EXIT together fit    *)
(* the out-queue or the client is dropped.                                 *)
LEMMA DrainTypes == ASSUME ActorTypeOK, Drain PROVE ActorTypeOK'
<1> DEFINE data     == FrameData(fed, out)
           attached == client # NoConn /\ Fits(client, data)
           eff      == EffectiveStatus(emitted, pollRunning')
           st == IF attached /\ StatusDue(eff) THEN <<StatusFrame(out, eff)>>
                 ELSE <<>>
           ex == IF AtEof THEN <<ExitFrame(out, exit')>> ELSE <<>>
<1>1. /\ fed \in 0..MaxOut /\ out \in 0..MaxOut
      /\ emitted \in EngineStatus
      /\ eng' = emitted /\ fed' = out
  BY DEF ActorTypeOK, ShellTypeOK, Drain, SessionDrain
<1>2. ShellTypeOK'
  BY CallTypes DEF Drain, SessionDrain, ActorTypeOK
<1>3. exit' \in Statuses \cup {NoExit} /\ (AtEof => exit' \in Statuses)
  BY DEF Drain, SessionDrain, ActorTypeOK
<1>4. pollRunning' \in BOOLEAN
  <2>1. pollRunning' = IF attached /\ ~emitted.marking /\ ~AtEof
                       THEN busy ELSE pollRunning
    BY DEF Drain, SessionDrain
  <2>2. busy \in BOOLEAN /\ pollRunning \in BOOLEAN
    BY DEF ActorTypeOK, ShellTypeOK
  <2> QED
    BY <2>1, <2>2, Zenon
<1>5. eff \in Snapshot
  BY <1>1, <1>4, SnapshotType
<1>6. lastStatus' \in SUBSET Snapshot
  <2>1. lastStatus' = IF attached THEN {eff} ELSE lastStatus
    BY DEF Drain, SessionDrain
  <2> HIDE DEF attached, eff
  <2> QED
    BY <1>5, <2>1 DEF ActorTypeOK
<1>7. data \o st \o ex \in Seq(Frame)
  <2>1. data \in Seq(Frame)
    BY <1>1, FrameDataType
  <2>2. st \in Seq(Frame)
    <3>1. <<StatusFrame(out, eff)>> \in Seq(Frame)
      BY <1>1, <1>5, FrameTypes
    <3> QED
      BY <3>1
  <2>3. ex \in Seq(Frame)
    BY <1>1, <1>3, FrameTypes
  <2> QED
    BY <2>1, <2>2, <2>3, ConcatProperties
<1>8. PushOrDrop(data \o st \o ex)
  BY DEF Drain, SessionDrain
<1>9. /\ client' \in Conns \cup {NoConn}
      /\ oq' \in [Conns -> Seq(Frame)]
      /\ \A c \in Conns : Len(oq'[c]) <= OutQ
  <2> HIDE DEF data, st, ex
  <2> QED
    BY <1>7, <1>8, PushType
<1>10. /\ pc' \in {"opening", "loop", "broke", "removed", "gone"}
       /\ grace' \in BOOLEAN
  BY DEF Drain, SessionDrain, AfterExit, ActorTypeOK
<1>11. UNCHANGED <<closing, killArmed, cmdq, rx>>
  BY DEF Drain, SessionDrain
<1> QED
  BY <1>1, <1>2, <1>3, <1>4, <1>6, <1>9, <1>10, <1>11 DEF ActorTypeOK

(* Every arm of actor_loop keeps the types.                                *)
LEMMA ActorTypes == ASSUME ActorTypeOK, ActorNext PROVE ActorTypeOK'
BY PassTypes, TakeTypes, CloseTypes, AttachTypes, PollTypes, DrainTypes
DEF ActorNext

-----------------------------------------------------------------------------
(* The connections.                                                        *)

(* send on the command channel waits for room.                             *)
LEMMA AppendTypes ==
    ASSUME ActorTypeOK, ChannelRoom, NEW cmd \in Command
    PROVE  /\ Append(cmdq, cmd) \in Seq(Command)
           /\ Len(Append(cmdq, cmd)) <= CmdCap
<1>1. cmdq \in Seq(Command) /\ Len(cmdq) \in Nat /\ Len(cmdq) < CmdCap
  BY DEF ActorTypeOK, ChannelRoom
<1> QED
  BY <1>1, AppendProperties, ActorAssumption DEF ActorAssumption

(* What readers, binders and LIST send are commands.                       *)
LEMMA CommandTypes ==
    /\ \A n \in Nat : Input(n) \in Command /\ Close(n) \in Command
    /\ \A c \in Conns : Attach(c) \in Command
    /\ Resize \in Command /\ Info \in Command
BY DEF Command, Input, Close, Attach, Resize, Info

(* The steps of handle_session, reader_task and writer_task keep the       *)
(* types.                                                                  *)
LEMMA ConnTypes ==
    ASSUME TypeOK, NEW c \in Conns, ConnNext(c)
    PROVE  TypeOK'
<1> USE DEF TypeOK, ConnStates
<1>1. UNCHANGED <<shellVars, pc, loopVars>>
  BY DEF ConnNext, BindExisting, SendAttach, AttachRefused, Teardown, ReaderSends,
         ReaderSendsClose, ReaderEnds, WriterWrites, WriterFails, WriterEnds,
         actorVars
<1>2. ShellTypeOK'
  BY <1>1, CallTypes DEF ActorTypeOK, loopVars
<1> DEFINE Rest ==
      /\ cmdq' \in Seq(Command) /\ Len(cmdq') <= CmdCap
      /\ rx' \subseteq Conns
      /\ oq' \in [Conns -> Seq(Frame)]
      /\ \A d \in Conns : Len(oq'[d]) <= OutQ
      /\ conn' \in [Conns -> ConnStates]
      /\ rcv' \in [Conns -> Received]
      /\ sends' \in 0..MaxSends
<1>3. Rest => TypeOK'
  BY <1>1, <1>2 DEF ActorTypeOK, loopVars
<1>4. WriterGone(c) =>
        /\ rx' \subseteq Conns
        /\ oq' \in [Conns -> Seq(Frame)]
        /\ \A d \in Conns : Len(oq'[d]) <= OutQ
        /\ rcv' \in [Conns -> Received]
  <2> SUFFICES ASSUME WriterGone(c)
               PROVE  /\ rx' \subseteq Conns
                      /\ oq' \in [Conns -> Seq(Frame)]
                      /\ \A d \in Conns : Len(oq'[d]) <= OutQ
                      /\ rcv' \in [Conns -> Received]
    OBVIOUS
  <2>1. Nothing \in Received
    BY ShellAssumption DEF Nothing, Received, NoPos, ShellAssumption
  <2>2. <<>> \in Seq(Frame) /\ Len(<<>>) <= OutQ
    BY ActorAssumption DEF ActorAssumption
  <2> QED
    BY <2>1, <2>2 DEF WriterGone, ActorTypeOK
<1>5. CASE BindExisting(c)
  BY <1>3, <1>5 DEF BindExisting, ActorTypeOK
<1>6. CASE SendAttach(c)
  BY <1>3, <1>6, AppendTypes, CommandTypes DEF SendAttach, ActorTypeOK
<1>7. CASE AttachRefused(c) \/ Teardown(c)
  BY <1>3, <1>4, <1>7 DEF AttachRefused, Teardown, ActorTypeOK
<1>8. CASE ReaderSends(c)
  <2>1. PICK cmd \in {Input(n) : n \in InputSizes} \cup {Resize} :
               cmdq' = Append(cmdq, cmd)
    BY <1>8 DEF ReaderSends
  <2>2. cmd \in Command
    BY CommandTypes, ActorAssumption DEF ActorAssumption
  <2>3. sends' \in 0..MaxSends
    BY <1>8, ServerAssumption DEF ReaderSends, ServerAssumption
  <2> QED
    BY <1>3, <1>8, <2>1, <2>2, <2>3, AppendTypes DEF ReaderSends, ActorTypeOK
<1>9. CASE ReaderSendsClose(c)
  <2>1. PICK g \in Graces : cmdq' = Append(cmdq, Close(g))
    BY <1>9 DEF ReaderSendsClose
  <2>2. Close(g) \in Command
    BY CommandTypes, ServerAssumption DEF ServerAssumption
  <2>3. sends' \in 0..MaxSends
    BY <1>9, ServerAssumption DEF ReaderSendsClose, ServerAssumption
  <2>4. conn' \in [Conns -> ConnStates]
    BY <1>9 DEF ReaderSendsClose, AfterReader
  <2> QED
    BY <1>3, <1>9, <2>1, <2>2, <2>3, <2>4, AppendTypes
    DEF ReaderSendsClose, ActorTypeOK
<1>10. CASE ReaderEnds(c)
  BY <1>3, <1>10 DEF ReaderEnds, AfterReader, actorVars, ActorTypeOK
<1>11. CASE WriterWrites(c)
  <2> DEFINE f == Head(oq[c])
  <2>1. /\ f \in Frame /\ Tail(oq[c]) \in Seq(Frame)
        /\ Len(Tail(oq[c])) = Len(oq[c]) - 1
    BY <1>11, HeadTailProperties DEF WriterWrites, ActorTypeOK
  <2>2. Len(oq[c]) \in Nat /\ Len(oq[c]) <= OutQ
    BY DEF ActorTypeOK
  <2>3. /\ oq' \in [Conns -> Seq(Frame)]
        /\ \A d \in Conns : Len(oq'[d]) <= OutQ
    BY <1>11, <2>1, <2>2, ActorAssumption DEF WriterWrites, ActorTypeOK, ActorAssumption
  <2>4. rcv' \in [Conns -> Received]
    <3> DEFINE r == [upto |-> f.to,
                     st   |-> IF f.ty = "status" THEN {f.st} ELSE rcv[c].st,
                     exit |-> IF f.ty = "exit" THEN f.code ELSE rcv[c].exit]
    <3>1. f.to \in 0..NoPos /\ f.st \in Snapshot /\ f.code \in Statuses \cup {NoExit}
      BY <2>1, ShellAssumption DEF Frame, NoPos, ShellAssumption
    <3>2. /\ rcv[c].st \in SUBSET Snapshot
          /\ rcv[c].exit \in Statuses \cup {NoExit}
      BY DEF Received
    <3>3. r \in Received
      <4> HIDE DEF f
      <4> QED
        BY <3>1, <3>2 DEF Received
    <3>4. rcv' = [rcv EXCEPT ![c] = r]
      BY <1>11 DEF WriterWrites
    <3> HIDE DEF r
    <3> QED
      BY <3>3, <3>4
  <2> QED
    BY <1>3, <1>11, <2>3, <2>4 DEF WriterWrites, ActorTypeOK
<1>12. CASE WriterFails(c) \/ WriterEnds(c)
  <2>1. conn' \in [Conns -> ConnStates]
    BY <1>12 DEF WriterFails, WriterEnds, AfterWriter
  <2> QED
    BY <1>3, <1>4, <1>12, <2>1 DEF WriterFails, WriterEnds, ActorTypeOK
<1> QED
  BY <1>5, <1>6, <1>7, <1>8, <1>9, <1>10, <1>11, <1>12 DEF ConnNext

(* The initial states are of the right types.                              *)
LEMMA InitTypes == ASSUME Init PROVE TypeOK
<1> USE DEF Init, ActorInit, ShellInit
<1>1. emitted \in EngineStatus /\ eng = emitted
  BY ShellAssumption DEF NoStatus, EngineStatus, ShellAssumption
<1>2. trap \in BOOLEAN /\ busy \in BOOLEAN
  BY ShellAssumption DEF ShellAssumption
<1>3. ShellTypeOK
  BY <1>1, <1>2, ShellAssumption DEF ShellTypeOK, ShellAssumption, Codes
<1>4. /\ pollRunning \in BOOLEAN /\ grace \in BOOLEAN /\ closing \in BOOLEAN
      /\ killArmed \in BOOLEAN
  OBVIOUS
<1>5. /\ cmdq \in Seq(Command) /\ Len(cmdq) <= CmdCap
      /\ oq \in [Conns -> Seq(Frame)] /\ \A c \in Conns : Len(oq[c]) <= OutQ
  BY ActorAssumption DEF ActorAssumption
<1>6. /\ rx \subseteq Conns /\ client \in Conns \cup {NoConn}
      /\ lastStatus \in SUBSET Snapshot
  BY ServerAssumption DEF ServerAssumption
<1>7. ActorTypeOK
  BY <1>1, <1>3, <1>4, <1>5, <1>6, ShellAssumption
  DEF ActorTypeOK, ShellAssumption, Statuses
<1>8. Nothing \in Received
  BY ShellAssumption DEF Nothing, Received, NoPos, ShellAssumption
<1>9. TypeOK
  BY <1>7, <1>8, ServerAssumption DEF TypeOK, ServerAssumption, ConnStates
<1> QED
  BY <1>9

(* Every step keeps the types.                                             *)
LEMMA NextTypes == ASSUME TypeOK, [Next]_vars PROVE TypeOK'
<1>1. CASE ShellNext /\ UNCHANGED <<actorVars, conn, rcv, sends>>
  <2>1. ShellTypeOK'
    BY <1>1, ShellStep DEF TypeOK, ActorTypeOK
  <2> QED
    BY <1>1, <2>1 DEF TypeOK, ActorTypeOK, actorVars, loopVars
<1>2. CASE ActorNext /\ UNCHANGED <<conn, rcv, sends>>
  <2>1. ActorTypeOK'
    BY <1>2, ActorTypes DEF ActorTypeOK, TypeOK
  <2> QED
    BY <1>2, <2>1 DEF ActorTypeOK, TypeOK
<1>3. CASE \E c \in Conns : ConnNext(c)
  BY <1>3, ConnTypes
<1>4. CASE ListAsks
  <2>1. ShellTypeOK'
    BY <1>4, CallTypes DEF ListAsks, TypeOK, ActorTypeOK
  <2>2. cmdq' \in Seq(Command) /\ Len(cmdq') <= CmdCap
    BY <1>4, AppendTypes, CommandTypes DEF ListAsks, TypeOK
  <2>3. sends' \in 0..MaxSends
    BY <1>4, ServerAssumption DEF ListAsks, TypeOK, ServerAssumption
  <2> QED
    BY <1>4, <2>1, <2>2, <2>3
    DEF ListAsks, TypeOK, ActorTypeOK, loopVars
<1>5. CASE UNCHANGED vars
  <2>1. ShellTypeOK'
    BY <1>5, CallTypes DEF vars, TypeOK, ActorTypeOK
  <2> QED
    BY <1>5, <2>1
    DEF vars, actorVars, loopVars, TypeOK, ActorTypeOK
<1> QED
  BY <1>1, <1>2, <1>3, <1>4, <1>5 DEF Next

(* Every variable of the session, its PTY and its connections keeps its    *)
(* type: in particular the command channel and the out-queues never exceed *)
(* their capacities and every frame stays within the output there is.      *)
THEOREM TypeCorrect == Spec => []TypeOK
<1>1. Init => TypeOK
  BY InitTypes
<1>2. TypeOK /\ [Next]_vars => TypeOK'
  BY NextTypes
<1> QED
  BY <1>1, <1>2, PTL DEF Spec

-----------------------------------------------------------------------------
(* The life cycle.  Most steps leave all of this alone.                    *)
lifeVars == <<proc, code, slave, pc, exit, grace, closing>>

(* A session that is still being opened is not dead: without this conjunct *)
(* OpenOk could put a dead session into the loop.                          *)
LifeInv == (pc = "opening" => ~Dead) /\ DeadIsLeaving

(* What a step that leaves the actor's part of the life cycle alone does   *)
(* to the shell: nothing, or it is a step of the shell.                    *)
LEMMA OtherSteps ==
    ASSUME [Next]_vars, ~ActorNext
    PROVE  /\ UNCHANGED <<pc, exit, grace, closing>>
           /\ ShellNext \/ UNCHANGED <<proc, code, slave>>
<1> USE DEF actorVars, loopVars, shellVars
<1>1. CASE ShellNext /\ UNCHANGED <<actorVars, conn, rcv, sends>>
  BY <1>1
<1>2. ASSUME NEW c \in Conns, ConnNext(c)
      PROVE  UNCHANGED lifeVars
  BY <1>2 DEF ConnNext, BindExisting, SendAttach, AttachRefused, Teardown,
              ReaderSends, ReaderSendsClose, ReaderEnds, WriterWrites, WriterFails,
              WriterEnds, lifeVars
<1>3. CASE ListAsks \/ UNCHANGED vars
  BY <1>3 DEF ListAsks, vars
<1> QED
  BY <1>1, <1>2, <1>3 DEF Next, lifeVars

(* No process comes back from the dead.                                    *)
LEMMA ShellEnds ==
    ASSUME ShellNext
    PROVE  /\ proc' \in {proc, "zombie"}
           /\ proc' # proc => proc = "alive" /\ proc' = "zombie"
           /\ proc # "alive" => code' = code
BY DEF ShellNext, ShellWrites, ForegroundMoves, ShellReads, JobStarts, JobEnds,
       ShellClosesTty, ShellExits, SignalKills, Ends

(* The commands that only pass something on.                               *)
LEMMA QuietSteps ==
    ASSUME TakeInput \/ TakeResize \/ TakeInfo \/ KillExpires \/ PollTick
    PROVE  UNCHANGED lifeVars /\ pc = "loop"
BY DEF TakeInput, TakeResize, TakeInfo, KillExpires, PollTick, Take, Idle, WriteInput,
       Kill, lifeVars, shellVars, loopVars

(* One step per action of the actor that moves the life cycle.             *)
LEMMA LifeStep == ASSUME LifeInv, [Next]_vars PROVE LifeInv'
<1> USE DEF LifeInv, DeadIsLeaving, Dead
<1>1. CASE ~ActorNext
  BY <1>1, OtherSteps, ShellEnds
<1>2. CASE OpenOk \/ OpenFails \/ RegistrationFails
  BY <1>2 DEF OpenOk, OpenFails, RegistrationFails, loopVars
<1>3. CASE TakeInput \/ TakeResize \/ TakeInfo \/ KillExpires \/ PollTick
  BY <1>3, QuietSteps DEF lifeVars
<1>4. CASE TakeClose
  BY <1>4 DEF TakeClose, Take
<1>5. CASE TakeAttach
  BY <1>5 DEF TakeAttach, Take
<1>6. CASE Drain
  <2>1. CASE AtEof
    BY <1>6, <2>1 DEF Drain, SessionDrain, Idle, AfterExit
  <2>2. CASE ~AtEof
    BY <1>6, <2>2 DEF Drain, SessionDrain, Idle
  <2> QED
    BY <2>1, <2>2
<1>7. CASE ReadFails \/ GraceExpires \/ Remove
  BY <1>7 DEF ReadFails, GraceExpires, Remove
<1>8. CASE Finish
  BY <1>8 DEF Finish, DropPty
<1> QED
  BY <1>1, <1>2, <1>3, <1>4, <1>5, <1>6, <1>7, <1>8 DEF ActorNext

(* LifeInv holds of every state the program reaches.                       *)
LEMMA LifeInvariant == Spec => []LifeInv
<1>1. Init => LifeInv
  BY DEF Init, ActorInit, LifeInv, DeadIsLeaving, Dead
<1>2. LifeInv /\ [Next]_vars => LifeInv'
  BY LifeStep
<1> QED
  BY <1>1, <1>2, PTL DEF Spec

(* A dead session that actor_loop still serves has its retention deadline  *)
(* set and was not told to CLOSE: a CLOSE before, at or after the EOF of   *)
(* the drain always ends the loop.  I/O errors and odd shells included.    *)
THEOREM RetentionCorrect == Spec => []DeadIsLeaving
<1>1. LifeInv => DeadIsLeaving
  BY DEF LifeInv
<1> QED
  BY <1>1, LifeInvariant, PTL

-----------------------------------------------------------------------------
(* Where reads do not fail and the shell keeps its terminal: a live shell  *)
(* holds the slave open, so EOF means that it has ended, and the loop is   *)
(* left only by a session that is dead.                                    *)
ReapInv ==
    /\ proc = "alive" => "shell" \in slave
    /\ ExitIsReal
    /\ grace => Dead
    /\ pc = "opening" => ~Dead
    /\ pc \in {"broke", "removed", "gone"} => Dead

(* A shell that keeps its terminal lets go of it only by ending.           *)
LEMMA ShellHolds ==
    ASSUME ~TtyCloser, ShellNext, proc = "alive" => "shell" \in slave
    PROVE  (proc = "alive" => "shell" \in slave)'
BY DEF ShellNext, ShellWrites, ForegroundMoves, ShellReads, JobStarts, JobEnds,
       ShellClosesTty, ShellExits, SignalKills, Ends

(* One step per action of the actor that moves the life cycle.             *)
LEMMA ReapStep ==
    ASSUME ~IoErrors, ~TtyCloser, ReapInv, [Next]_vars
    PROVE  ReapInv'
<1> USE DEF ReapInv, ExitIsReal, Dead
<1>1. CASE ~ActorNext
  <2>1. (proc = "alive" => "shell" \in slave)'
    BY <1>1, OtherSteps, ShellHolds
  <2> QED
    BY <1>1, <2>1, OtherSteps, ShellEnds
<1>2. CASE OpenOk
  BY <1>2 DEF OpenOk, Spawn, loopVars
<1>3. ~OpenFails /\ ~RegistrationFails /\ ~ReadFails
  BY DEF OpenFails, RegistrationFails, ReadFails
<1>4. CASE TakeInput \/ TakeResize \/ TakeInfo \/ KillExpires \/ PollTick
  BY <1>4, QuietSteps DEF lifeVars
<1>5. CASE TakeClose
  BY <1>5 DEF TakeClose, Take, Hangup, shellVars
<1>6. CASE TakeAttach
  BY <1>6 DEF TakeAttach, Take, shellVars
<1>7. CASE Drain
  <2>1. CASE AtEof
    <3>1. PICK s \in Statuses : ReapBlocking(s) /\ exit' = s
      BY <1>7, <2>1 DEF Drain, SessionDrain
    <3>2. s # NoExit
      BY DEF Statuses, Codes, Fabricated, NoExit
    <3>3. proc' = "reaped" /\ code' = code /\ s = code /\ slave' = slave
      BY <2>1, <3>1 DEF AtEof, ReapBlocking
    <3>4. pc = "loop" /\ pc' \in {"loop", "broke"}
      BY <1>7, <2>1 DEF Drain, SessionDrain, Idle, AfterExit
    <3> QED
      BY <3>1, <3>2, <3>3, <3>4
  <2>2. CASE ~AtEof
    BY <1>7, <2>2 DEF Drain, SessionDrain, Idle, shellVars
  <2> QED
    BY <2>1, <2>2
<1>8. CASE GraceExpires \/ Remove
  BY <1>8 DEF GraceExpires, Remove, shellVars, loopVars
<1>9. CASE Finish
  BY <1>9 DEF Finish, DropPty
<1> QED
  BY <1>1, <1>2, <1>3, <1>4, <1>5, <1>6, <1>7, <1>8, <1>9 DEF ActorNext

(* ReapInv holds of every state such a session reaches.                    *)
LEMMA ReapInvariant ==
    ASSUME ~IoErrors, ~TtyCloser
    PROVE  Spec => []ReapInv
<1>1. Init => ReapInv
  BY DEF Init, ActorInit, ShellInit, ReapInv, ExitIsReal, Dead
<1>2. ReapInv /\ [Next]_vars => ReapInv'
  BY ReapStep
<1> QED
  BY <1>1, <1>2, PTL DEF Spec

(* The status in EXIT is the one waitpid reported, never the 0 that        *)
(* Session::drain falls back to: whoever else holds the terminal open,     *)
(* whatever is sent while the shell ends.                                  *)
THEOREM ExitCorrect ==
    ASSUME ~IoErrors, ~TtyCloser
    PROVE  Spec => []ExitIsReal
<1>1. ReapInv => ExitIsReal
  BY DEF ReapInv
<1> QED
  BY <1>1, ReapInvariant, PTL

(* A session leaves the registry only after its shell has been reaped, so  *)
(* the idle watcher never sees an empty table while a shell still runs.    *)
THEOREM KeptCorrect ==
    ASSUME ~IoErrors, ~TtyCloser
    PROVE  Spec => []KeptUntilReaped
<1>1. TypeOK /\ ReapInv => KeptUntilReaped
  BY DEF TypeOK, ActorTypeOK, ReapInv, ExitIsReal, KeptUntilReaped, Registered
<1> QED
  BY <1>1, TypeCorrect, ReapInvariant, PTL

=============================================================================
