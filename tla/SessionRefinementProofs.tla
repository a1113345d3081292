----------------------- MODULE SessionRefinementProofs ----------------------
(***************************************************************************)
(* The connections and the actor implement SessionContract, for every      *)
(* value of the constants.  The invariant of SessionStreamProofs says what *)
(* the view of the client is, so that each step of the code is matched by  *)
(* a step of the contract: a drain or a poll is Advance or FallBehind, an  *)
(* Attach is Attach, or Detach when its connection has gone in the         *)
(* meantime, the end of a writer is Leave, and all the rest is invisible.  *)
(***************************************************************************)
EXTENDS SessionRefinement, SessionStreamProofs

Viewer == IF client \in rx THEN client ELSE NoConn
Views == [c \in Conns |-> View(c)]
Status == EffectiveStatus(eng, pollRunning)

(* The view of a connection, from its pipeline.                            *)
PipeView(q, r) == [upto |-> EndOf(q, r), st |-> StatusOf(q, r), exit |-> ExitOf(q, r)]

(* With an empty queue the client has what the writer has written.         *)
LEMMA EmptyView ==
    ASSUME NEW r \in Received PROVE PipeView(<<>>, r) = r
<1>1. StatusAt(<<>>) = {} /\ ~HasExit(<<>>)
  BY DEF StatusAt, HasExit
<1>2. r = [upto |-> r.upto, st |-> r.st, exit |-> r.exit]
  BY DEF Received
<1> QED
  BY <1>1, <1>2 DEF PipeView, EndOf, StatusOf, ExitOf

(* The refinement mapping's view is that of the pipeline ...               *)
LEMMA ViewIs ==
    ASSUME TypeOK, NEW c \in Conns PROVE View(c) = PipeView(oq[c], rcv[c])
<1>1. rcv[c] \in Received
  BY DEF TypeOK
<1>2. CASE oq[c] = <<>>
  BY <1>1, <1>2, EmptyView DEF View
<1>3. CASE oq[c] # <<>>
  BY <1>3 DEF View, End, PipelineStatus, PipeView, EndOf, StatusOf, StatusAt, ExitOf,
              HasExit
<1> QED
  BY <1>2, <1>3

(* ... after a step as well as before it.                                  *)
LEMMA ViewIsNext ==
    ASSUME TypeOK', NEW c \in Conns PROVE View(c)' = PipeView(oq'[c], rcv'[c])
<1>1. rcv'[c] \in Received
  BY DEF TypeOK
<1>2. CASE oq'[c] = <<>>
  BY <1>1, <1>2, EmptyView DEF View
<1>3. CASE oq'[c] # <<>>
  BY <1>3 DEF View, End, PipelineStatus, PipeView, EndOf, StatusOf, StatusAt, ExitOf,
              HasExit
<1> QED
  BY <1>2, <1>3

-----------------------------------------------------------------------------
(* The steps of the contract, in terms of the code's state.                *)

(* Nothing that a client can see has changed.                              *)
LEMMA IsStutter ==
    ASSUME UNCHANGED <<fed, exit, Status, Viewer, Views>>
    PROVE  UNCHANGED Contract!vars
BY DEF Contract!vars, Status, Viewer, Views

(* The viewer is lost.                                                     *)
LEMMA IsDetach ==
    ASSUME UNCHANGED <<fed, exit, Views>>, Status' \in Snapshot, Viewer' = NoConn
    PROVE  Contract!Next
BY DEF Contract!Next, Contract!Detach, Status, Viewer, Views

(* A connection closes.                                                    *)
LEMMA IsLeave ==
    ASSUME UNCHANGED <<fed, exit, Status>>, NEW c \in Conns,
           Viewer' = (IF Viewer = c THEN NoConn ELSE Viewer),
           Views' = [Views EXCEPT ![c] = Nothing]
    PROVE  Contract!Next
<1>1. Contract!Leave(c)
  BY DEF Contract!Leave, Status, Viewer, Views
<1> QED
  BY <1>1 DEF Contract!Next

(* A connection becomes the viewer and has been sent everything.           *)
LEMMA IsAttach ==
    ASSUME UNCHANGED <<fed, exit>>, Status' \in Snapshot, NEW c \in Conns,
           Viewer' = c, Views[c] = Nothing,
           Views' = [Views EXCEPT ![c] =
                        [upto |-> fed', st |-> {Status'}, exit |-> exit']]
    PROVE  Contract!Next
<1>1. Contract!Attach(c)
  BY DEF Contract!Attach, Contract!Everything, Status, Viewer, Views
<1> QED
  BY <1>1 DEF Contract!Next

Happens == /\ exit = NoExit
           /\ fed' \in Nat /\ fed' >= fed
           /\ Status' \in Snapshot
           /\ exit' \in Statuses \cup {NoExit}

(* Something happens, and the viewer is sent all of it.                    *)
LEMMA IsAdvance ==
    ASSUME Happens, Viewer' = Viewer,
           Views' = IF Viewer = NoConn THEN Views
                    ELSE [Views EXCEPT ![Viewer] =
                             [upto |-> fed', st |-> {Status'}, exit |-> exit']]
    PROVE  Contract!Next
<1>1. Contract!Happens
  BY DEF Contract!Happens, Happens, Status
<1>2. Contract!Advance
  BY <1>1 DEF Contract!Advance, Contract!Everything, Status, Viewer, Views
<1> QED
  BY <1>2 DEF Contract!Next

(* Something happens, and a viewer whose queue is full is sent a part of it. *)
LEMMA IsFallBehind ==
    ASSUME Happens, Viewer # NoConn, Viewer' = NoConn,
           NEW v, Views' = [Views EXCEPT ![Viewer] = v], Viewer \in Conns,
           v.upto \in Views[Viewer].upto..fed',
           v.st \in {Views[Viewer].st, {Status'}},
           v.exit = NoExit
    PROVE  Contract!Next
<1>1. Contract!Happens
  BY DEF Contract!Happens, Happens, Status
<1>2. Views'[Viewer] = v
  BY DEF Views
<1>3. Contract!FallBehind
  BY <1>1, <1>2 DEF Contract!FallBehind, Status, Viewer, Views
<1> QED
  BY <1>3 DEF Contract!Next


-----------------------------------------------------------------------------
(* The views change with the pipelines.                                    *)

(* A step that leaves a connection's pipeline alone leaves its view alone. *)
LEMMA SameView ==
    ASSUME TypeOK, TypeOK', NEW c \in Conns, oq'[c] = oq[c], rcv'[c] = rcv[c]
    PROVE  View(c)' = View(c)
BY ViewIs, ViewIsNext

(* All of them.                                                            *)
LEMMA SameViews ==
    ASSUME \A c \in Conns : View(c)' = View(c)
    PROVE  Views' = Views
BY DEF Views

(* All but one.                                                            *)
LEMMA OneView ==
    ASSUME NEW c \in Conns, NEW v, View(c)' = v,
           \A d \in Conns \ {c} : View(d)' = View(d)
    PROVE  Views' = [Views EXCEPT ![c] = v]
BY DEF Views

-----------------------------------------------------------------------------
(* The actor takes an Attach: the connection becomes the viewer, unless    *)
(* its writer has gone before the actor came to it.                        *)
LEMMA AttachRefines ==
    ASSUME StreamInv, TypeOK', TakeAttach, rcv' = rcv
    PROVE  Contract!Next
<1>0. ActorTypeOK /\ TypeOK /\ QueueInv /\ PipeInv /\ rcv \in [Conns -> Received]
  BY DEF StreamInv, TypeOK
<1>a. PICK a : a = Head(cmdq).conn
  OBVIOUS
<1>1. cmdq # <<>> /\ cmdq' = Tail(cmdq) /\ Head(cmdq).ty = "attach"
  BY DEF TakeAttach, Take
<1>2. Waiting(a)
  BY <1>0, <1>a, <1>1, TakeKeeps DEF QueueInv
<1>4. PICK m, lo, e, x : Replays(a, m, lo, e, x)
  BY <1>0, <1>a, AttachReplays
<1>5. /\ oq' = [oq EXCEPT ![a] = oq[a] \o Sent(a, m)]
      /\ m \in Seq(Frame) /\ oq \in [Conns -> Seq(Frame)]
      /\ UNCHANGED <<fed, eng, exit, rx>> /\ client' = a
      /\ Status' = e /\ e \in Snapshot
  BY <1>0, <1>4 DEF Replays, WholeBatch, Batch, ActorTypeOK, Status
<1>6. ASSUME NEW d \in Conns, d # a PROVE View(d)' = View(d)
  BY <1>0, <1>5, <1>6, SameView
<1>7. CASE a \in rx
  <2>0. a \in Conns
    BY <1>0, <1>7 DEF ActorTypeOK
  <2>1. /\ EndOf(oq'[a], rcv'[a]) = fed
        /\ StatusOf(oq'[a], rcv'[a]) = {e}
        /\ ExitOf(oq'[a], rcv'[a]) = exit
    BY <1>0, <1>2, <2>0, <1>4, <1>7, ReplaysView
  <2>2. View(a)' = [upto |-> fed', st |-> {Status'}, exit |-> exit']
    BY <2>0, <1>5, <2>1, ViewIsNext DEF PipeView
  <2>3. View(a) = Nothing
    <3>1. oq[a] = <<>> /\ rcv[a] = Nothing
      BY <1>0, <1>2, <2>0 DEF QueueInv, Unserved
    <3> QED
      BY <3>1 DEF View
  <2>4. Views[a] = Nothing
    BY <2>0, <2>3 DEF Views
  <2>5. Viewer' = a
    BY <1>5, <1>7 DEF Viewer
  <2>6. Views' = [Views EXCEPT ![a] =
                      [upto |-> fed', st |-> {Status'}, exit |-> exit']]
    BY <2>0, <1>6, <2>2, OneView
  <2> QED
    BY <2>0, <1>5, <2>4, <2>5, <2>6, IsAttach
<1>8. CASE a \notin rx
  <2>1. a \in Conns => oq[a] \o Sent(a, m) = oq[a]
    BY <1>0, <1>5, <1>8, SentIs, ConcatEmptySeq
  <2>2. a \in Conns => oq'[a] = oq[a]
    BY <1>5, <2>1
  <2>3. a \in Conns => View(a)' = View(a)
    BY <1>0, <2>2, SameView
  <2>4. Views' = Views
    BY <1>6, <2>3, SameViews
  <2>5. Viewer' = NoConn
    BY <1>5, <1>8 DEF Viewer
  <2> QED
    BY <1>5, <2>4, <2>5, IsDetach
<1> QED
  BY <1>7, <1>8

(* A drain or a poll: the viewer, if there is one, is brought up to date   *)
(* or falls behind for good.                                               *)
LEMMA ServeRefines ==
    ASSUME StreamInv, TypeOK', NEW m, NEW e, NEW x, Serves(m, e, x), rcv' = rcv
    PROVE  Contract!Next
<1>0. ActorTypeOK /\ TypeOK /\ QueueInv /\ PipeInv /\ rcv \in [Conns -> Received]
  BY DEF StreamInv, TypeOK
<1>1. /\ m \in Seq(Frame) /\ PushOrDrop(m) /\ UNCHANGED rx
      /\ Status' = e /\ e \in Snapshot /\ exit = NoExit
      /\ fed \in Nat /\ fed' \in Nat /\ fed' >= fed
  BY DEF Serves, WholeBatch, Batch, Status
<1>2. Happens
  BY <1>1 DEF Happens, TypeOK, ActorTypeOK
<1>3. ASSUME NEW d \in Conns, ~Viewing(d) PROVE View(d)' = View(d)
  <2>1. oq'[d] = oq[d]
    BY <1>0, <1>1, <1>3, PushTouches DEF Viewing
  <2> QED
    BY <1>0, <2>1, SameView
<1>4. CASE client \notin rx
  <2>1. Views' = Views
    BY <1>3, <1>4, SameViews DEF Viewing
  <2>2. client' \in {client, NoConn}
    BY <1>0, <1>1, PushTouches
  <2>3. Viewer = NoConn /\ Viewer' = NoConn
    BY <1>1, <1>4, <2>2 DEF Viewer
  <2> QED
    BY <1>2, <2>1, <2>3, IsAdvance
<1>5. CASE client \in rx
  <2>a. PICK c : c = client
    OBVIOUS
  <2>1. c \in Conns /\ c # NoConn /\ Viewing(c) /\ Viewer = c
    BY <1>0, <1>5, <2>a, ActorAssumption DEF ActorTypeOK, Viewing, Viewer, ActorAssumption
  <2>2. \A d \in Conns \ {c} : View(d)' = View(d)
    BY <1>3, <2>a DEF Viewing
  <2>3. PICK v : v = View(c)'
    OBVIOUS
  <2>4. v = PipeView(oq'[c], rcv'[c]) /\ View(c) = PipeView(oq[c], rcv[c])
    BY <1>0, <2>1, <2>3, ViewIs, ViewIsNext
  <2>5. Views' = [Views EXCEPT ![c] = v]
    BY <2>1, <2>2, <2>3, OneView
  <2>6. CASE /\ client' = c
             /\ EndOf(oq'[c], rcv'[c]) = fed'
             /\ StatusOf(oq'[c], rcv'[c]) = {e}
             /\ ExitOf(oq'[c], rcv'[c]) = exit'
    <3>1. v = [upto |-> fed', st |-> {Status'}, exit |-> exit']
      BY <1>1, <2>4, <2>6 DEF PipeView
    <3>2. Viewer' = c
      BY <1>1, <1>5, <2>a, <2>6 DEF Viewer
    <3> QED
      BY <1>2, <2>1, <2>5, <3>1, <3>2, IsAdvance
  <2>7. CASE /\ client' = NoConn
             /\ EndOf(oq'[c], rcv'[c]) \in fed..fed'
             /\ StatusOf(oq'[c], rcv'[c]) \in {StatusOf(oq[c], rcv[c]), {e}}
             /\ ExitOf(oq'[c], rcv'[c]) = NoExit
    <3>1. Views[c] = View(c)
      BY <2>1 DEF Views
    <3>2. Views[c].upto = fed /\ Views[c].st = StatusOf(oq[c], rcv[c])
      BY <1>0, <2>1, <2>4, <3>1 DEF PipeView, PipeInv
    <3>3. /\ v.upto \in Views[c].upto..fed'
          /\ v.st \in {Views[c].st, {Status'}}
          /\ v.exit = NoExit
      BY <1>1, <2>4, <2>7, <3>2 DEF PipeView
    <3>4. Viewer' = NoConn
      BY <2>7 DEF Viewer
    <3> QED
      BY <1>2, <2>1, <2>5, <3>3, <3>4, IsFallBehind
  <2> QED
    BY <1>0, <2>1, <2>6, <2>7, ServesView
<1> QED
  BY <1>4, <1>5


(* CLOSE: a live session is hung up, which nobody sees; a dead one tells   *)
(* its client once more how the shell ended, and lets go of it.            *)
LEMMA CloseRefines ==
    ASSUME StreamInv, TypeOK', TakeClose, rcv' = rcv
    PROVE  Contract!Next \/ UNCHANGED Contract!vars
<1>0. ActorTypeOK /\ TypeOK /\ PipeInv /\ rcv \in [Conns -> Received]
  BY DEF StreamInv, TypeOK
<1>1. /\ UNCHANGED <<fed, eng, exit, pollRunning, rx>>
      /\ Dead => client' = NoConn
      /\ ~Dead => UNCHANGED <<client, oq>>
  BY DEF TakeClose
<1>2. Status' = Status /\ Status \in Snapshot
  BY <1>0, <1>1, SnapshotType DEF Status, ActorTypeOK
<1>3. ASSUME NEW c \in Conns PROVE View(c)' = View(c)
  <2>1. CASE Viewing(c)
    <3>1. /\ EndOf(oq'[c], rcv'[c]) = EndOf(oq[c], rcv[c])
          /\ StatusOf(oq'[c], rcv'[c]) = StatusOf(oq[c], rcv[c])
          /\ ExitOf(oq'[c], rcv'[c]) = ExitOf(oq[c], rcv[c])
      BY <1>0, <2>1, CloseView
    <3> QED
      BY <1>0, <3>1, ViewIs, ViewIsNext DEF PipeView
  <2>2. CASE ~Viewing(c)
    BY <1>0, <2>2, CloseSpares, SameView
  <2> QED
    BY <2>1, <2>2
<1>4. Views' = Views
  BY <1>3, SameViews
<1>5. CASE Dead
  <2>1. Viewer' = NoConn
    BY <1>1, <1>5 DEF Viewer
  <2> QED
    BY <1>1, <1>2, <1>4, <2>1, IsDetach
<1>6. CASE ~Dead
  <2>1. Viewer' = Viewer
    BY <1>1, <1>6 DEF Viewer
  <2> QED
    BY <1>1, <1>2, <1>4, <2>1, IsStutter
<1> QED
  BY <1>5, <1>6

(* The steps of the actor.                                                 *)
LEMMA ActorRefines ==
    ASSUME StreamInv, TypeOK', ActorNext, rcv' = rcv
    PROVE  Contract!Next \/ UNCHANGED Contract!vars
<1>0. ActorTypeOK /\ TypeOK /\ PipeInv
  BY DEF StreamInv, TypeOK
<1>1. CASE OpenOk \/ OpenFails \/ RegistrationFails \/ ReadFails \/ GraceExpires
           \/ KillExpires \/ Remove \/ TakeInput \/ TakeResize \/ TakeInfo
  <2>1. UNCHANGED <<fed, eng, exit, client, pollRunning, rx, oq>>
    BY <1>1 DEF OpenOk, OpenFails, RegistrationFails, ReadFails, GraceExpires,
                KillExpires, Remove, TakeInput, TakeResize, TakeInfo, loopVars
  <2>2. Views' = Views
    BY <1>0, <2>1, SameView, SameViews
  <2>3. Status' = Status /\ Viewer' = Viewer
    BY <2>1 DEF Status, Viewer
  <2> QED
    BY <2>1, <2>2, <2>3, IsStutter
<1>2. CASE TakeClose
  BY <1>2, CloseRefines
<1>3. CASE TakeAttach
  BY <1>3, AttachRefines
<1>4. CASE Drain \/ PollTick
  <2>1. fed <= out
    BY <1>0 DEF PipeInv
  <2>2. \E m, e, x : Serves(m, e, x)
    BY <1>0, <1>4, <2>1, DrainServes, PollServes
  <2> QED
    BY <2>2, ServeRefines
<1>5. CASE Finish
  <2>1. UNCHANGED <<fed, exit, oq>> /\ client' = NoConn
    BY <1>5 DEF Finish
  <2>2. Views' = Views
    BY <1>0, <2>1, SameView, SameViews
  <2>3. Viewer' = NoConn
    BY <2>1 DEF Viewer
  <2>4. Status' \in Snapshot
    BY SnapshotType DEF Status, TypeOK, ActorTypeOK
  <2> QED
    BY <2>1, <2>2, <2>3, <2>4, IsDetach
<1> QED
  BY <1>1, <1>2, <1>3, <1>4, <1>5 DEF ActorNext

(* The steps of a connection: its writer moves frames from the queue to    *)
(* the socket, which changes no view, until it ends, which is Leave.       *)
LEMMA ConnRefines ==
    ASSUME StreamInv, TypeOK', NEW c \in Conns, ConnNext(c)
    PROVE  Contract!Next \/ UNCHANGED Contract!vars
<1>0. TypeOK /\ QueueInv /\ PipeInv
  BY DEF StreamInv
<1>1. /\ UNCHANGED <<fed, eng, exit, client, pollRunning>>
      /\ \A d \in Conns \ {c} : /\ oq'[d] = oq[d] /\ rcv'[d] = rcv[d]
                                /\ d \in rx' <=> d \in rx
  BY <1>0, ConnLocal
<1>2. Status' = Status
  BY <1>1 DEF Status
<1>3. ASSUME NEW d \in Conns, d # c PROVE View(d)' = View(d)
  BY <1>0, <1>1, <1>3, SameView
<1>4. /\ client \in Conns \cup {NoConn} /\ NoConn \notin Conns
      /\ rx \subseteq Conns /\ rx' \subseteq Conns
      /\ oq[c] \in Seq(Frame) /\ exit \in Statuses \cup {NoExit}
  BY <1>0, ActorAssumption DEF TypeOK, ActorTypeOK, ActorAssumption
<1>5. CASE View(c)' = View(c) /\ (client = c => (c \in rx' <=> c \in rx))
  <2>1. Views' = Views
    BY <1>3, <1>5, SameViews
  <2>2. Viewer' = Viewer
    BY <1>1, <1>4, <1>5 DEF Viewer
  <2> QED
    BY <1>1, <1>2, <2>1, <2>2, IsStutter
<1>6. CASE c \notin rx' /\ oq'[c] = <<>> /\ rcv'[c] = Nothing
  <2>1. View(c)' = Nothing
    BY <1>6 DEF View
  <2>2. Views' = [Views EXCEPT ![c] = Nothing]
    BY <1>3, <2>1, OneView
  <2>3. Viewer' = IF Viewer = c THEN NoConn ELSE Viewer
    BY <1>1, <1>4, <1>6 DEF Viewer
  <2> QED
    BY <1>1, <1>2, <2>2, <2>3, IsLeave
<1>7. CASE UNCHANGED <<oq, rcv>> /\ (client = c => (c \in rx' <=> c \in rx))
  BY <1>0, <1>5, <1>7, SameView
<1>8. CASE /\ rx' = rx /\ oq[c] # <<>> /\ oq'[c] = Tail(oq[c])
           /\ rcv'[c] = Written(Head(oq[c]), rcv[c])
  <2>1. Sound(oq[c], rcv[c], exit)
    BY <1>0 DEF PipeInv
  <2>2. /\ EndOf(oq'[c], rcv'[c]) = EndOf(oq[c], rcv[c])
        /\ StatusOf(oq'[c], rcv'[c]) = StatusOf(oq[c], rcv[c])
        /\ ExitOf(oq'[c], rcv'[c]) = ExitOf(oq[c], rcv[c])
    BY <1>4, <1>8, <2>1, WriterMoves
  <2>3. View(c)' = View(c)
    BY <1>0, <2>2, ViewIs, ViewIsNext DEF PipeView
  <2> QED
    BY <1>5, <1>8, <2>3
<1>9. conn[c] = "idle" => client # c
  BY <1>0 DEF QueueInv, Unserved
<1> QED
  BY <1>0, <1>6, <1>7, <1>8, <1>9, ConnMoves

(* Every step of the code is a step of the contract, or invisible in it.   *)
LEMMA StepRefines ==
    ASSUME StreamInv, [Next]_vars
    PROVE  [Contract!Next]_(Contract!vars)
<1>0. TypeOK /\ TypeOK'
  BY NextTypes DEF StreamInv
<1>1. CASE \/ ShellNext /\ UNCHANGED <<actorVars, conn, rcv, sends>>
           \/ ListAsks
           \/ UNCHANGED vars
  <2>1. UNCHANGED <<fed, eng, exit, client, pollRunning, rx, oq, rcv>>
    BY <1>1 DEF vars, actorVars, loopVars, ListAsks
  <2>2. Views' = Views
    BY <1>0, <2>1, SameView, SameViews
  <2>3. Status' = Status /\ Viewer' = Viewer
    BY <2>1 DEF Status, Viewer
  <2> QED
    BY <2>1, <2>2, <2>3, IsStutter
<1>2. CASE ActorNext /\ UNCHANGED <<conn, rcv, sends>>
  BY <1>0, <1>2, ActorRefines
<1>3. CASE \E c \in Conns : ConnNext(c)
  BY <1>0, <1>3, ConnRefines
<1> QED
  BY <1>1, <1>2, <1>3 DEF Next

(* The connections and the actor of server.rs implement the contract: the  *)
(* viewer is served everything or stops being the viewer, a connection is  *)
(* served once, and the exit is the last thing that happens, for any       *)
(* number of connections, any queues and any output.                       *)
THEOREM ContractCorrect == Spec => ImplementsContract
<1>1. Init => Contract!Init
  <2> SUFFICES ASSUME Init PROVE Contract!Init
    OBVIOUS
  <2>1. /\ fed = 0 /\ exit = NoExit /\ client = NoConn /\ rx = {Creator}
        /\ eng = NoStatus /\ pollRunning = FALSE
        /\ \A c \in Conns : oq[c] = <<>> /\ rcv[c] = Nothing
    BY DEF Init, ActorInit
  <2>2. Status \in Snapshot
    BY InitTypes, SnapshotType DEF Status, TypeOK, ActorTypeOK
  <2>3. Viewer = NoConn
    BY <2>1 DEF Viewer
  <2>4. \A c \in Conns : View(c) = Nothing
    BY <2>1 DEF View
  <2>5. Views = [c \in Conns |-> Nothing]
    BY <2>4 DEF Views
  <2> QED
    BY <2>1, <2>2, <2>3, <2>5 DEF Contract!Init, Status, Viewer, Views
<1>2. StreamInv /\ [Next]_vars => [Contract!Next]_(Contract!vars)
  BY StepRefines
<1> QED
  BY <1>1, <1>2, StreamInvariant, PTL DEF Spec, ImplementsContract, Contract!Spec

=============================================================================
