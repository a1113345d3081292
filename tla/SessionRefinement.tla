-------------------------- MODULE SessionRefinement -------------------------
(***************************************************************************)
(* SessionServer implements SessionContract.  A connection's view is its   *)
(* pipeline: what its writer has put on the socket, then what is queued    *)
(* for it.  The viewer is the actor's client, as long as that client's     *)
(* writer is there to take frames.                                         *)
(***************************************************************************)
EXTENDS SessionServer

View(c) ==
    IF oq[c] = <<>> THEN rcv[c]
    ELSE [upto |-> End(c),
          st   |-> PipelineStatus(c),
          exit |-> IF \E i \in 1..Len(oq[c]) : oq[c][i].ty = "exit"
                   THEN oq[c][Len(oq[c])].code ELSE rcv[c].exit]

Contract == INSTANCE SessionContract WITH
    Snapshots <- Snapshot,
    Exits     <- Statuses,
    shown     <- fed,
    status    <- EffectiveStatus(eng, pollRunning),
    viewer    <- IF client \in rx THEN client ELSE NoConn,
    view      <- [c \in Conns |-> View(c)]

(* Takeovers, forced detaches, replays, retained sessions and polls, in    *)
(* any interleaving, come down to the steps of the contract: the viewer is *)
(* served everything or stops being the viewer, a connection is served     *)
(* once, the exit is the last thing that happens.                          *)
ImplementsContract == Contract!Spec

=============================================================================
