--------------------------- MODULE SessionContract --------------------------
(***************************************************************************)
(* What a session promises its clients, with no queues, tasks, timers or   *)
(* polls: one connection at a time is the viewer, and as long as it is, it *)
(* has been sent all output, the status as it is now and, once the shell   *)
(* has ended, how.  A connection that stops being the viewer keeps what it *)
(* was sent, a prefix, until it is closed; it does not become the viewer   *)
(* again.  Nothing follows the exit.                                       *)
(*                                                                         *)
(* SessionRefinement shows that the connections and the actor of           *)
(* server.rs implement it.                                                 *)
(***************************************************************************)
EXTENDS Naturals

CONSTANTS
    Conns, NoConn,   \* connections, and none
    Snapshots,       \* what STATUS can say
    Exits, NoExit,   \* what EXIT can say, and not yet
    Nothing          \* the view of a connection that was sent nothing

VARIABLES
    shown,   \* output so far
    status,  \* the status now
    exit,    \* how the shell ended
    viewer,  \* the viewer, or NoConn
    view     \* what each connection was sent: upto, st, exit

vars == <<shown, status, exit, viewer, view>>

Everything == [upto |-> shown', st |-> {status'}, exit |-> exit']

Init ==
    /\ shown = 0 /\ status \in Snapshots /\ exit = NoExit
    /\ viewer = NoConn
    /\ view = [c \in Conns |-> Nothing]

\* A new viewer, in place of the one there may be.
Attach(c) ==
    /\ viewer' = c
    /\ view[c] = Nothing
    /\ status' \in Snapshots
    /\ view' = [view EXCEPT ![c] = Everything]
    /\ UNCHANGED <<shown, exit>>

\* Output, a change of status or the end of the shell.
Happens ==
    /\ exit = NoExit
    /\ shown' \in Nat /\ shown' >= shown
    /\ status' \in Snapshots
    /\ exit' \in Exits \cup {NoExit}

\* The viewer is sent it, ...
Advance ==
    /\ Happens
    /\ UNCHANGED viewer
    /\ view' = IF viewer = NoConn THEN view ELSE [view EXCEPT ![viewer] = Everything]

\* ... or a part of it and is no longer the viewer.
FallBehind ==
    /\ Happens
    /\ viewer # NoConn /\ viewer' = NoConn
    /\ view'[viewer].upto \in view[viewer].upto..shown'
    /\ view'[viewer].st \in {view[viewer].st, {status'}}
    /\ view'[viewer].exit = NoExit
    /\ view' = [view EXCEPT ![viewer] = view'[viewer]]

\* There is no viewer any more, or there was none.
Detach ==
    /\ viewer' = NoConn
    /\ status' \in Snapshots
    /\ UNCHANGED <<shown, exit, view>>

\* A connection is closed.
Leave(c) ==
    /\ view' = [view EXCEPT ![c] = Nothing]
    /\ viewer' = IF viewer = c THEN NoConn ELSE viewer
    /\ UNCHANGED <<shown, status, exit>>

Next == Detach \/ Advance \/ FallBehind \/ \E c \in Conns : Attach(c) \/ Leave(c)

Spec == Init /\ [][Next]_vars

=============================================================================
