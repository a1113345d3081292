------------------------------ MODULE Listing -------------------------------
(***************************************************************************)
(* LIST on a control connection: collect_sessions of server.rs asks every  *)
(* session in the registry's table for its SessionInfo, while sessions     *)
(* come and go and other connections send commands.                        *)
(*                                                                         *)
(* An actor's channel holds the number of the LIST that asks, or 0 for any *)
(* other command.  It outlives the actor's entry in the table: the actor   *)
(* removes the entry first and drops its receiver after that.              *)
(***************************************************************************)
EXTENDS Registry, Sequences, Functions

CONSTANTS
    ChanCap,   \* capacity of a command channel
    MaxLists   \* bound: LISTs in a behaviour

ASSUME ListingAssumption == ChanCap \in Nat \ {0} /\ MaxLists \in Nat

VARIABLES
    inbox,     \* for each actor's number, the commands in its channel
    gone,      \* numbers whose receiver has been dropped
    lists,     \* LISTs so far
    lister,    \* "idle", "sending", "waiting"
    snapshot,  \* the actors whose handles this LIST has taken
    todo,      \* handles not sent to yet
    asked,     \* replies awaited, in this order
    answered,  \* actors whose reply is there and not awaited yet
    out        \* what is going to be in SESSIONS

listVars == <<lists, lister, snapshot, todo, asked, answered, out>>
allVars  == <<vars, listVars, inbox, gone>>

ListInit ==
    /\ Init
    /\ inbox = [n \in 1..MaxOpens |-> <<>>]
    /\ gone = {}
    /\ lists = 0 /\ lister = "idle"
    /\ snapshot = {} /\ todo = <<>> /\ asked = <<>> /\ answered = {}
    /\ out = <<>>

-----------------------------------------------------------------------------
(* Actors and their channels.                                              *)

HasRoom(a) == Len(inbox[a[2]]) < ChanCap

\* Another connection sends a command.
OtherSends(a) ==
    /\ a[2] \notin gone /\ HasRoom(a)
    /\ inbox' = [inbox EXCEPT ![a[2]] = Append(@, 0)]
    /\ UNCHANGED <<vars, listVars, gone>>

\* The actor takes a command; it answers Info at once.
ActorTakes(a) ==
    /\ a \in running /\ inbox[a[2]] # <<>>
    /\ inbox' = [inbox EXCEPT ![a[2]] = Tail(@)]
    /\ answered' = answered \cup {b \in {a} : Head(inbox[a[2]]) = lists /\ lister # "idle"}
    /\ UNCHANGED <<vars, gone, lists, lister, snapshot, todo, asked, out>>

\* After Remove the receiver is dropped, with the requests in it.
DropsReceiver(n) ==
    /\ n <= opens /\ n \notin gone
    /\ \A a \in running : a[2] # n
    /\ gone' = gone \cup {n}
    /\ inbox' = [inbox EXCEPT ![n] = <<>>]
    /\ UNCHANGED <<vars, listVars>>

-----------------------------------------------------------------------------
(* collect_sessions.                                                       *)

\* handles(): the table's senders, in the map's order.
ListStart ==
    /\ lister = "idle" /\ lists < MaxLists
    /\ lists' = lists + 1 /\ lister' = "sending"
    /\ snapshot' = {<<id, table[id]>> : id \in Registered}
    /\ todo' \in Injection(1..Cardinality(snapshot'), snapshot')
    /\ UNCHANGED <<vars, inbox, gone, asked, answered, out>>

\* Fault: a full channel is passed over.
SendInfoTries ==
    /\ lister = "sending" /\ todo # <<>>
    /\ LET a == Head(todo)
       IN  IF a[2] \notin gone /\ HasRoom(a)
           THEN /\ inbox' = [inbox EXCEPT ![a[2]] = Append(@, lists)]
                /\ asked' = Append(asked, a)
           ELSE UNCHANGED <<inbox, asked>>
    /\ todo' = Tail(todo)
    /\ UNCHANGED <<vars, gone, lists, lister, snapshot, answered, out>>

\* One round of the sending loop.  It waits for room, for as long as that takes.
SendInfo ==
    /\ lister = "sending" /\ todo # <<>>
    /\ LET a == Head(todo)
       IN  /\ a[2] \notin gone /\ HasRoom(a)
           /\ inbox' = [inbox EXCEPT ![a[2]] = Append(@, lists)]
           /\ asked' = Append(asked, a)
    /\ todo' = Tail(todo)
    /\ UNCHANGED <<vars, gone, lists, lister, snapshot, answered, out>>

\* The channel is closed: that session is left out.
SendFails ==
    /\ lister = "sending" /\ todo # <<>>
    /\ Head(todo)[2] \in gone
    /\ todo' = Tail(todo)
    /\ UNCHANGED <<vars, inbox, gone, lists, lister, snapshot, asked, answered, out>>

SendingDone ==
    /\ lister = "sending" /\ todo = <<>>
    /\ lister' = "waiting"
    /\ UNCHANGED <<vars, inbox, gone, lists, snapshot, todo, asked, answered, out>>

\* Fault: a reply that will not come is waited for.
AwaitOnlyReply ==
    /\ lister = "waiting" /\ asked # <<>>
    /\ Head(asked) \in answered
    /\ out' = Append(out, Head(asked))
    /\ asked' = Tail(asked) /\ answered' = answered \ {Head(asked)}
    /\ UNCHANGED <<vars, inbox, gone, lists, lister, snapshot, todo>>

\* The next reply, in the order of the requests, or its sender is dropped.
Await ==
    /\ lister = "waiting" /\ asked # <<>>
    /\ \/ Head(asked) \in answered /\ out' = Append(out, Head(asked))
       \/ Head(asked) \notin answered /\ Head(asked)[2] \in gone /\ out' = out
    /\ asked' = Tail(asked) /\ answered' = answered \ {Head(asked)}
    /\ UNCHANGED <<vars, inbox, gone, lists, lister, snapshot, todo>>

\* SESSIONS is written with what there is.
Reply ==
    /\ lister' = "idle"
    /\ snapshot' = {} /\ asked' = <<>> /\ answered' = {} /\ out' = <<>>
    /\ UNCHANGED <<vars, inbox, gone, lists, todo>>

ListDone == lister = "waiting" /\ asked = <<>> /\ Reply
Deadline == lister = "waiting" /\ asked # <<>> /\ Reply

Collects == SendFails \/ SendingDone \/ Await \/ ListDone

ListNext ==
    \/ Next /\ UNCHANGED <<listVars, inbox, gone>>
    \/ \E a \in running : OtherSends(a) \/ ActorTakes(a)
    \/ \E n \in 1..MaxOpens : DropsReceiver(n)
    \/ ListStart \/ SendInfo \/ Collects \/ Deadline

ListSpec == ListInit /\ [][ListNext]_allVars

\* Actors take what is in their channels and drop them at their end, and the
\* control task is polled.  A sender that waits for room is served in its turn
\* before later ones, so other connections cannot keep it out.  Nothing is
\* assumed of Deadline: see ListAnswered.
ListFairSpec ==
    /\ ListSpec
    /\ WF_vars(WatcherNext)
    /\ WF_allVars(Collects)
    /\ SF_allVars(SendInfo)
    /\ \A n \in 1..MaxOpens : WF_allVars(\E id \in Ids : ActorTakes(<<id, n>>))
    /\ \A n \in 1..MaxOpens : WF_allVars(DropsReceiver(n))

-----------------------------------------------------------------------------
(* SESSIONS names sessions that were in the table when LIST came, each     *)
(* once, and unless the deadline has cut the collection short it leaves no *)
(* session out that was there then and still runs.                         *)
ListComplete ==
    [][lister = "waiting" /\ lister' = "idle" =>
          /\ IsInjective(out) /\ Range(out) \subseteq snapshot
          /\ asked = <<>> => snapshot \cap running \subseteq Range(out)]_allVars

(* LIST is answered without help from the deadline, which does not cover   *)
(* the sends in any case, although sessions end while they are asked:      *)
(* before the request, with the request in their channel, or with a full   *)
(* channel that nobody reads any more.                                     *)
ListAnswered == lister = "sending" ~> lister = "idle"

=============================================================================
