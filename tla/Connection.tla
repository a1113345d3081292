----------------------------- MODULE Connection -----------------------------
(***************************************************************************)
(* One client connection from its socket to what the daemon does for it:   *)
(* FrameDecoder of protocol.rs, and in server.rs read_one_frame, the       *)
(* dispatch on the first frame, the control loop and the session reader.   *)
(*                                                                         *)
(* A byte on the wire is <<i, k>>, the k-th byte of the i-th frame: the    *)
(* type is byte 1, the length byte 2 (four bytes in the code), the payload *)
(* follows.  Who else attaches, and what the actor does with a command, is *)
(* in SessionServer; the answer to LIST is in Listing.                     *)
(***************************************************************************)
EXTENDS Naturals, Sequences

CONSTANTS
    Frames,       \* frames a client may send: ty, len, and ok: the value parses
    MaxFrameLen,  \* MAX_FRAME_LEN
    Threshold,    \* COMPACT_THRESHOLD
    ReadMax,      \* the size of the read buffer
    MaxFrames     \* bound: frames sent in a behaviour

\* "junk" is any type byte that is not a FrameType; "data" any type that only
\* the daemon sends.
Types == {"hello", "list", "attach", "input", "resize", "close", "data", "junk"}

ASSUME ConnectionAssumption ==
    /\ Frames \subseteq [ty : Types, len : Nat, ok : BOOLEAN]
    /\ {MaxFrameLen, Threshold, ReadMax, MaxFrames} \subseteq Nat
    /\ ReadMax > 0

VARIABLES
    sent,     \* the frames the client has written
    net,      \* bytes written and not read
    eof,      \* the client has closed its end
    dec,      \* the FrameDecoder: buf, and pos, the bytes of it consumed
    dry,      \* next_frame has said None: a read comes next
    conn,     \* "first", "control", "session", "closed"
    handled,  \* frames taken from the decoder
    acts,     \* what was done: replies, and commands sent to the actor
    broken    \* the connection was closed for a malformed frame

vars == <<sent, net, eof, dec, dry, conn, handled, acts, broken>>

-----------------------------------------------------------------------------
(* Frame::encode.                                                          *)
Header == 2
Encode(i, f) == [k \in 1..(Header + f.len) |-> <<i, k>>]

TypeOf(b)   == IF b[2] = 1 THEN sent[b[1]].ty ELSE "junk"
LengthOf(b) == IF b[2] = 2 THEN sent[b[1]].len ELSE 0

(* FrameDecoder.                                                           *)
CompactKeepsPos(d) == [d EXCEPT !.buf = SubSeq(@, d.pos + 1, Len(@))]   \* fault
Compact(d) == [buf |-> SubSeq(d.buf, d.pos + 1, Len(d.buf)), pos |-> 0]

PushAppends(d, bytes) == [d EXCEPT !.buf = @ \o bytes]   \* fault
Push(d, bytes) == [Compact(d) EXCEPT !.buf = @ \o bytes]

Avail == SubSeq(dec.buf, dec.pos + 1, Len(dec.buf))
Total == Header + LengthOf(Avail[2])

HasHeader == Len(Avail) >= Header
OversizedOrAt == LengthOf(Avail[2]) >= MaxFrameLen   \* fault: off by one
Oversized == LengthOf(Avail[2]) > MaxFrameLen
Malformed == HasHeader /\ (Oversized \/ TypeOf(Avail[1]) = "junk")
Whole == HasHeader /\ ~Malformed /\ Len(Avail) >= Total

Consumed(d) ==
    LET next == [d EXCEPT !.pos = @ + Total]
    IN  IF next.pos >= Threshold THEN Compact(next) ELSE next

-----------------------------------------------------------------------------
Init ==
    /\ sent = <<>> /\ net = <<>> /\ eof = FALSE
    /\ dec = [buf |-> <<>>, pos |-> 0]
    /\ dry = FALSE /\ conn = "first"
    /\ handled = <<>> /\ acts = <<>> /\ broken = FALSE

ClientWrites(f) ==
    /\ ~eof /\ Len(sent) < MaxFrames
    /\ sent' = Append(sent, f)
    /\ net' = net \o Encode(Len(sent) + 1, f)
    /\ UNCHANGED <<eof, dec, dry, conn, handled, acts, broken>>

ClientCloses ==
    /\ ~eof /\ eof' = TRUE
    /\ UNCHANGED <<sent, net, dec, dry, conn, handled, acts, broken>>

\* The socket read of read_one_frame and of reader_task, in any portions.
Read(n) ==
    /\ conn # "closed" /\ dry
    /\ dec' = Push(dec, SubSeq(net, 1, n))
    /\ net' = SubSeq(net, n + 1, Len(net))
    /\ dry' = FALSE
    /\ UNCHANGED <<sent, eof, conn, handled, acts, broken>>

\* The read returns 0, or fails because the client is gone.
ReadEnds ==
    /\ conn # "closed" /\ dry /\ eof
    /\ conn' = "closed"
    /\ UNCHANGED <<sent, net, eof, dec, dry, handled, acts, broken>>

\* next_frame: Ok(None).
NeedsMore ==
    /\ conn # "closed" /\ ~dry /\ ~Whole /\ ~Malformed
    /\ dry' = TRUE
    /\ UNCHANGED <<sent, net, eof, dec, conn, handled, acts, broken>>

\* next_frame: Err.  The length is looked at as soon as the header is there.
Rejects ==
    /\ conn # "closed" /\ ~dry /\ Malformed
    /\ conn' = "closed" /\ broken' = TRUE
    /\ UNCHANGED <<sent, net, eof, dec, dry, handled, acts>>

-----------------------------------------------------------------------------
(* next_frame: Ok(Some(frame)).  The frame number tells frames apart that  *)
(* look the same.                                                          *)
Taken == Avail[1][1]
Frame == [ty |-> TypeOf(Avail[1]), payload |-> SubSeq(Avail, Header + 1, Total),
          ok |-> sent[Taken].ok]

\* The frames reader_task turns into commands: a RESIZE that does not parse is
\* ignored, a CLOSE that does not is one with grace 0.
IsCommand(f) == f.ty \in {"input", "close"} \/ (f.ty = "resize" /\ f.ok)

TakeFrame(in) ==
    /\ conn = in /\ ~dry /\ Whole
    /\ dec' = Consumed(dec)
    /\ handled' = Append(handled, Frame)
    /\ UNCHANGED <<sent, net, eof, broken>>

Do(what)  == acts' = Append(acts, <<what, Taken>>)
DoNothing == acts' = acts

\* Fault: reader_task reads the socket before it looks into dec.
HandoverDry ==
    /\ TakeFrame("first")
    /\ Frame.ty = "attach" /\ Frame.ok
    /\ Do("attach") /\ conn' = "session" /\ dry' = TRUE

\* handle_session for a session that is there or can be opened: the decoder,
\* with what the client wrote behind the frame, goes to reader_task.
HandleSession ==
    /\ TakeFrame("first")
    /\ Frame.ty = "attach" /\ Frame.ok
    /\ Do("attach") /\ conn' = "session" /\ UNCHANGED dry

\* handle_control, the handshake.
HandleControl ==
    /\ TakeFrame("first")
    /\ Frame.ty = "hello" /\ Frame.ok
    /\ Do("hello_ok") /\ conn' = "control" /\ UNCHANGED dry

\* Another first frame, a value that does not parse, a HELLO of another
\* version, an id that is over the cap, or an actor that has just ended.
FirstRefused ==
    /\ TakeFrame("first")
    /\ Frame.ty = "hello" => ~Frame.ok
    /\ DoNothing /\ conn' = "closed" /\ UNCHANGED dry

\* Writing HELLO_OK or SESSIONS fails: the client is gone.
ReplyFails ==
    /\ eof
    /\ \/ TakeFrame("first") /\ Frame.ty = "hello" /\ Frame.ok
       \/ TakeFrame("control") /\ Frame.ty = "list"
    /\ DoNothing /\ conn' = "closed" /\ UNCHANGED dry

\* One round of handle_control's loop.
ControlFrame ==
    /\ TakeFrame("control")
    /\ IF Frame.ty = "list" THEN Do("sessions") ELSE DoNothing
    /\ UNCHANGED <<conn, dry>>

\* Fault: reader_task goes on after CLOSE.
SessionFrameAfterClose ==
    /\ TakeFrame("session")
    /\ IF IsCommand(Frame) THEN Do(Frame.ty) ELSE DoNothing
    /\ UNCHANGED <<conn, dry>>

\* One frame in reader_task, which ends with CLOSE.
SessionFrame ==
    /\ TakeFrame("session")
    /\ IF IsCommand(Frame) THEN Do(Frame.ty) ELSE DoNothing
    /\ conn' = IF Frame.ty = "close" THEN "closed" ELSE "session"
    /\ UNCHANGED dry

\* The actor is gone when reader_task sends it a command: the frame is lost.
ActorGone ==
    /\ TakeFrame("session")
    /\ IsCommand(Frame)
    /\ DoNothing /\ conn' = "closed" /\ UNCHANGED dry

\* The writer half ends, and the reader is aborted with it.
Teardown ==
    /\ conn = "session"
    /\ conn' = "closed"
    /\ UNCHANGED <<sent, net, eof, dec, dry, handled, acts, broken>>

Decode ==
    NeedsMore \/ Rejects \/ HandleSession \/ HandleControl \/ FirstRefused
    \/ ReplyFails \/ ControlFrame \/ SessionFrame \/ ActorGone

Daemon == Decode \/ (\E n \in 1..ReadMax : n <= Len(net) /\ Read(n)) \/ ReadEnds

Next ==
    \/ \E f \in Frames : ClientWrites(f)
    \/ ClientCloses
    \/ Daemon
    \/ Teardown

Spec == Init /\ [][Next]_vars

\* The runtime polls the connection's task when bytes are there.
FairSpec == Spec /\ WF_vars(Daemon)

-----------------------------------------------------------------------------
Size(f) == Header + f.len

\* These bytes are the frames from the i-th on, whole and in their order.
IsWireFrom(bytes, i) ==
    /\ bytes = <<>> <=> i > Len(sent)
    /\ bytes # <<>> => /\ bytes[1] = <<i, 1>>
                       /\ bytes[Len(bytes)] = <<Len(sent), Size(sent[Len(sent)])>>
    /\ \A j \in 1..(Len(bytes) - 1) :
          \E n \in i..Len(sent), k \in 1..Len(bytes) :
              /\ bytes[j] = <<n, k>>
              /\ bytes[j + 1] = IF k < Size(sent[n]) THEN <<n, k + 1>>
                                ELSE <<n + 1, 1>>

(* Frames come out of the decoder as they went in, whatever the portions   *)
(* of the reads and the moments of compaction: those taken are as they     *)
(* were written, and what is in the buffer and behind it on the wire is    *)
(* all the rest.                                                           *)
StreamConserved ==
    /\ IsWireFrom(Avail \o net, Len(handled) + 1)
    /\ \A i \in 1..Len(handled) :
          /\ handled[i].ty = sent[i].ty /\ handled[i].ok = sent[i].ok
          /\ handled[i].payload = [k \in 1..sent[i].len |-> <<i, Header + k>>]

BadFrame(f) == f.len > MaxFrameLen \/ f.ty = "junk"

(* A connection is closed as malformed for the frame that is malformed,    *)
(* not for the one before it, and not for one that is just long enough.    *)
RejectsOnlyBad == broken => BadFrame(sent[Len(handled) + 1])

(* The decoder never holds more than one unfinished frame and one read:    *)
(* many small frames do not make it grow.                                  *)
BufferBounded == Len(dec.buf) < Header + MaxFrameLen + ReadMax

\* What the i-th frame asks for, by the protocol: the first frame decides what
\* the others mean, and nothing counts behind a CLOSE or a malformed frame.
Asks(i) ==
    CASE ~sent[1].ok \/ (\E j \in 1..i : BadFrame(sent[j])) -> "nothing"
      [] OTHER ->
         CASE i = 1 /\ sent[1].ty = "hello"  -> "hello_ok"
           [] i = 1 /\ sent[1].ty = "attach" -> "attach"
           [] i > 1 /\ sent[1].ty = "hello" /\ sent[i].ty = "list" -> "sessions"
           [] i > 1 /\ sent[1].ty = "attach" /\ IsCommand(sent[i])
                 /\ (\A j \in 2..(i - 1) : sent[j].ty # "close") -> sent[i].ty
           [] OTHER -> "nothing"

(* The daemon does what the frames ask for, each once and in their order:  *)
(* nothing before the handshake, nothing behind a CLOSE or a malformed     *)
(* frame, nothing for a client that began with something else.  Only the   *)
(* last frame of a connection that is closed may go without.               *)
ActsAsAsked ==
    /\ \A j \in 1..Len(acts) :
          /\ acts[j][2] \in 1..Len(handled)
          /\ acts[j][1] = Asks(acts[j][2]) /\ acts[j][1] # "nothing"
    /\ \A j, k \in 1..Len(acts) : j < k => acts[j][2] < acts[k][2]
    /\ \A i \in 1..Len(handled) :
          \/ Asks(i) = "nothing"
          \/ \E j \in 1..Len(acts) : acts[j][2] = i
          \/ i = Len(handled) /\ conn = "closed"

(* Every frame is taken from the wire, or the connection closes; also the  *)
(* ones that were written together with the first and came in one read.    *)
AllHandled ==
    \A i \in 1..MaxFrames :
        Len(sent) >= i ~> (Len(handled) >= i \/ conn = "closed")

=============================================================================
