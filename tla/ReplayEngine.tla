---------------------------- MODULE ReplayEngine ----------------------------
(***************************************************************************)
(* The replay engine of core/src: scanner.rs classifies what the shell     *)
(* writes, sticky.rs remembers the terminal state that outlives the bytes  *)
(* that set it, ring.rs keeps the rest in chunks.  A replay is the         *)
(* prologue of a chunk and the data from there on.                         *)
(*                                                                         *)
(* Output is a sequence of pieces: a byte, or a run of bytes within which  *)
(* nothing can happen (the parameters and the final byte of a CSI, the     *)
(* code and payload of an OSC).  A terminal that reads every piece is kept *)
(* beside the engine, as the reference for what a replay has to restore.   *)
(* Device control strings (hook, put, unhook) are not modelled.            *)
(***************************************************************************)
EXTENDS Naturals, SequencesExt

CONSTANTS
    Pieces,     \* the pieces the shell's programs write
    TitleEnds,  \* how they end an OSC that is kept: "bel", "esc" or "9c"
    Watermark,  \* WATERMARK, in pieces
    Wants,      \* the want_chunks of attaching clients
    MaxFeed     \* bound: pieces fed in a behaviour

C0    == {"lf", "bel"}
Sgr   == {"1m", "4m"}                \* each sets an attribute; "0m" clears all
(* DEC private modes; ?25 is on in a fresh terminal, as ?7 is.  "6n" and   *)
(* "$p" (DECRQM, also for XTVERSION) are questions.                        *)
ModeOn  == {"?1h", "?2h", "?25h"}
ModeOff == [off \in {"?1l", "?25l"} |-> IF off = "?1l" THEN "?1h" ELSE "?25h"]
DefaultOn == {"?25h"}
Csi   == Sgr \cup ModeOn \cup DOMAIN ModeOff
         \cup {"0m", "r", "0r", "2J", "K", "6n", "$p"}
Titles  == {"t1", "t2"}              \* OSC 2, which is what the prologue says
Cwds    == {"d1"}
(* Shell marks, clipboard; a colour of the palette is set, or asked for.   *)
Osc   == Titles \cup Cwds \cup {"133", "52", "10", "10?"}
(* "lead", "9c", "93" are the bytes of one character, 0xE2 0x9C 0x93; a    *)
(* 0x9C of its own is the C1 string terminator.                            *)
Char  == {"lead", "9c", "93"}
AllPieces == {"a", "esc", "[", "]", "st", "c"} \cup C0 \cup Csi \cup Osc \cup Char

ASSUME EngineAssumption ==
    /\ Pieces \subseteq AllPieces
    /\ TitleEnds \subseteq {"bel", "esc", "9c"}
    /\ Watermark \in Nat \ {0}
    /\ Wants \subseteq Nat
    /\ MaxFeed \in Nat

-----------------------------------------------------------------------------
(* vte::Parser as far as the engine meets it.  body is the OSC being read, *)
(* or the one that the ESC just read has ended.                            *)
At(s) == [at |-> s, body |-> <<>>]
Ground == At("ground")

ParserStep(p, b) ==
    IF b = "esc" THEN [p EXCEPT !.at = "esc"]
    ELSE CASE p.at = "ground" -> IF b = "lead" THEN At("char") ELSE Ground
           [] p.at = "char" -> IF b = "93" THEN Ground ELSE p
           [] p.at = "csi" -> IF b \in C0 THEN p ELSE Ground
           [] p.at = "osc" -> IF b = "bel" THEN Ground ELSE [p EXCEPT !.body = Append(@, b)]
           [] p.at = "esc" /\ b = "[" -> At("csi")
           [] p.at = "esc" /\ b = "]" -> At("osc")
           [] p.at = "esc" /\ b \in C0 -> p
           [] p.at = "esc" /\ b \notin {"[", "]"} \cup C0 -> Ground

\* The callback that completes with this byte, and what it is about.
Callback(p, b) ==
    IF p.at = "osc"
    THEN IF b \in {"bel", "esc"} THEN <<"osc_dispatch", p.body>> ELSE <<"none">>
    ELSE IF b \in {"esc", "lead"} THEN <<"none">>
    ELSE IF b \in C0 THEN <<"execute", b>>
    ELSE CASE p.at = "ground" -> <<"print", b>>
           [] p.at = "char" -> IF b = "93" THEN <<"print", b>> ELSE <<"none">>
           [] p.at = "csi" -> <<"csi_dispatch", b>>
           [] p.at = "esc" -> IF b \in {"[", "]"} THEN <<"none">> ELSE <<"esc_dispatch", b>>

-----------------------------------------------------------------------------
(* StickyState.                                                            *)
NoSticky == [sgr |-> {}, modes |-> {}, region |-> {}, cwd |-> <<>>, title |-> <<>>]

\* build_serialized: SGR reset, then what is set, in this order; the modes in
\* that of their codes.
OneCsi(final, set) == IF final \in set THEN <<"esc", "[", final>> ELSE <<>>
OneOsc(body) == IF body = <<>> THEN <<>> ELSE <<"esc", "]">> \o body \o <<"bel">>
BuildSerialized(s) ==
    <<"esc", "[", "0m">> \o OneCsi("1m", s.sgr) \o OneCsi("4m", s.sgr)
    \o OneCsi("?1h", s.modes) \o OneCsi("?2h", s.modes) \o OneCsi("?25h", s.modes)
    \o OneCsi("r", s.region)
    \o OneOsc(s.cwd) \o OneOsc(s.title)

(* The scanner: parser, sink, ring and the bytes of the span in progress.  *)
(* cache is StickyState's, <<>> when invalidated; st is st_pending.        *)
Scanner0 ==
    [p |-> Ground, sticky |-> NoSticky, cache |-> <<>>, st |-> "none", ev |-> "none",
     pending |-> <<>>, utf8 |-> 0,
     chunks |-> <<[prologue |-> <<>>, data |-> <<>>]>>]

\* The set_ functions of StickyState: change the state, drop the cache.
SetKeepsCache(sc, s) == [sc EXCEPT !.sticky = s]   \* fault
SetSticky(sc, s) == [sc EXCEPT !.sticky = s, !.cache = <<>>]

Classified(sc, ev) == [sc EXCEPT !.ev = ev, !.st = "none"]

\* Sink::csi_dispatch.  set_sgr replaces what was set before.
StickyCsi(s, b) ==
    CASE b = "0m" -> [s EXCEPT !.sgr = {}]
      [] b \in Sgr -> [s EXCEPT !.sgr = {b}]
      [] b \in ModeOn -> [s EXCEPT !.modes = @ \cup {b}]
      [] b \in DOMAIN ModeOff -> [s EXCEPT !.modes = @ \ {ModeOff[b]}]
      [] b = "r" -> [s EXCEPT !.region = {b}]
      [] b = "0r" -> [s EXCEPT !.region = {}]
OnCsi(sc, b) ==
    CASE b = "6n" -> Classified(sc, "drop")
      [] b = "2J" -> Classified(sc, "clear")
      [] b \in {"K", "$p"} -> Classified(sc, "keep")
      [] OTHER    -> Classified(SetSticky(sc, StickyCsi(sc.sticky, b)), "keep")

OscDroppedMarks == {"133"}   \* fault
OscDropped == {"133", "52"}

\* Sink::osc_dispatch.  The string terminator that may follow is to be
\* classified as the OSC was.
OnOsc(sc, body) ==
    LET code == Head(body)
        ev == IF code \in OscDropped THEN "drop" ELSE "keep"
        s  == CASE code \in Titles -> SetSticky(sc, [sc.sticky EXCEPT !.title = body])
                [] code \in Cwds -> SetSticky(sc, [sc.sticky EXCEPT !.cwd = body])
                [] OTHER -> sc
    IN  [s EXCEPT !.ev = ev, !.st = ev]

\* Sink::esc_dispatch.
OnEscIgnoresSt(sc, b) == Classified(sc, IF b = "c" THEN "clear" ELSE "keep")  \* fault
OnEsc(sc, b) ==
    IF b = "st" /\ sc.st # "none" THEN Classified(sc, sc.st)
    ELSE Classified(sc, IF b = "c" THEN "clear" ELSE "keep")

Dispatch(sc, call) ==
    CASE call[1] = "none" -> sc
      [] call[1] = "print" -> Classified(sc, "keep")
      [] call[1] = "execute" -> Classified(sc, IF call[2] = "bel" THEN "drop" ELSE "keep")
      [] call[1] = "csi_dispatch" -> OnCsi(sc, call[2])
      [] call[1] = "osc_dispatch" -> OnOsc(sc, call[2])
      [] call[1] = "esc_dispatch" -> OnEsc(sc, call[2])

-----------------------------------------------------------------------------
(* ChunkRing and the scanner's use of it.                                  *)

\* StickyState::serialize: from the cache when there is one.
Serialized(sc) == IF sc.cache = <<>> THEN BuildSerialized(sc.sticky) ELSE sc.cache

NewChunk(prologue) == [prologue |-> prologue, data |-> <<>>]

MaybeCut(sc) ==
    IF Len(Last(sc.chunks).data) < Watermark THEN sc
    ELSE [sc EXCEPT !.chunks = Append(@, NewChunk(Serialized(sc))),
                    !.cache = Serialized(sc)]

Keep(sc) ==
    MaybeCut([sc EXCEPT !.chunks[Len(sc.chunks)].data = @ \o sc.pending,
                        !.pending = <<>>])

\* A full-screen clear: everything before it is dropped.  (The cursor is not
\* modelled, nor the ESC [ H of this prologue.)
Purge(sc) ==
    [sc EXCEPT !.chunks = <<NewChunk(<<"esc", "[", "2J">> \o Serialized(sc))>>,
               !.cache = Serialized(sc),
               !.pending = <<>>]

AdvanceOne(sc, b) ==
    LET seen == Dispatch([sc EXCEPT !.pending = Append(@, b), !.ev = "none"],
                         Callback(sc.p, b))
        next == [seen EXCEPT !.p = ParserStep(sc.p, b)]
    IN  CASE next.ev = "none"  -> next
          [] next.ev = "keep"  -> Keep(next)
          [] next.ev = "drop"  -> [next EXCEPT !.pending = <<>>]
          [] next.ev = "clear" -> Purge(next)

\* Fault: a 0x9C is the terminator wherever it stands.
FeedOneByte(sc, b) ==
    IF b = "9c" THEN AdvanceOne(AdvanceOne(sc, "esc"), "st") ELSE AdvanceOne(sc, b)

\* Scanner::feed, for one byte: a 0x9C within a character is passed on, one
\* of its own becomes ESC \.
FeedOne(sc, b) ==
    IF sc.utf8 > 0 /\ b \in {"9c", "93"}
    THEN AdvanceOne([sc EXCEPT !.utf8 = @ - 1], b)
    ELSE LET fresh == [sc EXCEPT !.utf8 = IF b = "lead" THEN 2 ELSE 0]
         IN  IF b = "9c" THEN AdvanceOne(AdvanceOne(fresh, "esc"), "st")
             ELSE AdvanceOne(fresh, b)

Data(chunks) == FlattenSeq([i \in 1..Len(chunks) |-> chunks[i].data])
ReplayFrom(chunks, start) ==
    chunks[start].prologue \o Data(SubSeq(chunks, start, Len(chunks)))

\* ChunkRing::replay; want_chunks 0 is all (Session::replay_for_attach).
Start(sc, want) ==
    LET n == Len(sc.chunks) IN IF want = 0 \/ want >= n THEN 1 ELSE n - want + 1
Replay(sc, want) == ReplayFrom(sc.chunks, Start(sc, want))

-----------------------------------------------------------------------------
(* The terminal that reads the output: what it shows, the state that lasts *)
(* and what it was made to do besides (ring, answer, fill the clipboard).  *)
(* It knows nothing of the engine: attributes add up, ?25 begins on, and   *)
(* it has a palette.                                                       *)
ColdState == [sgr |-> {}, modes |-> DefaultOn, region |-> {}, cwd |-> <<>>,
              title |-> <<>>, palette |-> {}]
Cold == [p |-> Ground, more |-> 0, text |-> <<>>, noise |-> {}, state |-> ColdState]

TermCsi(t, b) ==
    CASE b = "2J" -> [t EXCEPT !.text = <<>>]
      [] b = "K"  -> [t EXCEPT !.text = Append(@, <<"K">>)]
      [] b \in {"6n", "$p"} -> [t EXCEPT !.noise = @ \cup {b}]
      [] b = "0m" -> [t EXCEPT !.state.sgr = {}]
      [] b \in Sgr -> [t EXCEPT !.state.sgr = @ \cup {b}]
      [] b \in ModeOn -> [t EXCEPT !.state.modes = @ \cup {b}]
      [] b \in DOMAIN ModeOff -> [t EXCEPT !.state.modes = @ \ {ModeOff[b]}]
      [] b = "r" -> [t EXCEPT !.state.region = {b}]
      [] b = "0r" -> [t EXCEPT !.state.region = {}]

TermOsc(t, body) ==
    CASE Head(body) \in Titles -> [t EXCEPT !.state.title = body]
      [] Head(body) \in Cwds -> [t EXCEPT !.state.cwd = body]
      [] Head(body) = "10" -> [t EXCEPT !.state.palette = {"10"}]
      [] OTHER -> [t EXCEPT !.noise = @ \cup {Head(body)}]

TermDo(t, call) ==
    CASE call[1] = "none" -> t
      [] call[1] = "print" -> [t EXCEPT !.text = Append(@, <<call[2], t.state.sgr>>)]
      [] call[1] = "execute" ->
            IF call[2] = "lf" THEN [t EXCEPT !.text = Append(@, <<"lf">>)]
            ELSE [t EXCEPT !.noise = @ \cup {call[2]}]
      [] call[1] = "csi_dispatch" -> TermCsi(t, call[2])
      [] call[1] = "osc_dispatch" -> TermOsc(t, call[2])
      [] call[1] = "esc_dispatch" ->
            IF call[2] = "c" THEN [Cold EXCEPT !.noise = t.noise] ELSE t

TermByte(t, b) == [TermDo(t, Callback(t.p, b)) EXCEPT !.p = ParserStep(t.p, b)]

TermStep(t, b) ==
    IF t.more > 0 /\ b \in {"9c", "93"} THEN TermByte([t EXCEPT !.more = @ - 1], b)
    ELSE LET fresh == [t EXCEPT !.more = IF b = "lead" THEN 2 ELSE 0]
         IN  IF b = "9c" THEN TermByte(TermByte(fresh, "esc"), "st")
             ELSE TermByte(fresh, b)

\* A terminal after reading some bytes; what a fresh one shows.
Reads(t, bytes) ==
    LET after[n \in 0..Len(bytes)] ==
            IF n = 0 THEN t ELSE TermStep(after[n - 1], bytes[n])
    IN  after[Len(bytes)]
Shown(bytes) == Reads(Cold, bytes)

-----------------------------------------------------------------------------
VARIABLES
    sc,     \* the scanner with its ring
    live,   \* the terminal that reads everything
    fed,    \* pieces fed so far
    stale,  \* history: a RIS has reset what the sticky state still holds
    sound   \* history: the chunks that began where a prologue can say it all

vars == <<sc, live, fed, stale, sound>>

Init == sc = Scanner0 /\ live = Cold /\ fed = 0 /\ stale = FALSE /\ sound = {1}

(* What programs write: whole sequences, one after the other.              *)
WellFormed(t, b) ==
    LET p == t.p
    IN  CASE p.at = "char" -> b = IF t.more = 2 THEN "9c" ELSE "93"
          [] p.at = "ground" -> b \in {"a", "esc", "lead"} \cup C0
          [] p.at = "esc" -> IF p.body = <<>> THEN b \in {"[", "]", "c"} ELSE b = "st"
          [] p.at = "csi" -> b \in Csi
          [] p.at = "osc" ->
                IF p.body = <<>> THEN b \in Osc
                ELSE \/ b \in Char /\ (b = "lead" \/ t.more > 0)
                     \/ b \in IF Head(p.body) \in OscDropped THEN {"bel", "esc", "9c"}
                              ELSE TitleEnds

(* What build_serialized can say of a terminal's state: one attribute at   *)
(* most (set_sgr forgets the others), no mode off that begins on           *)
(* (set_dec_mode forgets it, only h is written), no palette.               *)
Sayable(s) ==
    /\ \A x, y \in s.sgr : x = y
    /\ DefaultOn \subseteq s.modes
    /\ s.palette = {}

\* This byte has begun the last chunk of the ring, between sequences.
Begins(old, new) ==
    /\ new.ev = "clear" \/ Len(new.chunks) > Len(old.chunks)
    /\ Last(new.chunks).data = <<>> /\ new.p = Ground

Feed(b) ==
    /\ fed < MaxFeed /\ WellFormed(live, b)
    /\ sc' = FeedOne(sc, b)
    /\ live' = TermStep(live, b)
    /\ fed' = fed + 1
    /\ stale' = (stale \/ (b = "c" /\ live.state # ColdState))
    /\ sound' = (IF sc'.ev = "clear" THEN {} ELSE sound)
                \cup IF Begins(sc, sc') /\ Sayable(live'.state) /\ ~stale'
                     THEN {Len(sc'.chunks)} ELSE {}

Next == \E b \in Pieces : Feed(b)

Spec == Init /\ [][Next]_vars

-----------------------------------------------------------------------------
(* A full replay and the bytes still pending show what the terminal that   *)
(* has read everything shows: since the last clear nothing is missing, and *)
(* text has the rendition it was written with.  Whatever is written after  *)
(* it: the ring has only to begin where its prologue could say the state.  *)
ReplayFull ==
    1 \in sound =>
        LET t == Shown(Replay(sc, 0) \o sc.pending)
        IN  t.state = live.state /\ t.text = live.text

\* A fresh terminal that reads a replay ends in the state of the live one
\* and shows the end of what it shows.
Restores(want) ==
    LET t == Shown(Replay(sc, want))
    IN  t.state = live.state /\ IsSuffix(t.text, live.text)

(* Between sequences a replay that is capped to some chunks restores the   *)
(* terminal, when the first of them began where its prologue could say the *)
(* state.                                                                  *)
ReplayCapped ==
    sc.p.at = "ground" => \A want \in Wants : Start(sc, want) \in sound => Restores(want)

(* StickyState: its prologue makes a chunk self-contained for replay.      *)
SelfContained == sc.p.at = "ground" => \A want \in Wants : Restores(want)

(* A replay rings no bell, touches no clipboard and asks for no cursor     *)
(* position.  The questions that Sink keeps it does ask again.             *)
KeptQueries == {"$p", "10?"}
ReplayQuiet == \A want \in Wants : Shown(Replay(sc, want)).noise \subseteq KeptQueries

=============================================================================
