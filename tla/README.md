# jftermd in TLA+

jftermd keeps shells alive behind PTYs and lets terminal windows attach to them
over a Unix socket. These modules model the daemon of `src/jftermd` from its
source, TLC checks them on small instances, and TLAPS proves the most important
invariants for every value of the constants.

Positions in the source are given as `file:line`, relative to `src/jftermd/src`
unless another directory is named.

## Inventory

| part | state | operations |
|---|---|---|
| session actor (`session_task`, `actor_loop` in `server.rs`; `session.rs`) | lifecycle, attached client, last STATUS, poll sample, retention and kill deadlines, `closing` | commands Input, Resize, Info, Close, Attach; drain; two deadlines; poll tick; removal and drop |
| session connections (`handle_session`, `reader_task`, `writer_task`) | one command sender, one bounded out-queue, two tasks | bind, send Attach, forward frames, write frames, end in either order |
| PTY layer (`pty.rs`) | master descriptor, child pid | spawn, read, write, hangup, kill, tcgetpgrp, bounded reap, `Drop` |
| registry (`registry.rs`) | table of command senders, cap, one `Notify` | `attach_or_create`, `remove`, `is_empty`, `wait_for_change` |
| idle watcher (`wait_until_idle`) | where it is | two loops around a sleep |
| daemon handoff (`daemonize.rs`, `main.rs`, `socket.rs`) | lockfile, socket file, listener | open and flock, bind, unlink stale socket, chmod, shut down |
| control connection (`handle_control`, `collect_sessions`) | LIST requests in progress | HELLO, LIST |
| replay engine (`core/src`: scanner, ring, sticky state, status) | chunks of output, marks, terminal attributes, status, pending bytes | feed, replay |
| wire protocol (`protocol.rs`) | decode buffer | encode, split DATA, decode |
| dispatch, paths, command line, tracing, double fork | none that outlives a call | straight-line code |

How they interact. A connection that says ATTACH_OR_OPEN asks the registry, which
either finds a command channel or creates one and lets a new actor be spawned. The
connection gives the actor the sending half of its own out-queue inside an Attach
command. From then on there are three parties per viewer: the reader, which only
sends commands; the actor, which only tries to send frames and never waits for a
client; and the writer, which only empties the queue. Nobody tells the actor that a
connection has closed: it finds out when a push fails. Nobody tells a connection
that it was replaced: its queue ends when the actor drops the sender. The actor
leaves the registry by itself, and the registry wakes the watcher.

What is hard to get right:

- the replay, live output, STATUS and EXIT share one bounded queue per client, the
  replacement of a client can happen between any two of them, and STATUS is sent
  only when it differs from the last one sent, to whomever that was;
- CLOSE, hangup, the kill deadline, the shell's own end, EOF and the reap meet in
  any order, and the session must end once, with the right status;
- reader and writer end in either order, and a queued Attach keeps a queue alive;
- idle self-exit is decided while sessions come and go, with a `Notify` that
  remembers one wake-up;
- a launch meets a predecessor in any phase of its shutdown, or its remains;
- LIST asks many actors, which end while they are asked, over channels that others
  fill;
- the bytes of a connection come in any portions, and its first frame decides who
  reads the rest;
- a replay has to leave a terminal as the output itself would have left it, although
  it starts in the middle and leaves things out.

What each part promises, and the property that says so:

- actor and connections: the viewer is sent everything, in order, with the current
  status and the exit last (`SessionContract`; `StreamIntact`, `StatusInSync`,
  `ExitFinal`), the exit is real (`ExitIsReal`), sessions end, reaped
  (`CloseEnds`, `DeadSessionDropped`, `KeptUntilReaped`, `DeadIsLeaving`), nobody that reads waits for ever (`AttachSettles`, `DetachedCloses`);
- registry and watcher: `TableIsRunning`, `CapHeld`, `ExitsOnlyIdle`,
  `SelfExitsOnceSeen`;
- LIST: `ListComplete`, `ListAnswered`;
- handoff: `OneDaemon`, `OneUnlessStray`, `ServingReachable`, `NoLaunchFails`, `LaunchReachesDaemon`;
- wire protocol and dispatch: `StreamConserved`, `RejectsOnlyBad`, `BufferBounded`,
  `ActsAsAsked`, `AllHandled`;
- replay engine: `ReplayFull`, `ReplayCapped`, `SelfContained`, `ReplayQuiet`.

## Modules

| module | what it is |
|---|---|
| `PtyShell` | the shell, its terminal and its jobs (external), and the calls of `pty.rs` on them |
| `SessionActor` | extends it with one session's actor: `session.rs`, `session_task`, `actor_loop` |
| `SessionServer` | composes the actor with any number of connections and with LIST; the specification, fairness and properties |
| `SessionContract` | the abstract specification: what a session promises its clients |
| `SessionRefinement` | the mapping under which `SessionServer` implements it |
| `Registry` | the table and the idle watcher |
| `Listing` | extends it with the actors' command channels and `collect_sessions` |
| `Connection` | one connection from the bytes on the socket to commands and replies: `FrameDecoder`, `dispatch_connection`, `handle_control`, `handle_session`, `reader_task` |
| `ReplayEngine` | scanner, sticky state and ring of `core/src`, beside a terminal that reads everything |
| `Handoff` | processes, lockfile and socket file |
| `MCSessionServer`, `MCRegistry`, `MCListing`, `MCConnection`, `MCReplayEngine`, `MCHandoff` | the instances TLC checks |
| `SessionServerProofs` | theorems on the types and the life cycle of a session |
| `SessionStreamProofs` | theorems on what clients are sent |
| `SessionRefinementProofs` | that `SessionServer` implements `SessionContract` |
| `RegistryProofs`, `ListingProofs`, `ConnectionProofs`, `HandoffProofs` | theorems on those modules |
| `ReplayProofs` | that replays restore the terminal, with the lemmas on reading, the prologue and the chunks that this takes |

### SessionActor and SessionServer

`pc` is where the actor is: `opening` (before the PTY is open), `loop`, `broke`
(left the loop, still registered), `removed`, `gone` (all values dropped). Each arm
of the `select!` is an action; the select is biased, so every arm but the commands
needs an empty command channel (`Idle`). `cmd_rx.recv()` never returns `None`,
because the registry holds a sender as long as the session is registered.
An action is the whole arm: `Drain` reads all there is, feeds the engine, pushes the
DATA frames, refreshes the status, and at EOF reaps, pushes EXIT and either leaves or
arms the retention.

Output is counted in units, and a unit is text or one of the OSC sequences the
engine keeps status from. A frame is an interval of positions: DATA carries the
units `from+1..to`, STATUS and EXIT are empty intervals at the position the actor
had reached. The content of a stream is then intact exactly when the intervals
join. A replay is any suffix of what was fed: `want_chunks` and the last screen
clear decide which one, and no property may depend on it.

`try_send` of several frames in a row is one step that takes as many as there is
room for. That loses nothing: the writer may empty the queue just before.
`rcv[c]` is what the writer of `c` has put on the socket: the position reached, the
last STATUS and the EXIT.

Not in the state: the window size (no other part reads it), the text of anything,
titles and working directories, output of background jobs.

### SessionContract and SessionRefinement

The contract knows one viewer, the output, the status and the exit. Its steps are
those a client can see: a connection becomes the viewer and has been sent
everything; something happens and the viewer is sent it, or a part of it and is no
longer the viewer; the viewer is lost; a connection closes. There are no queues: the
refinement takes for a connection's view what its writer has put on the socket
followed by what is in its queue, and for the viewer the actor's client as long as
its writer can take frames. `fed` is the output, `EffectiveStatus` the status. An
attach samples the foreground, and a poll may find the status changed while pushing
it costs the viewer its place, which is why `Attach` and `Detach` may change it.

### PtyShell

The shell may write, move the terminal's foreground, start a job that holds the
terminal, close the terminal without ending, trap SIGHUP, exit. What a shell may do
is a constant (`Traps`, `JobControl`, `TtyCloser`, `Jobs`), so that a run or a
theorem says which shells it is about. EOF on the master is `slave = {}`. The reap
that polls for one second is one step: it finds a zombie and its status, or a live
child and the made-up 0. A spawn that fails has no child (`unborn`), or, after the fork,
one that nobody owns (`leaked`).

### Registry

`attach_or_create` and `remove` hold the table's lock, so each is one step. An actor
is an id and a number, so that "another session with the same id" can be told
apart. `Notify` is one Boolean permit.

### Listing

An actor's channel holds the number of the LIST that asks or 0. It outlives the
table entry, since an actor removes the entry and drops the receiver after that, and
requests that are in it then are dropped with it. `collect_sessions` is an action
per send, per awaited reply and for the deadline, which covers the replies only.

### Connection

A byte on the wire is `<<i, k>>`, the k-th byte of the i-th frame, so that a byte
that is lost, repeated or taken for something else is seen; the type is byte 1 and
the length, four bytes in the code, byte 2. Whether a value parses is an attribute
of the frame. `dry` says that `next_frame` has returned `None`, so that the next step
is a read; `reader_task` starts with `have_bytes`, which is `dry = FALSE`.

### ReplayEngine

Output is a sequence of pieces: a byte, or a run of bytes within which nothing can
happen. The `vte` parser is external, modelled by its states and the callback that a
piece completes; everything `scanner.rs` does with the callback, with `pending`,
`st_pending`, `utf8_remaining`, the cached prologue and the chunks is the code's.
The arms that keep whatever no other arm names have three representatives: `K`, the
queries `$p` and `10?`, and the palette change `10`.

`live` is a terminal that has read everything; `Shown` is a fresh one that reads a
replay. The properties compare the two. The terminal is a definition of its own and
shares nothing with the sticky state but the parser: attributes add up, ?25 begins on
(as ?7 does), there is a palette, and RIS resets all of it. The programs write whole
sequences; which ones is `Pieces`, and how they end the OSCs that are kept is
`TitleEnds`.

The terminal can be in states that a prologue cannot say (`Sayable`: at most one
attribute, no default-on mode off, no palette), and after a RIS the sticky state may
hold what the terminal does not (`stale`). `sound` is the set of chunks that began
between sequences, in a state that can be said, with nothing stale; the first chunk
of a new ring is one, and a purge begins a new set. `ReplayFull` and `ReplayCapped` are
about replays that begin at a sound chunk and put no condition on what is written
after it; `SelfContained` is what `sticky.rs` claims, without the condition, and fails.

### Handoff

A path names an inode or nothing; an flock belongs to the inode and lives as long as
the descriptor. `main` removes the socket file, then the lockfile, then drops the
runtime (`leaving`), and the lock last, because locals drop in reverse order. Time
is abstracted to one assumption: a process that has begun to shut down lets go of
the lock within ACQUIRE_TIMEOUT, so `GiveUp` needs a holder that is not in teardown.
`stray` records that a lockfile was created while another process was still using one
that had been unlinked: locking it, or on its way from the lock to its own unlink.

## What is checked

| run | question | result |
|---|---|---|
| `safety` | two connections attach, replace each other, write, CLOSE and LIST while the shell writes, marks commands and exits | the stream of the attached client is intact, its last STATUS is the effective one, nothing follows EXIT, EXIT is what waitpid said, the session is registered until reaped, a dead session waits for its retention or leaves, and `SessionContract` is implemented |
| `polling` | a shell with job control, with and without OSC 133 and progress | the last STATUS is the effective one although `poll_running` is a sample |
| `faults` | open (before and after the fork), registration and reads fail; the shell closes its terminal; a job outlives it; frames hold one unit | no attached client misses output |
| `liveness` | two connections, one of whose peers may stop reading for good, two commands, a command channel of one slot, an out-queue that overflows, a shell that traps SIGHUP | every attach of a peer that reads is served or closed, every replaced or dropped client that reads sees EOF, CLOSE with a grace ends the session, a dead session is dropped |
| `table` | three ids, a cap of two, ids reused; safety and liveness | the table is the running actors, the cap holds, exit only when idle, and an idle daemon exits once its watcher has seen a session |
| `listing` | LIST while sessions end and are reopened and others fill their channels; safety and liveness | no running session is left out unless the deadline cut the collection short, and LIST is answered without the deadline |
| `connection` | any three of twelve frames, in any portions; safety and liveness | frames come out as they went in, only malformed ones are rejected, the buffer is bounded, the daemon does what was asked, in order, and all of it |
| `replay` | all well-formed output of ten pieces | full and capped replays that begin at a sound chunk restore text, rendition, modes, region, palette, title and directory; none rings, writes the clipboard or asks more than the kept queries |
| `handoff` | three processes, clean exits and kills at any point; safety and liveness | until `stray`: one daemon, reachable, no launch fails, a launch ends with a daemon that serves |
| `unlinked_lock` | three processes with clean exits | two daemons (below) |
| `job_holds_tty` | CLOSE of a shell with a background job | CLOSE does not end the session (below) |
| `replay_sgr` | two SGR sequences before a cut | a capped replay restores the second only (below) |

Every property of a passing run has a mutant: a definition next to the one it
replaces, marked "fault", with which TLC finds the property violated.

### Where the code and what is written about it differ

Shown by a run:

- **Two daemons** (`main.rs:154`). The lockfile is unlinked while locked. A launch
  that opened it before then locks an inode that is at no path, a third one creates
  and locks a new file, and both serve. In the same race the second daemon unlinks the
  socket of the first, which then serves where nobody can reach it, and `bind`, `unlink`
  and `chmod` of the two meet, so that a launch can end with an error. It takes three
  processes and the second lockfile (`stray`); `handoff` shows, with three, and
  `HandoffProofs` proves, for any number, that nothing else leads there.
- **CLOSE that does not end** (`server.rs:474`). SIGKILL goes to the shell's group.
  A job in another group that holds the terminal withholds EOF, and only EOF reaps.
- **Rendition of a capped replay** (`core/src/sticky.rs:36`). `set_sgr` stores the
  parameters of the last SGR sequence; in a terminal they add up. `ESC[1m ESC[4m` is
  restored as underlined and not bold. (`sticky.rs:4-6`: state that must be re-asserted
  "to make a chunk self-contained for replay".)

Seen in the source and present in the model, without a run of their own:

- a shell that closes its terminal and lives on is reported with EXIT{0} after one
  second (`session.rs:109`; `session.rs:106` and `pty.rs:239-242` say the child is
  known to be terminating); `ExitIsReal` is about shells that keep it;
- input that does not fit into the terminal is dropped: a short write or EAGAIN of
  the non-blocking master is ignored (`session.rs:125`; `docs/PROTOCOL-v1.md:247`
  says "Forwarded verbatim");
- when `set_nonblocking` or `set_cloexec` of the master fails, `Pty::spawn` returns an error
  with the child forked and no `Pty` to kill and reap it (`pty.rs:110`, `:115`);
- a client that has stopped reading is dropped by the actor but never sees EOF: its
  writer is in a `write_all` without a timeout, and the socket stays open with it
  (`server.rs:661`; `docs/PROTOCOL-v1.md:410` says "forced detach, socket EOF");
  `DetachedCloses` is about peers that read, however late;
- queries that no arm of the scanner names are kept, DECRQM, XTVERSION and the OSC
  colour queries among them, so a replay asks them again (`core/src/scanner.rs:127`,
  `:186`; `docs/PROTOCOL-v1.md:361-362` says a replay has no "input-generating queries",
  `docs/sequence-coverage-backlog.md:21-31` lists them as open); `ReplayQuiet` allows them
  and nothing else;
- a mode that begins on and is turned off (?25, ?7) is forgotten by `set_dec_mode`, and the
  prologue only ever writes `h` (`core/src/sticky.rs:42-49`, `:95-99`), so that
  `ESC[?25l ESC[2J` loses it even in a full replay; a palette that was set is in no
  prologue either (`docs/sequence-coverage-backlog.md:77-89` lists these for capped
  replays); no chunk that begins in such a state is `sound`;
- a kept OSC that ends in `ESC \` or 0x9C is dispatched at ESC, so that a chunk can be
  cut between ESC and the backslash (`core/src/scanner.rs:325` says "Safe to cut") and
  a capped replay begins with a backslash; such a chunk is not `sound`;
- RIS (`ESC c`) purges the ring but leaves the sticky state, so that the prologue
  asserts modes that are off (`core/src/scanner.rs:203`); from such a RIS on (`stale`) no
  chunk is `sound`;
- an attach in the middle of a sequence or character misses its first bytes, which
  are in `pending` and in no replay (`core/src/scanner.rs:290`); `ReplayFull` adds them;
- the sends of LIST are outside its deadline, and replies are awaited in order, so
  that at the deadline a slow session hides the answers of later ones
  (`server.rs:274-287`; `server.rs:267` says "LIST latency is bounded by one timeout");
- an Attach is served after CLOSE (`server.rs:407`; `docs/PROTOCOL-v1.md:266` says
  the daemon stops accepting them);
- an Attach that is queued when the actor leaves its loop is dropped, and the
  connection closes without a frame (`server.rs:498`);
- a shell that ends while a marked command runs leaves STATUS{running} in front of
  EXIT, while LIST says it does not run (`server.rs:447`, `session.rs:166`); that is
  why the second half of `StatusInSync` speaks of live shells only;
- a viewer that leaves a quiet session is still reported by LIST (`server.rs:381`);
- a first session that ends before the watcher looks leaves the daemon waiting for
  another (`server.rs:672`), and a session that fits into the grace does not restart
  it (`server.rs:679`).

Seen in the source, outside the model: a title is cut at its first `;` and an icon
name (OSC 1) is restored as a title (`core/src/scanner.rs:87-89`); a DCS is kept, one
that asks the terminal something included, and can be cut like an OSC
(`core/src/scanner.rs:79`); `ESC[3J`, which clears the scrollback only, purges the
screen too (`core/src/scanner.rs:180`); there is no charset in the prologue, against
`docs/PROTOCOL-v1.md:354`.

### Bounds

- Two connections: one creates the session and one replaces it, before, during and
  after every phase. Clients are told apart only by being the current one or not.
- `MaxOut` 2 in `safety` and `faults`: one unit before and one after any event, so replay and
  live output, a marker before and after the first STATUS, are both there. In `safety`, with
  `OutQ` 3, a client that does not read is full after a replay and one drain, so
  forced detaches happen. The assumption on `OutQ` says that a queue holds the
  largest replay with its STATUS and EXIT; in the code it is 1024 frames of 16 MiB.
- `FrameMax` 1 in `faults`, with two units of output and an `OutQ` of 4, makes a replay or
  a drain of both several frames.
- `CmdCap` 1 in `liveness` makes every sender wait for every other; 2 elsewhere lets a
  command stand behind an Attach.
- `MaxSends` bounds commands other than Attach; one is enough for a CLOSE to meet
  every phase, `liveness` has two, so that the second connection's CLOSE re-arms or
  outlives the deadline of the first. Its shells trap SIGHUP, the harder case, and write
  one command mark: a replay with it, its STATUS, a drain and the EXIT are more than
  `OutQ` 3 holds, so forced detaches of a slow and of a stuck client are there.
- `MaxOpens` 6 with three ids reuses each id; the numbers only tell actors apart.
- `listing`: two ids and three opens give a session that is reopened while LIST holds
  the handle of its predecessor; one slot per channel makes every sender wait.
- `connection`: three frames are a first one, one behind it and one behind a CLOSE or
  a malformed one. `MaxFrameLen` 2 with frames of 2 and 3 is the boundary, `Threshold`
  5 is crossed by two frames, `ReadMax` 4 splits every frame and joins small ones.
- `handoff`: three processes are a holder that leaves, a launch that has its file open
  and one that makes a new file, which is what `stray` takes; every other way in which
  two processes meet happens beside a third.
- `replay`: `Watermark` 2 cuts at almost every span. Ten pieces are three sequences, or
  one title with a character in it and another sequence: enough to set a mode, cut,
  change it and cut again, which is what a stale cache needs. All pieces the module knows
  and all ways to end an OSC are written.

Deadlock is not checked, because the system may stop: a session that ended, a
daemon that exited, or the bounds used up.

### Fairness

Owed by the runtime and the kernel, and by nobody else: a ready task is polled, a
timer fires, a signal is delivered. A write completes or fails if the peer reads,
however slowly, or goes away; the peers of `Stuck` need not, and `AttachSettles` and
`DetachedCloses` hold of the others beside one that never reads. Shells, clients and jobs owe nothing: no shell has to exit, write
or let go of its terminal. The drain and the deadlines need weak fairness only,
although commands are polled first, because a behaviour has finitely many commands;
a client that floods commands for ever starves the other arms, in the model's terms
and in the code's. `GiveUp` in `Handoff` has strong fairness: its deadline passes
while retries close and open the file in between. In `Connection` the connection's
task is fair, the client is not. In `Listing` actors take commands and drop their
channels, and a send that waits for room is strongly fair: tokio serves waiting
senders in their order, so later ones cannot keep it out. Nothing is assumed of the
deadline: it is there, but no answer may depend on it.

## What is proved

All for any number of connections, ids and processes, any capacities and any amount
of output, from the assumptions named in the modules.

| theorem | statement | argument |
|---|---|---|
| `SessionServerProofs!TypeCorrect` | `TypeOK`: types, `Len(cmdq) <= CmdCap`, `Len(oq[c]) <= OutQ` | one lemma per action; `SplitStart` and `FrameDataType` bound the division in `frame_data`, `SentType` the queue |
| `RetentionCorrect` | `DeadIsLeaving`, faults and odd shells included | `LifeInv`: a session is not dead before it is open, and the two properties of the life cycle |
| `ExitCorrect` | `ExitIsReal`, if no I/O fails and the shell keeps its terminal | `ReapInv`: a live shell holds the slave, so EOF means that it has ended; retention and leaving the loop mean dead |
| `KeptCorrect` | `KeptUntilReaped`, under the same assumptions | from `ReapInv`: every way out of the loop is a dead session |
| `RegistryProofs!TableCorrect` | `TableIsRunning` | inductive with `TypeOK` |
| `CapCorrect` | `CapHeld` | `TableCap` on the table, carried over to the actors, of which there is one for each entry (`RunningFinite`) |
| `RegistryProofs!ExitCorrect` | `ExitsOnlyIdle` | `SeenOne`: past the first loop a session has existed |
| `SessionStreamProofs!StreamCorrect`, `StatusCorrect`, `ExitFinalCorrect` | `StreamIntact`, `StatusInSync`, `ExitFinal`, faults and odd shells included | `StreamInv` (below) |
| `SessionRefinementProofs!ContractCorrect` | `ImplementsContract`: the initial states map to one of the contract, each step to a step of it or to a stutter | from `StreamInv`: a lemma per step of the contract says which change of queues and sockets it is, a lemma per action which of them it takes |
| `ListingProofs!ListCorrect` | `ListComplete` | `ListInv`: every session LIST has taken is in one of three places (to ask, asked, answered) or has ended, and a dropped receiver is of an actor that has ended |
| `ConnectionProofs!StreamConservedCorrect`, `RejectsCorrect`, `BufferCorrect`, `ActsCorrect` | `StreamConserved`, `RejectsOnlyBad`, `BufferBounded`, `ActsAsAsked` | `ConnInv` (below) |
| `HandoffProofs!OneServes`, `Reachable`, `LaunchesSucceed` | `OneUnlessStray`, `ServingReachable`, `NoLaunchFails`, clean exits and kills included | `LockInv`: without `stray` all that use a lockfile have the same one open, so there is one lock, one process behind it, and the socket is what it left |
| `ReplayProofs!ReplayIsFull`, `ReplayIsCapped`, `ReplayIsQuiet` | `ReplayFull`, `ReplayCapped`, `ReplayQuiet`, for all well-formed output | `EngineOk` (below), for output of any length, any watermark and any number of chunks |

The conditions are needed: `unlinked_lock` is a counterexample to `OneDaemon` without
`stray`, a shell that closes its terminal is one to `ExitCorrect`, and `replay_sgr` is one
to `ReplayCapped` without `sound`. A chunk is not sound only when it begins in the
middle of a terminator, in a state that `build_serialized` has no words for, or after a
RIS that left the sticky state behind, which are the divergences above; in what
`ReplayEngine` models, nothing else makes a replay wrong.

The stream. None of the three properties is inductive: a frame that is queued now
is read later, by a client that is no longer the viewer, and an Attach that waits in
the command channel brings a queue that has to be empty. `StreamInv` has three parts.
`TypeOK`. `QueueInv`: an Attach is in the channel at most once for a connection, which
until then has no frames and has received nothing. `PipeInv`: of each connection
the pipeline, which is what the socket has followed by the queue, is `Sound` (its
intervals join, EXIT is last and the session's), and of the viewer it also ends at
`fed`, with the status last sent and, when the session is dead, with the EXIT. The
lemmas say what a push, a replay, the writer and a close do to a pipeline; that
`push_status` may leave out a STATUS is right because the viewer's last STATUS and
`last_status` are equal.

The connection. Which bytes are left cannot be said by concatenating the frames that
are left, because reasoning about that needs induction at every step. `StreamConserved` says it
byte by byte: the first byte begins the next frame, behind a byte of a frame comes
the next one of it, behind the last the first of the frame that follows, and
the bytes end where `sent` ends. `ConnInv` adds what a step needs: each byte lies in
its whole frame (`FrameAt`), wherever the buffer ends; the buffer holds less than a
frame when the next step is a read, from which `BufferBounded` follows; and the part
of the connection that reads is the one the first frame asked for, with no CLOSE
behind it, from which `ActsAsAsked` does.

The replay. The properties compare terminals that have read all of the output with
ones that have read the data of the chunks, so they rest on two recursions: `Reads`
over bytes and `FlattenSeq` over chunks. Induction is proved as a fact about sets of
naturals (`NatSets`, from the well-foundedness of <), and from it the equations that
all else uses: what reading `s \o u` is (`ReadsBytes`), what a replay becomes when the
open chunk grows (`ReplayExtend`) or a chunk is added (`ReplayAppend`).
`SerializeRestores` is the fact about `build_serialized`: a fresh terminal that reads
the prologue is in the state the sticky state stands for (`Restored`: its modes and
those that begin on, an empty palette), and shows nothing. `EngineOk` relates
the scanner s and the terminal t that has read everything, in four parts. `TypesOk`:
both parsers are at the same place. `SpanOk`: the pending bytes are those of the span
in progress, and do no more to any terminal between sequences than take its parser
there (`Tracks`); after the ESC of a terminator nothing is pending. `StickyOk`: the
cache is empty or up to date, the title and the directory can be read back, and unless
a RIS has made it stale the sticky state agrees with t's as far as it can (`Agrees`: one
of the attributes that are set, the modes but for one that began on, the region,
directory and title). `RingOk`: a fresh terminal that reads the replay from any chunk
has made no noise but the kept queries and is between sequences, or in the terminator
of a kept OSC where t is; from a sound chunk it is in t's state and shows the end of what
t shows, from a sound first chunk all of it (`ChunkOk`). That `Agrees` and `Sayable`
together make the prologue restore t's state is what lets a new chunk join the sound
ones (`Gain`); that a sound chunk stays sound, whatever comes, is the rest. A byte does one of four things
(`StepNone`, `StepKeep`, `StepDrop`, `StepClear`). A kept span adds the same text and
sets the same state in every terminal that was in the same state (`Does`), so all
replays stay in step; `CutOk` adds the chunk that begins with the prologue. `StepSplit`
is the backslash of a split terminator. A 0x9C of its own is two steps (`TerminatorIs`).

Only model-checked are the liveness properties (`AttachSettles`, `DetachedCloses`,
`CloseEnds`, `DeadSessionDropped`, `SelfExitsOnceSeen`, `ListAnswered`, `AllHandled`,
`LaunchReachesDaemon`): fairness and ENABLED are outside the prover's reach.

## What is not modelled

- In the replay engine: device control strings, the parameters of sequences, the
  cursor. In `SessionServer` a replay is an arbitrary suffix and a control sequence
  lies within one unit; `ReplayEngine` says what the suffix is.
- JSON, which is the serde library's.
- `run` and the peer check, paths, arguments, tracing, double fork: straight-line code
  without state that interacts.
- The end of the runtime after `wait_until_idle`: a session that is opened between the
  decision and the end is killed with it (`main.rs:138`).
- Rates and durations: only the order of deadlines and events.
- Pid reuse.

## Plan

1. The registry composed with the shutdown of the runtime.
2. Device control strings in `ReplayEngine`.
