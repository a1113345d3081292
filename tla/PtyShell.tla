------------------------------ MODULE PtyShell ------------------------------
(***************************************************************************)
(* The world behind one session's PTY master: the shell child, whoever     *)
(* else holds the slave side open, the bytes the shell has written, and    *)
(* the input buffer of the terminal.  jftermd/src/pty.rs reaches it only   *)
(* through read, write, killpg, tcgetpgrp and waitpid; the operators of    *)
(* the last section are those calls.                                       *)
(*                                                                         *)
(* Output is counted in units.  A unit is a run of bytes with at most one  *)
(* semantic marker in it, so a unit is text or one of the OSC sequences    *)
(* the engine keeps status from.  A sequence lies within one unit.         *)
(***************************************************************************)
EXTENDS Naturals

CONSTANTS
    MaxOut,     \* bound: units of output the shell writes in a behaviour
    Units,      \* the kinds of unit it may write, a subset of UnitKinds
    InCap,      \* room in the terminal's input buffer, in input units
    Traps,      \* may the shell trap SIGHUP?  a set of Booleans
    JobControl, \* does it move the foreground to its commands' groups?
    TtyCloser,  \* may the shell close its terminal and live on?
    Jobs        \* may it start a background job in a group of its own
                \* that keeps the slave open?

UnitKinds == {"text", "133A", "133C", "133D", "9;4", "9;4;0"}

ASSUME ShellAssumption ==
    /\ MaxOut \in Nat
    /\ Units \subseteq UnitKinds
    /\ InCap \in Nat
    /\ Traps \subseteq BOOLEAN /\ Traps # {}
    /\ JobControl \in BOOLEAN
    /\ TtyCloser \in BOOLEAN
    /\ Jobs \in BOOLEAN

VARIABLES
    proc,     \* "unborn", "alive", "zombie", "reaped", or "leaked": a child
              \* that no Pty owns
    code,     \* how it ended: its own exit, SIGHUP or SIGKILL
    doomed,   \* strongest signal sent to the shell's group so far
    trap,     \* does this shell trap SIGHUP?
    slave,    \* who holds the slave side open
    out,      \* units written to the terminal so far
    emitted,  \* status that the output written so far describes
    busy,     \* does another group own the terminal's foreground?
    inbuf     \* input units waiting in the terminal

shellVars == <<proc, code, doomed, trap, slave, out, emitted, busy, inbuf>>

-----------------------------------------------------------------------------
(* What the engine has learnt from the output: has any OSC 133 been seen,  *)
(* is a command running, is a progress value set?                          *)
EngineStatus == [marking : BOOLEAN, running : BOOLEAN, progress : BOOLEAN]

NoStatus == [marking |-> FALSE, running |-> FALSE, progress |-> FALSE]

\* Sink::osc_dispatch: a sequence of one of these kinds updates StatusCache.
Feed(e, unit) ==
    [marking  |-> e.marking \/ unit \in {"133A", "133C", "133D"},
     running  |-> unit = "133C" \/ (e.running /\ unit # "133D"),
     progress |-> unit = "9;4" \/ (e.progress /\ unit # "9;4;0")]

Codes == {"own", "sighup", "sigkill"}

ShellTypeOK ==
    /\ proc \in {"unborn", "alive", "zombie", "reaped", "leaked"}
    /\ code \in Codes
    /\ doomed \in {"none", "hup", "kill"}
    /\ trap \in BOOLEAN
    /\ slave \subseteq {"shell", "job"}
    /\ out \in 0..MaxOut
    /\ emitted \in EngineStatus
    /\ busy \in BOOLEAN
    /\ inbuf \in 0..InCap

ShellInit ==
    /\ proc = "unborn"
    /\ code = "own"
    /\ doomed = "none"
    /\ trap \in Traps
    /\ slave = {}
    /\ out = 0
    /\ emitted = NoStatus
    /\ busy = FALSE
    /\ inbuf = 0

-----------------------------------------------------------------------------
(* Steps of the shell and its jobs.                                        *)

ShellWrites(unit) ==
    /\ proc = "alive" /\ "shell" \in slave
    /\ out < MaxOut
    /\ out' = out + 1
    /\ emitted' = Feed(emitted, unit)
    /\ UNCHANGED <<proc, code, doomed, trap, slave, busy, inbuf>>

\* A foreground command starts or ends (job control moves the foreground).
ForegroundMoves ==
    /\ JobControl
    /\ proc = "alive" /\ "shell" \in slave
    /\ busy' = ~busy
    /\ UNCHANGED <<proc, code, doomed, trap, slave, out, emitted, inbuf>>

ShellReads ==
    /\ proc = "alive" /\ "shell" \in slave
    /\ inbuf > 0
    /\ inbuf' = inbuf - 1
    /\ UNCHANGED <<proc, code, doomed, trap, slave, out, emitted, busy>>

JobStarts ==
    /\ Jobs
    /\ proc = "alive" /\ "shell" \in slave
    /\ slave' = slave \cup {"job"}
    /\ UNCHANGED <<proc, code, doomed, trap, out, emitted, busy, inbuf>>

JobEnds ==
    /\ "job" \in slave
    /\ slave' = slave \ {"job"}
    /\ UNCHANGED <<proc, code, doomed, trap, out, emitted, busy, inbuf>>

ShellClosesTty ==
    /\ TtyCloser
    /\ proc = "alive" /\ "shell" \in slave
    /\ slave' = slave \ {"shell"}
    /\ UNCHANGED <<proc, code, doomed, trap, out, emitted, busy, inbuf>>

(* The shell ends: its descriptors close and its status becomes waitable.  *)
(* Between the two the reap loop only spins, so they are one step here.    *)
(* The terminal loses its foreground group: what tcgetpgrp tells the       *)
(* master from then on is left open.                                       *)
Ends(how) ==
    /\ proc = "alive"
    /\ proc' = "zombie"
    /\ code' = how
    /\ slave' = slave \ {"shell"}
    /\ busy' \in BOOLEAN
    /\ UNCHANGED <<doomed, trap, out, emitted, inbuf>>

ShellExits == Ends("own")

SignalKills ==
    \/ doomed = "kill" /\ Ends("sigkill")
    \/ doomed = "hup" /\ ~trap /\ Ends("sighup")

ShellNext ==
    \/ \E unit \in Units : ShellWrites(unit)
    \/ ForegroundMoves
    \/ ShellReads
    \/ JobStarts
    \/ JobEnds
    \/ ShellClosesTty
    \/ ShellExits
    \/ SignalKills

-----------------------------------------------------------------------------
(* The calls pty.rs makes.                                                 *)

\* Pty::spawn: forkpty; the child is its own group leader on return.
Spawn ==
    /\ proc' = "alive"
    /\ slave' = {"shell"}
    /\ UNCHANGED <<code, doomed, trap, out, emitted, busy, inbuf>>

(* Pty::spawn fails.  Before forkpty there is no child.  After it, when    *)
(* set_nonblocking or set_cloexec fails, there is one and no Pty: the      *)
(* master closes, which hangs the terminal up, and nobody kills or reaps   *)
(* the child.                                                              *)
SpawnFails ==
    /\ proc' \in {"unborn", "leaked"}
    /\ UNCHANGED <<code, doomed, trap, slave, out, emitted, busy, inbuf>>

\* Pty::hangup.  A group that is gone, or already killed, is not affected.
Hangup ==
    /\ doomed' = IF doomed = "none" THEN "hup" ELSE doomed
    /\ UNCHANGED <<proc, code, trap, slave, out, emitted, busy, inbuf>>

\* Pty::kill.
Kill ==
    /\ doomed' = "kill"
    /\ UNCHANGED <<proc, code, trap, slave, out, emitted, busy, inbuf>>

\* write(2) on the non-blocking master takes what fits: less than n on a
\* short write, nothing on EAGAIN.
Taken(n) == IF n <= InCap - inbuf THEN n ELSE InCap - inbuf

\* Pty::write_input.
WriteInput(n) ==
    /\ inbuf' = inbuf + Taken(n)
    /\ UNCHANGED <<proc, code, doomed, trap, slave, out, emitted, busy>>

\* read(2) on the master reports EOF (EIO) once nobody holds the slave.
AtEof == slave = {}

\* The code unwrap_or gives when no terminal status was seen in time.
Fabricated == "zero"

\* Fault: a status that is not there at once is given up.
ReapOnce(status) ==
    /\ status = Fabricated
    /\ UNCHANGED <<proc, code, doomed, trap, slave, out, emitted, busy, inbuf>>

(* Pty::reap_blocking, then unwrap_or(0).  A waitable child is reaped and  *)
(* its status returned.  A child alive for the whole second of polling is  *)
(* given up with the fabricated 0 (one that ends within that second is the *)
(* same as one that ended just before it).                                 *)
ReapBlocking(status) ==
    /\ \/ proc = "zombie" /\ status = code /\ proc' = "reaped"
       \/ proc = "alive" /\ status = Fabricated /\ UNCHANGED proc
    /\ UNCHANGED <<code, doomed, trap, slave, out, emitted, busy, inbuf>>

\* Drop for Pty, if there is one: SIGKILL the group, then wait for the child.
DropPty ==
    /\ proc' = IF proc \in {"unborn", "leaked"} THEN proc ELSE "reaped"
    /\ code' = IF proc = "alive" THEN "sigkill" ELSE code
    /\ slave' = slave \ {"shell"}
    /\ busy' = FALSE /\ inbuf' = 0
    /\ UNCHANGED <<doomed, trap, out, emitted>>

=============================================================================
