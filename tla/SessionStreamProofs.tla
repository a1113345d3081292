------------------------- MODULE SessionStreamProofs ------------------------
(***************************************************************************)
(* What a client is sent, for any set of connections, any capacities of    *)
(* the queues, any amount of output, failing I/O and odd shells included:  *)
(* StreamIntact, StatusInSync and ExitFinal.                               *)
(*                                                                         *)
(* The three rest on one inductive invariant in two parts.  QueueInv is    *)
(* about who may be sent anything at all: a connection is attached once,   *)
(* so that its replay meets an empty pipeline.  PipeInv is about what is   *)
(* in the pipelines, and says of the client's that the actor is up to date *)
(* with it.                                                                *)
(***************************************************************************)
EXTENDS SessionServerProofs

-----------------------------------------------------------------------------
(* A pipeline is a queue q behind what has been received, r.               *)

EndOf(q, r) == IF q = <<>> THEN r.upto ELSE q[Len(q)].to

StatusAt(q) == {i \in 1..Len(q) : q[i].ty = "status"}

StatusOf(q, r) ==
    IF StatusAt(q) = {} THEN r.st
    ELSE {q[i].st : i \in {j \in StatusAt(q) : \A k \in StatusAt(q) : k <= j}}

HasExit(q) == \E i \in 1..Len(q) : q[i].ty = "exit"

ExitOf(q, r) == IF HasExit(q) THEN q[Len(q)].code ELSE r.exit

Chained(q) == \A i \in 1..(Len(q) - 1) : q[i].to = q[i + 1].from

(* No gap, and nothing but EXIT behind an EXIT, with the status x the      *)
(* session is dead with.                                                   *)
Sound(q, r, x) ==
    /\ Chained(q)
    /\ q # <<>> /\ r.upto # NoPos => q[1].from = r.upto
    /\ \A i \in 1..Len(q) : q[i].ty = "exit" =>
          /\ x # NoExit /\ q[i].code = x
          /\ \A j \in i..Len(q) : q[j].ty = "exit"
    /\ r.exit # NoExit =>
          /\ r.exit = x
          /\ \A j \in 1..Len(q) : q[j].ty = "exit"

-----------------------------------------------------------------------------
(* Is an Attach of c in the command channel?                               *)
Waiting(c) ==
    \E i \in 1..Len(cmdq) : cmdq[i].ty = "attach" /\ cmdq[i].conn = c

OneAttach ==
    \A i, j \in 1..Len(cmdq) :
        /\ cmdq[i].ty = "attach" /\ cmdq[j].ty = "attach"
        /\ cmdq[i].conn = cmdq[j].conn
        => i = j

Unserved(c) == conn[c] \in {"idle", "binding"} \/ Waiting(c)

(* A connection sends one Attach, and nothing is sent to it before the     *)
(* actor takes that; what goes to a connection whose writer has ended goes *)
(* nowhere.                                                                *)
QueueInv ==
    /\ \A c \in Conns : c \in rx <=> conn[c] \in {"binding", "bound", "eof"}
    /\ OneAttach
    /\ \A c \in Conns : conn[c] \in {"idle", "binding"} => ~Waiting(c)
    /\ \A c \in Conns : Unserved(c) => client # c
    /\ \A c \in Conns : (c \notin rx \/ Unserved(c)) =>
                           oq[c] = <<>> /\ rcv[c] = Nothing

(* The pipelines are sound, the client's holds everything, and last_status *)
(* is what the client was told, which is how things are.                   *)
PipeInv ==
    /\ fed <= out
    /\ \A c \in Conns : Sound(oq[c], rcv[c], exit)
    /\ \A c \in Conns : Viewing(c) =>
          /\ EndOf(oq[c], rcv[c]) = fed
          /\ StatusOf(oq[c], rcv[c]) = {EffectiveStatus(eng, pollRunning)}
          /\ ExitOf(oq[c], rcv[c]) = exit
    /\ client # NoConn => lastStatus = {EffectiveStatus(eng, pollRunning)}

-----------------------------------------------------------------------------
(* What the actor sends in one go: data from lo to hi, then at most one    *)
(* STATUS, which says e, then at most one EXIT, which says x.              *)

(* A batch that may have been cut off.                                     *)
Batch(s, lo, hi, e, x) ==
    /\ s \in Seq(Frame)
    /\ Chained(s)
    /\ s # <<>> => s[1].from = lo
    /\ \A i \in 1..Len(s) : s[i].to \in lo..hi
    /\ \A i \in 1..Len(s) : s[i].ty = "status" => s[i].st = e
    /\ \A i, j \in 1..Len(s) : s[i].ty = "status" /\ s[j].ty = "status" => i = j
    /\ \A i \in 1..Len(s) : s[i].ty = "exit" => s[i].code = x /\ i = Len(s)

(* A batch that reaches hi.                                                *)
WholeBatch(s, lo, hi, e, x) ==
    /\ Batch(s, lo, hi, e, x)
    /\ s = <<>> => lo = hi
    /\ s # <<>> => s[Len(s)].to = hi

(* What try_send takes of a batch is a batch.                              *)
LEMMA PrefixIsBatch ==
    ASSUME NEW s, NEW lo, NEW hi, NEW e, NEW x, Batch(s, lo, hi, e, x),
           NEW n \in 0..Len(s)
    PROVE  /\ Batch(SubSeq(s, 1, n), lo, hi, e, x)
           /\ Len(SubSeq(s, 1, n)) = n
           /\ n < Len(s) => ~HasExit(SubSeq(s, 1, n))
<1> DEFINE p == SubSeq(s, 1, n)
<1>1. s \in Seq(Frame) /\ Len(s) \in Nat
  BY DEF Batch
<1>2. /\ p \in Seq(Frame) /\ Len(p) = n
      /\ \A i \in 1..n : p[i] = s[i]
  BY <1>1, SubSeqProperties
<1>3. n = 0 <=> p = <<>>
  BY <1>2, EmptySeq
<1> HIDE DEF p
<1>4. Chained(p)
  BY <1>1, <1>2 DEF Batch, Chained
<1>5. p # <<>> => p[1].from = lo
  BY <1>1, <1>2, <1>3 DEF Batch
<1>6. n < Len(s) => ~HasExit(p)
  BY <1>1, <1>2 DEF Batch, HasExit
<1>7. /\ \A i \in 1..n : p[i].to \in lo..hi
      /\ \A i \in 1..n : p[i].ty = "status" => p[i].st = e
      /\ \A i, j \in 1..n : p[i].ty = "status" /\ p[j].ty = "status" => i = j
      /\ \A i \in 1..n : p[i].ty = "exit" => p[i].code = x /\ i = n
  <2>1. \A i \in 1..n : i \in 1..Len(s) /\ p[i] = s[i]
    BY <1>1, <1>2
  <2>2. \A i \in 1..n : p[i].ty = "exit" => p[i].code = x /\ i = n
    BY <1>1, <2>1 DEF Batch
  <2> QED
    BY <2>1, <2>2 DEF Batch
<1>8. Batch(p, lo, hi, e, x)
  BY <1>2, <1>4, <1>5, <1>7 DEF Batch
<1> QED
  BY <1>2, <1>6, <1>8 DEF p

(* frame_data: the frames lie end to end from lo to hi.                    *)
LEMMA DataIsWhole ==
    ASSUME NEW lo \in 0..MaxOut, NEW hi \in 0..MaxOut, lo <= hi, NEW e, NEW x
    PROVE  /\ WholeBatch(FrameData(lo, hi), lo, hi, e, x)
           /\ StatusAt(FrameData(lo, hi)) = {} /\ ~HasExit(FrameData(lo, hi))
           /\ Len(FrameData(lo, hi)) = (hi - lo + FrameMax - 1) \div FrameMax
<1> DEFINE n == (hi - lo + FrameMax - 1) \div FrameMax
           s == FrameData(lo, hi)
<1> USE ShellAssumption, ActorAssumption DEF ShellAssumption, ActorAssumption
<1>1. n \in Nat /\ n * FrameMax <= hi - lo + FrameMax - 1 /\ hi - lo <= n * FrameMax
  OBVIOUS
<1>2. s \in Seq(Frame)
  BY FrameDataType
<1>3. Len(s) = n /\ \A i \in 1..n : s[i] =
         DataFrame(lo + (i - 1) * FrameMax, AtMost(lo + i * FrameMax, hi))
  BY <1>1, <1>2 DEF FrameData
<1>4. ASSUME NEW i \in 1..n
      PROVE  /\ (i - 1) * FrameMax < hi - lo
             /\ (i - 1) * FrameMax \in Nat
             /\ i * FrameMax = (i - 1) * FrameMax + FrameMax
  <2>1. (i - 1) * FrameMax < hi - lo
    BY SplitStart
  <2> QED
    BY <1>1, <2>1
<1> HIDE DEF n, s
<1>5. ASSUME NEW i \in 1..n
      PROVE  /\ s[i].ty = "data"
             /\ s[i].from = lo + (i - 1) * FrameMax
             /\ s[i].to = AtMost(lo + i * FrameMax, hi)
  BY <1>3 DEF DataFrame
<1>6. Chained(s)
  <2> SUFFICES ASSUME NEW i \in 1..(n - 1)
               PROVE  s[i].to = s[i + 1].from
    BY <1>3 DEF Chained
  <2>1. i \in 1..n /\ i + 1 \in 1..n /\ (i + 1) - 1 = i
    BY <1>1
  <2>2. i * FrameMax < hi - lo /\ i * FrameMax \in Nat
    BY <1>4, <2>1
  <2> QED
    BY <1>5, <2>1, <2>2 DEF AtMost
<1>7. ASSUME NEW i \in 1..n PROVE s[i].to \in lo..hi
  BY <1>4, <1>5 DEF AtMost
<1>8. s = <<>> <=> n = 0
  BY <1>2, <1>3, EmptySeq
<1>9. s # <<>> => s[1].from = lo /\ s[Len(s)].to = hi
  <2> SUFFICES ASSUME n # 0 PROVE s[1].from = lo /\ s[n].to = hi
    BY <1>3, <1>8
  <2>1. 1 \in 1..n /\ n \in 1..n
    BY <1>1
  <2>2. s[1].from = lo + (1 - 1) * FrameMax /\ (1 - 1) * FrameMax = 0
    BY <1>5, <2>1
  <2>3. s[n].to = AtMost(lo + n * FrameMax, hi) /\ n * FrameMax \in Nat
    BY <1>1, <1>5, <2>1
  <2>4. s[n].to = hi
    BY <1>1, <2>3 DEF AtMost
  <2> QED
    BY <2>2, <2>4
<1>10. s = <<>> => lo = hi
  BY <1>1, <1>8
<1>11. StatusAt(s) = {} /\ ~HasExit(s)
  BY <1>3, <1>5 DEF StatusAt, HasExit
<1>12. WholeBatch(s, lo, hi, e, x)
  BY <1>2, <1>3, <1>5, <1>6, <1>7, <1>9, <1>10 DEF WholeBatch, Batch
<1> QED
  BY <1>3, <1>11, <1>12 DEF s, n

(* One more frame at the end of a batch without EXIT.                      *)
LEMMA BatchGrows ==
    ASSUME NEW s, NEW lo \in 0..MaxOut, NEW hi \in 0..MaxOut, lo <= hi,
           NEW e, NEW x,
           WholeBatch(s, lo, hi, e, x), ~HasExit(s),
           NEW f \in Frame, f.from = hi, f.to = hi,
           \/ f.ty = "status" /\ f.st = e /\ StatusAt(s) = {}
           \/ f.ty = "exit" /\ f.code = x
    PROVE  /\ WholeBatch(s \o <<f>>, lo, hi, e, x)
           /\ Len(s \o <<f>>) = Len(s) + 1
           /\ (s \o <<f>>)[Len(s) + 1] = f
           /\ \A i \in 1..Len(s) : (s \o <<f>>)[i] = s[i]
<1> DEFINE t == s \o <<f>>
           n == Len(s)
<1>1. s \in Seq(Frame) /\ n \in Nat /\ <<f>> \in Seq(Frame)
  BY DEF WholeBatch, Batch
<1>2. /\ t \in Seq(Frame) /\ Len(t) = n + 1 /\ t[n + 1] = f
      /\ \A i \in 1..n : t[i] = s[i]
  BY <1>1, ConcatProperties
<1>3. s = <<>> <=> n = 0
  BY <1>1, EmptySeq
<1>4. t # <<>>
  BY <1>1, <1>2, EmptySeq
<1> HIDE DEF t
<1>5. Chained(t)
  <2> SUFFICES ASSUME NEW i \in 1..n PROVE t[i].to = t[i + 1].from
    BY <1>1, <1>2 DEF Chained
  <2>1. CASE i < n
    BY <1>1, <1>2, <2>1 DEF WholeBatch, Batch, Chained
  <2>2. CASE i = n
    BY <1>1, <1>2, <1>3, <2>2 DEF WholeBatch
  <2> QED
    BY <1>1, <2>1, <2>2
<1>6. t[1].from = lo
  BY <1>1, <1>2, <1>3 DEF WholeBatch, Batch
<1>7. \A i \in 1..(n + 1) : i \in 1..n \/ i = n + 1
  BY <1>1
<1>8. \A i \in 1..(n + 1) : t[i].to \in lo..hi
  BY <1>2, <1>7 DEF WholeBatch, Batch
<1>9. \A i \in 1..(n + 1) : t[i].ty = "status" => t[i].st = e
  BY <1>2, <1>7 DEF WholeBatch, Batch
<1>10. \A i, j \in 1..(n + 1) : t[i].ty = "status" /\ t[j].ty = "status" => i = j
  BY <1>2, <1>7 DEF WholeBatch, Batch, StatusAt
<1>11. \A i \in 1..(n + 1) : t[i].ty = "exit" => t[i].code = x /\ i = n + 1
  BY <1>2, <1>7 DEF HasExit
<1>12. WholeBatch(t, lo, hi, e, x)
  BY <1>2, <1>4, <1>5, <1>6, <1>8, <1>9, <1>10, <1>11 DEF WholeBatch, Batch
<1> QED
  BY <1>2, <1>12 DEF t

(* Data, then STATUS or not, then EXIT or not: the form of every message   *)
(* of the actor.                                                           *)
LEMMA MessageIsWhole ==
    ASSUME NEW lo \in 0..MaxOut, NEW hi \in 0..MaxOut, lo <= hi,
           NEW e \in Snapshot, NEW x \in Statuses,
           NEW st, st = <<>> \/ st = <<StatusFrame(hi, e)>>,
           NEW ex, ex = <<>> \/ ex = <<ExitFrame(hi, x)>>
    PROVE  /\ WholeBatch(FrameData(lo, hi) \o st \o ex, lo, hi, e, x)
           /\ StatusAt(FrameData(lo, hi) \o st \o ex) = {} <=> st = <<>>
           /\ HasExit(FrameData(lo, hi) \o st \o ex) <=> ex # <<>>
           /\ Len(FrameData(lo, hi)) <= Len(FrameData(lo, hi) \o st \o ex)
           /\ Len(FrameData(lo, hi) \o st \o ex) <= Len(FrameData(lo, hi)) + 2
<1> DEFINE d == FrameData(lo, hi)
           u == d \o st
           m == u \o ex
           f == StatusFrame(hi, e)
           g == ExitFrame(hi, x)
<1>1. /\ WholeBatch(d, lo, hi, e, x) /\ StatusAt(d) = {} /\ ~HasExit(d)
      /\ d \in Seq(Frame) /\ Len(d) \in Nat
  <2>1. WholeBatch(d, lo, hi, e, x) /\ StatusAt(d) = {} /\ ~HasExit(d)
    BY DataIsWhole
  <2>2. d \in Seq(Frame)
    BY FrameDataType
  <2> HIDE DEF d
  <2> QED
    BY <2>1, <2>2
<1>2. /\ f \in Frame /\ f.ty = "status" /\ f.st = e /\ f.from = hi /\ f.to = hi
  BY FrameTypes DEF StatusFrame
<1>3. /\ g \in Frame /\ g.ty = "exit" /\ g.code = x /\ g.from = hi /\ g.to = hi
  BY FrameTypes DEF ExitFrame
<1>4. st = <<>> \/ st = <<f>>
  OBVIOUS
<1>5. ex = <<>> \/ ex = <<g>>
  OBVIOUS
<1>6. <<f>> # <<>> /\ <<g>> # <<>>
  OBVIOUS
<1> HIDE DEF d, f, g
<1>7. /\ WholeBatch(u, lo, hi, e, x) /\ ~HasExit(u)
      /\ StatusAt(u) = {} <=> st = <<>>
      /\ u \in Seq(Frame) /\ Len(u) \in Nat
      /\ Len(d) <= Len(u) /\ Len(u) <= Len(d) + 1
  <2>1. CASE st = <<>>
    <3>1. u = d
      BY <1>1, <2>1, ConcatEmptySeq
    <3> HIDE DEF u
    <3> QED
      BY <1>1, <2>1, <3>1
  <2>2. CASE st = <<f>>
    <3>1. /\ WholeBatch(u, lo, hi, e, x) /\ Len(u) = Len(d) + 1
          /\ u[Len(d) + 1] = f
          /\ \A i \in 1..Len(d) : u[i] = d[i]
      BY <1>1, <1>2, <2>2, BatchGrows
    <3> HIDE DEF u
    <3>2. u \in Seq(Frame)
      BY <3>1 DEF WholeBatch, Batch
    <3>3. \A i \in 1..Len(u) : i \in 1..Len(d) \/ i = Len(d) + 1
      BY <1>1, <3>1
    <3>4. ~HasExit(u)
      BY <1>1, <1>2, <3>1, <3>3 DEF HasExit
    <3>5. Len(d) + 1 \in StatusAt(u)
      BY <1>1, <1>2, <3>1 DEF StatusAt
    <3> QED
      BY <1>1, <1>6, <2>2, <3>1, <3>2, <3>4, <3>5
  <2> QED
    BY <1>4, <2>1, <2>2
<1> HIDE DEF u
<1>8. /\ WholeBatch(m, lo, hi, e, x)
      /\ StatusAt(m) = StatusAt(u)
      /\ HasExit(m) <=> ex # <<>>
      /\ Len(u) <= Len(m) /\ Len(m) <= Len(u) + 1 /\ Len(m) \in Nat
  <2>1. CASE ex = <<>>
    <3>1. m = u
      BY <1>7, <2>1, ConcatEmptySeq
    <3> HIDE DEF m
    <3> QED
      BY <1>7, <2>1, <3>1
  <2>2. CASE ex = <<g>>
    <3>1. /\ WholeBatch(m, lo, hi, e, x) /\ Len(m) = Len(u) + 1
          /\ m[Len(u) + 1] = g
          /\ \A i \in 1..Len(u) : m[i] = u[i]
      BY <1>3, <1>7, <2>2, BatchGrows
    <3> HIDE DEF m
    <3>2. HasExit(m)
      BY <1>3, <1>7, <3>1 DEF HasExit
    <3>3. StatusAt(m) = StatusAt(u)
      BY <1>3, <1>7, <3>1 DEF StatusAt
    <3> QED
      BY <1>6, <1>7, <2>2, <3>1, <3>2, <3>3
  <2> QED
    BY <1>5, <2>1, <2>2
<1>9. m = FrameData(lo, hi) \o st \o ex
  BY DEF m, u, d
<1> HIDE DEF m
<1>10. Len(d) <= Len(m) /\ Len(m) <= Len(d) + 2
  BY <1>1, <1>7, <1>8
<1> QED
  BY <1>7, <1>8, <1>9, <1>10 DEF d

-----------------------------------------------------------------------------
(* A batch joins a pipeline.                                               *)

(* A batch that starts where the pipeline ends leaves it sound, unless it  *)
(* puts something else behind an EXIT.                                     *)
LEMMA SoundJoins ==
    ASSUME NEW q \in Seq(Frame), NEW r \in Received, NEW x, Sound(q, r, x),
           NEW s, NEW lo, NEW hi, NEW e, Batch(s, lo, hi, e, x),
           q # <<>> \/ r.upto # NoPos => EndOf(q, r) = lo,
           HasExit(s) => x # NoExit,
           HasExit(q) \/ r.exit # NoExit =>
               \A i \in 1..Len(s) : s[i].ty = "exit"
    PROVE  Sound(q \o s, r, x)
<1> DEFINE t == q \o s
           n == Len(q)
           k == Len(s)
<1>1. s \in Seq(Frame) /\ n \in Nat /\ k \in Nat
  BY DEF Batch
<1>2. /\ t \in Seq(Frame) /\ Len(t) = n + k
      /\ \A i \in 1..n : t[i] = q[i]
      /\ \A i \in 1..k : t[n + i] = s[i]
  BY <1>1, ConcatProperties
<1>3. (q = <<>> <=> n = 0) /\ (s = <<>> <=> k = 0)
  BY <1>1, EmptySeq
<1> HIDE DEF t, n, k
<1>4. Chained(t)
  <2> SUFFICES ASSUME NEW i \in 1..((n + k) - 1) PROVE t[i].to = t[i + 1].from
    BY <1>1, <1>2 DEF Chained
  <2>1. CASE i < n
    <3>1. t[i] = q[i] /\ t[i + 1] = q[i + 1]
      BY <1>1, <1>2, <2>1
    <3> QED
      BY <1>1, <2>1, <3>1 DEF Sound, Chained, n
  <2>2. CASE i = n
    <3>1. 1 \in 1..k /\ i \in 1..n /\ s # <<>> /\ q # <<>>
      BY <1>1, <1>3, <2>2
    <3>2. t[i] = q[n] /\ t[i + 1] = s[1]
      BY <1>2, <2>2, <3>1
    <3> QED
      BY <3>1, <3>2 DEF Batch, EndOf, n
  <2>3. CASE i > n
    <3> DEFINE j == i - n
    <3>1. j \in 1..k /\ j + 1 \in 1..k /\ i = n + j /\ i + 1 = n + (j + 1)
      BY <1>1, <2>3
    <3>2. t[i] = s[j] /\ t[i + 1] = s[j + 1]
      BY <1>2, <3>1
    <3> QED
      BY <1>1, <3>1, <3>2 DEF Batch, Chained, k
  <2> QED
    BY <1>1, <2>1, <2>2, <2>3
<1>5. t # <<>> /\ r.upto # NoPos => t[1].from = r.upto
  <2>1. CASE q # <<>>
    BY <1>1, <1>2, <1>3, <2>1 DEF Sound
  <2>2. CASE q = <<>> /\ s # <<>>
    <3>1. t[1] = s[1]
      BY <1>1, <1>2, <1>3, <2>2
    <3> QED
      BY <2>2, <3>1 DEF Batch, EndOf
  <2>3. CASE q = <<>> /\ s = <<>>
    BY <1>2, <1>3, <2>3, EmptySeq
  <2> QED
    BY <2>1, <2>2, <2>3
<1>6. ASSUME NEW i \in 1..Len(t), t[i].ty = "exit"
      PROVE  /\ x # NoExit /\ t[i].code = x
             /\ \A j \in i..Len(t) : t[j].ty = "exit"
  <2>1. CASE i <= n
    <3>1. t[i] = q[i] /\ i \in 1..n
      BY <1>1, <1>2, <2>1
    <3>2. x # NoExit /\ q[i].code = x /\ \A j \in i..n : q[j].ty = "exit"
      BY <1>6, <3>1 DEF Sound, n
    <3>3. \A j \in 1..k : s[j].ty = "exit"
      BY <1>6, <3>1 DEF HasExit, n, k
    <3>4. ASSUME NEW j \in i..(n + k) PROVE t[j].ty = "exit"
      <4>1. CASE j <= n
        BY <1>1, <1>2, <3>1, <3>2, <4>1
      <4>2. CASE j > n
        <5>1. j - n \in 1..k /\ j = n + (j - n)
          BY <1>1, <3>1, <4>2
        <5> QED
          BY <1>2, <3>3, <5>1
      <4> QED
        BY <1>1, <3>1, <4>1, <4>2
    <3> QED
      BY <1>2, <3>1, <3>2, <3>4
  <2>2. CASE i > n
    <3>1. i - n \in 1..k /\ i = n + (i - n)
      BY <1>1, <1>2, <2>2
    <3>2. t[i] = s[i - n]
      BY <1>2, <3>1
    <3>3. s[i - n].code = x /\ i - n = k /\ x # NoExit
      BY <1>6, <3>1, <3>2 DEF Batch, HasExit, k
    <3>4. i = Len(t)
      BY <1>1, <1>2, <3>1, <3>3
    <3>5. \A j \in i..Len(t) : j = i
      BY <3>4
    <3> QED
      BY <1>6, <3>2, <3>3, <3>5
  <2> QED
    BY <1>1, <1>2, <2>1, <2>2
<1>7. ASSUME r.exit # NoExit
      PROVE  r.exit = x /\ \A j \in 1..Len(t) : t[j].ty = "exit"
  <2>1. /\ r.exit = x /\ \A j \in 1..n : q[j].ty = "exit"
        /\ \A j \in 1..k : s[j].ty = "exit"
    BY <1>7 DEF Sound, n, k
  <2>2. \A j \in 1..(n + k) : j \in 1..n \/ (j - n \in 1..k /\ j = n + (j - n))
    BY <1>1
  <2> QED
    BY <1>2, <2>1, <2>2
<1>8. Sound(t, r, x)
  BY <1>4, <1>5, <1>6, <1>7 DEF Sound
<1> QED
  BY <1>8 DEF t

(* Where the pipeline ends then.                                           *)
LEMMA EndJoins ==
    ASSUME NEW q \in Seq(Frame), NEW r, NEW s \in Seq(Frame)
    PROVE  EndOf(q \o s, r) = IF s = <<>> THEN EndOf(q, r) ELSE s[Len(s)].to
<1>1. CASE s = <<>>
  BY <1>1, ConcatEmptySeq
<1>2. CASE s # <<>>
  <2>1. Len(s) \in Nat \ {0} /\ Len(q) \in Nat
    BY <1>2, EmptySeq
  <2>2. /\ q \o s \in Seq(Frame) /\ Len(q \o s) = Len(q) + Len(s)
        /\ (q \o s)[Len(q) + Len(s)] = s[Len(s)]
    BY <2>1, ConcatProperties
  <2>3. q \o s # <<>>
    BY <2>1, <2>2, EmptySeq
  <2> QED
    BY <1>2, <2>2, <2>3 DEF EndOf
<1> QED
  BY <1>1, <1>2

(* Its last STATUS is that of the batch, if that has one.                  *)
LEMMA StatusJoins ==
    ASSUME NEW q \in Seq(Frame), NEW r,
           NEW s, NEW lo, NEW hi, NEW e, NEW x, Batch(s, lo, hi, e, x)
    PROVE  StatusOf(q \o s, r) = IF StatusAt(s) = {} THEN StatusOf(q, r) ELSE {e}
<1> DEFINE t == q \o s
           n == Len(q)
           k == Len(s)
           last(u) == {j \in StatusAt(u) : \A l \in StatusAt(u) : l <= j}
<1>1. s \in Seq(Frame) /\ n \in Nat /\ k \in Nat
  BY DEF Batch
<1>2. /\ Len(t) = n + k
      /\ \A i \in 1..n : t[i] = q[i]
      /\ \A i \in 1..k : t[n + i] = s[i]
  BY <1>1, ConcatProperties
<1> HIDE DEF t, n, k
<1>3. \A i \in 1..n : i \in StatusAt(t) <=> i \in StatusAt(q)
  BY <1>1, <1>2 DEF StatusAt, n
<1>4. \A i \in 1..k : n + i \in StatusAt(t) <=> i \in StatusAt(s)
  BY <1>1, <1>2 DEF StatusAt, k
<1>5. /\ StatusAt(t) \subseteq 1..(n + k) /\ StatusAt(q) \subseteq 1..n
      /\ StatusAt(s) \subseteq 1..k
  BY <1>2 DEF StatusAt, n, k
<1>8. \A l \in 1..(n + k) : l \in 1..n \/ (l - n \in 1..k /\ l = n + (l - n))
  BY <1>1
<1>6. CASE StatusAt(s) = {}
  <2>1. StatusAt(t) = StatusAt(q)
    BY <1>1, <1>3, <1>4, <1>5, <1>6, <1>8
  <2>2. \A i \in StatusAt(q) : t[i] = q[i]
    BY <1>2, <1>5
  <2> QED
    BY <1>6, <2>1, <2>2 DEF StatusOf, t
<1>7. CASE StatusAt(s) # {}
  <2>1. PICK i \in 1..k : i \in StatusAt(s)
    BY <1>5, <1>7
  <2>2. s[i].st = e /\ \A l \in StatusAt(s) : l = i
    BY <1>5, <2>1 DEF StatusAt, Batch, k
  <2>3. n + i \in StatusAt(t) /\ t[n + i].st = e
    BY <1>1, <1>2, <1>4, <2>1, <2>2
  <2>4. \A l \in StatusAt(t) : l <= n + i
    <3> SUFFICES ASSUME NEW l \in StatusAt(t) PROVE l <= n + i
      OBVIOUS
    <3>1. l \in 1..(n + k)
      BY <1>5
    <3>2. CASE l - n \in 1..k /\ l = n + (l - n)
      BY <1>1, <1>4, <2>2, <3>2
    <3>3. CASE l \in 1..n
      BY <1>1, <2>1, <3>3
    <3> QED
      BY <1>8, <3>1, <3>2, <3>3
  <2>5. last(t) = {n + i}
    <3>1. \A l \in last(t) : l = n + i
      <4> SUFFICES ASSUME NEW l \in last(t) PROVE l = n + i
        OBVIOUS
      <4>1. l \in StatusAt(t) /\ n + i <= l /\ l <= n + i
        BY <2>3, <2>4
      <4> QED
        BY <1>1, <1>5, <2>1, <4>1
    <3> QED
      BY <2>3, <2>4, <3>1
  <2>6. StatusOf(t, r) = {t[l].st : l \in last(t)}
    BY <2>3 DEF StatusOf
  <2> QED
    BY <1>7, <2>3, <2>5, <2>6 DEF t
<1> QED
  BY <1>6, <1>7

(* Its EXIT is that of the batch, if that has one.                         *)
LEMMA ExitJoins ==
    ASSUME NEW q \in Seq(Frame), NEW r, NEW x, Sound(q, r, x),
           NEW s, NEW lo, NEW hi, NEW e, Batch(s, lo, hi, e, x),
           HasExit(q) => \A i \in 1..Len(s) : s[i].ty = "exit"
    PROVE  ExitOf(q \o s, r) = IF HasExit(s) THEN x ELSE ExitOf(q, r)
<1> DEFINE t == q \o s
           n == Len(q)
           k == Len(s)
<1>1. s \in Seq(Frame) /\ n \in Nat /\ k \in Nat
  BY DEF Batch
<1>2. /\ Len(t) = n + k
      /\ \A i \in 1..n : t[i] = q[i]
      /\ \A i \in (n + 1)..(n + k) : t[i] = s[i - n]
  BY <1>1, ConcatProperties
<1>3. (q = <<>> <=> n = 0) /\ (s = <<>> <=> k = 0)
  BY <1>1, EmptySeq
<1>4. CASE HasExit(s)
  <2>1. s[k].ty = "exit" /\ s[k].code = x /\ k \in 1..k
    BY <1>1, <1>4 DEF HasExit, Batch
  <2>2. t[n + k] = s[k] /\ n + k \in 1..Len(t)
    BY <1>1, <1>2, <2>1
  <2>3. HasExit(t)
    BY <2>1, <2>2 DEF HasExit
  <2> QED
    BY <1>2, <1>4, <2>1, <2>2, <2>3 DEF ExitOf
<1>5. CASE ~HasExit(s) /\ s = <<>>
  BY <1>5, ConcatEmptySeq
<1>6. CASE ~HasExit(s) /\ s # <<>>
  <2>1. ~HasExit(q)
    <3>1. 1 \in 1..k
      BY <1>1, <1>3, <1>6
    <3> QED
      BY <1>6, <3>1 DEF HasExit
  <2>2. ~HasExit(t)
    BY <1>1, <1>2, <1>6, <2>1 DEF HasExit
  <2> QED
    BY <1>6, <2>1, <2>2 DEF ExitOf
<1> QED
  BY <1>4, <1>5, <1>6

(* The writer puts the first frame of the queue on the socket: the         *)
(* pipeline as a whole stays what it is.                                   *)
Written(f, r) ==
    [upto |-> f.to,
     st   |-> IF f.ty = "status" THEN {f.st} ELSE r.st,
     exit |-> IF f.ty = "exit" THEN f.code ELSE r.exit]

(* writer_task takes a frame from the queue to the socket: what the client *)
(* is going to have is the same.                                           *)
LEMMA WriterMoves ==
    ASSUME NEW q \in Seq(Frame), q # <<>>, NEW r, NEW x,
           x \in Statuses \cup {NoExit}, Sound(q, r, x)
    PROVE  /\ Sound(Tail(q), Written(Head(q), r), x)
           /\ EndOf(Tail(q), Written(Head(q), r)) = EndOf(q, r)
           /\ StatusOf(Tail(q), Written(Head(q), r)) = StatusOf(q, r)
           /\ ExitOf(Tail(q), Written(Head(q), r)) = ExitOf(q, r)
<1> DEFINE t == Tail(q)
           f == q[1]
           w == Written(f, r)
           n == Len(q)
<1>1. n \in Nat \ {0} /\ Head(q) = f
  BY EmptySeq
<1>2. /\ t \in Seq(Frame) /\ Len(t) = n - 1
      /\ \A i \in 1..(n - 1) : t[i] = q[i + 1]
  BY HeadTailProperties
<1>3. /\ w.upto = f.to
      /\ w.st = IF f.ty = "status" THEN {f.st} ELSE r.st
      /\ w.exit = IF f.ty = "exit" THEN f.code ELSE r.exit
  BY DEF Written
<1> HIDE DEF t, w, n
<1>4. t = <<>> <=> n = 1
  BY <1>1, <1>2, EmptySeq
<1>5. /\ \A i \in 1..(n - 1) : q[i].to = q[i + 1].from
      /\ \A i \in 1..n : q[i].ty = "exit" =>
            /\ x # NoExit /\ q[i].code = x
            /\ \A j \in i..n : q[j].ty = "exit"
      /\ r.exit # NoExit =>
            /\ r.exit = x
            /\ \A j \in 1..n : q[j].ty = "exit"
  BY DEF Sound, Chained, n
<1>6. Sound(t, w, x)
  <2>1. Chained(t)
    <3> SUFFICES ASSUME NEW i \in 1..((n - 1) - 1) PROVE t[i].to = t[i + 1].from
      BY <1>1, <1>2 DEF Chained
    <3>1. i \in 1..(n - 1) /\ i + 1 \in 1..(n - 1)
      BY <1>1
    <3> QED
      BY <1>2, <1>5, <3>1
  <2>2. t # <<>> => t[1].from = w.upto
    <3> SUFFICES ASSUME t # <<>> PROVE t[1].from = w.upto
      OBVIOUS
    <3>1. 1 \in 1..(n - 1)
      BY <1>1, <1>4
    <3> QED
      BY <1>2, <1>3, <1>5, <3>1
  <2>3. ASSUME NEW i \in 1..(n - 1), t[i].ty = "exit"
        PROVE  /\ x # NoExit /\ t[i].code = x
               /\ \A j \in i..(n - 1) : t[j].ty = "exit"
    <3>1. i + 1 \in 1..n /\ q[i + 1].ty = "exit" /\ t[i] = q[i + 1]
      BY <1>1, <1>2, <2>3
    <3>2. \A j \in (i + 1)..n : q[j].ty = "exit"
      BY <1>5, <3>1
    <3>3. \A j \in i..(n - 1) : j \in 1..(n - 1) /\ j + 1 \in (i + 1)..n
      BY <1>1
    <3> QED
      BY <1>2, <1>5, <3>1, <3>2, <3>3
  <2>4. ASSUME w.exit # NoExit
        PROVE  w.exit = x /\ \A j \in 1..(n - 1) : t[j].ty = "exit"
    <3>1. \A j \in 1..(n - 1) : j + 1 \in 1..n
      BY <1>1
    <3>2. 1 \in 1..n
      BY <1>1
    <3>3. CASE f.ty = "exit"
      BY <1>2, <1>3, <1>5, <3>1, <3>2, <3>3
    <3>4. CASE f.ty # "exit"
      BY <1>2, <1>3, <1>5, <2>4, <3>1, <3>2, <3>4
    <3> QED
      BY <3>3, <3>4
  <2> QED
    BY <1>2, <2>1, <2>2, <2>3, <2>4 DEF Sound
<1>7. EndOf(t, w) = EndOf(q, r)
  <2>1. CASE n = 1
    BY <1>4, <1>3, <2>1 DEF EndOf, n
  <2>2. CASE n # 1
    <3>1. t[n - 1] = q[n] /\ t # <<>>
      BY <1>1, <1>2, <1>4, <2>2
    <3> QED
      BY <1>2, <3>1 DEF EndOf, n
  <2> QED
    BY <2>1, <2>2
<1>8. StatusOf(t, w) = StatusOf(q, r)
  <2> DEFINE last(u) == {j \in StatusAt(u) : \A l \in StatusAt(u) : l <= j}
  <2>1. \A i \in 1..(n - 1) : i \in StatusAt(t) <=> i + 1 \in StatusAt(q)
    BY <1>1, <1>2 DEF StatusAt, n
  <2>2. StatusAt(t) \subseteq 1..(n - 1) /\ StatusAt(q) \subseteq 1..n
    BY <1>2 DEF StatusAt, n
  <2>3. 1 \in StatusAt(q) <=> f.ty = "status"
    BY <1>1 DEF StatusAt, n
  <2>4. \A l \in 1..n : l = 1 \/ (l - 1 \in 1..(n - 1) /\ l = (l - 1) + 1)
    BY <1>1
  <2>5. CASE StatusAt(t) = {}
    <3>1. StatusAt(q) \subseteq {1}
      BY <2>1, <2>2, <2>4, <2>5
    <3>2. CASE f.ty = "status"
      <4>1. last(q) = {1}
        BY <2>3, <3>1, <3>2
      <4>2. StatusOf(q, r) = {q[l].st : l \in last(q)}
        BY <2>3, <3>2 DEF StatusOf
      <4> QED
        BY <1>3, <2>5, <3>2, <4>1, <4>2 DEF StatusOf
    <3>3. CASE f.ty # "status"
      <4>1. StatusAt(q) = {}
        BY <2>3, <3>1, <3>3
      <4> QED
        BY <1>3, <2>5, <3>3, <4>1 DEF StatusOf
    <3> QED
      BY <3>2, <3>3
  <2>6. CASE StatusAt(t) # {}
    <3>1. PICK k \in 1..(n - 1) : k \in StatusAt(t)
      BY <2>2, <2>6
    <3>2. StatusAt(q) # {}
      BY <2>1, <3>1
    <3>3. ASSUME NEW i \in last(t)
          PROVE  i + 1 \in last(q) /\ q[i + 1].st = t[i].st
      <4>1. i \in 1..(n - 1) /\ i + 1 \in StatusAt(q) /\ t[i] = q[i + 1]
        BY <1>2, <2>1, <2>2
      <4>2. ASSUME NEW l \in StatusAt(q) PROVE l <= i + 1
        <5>1. CASE l = 1
          BY <4>1, <5>1
        <5>2. CASE l - 1 \in 1..(n - 1) /\ l = (l - 1) + 1
          <6>1. l - 1 \in StatusAt(t)
            BY <2>1, <5>2
          <6>2. l - 1 <= i
            BY <6>1
          <6> QED
            BY <4>1, <5>2, <6>2
        <5> QED
          BY <2>2, <2>4, <5>1, <5>2
      <4> QED
        BY <4>1, <4>2
    <3>4. ASSUME NEW i \in last(q)
          PROVE  i - 1 \in last(t) /\ t[i - 1].st = q[i].st
      <4>1. k + 1 \in StatusAt(q) /\ i \in StatusAt(q)
        BY <2>1, <3>1
      <4>2. k + 1 <= i /\ i \in 1..n
        BY <2>2, <4>1
      <4>3. i - 1 \in 1..(n - 1) /\ i = (i - 1) + 1
        BY <1>1, <4>2
      <4>4. i - 1 \in StatusAt(t) /\ t[i - 1] = q[i]
        BY <1>2, <2>1, <4>1, <4>3
      <4>5. ASSUME NEW l \in StatusAt(t) PROVE l <= i - 1
        <5>1. l \in 1..(n - 1) /\ l + 1 \in StatusAt(q)
          BY <2>1, <2>2
        <5>2. l + 1 <= i
          BY <5>1
        <5> QED
          BY <4>2, <5>1, <5>2
      <4> QED
        BY <4>4, <4>5
    <3> HIDE DEF last
    <3>5. {t[i].st : i \in last(t)} = {q[i].st : i \in last(q)}
      BY <3>3, <3>4
    <3> QED
      BY <2>6, <3>2, <3>5 DEF StatusOf, last
  <2> QED
    BY <2>5, <2>6
<1>9. ExitOf(t, w) = ExitOf(q, r)
  <2>1. HasExit(q) => q[n].ty = "exit" /\ q[n].code = x
    <3> SUFFICES ASSUME NEW i \in 1..n, q[i].ty = "exit"
                 PROVE  q[n].ty = "exit" /\ q[n].code = x
      BY DEF HasExit, n
    <3>1. n \in 1..n /\ n \in i..n
      BY <1>1
    <3> QED
      BY <1>5, <3>1
  <2>2. CASE n = 1
    <3>1. ~HasExit(t)
      BY <1>2, <2>2 DEF HasExit
    <3>2. HasExit(q) <=> f.ty = "exit"
      BY <2>2 DEF HasExit, n
    <3> QED
      BY <1>3, <2>2, <3>1, <3>2 DEF ExitOf, n
  <2>3. CASE n # 1
    <3>1. n - 1 \in 1..(n - 1) /\ t[n - 1] = q[n] /\ n \in 1..n
      BY <1>1, <1>2, <2>3
    <3>2. HasExit(q) => HasExit(t)
      BY <1>2, <2>1, <3>1 DEF HasExit
    <3>3. HasExit(t) => HasExit(q)
      <4> SUFFICES ASSUME NEW i \in 1..(n - 1), t[i].ty = "exit" PROVE HasExit(q)
        BY <1>2 DEF HasExit
      <4>1. i + 1 \in 1..n /\ q[i + 1].ty = "exit"
        BY <1>1, <1>2
      <4> QED
        BY <4>1 DEF HasExit, n
    <3>4. f.ty = "exit" => HasExit(q)
      BY <1>1 DEF HasExit, n
    <3> QED
      BY <1>2, <1>3, <3>1, <3>2, <3>3, <3>4 DEF ExitOf, n
  <2> QED
    BY <2>2, <2>3
<1> QED
  BY <1>1, <1>6, <1>7, <1>8, <1>9 DEF t, w

-----------------------------------------------------------------------------
(* The out-queue.                                                          *)

(* Division is monotone.                                                   *)
LEMMA DivMonotone ==
    ASSUME NEW a \in Nat, NEW b \in Nat, NEW k \in Nat \ {0}, a <= b
    PROVE  a \div k <= b \div k
<1> DEFINE m == a \div k
           n == b \div k
<1>1. m \in Nat /\ n \in Nat /\ m * k <= a /\ b < n * k + k
  OBVIOUS
<1>2. (n + 1) * k = n * k + k
  BY <1>1
<1>3. n + 1 <= m => (n + 1) * k <= m * k
  BY <1>1, MultMonotone
<1>4. n * k \in Nat /\ m * k \in Nat
  BY <1>1
<1> HIDE DEF m, n
<1>5. ~(n + 1 <= m)
  <2> DEFINE u == m * k
             v == n * k
             y == (n + 1) * k
  <2>1. u <= a /\ b < v + k /\ y = v + k /\ (n + 1 <= m => y <= u) /\ u \in Nat /\ v \in Nat
    BY <1>1, <1>2, <1>3, <1>4
  <2> HIDE DEF u, v, y
  <2> QED
    BY <2>1
<1> QED
  BY <1>1, <1>5 DEF m, n

(* A replay with its STATUS and EXIT fits an empty out-queue.              *)
LEMMA ReplayFits ==
    ASSUME NEW lo \in 0..MaxOut, NEW hi \in 0..MaxOut, lo <= hi
    PROVE  Len(FrameData(lo, hi)) + 2 <= OutQ
<1> USE ShellAssumption, ActorAssumption DEF ShellAssumption, ActorAssumption
<1> DEFINE a == hi - lo + FrameMax - 1
           b == MaxOut + FrameMax - 1
<1>1. a \in Nat /\ b \in Nat /\ a <= b
  OBVIOUS
<1>2. a \div FrameMax <= b \div FrameMax
  BY <1>1, DivMonotone
<1>3. Len(FrameData(lo, hi)) = a \div FrameMax
  BY DataIsWhole
<1>4. a \div FrameMax \in Nat /\ b \div FrameMax \in Nat
  BY <1>1
<1> HIDE DEF a
<1> QED
  BY <1>2, <1>3, <1>4

(* What try_send takes: all that fits, the beginning of what does not, and *)
(* nothing without a receiver.                                             *)
LEMMA SentIs ==
    ASSUME ActorTypeOK, NEW c \in Conns, NEW m \in Seq(Frame)
    PROVE  /\ \E n \in 0..Len(m) : /\ Sent(c, m) = SubSeq(m, 1, n)
                                   /\ ~Fits(c, m) => n < Len(m)
           /\ Fits(c, m) => Sent(c, m) = m
           /\ c \notin rx => Sent(c, m) = <<>>
<1> DEFINE n == AtMost(Len(m), Room(c))
<1>1. Len(m) \in Nat /\ Len(oq[c]) \in Nat /\ Len(oq[c]) <= OutQ /\ OutQ \in Nat
  BY ActorAssumption DEF ActorTypeOK, ActorAssumption
<1>2. Room(c) \in Nat /\ (c \notin rx => Room(c) = 0)
  BY <1>1 DEF Room
<1>3. /\ n \in 0..Len(m) /\ (Fits(c, m) => n = Len(m))
      /\ ~Fits(c, m) => n < Len(m)
      /\ c \notin rx => n = 0
  BY <1>1, <1>2 DEF AtMost, Fits
<1>4. Sent(c, m) = SubSeq(m, 1, n)
  BY DEF Sent
<1> HIDE DEF n
<1>5. SubSeq(m, 1, 0) = <<>> /\ SubSeq(m, 1, Len(m)) = m
  BY <1>1, SubSeqEmpty, SubSeqFull
<1> QED
  BY <1>3, <1>4, <1>5

(* push_or_drop touches no out-queue but that of a client who is there.    *)
LEMMA PushTouches ==
    ASSUME ActorTypeOK, NEW m \in Seq(Frame), PushOrDrop(m)
    PROVE  /\ client' \in {client, NoConn}
           /\ client' = client /\ client # NoConn => Fits(client, m)
           /\ client # NoConn /\ Fits(client, m) => client' = client
           /\ \A c \in Conns : c # client \/ c \notin rx => oq'[c] = oq[c]
           /\ client \in Conns => oq'[client] = oq[client] \o Sent(client, m)
<1>1. CASE client = NoConn
  BY <1>1, ActorAssumption DEF PushOrDrop, ActorAssumption
<1>2. CASE client # NoConn
  <2>1. client \in Conns /\ oq \in [Conns -> Seq(Frame)] /\ oq[client] \in Seq(Frame)
    BY <1>2 DEF ActorTypeOK
  <2>2. /\ oq' = [oq EXCEPT ![client] = oq[client] \o Sent(client, m)]
        /\ client' = IF Fits(client, m) THEN client ELSE NoConn
    BY <1>2 DEF PushOrDrop
  <2>3. client \notin rx => oq[client] \o Sent(client, m) = oq[client]
    BY <2>1, SentIs, ConcatEmptySeq
  <2> QED
    BY <1>2, <2>1, <2>2, <2>3
<1> QED
  BY <1>1, <1>2

-----------------------------------------------------------------------------
(* The command channel.                                                    *)

(* Taking a command adds no Attach, and an Attach that is taken was the    *)
(* only one of its connection.                                             *)
LEMMA TakeKeeps ==
    ASSUME ActorTypeOK, cmdq # <<>>, cmdq' = Tail(cmdq), OneAttach
    PROVE  /\ OneAttach'
           /\ \A c : Waiting(c)' => Waiting(c)
           /\ \A c : Head(cmdq).ty = "attach" /\ Head(cmdq).conn = c =>
                     Waiting(c) /\ ~Waiting(c)'
<1> DEFINE q == cmdq
           t == cmdq'
           n == Len(q)
<1>1. n \in Nat \ {0} /\ Head(q) = q[1]
  BY EmptySeq DEF ActorTypeOK
<1>2. Len(t) = n - 1 /\ \A i \in 1..(n - 1) : t[i] = q[i + 1]
  BY HeadTailProperties DEF ActorTypeOK
<1>3. \A i \in 1..(n - 1) : i + 1 \in 1..n /\ i + 1 # 1
  BY <1>1
<1>4. 1 \in 1..n
  BY <1>1
<1>5. \A i, j \in 1..n : q[i].ty = "attach" /\ q[j].ty = "attach" /\ q[i].conn = q[j].conn
                         => i = j
  BY DEF OneAttach
<1> HIDE DEF n
<1>6. OneAttach'
  <2> SUFFICES ASSUME NEW i \in 1..(n - 1), NEW j \in 1..(n - 1),
                      t[i].ty = "attach", t[j].ty = "attach", t[i].conn = t[j].conn
               PROVE  i = j
    BY <1>2 DEF OneAttach
  <2>1. i + 1 = j + 1
    BY <1>2, <1>3, <1>5
  <2> QED
    BY <1>1, <2>1
<1>7. ASSUME NEW c, Waiting(c)'
      PROVE  \E i \in 1..n : i # 1 /\ q[i].ty = "attach" /\ q[i].conn = c
  BY <1>2, <1>3, <1>7 DEF Waiting
<1>8. \A c : Waiting(c)' => Waiting(c)
  BY <1>7 DEF Waiting, n
<1>9. ASSUME NEW c, Head(q).ty = "attach", Head(q).conn = c
      PROVE  Waiting(c) /\ ~Waiting(c)'
  <2>1. Waiting(c)
    BY <1>1, <1>4, <1>9 DEF Waiting, n
  <2>2. ~Waiting(c)'
    BY <1>1, <1>4, <1>5, <1>7, <1>9
  <2> QED
    BY <2>1, <2>2
<1> QED
  BY <1>6, <1>8, <1>9

(* Sending one adds at most its own.                                       *)
LEMMA SendKeeps ==
    ASSUME ActorTypeOK, NEW cmd \in Command, cmdq' = Append(cmdq, cmd), OneAttach,
           cmd.ty = "attach" => ~Waiting(cmd.conn)
    PROVE  /\ OneAttach'
           /\ \A c : Waiting(c)' => Waiting(c) \/ (cmd.ty = "attach" /\ cmd.conn = c)
<1> DEFINE t == cmdq'
           n == Len(cmdq)
<1>1. n \in Nat /\ cmdq \in Seq(Command)
  BY DEF ActorTypeOK
<1>2. /\ Len(t) = n + 1 /\ t[n + 1] = cmd
      /\ \A i \in 1..n : t[i] = cmdq[i]
  BY <1>1, AppendProperties
<1>3. \A i \in 1..(n + 1) : i \in 1..n \/ i = n + 1
  BY <1>1
<1>4. /\ \A i, j \in 1..n :
             /\ cmdq[i].ty = "attach" /\ cmdq[j].ty = "attach"
             /\ cmdq[i].conn = cmdq[j].conn
             => i = j
      /\ cmd.ty = "attach" =>
            ~\E i \in 1..n : cmdq[i].ty = "attach" /\ cmdq[i].conn = cmd.conn
  BY DEF OneAttach, Waiting
<1>5. OneAttach'
  <2> SUFFICES ASSUME NEW i \in 1..(n + 1), NEW j \in 1..(n + 1),
                      t[i].ty = "attach", t[j].ty = "attach", t[i].conn = t[j].conn
               PROVE  i = j
    BY <1>2 DEF OneAttach
  <2> HIDE DEF n
  <2> QED
    BY <1>2, <1>3, <1>4
<1>6. \A c : Waiting(c)' => Waiting(c) \/ (cmd.ty = "attach" /\ cmd.conn = c)
  BY <1>2, <1>3 DEF Waiting
<1> QED
  BY <1>5, <1>6

-----------------------------------------------------------------------------
(* What the arms of actor_loop send.                                       *)

(* The readable arm and the poll, as far as the client can tell: a live    *)
(* session pushes a message m that brings it up to date.                   *)
Serves(m, e, x) ==
    /\ exit = NoExit
    /\ fed \in 0..MaxOut /\ fed' \in 0..MaxOut /\ fed <= fed'
    /\ e = EffectiveStatus(eng', pollRunning') /\ e \in Snapshot
    /\ x \in Statuses
    /\ WholeBatch(m, fed, fed', e, x)
    /\ HasExit(m) <=> exit' # NoExit
    /\ exit' # NoExit => exit' = x
    /\ client # NoConn /\ Fits(client, m) => lastStatus' = {e}
    /\ client # NoConn /\ Fits(client, m) /\ StatusAt(m) = {} => lastStatus = {e}
    /\ PushOrDrop(m)
    /\ UNCHANGED <<cmdq, rx>>

(* The readable arm: new output, STATUS on a change, EXIT at the end.      *)
LEMMA DrainServes ==
    ASSUME ActorTypeOK, fed <= out, Drain
    PROVE  \E m, e, x : Serves(m, e, x) /\ fed' = out' /\ out' = out
<1> DEFINE data     == FrameData(fed, out)
           attached == client # NoConn /\ Fits(client, data)
           e        == EffectiveStatus(emitted, pollRunning')
           x        == IF AtEof THEN exit' ELSE "own"
           st == IF attached /\ StatusDue(e) THEN <<StatusFrame(out, e)>>
                 ELSE <<>>
           ex == IF AtEof THEN <<ExitFrame(out, exit')>> ELSE <<>>
           m  == data \o st \o ex
<1>1. /\ fed \in 0..MaxOut /\ out \in 0..MaxOut
      /\ emitted \in EngineStatus
      /\ eng' = emitted /\ fed' = out /\ exit = NoExit
  BY DEF ActorTypeOK, ShellTypeOK, Drain, SessionDrain, Readable, Dead
<1>2. out' = out
  BY DEF Drain, SessionDrain, ReapBlocking, shellVars
<1>3. /\ AtEof => exit' \in Statuses
      /\ ~AtEof => exit' = NoExit
  BY <1>1 DEF Drain, SessionDrain
<1>4. x \in Statuses /\ NoExit \notin Statuses
  BY <1>3 DEF Statuses, Codes, Fabricated, NoExit
<1>5. pollRunning' \in BOOLEAN
  BY DrainTypes DEF ActorTypeOK
<1>6. e = EffectiveStatus(eng', pollRunning') /\ e \in Snapshot
  BY <1>1, <1>5, SnapshotType
<1>7. /\ st = <<>> \/ st = <<StatusFrame(out, e)>>
      /\ ex = <<>> \/ ex = <<ExitFrame(out, x)>>
  OBVIOUS
<1>8. /\ WholeBatch(m, fed, out, e, x)
      /\ StatusAt(m) = {} <=> st = <<>>
      /\ HasExit(m) <=> ex # <<>>
      /\ Len(data) <= Len(m)
  <2> HIDE DEF st, ex, e, x
  <2> QED
    BY <1>1, <1>4, <1>6, <1>7, MessageIsWhole, SMTT(20)
<1>9. PushOrDrop(m)
  BY DEF Drain, SessionDrain
<1>10. HasExit(m) <=> AtEof
  BY <1>8
<1>11. ASSUME client # NoConn, Fits(client, m)
       PROVE  attached
  <2>1. data \in Seq(Frame)
    BY <1>1, FrameDataType
  <2> HIDE DEF m, data
  <2>2. Len(m) \in Nat /\ Len(data) \in Nat
    BY <1>8, <2>1 DEF WholeBatch, Batch
  <2>3. client \in Conns
    BY <1>11 DEF ActorTypeOK
  <2>4. Room(client) \in Int
    <3>1. Len(oq[client]) \in Nat
      BY <2>3 DEF ActorTypeOK
    <3> QED
      BY <3>1, ActorAssumption DEF Room, ActorAssumption
  <2> QED
    BY <1>8, <1>11, <2>2, <2>4 DEF Fits
<1>12. attached => lastStatus' = {e}
  BY DEF Drain, SessionDrain
<1>13. attached /\ StatusAt(m) = {} => lastStatus = {e}
  BY <1>8 DEF StatusDue
<1>14. UNCHANGED <<cmdq, rx>>
  BY DEF Drain, SessionDrain
<1>15. HasExit(m) <=> exit' # NoExit
  BY <1>3, <1>4, <1>10
<1>16. exit' # NoExit => exit' = x
  BY <1>3
<1> HIDE DEF m, e, x, attached
<1>17. Serves(m, e, x)
  BY <1>1, <1>4, <1>6, <1>8, <1>9, <1>11, <1>12, <1>13, <1>14, <1>15, <1>16 DEF Serves
<1> QED
  BY <1>1, <1>2, <1>17

(* The poll: STATUS on a change.                                           *)
LEMMA PollServes ==
    ASSUME ActorTypeOK, PollTick
    PROVE  \E m, e, x : Serves(m, e, x) /\ UNCHANGED <<fed, out, exit>>
<1> DEFINE e == EffectiveStatus(eng, busy)
           x == "own"
           m == IF StatusDue(e) THEN <<StatusFrame(fed, e)>> ELSE <<>>
<1>1. /\ fed \in 0..MaxOut /\ exit = NoExit
      /\ UNCHANGED <<fed, out, exit, eng, cmdq, rx>> /\ pollRunning' = busy
      /\ busy \in BOOLEAN /\ eng \in EngineStatus
  BY DEF ActorTypeOK, ShellTypeOK, PollTick, PollGate, Dead, shellVars
<1>2. x \in Statuses
  BY DEF Statuses, Codes
<1>3. e = EffectiveStatus(eng', pollRunning') /\ e \in Snapshot
  BY <1>1, SnapshotType
<1>4. PushOrDrop(m)
  BY DEF PollTick
<1>5. lastStatus' = {e}
  BY DEF PollTick
<1>6. StatusAt(m) = {} => lastStatus = {e}
  <2>1. CASE StatusDue(e)
    <3>1. 1 \in StatusAt(m)
      BY <2>1 DEF StatusAt, StatusFrame
    <3> QED
      BY <3>1
  <2>2. CASE ~StatusDue(e)
    BY <2>2 DEF StatusDue
  <2> QED
    BY <2>1, <2>2
<1>7. ~HasExit(m)
  BY DEF HasExit, StatusFrame
<1>8. WholeBatch(m, fed, fed', e, x)
  <2>1. StatusFrame(fed, e) \in Frame
    BY <1>1, <1>3, FrameTypes
  <2>2. CASE StatusDue(e)
    <3> DEFINE f == StatusFrame(fed, e)
    <3>1. f.from = fed /\ f.to = fed /\ f.ty = "status" /\ f.st = e
      BY DEF StatusFrame
    <3>2. m = <<f>> /\ Len(m) = 1 /\ m[1] = f /\ m \in Seq(Frame)
      BY <2>1, <2>2
    <3> HIDE DEF f, e, m
    <3> QED
      BY <1>1, <3>1, <3>2 DEF WholeBatch, Batch, Chained
  <2>3. CASE ~StatusDue(e)
    BY <1>1, <2>3 DEF WholeBatch, Batch, Chained
  <2> QED
    BY <2>2, <2>3
<1> HIDE DEF m, e, x
<1>9. Serves(m, e, x)
  BY <1>1, <1>2, <1>3, <1>4, <1>5, <1>6, <1>7, <1>8 DEF Serves
<1> QED
  BY <1>1, <1>9

(* attach_client: a message from the start of the replay on.               *)
Replays(c, m, lo, e, x) ==
    /\ fed \in 0..MaxOut /\ lo \in 0..MaxOut /\ lo <= fed
    /\ e = EffectiveStatus(eng, pollRunning') /\ e \in Snapshot
    /\ lastStatus' = {e}
    /\ x \in Statuses /\ (exit # NoExit => x = exit)
    /\ WholeBatch(m, lo, fed, e, x)
    /\ StatusAt(m) # {}
    /\ HasExit(m) <=> exit # NoExit
    /\ Len(m) <= OutQ
    /\ oq' = [oq EXCEPT ![c] = oq[c] \o Sent(c, m)]
    /\ client' = c
    /\ UNCHANGED <<fed, out, eng, exit, rx>>

(* The Attach arm of actor_loop sends a replay, a STATUS and, from a dead  *)
(* session, an EXIT.                                                       *)
LEMMA AttachReplays ==
    ASSUME ActorTypeOK, TakeAttach
    PROVE  \E m, lo, e, x : Replays(Head(cmdq).conn, m, lo, e, x)
<1> DEFINE c  == Head(cmdq).conn
           e  == EffectiveStatus(eng, pollRunning')
           x  == IF Dead THEN exit ELSE "own"
           st == <<StatusFrame(fed, e)>>
           ex == IF Dead THEN <<ExitFrame(fed, exit)>> ELSE <<>>
<1>1. /\ fed \in 0..MaxOut
      /\ UNCHANGED <<fed, out, eng, exit, rx>> /\ client' = c /\ lastStatus' = {e}
  BY DEF ActorTypeOK, TakeAttach, AttachClient, shellVars
<1>2. pollRunning' \in BOOLEAN /\ eng \in EngineStatus
  BY AttachTypes DEF ActorTypeOK
<1>3. e \in Snapshot
  BY <1>2, SnapshotType
<1>4. x \in Statuses /\ (exit # NoExit => x = exit)
  BY DEF Dead, ActorTypeOK, Statuses, Codes
<1>5. PICK lo \in 0..fed :
        oq' = [oq EXCEPT ![c] = oq[c] \o Sent(c, FrameData(lo, fed) \o st \o ex)]
  BY DEF TakeAttach, AttachClient, Replay
<1>6. lo \in 0..MaxOut /\ lo <= fed
  BY <1>1, <1>5, ShellAssumption DEF ShellAssumption
<1> DEFINE m == FrameData(lo, fed) \o st \o ex
<1>7. /\ st = <<>> \/ st = <<StatusFrame(fed, e)>>
      /\ ex = <<>> \/ ex = <<ExitFrame(fed, x)>>
  OBVIOUS
<1>8. st # <<>> /\ (ex # <<>> <=> Dead)
  OBVIOUS
<1>9. /\ WholeBatch(m, lo, fed, e, x)
      /\ StatusAt(m) = {} <=> st = <<>>
      /\ HasExit(m) <=> ex # <<>>
      /\ Len(m) <= Len(FrameData(lo, fed)) + 2
  <2> HIDE DEF st, ex, e, x
  <2>1. /\ fed \in 0..MaxOut /\ lo \in 0..MaxOut /\ lo <= fed
        /\ e \in Snapshot /\ x \in Statuses
        /\ st = <<>> \/ st = <<StatusFrame(fed, e)>>
        /\ ex = <<>> \/ ex = <<ExitFrame(fed, x)>>
    BY <1>1, <1>3, <1>4, <1>6, <1>7
  <2> QED
    BY <2>1, MessageIsWhole, SMTT(20)
<1>10. Len(m) <= OutQ
  <2>1. Len(m) \in Nat /\ Len(FrameData(lo, fed)) \in Nat
    BY <1>1, <1>6, <1>9, FrameDataType DEF WholeBatch, Batch
  <2>2. Len(FrameData(lo, fed)) + 2 <= OutQ
    BY <1>1, <1>6, ReplayFits
  <2> HIDE DEF m
  <2> QED
    BY <1>9, <2>1, <2>2, ActorAssumption DEF ActorAssumption
<1>11. oq' = [oq EXCEPT ![c] = oq[c] \o Sent(c, m)]
  BY <1>5
<1> HIDE DEF m, e, x, st, ex, c
<1>12. Replays(c, m, lo, e, x)
  BY <1>1, <1>3, <1>4, <1>6, <1>8, <1>9, <1>10, <1>11 DEF Replays, Dead, e
<1> QED
  BY <1>12 DEF c

-----------------------------------------------------------------------------
(* QueueInv.                                                               *)

(* A step that takes no Attach, binds nobody and sends at most to a client *)
(* who is there.                                                           *)
LEMMA QueueRests ==
    ASSUME QueueInv, OneAttach', UNCHANGED <<conn, rx, rcv>>,
           client' \in {client, NoConn},
           \A c \in Conns : Waiting(c)' => Waiting(c),
           \A c \in Conns : c # client \/ c \notin rx => oq'[c] = oq[c]
    PROVE  QueueInv'
<1>1. ASSUME NEW c \in Conns
      PROVE  /\ Unserved(c)' => Unserved(c)
             /\ c \in rx' <=> conn'[c] \in {"binding", "bound", "eof"}
             /\ conn'[c] \in {"idle", "binding"} => ~Waiting(c)'
  BY DEF QueueInv, Unserved
<1>2. ASSUME NEW c \in Conns, Unserved(c)' PROVE client' # c
  BY <1>1, <1>2, ActorAssumption DEF QueueInv, ActorAssumption
<1>3. ASSUME NEW c \in Conns, c \notin rx' \/ Unserved(c)'
      PROVE  oq'[c] = <<>> /\ rcv'[c] = Nothing
  BY <1>1, <1>3 DEF QueueInv, Nothing
<1> QED
  BY <1>1, <1>2, <1>3 DEF QueueInv, Nothing

(* The actor's steps.                                                      *)
LEMMA QueueActor ==
    ASSUME ActorTypeOK, fed <= out, QueueInv, ActorNext, UNCHANGED <<conn, rcv>>
    PROVE  QueueInv'
<1>1. OneAttach
  BY DEF QueueInv
<1>2. CASE OpenOk \/ OpenFails \/ RegistrationFails \/ ReadFails \/ GraceExpires
           \/ KillExpires \/ Remove
  <2>1. UNCHANGED <<cmdq, rx, oq, client>>
    BY <1>2 DEF OpenOk, OpenFails, RegistrationFails, ReadFails, GraceExpires,
                KillExpires, Remove, loopVars
  <2> QED
    BY <1>1, <2>1, QueueRests DEF OneAttach, Waiting
<1>3. CASE TakeInput \/ TakeResize \/ TakeInfo
  <2>1. UNCHANGED <<rx, oq, client>> /\ cmdq # <<>> /\ cmdq' = Tail(cmdq)
    BY <1>3 DEF TakeInput, TakeResize, TakeInfo, Take, loopVars
  <2>2. OneAttach' /\ \A c : Waiting(c)' => Waiting(c)
    BY <1>1, <2>1, TakeKeeps
  <2> QED
    BY <2>1, <2>2, QueueRests
<1>4. CASE TakeClose
  <2>1. cmdq # <<>> /\ cmdq' = Tail(cmdq)
    BY <1>4 DEF TakeClose, Take
  <2>2. OneAttach' /\ \A c : Waiting(c)' => Waiting(c)
    BY <1>1, <2>1, TakeKeeps
  <2>3. rx' = rx /\ client' \in {client, NoConn}
    BY <1>4 DEF TakeClose
  <2>4. ASSUME NEW c \in Conns, c # client \/ c \notin rx PROVE oq'[c] = oq[c]
    <3> DEFINE m == <<ExitFrame(fed, exit)>>
    <3>1. CASE Dead /\ client # NoConn
      <4>1. client \in Conns /\ exit \in Statuses /\ fed \in 0..MaxOut
        BY <3>1 DEF ActorTypeOK, Dead
      <4>2. m \in Seq(Frame)
        BY <4>1, FrameTypes
      <4>3. oq' = [oq EXCEPT ![client] = oq[client] \o Sent(client, m)]
        BY <1>4, <3>1 DEF TakeClose
      <4>4. oq \in [Conns -> Seq(Frame)]
        BY DEF ActorTypeOK
      <4> HIDE DEF m
      <4>5. client \notin rx => oq[client] \o Sent(client, m) = oq[client]
        BY <4>1, <4>2, <4>4, SentIs, ConcatEmptySeq
      <4> QED
        BY <2>4, <4>1, <4>3, <4>4, <4>5
    <3>2. CASE ~(Dead /\ client # NoConn)
      BY <1>4, <3>2 DEF TakeClose
    <3> QED
      BY <3>1, <3>2
  <2> QED
    BY <2>2, <2>3, <2>4, QueueRests
<1>5. CASE TakeAttach
  <2> DEFINE a == Head(cmdq).conn
  <2>1. /\ cmdq # <<>> /\ cmdq' = Tail(cmdq) /\ Head(cmdq).ty = "attach"
        /\ rx' = rx /\ client' = a
    BY <1>5 DEF TakeAttach, Take, AttachClient
  <2>2. /\ OneAttach' /\ \A c : Waiting(c)' => Waiting(c)
        /\ \A c : c = a => Waiting(c) /\ ~Waiting(c)'
    BY <1>1, <2>1, TakeKeeps
  <2>3. PICK m, lo, e, x : Replays(a, m, lo, e, x)
    BY <1>5, AttachReplays
  <2>4. /\ oq' = [oq EXCEPT ![a] = oq[a] \o Sent(a, m)]
        /\ m \in Seq(Frame) /\ oq \in [Conns -> Seq(Frame)]
    BY <2>3 DEF Replays, WholeBatch, Batch, ActorTypeOK
  <2> HIDE DEF a
  <2>5. ASSUME NEW c \in Conns, c # a \/ c \notin rx PROVE oq'[c] = oq[c]
    <3>1. c \notin rx => oq[c] \o Sent(c, m) = oq[c]
      BY <2>4, SentIs, ConcatEmptySeq
    <3> QED
      BY <2>4, <2>5, <3>1
  <2>6. ASSUME NEW c \in Conns
        PROVE  /\ Unserved(c)' => Unserved(c) /\ c # a
               /\ c \in rx' <=> conn'[c] \in {"binding", "bound", "eof"}
               /\ conn'[c] \in {"idle", "binding"} => ~Waiting(c)'
    BY <2>1, <2>2 DEF QueueInv, Unserved
  <2>7. ASSUME NEW c \in Conns, c \notin rx' \/ Unserved(c)'
        PROVE  oq'[c] = <<>> /\ rcv'[c] = Nothing
    BY <2>1, <2>5, <2>6, <2>7 DEF QueueInv, Nothing
  <2> QED
    BY <2>1, <2>2, <2>6, <2>7 DEF QueueInv, Nothing
<1>6. CASE Drain \/ PollTick
  <2>1. PICK m, e, x : Serves(m, e, x)
    BY <1>6, DrainServes, PollServes
  <2>2. m \in Seq(Frame) /\ PushOrDrop(m) /\ UNCHANGED <<cmdq, rx>>
    BY <2>1 DEF Serves, WholeBatch, Batch
  <2>3. OneAttach' /\ \A c : Waiting(c)' => Waiting(c)
    BY <1>1, <2>2 DEF OneAttach, Waiting
  <2> QED
    BY <2>2, <2>3, PushTouches, QueueRests
<1>7. CASE Finish
  <2>1. UNCHANGED <<rx, oq>> /\ client' = NoConn /\ Len(cmdq') = 0
    BY <1>7 DEF Finish
  <2>2. OneAttach' /\ \A c : ~Waiting(c)'
    BY <2>1 DEF OneAttach, Waiting
  <2> QED
    BY <2>1, <2>2, QueueRests
<1> QED
  BY <1>2, <1>3, <1>4, <1>5, <1>6, <1>7 DEF ActorNext

(* The steps of one connection leave the others alone.                     *)
LEMMA ConnLocal ==
    ASSUME TypeOK, NEW c \in Conns, ConnNext(c)
    PROVE  /\ UNCHANGED <<out, fed, eng, exit, client, lastStatus, pollRunning>>
           /\ \A d \in Conns \ {c} :
                 /\ conn'[d] = conn[d] /\ oq'[d] = oq[d] /\ rcv'[d] = rcv[d]
                 /\ d \in rx' <=> d \in rx
<1> USE DEF TypeOK, ActorTypeOK
<1>1. CASE BindExisting(c)
  BY <1>1 DEF BindExisting, shellVars, loopVars
<1>2. CASE SendAttach(c) \/ ReaderSends(c)
  BY <1>2 DEF SendAttach, ReaderSends, shellVars, loopVars
<1>3. CASE AttachRefused(c) \/ Teardown(c)
  BY <1>3 DEF AttachRefused, Teardown, WriterGone, shellVars, loopVars
<1>4. CASE ReaderSendsClose(c) \/ ReaderEnds(c)
  BY <1>4 DEF ReaderSendsClose, ReaderEnds, AfterReader, shellVars, actorVars, loopVars
<1>5. CASE WriterWrites(c)
  BY <1>5 DEF WriterWrites, shellVars, loopVars
<1>6. CASE WriterFails(c) \/ WriterEnds(c)
  BY <1>6 DEF WriterFails, WriterEnds, AfterWriter, WriterGone, shellVars, loopVars
<1> QED
  BY <1>1, <1>2, <1>3, <1>4, <1>5, <1>6 DEF ConnNext

(* What they do to their own: the five ways a connection moves.            *)
LEMMA ConnMoves ==
    ASSUME TypeOK, NEW c \in Conns, ConnNext(c)
    PROVE  \/ /\ conn[c] = "idle" /\ conn'[c] = "binding" /\ c \in rx'
              /\ UNCHANGED <<cmdq, oq, rcv>>
           \/ /\ conn[c] = "binding" /\ conn'[c] = "bound"
              /\ cmdq' = Append(cmdq, Attach(c)) /\ UNCHANGED <<rx, oq, rcv>>
           \/ /\ conn[c] # "idle" /\ conn'[c] \in {"shut", "closed"}
              /\ c \notin rx' /\ oq'[c] = <<>> /\ rcv'[c] = Nothing
              /\ UNCHANGED cmdq
           \/ /\ \/ conn'[c] = conn[c]
                 \/ conn[c] = "bound" /\ conn'[c] = "eof"
                 \/ conn[c] = "shut" /\ conn'[c] = "closed"
              /\ UNCHANGED <<rx, oq, rcv>>
              /\ \/ UNCHANGED cmdq
                 \/ \E cmd \in Command : cmd.ty # "attach" /\ cmdq' = Append(cmdq, cmd)
           \/ /\ conn' = conn /\ rx' = rx /\ cmdq' = cmdq /\ oq[c] # <<>>
              /\ oq'[c] = Tail(oq[c])
              /\ rcv'[c] = Written(Head(oq[c]), rcv[c])
<1> USE DEF TypeOK, ActorTypeOK, ConnStates
<1>1. CASE BindExisting(c)
  BY <1>1 DEF BindExisting
<1>2. CASE SendAttach(c)
  BY <1>2 DEF SendAttach
<1>3. CASE AttachRefused(c) \/ Teardown(c)
  BY <1>3 DEF AttachRefused, Teardown, WriterGone
<1>4. CASE ReaderSends(c)
  <2>1. PICK cmd \in {Input(n) : n \in InputSizes} \cup {Resize} :
               cmdq' = Append(cmdq, cmd)
    BY <1>4 DEF ReaderSends
  <2>2. cmd \in Command /\ cmd.ty # "attach"
    BY CommandTypes, ActorAssumption DEF ActorAssumption, Input, Resize
  <2> QED
    BY <1>4, <2>1, <2>2 DEF ReaderSends
<1>5. CASE ReaderSendsClose(c)
  <2>1. PICK g \in Graces : cmdq' = Append(cmdq, Close(g))
    BY <1>5 DEF ReaderSendsClose
  <2>2. Close(g) \in Command /\ Close(g).ty # "attach"
    BY CommandTypes, ServerAssumption DEF ServerAssumption, Close
  <2>3. \/ conn[c] = "bound" /\ conn'[c] = "eof"
        \/ conn[c] = "shut" /\ conn'[c] = "closed"
    BY <1>5 DEF ReaderSendsClose, ReaderRuns, AfterReader
  <2> QED
    BY <1>5, <2>1, <2>2, <2>3 DEF ReaderSendsClose
<1>6. CASE ReaderEnds(c)
  <2>1. \/ conn[c] = "bound" /\ conn'[c] = "eof"
        \/ conn[c] = "shut" /\ conn'[c] = "closed"
    BY <1>6 DEF ReaderEnds, ReaderRuns, AfterReader
  <2> QED
    BY <1>6, <2>1 DEF ReaderEnds, actorVars
<1>7. CASE WriterWrites(c)
  <2>1. /\ conn' = conn /\ rx' = rx /\ cmdq' = cmdq /\ oq[c] # <<>>
        /\ oq'[c] = Tail(oq[c])
    BY <1>7 DEF WriterWrites
  <2>2. rcv'[c] = Written(Head(oq[c]), rcv[c])
    BY <1>7 DEF WriterWrites, Written
  <2> QED
    BY <2>1, <2>2
<1>8. CASE WriterFails(c) \/ WriterEnds(c)
  <2>1. conn[c] # "idle" /\ conn'[c] \in {"shut", "closed"}
    BY <1>8 DEF WriterFails, WriterEnds, WriterRuns, AfterWriter
  <2>2. c \notin rx' /\ oq'[c] = <<>> /\ rcv'[c] = Nothing /\ UNCHANGED cmdq
    BY <1>8 DEF WriterFails, WriterEnds, WriterGone
  <2> QED
    BY <2>1, <2>2
<1> QED
  BY <1>1, <1>2, <1>3, <1>4, <1>5, <1>6, <1>7, <1>8 DEF ConnNext

(* The steps of a connection keep QueueInv.                                *)
LEMMA QueueConn ==
    ASSUME TypeOK, QueueInv, NEW c \in Conns, ConnNext(c)
    PROVE  QueueInv'
<1> USE DEF QueueInv
<1>0. ActorTypeOK
  BY DEF TypeOK
<1>1. /\ client' = client
      /\ \A d \in Conns \ {c} :
            /\ conn'[d] = conn[d] /\ oq'[d] = oq[d] /\ rcv'[d] = rcv[d]
            /\ d \in rx' <=> d \in rx
  BY ConnLocal
<1>2. SUFFICES
        /\ OneAttach'
        /\ \A d \in Conns \ {c} : Waiting(d)' => Waiting(d)
        /\ c \in rx' <=> conn'[c] \in {"binding", "bound", "eof"}
        /\ conn'[c] \in {"idle", "binding"} => ~Waiting(c)'
        /\ Unserved(c)' => Unserved(c)
        /\ c \notin rx' \/ Unserved(c)' => oq'[c] = <<>> /\ rcv'[c] = Nothing
  <2>1. ASSUME NEW d \in Conns
        PROVE  /\ Unserved(d)' => Unserved(d)
               /\ d \in rx' <=> conn'[d] \in {"binding", "bound", "eof"}
               /\ conn'[d] \in {"idle", "binding"} => ~Waiting(d)'
               /\ d \notin rx' \/ Unserved(d)' => oq'[d] = <<>> /\ rcv'[d] = Nothing
    <3>1. CASE d = c
      BY <1>2, <3>1
    <3>2. CASE d # c
      BY <1>1, <1>2, <3>2 DEF Unserved
    <3> QED
      BY <3>1, <3>2
  <2>2. \A d \in Conns : Unserved(d)' => client' # d
    BY <1>1, <2>1
  <2> QED
    BY <1>2, <2>1, <2>2 DEF Nothing
<1>3. CASE /\ conn[c] = "idle" /\ conn'[c] = "binding" /\ c \in rx'
           /\ UNCHANGED <<cmdq, oq, rcv>>
  BY <1>3 DEF Unserved, Waiting, OneAttach
<1>4. CASE /\ conn[c] = "binding" /\ conn'[c] = "bound"
           /\ cmdq' = Append(cmdq, Attach(c)) /\ UNCHANGED <<rx, oq, rcv>>
  <2>1. Attach(c) \in Command /\ Attach(c).ty = "attach" /\ Attach(c).conn = c
    BY CommandTypes DEF Attach
  <2>2. ~Waiting(c)
    BY <1>4
  <2>3. OneAttach' /\ \A d : Waiting(d)' => Waiting(d) \/ d = c
    BY <1>0, <1>4, <2>1, <2>2, SendKeeps
  <2> QED
    BY <1>4, <2>3 DEF Unserved
<1>5. CASE /\ conn[c] # "idle" /\ conn'[c] \in {"shut", "closed"}
           /\ c \notin rx' /\ oq'[c] = <<>> /\ rcv'[c] = Nothing
           /\ UNCHANGED cmdq
  BY <1>5 DEF Unserved, Waiting, OneAttach
<1>6. CASE /\ \/ conn'[c] = conn[c]
              \/ conn[c] = "bound" /\ conn'[c] = "eof"
              \/ conn[c] = "shut" /\ conn'[c] = "closed"
           /\ UNCHANGED <<rx, oq, rcv>>
           /\ \/ UNCHANGED cmdq
              \/ \E cmd \in Command : cmd.ty # "attach" /\ cmdq' = Append(cmdq, cmd)
  <2>1. OneAttach' /\ \A d : Waiting(d)' => Waiting(d)
    <3>1. CASE UNCHANGED cmdq
      BY <3>1 DEF OneAttach, Waiting
    <3>2. ASSUME NEW cmd \in Command, cmd.ty # "attach", cmdq' = Append(cmdq, cmd)
          PROVE  OneAttach' /\ \A d : Waiting(d)' => Waiting(d)
      BY <1>0, <3>2, SendKeeps
    <3> QED
      BY <1>6, <3>1, <3>2
  <2> QED
    BY <1>6, <2>1 DEF Unserved
<1>7. CASE /\ conn' = conn /\ rx' = rx /\ cmdq' = cmdq /\ oq[c] # <<>>
           /\ oq'[c] = Tail(oq[c])
           /\ rcv'[c] = Written(Head(oq[c]), rcv[c])
  BY <1>7 DEF Unserved, Waiting, OneAttach
<1> QED
  BY <1>3, <1>4, <1>5, <1>6, <1>7, ConnMoves

(* Every step keeps QueueInv.                                              *)
LEMMA QueueStep ==
    ASSUME TypeOK, fed <= out, QueueInv, [Next]_vars
    PROVE  QueueInv'
<1>1. OneAttach /\ ActorTypeOK
  BY DEF QueueInv, TypeOK
<1>2. CASE (ShellNext /\ UNCHANGED <<actorVars, conn, rcv, sends>>) \/ UNCHANGED vars
  <2>1. UNCHANGED <<conn, rx, rcv, cmdq, client, oq>>
    BY <1>2 DEF vars, actorVars, loopVars
  <2> QED
    BY <1>1, <2>1, QueueRests DEF OneAttach, Waiting
<1>3. CASE ActorNext /\ UNCHANGED <<conn, rcv, sends>>
  BY <1>1, <1>3, QueueActor
<1>4. CASE \E c \in Conns : ConnNext(c)
  BY <1>4, QueueConn
<1>5. CASE ListAsks
  <2>1. UNCHANGED <<conn, rx, rcv, client, oq>> /\ cmdq' = Append(cmdq, Info)
    BY <1>5 DEF ListAsks, loopVars
  <2>2. Info \in Command /\ Info.ty # "attach"
    BY CommandTypes DEF Info
  <2>3. OneAttach' /\ \A c : Waiting(c)' => Waiting(c)
    BY <1>1, <2>1, <2>2, SendKeeps
  <2> QED
    BY <2>1, <2>3, QueueRests
<1> QED
  BY <1>2, <1>3, <1>4, <1>5 DEF Next

-----------------------------------------------------------------------------
(* PipeInv.                                                                *)

(* There is no EXIT in the pipelines of a live session.                    *)
LEMMA SoundAlive ==
    ASSUME NEW q, NEW r, Sound(q, r, NoExit)
    PROVE  /\ ~HasExit(q) /\ r.exit = NoExit /\ ExitOf(q, r) = NoExit
           /\ \A x : Sound(q, r, x)
BY DEF Sound, HasExit, ExitOf

(* A live session serves its client: the client is brought up to date, or  *)
(* is sent a part and is the client no longer.                             *)
LEMMA ServesView ==
    ASSUME ActorTypeOK, rcv \in [Conns -> Received], PipeInv,
           NEW m, NEW e, NEW x, Serves(m, e, x), rcv' = rcv,
           NEW c \in Conns, Viewing(c)
    PROVE  /\ Sound(oq'[c], rcv'[c], exit')
           /\ \/ /\ client' = c /\ lastStatus' = {e}
                 /\ EndOf(oq'[c], rcv'[c]) = fed'
                 /\ StatusOf(oq'[c], rcv'[c]) = {e}
                 /\ ExitOf(oq'[c], rcv'[c]) = exit'
              \/ /\ client' = NoConn
                 /\ EndOf(oq'[c], rcv'[c]) \in fed..fed'
                 /\ StatusOf(oq'[c], rcv'[c]) \in {StatusOf(oq[c], rcv[c]), {e}}
                 /\ ExitOf(oq'[c], rcv'[c]) = NoExit
<1> DEFINE q == oq[c]
           r == rcv[c]
           s == Sent(c, m)
           y == exit'
<1>1. /\ q \in Seq(Frame) /\ r \in Received /\ m \in Seq(Frame) /\ PushOrDrop(m)
      /\ client = c /\ c \in rx /\ client # NoConn
      /\ fed \in Nat /\ fed' \in Nat /\ fed <= fed'
  BY ActorAssumption DEF ActorTypeOK, Serves, WholeBatch, Batch, Viewing, ActorAssumption
<1>2. /\ Sound(q, r, NoExit)
      /\ EndOf(q, r) = fed /\ ExitOf(q, r) = NoExit
      /\ StatusOf(q, r) = lastStatus
  BY <1>1 DEF PipeInv, Serves
<1>3. ~HasExit(q) /\ r.exit = NoExit /\ Sound(q, r, y)
  BY <1>2, SoundAlive
<1>4. /\ Batch(m, fed, fed', e, y)
      /\ m = <<>> => fed = fed'
      /\ m # <<>> => m[Len(m)].to = fed'
      /\ HasExit(m) <=> y # NoExit
  BY DEF Serves, WholeBatch, Batch, HasExit
<1>5. /\ \E n \in 0..Len(m) : s = SubSeq(m, 1, n) /\ (~Fits(c, m) => n < Len(m))
      /\ Fits(c, m) => s = m
  BY <1>1, SentIs
<1>6. oq'[c] = q \o s /\ rcv'[c] = r
  BY <1>1, PushTouches
<1>7. Batch(s, fed, fed', e, y) /\ (~Fits(c, m) => ~HasExit(s))
  BY <1>4, <1>5, PrefixIsBatch
<1>8. s \in Seq(Frame) /\ \A i \in 1..Len(s) : s[i].to \in fed..fed'
  BY <1>7 DEF Batch
<1> HIDE DEF q, r, s, y
<1>9. HasExit(s) => y # NoExit
  BY <1>4, <1>5, <1>7
<1>10. Sound(q \o s, r, y)
  BY <1>1, <1>2, <1>3, <1>7, <1>9, SoundJoins
<1>11. /\ EndOf(q \o s, r) = IF s = <<>> THEN fed ELSE s[Len(s)].to
       /\ StatusOf(q \o s, r) = IF StatusAt(s) = {} THEN StatusOf(q, r) ELSE {e}
       /\ ExitOf(q \o s, r) = IF HasExit(s) THEN y ELSE NoExit
  <2>1. EndOf(q \o s, r) = IF s = <<>> THEN fed ELSE s[Len(s)].to
    BY <1>1, <1>2, <1>8, EndJoins
  <2>2. StatusOf(q \o s, r) = IF StatusAt(s) = {} THEN StatusOf(q, r) ELSE {e}
    BY <1>1, <1>7, StatusJoins
  <2>3. ExitOf(q \o s, r) = IF HasExit(s) THEN y ELSE ExitOf(q, r)
    BY <1>1, <1>3, <1>7, ExitJoins
  <2> QED
    BY <1>2, <2>1, <2>2, <2>3
<1>12. CASE Fits(c, m)
  <2>1. s = m /\ client' = c /\ lastStatus' = {e}
    BY <1>1, <1>5, <1>12, PushTouches DEF Serves
  <2>2. EndOf(q \o s, r) = fed'
    BY <1>4, <1>11, <2>1
  <2>3. StatusAt(m) = {} => lastStatus = {e}
    BY <1>1, <1>12 DEF Serves
  <2>4. StatusOf(q \o s, r) = {e}
    BY <1>2, <1>11, <2>1, <2>3
  <2>5. ExitOf(q \o s, r) = y
    BY <1>4, <1>11, <2>1
  <2> QED
    BY <1>6, <1>10, <2>1, <2>2, <2>4, <2>5 DEF y
<1>13. CASE ~Fits(c, m)
  <2>1. client' = NoConn /\ ~HasExit(s)
    BY <1>1, <1>7, <1>13, PushTouches
  <2>2. EndOf(q \o s, r) \in fed..fed'
    <3>1. CASE s = <<>>
      BY <1>1, <1>11, <3>1
    <3>2. CASE s # <<>>
      <4>1. Len(s) \in 1..Len(s)
        BY <1>8, <3>2, EmptySeq
      <4> QED
        BY <1>8, <1>11, <3>2, <4>1
    <3> QED
      BY <3>1, <3>2
  <2>3. StatusOf(q \o s, r) \in {StatusOf(q, r), {e}}
    BY <1>11
  <2>4. ExitOf(q \o s, r) = NoExit
    BY <1>11, <2>1
  <2> QED
    BY <1>6, <1>10, <2>1, <2>2, <2>3, <2>4 DEF y, q, r
<1> QED
  BY <1>12, <1>13

(* attach_client: the whole replay goes into an empty pipeline.            *)
LEMMA ReplaysView ==
    ASSUME ActorTypeOK, rcv \in [Conns -> Received], QueueInv,
           NEW c \in Conns, c \in rx, Waiting(c),
           NEW m, NEW lo, NEW e, NEW x, Replays(c, m, lo, e, x), rcv' = rcv
    PROVE  /\ Sound(oq'[c], rcv'[c], exit)
           /\ EndOf(oq'[c], rcv'[c]) = fed
           /\ StatusOf(oq'[c], rcv'[c]) = {e}
           /\ ExitOf(oq'[c], rcv'[c]) = exit
           /\ oq'[c] # <<>>
<1> DEFINE q == oq[c]
           r == rcv[c]
           y == exit
<1>1. q = <<>> /\ r = Nothing
  BY DEF QueueInv, Unserved
<1>2. q \in Seq(Frame) /\ r \in Received /\ oq \in [Conns -> Seq(Frame)] /\ Len(q) = 0
  BY <1>1 DEF ActorTypeOK
<1>3. r.upto = NoPos /\ r.exit = NoExit
  BY <1>1 DEF Nothing
<1>4. /\ Batch(m, lo, fed, e, y) /\ m \in Seq(Frame)
      /\ m = <<>> => lo = fed
      /\ m # <<>> => m[Len(m)].to = fed
      /\ HasExit(m) <=> y # NoExit
      /\ StatusAt(m) # {}
  BY DEF Replays, WholeBatch, Batch, HasExit
<1>5. Fits(c, m)
  BY <1>2, ActorAssumption DEF Fits, Room, Replays, ActorAssumption
<1>6. Sent(c, m) = m
  BY <1>4, <1>5, SentIs
<1>7. oq'[c] = q \o m /\ rcv'[c] = r
  BY <1>2, <1>6 DEF Replays
<1>8. Len(m) \in Nat \ {0} /\ m # <<>>
  <2>1. m # <<>>
    BY <1>4 DEF StatusAt
  <2> QED
    BY <1>4, <2>1, EmptySeq
<1>9. ~HasExit(q)
  BY <1>2 DEF HasExit
<1>10. Sound(q, r, y)
  BY <1>1, <1>2, <1>3 DEF Sound, Chained
<1>11. q \o m = m
  BY <1>1, <1>4, ConcatEmptySeq
<1>12. ~(q # <<>> \/ r.upto # NoPos)
  BY <1>1, <1>3
<1> HIDE DEF q, r, y
<1>13. Sound(q \o m, r, y)
  BY <1>2, <1>3, <1>4, <1>9, <1>10, <1>12, SoundJoins
<1>14. /\ EndOf(q \o m, r) = fed
       /\ StatusOf(q \o m, r) = {e}
       /\ ExitOf(q \o m, r) = IF HasExit(m) THEN y ELSE NoExit
  <2>1. ExitOf(q, r) = NoExit
    BY <1>3, <1>9 DEF ExitOf
  <2>2. EndOf(q \o m, r) = fed
    BY <1>2, <1>4, <1>8, EndJoins
  <2>3. q \in Seq(Frame) /\ Batch(m, lo, fed, e, y)
    BY <1>2, <1>4
  <2>4. StatusOf(q \o m, r) = IF StatusAt(m) = {} THEN StatusOf(q, r) ELSE {e}
    BY <2>3, StatusJoins
  <2>5. StatusOf(q \o m, r) = {e}
    BY <1>4, <2>4
  <2>6. ExitOf(q \o m, r) = IF HasExit(m) THEN y ELSE ExitOf(q, r)
    BY <1>9, <1>10, <2>3, ExitJoins
  <2> QED
    BY <2>1, <2>2, <2>5, <2>6
<1>15. ExitOf(q \o m, r) = y
  BY <1>4, <1>14
<1> QED
  BY <1>7, <1>8, <1>11, <1>13, <1>14, <1>15 DEF y

(* CLOSE for a dead session: one more EXIT, which says nothing new.        *)
LEMMA CloseView ==
    ASSUME ActorTypeOK, rcv \in [Conns -> Received], PipeInv, TakeClose, rcv' = rcv,
           NEW c \in Conns, Viewing(c)
    PROVE  /\ Sound(oq'[c], rcv'[c], exit)
           /\ EndOf(oq'[c], rcv'[c]) = EndOf(oq[c], rcv[c])
           /\ StatusOf(oq'[c], rcv'[c]) = StatusOf(oq[c], rcv[c])
           /\ ExitOf(oq'[c], rcv'[c]) = ExitOf(oq[c], rcv[c])
<1> DEFINE q == oq[c]
           r == rcv[c]
           f == ExitFrame(fed, exit)
           s == Sent(c, <<f>>)
           e == NoSnapshot
<1>1. /\ q \in Seq(Frame) /\ r \in Received /\ oq \in [Conns -> Seq(Frame)]
      /\ client = c /\ client # NoConn /\ fed \in 0..MaxOut
  BY ActorAssumption DEF ActorTypeOK, Viewing, ActorAssumption
<1>2. /\ Sound(q, r, exit)
      /\ EndOf(q, r) = fed /\ ExitOf(q, r) = exit
  BY DEF PipeInv
<1>3. CASE ~Dead
  BY <1>2, <1>3 DEF TakeClose
<1>4. CASE Dead
  <2>1. exit \in Statuses /\ exit # NoExit
    BY <1>4 DEF ActorTypeOK, Dead
  <2>2. /\ f \in Frame /\ f.ty = "exit" /\ f.code = exit
        /\ f.from = fed /\ f.to = fed
    BY <1>1, <2>1, FrameTypes DEF ExitFrame
  <2>3. oq'[c] = q \o s /\ rcv'[c] = r
    BY <1>1, <1>4 DEF TakeClose
  <2> HIDE DEF f
  <2>4. Batch(<<f>>, fed, fed, e, exit) /\ <<f>> \in Seq(Frame)
    BY <1>1, <2>2 DEF Batch, Chained
  <2>5. \E n \in 0..Len(<<f>>) : s = SubSeq(<<f>>, 1, n)
    BY <2>4, SentIs
  <2>6. s = <<>> \/ s = <<f>>
    <3> DEFINE t == <<f>>
    <3>1. t \in Seq(Frame) /\ Len(t) = 1
      BY <2>4
    <3>2. \E n \in 0..1 : s = SubSeq(t, 1, n)
      BY <2>5
    <3> HIDE DEF t, s
    <3>3. SubSeq(t, 1, 0) = <<>> /\ SubSeq(t, 1, 1) = t
      BY <3>1, SubSeqEmpty, SubSeqFull
    <3>4. s = <<>> \/ s = t
      BY <3>2, <3>3
    <3> QED
      BY <3>4 DEF t
  <2>7. CASE s = <<>>
    <3>1. oq'[c] = q
      BY <1>1, <2>3, <2>7, ConcatEmptySeq
    <3> QED
      BY <1>2, <2>3, <3>1
  <2>8. CASE s = <<f>>
    <3> DEFINE t == <<f>>
    <3>1. /\ Len(t) = 1 /\ t[1] = f /\ t # <<>> /\ HasExit(t) /\ StatusAt(t) = {}
          /\ \A i \in 1..Len(t) : t[i].ty = "exit"
      BY <2>2 DEF HasExit, StatusAt
    <3>2. oq'[c] = q \o t /\ Batch(t, fed, fed, e, exit) /\ t \in Seq(Frame)
      BY <2>3, <2>4, <2>8
    <3> HIDE DEF t, q, r, s, e
    <3>3. Sound(q \o t, r, exit)
      BY <1>1, <1>2, <2>1, <3>1, <3>2, SoundJoins
    <3>4. EndOf(q \o t, r) = fed
      BY <1>1, <2>2, <3>1, <3>2, EndJoins
    <3>5. StatusOf(q \o t, r) = StatusOf(q, r)
      BY <1>1, <3>1, <3>2, StatusJoins
    <3>6. ExitOf(q \o t, r) = exit
      BY <1>1, <1>2, <3>1, <3>2, ExitJoins
    <3> QED
      BY <1>2, <2>3, <3>2, <3>3, <3>4, <3>5, <3>6 DEF q, r
  <2> QED
    BY <2>6, <2>7, <2>8
<1> QED
  BY <1>3, <1>4

(* It touches no out-queue but that of a client who is there.              *)
LEMMA CloseSpares ==
    ASSUME ActorTypeOK, TakeClose, NEW c \in Conns, ~Viewing(c)
    PROVE  oq'[c] = oq[c]
<1> DEFINE m == <<ExitFrame(fed, exit)>>
<1>1. CASE Dead /\ client # NoConn
  <2>1. client \in Conns /\ exit \in Statuses /\ fed \in 0..MaxOut
    BY <1>1 DEF ActorTypeOK, Dead
  <2>2. m \in Seq(Frame)
    BY <2>1, FrameTypes
  <2>3. oq' = [oq EXCEPT ![client] = oq[client] \o Sent(client, m)]
    BY <1>1 DEF TakeClose
  <2>4. oq \in [Conns -> Seq(Frame)]
    BY DEF ActorTypeOK
  <2> HIDE DEF m
  <2>5. client \notin rx => oq[client] \o Sent(client, m) = oq[client]
    BY <2>1, <2>2, <2>4, SentIs, ConcatEmptySeq
  <2> QED
    BY <2>1, <2>3, <2>4, <2>5 DEF Viewing
<1>2. CASE ~(Dead /\ client # NoConn)
  BY <1>2 DEF TakeClose
<1> QED
  BY <1>1, <1>2

(* The actor's steps keep PipeInv.                                         *)
LEMMA PipeActor ==
    ASSUME ActorTypeOK, rcv \in [Conns -> Received], QueueInv, PipeInv,
           ActorNext, rcv' = rcv
    PROVE  PipeInv'
<1>1. CASE OpenOk \/ OpenFails \/ RegistrationFails \/ ReadFails \/ GraceExpires
           \/ KillExpires \/ Remove \/ TakeInput \/ TakeResize \/ TakeInfo
  <2>1. UNCHANGED <<out, fed, eng, exit, client, lastStatus, pollRunning, rx, oq>>
    BY <1>1 DEF OpenOk, OpenFails, RegistrationFails, ReadFails, GraceExpires,
                KillExpires, Remove, TakeInput, TakeResize, TakeInfo, Spawn,
                SpawnFails, Kill, WriteInput, loopVars, shellVars
  <2> QED
    BY <2>1 DEF PipeInv, Viewing
<1>2. CASE TakeClose
  <2>1. /\ UNCHANGED <<out, fed, eng, exit, lastStatus, pollRunning, rx>>
        /\ client' \in {client, NoConn}
    BY <1>2 DEF TakeClose, Hangup, shellVars
  <2>2. ASSUME NEW c \in Conns, ~Viewing(c) PROVE oq'[c] = oq[c]
    BY <1>2, <2>2, CloseSpares
  <2>3. ASSUME NEW c \in Conns
        PROVE  /\ Sound(oq'[c], rcv'[c], exit')
               /\ Viewing(c)' =>
                     /\ EndOf(oq'[c], rcv'[c]) = fed'
                     /\ StatusOf(oq'[c], rcv'[c]) = {EffectiveStatus(eng', pollRunning')}
                     /\ ExitOf(oq'[c], rcv'[c]) = exit'
    <3>1. Viewing(c)' => Viewing(c)
      BY <2>1, ActorAssumption DEF Viewing, ActorAssumption
    <3>2. CASE Viewing(c)
      BY <1>2, <2>1, <3>2, CloseView DEF PipeInv
    <3>3. CASE ~Viewing(c)
      BY <2>1, <2>2, <3>1, <3>3 DEF PipeInv
    <3> QED
      BY <3>2, <3>3
  <2> QED
    BY <2>1, <2>3 DEF PipeInv
<1>3. CASE TakeAttach
  <2> DEFINE a == Head(cmdq).conn
  <2>1. cmdq # <<>> /\ cmdq' = Tail(cmdq) /\ Head(cmdq).ty = "attach"
    BY <1>3 DEF TakeAttach, Take
  <2>2. Waiting(a)
    BY <2>1, TakeKeeps DEF QueueInv
  <2>3. PICK m, lo, e, x : Replays(a, m, lo, e, x)
    BY <1>3, AttachReplays
  <2>4. /\ oq' = [oq EXCEPT ![a] = oq[a] \o Sent(a, m)]
        /\ m \in Seq(Frame) /\ oq \in [Conns -> Seq(Frame)]
        /\ UNCHANGED <<fed, out, eng, exit, rx>> /\ client' = a
        /\ e = EffectiveStatus(eng', pollRunning') /\ lastStatus' = {e}
    BY <2>3 DEF Replays, WholeBatch, Batch, ActorTypeOK
  <2> HIDE DEF a
  <2>5. ASSUME NEW c \in Conns
        PROVE  /\ Sound(oq'[c], rcv'[c], exit')
               /\ Viewing(c)' =>
                     /\ EndOf(oq'[c], rcv'[c]) = fed'
                     /\ StatusOf(oq'[c], rcv'[c]) = {e}
                     /\ ExitOf(oq'[c], rcv'[c]) = exit'
    <3>1. CASE c = a /\ c \in rx
      BY <2>2, <2>3, <2>4, <3>1, ReplaysView
    <3>2. CASE ~(c = a /\ c \in rx)
      <4>1. c \notin rx => oq[c] \o Sent(c, m) = oq[c]
        BY <2>4, SentIs, ConcatEmptySeq
      <4>2. oq'[c] = oq[c]
        BY <2>4, <3>2, <4>1
      <4> QED
        BY <2>4, <3>2, <4>2 DEF PipeInv, Viewing
    <3> QED
      BY <3>1, <3>2
  <2> QED
    BY <2>4, <2>5 DEF PipeInv
<1>4. CASE Drain \/ PollTick
  <2>1. PICK m, e, x : Serves(m, e, x) /\ fed' <= out'
    <3>1. fed <= out /\ out \in Nat
      BY DEF PipeInv, ActorTypeOK, ShellTypeOK
    <3> QED
      BY <1>4, <3>1, DrainServes, PollServes
  <2>2. /\ m \in Seq(Frame) /\ PushOrDrop(m) /\ UNCHANGED rx
        /\ e = EffectiveStatus(eng', pollRunning') /\ exit = NoExit
        /\ client # NoConn /\ Fits(client, m) => lastStatus' = {e}
    BY <2>1 DEF Serves, WholeBatch, Batch
  <2>3. ASSUME NEW c \in Conns
        PROVE  /\ Sound(oq'[c], rcv'[c], exit')
               /\ Viewing(c)' =>
                     /\ EndOf(oq'[c], rcv'[c]) = fed'
                     /\ StatusOf(oq'[c], rcv'[c]) = {e}
                     /\ ExitOf(oq'[c], rcv'[c]) = exit'
    <3>1. CASE Viewing(c)
      BY <2>1, <3>1, ServesView, ActorAssumption DEF Viewing, ActorAssumption
    <3>2. CASE ~Viewing(c)
      <4>1. oq'[c] = oq[c] /\ client' \in {client, NoConn}
        BY <2>2, <3>2, PushTouches DEF Viewing
      <4>2. ~Viewing(c)'
        BY <2>2, <3>2, <4>1, ActorAssumption DEF Viewing, ActorAssumption
      <4>3. Sound(oq[c], rcv[c], exit')
        BY <2>2, SoundAlive DEF PipeInv
      <4> QED
        BY <4>1, <4>2, <4>3
    <3> QED
      BY <3>1, <3>2
  <2>4. client' # NoConn => lastStatus' = {e}
    BY <2>2, PushTouches
  <2> QED
    BY <2>1, <2>2, <2>3, <2>4 DEF PipeInv
<1>5. CASE Finish
  <2>1. UNCHANGED <<fed, out, exit, oq>> /\ client' = NoConn
    BY <1>5 DEF Finish, DropPty
  <2> QED
    BY <2>1, ActorAssumption DEF PipeInv, Viewing, ActorAssumption
<1> QED
  BY <1>1, <1>2, <1>3, <1>4, <1>5 DEF ActorNext

(* The steps of a connection keep PipeInv: its writer moves the pipeline   *)
(* along, or empties it and is there no more.                              *)
LEMMA PipeConn ==
    ASSUME TypeOK, QueueInv, PipeInv, NEW c \in Conns, ConnNext(c)
    PROVE  PipeInv'
<1>1. /\ UNCHANGED <<out, fed, eng, exit, client, lastStatus, pollRunning>>
      /\ \A d \in Conns \ {c} : /\ oq'[d] = oq[d] /\ rcv'[d] = rcv[d]
                                /\ d \in rx' <=> d \in rx
  BY ConnLocal
<1>2. oq[c] \in Seq(Frame) /\ exit \in Statuses \cup {NoExit}
  BY DEF TypeOK, ActorTypeOK
<1>3. /\ Sound(oq'[c], rcv'[c], exit)
      /\ \/ c \notin rx'
         \/ client # c
         \/ /\ c \in rx
            /\ EndOf(oq'[c], rcv'[c]) = EndOf(oq[c], rcv[c])
            /\ StatusOf(oq'[c], rcv'[c]) = StatusOf(oq[c], rcv[c])
            /\ ExitOf(oq'[c], rcv'[c]) = ExitOf(oq[c], rcv[c])
  <2>1. Sound(oq[c], rcv[c], exit)
    BY DEF PipeInv
  <2>2. CASE /\ conn[c] = "idle" /\ conn'[c] = "binding" /\ c \in rx'
             /\ UNCHANGED <<cmdq, oq, rcv>>
    BY <2>1, <2>2 DEF QueueInv, Unserved
  <2>3. CASE UNCHANGED <<rx, oq, rcv>>
    BY <2>1, <2>3
  <2>4. CASE c \notin rx' /\ oq'[c] = <<>> /\ rcv'[c] = Nothing
    BY <2>4 DEF Sound, Chained, Nothing
  <2>5. CASE /\ conn' = conn /\ rx' = rx /\ cmdq' = cmdq /\ oq[c] # <<>>
             /\ oq'[c] = Tail(oq[c])
             /\ rcv'[c] = Written(Head(oq[c]), rcv[c])
    <3>1. /\ Sound(oq'[c], rcv'[c], exit)
          /\ EndOf(oq'[c], rcv'[c]) = EndOf(oq[c], rcv[c])
          /\ StatusOf(oq'[c], rcv'[c]) = StatusOf(oq[c], rcv[c])
          /\ ExitOf(oq'[c], rcv'[c]) = ExitOf(oq[c], rcv[c])
      BY <1>2, <2>1, <2>5, WriterMoves
    <3>2. c \in rx
      BY <2>5 DEF QueueInv
    <3> QED
      BY <3>1, <3>2
  <2> QED
    BY <2>2, <2>3, <2>4, <2>5, ConnMoves
<1>4. ASSUME NEW d \in Conns
      PROVE  /\ Sound(oq'[d], rcv'[d], exit')
             /\ Viewing(d)' =>
                   /\ EndOf(oq'[d], rcv'[d]) = fed'
                   /\ StatusOf(oq'[d], rcv'[d]) = {EffectiveStatus(eng', pollRunning')}
                   /\ ExitOf(oq'[d], rcv'[d]) = exit'
  <2>1. CASE d = c
    BY <1>1, <1>3, <2>1 DEF PipeInv, Viewing
  <2>2. CASE d # c
    BY <1>1, <2>2 DEF PipeInv, Viewing
  <2> QED
    BY <2>1, <2>2
<1> QED
  BY <1>1, <1>4 DEF PipeInv

(* The shell only adds to its output.                                      *)
LEMMA ShellGrows == ASSUME ShellTypeOK, ShellNext PROVE out <= out'
BY DEF ShellNext, ShellWrites, ForegroundMoves, ShellReads, JobStarts, JobEnds,
       ShellClosesTty, ShellExits, SignalKills, Ends, ShellTypeOK

(* Every step keeps PipeInv.                                               *)
LEMMA PipeStep ==
    ASSUME TypeOK, QueueInv, PipeInv, [Next]_vars
    PROVE  PipeInv'
<1>1. ActorTypeOK /\ rcv \in [Conns -> Received] /\ ShellTypeOK
  BY DEF TypeOK, ActorTypeOK
<1>2. CASE (ShellNext /\ UNCHANGED <<actorVars, conn, rcv, sends>>)
           \/ ListAsks \/ UNCHANGED vars
  <2>1. UNCHANGED <<fed, eng, exit, client, lastStatus, pollRunning, rx, oq, rcv>>
    BY <1>2 DEF vars, actorVars, loopVars, ListAsks
  <2>2. fed' <= out'
    <3>1. out <= out'
      BY <1>1, <1>2, ShellGrows DEF vars, shellVars, ListAsks, ShellTypeOK
    <3>2. fed \in Nat /\ out \in Nat /\ fed <= out
      BY <1>1 DEF ActorTypeOK, ShellTypeOK, PipeInv
    <3>3. out' \in Nat
      BY NextTypes DEF TypeOK, ActorTypeOK, ShellTypeOK
    <3> QED
      BY <2>1, <3>1, <3>2, <3>3
  <2> QED
    BY <2>1, <2>2 DEF PipeInv, Viewing
<1>3. CASE ActorNext /\ UNCHANGED <<conn, rcv, sends>>
  BY <1>1, <1>3, PipeActor
<1>4. CASE \E c \in Conns : ConnNext(c)
  BY <1>4, PipeConn
<1> QED
  BY <1>2, <1>3, <1>4 DEF Next

-----------------------------------------------------------------------------
StreamInv == TypeOK /\ QueueInv /\ PipeInv

(* The inductive invariant holds of every state the program reaches.       *)
LEMMA StreamInvariant == Spec => []StreamInv
<1>1. Init => StreamInv
  <2> SUFFICES ASSUME Init PROVE StreamInv
    OBVIOUS
  <2>1. TypeOK
    BY InitTypes
  <2>2. /\ client = NoConn /\ cmdq = <<>> /\ Len(cmdq) = 0 /\ fed = 0 /\ out = 0
        /\ \A c \in Conns : oq[c] = <<>> /\ rcv[c] = Nothing
        /\ \A c \in Conns : c \in rx <=> conn[c] \in {"binding", "bound", "eof"}
    BY DEF Init, ActorInit, ShellInit
  <2>3. QueueInv
    BY <2>2, ActorAssumption DEF QueueInv, OneAttach, Waiting, ActorAssumption
  <2>4. \A c \in Conns : Sound(oq[c], rcv[c], exit)
    BY <2>2 DEF Sound, Chained, Nothing
  <2>5. PipeInv
    BY <2>2, <2>4, ActorAssumption DEF PipeInv, Viewing, ActorAssumption
  <2> QED
    BY <2>1, <2>3, <2>5 DEF StreamInv
<1>2. StreamInv /\ [Next]_vars => StreamInv'
  BY NextTypes, QueueStep, PipeStep DEF StreamInv, PipeInv
<1> QED
  BY <1>1, <1>2, PTL DEF Spec

(* What a client is sent is the output, with no frame missing, repeated or *)
(* out of order between the replay of attach_client and the live frames of *)
(* the drain, and a client that is still attached has been sent all of it: *)
(* whatever the queues hold, whoever takes over, whatever fails.           *)
THEOREM StreamCorrect == Spec => []StreamIntact
<1>1. StreamInv => StreamIntact
  <2> SUFFICES ASSUME StreamInv PROVE StreamIntact
    OBVIOUS
  <2>1. NoGap
    BY DEF StreamInv, PipeInv, Sound, Chained, NoGap
  <2>2. ASSUME NEW c \in Conns, Viewing(c) PROVE End(c) = fed
    BY <2>2 DEF StreamInv, PipeInv, EndOf, End
  <2> QED
    BY <2>1, <2>2 DEF StreamIntact
<1> QED
  BY <1>1, StreamInvariant, PTL

(* The last STATUS a client has been sent is the status now, although      *)
(* STATUS goes out only when it differs from last_status, which outlives   *)
(* takeovers and drains without a client; and LIST agrees with it.         *)
THEOREM StatusCorrect == Spec => []StatusInSync
<1>1. StreamInv => StatusInSync
  <2> SUFFICES ASSUME StreamInv, NEW c \in Conns, Viewing(c)
               PROVE  /\ PipelineStatus(c) = {EffectiveStatus(eng, pollRunning)}
                      /\ ~Dead /\ eng.marking =>
                            \A s \in PipelineStatus(c) : s.running = SessionInfo.running
    BY DEF StatusInSync
  <2>1. PipelineStatus(c) = StatusOf(oq[c], rcv[c])
    BY DEF PipelineStatus, StatusOf, StatusAt
  <2>2. PipelineStatus(c) = {EffectiveStatus(eng, pollRunning)}
    BY <2>1 DEF StreamInv, PipeInv
  <2>3. ASSUME ~Dead, eng.marking
        PROVE  \A s \in PipelineStatus(c) : s.running = SessionInfo.running
    <3>1. eng.running \in BOOLEAN
      BY DEF StreamInv, TypeOK, ActorTypeOK, EngineStatus
    <3>2. EffectiveStatus(eng, pollRunning).running = eng.running
      BY <2>3 DEF EffectiveStatus
    <3>3. SessionInfo.running = eng.running
      BY <2>3, <3>1 DEF SessionInfo
    <3> QED
      BY <2>2, <3>2, <3>3
  <2> QED
    BY <2>2, <2>3
<1> QED
  BY <1>1, StreamInvariant, PTL

(* Nothing but the same EXIT follows an EXIT, and a client of a dead       *)
(* session has been sent it: by the drain that reaped the shell, by the    *)
(* replay of a retained session or by CLOSE.                               *)
THEOREM ExitFinalCorrect == Spec => []ExitFinal
<1>1. StreamInv => ExitFinal
  <2> SUFFICES ASSUME StreamInv, NEW c \in Conns
               PROVE  /\ \A i \in 1..Len(oq[c]) :
                            (\/ rcv[c].exit # NoExit
                             \/ \E j \in 1..(i - 1) : oq[c][j].ty = "exit")
                            => oq[c][i].ty = "exit"
                      /\ \A i \in 1..Len(oq[c]) :
                            oq[c][i].ty = "exit" => oq[c][i].code = exit
                      /\ rcv[c].exit \in {NoExit, exit}
                      /\ Viewing(c) /\ Dead =>
                            \/ rcv[c].exit = exit
                            \/ \E i \in 1..Len(oq[c]) : oq[c][i].ty = "exit"
    BY DEF ExitFinal
  <2> DEFINE q == oq[c]
             r == rcv[c]
             n == Len(q)
  <2>1. Sound(q, r, exit) /\ n \in Nat
    BY DEF StreamInv, PipeInv, TypeOK, ActorTypeOK
  <2>2. Viewing(c) => ExitOf(q, r) = exit
    BY DEF StreamInv, PipeInv
  <2> HIDE DEF q, r
  <2>3. ASSUME NEW i \in 1..n, NEW j \in 1..(i - 1), q[j].ty = "exit"
        PROVE  q[i].ty = "exit"
    <3>1. j \in 1..n /\ i \in j..n
      BY <2>1
    <3> QED
      BY <2>1, <2>3, <3>1 DEF Sound
  <2>4. \A i \in 1..n : r.exit # NoExit => q[i].ty = "exit"
    BY <2>1 DEF Sound
  <2>5. \A i \in 1..n : q[i].ty = "exit" => q[i].code = exit
    BY <2>1 DEF Sound
  <2>6. r.exit \in {NoExit, exit}
    BY <2>1 DEF Sound
  <2>7. Viewing(c) => r.exit = exit \/ \E i \in 1..n : q[i].ty = "exit"
    BY <2>2 DEF ExitOf, HasExit
  <2> QED
    BY <2>3, <2>4, <2>5, <2>6, <2>7 DEF q, r
<1> QED
  BY <1>1, StreamInvariant, PTL

=============================================================================
