---------------------------- MODULE ReplayProofs ----------------------------
(***************************************************************************)
(* Proofs about ReplayEngine, for output of any length, any watermark and  *)
(* any number of chunks: a replay asks only the questions that are kept;   *)
(* from a chunk that began where a prologue can say the state, a full one  *)
(* shows what the terminal that has read everything shows and a capped one *)
(* the end of it, in the same state.                                       *)
(*                                                                         *)
(* What a terminal has read and what the chunks hold are defined by        *)
(* recursion over sequences.  The first part proves induction over the     *)
(* naturals as a fact about sets, and from it the equations of these       *)
(* definitions; everything after rests on the equations.                   *)
(***************************************************************************)
EXTENDS ReplayEngine, WellFoundedInduction, SequenceTheorems, TLAPS

-----------------------------------------------------------------------------
(* Induction, and the two recursive definitions.                           *)

(* A set that holds 0, and with each number the next, holds them all: a    *)
(* least number outside of it would have a predecessor within.             *)
LEMMA NatSets ==
    ASSUME NEW S, 0 \in S, \A n \in Nat : n \in S => n + 1 \in S
    PROVE  Nat \subseteq S
<1> DEFINE T == Nat \ S
           R == {ss \in Nat \X Nat : ss[1] < ss[2]}
<1>1. SUFFICES ASSUME T # {} PROVE FALSE
  OBVIOUS
<1>2. IsWellFoundedOn(R, Nat)
  BY NatLessThanWellFounded DEF OpToRel
<1>3. PICK x \in T : \A y \in T : ~ (<<y, x>> \in R)
  <2> HIDE DEF R, T
  <2>1. T \subseteq Nat
    BY DEF T
  <2> QED BY <2>1, <1>1, <1>2, WFMin
<1>4. x # 0 /\ x \in Nat
  BY <1>3
<1>5. x - 1 \in Nat /\ x - 1 < x /\ x = (x - 1) + 1
  BY <1>4
<1>6. x - 1 \in S
  BY <1>3, <1>4, <1>5
<1> QED BY <1>3, <1>5, <1>6

(* f is what reading the first n bytes makes of terminal t.                *)
Traces(f, t, bytes, n) ==
    f = [i \in 0..n |-> IF i = 0 THEN t ELSE TermStep(f[i - 1], bytes[i])]

(* There is such a function up to every n.                                 *)
LEMMA TraceExists ==
    ASSUME NEW t, NEW bytes
    PROVE  \A n \in Nat : \E f : Traces(f, t, bytes, n)
<1> DEFINE S == {n \in Nat : \E f : Traces(f, t, bytes, n)}
<1>1. 0 \in S
  <2> DEFINE f == [i \in 0..0 |-> t]
  <2>1. Traces(f, t, bytes, 0)
    BY DEF Traces
  <2> QED BY <2>1
<1>2. ASSUME NEW n \in Nat, n \in S PROVE n + 1 \in S
  <2>1. PICK f : Traces(f, t, bytes, n)
    BY <1>2
  <2> DEFINE g == [i \in 0..(n + 1) |->
                     IF i = n + 1 THEN TermStep(f[n], bytes[n + 1]) ELSE f[i]]
  <2>2. \A i \in 0..n : f[i] = IF i = 0 THEN t ELSE TermStep(f[i - 1], bytes[i])
    BY <2>1 DEF Traces
  <2>3. ASSUME NEW i \in 0..(n + 1)
        PROVE  g[i] = IF i = 0 THEN t ELSE TermStep(g[i - 1], bytes[i])
    <3>1. CASE i = n + 1
      <4>1. i # 0 /\ i - 1 = n /\ n \in 0..(n + 1) /\ n # n + 1
        BY <3>1
      <4>2. g[i - 1] = f[n]
        BY <4>1
      <4> QED BY <3>1, <4>1, <4>2
    <3>2. CASE i # n + 1 /\ i # 0
      <4>1. i \in 0..n /\ i - 1 \in 0..(n + 1) /\ i - 1 # n + 1
        BY <3>2
      <4>2. g[i] = f[i] /\ g[i - 1] = f[i - 1]
        BY <3>2, <4>1
      <4> QED BY <2>2, <3>2, <4>1, <4>2
    <3>3. CASE i = 0
      <4>1. i \in 0..n /\ i # n + 1
        BY <3>3
      <4> QED BY <2>2, <3>3, <4>1
    <3> QED BY <3>1, <3>2, <3>3
  <2>4. Traces(g, t, bytes, n + 1)
    <3>1. g = [i \in 0..(n + 1) |-> g[i]]
      OBVIOUS
    <3> HIDE DEF g
    <3> QED BY <2>3, <3>1 DEF Traces
  <2> QED BY <2>4
<1>3. Nat \subseteq S
  <2> HIDE DEF S
  <2> QED BY <1>1, <1>2, NatSets
<1> QED BY <1>3

(* Two of them agree as far as both go and the bytes are the same.         *)
LEMMA TraceUnique ==
    ASSUME NEW t, NEW b1, NEW b2, NEW n1 \in Nat, NEW n2 \in Nat, n1 =< n2,
           NEW f, Traces(f, t, b1, n1), NEW g, Traces(g, t, b2, n2),
           \A i \in 1..n1 : b1[i] = b2[i]
    PROVE  f[n1] = g[n1]
<1> DEFINE S == {n \in Nat : n =< n1 => f[n] = g[n]}
<1>1. \A i \in 0..n1 : f[i] = IF i = 0 THEN t ELSE TermStep(f[i - 1], b1[i])
  BY DEF Traces
<1>2. \A i \in 0..n2 : g[i] = IF i = 0 THEN t ELSE TermStep(g[i - 1], b2[i])
  BY DEF Traces
<1>3. 0 \in S
  BY <1>1, <1>2
<1>4. ASSUME NEW n \in Nat, n \in S PROVE n + 1 \in S
  <2>1. SUFFICES ASSUME n + 1 =< n1 PROVE f[n + 1] = g[n + 1]
    OBVIOUS
  <2>2. /\ n + 1 \in 0..n1 /\ n + 1 \in 0..n2 /\ n + 1 \in 1..n1
        /\ n + 1 # 0 /\ (n + 1) - 1 = n /\ n =< n1
    BY <2>1
  <2>3. f[n] = g[n]
    BY <1>4, <2>2
  <2>4. f[n + 1] = TermStep(f[n], b1[n + 1])
    BY <1>1, <2>2
  <2>5. g[n + 1] = TermStep(g[n], b2[n + 1])
    BY <1>2, <2>2
  <2> QED BY <2>2, <2>3, <2>4, <2>5
<1>5. Nat \subseteq S
  <2> HIDE DEF S
  <2> QED BY <1>3, <1>4, NatSets
<1> QED BY <1>5

(* Reads is the end of the trace.                                          *)
LEMMA ReadsTrace ==
    ASSUME NEW t, NEW bytes, Len(bytes) \in Nat
    PROVE  \E f : Traces(f, t, bytes, Len(bytes)) /\ Reads(t, bytes) = f[Len(bytes)]
<1> DEFINE f == CHOOSE f : Traces(f, t, bytes, Len(bytes))
<1>1. Traces(f, t, bytes, Len(bytes))
  BY TraceExists
<1>2. Reads(t, bytes) = f[Len(bytes)]
  BY DEF Reads, Traces
<1> QED BY <1>1, <1>2

(* Nothing read, nothing changed.                                          *)
LEMMA ReadsEmpty ==
    ASSUME NEW t
    PROVE  Reads(t, <<>>) = t
<1>1. PICK f : Traces(f, t, <<>>, 0) /\ Reads(t, <<>>) = f[0]
  <2>1. Len(<<>>) = 0
    OBVIOUS
  <2> QED BY <2>1, ReadsTrace
<1> QED BY <1>1 DEF Traces

(* The last byte is read after the others.                                 *)
LEMMA ReadsAppend ==
    ASSUME NEW t, NEW A, NEW bytes \in Seq(A), NEW b \in A
    PROVE  Reads(t, Append(bytes, b)) = TermStep(Reads(t, bytes), b)
<1> DEFINE n == Len(bytes)
           all == Append(bytes, b)
<1>1. n \in Nat /\ Len(all) = n + 1 /\ all[n + 1] = b
      /\ \A i \in 1..n : bytes[i] = all[i]
  OBVIOUS
<1>2. PICK f : Traces(f, t, bytes, n) /\ Reads(t, bytes) = f[n]
  <2> QED BY <1>1, ReadsTrace
<1>3. PICK g : Traces(g, t, all, n + 1) /\ Reads(t, all) = g[n + 1]
  <2> HIDE DEF all
  <2> QED BY <1>1, ReadsTrace
<1> HIDE DEF n, all
<1>4. f[n] = g[n]
  <2>1. n + 1 \in Nat /\ n =< n + 1
    BY <1>1
  <2> QED BY <1>1, <1>2, <1>3, <2>1, TraceUnique
<1>5. g[n + 1] = TermStep(g[n], all[n + 1])
  <2>1. n + 1 \in 0..(n + 1) /\ n + 1 # 0 /\ (n + 1) - 1 = n
    BY <1>1
  <2> QED BY <1>3, <2>1 DEF Traces
<1> QED BY <1>1, <1>2, <1>3, <1>4, <1>5 DEF all

(* Sequences: an element appended to the second of two.                    *)
LEMMA ConcatAppend ==
    ASSUME NEW A, NEW s \in Seq(A), NEW u \in Seq(A), NEW b \in A
    PROVE  /\ s \o Append(u, b) = Append(s \o u, b)
           /\ s \o u \in Seq(A)
           /\ Append(u, b) \in Seq(A)
  OBVIOUS

(* What follows is read by the terminal that has read what comes first.    *)
LEMMA ReadsConcat ==
    ASSUME NEW t, NEW A, NEW s1 \in Seq(A), NEW s2 \in Seq(A)
    PROVE  Reads(t, s1 \o s2) = Reads(Reads(t, s1), s2)
<1> DEFINE Part(n) == SubSeq(s2, 1, n)
           S == {n \in Nat : n =< Len(s2) =>
                   Reads(t, s1 \o Part(n)) = Reads(Reads(t, s1), Part(n))}
<1>1. 0 \in S
  <2>1. Part(0) = <<>> /\ s1 \o <<>> = s1
    OBVIOUS
  <2> QED BY <2>1, ReadsEmpty
<1>2. ASSUME NEW n \in Nat, n \in S PROVE n + 1 \in S
  <2>1. SUFFICES ASSUME n + 1 =< Len(s2)
                 PROVE  Reads(t, s1 \o Part(n + 1)) = Reads(Reads(t, s1), Part(n + 1))
    OBVIOUS
  <2>2. PICK u, v, e : u = Part(n) /\ v = Part(n + 1) /\ e = s2[n + 1]
    OBVIOUS
  <2>3. u \in Seq(A) /\ e \in A /\ v = Append(u, e)
    BY <2>1, <2>2
  <2>4. Reads(t, s1 \o u) = Reads(Reads(t, s1), u)
    BY <1>2, <2>1, <2>2
  <2> SUFFICES Reads(t, s1 \o v) = Reads(Reads(t, s1), v)
    BY <2>2
  <2> HIDE DEF Part, S
  <2>5. s1 \o v = Append(s1 \o u, e) /\ s1 \o u \in Seq(A)
    BY <2>3, ConcatAppend
  <2>6. Reads(t, s1 \o v) = TermStep(Reads(t, s1 \o u), e)
    <3>1. PICK w : w = s1 \o u
      OBVIOUS
    <3>2. w \in Seq(A) /\ s1 \o v = Append(w, e)
      BY <2>5, <3>1
    <3>3. Reads(t, Append(w, e)) = TermStep(Reads(t, w), e)
      BY <2>3, <3>2, ReadsAppend
    <3> QED BY <3>1, <3>2, <3>3
  <2>7. Reads(Reads(t, s1), v) = TermStep(Reads(Reads(t, s1), u), e)
    BY <2>3, ReadsAppend
  <2> QED BY <2>4, <2>6, <2>7
<1>3. Nat \subseteq S
  <2> HIDE DEF S
  <2> QED BY <1>1, <1>2, NatSets
<1>4. Len(s2) \in Nat /\ Part(Len(s2)) = s2
  OBVIOUS
<1>5. Len(s2) \in S
  BY <1>3, <1>4
<1>6. Reads(t, s1 \o Part(Len(s2))) = Reads(Reads(t, s1), Part(Len(s2)))
  <2> HIDE DEF Part
  <2> QED BY <1>4, <1>5
<1> QED BY <1>4, <1>6, Zenon

(* f is what the first sequences of ss come to when they are joined, as    *)
(* FlattenSeq joins them.                                                  *)
Joins(f, ss, n) ==
    f = [i \in 1..n |-> IF i = 1 THEN ss[i] ELSE f[i - 1] \o ss[i]]

(* There is such a function up to every n.                                 *)
LEMMA JoinExists ==
    ASSUME NEW ss
    PROVE  \A n \in Nat : \E f : Joins(f, ss, n)
<1> DEFINE S == {n \in Nat : \E f : Joins(f, ss, n)}
<1>1. 0 \in S
  <2> DEFINE f == [i \in 1..0 |-> ss]
  <2>1. Joins(f, ss, 0)
    BY DEF Joins
  <2> QED BY <2>1
<1>2. ASSUME NEW n \in Nat, n \in S PROVE n + 1 \in S
  <2>1. PICK f : Joins(f, ss, n)
    BY <1>2
  <2> DEFINE last == IF n = 0 THEN ss[1] ELSE f[n] \o ss[n + 1]
             g == [i \in 1..(n + 1) |-> IF i = n + 1 THEN last ELSE f[i]]
  <2>2. \A i \in 1..n : f[i] = IF i = 1 THEN ss[i] ELSE f[i - 1] \o ss[i]
    BY <2>1 DEF Joins
  <2>3. ASSUME NEW i \in 1..(n + 1)
        PROVE  g[i] = IF i = 1 THEN ss[i] ELSE g[i - 1] \o ss[i]
    <3>1. CASE i = n + 1 /\ i = 1
      BY <3>1
    <3>2. CASE i = n + 1 /\ i # 1
      <4>1. i - 1 = n /\ n # 0 /\ n \in 1..(n + 1) /\ n # n + 1
        BY <3>2
      <4>2. g[i - 1] = f[n]
        BY <4>1
      <4> QED BY <3>2, <4>1, <4>2
    <3>3. CASE i # n + 1 /\ i # 1
      <4>1. i \in 1..n /\ i - 1 \in 1..(n + 1) /\ i - 1 # n + 1
        BY <3>3
      <4>2. g[i] = f[i] /\ g[i - 1] = f[i - 1]
        BY <3>3, <4>1
      <4> QED BY <2>2, <3>3, <4>1, <4>2
    <3>4. CASE i # n + 1 /\ i = 1
      <4>1. i \in 1..n
        BY <3>4
      <4> QED BY <2>2, <3>4, <4>1
    <3> QED BY <3>1, <3>2, <3>3, <3>4
  <2>4. Joins(g, ss, n + 1)
    <3>1. g = [i \in 1..(n + 1) |-> g[i]]
      OBVIOUS
    <3> HIDE DEF g
    <3> QED BY <2>3, <3>1 DEF Joins
  <2> QED BY <2>4
<1>3. Nat \subseteq S
  <2> HIDE DEF S
  <2> QED BY <1>1, <1>2, NatSets
<1> QED BY <1>3

Agree(f, g, n) == \A i \in 1..n : f[i] = g[i]

(* Two of them agree as far as both go and the sequences are the same.     *)
LEMMA JoinUnique ==
    ASSUME NEW s1, NEW s2, NEW n1 \in Nat, NEW n2 \in Nat, n1 =< n2,
           NEW f, Joins(f, s1, n1), NEW g, Joins(g, s2, n2), Agree(s1, s2, n1)
    PROVE  Agree(f, g, n1)
<1> USE DEF Agree
<1> DEFINE S == {n \in Nat : n \in 1..n1 => f[n] = g[n]}
<1>1. \A i \in 1..n1 : f[i] = IF i = 1 THEN s1[i] ELSE f[i - 1] \o s1[i]
  BY DEF Joins
<1>2. \A i \in 1..n2 : g[i] = IF i = 1 THEN s2[i] ELSE g[i - 1] \o s2[i]
  BY DEF Joins
<1>3. 0 \in S
  OBVIOUS
<1>4. ASSUME NEW n \in Nat, n \in S PROVE n + 1 \in S
  <2>1. SUFFICES ASSUME n + 1 \in 1..n1 PROVE f[n + 1] = g[n + 1]
    OBVIOUS
  <2>2. n + 1 \in 1..n2 /\ (n + 1) - 1 = n
    BY <2>1
  <2>3. CASE n = 0
    BY <1>1, <1>2, <2>1, <2>2, <2>3
  <2>4. CASE n # 0
    <3>1. f[n] = g[n] /\ n + 1 # 1
      BY <1>4, <2>1, <2>4
    <3>2. f[n + 1] = f[n] \o s1[n + 1]
      BY <1>1, <2>1, <2>2, <3>1
    <3>3. g[n + 1] = g[n] \o s2[n + 1]
      BY <1>2, <2>2, <3>1
    <3> QED BY <2>1, <3>1, <3>2, <3>3
  <2> QED BY <2>3, <2>4
<1>5. Nat \subseteq S
  <2> HIDE DEF S
  <2> QED BY <1>3, <1>4, NatSets
<1> QED BY <1>5

(* FlattenSeq is the end of such a function.                               *)
LEMMA FlattenJoins ==
    ASSUME NEW ss, Len(ss) \in Nat, Len(ss) # 0
    PROVE  \E f : Joins(f, ss, Len(ss)) /\ FlattenSeq(ss) = f[Len(ss)]
<1> DEFINE f == CHOOSE f : Joins(f, ss, Len(ss))
<1>1. Joins(f, ss, Len(ss))
  BY JoinExists
<1>2. FlattenSeq(ss) = f[Len(ss)]
  BY DEF FlattenSeq, Joins
<1> QED BY <1>1, <1>2

(* Nothing to flatten.                                                     *)
LEMMA FlattenEmpty == FlattenSeq(<<>>) = <<>>
<1>1. Len(<<>>) = 0
  OBVIOUS
<1> QED BY <1>1 DEF FlattenSeq

(* One more sequence comes at the end.                                     *)
LEMMA FlattenAppend ==
    ASSUME NEW A, NEW ss \in Seq(Seq(A)), NEW u \in Seq(A)
    PROVE  FlattenSeq(Append(ss, u)) = FlattenSeq(ss) \o u
<1>1. PICK n, all : n = Len(ss) /\ all = Append(ss, u)
  OBVIOUS
<1>2. n \in Nat /\ Len(all) = n + 1 /\ all[n + 1] = u /\ \A i \in 1..n : ss[i] = all[i]
  BY <1>1
<1>3. PICK g : Joins(g, all, n + 1) /\ FlattenSeq(all) = g[n + 1]
  BY <1>2, FlattenJoins
<1>4. \A i \in 1..(n + 1) : g[i] = IF i = 1 THEN all[i] ELSE g[i - 1] \o all[i]
  BY <1>3 DEF Joins
<1>5. CASE n = 0
  <2>1. ss = <<>>
    BY <1>1, <1>5, EmptySeq
  <2>0. <<>> \o u = u
    OBVIOUS
  <2>2. g[1] = u
    BY <1>2, <1>4, <1>5
  <2> QED BY <1>1, <1>3, <1>5, <2>0, <2>1, <2>2, FlattenEmpty
<1>6. CASE n # 0
  <2>1. PICK f : Joins(f, ss, n) /\ FlattenSeq(ss) = f[n]
    BY <1>1, <1>2, <1>6, FlattenJoins
  <2>2. n \in 1..n /\ n + 1 \in Nat /\ n =< n + 1
    BY <1>2, <1>6
  <2>3. \A i \in 1..n : f[i] = g[i]
    <3>1. PICK m : m = n + 1
      OBVIOUS
    <3>2. n \in Nat /\ m \in Nat /\ n =< m /\ Joins(f, ss, n) /\ Joins(g, all, m)
      BY <1>2, <1>3, <2>1, <2>2, <3>1
    <3>3. Agree(ss, all, n)
      BY <1>2 DEF Agree
    <3>4. Agree(f, g, n)
      BY <3>2, <3>3, JoinUnique
    <3> QED BY <3>4 DEF Agree
  <2>4. g[n + 1] = g[n] \o u
    <3>1. n + 1 \in 1..(n + 1) /\ n + 1 # 1 /\ (n + 1) - 1 = n
      BY <1>2, <1>6
    <3> QED BY <1>2, <1>4, <3>1
  <2> QED BY <1>1, <1>3, <2>1, <2>2, <2>3, <2>4
<1> QED BY <1>5, <1>6

(* What is flattened is a sequence.                                        *)
LEMMA FlattenType ==
    ASSUME NEW A, NEW ss \in Seq(Seq(A))
    PROVE  FlattenSeq(ss) \in Seq(A)
<1> DEFINE S == {n \in Nat : n =< Len(ss) => FlattenSeq(SubSeq(ss, 1, n)) \in Seq(A)}
<1>1. 0 \in S
  <2>1. SubSeq(ss, 1, 0) = <<>>
    OBVIOUS
  <2>2. <<>> \in Seq(A)
    OBVIOUS
  <2> QED BY <2>1, <2>2, FlattenEmpty, Zenon
<1>2. ASSUME NEW n \in Nat, n \in S PROVE n + 1 \in S
  <2>1. SUFFICES ASSUME n + 1 =< Len(ss)
                 PROVE  FlattenSeq(SubSeq(ss, 1, n + 1)) \in Seq(A)
    OBVIOUS
  <2>2. PICK u, v, e : u = SubSeq(ss, 1, n) /\ v = SubSeq(ss, 1, n + 1) /\ e = ss[n + 1]
    OBVIOUS
  <2>3. u \in Seq(Seq(A)) /\ e \in Seq(A) /\ v = Append(u, e)
    BY <2>1, <2>2
  <2>4. FlattenSeq(u) \in Seq(A)
    BY <1>2, <2>1, <2>2
  <2>5. PICK w : w = FlattenSeq(u)
    OBVIOUS
  <2>6. FlattenSeq(v) = w \o e /\ w \in Seq(A)
    BY <2>3, <2>4, <2>5, FlattenAppend
  <2>7. w \o e \in Seq(A)
    BY <2>3, <2>6
  <2> QED BY <2>2, <2>6, <2>7, Zenon
<1>3. Nat \subseteq S
  <2> HIDE DEF S
  <2> QED BY <1>1, <1>2, NatSets
<1>4. Len(ss) \in Nat /\ SubSeq(ss, 1, Len(ss)) = ss
  OBVIOUS
<1>5. Len(ss) \in S
  BY <1>3, <1>4
<1>6. FlattenSeq(SubSeq(ss, 1, Len(ss))) \in Seq(A)
  BY <1>4, <1>5
<1> QED BY <1>4, <1>6, Zenon

-----------------------------------------------------------------------------
(* The chunks and the replay that begins at one of them.                   *)

Bytes == Seq(AllPieces)
Chunk == [prologue : Bytes, data : Bytes]

(* Bytes put together.                                                     *)
LEMMA BytesConcat ==
    /\ <<>> \in Bytes
    /\ \A s, u \in Bytes : s \o u \in Bytes
    /\ \A s, u, v \in Bytes : s \o (u \o v) = (s \o u) \o v
    /\ \A s \in Bytes : <<>> \o s = s /\ s \o <<>> = s
    /\ \A s \in Bytes, b \in AllPieces : Append(s, b) \in Bytes
<1>1. <<>> \in Bytes
  BY EmptySeq DEF Bytes
<1>2. \A s, u \in Bytes : s \o u \in Bytes
  BY DEF Bytes
<1>3. ASSUME NEW s \in Bytes, NEW u \in Bytes, NEW v \in Bytes
      PROVE  s \o (u \o v) = (s \o u) \o v
  <2>1. s \in Seq(AllPieces) /\ u \in Seq(AllPieces) /\ v \in Seq(AllPieces)
    BY DEF Bytes
  <2> QED BY <2>1, ConcatAssociative
<1>4. \A s \in Bytes : <<>> \o s = s /\ s \o <<>> = s
  BY DEF Bytes
<1>5. \A s \in Bytes, b \in AllPieces : Append(s, b) \in Bytes
  BY DEF Bytes
<1> QED BY <1>1, <1>2, <1>3, <1>4, <1>5

(* The data of the chunks, when there is one more.                         *)
LEMMA DataAppend ==
    ASSUME NEW c \in Seq(Chunk), NEW ch \in Chunk
    PROVE  Data(Append(c, ch)) = Data(c) \o ch.data
<1>1. PICK ds, all : /\ ds = [i \in 1..Len(c) |-> c[i].data]
                     /\ all = [i \in 1..Len(Append(c, ch)) |-> Append(c, ch)[i].data]
  OBVIOUS
<1>2. Len(c) \in Nat /\ Len(Append(c, ch)) = Len(c) + 1
      /\ \A i \in 1..Len(c) : c[i] \in Chunk /\ Append(c, ch)[i] = c[i]
      /\ Append(c, ch)[Len(c) + 1] = ch
  OBVIOUS
<1>3. \A i \in 1..Len(c) : c[i].data \in Bytes
  BY <1>2 DEF Chunk
<1>4. ds \in Seq(Bytes) /\ Len(ds) = Len(c)
  BY <1>1, <1>2, <1>3
<1>5. all = Append(ds, ch.data)
  <2>1. all = [i \in 1..(Len(c) + 1) |-> IF i = Len(c) + 1 THEN ch.data ELSE c[i].data]
    BY <1>1, <1>2
  <2>2. \A i \in 1..Len(c) : ds[i] = c[i].data
    BY <1>1
  <2> QED BY <1>2, <1>4, <2>1, <2>2
<1>6. ch.data \in Bytes
  BY DEF Chunk
<1>7. FlattenSeq(all) = FlattenSeq(ds) \o ch.data
  BY <1>4, <1>5, <1>6, FlattenAppend DEF Bytes
<1> QED BY <1>1, <1>7 DEF Data

(* It is a sequence of bytes.                                              *)
LEMMA DataType ==
    ASSUME NEW c \in Seq(Chunk)
    PROVE  Data(c) \in Bytes
<1>1. PICK ds : ds = [i \in 1..Len(c) |-> c[i].data]
  OBVIOUS
<1>2. \A i \in 1..Len(c) : c[i].data \in Bytes
  <2>1. \A i \in 1..Len(c) : c[i] \in Chunk
    OBVIOUS
  <2> QED BY <2>1 DEF Chunk
<1>3. ds \in Seq(Bytes)
  BY <1>1, <1>2
<1> QED BY <1>1, <1>3, FlattenType DEF Data, Bytes

(* No chunks, no data.                                                     *)
LEMMA DataEmpty == Data(<<>>) = <<>>
<1>1. [i \in 1..Len(<<>>) |-> <<>>[i].data] = <<>>
  OBVIOUS
<1> QED BY <1>1, FlattenEmpty DEF Data

(* A chunk is added: its data comes after what was replayed before, and    *)
(* the replay that begins with it has nothing else.                        *)
LEMMA ReplayAppend ==
    ASSUME NEW c \in Seq(Chunk), NEW ch \in Chunk
    PROVE  /\ \A j \in 1..Len(c) :
                ReplayFrom(Append(c, ch), j) = ReplayFrom(c, j) \o ch.data
           /\ ReplayFrom(Append(c, ch), Len(c) + 1) = ch.prologue \o ch.data
<1>1. PICK n, all : n = Len(c) /\ all = Append(c, ch)
  OBVIOUS
<1>2. n \in Nat /\ Len(all) = n + 1 /\ all \in Seq(Chunk) /\ all[n + 1] = ch
      /\ \A i \in 1..n : all[i] = c[i] /\ c[i] \in Chunk
  BY <1>1
<1>3. ch.data \in Bytes /\ ch.prologue \in Bytes
  BY DEF Chunk
<1>4. ASSUME NEW j \in 1..n
      PROVE  ReplayFrom(all, j) = ReplayFrom(c, j) \o ch.data
  <2>1. PICK part : part = SubSeq(c, j, n)
    OBVIOUS
  <2>2. part \in Seq(Chunk) /\ SubSeq(all, j, n + 1) = Append(part, ch)
    BY <1>1, <1>2, <2>1
  <2>3. Data(SubSeq(all, j, n + 1)) = Data(part) \o ch.data
    BY <2>2, DataAppend
  <2>4. Data(part) \in Bytes
    BY <2>2, DataType
  <2>5. PICK d, p : d = Data(part) /\ p = c[j].prologue
    OBVIOUS
  <2>6. p \in Bytes /\ p = all[j].prologue
    BY <1>2, <2>5 DEF Chunk
  <2>7. p \o (d \o ch.data) = (p \o d) \o ch.data
    BY <1>3, <2>4, <2>5, <2>6, BytesConcat
  <2>8. ReplayFrom(all, j) = p \o (d \o ch.data)
    BY <1>2, <2>3, <2>5, <2>6 DEF ReplayFrom
  <2>9. ReplayFrom(c, j) = p \o d
    BY <1>1, <2>1, <2>5 DEF ReplayFrom
  <2> QED BY <2>7, <2>8, <2>9
<1>5. ReplayFrom(all, n + 1) = ch.prologue \o ch.data
  <2>1. SubSeq(all, n + 1, n + 1) = Append(<<>>, ch)
    <3>1. PICK x : x = SubSeq(all, n + 1, n + 1)
      OBVIOUS
    <3>2. x \in Seq(Chunk) /\ Len(x) = 1 /\ x[1] = ch
      BY <1>2, <3>1
    <3>3. x = <<ch>>
      BY <3>2
    <3>4. <<ch>> = Append(<<>>, ch)
      OBVIOUS
    <3> QED BY <3>1, <3>3, <3>4
  <2>2. <<>> \in Seq(Chunk)
    BY EmptySeq
  <2>3. Data(Append(<<>>, ch)) = <<>> \o ch.data
    BY <2>2, DataAppend, DataEmpty
  <2>4. <<>> \o ch.data = ch.data
    BY <1>3, BytesConcat
  <2> QED BY <1>2, <2>1, <2>3, <2>4 DEF ReplayFrom
<1> QED BY <1>1, <1>4, <1>5

(* A replay is a sequence of bytes.                                        *)
LEMMA ReplayType ==
    ASSUME NEW c \in Seq(Chunk), NEW j \in 1..Len(c)
    PROVE  ReplayFrom(c, j) \in Bytes
<1>1. PICK part, p : part = SubSeq(c, j, Len(c)) /\ p = c[j].prologue
  OBVIOUS
<1>2. part \in Seq(Chunk) /\ p \in Bytes
  <2>1. c[j] \in Chunk /\ part \in Seq(Chunk)
    BY <1>1
  <2> QED BY <1>1, <2>1 DEF Chunk
<1>3. PICK d : d = Data(part)
  OBVIOUS
<1>4. d \in Bytes
  BY <1>2, <1>3, DataType
<1>5. p \o d \in Bytes
  BY <1>2, <1>4, BytesConcat
<1> QED BY <1>1, <1>3, <1>5 DEF ReplayFrom

(* The open chunk grows: every replay grows by the same.                   *)
LEMMA ReplayExtend ==
    ASSUME NEW c \in Seq(Chunk), c # <<>>, NEW u \in Bytes,
           NEW d, d = [c EXCEPT ![Len(c)].data = @ \o u]
    PROVE  /\ d \in Seq(Chunk) /\ Len(d) = Len(c)
           /\ \A j \in 1..Len(c) : ReplayFrom(d, j) = ReplayFrom(c, j) \o u
<1>1. PICK m : m = Len(c) - 1
  OBVIOUS
<1>2. m \in Nat /\ Len(c) = m + 1 /\ m + 1 \in 1..Len(c) /\ c[m + 1] \in Chunk
  BY <1>1, EmptySeq
<1>3. PICK front, old, new : /\ front = SubSeq(c, 1, m) /\ old = c[m + 1]
                             /\ new = [old EXCEPT !.data = @ \o u]
  OBVIOUS
<1>4. /\ front \in Seq(Chunk) /\ Len(front) = m
      /\ old \in Chunk /\ c = Append(front, old)
  BY <1>2, <1>3
<1>5. /\ new \in Chunk /\ old.data \in Bytes /\ old.prologue \in Bytes
      /\ new.data = old.data \o u /\ new.prologue = old.prologue
  <2>1. old.data \in Bytes /\ old.prologue \in Bytes
    BY <1>4 DEF Chunk
  <2>2. PICK w : w = old.data \o u
    OBVIOUS
  <2>3. w \in Bytes
    BY <2>1, <2>2, BytesConcat
  <2>4. new = [old EXCEPT !.data = w]
    BY <1>3, <2>2
  <2> QED BY <1>4, <2>1, <2>2, <2>3, <2>4 DEF Chunk
<1>6. d = Append(front, new)
  <2>1. d = [c EXCEPT ![Len(c)] = [c[Len(c)] EXCEPT !.data = @ \o u]]
    BY Zenon
  <2>2. d = [c EXCEPT ![m + 1] = new]
    BY <1>2, <1>3, <2>1
  <2>3. DOMAIN d = 1..(m + 1) /\ \A i \in 1..(m + 1) : d[i] = IF i = m + 1 THEN new ELSE c[i]
    BY <1>2, <2>2
  <2>4. d = [i \in 1..(m + 1) |-> IF i = m + 1 THEN new ELSE c[i]]
    BY <2>2, <2>3
  <2>5. \A i \in 1..m : front[i] = c[i]
    BY <1>2, <1>3
  <2>6. Append(front, new) = [i \in 1..(m + 1) |-> IF i = m + 1 THEN new ELSE front[i]]
    <3>1. PICK w : w = Append(front, new)
      OBVIOUS
    <3>2. /\ w \in Seq(Chunk) /\ Len(w) = m + 1 /\ w[m + 1] = new
          /\ \A i \in 1..m : w[i] = front[i]
      BY <1>4, <1>5, <3>1, AppendProperties
    <3>3. w = [i \in 1..(m + 1) |-> w[i]]
      BY <3>2
    <3>4. \A i \in 1..(m + 1) : w[i] = IF i = m + 1 THEN new ELSE front[i]
      BY <1>2, <3>2
    <3> QED BY <3>1, <3>3, <3>4
  <2>7. \A i \in 1..(m + 1) : i \in 1..m \/ i = m + 1
    BY <1>2
  <2> QED BY <2>4, <2>5, <2>6, <2>7
<1>7. d \in Seq(Chunk) /\ Len(d) = Len(c)
  <2>1. Append(front, new) \in Seq(Chunk) /\ Len(Append(front, new)) = m + 1
    BY <1>4, <1>5, AppendProperties
  <2> QED BY <1>2, <1>6, <2>1
<1>8. ASSUME NEW j \in 1..m PROVE ReplayFrom(d, j) = ReplayFrom(c, j) \o u
  <2>1. PICK r : r = ReplayFrom(front, j)
    OBVIOUS
  <2>2. r \in Bytes
    BY <1>4, <2>1, ReplayType
  <2>3. ReplayFrom(d, j) = r \o (old.data \o u)
    <3>1. ReplayFrom(Append(front, new), j) = ReplayFrom(front, j) \o new.data
      BY <1>4, <1>5, ReplayAppend
    <3> QED BY <1>5, <1>6, <2>1, <3>1
  <2>4. ReplayFrom(c, j) = r \o old.data
    BY <1>4, <2>1, ReplayAppend
  <2>5. r \o (old.data \o u) = (r \o old.data) \o u
    <3>1. old.data \in Bytes /\ u \in Bytes
      BY <1>5
    <3> QED BY <2>2, <3>1, BytesConcat
  <2> QED BY <2>3, <2>4, <2>5
<1>9. ReplayFrom(d, m + 1) = ReplayFrom(c, m + 1) \o u
  <2>1. ReplayFrom(d, m + 1) = old.prologue \o (old.data \o u)
    <3>1. ReplayFrom(Append(front, new), m + 1) = new.prologue \o new.data
      BY <1>4, <1>5, ReplayAppend
    <3> QED BY <1>5, <1>6, <3>1
  <2>2. ReplayFrom(c, m + 1) = old.prologue \o old.data
    BY <1>4, ReplayAppend
  <2>3. old.prologue \o (old.data \o u) = (old.prologue \o old.data) \o u
    <3>1. old.prologue \in Bytes /\ old.data \in Bytes /\ u \in Bytes
      BY <1>5
    <3> QED BY <3>1, BytesConcat
  <2> QED BY <2>1, <2>2, <2>3
<1>10. \A j \in 1..Len(c) : j \in 1..m \/ j = m + 1
  BY <1>2
<1> QED BY <1>7, <1>8, <1>9, <1>10

(* Reading a sequence of bytes and one more, or another sequence.          *)
LEMMA ReadsByte ==
    \A t : \A s \in Bytes, b \in AllPieces : Reads(t, Append(s, b)) = TermStep(Reads(t, s), b)
  BY ReadsAppend DEF Bytes

(* The same for two sequences.                                             *)
LEMMA ReadsBytes ==
    \A t : \A s, u \in Bytes : Reads(t, s \o u) = Reads(Reads(t, s), u)
  BY ReadsConcat DEF Bytes

-----------------------------------------------------------------------------
(* The terminal, byte by byte.                                             *)

Parser == [at : {"ground", "char", "esc", "csi", "osc"}, body : Bytes]
Sticky == [sgr : SUBSET Sgr, modes : SUBSET ModeOn, region : SUBSET {"r"},
           cwd : Bytes, title : Bytes]
State == [sgr : SUBSET Sgr, modes : SUBSET ModeOn, region : SUBSET {"r"},
          cwd : Bytes, title : Bytes, palette : SUBSET {"10"}]
TextItem == {<<b, a>> : b \in AllPieces, a \in SUBSET Sgr} \cup {<<"lf">>, <<"K">>}
Term == [p : Parser, more : Nat, text : Seq(TextItem), noise : SUBSET AllPieces,
         state : State]

(* Bytes of a character that are still to come after b; and whether b is   *)
(* one byte to the parser, not the terminator that becomes two.            *)
MoreAfter(m, b) ==
    IF m > 0 /\ b \in {"9c", "93"} THEN m - 1 ELSE IF b = "lead" THEN 2 ELSE 0
OneByte(m, b) == b = "9c" => m > 0

(* The sets of pieces, written out.                                        *)
LEMMA PieceSets ==
    /\ Csi = {"1m", "4m", "?1h", "?2h", "?25h", "?1l", "?25l", "0m", "r", "0r",
              "2J", "K", "6n", "$p"}
    /\ Osc = {"t1", "t2", "d1", "133", "52", "10", "10?"}
    /\ AllPieces = {"a", "esc", "[", "]", "st", "c", "lf", "bel", "lead", "9c", "93"}
                   \cup Csi \cup Osc
<1>1. DOMAIN ModeOff = {"?1l", "?25l"}
  BY DEF ModeOff
<1>2. Csi = {"1m", "4m", "?1h", "?2h", "?25h", "?1l", "?25l", "0m", "r", "0r",
             "2J", "K", "6n", "$p"}
  BY <1>1 DEF Csi, Sgr, ModeOn
<1>3. Osc = {"t1", "t2", "d1", "133", "52", "10", "10?"}
  BY DEF Osc, Titles, Cwds
<1>4. AllPieces = {"a", "esc", "[", "]", "st", "c", "lf", "bel", "lead", "9c", "93"}
                  \cup Csi \cup Osc
  BY DEF AllPieces, C0, Char
<1> QED BY <1>2, <1>3, <1>4

(* A fresh terminal.                                                       *)
LEMMA ColdType ==
    /\ Cold \in Term /\ Ground \in Parser
    /\ Cold.p = Ground /\ Cold.more = 0 /\ Cold.text = <<>> /\ Cold.noise = {}
    /\ Cold.state = ColdState /\ ColdState \in State /\ NoSticky \in Sticky
    /\ Ground.at = "ground" /\ Ground.body = <<>>
<1>1. <<>> \in Bytes /\ <<>> \in Seq(TextItem)
  BY EmptySeq DEF Bytes
<1>2. Ground \in Parser /\ Ground.at = "ground" /\ Ground.body = <<>>
  BY <1>1 DEF Ground, At, Parser
<1>3. NoSticky \in Sticky
  BY <1>1 DEF NoSticky, Sticky
<1>4. ColdState \in State
  BY <1>1 DEF ColdState, State, DefaultOn, ModeOn
<1> QED BY <1>1, <1>2, <1>3, <1>4 DEF Cold, Term

(* One byte: the call it completes, and the parser.                        *)
LEMMA OneByteStep ==
    ASSUME NEW t \in Term, NEW b, OneByte(t.more, b)
    PROVE  TermStep(t, b)
             = [TermDo([t EXCEPT !.more = MoreAfter(t.more, b)], Callback(t.p, b))
                  EXCEPT !.p = ParserStep(t.p, b)]
<1>1. PICK u : u = [t EXCEPT !.more = MoreAfter(t.more, b)]
  OBVIOUS
<1>2. u.p = t.p
  BY <1>1 DEF Term
<1>3. TermStep(t, b) = TermByte(u, b)
  <2>1. t.more \in Nat
    BY DEF Term
  <2>2. CASE t.more > 0 /\ b \in {"9c", "93"}
    <3>1. u = [t EXCEPT !.more = @ - 1]
      BY <1>1, <2>2 DEF MoreAfter
    <3> QED BY <2>2, <3>1 DEF TermStep
  <2>3. CASE ~(t.more > 0 /\ b \in {"9c", "93"})
    <3>1. u = [t EXCEPT !.more = IF b = "lead" THEN 2 ELSE 0]
      BY <1>1, <2>3 DEF MoreAfter
    <3>2. b # "9c"
      BY <2>3 DEF OneByte
    <3> QED BY <2>3, <3>1, <3>2 DEF TermStep
  <2> QED BY <2>2, <2>3
<1> QED BY <1>1, <1>2, <1>3 DEF TermByte

(* A byte that completes nothing changes only the parser.                  *)
LEMMA QuietByte ==
    ASSUME NEW t \in Term, NEW b, OneByte(t.more, b), Callback(t.p, b) = <<"none">>
    PROVE  TermStep(t, b)
             = [t EXCEPT !.more = MoreAfter(t.more, b), !.p = ParserStep(t.p, b)]
<1>1. PICK m, q, u : /\ m = MoreAfter(t.more, b) /\ q = ParserStep(t.p, b)
                     /\ u = [t EXCEPT !.more = m]
  OBVIOUS
<1>2. TermDo(u, <<"none">>) = u
  BY DEF TermDo
<1>3. TermStep(t, b) = [TermDo(u, <<"none">>) EXCEPT !.p = q]
  BY <1>1, OneByteStep
<1>4. [u EXCEPT !.p = q] = [t EXCEPT !.more = m, !.p = q]
  BY <1>1
<1> QED BY <1>1, <1>2, <1>3, <1>4

-----------------------------------------------------------------------------
(* The prologue.                                                           *)

(* Three bytes, one after the other; and two.                              *)
LEMMA ReadsThree ==
    ASSUME NEW t, NEW a \in AllPieces, NEW b \in AllPieces, NEW c \in AllPieces,
           NEW s2, s2 = <<a, b>>, NEW s3, s3 = <<a, b, c>>
    PROVE  /\ s2 \in Bytes /\ Reads(t, s2) = TermStep(TermStep(t, a), b)
           /\ s3 \in Bytes /\ Reads(t, s3) = TermStep(TermStep(TermStep(t, a), b), c)
<1>1. PICK x1, x2, x3 : x1 = <<a>> /\ x2 = <<a, b>> /\ x3 = <<a, b, c>>
  OBVIOUS
<1>2. x1 \in Bytes /\ x2 \in Bytes /\ x3 \in Bytes
  BY <1>1 DEF Bytes
<1>3. x1 = Append(<<>>, a)
  BY <1>1
<1>4. x2 = Append(x1, b)
  BY <1>1
<1>5. x3 = Append(x2, c)
  BY <1>1
<1>6. Reads(t, x1) = TermStep(t, a)
  <2>1. PICK x0 : x0 = <<>>
    OBVIOUS
  <2>2. x1 = Append(x0, a) /\ x0 \in Bytes /\ Reads(t, x0) = t
    BY <1>3, <2>1, BytesConcat, ReadsEmpty
  <2> QED BY <2>2, ReadsByte
<1>7. Reads(t, x2) = TermStep(TermStep(t, a), b)
  BY <1>2, <1>4, <1>6, ReadsByte
<1>8. Reads(t, x3) = TermStep(TermStep(TermStep(t, a), b), c)
  BY <1>2, <1>5, <1>7, ReadsByte
<1> QED BY <1>1, <1>2, <1>7, <1>8

(* A terminal between sequences that reads a CSI.                          *)
LEMMA ReadsCsi ==
    ASSUME NEW t \in Term, t.p = Ground, t.more = 0, NEW b \in Csi
    PROVE  Reads(t, <<"esc", "[", b>>)
             = [TermCsi([t EXCEPT !.p = At("csi")], b) EXCEPT !.p = Ground]
<1>1. b \in AllPieces /\ "esc" \in AllPieces /\ "[" \in AllPieces
      /\ b \notin {"esc", "lead", "lf", "bel", "9c", "93"}
  BY PieceSets
<1>2. PICK e, c : e = At("esc") /\ c = At("csi")
  OBVIOUS
<1>3. e \in Parser /\ c \in Parser /\ e.at = "esc" /\ c.at = "csi" /\ e.body = <<>>
  BY <1>2, BytesConcat DEF At, Parser
<1>4. PICK t1, t2 : t1 = [t EXCEPT !.p = e] /\ t2 = [t EXCEPT !.p = c]
  OBVIOUS
<1>5. t1 \in Term /\ t1.p = e /\ t1.more = 0 /\ t2 \in Term /\ t2.p = c /\ t2.more = 0
  BY <1>3, <1>4 DEF Term
<1>6. TermStep(t, "esc") = t1
  <2>1. Callback(Ground, "esc") = <<"none">>
    BY ColdType DEF Callback
  <2>2. ParserStep(Ground, "esc") = e
    BY <1>2 DEF ParserStep, At, Ground
  <2>3. OneByte(t.more, "esc") /\ MoreAfter(t.more, "esc") = t.more
    BY DEF OneByte, MoreAfter
  <2>4. TermStep(t, "esc") = [t EXCEPT !.more = t.more, !.p = e]
    BY <2>1, <2>2, <2>3, QuietByte
  <2> QED BY <1>4, <2>4 DEF Term
<1>7. TermStep(t1, "[") = t2
  <2>1. Callback(e, "[") = <<"none">>
    BY <1>3 DEF Callback, C0
  <2>2. ParserStep(e, "[") = c
    BY <1>2, <1>3 DEF ParserStep, C0
  <2>3. OneByte(t1.more, "[") /\ MoreAfter(t1.more, "[") = t1.more
    BY <1>5 DEF OneByte, MoreAfter
  <2>4. Callback(t1.p, "[") = <<"none">> /\ ParserStep(t1.p, "[") = c
    BY <1>5, <2>1, <2>2
  <2>5. TermStep(t1, "[") = [t1 EXCEPT !.more = t1.more, !.p = c]
    <3>1. t1 \in Term
      BY <1>5
    <3> QED BY <2>3, <2>4, <3>1, QuietByte
  <2> QED BY <1>4, <1>5, <2>5 DEF Term
<1>8. TermStep(t2, b) = [TermCsi(t2, b) EXCEPT !.p = Ground]
  <2>1. Callback(c, b) = <<"csi_dispatch", b>>
    BY <1>1, <1>3 DEF Callback, C0
  <2>2. ParserStep(c, b) = Ground
    BY <1>1, <1>3 DEF ParserStep, C0
  <2>3. OneByte(t2.more, b) /\ MoreAfter(t2.more, b) = t2.more
    BY <1>1, <1>5 DEF OneByte, MoreAfter
  <2>4. TermStep(t2, b) = [TermDo([t2 EXCEPT !.more = t2.more], <<"csi_dispatch", b>>)
                             EXCEPT !.p = Ground]
    BY <1>5, <2>1, <2>2, <2>3, OneByteStep
  <2>5. [t2 EXCEPT !.more = t2.more] = t2
    BY <1>5 DEF Term
  <2>6. TermDo(t2, <<"csi_dispatch", b>>) = TermCsi(t2, b)
    BY DEF TermDo
  <2> QED BY <2>4, <2>5, <2>6
<1>9. Reads(t, <<"esc", "[", b>>) = TermStep(TermStep(TermStep(t, "esc"), "["), b)
  <2>1. PICK x, y, s2, s3 : x = "esc" /\ y = "[" /\ s2 = <<x, y>> /\ s3 = <<x, y, b>>
    OBVIOUS
  <2>2. x \in AllPieces /\ y \in AllPieces /\ b \in AllPieces
    BY <1>1, <2>1
  <2>3. s2 = <<x, y>> /\ s3 = <<x, y, b>>
    BY <2>1
  <2>4. Reads(t, s3) = TermStep(TermStep(TermStep(t, x), y), b)
    BY <2>2, <2>3, ReadsThree
  <2> QED BY <2>1, <2>4
<1> QED BY <1>2, <1>4, <1>6, <1>7, <1>8, <1>9

(* What the sequences do.                                                  *)
LEMMA CsiAsserts ==
    ASSUME NEW t \in Term
    PROVE  /\ TermCsi(t, "2J") = [t EXCEPT !.text = <<>>]
           /\ TermCsi(t, "0m") = [t EXCEPT !.state = [t.state EXCEPT !.sgr = {}]]
           /\ \A b \in Sgr : TermCsi(t, b) =
                [t EXCEPT !.state = [t.state EXCEPT !.sgr = t.state.sgr \cup {b}]]
           /\ \A b \in ModeOn : TermCsi(t, b) =
                [t EXCEPT !.state = [t.state EXCEPT !.modes = t.state.modes \cup {b}]]
           /\ TermCsi(t, "r") = [t EXCEPT !.state = [t.state EXCEPT !.region = {"r"}]]
           /\ TermCsi(t, "0r") = [t EXCEPT !.state = [t.state EXCEPT !.region = {}]]
           /\ \A b \in DOMAIN ModeOff : TermCsi(t, b) =
                [t EXCEPT !.state = [t.state EXCEPT !.modes = t.state.modes \ {ModeOff[b]}]]
           /\ TermCsi(t, "K") = [t EXCEPT !.text = Append(@, <<"K">>)]
           /\ \A b \in {"6n", "$p"} : TermCsi(t, b) = [t EXCEPT !.noise = t.noise \cup {b}]
<1>1. DOMAIN ModeOff = {"?1l", "?25l"}
  BY DEF ModeOff
<1>2. TermCsi(t, "2J") = [t EXCEPT !.text = <<>>]
  BY <1>1 DEF TermCsi, Sgr, ModeOn
<1>3. TermCsi(t, "0m") = [t EXCEPT !.state = [t.state EXCEPT !.sgr = {}]]
  BY <1>1 DEF TermCsi, Sgr, ModeOn
<1>4. \A b \in Sgr : TermCsi(t, b) =
         [t EXCEPT !.state = [t.state EXCEPT !.sgr = t.state.sgr \cup {b}]]
  BY <1>1 DEF TermCsi, Sgr, ModeOn, Term, State
<1>5. \A b \in ModeOn : TermCsi(t, b) =
         [t EXCEPT !.state = [t.state EXCEPT !.modes = t.state.modes \cup {b}]]
  BY <1>1 DEF TermCsi, Sgr, ModeOn, Term, State
<1>6. TermCsi(t, "r") = [t EXCEPT !.state = [t.state EXCEPT !.region = {"r"}]]
  BY <1>1 DEF TermCsi, Sgr, ModeOn
<1>7. TermCsi(t, "0r") = [t EXCEPT !.state = [t.state EXCEPT !.region = {}]]
  BY <1>1 DEF TermCsi, Sgr, ModeOn
<1>8. \A b \in DOMAIN ModeOff : TermCsi(t, b) =
         [t EXCEPT !.state = [t.state EXCEPT !.modes = t.state.modes \ {ModeOff[b]}]]
  BY <1>1 DEF TermCsi, Sgr, ModeOn, Term, State
<1>9. TermCsi(t, "K") = [t EXCEPT !.text = Append(@, <<"K">>)]
  BY <1>1 DEF TermCsi, Sgr, ModeOn
<1>10. \A b \in {"6n", "$p"} : TermCsi(t, b) = [t EXCEPT !.noise = t.noise \cup {b}]
  BY <1>1 DEF TermCsi, Sgr, ModeOn
<1> QED BY <1>2, <1>3, <1>4, <1>5, <1>6, <1>7, <1>8, <1>9, <1>10

(* A terminal between sequences.                                           *)
Idle(t) == t \in Term /\ t.p = Ground /\ t.more = 0
AfterCsi(t, b) == [TermCsi([t EXCEPT !.p = At("csi")], b) EXCEPT !.p = Ground]

(* A sequence of the prologue, when it is there.                           *)
LEMMA ReadsOneCsi ==
    ASSUME NEW t, Idle(t), NEW X, NEW b \in Csi
    PROVE  /\ OneCsi(b, X) \in Bytes
           /\ b \in X => Reads(t, OneCsi(b, X)) = AfterCsi(t, b)
           /\ b \notin X => Reads(t, OneCsi(b, X)) = t
<1>1. b \in AllPieces /\ "esc" \in AllPieces /\ "[" \in AllPieces
  BY PieceSets
<1>2. CASE b \notin X
  <2>1. OneCsi(b, X) = <<>>
    BY <1>2 DEF OneCsi
  <2> QED BY <1>2, <2>1, ReadsEmpty, BytesConcat
<1>3. CASE b \in X
  <2>1. OneCsi(b, X) = <<"esc", "[", b>>
    BY <1>3 DEF OneCsi
  <2>2. <<"esc", "[", b>> \in Bytes
    BY <1>1 DEF Bytes
  <2>3. Reads(t, <<"esc", "[", b>>) = AfterCsi(t, b)
    BY ReadsCsi DEF Idle, AfterCsi
  <2> QED BY <1>3, <2>1, <2>2, <2>3
<1> QED BY <1>2, <1>3

(* An OSC that has been read up to its terminator; any terminal between    *)
(* sequences gets there, with some bytes of a character to come or none.   *)
InOsc(body) == [at |-> "osc", body |-> body]
AtOsc(t, body, m) == [t EXCEPT !.p = InOsc(body), !.more = m]
AfterOsc(t, body) == [TermOsc([t EXCEPT !.p = InOsc(body)], body) EXCEPT !.p = Ground]
BodyOk(body) ==
    /\ body \in Bytes /\ body # <<>>
    /\ \A t : Idle(t) =>
          \E m \in Nat : Reads(t, <<"esc", "]">> \o body) = AtOsc(t, body, m)
CwdOk(body) == body = <<>> \/ (BodyOk(body) /\ Head(body) \in Cwds)
TitleOk(body) == body = <<>> \/ (BodyOk(body) /\ Head(body) \in Titles)

(* The terminator of an OSC.                                               *)
LEMMA OscEnds ==
    ASSUME NEW t, Idle(t), NEW body \in Bytes, NEW m \in Nat
    PROVE  TermStep(AtOsc(t, body, m), "bel") = AfterOsc(t, body)
<1>0. PICK u : u = [t EXCEPT !.p = InOsc(body), !.more = m]
  OBVIOUS
<1>1. PICK p : p = InOsc(body)
  OBVIOUS
<1>2. p \in Parser /\ p.at = "osc" /\ p.body = body
  BY <1>1 DEF InOsc, Parser
<1>3. u \in Term /\ u.p = p /\ u.more = m
  BY <1>0, <1>1, <1>2 DEF Idle, Term
<1>4. Callback(p, "bel") = <<"osc_dispatch", body>> /\ ParserStep(p, "bel") = Ground
  BY <1>2 DEF Callback, ParserStep
<1>5. OneByte(m, "bel") /\ MoreAfter(m, "bel") = 0
  BY DEF OneByte, MoreAfter
<1>6. TermStep(u, "bel") = [TermDo([u EXCEPT !.more = 0], <<"osc_dispatch", body>>)
                             EXCEPT !.p = Ground]
  BY <1>3, <1>4, <1>5, OneByteStep
<1>7. [u EXCEPT !.more = 0] = [t EXCEPT !.p = InOsc(body)]
  BY <1>0 DEF Idle, Term
<1>8. TermDo([t EXCEPT !.p = InOsc(body)], <<"osc_dispatch", body>>)
        = TermOsc([t EXCEPT !.p = InOsc(body)], body)
  BY DEF TermDo
<1> QED BY <1>0, <1>6, <1>7, <1>8 DEF AtOsc, AfterOsc

(* A title and a directory of the prologue.                                *)
LEMMA ReadsOneOsc ==
    ASSUME NEW t, Idle(t), NEW body
    PROVE  /\ CwdOk(body) =>
                /\ OneOsc(body) \in Bytes
                /\ body = <<>> => Reads(t, OneOsc(body)) = t
                /\ body # <<>> => Reads(t, OneOsc(body)) =
                                    [t EXCEPT !.state = [t.state EXCEPT !.cwd = body]]
           /\ TitleOk(body) =>
                /\ OneOsc(body) \in Bytes
                /\ body = <<>> => Reads(t, OneOsc(body)) = t
                /\ body # <<>> => Reads(t, OneOsc(body)) =
                                    [t EXCEPT !.state = [t.state EXCEPT !.title = body]]
<1>1. CASE body = <<>>
  <2>1. OneOsc(body) = <<>>
    BY <1>1 DEF OneOsc
  <2> QED BY <1>1, <2>1, ReadsEmpty, BytesConcat
<1>2. CASE body # <<>>
  <2>1. SUFFICES ASSUME BodyOk(body)
                 PROVE  /\ OneOsc(body) \in Bytes
                        /\ Head(body) \in Cwds => Reads(t, OneOsc(body)) =
                              [t EXCEPT !.state = [t.state EXCEPT !.cwd = body]]
                        /\ Head(body) \in Titles => Reads(t, OneOsc(body)) =
                              [t EXCEPT !.state = [t.state EXCEPT !.title = body]]
    BY <1>2 DEF CwdOk, TitleOk
  <2>2. body \in Bytes
    BY <2>1 DEF BodyOk
  <2>3. PICK s : s = <<"esc", "]">> \o body
    OBVIOUS
  <2>4. "bel" \in AllPieces /\ <<"esc", "]">> \in Bytes /\ <<"bel">> \in Bytes
    <3>1. "bel" \in AllPieces /\ "esc" \in AllPieces /\ "]" \in AllPieces
      BY PieceSets
    <3> QED BY <3>1 DEF Bytes
  <2>5. s \in Bytes
    BY <2>2, <2>3, <2>4, BytesConcat
  <2>6. OneOsc(body) = s \o <<"bel">> /\ s \o <<"bel">> = Append(s, "bel")
    <3>1. OneOsc(body) = s \o <<"bel">>
      BY <1>2, <2>3 DEF OneOsc
    <3>2. s \o <<"bel">> = Append(s, "bel")
      BY <2>5 DEF Bytes
    <3> QED BY <3>1, <3>2
  <2>7. Reads(t, OneOsc(body)) = TermStep(Reads(t, s), "bel")
    <3>1. PICK x : x = "bel"
      OBVIOUS
    <3>2. x \in AllPieces /\ OneOsc(body) = Append(s, x)
      BY <2>4, <2>6, <3>1
    <3>3. Reads(t, Append(s, x)) = TermStep(Reads(t, s), x)
      BY <2>5, <3>2, ReadsByte
    <3> QED BY <3>1, <3>2, <3>3
  <2>8. PICK m \in Nat : Reads(t, s) = AtOsc(t, body, m)
    BY <2>1, <2>3 DEF BodyOk
  <2>9. PICK u : u = [t EXCEPT !.p = InOsc(body)]
    OBVIOUS
  <2>10. Reads(t, OneOsc(body)) = [TermOsc(u, body) EXCEPT !.p = Ground]
    BY <2>2, <2>7, <2>8, <2>9, OscEnds DEF AfterOsc
  <2>11. /\ Head(body) \in Cwds => TermOsc(u, body) = [u EXCEPT !.state.cwd = body]
         /\ Head(body) \in Titles => TermOsc(u, body) = [u EXCEPT !.state.title = body]
    BY DEF TermOsc, Cwds, Titles
  <2>12. /\ [[u EXCEPT !.state.cwd = body] EXCEPT !.p = Ground]
              = [t EXCEPT !.state = [t.state EXCEPT !.cwd = body]]
         /\ [[u EXCEPT !.state.title = body] EXCEPT !.p = Ground]
              = [t EXCEPT !.state = [t.state EXCEPT !.title = body]]
    BY <2>9 DEF Idle, Term, State
  <2>13. OneOsc(body) \in Bytes
    BY <2>4, <2>5, <2>6, BytesConcat
  <2> QED BY <2>10, <2>11, <2>12, <2>13
<1> QED BY <1>1, <1>2

InState(t, s) == [t EXCEPT !.state = s]

(* Changing the state leaves a terminal between sequences.                 *)
LEMMA InStateIdle ==
    ASSUME NEW t, Idle(t), NEW s \in State
    PROVE  /\ Idle(InState(t, s)) /\ InState(t, s).state = s
           /\ \A r : InState(InState(t, s), r) = InState(t, r)
<1>1. PICK u : u = InState(t, s)
  OBVIOUS
<1>2. u = [t EXCEPT !.state = s]
  BY <1>1 DEF InState
<1>3. Idle(u) /\ u.state = s
  BY <1>2 DEF Idle, Term
<1>4. \A r : [u EXCEPT !.state = r] = [t EXCEPT !.state = r]
  BY <1>2
<1> QED BY <1>1, <1>3, <1>4 DEF InState

WithSgr(s, v) == [s EXCEPT !.sgr = v]
WithModes(s, v) == [s EXCEPT !.modes = v]
WithRegion(s, v) == [s EXCEPT !.region = v]
WithCwd(s, v) == [s EXCEPT !.cwd = v]
WithTitle(s, v) == [s EXCEPT !.title = v]
WithPalette(s, v) == [s EXCEPT !.palette = v]

(* A terminal in some state that reads a CSI which changes the state.      *)
LEMMA CsiInState ==
    ASSUME NEW t, Idle(t), NEW s \in State, NEW b \in Csi, NEW r,
           \A u \in Term : u.state = s => TermCsi(u, b) = InState(u, r)
    PROVE  AfterCsi(InState(t, s), b) = InState(t, r)
<1>1. PICK u, v : u = InState(t, s) /\ v = [u EXCEPT !.p = At("csi")]
  OBVIOUS
<1>2. Idle(u) /\ u.state = s /\ InState(u, r) = InState(t, r)
  BY <1>1, InStateIdle
<1>3. v \in Term /\ v.state = s
  BY <1>1, <1>2, BytesConcat DEF Idle, Term, At, Parser
<1>4. TermCsi(v, b) = [v EXCEPT !.state = r]
  BY <1>3 DEF InState
<1>5. [[v EXCEPT !.state = r] EXCEPT !.p = Ground] = [u EXCEPT !.state = r]
  BY <1>1, <1>2 DEF Idle, Term
<1> QED BY <1>1, <1>2, <1>4, <1>5 DEF AfterCsi, InState

(* The reset that every prologue begins with.                              *)
LEMMA ResetAsserted ==
    ASSUME NEW t, Idle(t), NEW s \in State
    PROVE  Reads(InState(t, s), <<"esc", "[", "0m">>) = InState(t, WithSgr(s, {}))
<1>1. \A u \in Term : u.state = s => TermCsi(u, "0m") = InState(u, WithSgr(s, {}))
  BY CsiAsserts DEF InState, WithSgr
<1>2. "0m" \in Csi
  BY PieceSets
<1>3. AfterCsi(InState(t, s), "0m") = InState(t, WithSgr(s, {}))
  BY <1>1, <1>2, CsiInState
<1>4. Idle(InState(t, s))
  BY InStateIdle
<1> QED BY <1>2, <1>3, <1>4, ReadsCsi DEF Idle, AfterCsi

(* The attributes.                                                         *)
LEMMA SgrAsserted ==
    ASSUME NEW t, Idle(t), NEW s \in State, NEW X, NEW b \in Sgr
    PROVE  Reads(InState(t, s), OneCsi(b, X))
             = InState(t, WithSgr(s, s.sgr \cup (X \cap {b})))
<1>1. PICK r : r = WithSgr(s, s.sgr \cup {b})
  OBVIOUS
<1>2. b \in Csi
  BY DEF Csi
<1>3. \A u \in Term : u.state = s => TermCsi(u, b) = InState(u, r)
  BY <1>1, CsiAsserts DEF InState, WithSgr
<1>4. AfterCsi(InState(t, s), b) = InState(t, r)
  BY <1>2, <1>3, CsiInState
<1>5. Idle(InState(t, s))
  BY InStateIdle
<1>6. CASE b \in X
  <2>1. X \cap {b} = {b}
    BY <1>6
  <2> QED BY <1>1, <1>2, <1>4, <1>5, <1>6, <2>1, ReadsOneCsi
<1>7. CASE b \notin X
  <2>1. s.sgr \cup (X \cap {b}) = s.sgr
    BY <1>7
  <2>2. WithSgr(s, s.sgr) = s
    BY DEF WithSgr, State
  <2>3. Reads(InState(t, s), OneCsi(b, X)) = InState(t, s)
    BY <1>2, <1>5, <1>7, ReadsOneCsi
  <2> QED BY <2>1, <2>2, <2>3
<1> QED BY <1>6, <1>7

(* The modes.                                                              *)
LEMMA ModeAsserted ==
    ASSUME NEW t, Idle(t), NEW s \in State, NEW X, NEW b \in ModeOn
    PROVE  Reads(InState(t, s), OneCsi(b, X))
             = InState(t, WithModes(s, s.modes \cup (X \cap {b})))
<1>1. PICK r : r = WithModes(s, s.modes \cup {b})
  OBVIOUS
<1>2. b \in Csi
  BY DEF Csi
<1>3. \A u \in Term : u.state = s => TermCsi(u, b) = InState(u, r)
  BY <1>1, CsiAsserts DEF InState, WithModes
<1>4. AfterCsi(InState(t, s), b) = InState(t, r)
  BY <1>2, <1>3, CsiInState
<1>5. Idle(InState(t, s))
  BY InStateIdle
<1>6. CASE b \in X
  <2>1. X \cap {b} = {b}
    BY <1>6
  <2> QED BY <1>1, <1>2, <1>4, <1>5, <1>6, <2>1, ReadsOneCsi
<1>7. CASE b \notin X
  <2>1. s.modes \cup (X \cap {b}) = s.modes
    BY <1>7
  <2>2. WithModes(s, s.modes) = s
    BY DEF WithModes, State
  <2>3. Reads(InState(t, s), OneCsi(b, X)) = InState(t, s)
    BY <1>2, <1>5, <1>7, ReadsOneCsi
  <2> QED BY <2>1, <2>2, <2>3
<1> QED BY <1>6, <1>7

(* The scroll region.                                                      *)
LEMMA RegionAsserted ==
    ASSUME NEW t, Idle(t), NEW s \in State, NEW X
    PROVE  /\ "r" \in X => Reads(InState(t, s), OneCsi("r", X)) = InState(t, WithRegion(s, {"r"}))
           /\ "r" \notin X => Reads(InState(t, s), OneCsi("r", X)) = InState(t, s)
<1>1. PICK r : r = WithRegion(s, {"r"})
  OBVIOUS
<1>2. "r" \in Csi
  BY PieceSets
<1>3. \A u \in Term : u.state = s => TermCsi(u, "r") = InState(u, r)
  BY <1>1, CsiAsserts DEF InState, WithRegion
<1>4. AfterCsi(InState(t, s), "r") = InState(t, r)
  BY <1>2, <1>3, CsiInState
<1>5. Idle(InState(t, s))
  BY InStateIdle
<1> QED BY <1>1, <1>2, <1>4, <1>5, ReadsOneCsi

(* The directory and the title.                                            *)
LEMMA OscAsserted ==
    ASSUME NEW t, Idle(t), NEW s \in State, NEW X
    PROVE  /\ CwdOk(X) /\ X # <<>> =>
                Reads(InState(t, s), OneOsc(X)) = InState(t, WithCwd(s, X))
           /\ TitleOk(X) /\ X # <<>> =>
                Reads(InState(t, s), OneOsc(X)) = InState(t, WithTitle(s, X))
           /\ X = <<>> => Reads(InState(t, s), OneOsc(X)) = InState(t, s)
<1>1. PICK u : u = InState(t, s)
  OBVIOUS
<1>2. Idle(u) /\ u.state = s /\ \A r : InState(u, r) = InState(t, r)
  BY <1>1, InStateIdle
<1>3. \A r : [u EXCEPT !.state = r] = InState(t, r)
  BY <1>2 DEF InState
<1>4. CwdOk(X) /\ X # <<>> => Reads(u, OneOsc(X)) = InState(t, WithCwd(s, X))
  <2>1. CwdOk(X) /\ X # <<>> =>
          Reads(u, OneOsc(X)) = [u EXCEPT !.state = [u.state EXCEPT !.cwd = X]]
    BY <1>2, ReadsOneOsc
  <2> QED BY <1>2, <1>3, <2>1 DEF WithCwd
<1>5. TitleOk(X) /\ X # <<>> => Reads(u, OneOsc(X)) = InState(t, WithTitle(s, X))
  <2>1. TitleOk(X) /\ X # <<>> =>
          Reads(u, OneOsc(X)) = [u EXCEPT !.state = [u.state EXCEPT !.title = X]]
    BY <1>2, ReadsOneOsc
  <2> QED BY <1>2, <1>3, <2>1 DEF WithTitle
<1>6. X = <<>> => Reads(u, OneOsc(X)) = u
  BY ReadsEmpty DEF OneOsc
<1> QED BY <1>1, <1>4, <1>5, <1>6

(* The state that a prologue leaves a fresh terminal in.                   *)
Restored(k) ==
    [sgr |-> k.sgr, modes |-> DefaultOn \cup k.modes, region |-> k.region,
     cwd |-> k.cwd, title |-> k.title, palette |-> {}]

(* build_serialized: a fresh terminal that reads the prologue is in that   *)
(* state, and shows nothing else.                                          *)
LEMMA SerializeRestores ==
    ASSUME NEW t, Idle(t), t.state = ColdState,
           NEW s \in Sticky, CwdOk(s.cwd), TitleOk(s.title)
    PROVE  /\ BuildSerialized(s) \in Bytes
           /\ Reads(t, BuildSerialized(s)) = InState(t, Restored(s))
<1>1. PICK x0, x1, x2, x3, x4, x8, x5, x6, x7 :
        /\ x0 = <<"esc", "[", "0m">>
        /\ x1 = OneCsi("1m", s.sgr) /\ x2 = OneCsi("4m", s.sgr)
        /\ x3 = OneCsi("?1h", s.modes) /\ x4 = OneCsi("?2h", s.modes)
        /\ x8 = OneCsi("?25h", s.modes)
        /\ x5 = OneCsi("r", s.region) /\ x6 = OneOsc(s.cwd) /\ x7 = OneOsc(s.title)
  OBVIOUS
<1>2. /\ s.sgr \subseteq {"1m", "4m"} /\ s.modes \subseteq {"?1h", "?2h", "?25h"}
      /\ s.region \subseteq {"r"} /\ s.cwd \in Bytes /\ s.title \in Bytes
  BY DEF Sticky, Sgr, ModeOn
<1>3. PICK s0 : s0 = ColdState
  OBVIOUS
<1>4. s0 \in State /\ t.state = s0 /\ InState(t, s0) = t
      /\ s0.sgr = {} /\ s0.modes = DefaultOn /\ s0.region = {} /\ s0.cwd = <<>>
      /\ s0.title = <<>> /\ s0.palette = {}
  BY <1>3, ColdType DEF InState, Idle, Term, ColdState
<1>5. /\ x0 \in Bytes /\ x1 \in Bytes /\ x2 \in Bytes /\ x3 \in Bytes
      /\ x4 \in Bytes /\ x8 \in Bytes /\ x5 \in Bytes /\ x6 \in Bytes /\ x7 \in Bytes
  <2>1. \A b \in {"0m", "1m", "4m", "?1h", "?2h", "?25h", "r"} : b \in Csi
    BY PieceSets
  <2>2. x0 \in Bytes
    BY <1>1, PieceSets DEF Bytes
  <2>3. \A X : \A b \in Csi : OneCsi(b, X) \in Bytes
    BY ReadsOneCsi
  <2>4. x1 \in Bytes /\ x2 \in Bytes /\ x3 \in Bytes /\ x4 \in Bytes
        /\ x8 \in Bytes /\ x5 \in Bytes
    BY <1>1, <2>1, <2>3
  <2>5. x6 \in Bytes /\ x7 \in Bytes
    BY <1>1, ReadsOneOsc
  <2> QED BY <2>2, <2>4, <2>5
<1>6. PICK y1, y2, y3, y4, y8, y5, y6, y7 :
        /\ y1 = x0 \o x1 /\ y2 = y1 \o x2 /\ y3 = y2 \o x3 /\ y4 = y3 \o x4
        /\ y8 = y4 \o x8 /\ y5 = y8 \o x5 /\ y6 = y5 \o x6 /\ y7 = y6 \o x7
  OBVIOUS
<1>7. BuildSerialized(s) = y7
  BY <1>1, <1>6 DEF BuildSerialized
<1>8. /\ y1 \in Bytes /\ y2 \in Bytes /\ y3 \in Bytes /\ y4 \in Bytes
      /\ y8 \in Bytes /\ y5 \in Bytes /\ y6 \in Bytes /\ y7 \in Bytes
  BY <1>5, <1>6, BytesConcat
<1>9. PICK s1, s2, s3, s4, s8, s5, s6, s7 :
        /\ s1 = WithSgr(s0, s0.sgr \cup (s.sgr \cap {"1m"}))
        /\ s2 = WithSgr(s1, s1.sgr \cup (s.sgr \cap {"4m"}))
        /\ s3 = WithModes(s2, s2.modes \cup (s.modes \cap {"?1h"}))
        /\ s4 = WithModes(s3, s3.modes \cup (s.modes \cap {"?2h"}))
        /\ s8 = WithModes(s4, s4.modes \cup (s.modes \cap {"?25h"}))
        /\ s5 = IF "r" \in s.region THEN WithRegion(s8, {"r"}) ELSE s8
        /\ s6 = IF s.cwd # <<>> THEN WithCwd(s5, s.cwd) ELSE s5
        /\ s7 = IF s.title # <<>> THEN WithTitle(s6, s.title) ELSE s6
  OBVIOUS
<1>35. /\ s5 = IF "r" \in s.region THEN WithRegion(s8, {"r"}) ELSE s8
       /\ s6 = IF s.cwd # <<>> THEN WithCwd(s5, s.cwd) ELSE s5
       /\ s7 = IF s.title # <<>> THEN WithTitle(s6, s.title) ELSE s6
  BY <1>9
<1>10. WithSgr(s0, {}) = s0
  BY <1>4 DEF WithSgr, State
<1>11. s1 \in State /\ s1 = [s0 EXCEPT !.sgr = s.sgr \cap {"1m"}]
  BY <1>2, <1>4, <1>9 DEF WithSgr, State, Sgr
<1>12. s2 \in State /\ s2 = [s0 EXCEPT !.sgr = s.sgr]
  <2>1. (s.sgr \cap {"1m"}) \cup (s.sgr \cap {"4m"}) = s.sgr
    BY <1>2
  <2> QED BY <1>2, <1>4, <1>9, <1>11, <2>1 DEF WithSgr, State, Sgr
<1>13. PICK m0, m1, m2, m3 :
         /\ m0 = DefaultOn /\ m1 = m0 \cup (s.modes \cap {"?1h"})
         /\ m2 = m1 \cup (s.modes \cap {"?2h"}) /\ m3 = m2 \cup (s.modes \cap {"?25h"})
  OBVIOUS
<1>14. /\ m0 \subseteq ModeOn /\ m1 \subseteq ModeOn /\ m2 \subseteq ModeOn /\ m3 \subseteq ModeOn
       /\ m3 = DefaultOn \cup s.modes
  BY <1>2, <1>13 DEF ModeOn, DefaultOn
<1>30. s2.modes = m0 /\ s2.region = {} /\ s2.cwd = <<>> /\ s2.title = <<>> /\ s2.palette = {}
  BY <1>4, <1>12, <1>13 DEF State
<1>31. s3 \in State /\ s3 = [s2 EXCEPT !.modes = m1]
  BY <1>9, <1>12, <1>13, <1>14, <1>30 DEF WithModes, State
<1>32. s4 \in State /\ s4 = [s2 EXCEPT !.modes = m2]
  BY <1>9, <1>12, <1>13, <1>14, <1>31 DEF WithModes, State
<1>33. s8 \in State /\ s8 = [s2 EXCEPT !.modes = m3]
  BY <1>9, <1>12, <1>13, <1>14, <1>32 DEF WithModes, State
<1>15. s5 \in State /\ s5 = [s8 EXCEPT !.region = s.region]
  <2>1. s8.region = {}
    BY <1>12, <1>30, <1>33 DEF State
  <2>2. CASE "r" \in s.region
    <3>1. s.region = {"r"}
      BY <1>2, <2>2
    <3> QED BY <1>33, <1>35, <2>2, <3>1 DEF WithRegion, State
  <2>3. CASE "r" \notin s.region
    <3>1. s.region = {}
      BY <1>2, <2>3
    <3>2. s5 = s8
      BY <1>35, <2>3
    <3> QED BY <1>33, <2>1, <3>1, <3>2 DEF State
  <2> QED BY <2>2, <2>3
<1>16. s6 \in State /\ s6 = [s5 EXCEPT !.cwd = s.cwd]
  <2>1. s5.cwd = <<>>
    BY <1>12, <1>15, <1>30, <1>33 DEF State
  <2>2. CASE s.cwd # <<>>
    <3>1. s6 = WithCwd(s5, s.cwd) /\ s5 \in State /\ s.cwd \in Bytes
      BY <1>2, <1>15, <1>35, <2>2
    <3> QED BY <3>1 DEF WithCwd, State
  <2>3. CASE s.cwd = <<>>
    <3>1. s6 = s5 /\ s5 \in State
      BY <1>15, <1>35, <2>3
    <3>2. s5 = [s5 EXCEPT !.cwd = <<>>]
      BY <2>1, <3>1 DEF State
    <3> QED BY <2>3, <3>1, <3>2
  <2> QED BY <2>2, <2>3
<1>17. s7 = [s6 EXCEPT !.title = s.title]
  <2>1. s6.title = <<>>
    BY <1>12, <1>15, <1>16, <1>30, <1>33 DEF State
  <2>2. CASE s.title # <<>>
    BY <1>35, <2>2 DEF WithTitle
  <2>3. CASE s.title = <<>>
    <3>1. s7 = s6 /\ s6 \in State
      BY <1>16, <1>35, <2>3
    <3>2. s6 = [s6 EXCEPT !.title = <<>>]
      BY <2>1, <3>1 DEF State
    <3> QED BY <2>3, <3>1, <3>2
  <2> QED BY <2>2, <2>3
<1>18. s7 = Restored(s)
  <2>1. s8 = [s2 EXCEPT !.modes = DefaultOn \cup s.modes]
    BY <1>14, <1>33
  <2>2. s2.sgr = s.sgr
    BY <1>4, <1>12 DEF State
  <2> QED BY <1>12, <1>15, <1>16, <1>17, <1>30, <2>1, <2>2 DEF State, Restored
<1>19. Reads(t, y1) = InState(t, s1)
  <2>1. Reads(InState(t, s0), x0) = InState(t, s0)
    BY <1>1, <1>4, <1>10, ResetAsserted
  <2>2. Reads(InState(t, s0), x1) = InState(t, s1)
    <3>1. s0 \in State /\ "1m" \in Sgr
      BY <1>4 DEF Sgr
    <3>2. Reads(InState(t, s0), OneCsi("1m", s.sgr))
            = InState(t, WithSgr(s0, s0.sgr \cup (s.sgr \cap {"1m"})))
      BY <3>1, SgrAsserted
    <3> QED BY <1>1, <1>9, <3>2
  <2> QED BY <1>4, <1>5, <1>6, <2>1, <2>2, ReadsBytes
<1>20. Reads(t, y2) = InState(t, s2)
  <2>1. Reads(InState(t, s1), x2) = InState(t, s2)
    <3>1. s1 \in State /\ "4m" \in Sgr
      BY <1>11 DEF Sgr
    <3>2. Reads(InState(t, s1), OneCsi("4m", s.sgr))
            = InState(t, WithSgr(s1, s1.sgr \cup (s.sgr \cap {"4m"})))
      BY <3>1, SgrAsserted
    <3> QED BY <1>1, <1>9, <3>2
  <2> QED BY <1>5, <1>6, <1>8, <1>19, <2>1, ReadsBytes
<1>21. Reads(t, y3) = InState(t, s3)
  <2>1. Reads(InState(t, s2), x3) = InState(t, s3)
    <3>1. s2 \in State /\ "?1h" \in ModeOn
      BY <1>12 DEF ModeOn
    <3>2. Reads(InState(t, s2), OneCsi("?1h", s.modes))
            = InState(t, WithModes(s2, s2.modes \cup (s.modes \cap {"?1h"})))
      BY <3>1, ModeAsserted
    <3> QED BY <1>1, <1>9, <3>2
  <2> QED BY <1>5, <1>6, <1>8, <1>20, <2>1, ReadsBytes
<1>22. Reads(t, y4) = InState(t, s4)
  <2>1. Reads(InState(t, s3), x4) = InState(t, s4)
    <3>1. s3 \in State /\ "?2h" \in ModeOn
      BY <1>31 DEF ModeOn
    <3>2. Reads(InState(t, s3), OneCsi("?2h", s.modes))
            = InState(t, WithModes(s3, s3.modes \cup (s.modes \cap {"?2h"})))
      BY <3>1, ModeAsserted
    <3> QED BY <1>1, <1>9, <3>2
  <2> QED BY <1>5, <1>6, <1>8, <1>21, <2>1, ReadsBytes
<1>34. Reads(t, y8) = InState(t, s8)
  <2>1. Reads(InState(t, s4), x8) = InState(t, s8)
    <3>1. s4 \in State /\ "?25h" \in ModeOn
      BY <1>32 DEF ModeOn
    <3>2. Reads(InState(t, s4), OneCsi("?25h", s.modes))
            = InState(t, WithModes(s4, s4.modes \cup (s.modes \cap {"?25h"})))
      BY <3>1, ModeAsserted
    <3> QED BY <1>1, <1>9, <3>2
  <2> QED BY <1>5, <1>6, <1>8, <1>22, <2>1, ReadsBytes
<1>23. Reads(t, y5) = InState(t, s5)
  <2>1. Reads(InState(t, s8), x5) = InState(t, s5)
    <3>1. s8 \in State
      BY <1>33
    <3>2. /\ "r" \in s.region => Reads(InState(t, s8), OneCsi("r", s.region))
                                   = InState(t, WithRegion(s8, {"r"}))
          /\ "r" \notin s.region => Reads(InState(t, s8), OneCsi("r", s.region))
                                      = InState(t, s8)
      BY <3>1, RegionAsserted
    <3>3. x5 = OneCsi("r", s.region)
      BY <1>1
    <3> QED BY <1>35, <3>2, <3>3
  <2> QED BY <1>5, <1>6, <1>8, <1>34, <2>1, ReadsBytes
<1>24. Reads(t, y6) = InState(t, s6)
  <2>1. Reads(InState(t, s5), x6) = InState(t, s6)
    <3>1. s5 \in State
      BY <1>15
    <3>2. /\ s.cwd # <<>> => Reads(InState(t, s5), OneOsc(s.cwd)) = InState(t, WithCwd(s5, s.cwd))
          /\ s.cwd = <<>> => Reads(InState(t, s5), OneOsc(s.cwd)) = InState(t, s5)
      BY <3>1, OscAsserted
    <3>3. x6 = OneOsc(s.cwd)
      BY <1>1
    <3> QED BY <1>35, <3>2, <3>3
  <2> QED BY <1>5, <1>6, <1>8, <1>23, <2>1, ReadsBytes
<1>25. Reads(t, y7) = InState(t, s7)
  <2>1. Reads(InState(t, s6), x7) = InState(t, s7)
    <3>1. s6 \in State
      BY <1>16
    <3>2. /\ s.title # <<>> => Reads(InState(t, s6), OneOsc(s.title)) = InState(t, WithTitle(s6, s.title))
          /\ s.title = <<>> => Reads(InState(t, s6), OneOsc(s.title)) = InState(t, s6)
      BY <3>1, OscAsserted
    <3>3. /\ x7 = OneOsc(s.title)
          /\ s.title # <<>> => s7 = WithTitle(s6, s.title)
          /\ s.title = <<>> => s7 = s6
      BY <1>1, <1>9
    <3> QED BY <3>2, <3>3
  <2> QED BY <1>5, <1>6, <1>8, <1>24, <2>1, ReadsBytes
<1> QED BY <1>7, <1>8, <1>18, <1>25

-----------------------------------------------------------------------------
(* The scanner, byte by byte.                                              *)

Scan == [p : Parser, sticky : Sticky, cache : Bytes,
         st : {"none", "keep", "drop"}, ev : {"none", "keep", "drop", "clear"},
         pending : Bytes, utf8 : Nat, chunks : Seq(Chunk)]

(* What the sink can make of a call, and the scanner when it has seen b:   *)
(* advance_one up to take_event, and what comes after.                     *)
Sunk(s, e, f, k, c) == [s EXCEPT !.ev = e, !.st = f, !.sticky = k, !.cache = c]
Pushed(s, b) == [s EXCEPT !.utf8 = MoreAfter(s.utf8, b), !.pending = Append(s.pending, b),
                          !.ev = "none"]
Seen(s, b) == [Dispatch(Pushed(s, b), Callback(s.p, b)) EXCEPT !.p = ParserStep(s.p, b)]
Settled(n) == CASE n.ev = "none"  -> n
                [] n.ev = "keep"  -> Keep(n)
                [] n.ev = "drop"  -> [n EXCEPT !.pending = <<>>]
                [] n.ev = "clear" -> Purge(n)

(* feed, for a byte that is not the terminator 0x9C.                       *)
LEMMA FeedOneByteIs ==
    ASSUME NEW s \in Scan, NEW b, OneByte(s.utf8, b)
    PROVE  FeedOne(s, b) = Settled(Seen(s, b))
<1>1. PICK m, u : m = MoreAfter(s.utf8, b) /\ u = [s EXCEPT !.utf8 = m]
  OBVIOUS
<1>2. s.utf8 \in Nat
  BY DEF Scan
<1>3. FeedOne(s, b) = AdvanceOne(u, b)
  <2>1. CASE s.utf8 > 0 /\ b \in {"9c", "93"}
    <3>1. u = [s EXCEPT !.utf8 = @ - 1]
      BY <1>1, <2>1 DEF MoreAfter
    <3> QED BY <2>1, <3>1 DEF FeedOne
  <2>2. CASE ~(s.utf8 > 0 /\ b \in {"9c", "93"})
    <3>1. u = [s EXCEPT !.utf8 = IF b = "lead" THEN 2 ELSE 0]
      BY <1>1, <2>2 DEF MoreAfter
    <3>2. b # "9c"
      BY <2>2 DEF OneByte
    <3> QED BY <2>2, <3>1, <3>2 DEF FeedOne
  <2> QED BY <2>1, <2>2
<1>4. u.p = s.p /\ u.pending = s.pending
  BY <1>1 DEF Scan
<1>5. [u EXCEPT !.pending = Append(@, b), !.ev = "none"] = Pushed(s, b)
  BY <1>1, <1>4 DEF Pushed
<1>6. PICK n : n = Seen(s, b)
  OBVIOUS
<1>7. n = [Dispatch([u EXCEPT !.pending = Append(@, b), !.ev = "none"], Callback(u.p, b))
             EXCEPT !.p = ParserStep(u.p, b)]
  BY <1>4, <1>5, <1>6 DEF Seen
<1>8. AdvanceOne(u, b) = Settled(n)
  BY <1>7 DEF AdvanceOne, Settled
<1> QED BY <1>3, <1>6, <1>8

(* The scanner with a byte pushed.                                         *)
LEMMA PushedType ==
    ASSUME NEW s \in Scan, NEW b \in AllPieces
    PROVE  /\ Pushed(s, b) \in Scan
           /\ Pushed(s, b).p = s.p /\ Pushed(s, b).chunks = s.chunks
           /\ Pushed(s, b).sticky = s.sticky /\ Pushed(s, b).cache = s.cache
           /\ Pushed(s, b).st = s.st /\ Pushed(s, b).ev = "none"
           /\ Pushed(s, b).pending = Append(s.pending, b)
           /\ Pushed(s, b).utf8 = MoreAfter(s.utf8, b)
<1>1. PICK u : u = Pushed(s, b)
  OBVIOUS
<1>2. MoreAfter(s.utf8, b) \in Nat
  BY DEF MoreAfter, Scan
<1>3. Append(s.pending, b) \in Bytes
  <2>1. s.pending \in Bytes
    BY DEF Scan
  <2> QED BY <2>1, BytesConcat
<1>4. /\ u \in Scan
      /\ u.p = s.p /\ u.chunks = s.chunks /\ u.sticky = s.sticky /\ u.cache = s.cache
      /\ u.st = s.st /\ u.ev = "none"
      /\ u.pending = Append(s.pending, b) /\ u.utf8 = MoreAfter(s.utf8, b)
  BY <1>1, <1>2, <1>3 DEF Pushed, Scan
<1> QED BY <1>1, <1>4

(* The scanner when the sink has been called.                              *)
LEMMA SeenIs ==
    ASSUME NEW s \in Scan, NEW b \in AllPieces,
           NEW e \in {"none", "keep", "drop", "clear"}, NEW f \in {"none", "keep", "drop"},
           NEW k \in Sticky, NEW c \in Bytes, ParserStep(s.p, b) \in Parser,
           Dispatch(Pushed(s, b), Callback(s.p, b)) = Sunk(Pushed(s, b), e, f, k, c)
    PROVE  /\ Seen(s, b) \in Scan
           /\ Seen(s, b).p = ParserStep(s.p, b) /\ Seen(s, b).chunks = s.chunks
           /\ Seen(s, b).sticky = k /\ Seen(s, b).cache = c
           /\ Seen(s, b).st = f /\ Seen(s, b).ev = e
           /\ Seen(s, b).pending = Append(s.pending, b)
           /\ Seen(s, b).utf8 = MoreAfter(s.utf8, b)
<1>1. PICK u, q, n : u = Pushed(s, b) /\ q = ParserStep(s.p, b) /\ n = Seen(s, b)
  OBVIOUS
<1>2. /\ u \in Scan
      /\ u.chunks = s.chunks /\ u.pending = Append(s.pending, b)
      /\ u.utf8 = MoreAfter(s.utf8, b)
  BY <1>1, PushedType
<1>3. n = [[u EXCEPT !.ev = e, !.st = f, !.sticky = k, !.cache = c] EXCEPT !.p = q]
  BY <1>1 DEF Seen, Sunk
<1>4. /\ n \in Scan
      /\ n.p = q /\ n.chunks = u.chunks /\ n.sticky = k /\ n.cache = c
      /\ n.st = f /\ n.ev = e /\ n.pending = u.pending /\ n.utf8 = u.utf8
  <2>1. q \in Parser /\ u \in Scan
    BY <1>1, <1>2
  <2> QED BY <1>3, <2>1 DEF Scan
<1> QED BY <1>1, <1>2, <1>4

-----------------------------------------------------------------------------
(* The invariant.                                                          *)

(* Between the ESC and the backslash that end an OSC; when it was kept.    *)
Mid(p) == p.at = "esc" /\ p.body # <<>>
Split(p, f) == Mid(p) /\ f = "keep"

(* These bytes do nothing to a terminal yet but take its parser to p.      *)
Placed(t, p, m) == [t EXCEPT !.p = p, !.more = m]
Tracks(bytes, p, m) == \A t : Idle(t) => Reads(t, bytes) = Placed(t, p, m)

EndsIn(text, end) == \E u \in Seq(TextItem) : text = u \o end

(* The scanner and the terminal read the same.                             *)
TypesOk(s, t) == s \in Scan /\ t \in Term /\ s.p = t.p /\ s.utf8 = t.more

(* The pending bytes are those of the span in progress, and no more.       *)
Shape(p, bytes, m) ==
    /\ p.at \in {"ground", "char", "csi"} => p.body = <<>>
    /\ p.at \in {"ground", "esc"} => m = 0
    /\ p.at = "char" => m \in {1, 2}
    /\ p.at = "esc" /\ p.body = <<>> => bytes = <<"esc">>
    /\ p.at = "osc" => bytes = <<"esc", "]">> \o p.body
    /\ p.at = "osc" /\ p.body # <<>> => Head(p.body) \in Osc
    /\ p.at = "ground" \/ Mid(p) => bytes = <<>>
SpanOk(s) ==
    /\ Shape(s.p, s.pending, s.utf8)
    /\ Mid(s.p) => s.st \in {"keep", "drop"}
    /\ ~Mid(s.p) => Tracks(s.pending, s.p, s.utf8)

(* What the sticky state k knows of the terminal's r: one of its           *)
(* attributes, if there are any; the modes, but for one that began on; the *)
(* rest.                                                                   *)
Agrees(k, r) ==
    /\ k.sgr \subseteq r.sgr /\ (k.sgr = {} => r.sgr = {})
    /\ k.modes \subseteq r.modes /\ r.modes \subseteq DefaultOn \cup k.modes
    /\ k.region = r.region /\ k.cwd = r.cwd /\ k.title = r.title

(* The cache is up to date; until a RIS (R) the sticky state is what it    *)
(* should be.                                                              *)
StickyOk(s, t, R) ==
    /\ CwdOk(s.sticky.cwd) /\ TitleOk(s.sticky.title)
    /\ s.cache = <<>> \/ s.cache = BuildSerialized(s.sticky)
    /\ ~R => Agrees(s.sticky, t.state)

(* A terminal v that has read the replay from chunk j has asked only what  *)
(* is kept and is between sequences (or where the ring was cut in the      *)
(* terminator of an OSC).  From a sound chunk it is in the state of t, and *)
(* shows the end of what t shows.                                          *)
ChunkOk(j, G, v, p, f, t) ==
    /\ v \in Term /\ v.noise \subseteq KeptQueries /\ v.more = 0
    /\ v.p = Ground \/ (Split(p, f) /\ v.p = p)
    /\ j \in G => /\ v.state = t.state /\ EndsIn(t.text, v.text)
                  /\ Split(p, f) => v.p = p
                  /\ j = 1 => v.text = t.text
RingOk(s, t, G) ==
    /\ s.chunks # <<>> /\ G \subseteq 1..Len(s.chunks)
    /\ \A j \in 1..Len(s.chunks) :
          ChunkOk(j, G, Shown(ReplayFrom(s.chunks, j)), s.p, s.st, t)

EngineOk(s, t, R, G) ==
    TypesOk(s, t) /\ SpanOk(s) /\ StickyOk(s, t, R) /\ RingOk(s, t, G)

(* The last chunk of s joins the sound ones when the ring had l chunks     *)
(* before and it begins where its prologue can say the state.              *)
Gain(G, l, s, t, R) ==
    G \cup {j \in {Len(s.chunks)} :
              Len(s.chunks) > l /\ s.p = Ground /\ Sayable(t.state) /\ ~R}

(* A byte took the engine from s to s2, with or without a clear.           *)
Moves(s, s2, t2, R, G) ==
    s2.ev # "clear" /\ EngineOk(s2, t2, R, Gain(G, Len(s.chunks), s2, t2, R))
Clears(s2, t2, R) == s2.ev = "clear" /\ EngineOk(s2, t2, R, Gain({}, 0, s2, t2, R))

(* The invariant asks the less the fewer chunks are sound.                 *)
LEMMA Fewer ==
    ASSUME NEW s, NEW t, NEW R, NEW G, EngineOk(s, t, R, G), NEW H, H \subseteq G
    PROVE  EngineOk(s, t, R, H)
<1>1. /\ TypesOk(s, t) /\ SpanOk(s) /\ StickyOk(s, t, R)
      /\ s.chunks # <<>> /\ H \subseteq 1..Len(s.chunks)
  BY DEF EngineOk, RingOk
<1>2. ASSUME NEW j \in 1..Len(s.chunks)
      PROVE  ChunkOk(j, H, Shown(ReplayFrom(s.chunks, j)), s.p, s.st, t)
  <2>1. PICK v : v = Shown(ReplayFrom(s.chunks, j))
    OBVIOUS
  <2>2. ChunkOk(j, G, v, s.p, s.st, t)
    BY <2>1 DEF EngineOk, RingOk
  <2>3. ChunkOk(j, H, v, s.p, s.st, t)
    BY <2>2 DEF ChunkOk
  <2> QED BY <2>1, <2>3
<1> QED BY <1>1, <1>2 DEF EngineOk, RingOk

(* A byte that leaves the ring alone.                                      *)
LEMMA MovesSame ==
    ASSUME NEW s, NEW s2, NEW t2, NEW R, NEW G, EngineOk(s2, t2, R, G),
           s2.chunks = s.chunks, s2.ev # "clear"
    PROVE  Moves(s, s2, t2, R, G)
<1>1. Len(s2.chunks) \in Nat /\ Len(s.chunks) = Len(s2.chunks)
  BY DEF EngineOk, TypesOk, Scan
<1>2. Gain(G, Len(s.chunks), s2, t2, R) \subseteq G
  BY <1>1 DEF Gain
<1> QED BY <1>2, Fewer DEF Moves

(* What build_serialized can say, its prologue does restore.               *)
LEMMA SayableRestored ==
    ASSUME NEW k \in Sticky, NEW r \in State, Agrees(k, r), Sayable(r)
    PROVE  Restored(k) = r
<1>1. k.sgr = r.sgr
  <2>1. r.sgr # {} => k.sgr # {}
    BY DEF Agrees
  <2>2. \A x, y \in r.sgr : x = y
    BY DEF Sayable
  <2> QED BY <2>1, <2>2 DEF Agrees
<1>2. DefaultOn \cup k.modes = r.modes
  BY DEF Agrees, Sayable
<1>3. r.palette = {} /\ k.region = r.region /\ k.cwd = r.cwd /\ k.title = r.title
  BY DEF Agrees, Sayable
<1> QED BY <1>1, <1>2, <1>3 DEF Restored, State

(* The state a prologue restores is one.                                   *)
LEMMA RestoredType ==
    ASSUME NEW k \in Sticky
    PROVE  Restored(k) \in State
<1>1. DefaultOn \cup k.modes \subseteq ModeOn
  BY DEF Sticky, DefaultOn, ModeOn
<1> QED BY <1>1 DEF Sticky, State, Restored

-----------------------------------------------------------------------------
(* What a call that is kept does to terminals in the same state.           *)

Grown(t, u, r, x) ==
    [t EXCEPT !.text = t.text \o u, !.state = r, !.noise = t.noise \cup x]
Does(call, k, u, r) ==
    \A t \in Term : t.state = k =>
        \E x \in SUBSET KeptQueries : TermDo(t, call) = Grown(t, u, r, x)

CanGrow(w, b, u, r) ==
    /\ w \in Term /\ ParserStep(w.p, b) \in Parser
    /\ OneByte(w.more, b) /\ MoreAfter(w.more, b) = 0
    /\ u \in Seq(TextItem) /\ r \in State /\ Does(Callback(w.p, b), w.state, u, r)
GrownTo(x, w, q, u, r) ==
    /\ x \in Term /\ x.p = q /\ x.more = 0
    /\ x.noise \subseteq w.noise \cup KeptQueries /\ x.state = r /\ x.text = w.text \o u

(* The byte that completes such a call.                                    *)
LEMMA StepGrows ==
    ASSUME NEW w, NEW b, NEW u, NEW r, CanGrow(w, b, u, r)
    PROVE  GrownTo(TermStep(w, b), w, ParserStep(w.p, b), u, r)
<1> USE DEF CanGrow
<1>1. PICK x, w0, call, q : /\ x = TermStep(w, b) /\ w0 = [w EXCEPT !.more = 0]
                            /\ call = Callback(w.p, b) /\ q = ParserStep(w.p, b)
  OBVIOUS
<1>2. w0 \in Term /\ w0.state = w.state /\ w0.text = w.text /\ w0.noise = w.noise /\ w0.more = 0
  BY <1>1 DEF Term
<1>3. x = [TermDo(w0, call) EXCEPT !.p = q]
  BY <1>1, OneByteStep
<1>4. PICK m \in SUBSET KeptQueries : TermDo(w0, call) = Grown(w0, u, r, m)
  BY <1>1, <1>2 DEF Does
<1>5. w.text \o u \in Seq(TextItem)
  <2>1. w.text \in Seq(TextItem)
    BY DEF Term
  <2> QED BY <2>1
<1>6. PICK g, h : g = w.text \o u /\ h = w.noise \cup m
  OBVIOUS
<1>7. g \in Seq(TextItem) /\ h \in SUBSET AllPieces /\ h \subseteq w.noise \cup KeptQueries
  <2>1. KeptQueries \subseteq AllPieces
    BY PieceSets DEF KeptQueries
  <2>2. w.noise \subseteq AllPieces
    BY DEF Term
  <2> QED BY <1>5, <1>6, <2>1, <2>2
<1>8. TermDo(w0, call) = [w0 EXCEPT !.text = g, !.state = r, !.noise = h]
  BY <1>2, <1>4, <1>6 DEF Grown
<1>9. /\ x \in Term /\ x.p = q /\ x.more = 0 /\ x.noise = h
      /\ x.state = r /\ x.text = g
  <2>1. q \in Parser
    BY <1>1
  <2> QED BY <1>2, <1>3, <1>7, <1>8, <2>1 DEF Term
<1> QED BY <1>1, <1>6, <1>7, <1>9 DEF GrownTo

(* A text that ends in another still does when both grow by the same.      *)
LEMMA EndsInGrows ==
    ASSUME NEW s1 \in Seq(TextItem), NEW s2 \in Seq(TextItem), NEW u \in Seq(TextItem),
           EndsIn(s1, s2)
    PROVE  EndsIn(s1 \o u, s2 \o u)
<1>1. PICK x \in Seq(TextItem) : s1 = x \o s2
  BY DEF EndsIn
<1>2. s1 \o u = x \o (s2 \o u)
  BY <1>1, ConcatAssociative
<1> QED BY <1>2 DEF EndsIn

(* A call that is kept, for the terminal and for a replay that is placed   *)
(* where the terminal is.                                                  *)
LEMMA KeepChunk ==
    ASSUME NEW j, NEW G, NEW v, NEW t \in Term, NEW f, NEW b, NEW g,
           ParserStep(t.p, b) \in Parser, ChunkOk(j, G, v, t.p, f, t), NEW w \in Term,
           w.p = t.p, w.more = t.more, w.text = v.text, w.noise = v.noise, w.state = v.state,
           OneByte(t.more, b), MoreAfter(t.more, b) = 0,
           ParserStep(t.p, b) = Ground \/ Split(ParserStep(t.p, b), g),
           \A k \in State : \E u \in Seq(TextItem), r \in State : Does(Callback(t.p, b), k, u, r)
    PROVE  ChunkOk(j, G, TermStep(w, b), ParserStep(t.p, b), g, TermStep(t, b))
<1>1. v.state \in State /\ t.state \in State /\ v.text \in Seq(TextItem)
      /\ t.text \in Seq(TextItem) /\ v.noise \subseteq KeptQueries
  BY DEF ChunkOk, Term
<1>2. PICK u \in Seq(TextItem), r \in State : Does(Callback(t.p, b), v.state, u, r)
  BY <1>1
<1>3. PICK x, y, q : x = TermStep(w, b) /\ y = TermStep(t, b) /\ q = ParserStep(t.p, b)
  OBVIOUS
<1>4. /\ x \in Term /\ x.p = q /\ x.more = 0 /\ x.noise \subseteq KeptQueries
      /\ x.state = r /\ x.text = v.text \o u
  <2>1. CanGrow(w, b, u, r) /\ ParserStep(w.p, b) = q
    BY <1>2, <1>3 DEF CanGrow
  <2>2. GrownTo(x, w, q, u, r)
    BY <1>3, <2>1, StepGrows
  <2> QED BY <1>1, <2>2 DEF GrownTo
<1>5. ASSUME j \in G
      PROVE  y.state = r /\ y.text = t.text \o u /\ EndsIn(t.text, v.text)
             /\ (j = 1 => v.text = t.text)
  <2>1. v.state = t.state /\ EndsIn(t.text, v.text) /\ (j = 1 => v.text = t.text)
    BY <1>5 DEF ChunkOk
  <2>2. CanGrow(t, b, u, r)
    BY <1>2, <2>1 DEF CanGrow
  <2>3. GrownTo(y, t, q, u, r)
    BY <1>3, <2>2, StepGrows
  <2> QED BY <2>1, <2>3 DEF GrownTo
<1>6. j \in G /\ j = 1 => x.text = y.text
  BY <1>4, <1>5
<1>7. ASSUME j \in G PROVE EndsIn(y.text, x.text)
  <2>1. EndsIn(t.text \o u, v.text \o u)
    BY <1>1, <1>5, <1>7, EndsInGrows
  <2> QED BY <1>4, <1>5, <1>7, <2>1
<1>8. q = Ground \/ Split(q, g)
  BY <1>3
<1>9. ChunkOk(j, G, x, q, g, y)
  BY <1>4, <1>5, <1>6, <1>7, <1>8 DEF ChunkOk
<1> QED BY <1>3, <1>9

-----------------------------------------------------------------------------
(* The scanner and the terminal together, one byte.                        *)

(* What the sink makes of b: the event, st_pending, the sticky state and   *)
(* its cache.                                                              *)
Sinks(s, b, e, f, k, c) ==
    /\ e \in {"none", "keep", "drop", "clear"} /\ f \in {"none", "keep", "drop"}
    /\ k \in Sticky /\ c \in Bytes /\ ParserStep(s.p, b) \in Parser
    /\ Dispatch(Pushed(s, b), Callback(s.p, b)) = Sunk(Pushed(s, b), e, f, k, c)

(* A parser where a span is complete, and a sticky state that is up to     *)
(* date.                                                                   *)
Done(q, f) == q \in Parser /\ (q = Ground \/ (Mid(q) /\ f \in {"keep", "drop"}))
Fresh(k, c, t, R) ==
    /\ CwdOk(k.cwd) /\ TitleOk(k.title)
    /\ c = <<>> \/ c = BuildSerialized(k)
    /\ ~R => Agrees(k, t.state)

(* A complete span leaves nothing pending.                                 *)
LEMMA SpanDone ==
    ASSUME NEW s \in Scan, Done(s.p, s.st), s.pending = <<>>, s.utf8 = 0
    PROVE  SpanOk(s)
<1>1. Ground.at = "ground" /\ Ground.body = <<>>
  BY ColdType
<1>2. Shape(s.p, s.pending, s.utf8)
  BY <1>1 DEF Done, Shape, Mid
<1>3. Mid(s.p) => s.st \in {"keep", "drop"}
  BY <1>1 DEF Done, Mid
<1>4. ASSUME ~Mid(s.p) PROVE Tracks(s.pending, s.p, s.utf8)
  <2>1. s.p = Ground
    BY <1>4 DEF Done
  <2>2. ASSUME NEW t, Idle(t) PROVE Reads(t, <<>>) = Placed(t, Ground, 0)
    <3>1. t = [t EXCEPT !.p = Ground, !.more = 0]
      BY <2>2 DEF Idle, Term
    <3> QED BY <3>1, ReadsEmpty DEF Placed
  <2> QED BY <2>1, <2>2 DEF Tracks
<1> QED BY <1>2, <1>3, <1>4 DEF SpanOk

(* The scanner when a call has completed.                                  *)
LEMMA SeenSunk ==
    ASSUME NEW s \in Scan, NEW b \in AllPieces, NEW e, NEW f, NEW k, NEW c,
           Sinks(s, b, e, f, k, c)
    PROVE  /\ Seen(s, b) \in Scan
           /\ Seen(s, b).p = ParserStep(s.p, b) /\ Seen(s, b).chunks = s.chunks
           /\ Seen(s, b).sticky = k /\ Seen(s, b).cache = c
           /\ Seen(s, b).st = f /\ Seen(s, b).ev = e
           /\ Seen(s, b).pending = Append(s.pending, b)
           /\ Seen(s, b).utf8 = MoreAfter(s.utf8, b)
<1>1. /\ e \in {"none", "keep", "drop", "clear"} /\ f \in {"none", "keep", "drop"}
      /\ k \in Sticky /\ c \in Bytes /\ ParserStep(s.p, b) \in Parser
      /\ Dispatch(Pushed(s, b), Callback(s.p, b)) = Sunk(Pushed(s, b), e, f, k, c)
  BY DEF Sinks
<1> QED BY <1>1, SeenIs

(* serialize, from the cache or not, is build_serialized.                  *)
LEMMA SerializedIs ==
    ASSUME NEW s \in Scan, NEW t, NEW R, Fresh(s.sticky, s.cache, t, R)
    PROVE  /\ Serialized(s) = BuildSerialized(s.sticky) /\ Serialized(s) \in Bytes
           /\ Reads(Cold, Serialized(s)) = InState(Cold, Restored(s.sticky))
<1>1. PICK k, r : k = s.sticky /\ r = Serialized(s)
  OBVIOUS
<1>2. k \in Sticky /\ CwdOk(k.cwd) /\ TitleOk(k.title)
  BY <1>1 DEF Scan, Fresh
<1>3. r = BuildSerialized(k)
  BY <1>1 DEF Serialized, Fresh
<1>4. Idle(Cold) /\ Cold.state = ColdState
  BY ColdType DEF Idle
<1>5. BuildSerialized(k) \in Bytes /\ Reads(Cold, BuildSerialized(k)) = InState(Cold, Restored(k))
  BY <1>2, <1>4, SerializeRestores
<1> QED BY <1>1, <1>3, <1>5

(* A terminal that has only read a prologue.                               *)
LEMMA PrologueOk ==
    ASSUME NEW t \in Term, NEW k \in State, NEW j, NEW G, NEW p, NEW f,
           j \in G => k = t.state /\ ~Split(p, f) /\ (j = 1 => t.text = <<>>)
    PROVE  ChunkOk(j, G, InState(Cold, k), p, f, t)
<1>1. PICK v : v = [Cold EXCEPT !.state = k]
  OBVIOUS
<1>2. /\ v \in Term /\ v.noise = {} /\ v.more = 0 /\ v.p = Ground
      /\ v.state = k /\ v.text = <<>>
  BY <1>1, ColdType DEF Term
<1>3. EndsIn(t.text, <<>>)
  <2>1. t.text \in Seq(TextItem)
    BY DEF Term
  <2>2. t.text = t.text \o <<>>
    BY <2>1
  <2> QED BY <2>1, <2>2 DEF EndsIn
<1>4. ChunkOk(j, G, v, p, f, t)
  BY <1>2, <1>3 DEF ChunkOk
<1> QED BY <1>1, <1>4 DEF InState

(* maybe_cut: the new chunk begins with the state at its cut.              *)
LEMMA CutOk ==
    ASSUME NEW s, NEW t, NEW R, NEW G, EngineOk(s, t, R, G)
    PROVE  /\ MaybeCut(s).ev = s.ev /\ MaybeCut(s).st = s.st
           /\ EngineOk(MaybeCut(s), t, R, Gain(G, Len(s.chunks), MaybeCut(s), t, R))
<1>1. s \in Scan /\ t \in Term /\ Fresh(s.sticky, s.cache, t, R)
  BY DEF EngineOk, TypesOk, StickyOk, Fresh
<1>2. PICK r, ch, c, n : /\ r = Serialized(s) /\ ch = NewChunk(r) /\ c = s.chunks
                         /\ n = [s EXCEPT !.chunks = Append(c, ch), !.cache = r]
  OBVIOUS
<1>3. MaybeCut(s) = s \/ MaybeCut(s) = n
  BY <1>2 DEF MaybeCut
<1>4. /\ r = BuildSerialized(s.sticky) /\ r \in Bytes
      /\ Reads(Cold, r) = InState(Cold, Restored(s.sticky))
  BY <1>1, <1>2, SerializedIs
<1>5. ch \in Chunk /\ ch.prologue = r /\ ch.data = <<>>
  BY <1>2, <1>4, BytesConcat DEF NewChunk, Chunk
<1>6. c \in Seq(Chunk) /\ c # <<>> /\ Len(c) \in Nat \ {0} /\ G \subseteq 1..Len(c)
  <2>1. c \in Seq(Chunk) /\ c # <<>> /\ G \subseteq 1..Len(c)
    BY <1>1, <1>2 DEF Scan, EngineOk, RingOk
  <2> QED BY <2>1, EmptySeq
<1>7. PICK d : d = Append(c, ch)
  OBVIOUS
<1>8. d \in Seq(Chunk) /\ d # <<>> /\ Len(d) = Len(c) + 1
  BY <1>5, <1>6, <1>7
<1>9. /\ n \in Scan /\ n.p = s.p /\ n.sticky = s.sticky /\ n.cache = r /\ n.ev = s.ev
      /\ n.st = s.st /\ n.pending = s.pending /\ n.utf8 = s.utf8 /\ n.chunks = d
  BY <1>1, <1>2, <1>4, <1>7, <1>8 DEF Scan
<1>10. TypesOk(n, t)
  BY <1>9 DEF EngineOk, TypesOk
<1>11. SpanOk(n)
  BY <1>9 DEF EngineOk, SpanOk
<1>12. StickyOk(n, t, R)
  BY <1>4, <1>9 DEF EngineOk, StickyOk
<1>13. ASSUME NEW j \in 1..Len(c) PROVE ReplayFrom(d, j) = ReplayFrom(c, j)
  <2>1. ReplayFrom(d, j) = ReplayFrom(c, j) \o <<>>
    BY <1>5, <1>6, <1>7, ReplayAppend
  <2>2. ReplayFrom(c, j) \in Bytes
    BY <1>6, ReplayType
  <2> QED BY <2>1, <2>2, BytesConcat
<1>14. ReplayFrom(d, Len(c) + 1) = r
  <2>1. ReplayFrom(d, Len(c) + 1) = r \o <<>>
    BY <1>5, <1>6, <1>7, ReplayAppend
  <2> QED BY <1>4, <2>1, BytesConcat
<1>15. PICK H : H = Gain(G, Len(c), n, t, R)
  OBVIOUS
<1>16. /\ H \subseteq 1..Len(d)
       /\ \A j \in 1..Len(c) : j \in H => j \in G
       /\ Len(c) + 1 \in H => n.p = Ground /\ Sayable(t.state) /\ ~R
  <2>1. PICK m : m = Len(c) /\ m \in Nat
    BY <1>6
  <2>2. Len(d) = m + 1 /\ Len(n.chunks) = m + 1 /\ G \subseteq 1..m
    BY <1>6, <1>8, <1>9, <2>1
  <2>3. H = Gain(G, m, n, t, R)
    BY <1>15, <2>1
  <2>4. \A j \in H : j \in G \/ (j = m + 1 /\ n.p = Ground /\ Sayable(t.state) /\ ~R)
    BY <2>2, <2>3 DEF Gain
  <2>5. \A j \in 1..m : j \in 1..(m + 1) /\ j # m + 1
    BY <2>1
  <2>6. m + 1 \in 1..(m + 1) /\ m + 1 \notin 1..m
    BY <2>1
  <2> QED BY <2>1, <2>2, <2>4, <2>5, <2>6
<1>17. ASSUME NEW j \in 1..Len(c) PROVE ChunkOk(j, H, Shown(ReplayFrom(d, j)), n.p, n.st, t)
  <2>1. PICK v : v = Shown(ReplayFrom(c, j))
    OBVIOUS
  <2>2. ChunkOk(j, G, v, s.p, s.st, t)
    BY <1>2, <2>1 DEF EngineOk, RingOk
  <2>3. ChunkOk(j, H, v, s.p, s.st, t)
    BY <1>16, <2>2 DEF ChunkOk
  <2> QED BY <1>9, <1>13, <2>1, <2>3
<1>18. ChunkOk(Len(c) + 1, H, Shown(ReplayFrom(d, Len(c) + 1)), n.p, n.st, t)
  <2>1. PICK k, j, p, f : k = Restored(s.sticky) /\ j = Len(c) + 1 /\ p = n.p /\ f = n.st
    OBVIOUS
  <2>2. s.sticky \in Sticky /\ t.state \in State /\ k \in State /\ j # 1
    BY <1>1, <1>6, <2>1, RestoredType DEF Scan, Term
  <2>3. ASSUME j \in H PROVE k = t.state /\ ~Split(p, f)
    <3>1. p = Ground /\ Sayable(t.state) /\ Agrees(s.sticky, t.state)
      BY <1>1, <1>16, <2>1, <2>3 DEF Fresh
    <3>2. k = t.state
      BY <2>1, <2>2, <3>1, SayableRestored
    <3>3. ~Split(p, f)
      BY <3>1, ColdType DEF Split, Mid
    <3> QED BY <3>2, <3>3
  <2>4. ChunkOk(j, H, InState(Cold, k), p, f, t)
    BY <1>1, <2>2, <2>3, PrologueOk
  <2> QED BY <1>4, <1>14, <2>1, <2>4 DEF Shown
<1>19. \A j \in 1..Len(d) : j \in 1..Len(c) \/ j = Len(c) + 1
  BY <1>6, <1>8
<1>20. RingOk(n, t, H)
  BY <1>8, <1>9, <1>16, <1>17, <1>18, <1>19 DEF RingOk
<1>21. EngineOk(n, t, R, H)
  BY <1>10, <1>11, <1>12, <1>20 DEF EngineOk
<1>22. CASE MaybeCut(s) = n
  BY <1>2, <1>9, <1>15, <1>21, <1>22
<1>23. CASE MaybeCut(s) = s
  <2>1. Gain(G, Len(s.chunks), s, t, R) \subseteq G
    BY <1>2, <1>6 DEF Gain
  <2>2. EngineOk(s, t, R, Gain(G, Len(s.chunks), s, t, R))
    BY <2>1, Fewer
  <2> QED BY <1>23, <2>2
<1> QED BY <1>3, <1>22, <1>23

(* keep: the span goes to the open chunk, which may then be cut.           *)
LEMMA KeepOk ==
    ASSUME NEW n \in Scan, NEW y \in Term, n.p = y.p, n.utf8 = 0, y.more = 0, NEW R, NEW G,
           Done(n.p, n.st), Fresh(n.sticky, n.cache, y, R), n.chunks # <<>>,
           G \subseteq 1..Len(n.chunks),
           \A j \in 1..Len(n.chunks) :
              ChunkOk(j, G, Reads(Shown(ReplayFrom(n.chunks, j)), n.pending), n.p, n.st, y)
    PROVE  /\ Keep(n).ev = n.ev /\ Keep(n).st = n.st
           /\ EngineOk(Keep(n), y, R, Gain(G, Len(n.chunks), Keep(n), y, R))
<1>1. PICK c, u, d, m : /\ c = n.chunks /\ u = n.pending
                        /\ d = [c EXCEPT ![Len(c)].data = @ \o u]
                        /\ m = [n EXCEPT !.chunks = d, !.pending = <<>>]
  OBVIOUS
<1>2. Keep(n) = MaybeCut(m)
  <2>1. [n EXCEPT !.chunks[Len(n.chunks)].data = @ \o n.pending, !.pending = <<>>]
          = [n EXCEPT !.chunks = [n.chunks EXCEPT ![Len(n.chunks)].data = @ \o n.pending],
                      !.pending = <<>>]
    BY Zenon
  <2> QED BY <1>1, <2>1 DEF Keep
<1>3. c \in Seq(Chunk) /\ u \in Bytes /\ c # <<>>
  BY <1>1 DEF Scan
<1>4. /\ d \in Seq(Chunk) /\ Len(d) = Len(c)
      /\ \A j \in 1..Len(c) : ReplayFrom(d, j) = ReplayFrom(c, j) \o u
  <2>1. d = [c EXCEPT ![Len(c)].data = @ \o u]
    BY <1>1
  <2>2. c \in Seq(Chunk) /\ c # <<>> /\ u \in Bytes
    BY <1>3
  <2> QED BY <2>1, <2>2, ReplayExtend, Zenon
<1>5. /\ m \in Scan /\ m.p = n.p /\ m.sticky = n.sticky /\ m.cache = n.cache /\ m.ev = n.ev
      /\ m.st = n.st /\ m.pending = <<>> /\ m.utf8 = n.utf8 /\ m.chunks = d
  BY <1>1, <1>4, BytesConcat DEF Scan
<1>6. TypesOk(m, y)
  BY <1>5 DEF TypesOk
<1>7. SpanOk(m)
  BY <1>5, SpanDone
<1>8. StickyOk(m, y, R)
  BY <1>5 DEF StickyOk, Fresh
<1>9. d # <<>> /\ G \subseteq 1..Len(d)
  <2>1. Len(c) # 0
    BY <1>3, EmptySeq
  <2> QED BY <1>1, <1>4, <2>1
<1>10. ASSUME NEW j \in 1..Len(d) PROVE ChunkOk(j, G, Shown(ReplayFrom(d, j)), m.p, m.st, y)
  <2>1. PICK r : r = ReplayFrom(c, j)
    OBVIOUS
  <2>2. r \in Bytes /\ ReplayFrom(d, j) = r \o u
    BY <1>3, <1>4, <2>1, ReplayType
  <2>3. Shown(ReplayFrom(d, j)) = Reads(Shown(r), u)
    BY <1>3, <2>2, ReadsBytes DEF Shown
  <2>4. ChunkOk(j, G, Reads(Shown(r), u), n.p, n.st, y)
    BY <1>1, <1>4, <2>1
  <2> QED BY <1>5, <2>3, <2>4
<1>11. RingOk(m, y, G)
  BY <1>5, <1>9, <1>10 DEF RingOk
<1>12. EngineOk(m, y, R, G)
  BY <1>6, <1>7, <1>8, <1>11 DEF EngineOk
<1>13. /\ MaybeCut(m).ev = m.ev /\ MaybeCut(m).st = m.st
       /\ EngineOk(MaybeCut(m), y, R, Gain(G, Len(m.chunks), MaybeCut(m), y, R))
  BY <1>12, CutOk
<1>14. Len(m.chunks) = Len(n.chunks)
  BY <1>1, <1>4, <1>5
<1> QED BY <1>2, <1>5, <1>13, <1>14

(* keep puts the span into the open chunk: an empty last chunk is new.     *)
LEMMA KeepCuts ==
    ASSUME NEW n \in Scan, n.chunks # <<>>, n.pending # <<>>, Last(Keep(n).chunks).data = <<>>
    PROVE  Len(Keep(n).chunks) > Len(n.chunks)
<1>1. PICK c, u, d, m : /\ c = n.chunks /\ u = n.pending
                        /\ d = [c EXCEPT ![Len(c)].data = @ \o u]
                        /\ m = [n EXCEPT !.chunks = d, !.pending = <<>>]
  OBVIOUS
<1>2. Keep(n) = MaybeCut(m)
  <2>1. [n EXCEPT !.chunks[Len(n.chunks)].data = @ \o n.pending, !.pending = <<>>]
          = [n EXCEPT !.chunks = [n.chunks EXCEPT ![Len(n.chunks)].data = @ \o n.pending],
                      !.pending = <<>>]
    BY Zenon
  <2> QED BY <1>1, <2>1 DEF Keep
<1>3. c \in Seq(Chunk) /\ u \in Bytes /\ u # <<>> /\ c # <<>> /\ Len(c) \in Nat \ {0}
  <2>1. c \in Seq(Chunk) /\ u \in Bytes /\ u # <<>> /\ c # <<>>
    BY <1>1 DEF Scan
  <2> QED BY <2>1, EmptySeq
<1>4. d \in Seq(Chunk) /\ Len(d) = Len(c)
  <2>1. d = [c EXCEPT ![Len(c)].data = @ \o u]
    BY <1>1
  <2>2. c \in Seq(Chunk) /\ c # <<>> /\ u \in Bytes
    BY <1>3
  <2> QED BY <2>1, <2>2, ReplayExtend, Zenon
<1>5. m.chunks = d
  BY <1>1 DEF Scan
<1>6. d[Len(d)].data # <<>>
  <2>1. PICK l : l = Len(c)
    OBVIOUS
  <2>2. l \in DOMAIN c /\ c[l] \in Chunk
    BY <1>3, <2>1
  <2>3. d[l].data = c[l].data \o u
    BY <1>1, <2>1, <2>2 DEF Chunk
  <2>4. c[l].data \in Bytes
    BY <2>2 DEF Chunk
  <2>5. c[l].data \o u # <<>>
    BY <1>3, <2>4 DEF Bytes
  <2> QED BY <1>4, <2>1, <2>3, <2>5
<1>7. MaybeCut(m) # m
  <2>1. Last(d) = d[Len(d)]
    BY DEF Last
  <2> QED BY <1>2, <1>5, <1>6, <2>1
<1>8. PICK ch : MaybeCut(m).chunks = Append(d, ch)
  <2>1. PICK r : r = Serialized(m)
    OBVIOUS
  <2>2. MaybeCut(m) = [m EXCEPT !.chunks = Append(m.chunks, NewChunk(r)), !.cache = r]
    BY <1>7, <2>1 DEF MaybeCut
  <2>3. MaybeCut(m).chunks = Append(d, NewChunk(r))
    BY <1>1, <1>5, <2>2 DEF Scan
  <2> QED BY <2>3
<1>9. Len(Append(d, ch)) = Len(d) + 1
  BY <1>4
<1> QED BY <1>1, <1>2, <1>3, <1>4, <1>8, <1>9

(* A span that is kept.                                                    *)
LEMMA StepKeep ==
    ASSUME NEW s, NEW t, NEW R, NEW G, EngineOk(s, t, R, G), NEW b \in AllPieces, NEW f, NEW k, NEW c,
           OneByte(s.utf8, b), MoreAfter(s.utf8, b) = 0, ~Mid(s.p),
           Sinks(s, b, "keep", f, k, c), Done(ParserStep(s.p, b), f), f # "drop",
           Fresh(k, c, TermStep(t, b), R),
           \A x \in State : \E u \in Seq(TextItem), r \in State : Does(Callback(s.p, b), x, u, r)
    PROVE  Moves(s, FeedOne(s, b), TermStep(t, b), R, G) /\ FeedOne(s, b).st = f
<1>1. s \in Scan /\ t \in Term /\ s.p = t.p /\ s.utf8 = t.more
  BY DEF EngineOk, TypesOk
<1>2. PICK n, y, q, e : /\ n = Seen(s, b) /\ y = TermStep(t, b)
                        /\ q = ParserStep(s.p, b) /\ e = "keep"
  OBVIOUS
<1>3. /\ n \in Scan /\ n.p = q /\ n.chunks = s.chunks /\ n.sticky = k /\ n.cache = c
      /\ n.st = f /\ n.ev = "keep" /\ n.pending = Append(s.pending, b) /\ n.utf8 = 0
  <2>1. s \in Scan /\ Sinks(s, b, e, f, k, c)
    BY <1>1, <1>2
  <2>2. /\ Seen(s, b) \in Scan
        /\ Seen(s, b).p = ParserStep(s.p, b) /\ Seen(s, b).chunks = s.chunks
        /\ Seen(s, b).sticky = k /\ Seen(s, b).cache = c
        /\ Seen(s, b).st = f /\ Seen(s, b).ev = e
        /\ Seen(s, b).pending = Append(s.pending, b)
        /\ Seen(s, b).utf8 = MoreAfter(s.utf8, b)
    BY <2>1, SeenSunk
  <2> QED BY <1>2, <2>2
<1>4. FeedOne(s, b) = Keep(n)
  <2>1. FeedOne(s, b) = Settled(n)
    BY <1>1, <1>2, FeedOneByteIs
  <2> QED BY <1>3, <2>1 DEF Settled
<1>5. y \in Term /\ y.p = q /\ y.more = 0
  <2>1. t.state \in State
    BY <1>1 DEF Term
  <2>2. PICK u \in Seq(TextItem), r \in State : Does(Callback(s.p, b), t.state, u, r)
    BY <2>1
  <2>3. ParserStep(t.p, b) \in Parser /\ ParserStep(t.p, b) = q
    BY <1>1, <1>2 DEF Sinks
  <2>4. CanGrow(t, b, u, r)
    BY <1>1, <2>2, <2>3 DEF CanGrow
  <2>5. GrownTo(y, t, q, u, r)
    BY <1>2, <2>3, <2>4, StepGrows
  <2> QED BY <2>5 DEF GrownTo
<1>6. s.chunks # <<>> /\ s.pending \in Bytes /\ Tracks(s.pending, s.p, s.utf8)
  BY <1>1 DEF EngineOk, RingOk, SpanOk, Scan
<1>7. ASSUME NEW j \in 1..Len(s.chunks)
      PROVE  ChunkOk(j, G, Reads(Shown(ReplayFrom(s.chunks, j)), Append(s.pending, b)), q, f, y)
  <2>1. PICK v, w : v = Shown(ReplayFrom(s.chunks, j)) /\ w = Placed(v, t.p, t.more)
    OBVIOUS
  <2>2. ChunkOk(j, G, v, t.p, s.st, t)
    BY <1>1, <2>1 DEF EngineOk, RingOk
  <2>3. v \in Term /\ Idle(v)
    BY <1>1, <2>2 DEF ChunkOk, Idle, Split
  <2>4. Reads(v, s.pending) = w
    BY <1>1, <1>6, <2>1, <2>3 DEF Tracks
  <2>5. Reads(v, Append(s.pending, b)) = TermStep(w, b)
    BY <1>6, <2>4, ReadsByte
  <2>6. /\ w \in Term /\ w.p = t.p /\ w.more = t.more /\ w.text = v.text
        /\ w.noise = v.noise /\ w.state = v.state
    <3>1. w = [v EXCEPT !.p = t.p, !.more = t.more]
      BY <2>1 DEF Placed
    <3>2. t.p \in Parser /\ t.more \in Nat
      BY <1>1 DEF Term
    <3> QED BY <2>3, <3>1, <3>2 DEF Term
  <2>7. q = Ground \/ Split(q, f)
    BY <1>2 DEF Done, Split
  <2>8. PICK g : g = s.st
    OBVIOUS
  <2>9. ChunkOk(j, G, v, t.p, g, t)
    BY <2>2, <2>8
  <2>10. /\ ParserStep(t.p, b) \in Parser /\ ParserStep(t.p, b) = q
         /\ OneByte(t.more, b) /\ MoreAfter(t.more, b) = 0
         /\ ParserStep(t.p, b) = Ground \/ Split(ParserStep(t.p, b), f)
    BY <1>1, <1>2, <2>7 DEF Sinks
  <2>11. \A x \in State : \E u \in Seq(TextItem), r \in State : Does(Callback(t.p, b), x, u, r)
    BY <1>1
  <2>12. ChunkOk(j, G, TermStep(w, b), ParserStep(t.p, b), f, TermStep(t, b))
    BY <1>1, <2>6, <2>9, <2>10, <2>11, KeepChunk
  <2> QED BY <1>2, <2>1, <2>5, <2>10, <2>12
<1>8. /\ Keep(n).ev = n.ev /\ Keep(n).st = n.st
      /\ EngineOk(Keep(n), y, R, Gain(G, Len(n.chunks), Keep(n), y, R))
  <2>1. n \in Scan /\ y \in Term /\ n.p = y.p /\ n.utf8 = 0 /\ y.more = 0 /\ n.chunks # <<>>
        /\ G \subseteq 1..Len(n.chunks)
    BY <1>3, <1>5, <1>6 DEF EngineOk, RingOk
  <2>2. Done(n.p, n.st) /\ Fresh(n.sticky, n.cache, y, R)
    BY <1>2, <1>3
  <2>3. \A j \in 1..Len(n.chunks) :
            ChunkOk(j, G, Reads(Shown(ReplayFrom(n.chunks, j)), n.pending), n.p, n.st, y)
    BY <1>3, <1>7
  <2> QED BY <2>1, <2>2, <2>3, KeepOk
<1> QED BY <1>2, <1>3, <1>4, <1>8 DEF Moves

-----------------------------------------------------------------------------
(* The calls, for the sink and for the terminal.                           *)

(* The CSIs that change the state.                                         *)
Changing == Csi \ {"K", "6n", "$p", "2J"}

(* A call that leaves the sticky state alone.                              *)
LEMMA SinkQuiet ==
    ASSUME NEW x \in Scan
    PROVE  /\ \A b : Dispatch(x, <<"print", b>>) = Sunk(x, "keep", "none", x.sticky, x.cache)
           /\ Dispatch(x, <<"execute", "lf">>) = Sunk(x, "keep", "none", x.sticky, x.cache)
           /\ Dispatch(x, <<"execute", "bel">>) = Sunk(x, "drop", "none", x.sticky, x.cache)
           /\ Dispatch(x, <<"csi_dispatch", "K">>) = Sunk(x, "keep", "none", x.sticky, x.cache)
           /\ Dispatch(x, <<"csi_dispatch", "$p">>) = Sunk(x, "keep", "none", x.sticky, x.cache)
           /\ Dispatch(x, <<"csi_dispatch", "6n">>) = Sunk(x, "drop", "none", x.sticky, x.cache)
           /\ Dispatch(x, <<"csi_dispatch", "2J">>) = Sunk(x, "clear", "none", x.sticky, x.cache)
           /\ Dispatch(x, <<"esc_dispatch", "c">>) = Sunk(x, "clear", "none", x.sticky, x.cache)
           /\ x.st # "none" => Dispatch(x, <<"esc_dispatch", "st">>)
                                 = Sunk(x, x.st, "none", x.sticky, x.cache)
<1>1. ASSUME NEW e PROVE Classified(x, e) = Sunk(x, e, "none", x.sticky, x.cache)
  BY DEF Classified, Sunk, Scan
<1>2. \A b : Dispatch(x, <<"print", b>>) = Classified(x, "keep")
  BY DEF Dispatch
<1>3. /\ Dispatch(x, <<"execute", "lf">>) = Classified(x, "keep")
      /\ Dispatch(x, <<"execute", "bel">>) = Classified(x, "drop")
  BY DEF Dispatch
<1>4. /\ Dispatch(x, <<"csi_dispatch", "K">>) = Classified(x, "keep")
      /\ Dispatch(x, <<"csi_dispatch", "$p">>) = Classified(x, "keep")
      /\ Dispatch(x, <<"csi_dispatch", "6n">>) = Classified(x, "drop")
      /\ Dispatch(x, <<"csi_dispatch", "2J">>) = Classified(x, "clear")
  BY DEF Dispatch, OnCsi
<1>5. /\ Dispatch(x, <<"esc_dispatch", "c">>) = Classified(x, "clear")
      /\ x.st # "none" => Dispatch(x, <<"esc_dispatch", "st">>) = Classified(x, x.st)
  BY DEF Dispatch, OnEsc
<1> QED BY <1>1, <1>2, <1>3, <1>4, <1>5

(* A CSI that changes it.                                                  *)
LEMMA SinkCsi ==
    ASSUME NEW x \in Scan, NEW b \in Changing
    PROVE  Dispatch(x, <<"csi_dispatch", b>>)
             = Sunk(x, "keep", "none", StickyCsi(x.sticky, b), <<>>)
<1>1. Dispatch(x, <<"csi_dispatch", b>>)
        = Classified(SetSticky(x, StickyCsi(x.sticky, b)), "keep")
  BY DEF Dispatch, OnCsi, Changing
<1>2. ASSUME NEW k PROVE Classified(SetSticky(x, k), "keep") = Sunk(x, "keep", "none", k, <<>>)
  BY DEF Classified, SetSticky, Sunk, Scan
<1> QED BY <1>1, <1>2

(* The OSCs that are kept, and what the sink makes of one: a title or a    *)
(* directory is remembered, a colour is not.                               *)
OscKept == Titles \cup Cwds \cup {"10", "10?"}
OscSticky(k, body) ==
    IF Head(body) \in Titles THEN WithTitle(k, body)
    ELSE IF Head(body) \in Cwds THEN WithCwd(k, body) ELSE k
OscCache(c, body) == IF Head(body) \in Titles \cup Cwds THEN <<>> ELSE c

(* An OSC.                                                                 *)
LEMMA SinkOsc ==
    ASSUME NEW x \in Scan, NEW body
    PROVE  /\ Head(body) \in OscDropped => Dispatch(x, <<"osc_dispatch", body>>)
                                             = Sunk(x, "drop", "drop", x.sticky, x.cache)
           /\ Head(body) \in OscKept => Dispatch(x, <<"osc_dispatch", body>>)
                = Sunk(x, "keep", "keep", OscSticky(x.sticky, body), OscCache(x.cache, body))
<1>1. PICK h : h = Head(body)
  OBVIOUS
<1>2. Dispatch(x, <<"osc_dispatch", body>>) = OnOsc(x, body)
  BY DEF Dispatch
<1>3. h \in OscDropped => OnOsc(x, body) = [x EXCEPT !.ev = "drop", !.st = "drop"]
  BY <1>1 DEF OnOsc, OscDropped, Titles, Cwds
<1>4. h \in Titles => OnOsc(x, body) =
          [SetSticky(x, WithTitle(x.sticky, body)) EXCEPT !.ev = "keep", !.st = "keep"]
  BY <1>1 DEF OnOsc, OscDropped, Titles, Cwds, WithTitle
<1>5. h \in Cwds => OnOsc(x, body) =
          [SetSticky(x, WithCwd(x.sticky, body)) EXCEPT !.ev = "keep", !.st = "keep"]
  BY <1>1 DEF OnOsc, OscDropped, Titles, Cwds, WithCwd
<1>6. h \in {"10", "10?"} => OnOsc(x, body) = [x EXCEPT !.ev = "keep", !.st = "keep"]
  BY <1>1 DEF OnOsc, OscDropped, Titles, Cwds
<1>7. \A e : [x EXCEPT !.ev = e, !.st = e] = Sunk(x, e, e, x.sticky, x.cache)
  BY DEF Sunk, Scan
<1>8. ASSUME NEW k PROVE [SetSticky(x, k) EXCEPT !.ev = "keep", !.st = "keep"]
                           = Sunk(x, "keep", "keep", k, <<>>)
  BY DEF SetSticky, Sunk, Scan
<1>9. /\ h \in Titles => OscSticky(x.sticky, body) = WithTitle(x.sticky, body)
                         /\ OscCache(x.cache, body) = <<>>
      /\ h \in Cwds => OscSticky(x.sticky, body) = WithCwd(x.sticky, body)
                       /\ OscCache(x.cache, body) = <<>>
      /\ h \in {"10", "10?"} => OscSticky(x.sticky, body) = x.sticky
                                /\ OscCache(x.cache, body) = x.cache
  BY <1>1 DEF OscSticky, OscCache, Titles, Cwds
<1> QED BY <1>1, <1>2, <1>3, <1>4, <1>5, <1>6, <1>7, <1>8, <1>9 DEF OscKept

(* What a state-changing CSI makes of a terminal's state.                  *)
CsiState(r, b) ==
    CASE b = "0m" -> WithSgr(r, {})
      [] b \in Sgr -> WithSgr(r, r.sgr \cup {b})
      [] b \in ModeOn -> WithModes(r, r.modes \cup {b})
      [] b \in DOMAIN ModeOff -> WithModes(r, r.modes \ {ModeOff[b]})
      [] b = "r" -> WithRegion(r, {b})
      [] b = "0r" -> WithRegion(r, {})

(* The sink and the terminal change their states in the same way, but for  *)
(* an attribute, which the terminal adds to what it has.                   *)
LEMMA CsiStates ==
    ASSUME NEW k \in Sticky, NEW r \in State, NEW b \in Changing
    PROVE  /\ StickyCsi(k, b) \in Sticky /\ CsiState(r, b) \in State
           /\ StickyCsi(k, b).cwd = k.cwd /\ StickyCsi(k, b).title = k.title
           /\ Agrees(k, r) => Agrees(StickyCsi(k, b), CsiState(r, b))
           /\ \A t \in Term : t.state = r => TermCsi(t, b) = InState(t, CsiState(r, b))
<1>1. b \in {"1m", "4m", "?1h", "?2h", "?25h", "?1l", "?25l", "0m", "r", "0r"}
  BY PieceSets DEF Changing
<1>2. DOMAIN ModeOff = {"?1l", "?25l"} /\ Sgr = {"1m", "4m"} /\ ModeOn = {"?1h", "?2h", "?25h"}
  BY DEF ModeOff, Sgr, ModeOn
<1>3. b \in Sgr \/ b \in ModeOn \/ b \in DOMAIN ModeOff \/ b = "0m" \/ b = "r" \/ b = "0r"
  BY <1>1, <1>2
<1>4. PICK k2, r2 : k2 = StickyCsi(k, b) /\ r2 = CsiState(r, b)
  OBVIOUS
<1>5. CASE b = "0m"
  <2>1. k2 = [k EXCEPT !.sgr = {}]
    BY <1>2, <1>4, <1>5 DEF StickyCsi
  <2>2. r2 = [r EXCEPT !.sgr = {}]
    BY <1>2, <1>4, <1>5 DEF CsiState, WithSgr
  <2>3. \A t \in Term : t.state = r => TermCsi(t, b) = InState(t, r2)
    BY <1>5, <2>2, CsiAsserts DEF InState
  <2>4. k2 \in Sticky /\ r2 \in State /\ k2.cwd = k.cwd /\ k2.title = k.title
    BY <2>1, <2>2 DEF Sticky, State
  <2>5. Agrees(k, r) => Agrees(k2, r2)
    BY <2>1, <2>2 DEF Agrees, Sticky, State
  <2> QED BY <1>4, <2>3, <2>4, <2>5
<1>6. CASE b \in Sgr
  <2>1. k2 = [k EXCEPT !.sgr = {b}]
    BY <1>2, <1>4, <1>6 DEF StickyCsi
  <2>2. r2 = [r EXCEPT !.sgr = r.sgr \cup {b}]
    BY <1>2, <1>4, <1>6 DEF CsiState, WithSgr
  <2>3. \A t \in Term : t.state = r => TermCsi(t, b) = InState(t, r2)
    BY <1>6, <2>2, CsiAsserts DEF InState
  <2>4. {b} \subseteq Sgr /\ r.sgr \cup {b} \subseteq Sgr
    BY <1>6 DEF State
  <2>5. k2 \in Sticky /\ r2 \in State /\ k2.cwd = k.cwd /\ k2.title = k.title
    BY <2>1, <2>2, <2>4 DEF Sticky, State
  <2>6. Agrees(k, r) => Agrees(k2, r2)
    BY <2>1, <2>2 DEF Agrees, Sticky, State
  <2> QED BY <1>4, <2>3, <2>5, <2>6
<1>7. CASE b \in ModeOn
  <2>1. k2 = [k EXCEPT !.modes = k.modes \cup {b}]
    BY <1>2, <1>4, <1>7 DEF StickyCsi
  <2>2. r2 = [r EXCEPT !.modes = r.modes \cup {b}]
    BY <1>2, <1>4, <1>7 DEF CsiState, WithModes
  <2>3. \A t \in Term : t.state = r => TermCsi(t, b) = InState(t, r2)
    BY <1>7, <2>2, CsiAsserts DEF InState
  <2>4. k.modes \cup {b} \subseteq ModeOn /\ r.modes \cup {b} \subseteq ModeOn
    BY <1>7 DEF Sticky, State
  <2>5. k2 \in Sticky /\ r2 \in State /\ k2.cwd = k.cwd /\ k2.title = k.title
    BY <2>1, <2>2, <2>4 DEF Sticky, State
  <2>6. Agrees(k, r) => Agrees(k2, r2)
    BY <2>1, <2>2 DEF Agrees, Sticky, State
  <2> QED BY <1>4, <2>3, <2>5, <2>6
<1>8. CASE b \in DOMAIN ModeOff
  <2>1. k2 = [k EXCEPT !.modes = k.modes \ {ModeOff[b]}]
    BY <1>2, <1>4, <1>8 DEF StickyCsi
  <2>2. r2 = [r EXCEPT !.modes = r.modes \ {ModeOff[b]}]
    BY <1>2, <1>4, <1>8 DEF CsiState, WithModes
  <2>3. \A t \in Term : t.state = r => TermCsi(t, b) = InState(t, r2)
    BY <1>8, <2>2, CsiAsserts DEF InState
  <2>4. PICK on : on = ModeOff[b]
    OBVIOUS
  <2>5. k.modes \ {on} \subseteq ModeOn /\ r.modes \ {on} \subseteq ModeOn
    BY DEF Sticky, State
  <2>6. k2 \in Sticky /\ r2 \in State /\ k2.cwd = k.cwd /\ k2.title = k.title
        /\ k2.modes = k.modes \ {on} /\ r2.modes = r.modes \ {on}
        /\ k2.sgr = k.sgr /\ r2.sgr = r.sgr /\ k2.region = k.region /\ r2.region = r.region
        /\ r2.cwd = r.cwd /\ r2.title = r.title
    BY <2>1, <2>2, <2>4, <2>5 DEF Sticky, State
  <2>7. Agrees(k, r) => Agrees(k2, r2)
    BY <2>6 DEF Agrees
  <2> QED BY <1>4, <2>3, <2>6, <2>7
<1>9. CASE b = "r"
  <2>1. k2 = [k EXCEPT !.region = {"r"}]
    BY <1>2, <1>4, <1>9 DEF StickyCsi
  <2>2. r2 = [r EXCEPT !.region = {"r"}]
    BY <1>2, <1>4, <1>9 DEF CsiState, WithRegion
  <2>3. \A t \in Term : t.state = r => TermCsi(t, b) = InState(t, r2)
    BY <1>9, <2>2, CsiAsserts DEF InState
  <2>4. k2 \in Sticky /\ r2 \in State /\ k2.cwd = k.cwd /\ k2.title = k.title
    BY <2>1, <2>2 DEF Sticky, State
  <2>5. Agrees(k, r) => Agrees(k2, r2)
    BY <2>1, <2>2 DEF Agrees, Sticky, State
  <2> QED BY <1>4, <2>3, <2>4, <2>5
<1>10. CASE b = "0r"
  <2>1. k2 = [k EXCEPT !.region = {}]
    BY <1>2, <1>4, <1>10 DEF StickyCsi
  <2>2. r2 = [r EXCEPT !.region = {}]
    BY <1>2, <1>4, <1>10 DEF CsiState, WithRegion
  <2>3. \A t \in Term : t.state = r => TermCsi(t, b) = InState(t, r2)
    BY <1>10, <2>2, CsiAsserts DEF InState
  <2>4. k2 \in Sticky /\ r2 \in State /\ k2.cwd = k.cwd /\ k2.title = k.title
    BY <2>1, <2>2 DEF Sticky, State
  <2>5. Agrees(k, r) => Agrees(k2, r2)
    BY <2>1, <2>2 DEF Agrees, Sticky, State
  <2> QED BY <1>4, <2>3, <2>4, <2>5
<1> QED BY <1>3, <1>5, <1>6, <1>7, <1>8, <1>9, <1>10

(* What an OSC that is kept makes of a terminal's state.                   *)
OscState(r, body) ==
    IF Head(body) \in Titles THEN WithTitle(r, body)
    ELSE IF Head(body) \in Cwds THEN WithCwd(r, body)
    ELSE IF Head(body) = "10" THEN WithPalette(r, {"10"}) ELSE r

(* The same of the sink and the terminal.                                  *)
LEMMA OscStates ==
    ASSUME NEW k \in Sticky, NEW r \in State, NEW body \in Bytes, Head(body) \in OscKept
    PROVE  /\ OscSticky(k, body) \in Sticky /\ OscState(r, body) \in State
           /\ Agrees(k, r) => Agrees(OscSticky(k, body), OscState(r, body))
           /\ BodyOk(body) /\ CwdOk(k.cwd) /\ TitleOk(k.title) =>
                CwdOk(OscSticky(k, body).cwd) /\ TitleOk(OscSticky(k, body).title)
<1>1. PICK k2, r2 : k2 = OscSticky(k, body) /\ r2 = OscState(r, body)
  OBVIOUS
<1>2. CASE Head(body) \in Titles
  <2>1. k2 = [k EXCEPT !.title = body] /\ r2 = [r EXCEPT !.title = body]
    BY <1>1, <1>2 DEF OscSticky, OscState, WithTitle
  <2>2. k2 \in Sticky /\ r2 \in State /\ k2.cwd = k.cwd /\ k2.title = body
    BY <2>1 DEF Sticky, State
  <2>3. Agrees(k, r) => Agrees(k2, r2)
    BY <2>1 DEF Agrees, Sticky, State
  <2>4. BodyOk(body) => TitleOk(body)
    BY <1>2 DEF TitleOk
  <2> QED BY <1>1, <2>2, <2>3, <2>4
<1>3. CASE Head(body) \in Cwds
  <2>1. k2 = [k EXCEPT !.cwd = body] /\ r2 = [r EXCEPT !.cwd = body]
    BY <1>1, <1>3 DEF OscSticky, OscState, WithCwd, Titles, Cwds
  <2>2. k2 \in Sticky /\ r2 \in State /\ k2.cwd = body /\ k2.title = k.title
    BY <2>1 DEF Sticky, State
  <2>3. Agrees(k, r) => Agrees(k2, r2)
    BY <2>1 DEF Agrees, Sticky, State
  <2>4. BodyOk(body) => CwdOk(body)
    BY <1>3 DEF CwdOk
  <2> QED BY <1>1, <2>2, <2>3, <2>4
<1>4. CASE Head(body) \in {"10", "10?"}
  <2>1. k2 = k /\ (r2 = r \/ r2 = [r EXCEPT !.palette = {"10"}])
    BY <1>1, <1>4 DEF OscSticky, OscState, WithPalette, Titles, Cwds
  <2>2. /\ r2 \in State /\ r2.sgr = r.sgr /\ r2.modes = r.modes /\ r2.region = r.region
        /\ r2.cwd = r.cwd /\ r2.title = r.title
    BY <2>1 DEF State
  <2>3. Agrees(k, r) => Agrees(k2, r2)
    BY <2>1, <2>2 DEF Agrees
  <2> QED BY <1>1, <2>1, <2>2, <2>3
<1> QED BY <1>2, <1>3, <1>4 DEF OscKept

(* Every call that is kept adds some text and sets the state, whatever the *)
(* terminal, and may ask a question.                                       *)
LEMMA DoesText ==
    ASSUME NEW k \in State
    PROVE  /\ \A b \in AllPieces : <<<<b, k.sgr>>>> \in Seq(TextItem)
                /\ Does(<<"print", b>>, k, <<<<b, k.sgr>>>>, k)
           /\ <<<<"lf">>>> \in Seq(TextItem) /\ Does(<<"execute", "lf">>, k, <<<<"lf">>>>, k)
           /\ <<<<"K">>>> \in Seq(TextItem) /\ Does(<<"csi_dispatch", "K">>, k, <<<<"K">>>>, k)
           /\ <<>> \in Seq(TextItem) /\ Does(<<"esc_dispatch", "st">>, k, <<>>, k)
           /\ Does(<<"csi_dispatch", "$p">>, k, <<>>, k)
<1>1. k.sgr \in SUBSET Sgr
  BY DEF State
<1>2. \A b \in AllPieces : <<b, k.sgr>> \in TextItem
  BY <1>1 DEF TextItem
<1>3. <<"lf">> \in TextItem /\ <<"K">> \in TextItem
  BY DEF TextItem
<1>4. ASSUME NEW t \in Term, t.state = k, NEW i \in TextItem
      PROVE  [t EXCEPT !.text = Append(@, i)] = Grown(t, <<i>>, k, {})
  <2>1. t.text \in Seq(TextItem)
    BY DEF Term
  <2>2. Append(t.text, i) = t.text \o <<i>>
    BY <2>1
  <2>3. PICK x, n : x = t.text \o <<i>> /\ n = t.noise \cup {}
    OBVIOUS
  <2>4. n = t.noise
    BY <2>3
  <2>5. [t EXCEPT !.text = x] = [t EXCEPT !.text = x, !.state = k, !.noise = n]
    BY <1>4, <2>4 DEF Term
  <2> QED BY <2>2, <2>3, <2>5 DEF Grown
<1>5. ASSUME NEW t \in Term, t.state = k, NEW m
      PROVE  [t EXCEPT !.noise = t.noise \cup m] = Grown(t, <<>>, k, m)
  <2>1. t.text \in Seq(TextItem)
    BY DEF Term
  <2>2. t.text \o <<>> = t.text
    BY <2>1
  <2>3. PICK n : n = t.noise \cup m
    OBVIOUS
  <2>4. [t EXCEPT !.noise = n] = [t EXCEPT !.text = t.text, !.state = k, !.noise = n]
    BY <1>5 DEF Term
  <2> QED BY <2>2, <2>3, <2>4 DEF Grown
<1>6. ASSUME NEW b \in AllPieces PROVE Does(<<"print", b>>, k, <<<<b, k.sgr>>>>, k)
  <2>1. ASSUME NEW t \in Term, t.state = k
        PROVE  TermDo(t, <<"print", b>>) = [t EXCEPT !.text = Append(@, <<b, k.sgr>>)]
    BY <2>1 DEF TermDo
  <2>2. PICK i : i = <<b, k.sgr>>
    OBVIOUS
  <2>3. i \in TextItem
    BY <1>2, <2>2
  <2>4. \A t \in Term : t.state = k => TermDo(t, <<"print", b>>) = Grown(t, <<i>>, k, {})
    BY <1>4, <2>1, <2>2, <2>3
  <2> QED BY <2>2, <2>4 DEF Does
<1>7. Does(<<"execute", "lf">>, k, <<<<"lf">>>>, k)
  <2>1. ASSUME NEW t \in Term
        PROVE  TermDo(t, <<"execute", "lf">>) = [t EXCEPT !.text = Append(@, <<"lf">>)]
    BY DEF TermDo
  <2>2. PICK i : i = <<"lf">>
    OBVIOUS
  <2>3. \A t \in Term : t.state = k => TermDo(t, <<"execute", "lf">>) = Grown(t, <<i>>, k, {})
    BY <1>3, <1>4, <2>1, <2>2
  <2> QED BY <2>2, <2>3 DEF Does
<1>8. Does(<<"csi_dispatch", "K">>, k, <<<<"K">>>>, k)
  <2>1. ASSUME NEW t \in Term
        PROVE  TermDo(t, <<"csi_dispatch", "K">>) = [t EXCEPT !.text = Append(@, <<"K">>)]
    <3>1. TermDo(t, <<"csi_dispatch", "K">>) = TermCsi(t, "K")
      BY DEF TermDo
    <3> QED BY <3>1, CsiAsserts
  <2>2. PICK i : i = <<"K">>
    OBVIOUS
  <2>3. \A t \in Term : t.state = k => TermDo(t, <<"csi_dispatch", "K">>) = Grown(t, <<i>>, k, {})
    BY <1>3, <1>4, <2>1, <2>2
  <2> QED BY <2>2, <2>3 DEF Does
<1>9. Does(<<"esc_dispatch", "st">>, k, <<>>, k)
  <2>1. ASSUME NEW t \in Term PROVE TermDo(t, <<"esc_dispatch", "st">>) = t
    BY DEF TermDo
  <2>2. ASSUME NEW t \in Term PROVE t = [t EXCEPT !.noise = t.noise \cup {}]
    BY DEF Term
  <2>3. \A t \in Term : t.state = k => TermDo(t, <<"esc_dispatch", "st">>) = Grown(t, <<>>, k, {})
    BY <1>5, <2>1, <2>2
  <2> QED BY <2>3 DEF Does
<1>10. Does(<<"csi_dispatch", "$p">>, k, <<>>, k)
  <2>1. ASSUME NEW t \in Term
        PROVE  TermDo(t, <<"csi_dispatch", "$p">>) = [t EXCEPT !.noise = t.noise \cup {"$p"}]
    <3>1. TermDo(t, <<"csi_dispatch", "$p">>) = TermCsi(t, "$p")
      BY DEF TermDo
    <3> QED BY <3>1, CsiAsserts
  <2>2. PICK m : m = {"$p"}
    OBVIOUS
  <2>3. m \in SUBSET KeptQueries
    BY <2>2 DEF KeptQueries
  <2>4. \A t \in Term : t.state = k => TermDo(t, <<"csi_dispatch", "$p">>) = Grown(t, <<>>, k, m)
    BY <1>5, <2>1, <2>2
  <2> QED BY <2>3, <2>4 DEF Does
<1>11. <<>> \in Seq(TextItem) /\ \A i \in TextItem : <<i>> \in Seq(TextItem)
  OBVIOUS
<1> QED BY <1>2, <1>3, <1>6, <1>7, <1>8, <1>9, <1>10, <1>11

(* The same for the calls that change the state.                           *)
LEMMA DoesState ==
    ASSUME NEW k \in State
    PROVE  /\ \A b \in Changing : Does(<<"csi_dispatch", b>>, k, <<>>, CsiState(k, b))
           /\ \A body : Head(body) \in OscKept =>
                Does(<<"osc_dispatch", body>>, k, <<>>, OscState(k, body))
<1>1. ASSUME NEW t \in Term, NEW r, NEW m PROVE
        [t EXCEPT !.state = r, !.noise = t.noise \cup m] = Grown(t, <<>>, r, m)
  <2>1. t.text \in Seq(TextItem)
    BY DEF Term
  <2>2. t.text \o <<>> = t.text
    BY <2>1
  <2>3. PICK n : n = t.noise \cup m
    OBVIOUS
  <2>4. [t EXCEPT !.state = r, !.noise = n] = [t EXCEPT !.text = t.text, !.state = r, !.noise = n]
    BY DEF Term
  <2> QED BY <2>2, <2>3, <2>4 DEF Grown
<1>2. ASSUME NEW t \in Term, NEW r PROVE InState(t, r) = Grown(t, <<>>, r, {})
  <2>1. [t EXCEPT !.state = r] = [t EXCEPT !.state = r, !.noise = t.noise \cup {}]
    BY DEF Term
  <2> QED BY <1>1, <2>1 DEF InState
<1>3. {} \in SUBSET KeptQueries /\ {"10?"} \in SUBSET KeptQueries
  BY DEF KeptQueries
<1>4. ASSUME NEW b \in Changing
      PROVE  Does(<<"csi_dispatch", b>>, k, <<>>, CsiState(k, b))
  <2>1. ASSUME NEW t \in Term, t.state = k
        PROVE  TermDo(t, <<"csi_dispatch", b>>) = InState(t, CsiState(k, b))
    <3>1. TermDo(t, <<"csi_dispatch", b>>) = TermCsi(t, b)
      BY DEF TermDo
    <3>2. TermCsi(t, b) = InState(t, CsiState(k, b))
      BY <2>1, ColdType, CsiStates
    <3> QED BY <3>1, <3>2
  <2> QED BY <1>2, <1>3, <2>1 DEF Does
<1>5. ASSUME NEW body, Head(body) \in OscKept
      PROVE  Does(<<"osc_dispatch", body>>, k, <<>>, OscState(k, body))
  <2>1. ASSUME NEW t \in Term PROVE TermDo(t, <<"osc_dispatch", body>>) = TermOsc(t, body)
    BY DEF TermDo
  <2>2. CASE Head(body) \in Titles
    <3>1. ASSUME NEW t \in Term, t.state = k PROVE TermOsc(t, body) = InState(t, WithTitle(k, body))
      BY <2>2, <3>1 DEF TermOsc, Titles, Cwds, InState, WithTitle
    <3>2. OscState(k, body) = WithTitle(k, body)
      BY <2>2 DEF OscState
    <3> QED BY <1>2, <1>3, <2>1, <3>1, <3>2 DEF Does
  <2>3. CASE Head(body) \in Cwds
    <3>1. ASSUME NEW t \in Term, t.state = k PROVE TermOsc(t, body) = InState(t, WithCwd(k, body))
      BY <2>3, <3>1 DEF TermOsc, Titles, Cwds, InState, WithCwd
    <3>2. OscState(k, body) = WithCwd(k, body)
      BY <2>3 DEF OscState, Titles, Cwds
    <3> QED BY <1>2, <1>3, <2>1, <3>1, <3>2 DEF Does
  <2>4. CASE Head(body) = "10"
    <3>1. ASSUME NEW t \in Term, t.state = k
          PROVE  TermOsc(t, body) = InState(t, WithPalette(k, {"10"}))
      BY <2>4, <3>1 DEF TermOsc, Titles, Cwds, InState, WithPalette
    <3>2. OscState(k, body) = WithPalette(k, {"10"})
      BY <2>4 DEF OscState, Titles, Cwds
    <3> QED BY <1>2, <1>3, <2>1, <3>1, <3>2 DEF Does
  <2>5. CASE Head(body) = "10?"
    <3>1. ASSUME NEW t \in Term, t.state = k
          PROVE  TermOsc(t, body) = [t EXCEPT !.state = k, !.noise = t.noise \cup {"10?"}]
      <4>1. TermOsc(t, body) = [t EXCEPT !.noise = t.noise \cup {"10?"}]
        BY <2>5 DEF TermOsc, Titles, Cwds
      <4>2. PICK n : n = t.noise \cup {"10?"}
        OBVIOUS
      <4>3. [t EXCEPT !.noise = n] = [t EXCEPT !.state = k, !.noise = n]
        BY <3>1 DEF Term
      <4> QED BY <4>1, <4>2, <4>3
    <3>2. OscState(k, body) = k
      BY <2>5 DEF OscState, Titles, Cwds
    <3>3. PICK m : m = {"10?"}
      OBVIOUS
    <3>4. \A t \in Term : t.state = k => TermDo(t, <<"osc_dispatch", body>>) = Grown(t, <<>>, k, m)
      BY <1>1, <2>1, <3>1, <3>3
    <3> QED BY <1>3, <3>2, <3>3, <3>4 DEF Does
  <2> QED BY <1>5, <2>2, <2>3, <2>4, <2>5 DEF OscKept
<1> QED BY <1>4, <1>5

-----------------------------------------------------------------------------
(* The other steps.                                                        *)

(* A byte that completes nothing, for any terminal.                        *)
LEMMA PlacedOn ==
    ASSUME NEW t \in Term, NEW b, OneByte(t.more, b), Callback(t.p, b) = <<"none">>
    PROVE  TermStep(t, b) = Placed(t, ParserStep(t.p, b), MoreAfter(t.more, b))
<1>1. PICK q, m : q = ParserStep(t.p, b) /\ m = MoreAfter(t.more, b)
  OBVIOUS
<1>2. TermStep(t, b) = [t EXCEPT !.more = m, !.p = q]
  BY <1>1, QuietByte
<1>3. [t EXCEPT !.more = m, !.p = q] = [t EXCEPT !.p = q, !.more = m]
  BY DEF Term
<1> QED BY <1>1, <1>2, <1>3 DEF Placed

(* A terminal whose parser was moved.                                      *)
LEMMA PlacedType ==
    ASSUME NEW t \in Term, NEW p \in Parser, NEW m \in Nat
    PROVE  /\ Placed(t, p, m) \in Term
           /\ Placed(t, p, m).p = p /\ Placed(t, p, m).more = m
           /\ Placed(t, p, m).text = t.text /\ Placed(t, p, m).noise = t.noise
           /\ Placed(t, p, m).state = t.state
           /\ \A q, l : Placed(Placed(t, p, m), q, l) = Placed(t, q, l)
<1>1. PICK x : x = [t EXCEPT !.p = p, !.more = m]
  OBVIOUS
<1>2. x \in Term /\ x.p = p /\ x.more = m /\ x.text = t.text /\ x.noise = t.noise /\ x.state = t.state
  BY <1>1 DEF Term
<1>3. \A q, l : [x EXCEPT !.p = q, !.more = l] = [t EXCEPT !.p = q, !.more = l]
  BY <1>1 DEF Term
<1> QED BY <1>1, <1>2, <1>3 DEF Placed

(* The bytes of a span, and one that does not complete it.                 *)
LEMMA TracksOn ==
    ASSUME NEW bytes \in Bytes, NEW p \in Parser, NEW m \in Nat, NEW b \in AllPieces,
           Tracks(bytes, p, m), OneByte(m, b), Callback(p, b) = <<"none">>
    PROVE  Tracks(Append(bytes, b), ParserStep(p, b), MoreAfter(m, b))
<1>1. ASSUME NEW t, Idle(t)
      PROVE  Reads(t, Append(bytes, b)) = Placed(t, ParserStep(p, b), MoreAfter(m, b))
  <2>1. PICK w : w = Placed(t, p, m)
    OBVIOUS
  <2>2. w \in Term /\ w.p = p /\ w.more = m /\ \A q, l : Placed(w, q, l) = Placed(t, q, l)
    BY <1>1, <2>1, PlacedType DEF Idle
  <2>3. Reads(t, Append(bytes, b)) = TermStep(w, b)
    BY <1>1, <2>1, ReadsByte DEF Tracks
  <2>4. TermStep(w, b) = Placed(w, ParserStep(p, b), MoreAfter(m, b))
    BY <2>2, PlacedOn
  <2> QED BY <2>2, <2>3, <2>4
<1> QED BY <1>1 DEF Tracks

(* A chunk, when the terminal has only changed where its parser is or made *)
(* a noise.                                                                *)
LEMMA ChunkStays ==
    ASSUME NEW j, NEW G, NEW v, NEW p, NEW f, NEW t, ChunkOk(j, G, v, p, f, t), ~Split(p, f),
           NEW y, y.text = t.text, y.state = t.state, NEW q, NEW g, ~Split(q, g)
    PROVE  ChunkOk(j, G, v, q, g, y)
  BY DEF ChunkOk

(* A byte in the middle of a span.                                         *)
LEMMA StepNone ==
    ASSUME NEW s, NEW t, NEW R, NEW G, EngineOk(s, t, R, G), NEW b \in AllPieces,
           OneByte(s.utf8, b), Callback(s.p, b) = <<"none">>, ~Mid(s.p),
           ParserStep(s.p, b) \in Parser, ~Mid(ParserStep(s.p, b)),
           Shape(ParserStep(s.p, b), Append(s.pending, b), MoreAfter(s.utf8, b))
    PROVE  Moves(s, FeedOne(s, b), TermStep(t, b), R, G)
<1>1. s \in Scan /\ t \in Term /\ s.p = t.p /\ s.utf8 = t.more
  BY DEF EngineOk, TypesOk
<1>2. PICK n, y, q, m, e : /\ n = Seen(s, b) /\ y = TermStep(t, b) /\ q = ParserStep(s.p, b)
                           /\ m = MoreAfter(s.utf8, b) /\ e = "none"
  OBVIOUS
<1>3. /\ n \in Scan /\ n.p = q /\ n.chunks = s.chunks /\ n.sticky = s.sticky
      /\ n.cache = s.cache /\ n.st = s.st /\ n.ev = "none"
      /\ n.pending = Append(s.pending, b) /\ n.utf8 = m
  <2>1. PICK x : x = Pushed(s, b)
    OBVIOUS
  <2>2. /\ x \in Scan /\ x.sticky = s.sticky /\ x.cache = s.cache
        /\ x.st = s.st /\ x.ev = "none"
    BY <1>1, <2>1, PushedType
  <2>3. Dispatch(x, <<"none">>) = x
    BY DEF Dispatch
  <2>4. x = Sunk(x, x.ev, x.st, x.sticky, x.cache)
    BY <2>2 DEF Sunk, Scan
  <2>5. PICK f, k, c : f = s.st /\ k = s.sticky /\ c = s.cache
    OBVIOUS
  <2>6. /\ e \in {"none", "keep", "drop", "clear"} /\ f \in {"none", "keep", "drop"}
        /\ k \in Sticky /\ c \in Bytes
    BY <1>1, <1>2, <2>5 DEF Scan
  <2>7. Dispatch(Pushed(s, b), Callback(s.p, b)) = Sunk(Pushed(s, b), e, f, k, c)
    BY <1>2, <2>1, <2>2, <2>3, <2>4, <2>5
  <2>8. s \in Scan /\ ParserStep(s.p, b) \in Parser
    BY <1>1
  <2>9. /\ Seen(s, b) \in Scan
        /\ Seen(s, b).p = ParserStep(s.p, b) /\ Seen(s, b).chunks = s.chunks
        /\ Seen(s, b).sticky = k /\ Seen(s, b).cache = c
        /\ Seen(s, b).st = f /\ Seen(s, b).ev = e
        /\ Seen(s, b).pending = Append(s.pending, b)
        /\ Seen(s, b).utf8 = MoreAfter(s.utf8, b)
    BY <2>6, <2>7, <2>8, SeenIs
  <2> QED BY <1>2, <2>5, <2>9
<1>4. FeedOne(s, b) = n
  <2>1. FeedOne(s, b) = Settled(n)
    BY <1>1, <1>2, FeedOneByteIs
  <2> QED BY <1>3, <2>1 DEF Settled
<1>5. m \in Nat /\ q \in Parser /\ s.p \in Parser /\ s.utf8 \in Nat /\ s.pending \in Bytes
  BY <1>1, <1>2 DEF MoreAfter, Scan
<1>6. y = Placed(t, q, m)
  BY <1>1, <1>2, PlacedOn
<1>7. y \in Term /\ y.p = q /\ y.more = m /\ y.text = t.text /\ y.state = t.state
  BY <1>1, <1>5, <1>6, PlacedType
<1>8. TypesOk(n, y)
  BY <1>3, <1>7 DEF TypesOk
<1>9. Tracks(Append(s.pending, b), q, m)
  <2>1. Tracks(s.pending, s.p, s.utf8)
    BY DEF EngineOk, SpanOk
  <2> QED BY <1>2, <1>5, <2>1, TracksOn
<1>10. SpanOk(n)
  BY <1>2, <1>3, <1>9 DEF SpanOk
<1>11. StickyOk(n, y, R)
  BY <1>3, <1>7 DEF EngineOk, StickyOk
<1>12. ASSUME NEW j \in 1..Len(s.chunks)
       PROVE  ChunkOk(j, G, Shown(ReplayFrom(s.chunks, j)), n.p, n.st, y)
  <2>1. PICK v, p, f, g : v = Shown(ReplayFrom(s.chunks, j)) /\ p = s.p /\ f = s.st /\ g = n.st
    OBVIOUS
  <2>2. ChunkOk(j, G, v, p, f, t)
    BY <2>1 DEF EngineOk, RingOk
  <2>3. ~Split(p, f) /\ ~Split(q, g)
    BY <1>2, <2>1 DEF Split
  <2>4. ChunkOk(j, G, v, q, g, y)
    BY <1>7, <2>2, <2>3, ChunkStays
  <2> QED BY <1>3, <2>1, <2>4
<1>13. RingOk(n, y, G)
  BY <1>3, <1>12 DEF EngineOk, RingOk
<1>14. EngineOk(n, y, R, G)
  BY <1>8, <1>10, <1>11, <1>13 DEF EngineOk
<1> QED BY <1>2, <1>3, <1>4, <1>14, MovesSame

(* The terminal that is left, but for its parser and its noise.            *)
Unmoved(y, t, q) ==
    y \in Term /\ y.p = q /\ y.more = 0 /\ y.text = t.text /\ y.state = t.state

(* A span that is dropped.                                                 *)
LEMMA StepDrop ==
    ASSUME NEW s, NEW t, NEW R, NEW G, EngineOk(s, t, R, G), NEW b \in AllPieces, NEW f,
           OneByte(s.utf8, b), MoreAfter(s.utf8, b) = 0, ~Split(s.p, s.st),
           Sinks(s, b, "drop", f, s.sticky, s.cache), Done(ParserStep(s.p, b), f), f # "keep",
           Unmoved(TermStep(t, b), t, ParserStep(s.p, b))
    PROVE  Moves(s, FeedOne(s, b), TermStep(t, b), R, G) /\ FeedOne(s, b).chunks = s.chunks
<1>1. s \in Scan /\ t \in Term /\ s.p = t.p /\ s.utf8 = t.more
  BY DEF EngineOk, TypesOk
<1>2. PICK n, y, q, e, k, c, o :
         /\ n = Seen(s, b) /\ y = TermStep(t, b) /\ q = ParserStep(s.p, b)
         /\ e = "drop" /\ k = s.sticky /\ c = s.cache /\ o = [n EXCEPT !.pending = <<>>]
  OBVIOUS
<1>3. /\ n \in Scan /\ n.p = q /\ n.chunks = s.chunks /\ n.sticky = s.sticky
      /\ n.cache = s.cache /\ n.st = f /\ n.ev = "drop" /\ n.utf8 = 0
  <2>1. Sinks(s, b, e, f, k, c)
    BY <1>2
  <2> QED BY <1>1, <1>2, <2>1, SeenSunk
<1>4. FeedOne(s, b) = o
  <2>1. FeedOne(s, b) = Settled(n)
    BY <1>1, <1>2, FeedOneByteIs
  <2> QED BY <1>2, <1>3, <2>1 DEF Settled
<1>5. /\ o \in Scan /\ o.p = q /\ o.chunks = s.chunks /\ o.sticky = s.sticky
      /\ o.cache = s.cache /\ o.st = f /\ o.ev = "drop" /\ o.pending = <<>> /\ o.utf8 = 0
  BY <1>2, <1>3, BytesConcat DEF Scan
<1>6. y \in Term /\ y.p = q /\ y.more = 0 /\ y.text = t.text /\ y.state = t.state
  BY <1>2 DEF Unmoved
<1>7. TypesOk(o, y)
  BY <1>5, <1>6 DEF TypesOk
<1>8. SpanOk(o)
  BY <1>2, <1>5, SpanDone
<1>9. StickyOk(o, y, R)
  BY <1>5, <1>6 DEF EngineOk, StickyOk
<1>10. ASSUME NEW j \in 1..Len(s.chunks)
       PROVE  ChunkOk(j, G, Shown(ReplayFrom(s.chunks, j)), o.p, o.st, y)
  <2>1. PICK v, p, g : v = Shown(ReplayFrom(s.chunks, j)) /\ p = s.p /\ g = s.st
    OBVIOUS
  <2>2. ChunkOk(j, G, v, p, g, t)
    BY <2>1 DEF EngineOk, RingOk
  <2>3. ~Split(p, g) /\ ~Split(q, f)
    BY <2>1 DEF Split
  <2>4. ChunkOk(j, G, v, q, f, y)
    BY <1>6, <2>2, <2>3, ChunkStays
  <2> QED BY <1>5, <2>1, <2>4
<1>11. RingOk(o, y, G)
  BY <1>5, <1>10 DEF EngineOk, RingOk
<1>12. EngineOk(o, y, R, G)
  BY <1>7, <1>8, <1>9, <1>11 DEF EngineOk
<1> QED BY <1>2, <1>4, <1>5, <1>12, MovesSame

(* The clear that the prologue of a purged ring begins with.               *)
LEMMA ClearReads ==
    /\ <<"esc", "[", "2J">> \in Bytes
    /\ Reads(Cold, <<"esc", "[", "2J">>) = Cold
<1>1. "esc" \in AllPieces /\ "[" \in AllPieces /\ "2J" \in AllPieces /\ "2J" \in Csi
  BY PieceSets
<1>2. PICK u : u = [Cold EXCEPT !.p = At("csi")]
  OBVIOUS
<1>3. u \in Term /\ u.text = <<>>
  <2>1. At("csi") \in Parser
    BY BytesConcat DEF At, Parser
  <2> QED BY <1>2, <2>1, ColdType DEF Term
<1>4. TermCsi(u, "2J") = u
  <2>1. TermCsi(u, "2J") = [u EXCEPT !.text = <<>>]
    BY <1>3, CsiAsserts
  <2> QED BY <1>3, <2>1 DEF Term
<1>5. [u EXCEPT !.p = Ground] = Cold
  BY <1>2, ColdType DEF Term
<1>6. Reads(Cold, <<"esc", "[", "2J">>) = [TermCsi(u, "2J") EXCEPT !.p = Ground]
  <2>1. PICK b : b = "2J"
    OBVIOUS
  <2>2. Reads(Cold, <<"esc", "[", b>>) = [TermCsi([Cold EXCEPT !.p = At("csi")], b) EXCEPT !.p = Ground]
    BY <1>1, <2>1, ColdType, ReadsCsi
  <2> QED BY <1>2, <2>1, <2>2
<1>7. <<"esc", "[", "2J">> \in Bytes
  BY <1>1 DEF Bytes
<1> QED BY <1>4, <1>5, <1>6, <1>7

(* A span that clears the screen.                                          *)
LEMMA StepClear ==
    ASSUME NEW s, NEW t, NEW R, NEW G, EngineOk(s, t, R, G), NEW R2, NEW b \in AllPieces,
           OneByte(s.utf8, b), MoreAfter(s.utf8, b) = 0, ParserStep(s.p, b) = Ground,
           Sinks(s, b, "clear", "none", s.sticky, s.cache),
           TermStep(t, b) \in Term, TermStep(t, b).p = Ground, TermStep(t, b).more = 0,
           TermStep(t, b).text = <<>>, ~R2 => ~R /\ TermStep(t, b).state = t.state
    PROVE  Clears(FeedOne(s, b), TermStep(t, b), R2)
<1>1. s \in Scan /\ t \in Term /\ s.p = t.p /\ s.utf8 = t.more
  BY DEF EngineOk, TypesOk
<1>2. PICK n, y, e, f, k, c :
         /\ n = Seen(s, b) /\ y = TermStep(t, b)
         /\ e = "clear" /\ f = "none" /\ k = s.sticky /\ c = s.cache
  OBVIOUS
<1>3. /\ n \in Scan /\ n.p = Ground /\ n.chunks = s.chunks /\ n.sticky = s.sticky
      /\ n.cache = s.cache /\ n.st = "none" /\ n.ev = "clear" /\ n.utf8 = 0
  <2>1. Sinks(s, b, e, f, k, c)
    BY <1>2
  <2> QED BY <1>1, <1>2, <2>1, SeenSunk
<1>4. Fresh(n.sticky, n.cache, y, R2) /\ y \in Term
  BY <1>2, <1>3 DEF EngineOk, StickyOk, Fresh
<1>5. PICK r, x, ch, d, o :
         /\ r = Serialized(n) /\ x = <<"esc", "[", "2J">> /\ ch = NewChunk(x \o r)
         /\ d = <<ch>> /\ o = [n EXCEPT !.chunks = d, !.cache = r, !.pending = <<>>]
  OBVIOUS
<1>6. FeedOne(s, b) = o
  <2>1. FeedOne(s, b) = Settled(n)
    BY <1>1, <1>2, FeedOneByteIs
  <2>2. Settled(n) = Purge(n)
    BY <1>3 DEF Settled
  <2> QED BY <1>5, <2>1, <2>2 DEF Purge
<1>7. /\ r = BuildSerialized(n.sticky) /\ r \in Bytes
      /\ Reads(Cold, r) = InState(Cold, Restored(n.sticky))
  BY <1>3, <1>4, <1>5, SerializedIs
<1>8. x \in Bytes /\ Reads(Cold, x) = Cold
  BY <1>5, ClearReads
<1>9. PICK z : z = x \o r
  OBVIOUS
<1>10. z \in Bytes /\ Reads(Cold, z) = InState(Cold, Restored(n.sticky))
  BY <1>7, <1>8, <1>9, BytesConcat, ReadsBytes
<1>11. ch \in Chunk /\ ch.prologue = z /\ ch.data = <<>>
  BY <1>5, <1>9, <1>10, BytesConcat DEF NewChunk, Chunk
<1>12. d \in Seq(Chunk) /\ Len(d) = 1 /\ d = Append(<<>>, ch) /\ d # <<>>
  BY <1>5, <1>11
<1>13. ReplayFrom(d, 1) = z
  <2>1. PICK c0 : c0 = <<>>
    OBVIOUS
  <2>2. c0 \in Seq(Chunk) /\ Len(c0) = 0 /\ d = Append(c0, ch)
    BY <1>12, <2>1
  <2>3. ReplayFrom(d, Len(c0) + 1) = ch.prologue \o ch.data
    BY <1>11, <2>2, ReplayAppend
  <2> QED BY <1>10, <1>11, <2>2, <2>3, BytesConcat
<1>14. /\ o \in Scan /\ o.p = Ground /\ o.chunks = d /\ o.sticky = n.sticky
       /\ o.cache = r /\ o.st = "none" /\ o.ev = "clear" /\ o.pending = <<>> /\ o.utf8 = 0
  BY <1>3, <1>5, <1>7, <1>12, BytesConcat DEF Scan
<1>15. TypesOk(o, y)
  BY <1>2, <1>14 DEF TypesOk
<1>16. SpanOk(o)
  <2>1. Done(o.p, o.st)
    BY <1>14, ColdType DEF Done
  <2> QED BY <1>14, <2>1, SpanDone
<1>17. StickyOk(o, y, R2)
  BY <1>4, <1>7, <1>14 DEF StickyOk, Fresh
<1>18. PICK H : H = Gain({}, 0, o, y, R2)
  OBVIOUS
<1>19. H \subseteq {1} /\ (1 \in H => Sayable(y.state) /\ ~R2)
  BY <1>12, <1>14, <1>18 DEF Gain
<1>20. ChunkOk(1, H, Shown(ReplayFrom(d, 1)), o.p, o.st, y)
  <2>1. PICK l, j, p, g : l = Restored(n.sticky) /\ j = 1 /\ p = o.p /\ g = o.st
    OBVIOUS
  <2>2. n.sticky \in Sticky /\ y.state \in State /\ l \in State /\ y.text = <<>> /\ ~Split(p, g)
    BY <1>2, <1>3, <1>4, <1>14, <2>1, RestoredType DEF Scan, Term, Split
  <2>3. j \in H => l = y.state
    BY <1>4, <1>19, <2>1, <2>2, SayableRestored DEF Fresh
  <2>4. ChunkOk(j, H, InState(Cold, l), p, g, y)
    BY <1>4, <2>2, <2>3, PrologueOk
  <2> QED BY <1>10, <1>13, <2>1, <2>4 DEF Shown
<1>21. RingOk(o, y, H)
  BY <1>12, <1>14, <1>19, <1>20 DEF RingOk
<1>22. EngineOk(o, y, R2, H)
  BY <1>15, <1>16, <1>17, <1>21 DEF EngineOk
<1> QED BY <1>2, <1>6, <1>14, <1>18, <1>22 DEF Clears

(* The backslash that ends the terminator of an OSC.                       *)
LEMMA StReads ==
    ASSUME NEW t \in Term, t.p.at = "esc"
    PROVE  /\ Callback(t.p, "st") = <<"esc_dispatch", "st">> /\ ParserStep(t.p, "st") = Ground
           /\ TermStep(t, "st") = Placed(t, Ground, 0)
<1>1. Callback(t.p, "st") = <<"esc_dispatch", "st">>
  BY DEF Callback, C0
<1>2. ParserStep(t.p, "st") = Ground
  BY DEF ParserStep, C0
<1>3. OneByte(t.more, "st") /\ MoreAfter(t.more, "st") = 0
  BY DEF OneByte, MoreAfter
<1>4. PICK u, b : u = [t EXCEPT !.more = 0] /\ b = "st"
  OBVIOUS
<1>5. TermStep(t, b) = [TermDo([t EXCEPT !.more = MoreAfter(t.more, b)], Callback(t.p, b))
                          EXCEPT !.p = ParserStep(t.p, b)]
  BY <1>3, <1>4, OneByteStep
<1>6. TermDo(u, <<"esc_dispatch", "st">>) = u
  BY DEF TermDo
<1>7. TermStep(t, "st") = [u EXCEPT !.p = Ground]
  BY <1>1, <1>2, <1>3, <1>4, <1>5, <1>6
<1>8. [u EXCEPT !.p = Ground] = [t EXCEPT !.p = Ground, !.more = 0]
  BY <1>4 DEF Term
<1> QED BY <1>1, <1>2, <1>7, <1>8 DEF Placed

(* The same backslash where a cut has taken it from its ESC: it is printed.*)
LEMMA StPrints ==
    ASSUME NEW t, Idle(t)
    PROVE  /\ TermStep(t, "st") \in Term /\ TermStep(t, "st").p = Ground
           /\ TermStep(t, "st").more = 0 /\ TermStep(t, "st").noise \subseteq t.noise \cup KeptQueries
           /\ TermStep(t, "st").state = t.state
<1>1. Callback(Ground, "st") = <<"print", "st">> /\ ParserStep(Ground, "st") = Ground
  BY ColdType DEF Callback, ParserStep, C0
<1>2. PICK b, k, x, u : b = "st" /\ k = t.state /\ x = TermStep(t, b) /\ u = <<<<b, k.sgr>>>>
  OBVIOUS
<1>3. b \in AllPieces /\ k \in State /\ t \in Term /\ t.p = Ground /\ t.more = 0
  BY <1>2, PieceSets DEF Idle, Term
<1>4. u \in Seq(TextItem) /\ Does(<<"print", b>>, k, u, k)
  BY <1>2, <1>3, DoesText
<1>5. OneByte(0, b) /\ MoreAfter(0, b) = 0
  BY <1>2 DEF OneByte, MoreAfter
<1>6. CanGrow(t, b, u, k) /\ ParserStep(t.p, b) = Ground
  BY <1>1, <1>2, <1>3, <1>4, <1>5, ColdType DEF CanGrow
<1>7. GrownTo(x, t, Ground, u, k)
  BY <1>2, <1>6, StepGrows
<1> QED BY <1>2, <1>7 DEF GrownTo

(* The end of an OSC that is kept.                                         *)
LEMMA StepSplit ==
    ASSUME NEW s, NEW t, NEW R, NEW G, EngineOk(s, t, R, G), Split(s.p, s.st)
    PROVE  /\ Moves(s, FeedOne(s, "st"), TermStep(t, "st"), R, G)
           /\ Last(FeedOne(s, "st").chunks).data = <<>> =>
                Len(FeedOne(s, "st").chunks) > Len(s.chunks)
<1>1. s \in Scan /\ t \in Term /\ s.p = t.p /\ s.utf8 = t.more /\ s.p.at = "esc"
  BY DEF EngineOk, TypesOk, Split, Mid
<1>2. PICK b, n, y, e, f, k, c :
         /\ b = "st" /\ n = Seen(s, b) /\ y = TermStep(t, b)
         /\ e = "keep" /\ f = "none" /\ k = s.sticky /\ c = s.cache
  OBVIOUS
<1>3. /\ Callback(s.p, b) = <<"esc_dispatch", "st">> /\ ParserStep(s.p, b) = Ground
      /\ y = Placed(t, Ground, 0) /\ b \in AllPieces
      /\ OneByte(s.utf8, b) /\ MoreAfter(s.utf8, b) = 0
  <2>1. /\ Callback(t.p, "st") = <<"esc_dispatch", "st">> /\ ParserStep(t.p, "st") = Ground
        /\ TermStep(t, "st") = Placed(t, Ground, 0)
    BY <1>1, StReads
  <2>2. b \in AllPieces
    BY <1>2, PieceSets
  <2>3. OneByte(s.utf8, b) /\ MoreAfter(s.utf8, b) = 0
    BY <1>2 DEF OneByte, MoreAfter
  <2> QED BY <1>1, <1>2, <2>1, <2>2, <2>3
<1>4. y \in Term /\ y.p = Ground /\ y.more = 0 /\ y.text = t.text /\ y.state = t.state
  BY <1>1, <1>3, ColdType, PlacedType
<1>5. Sinks(s, b, e, f, k, c)
  <2>1. PICK x : x = Pushed(s, b)
    OBVIOUS
  <2>2. x \in Scan /\ x.sticky = k /\ x.cache = c /\ x.st = "keep"
    BY <1>1, <1>2, <1>3, <2>1, PushedType DEF Split
  <2>3. Dispatch(x, <<"esc_dispatch", "st">>) = Sunk(x, e, f, k, c)
    BY <1>2, <2>2, SinkQuiet
  <2>4. k \in Sticky /\ c \in Bytes
    BY <1>1, <1>2 DEF Scan
  <2> QED BY <1>2, <1>3, <2>1, <2>3, <2>4, ColdType DEF Sinks
<1>6. /\ n \in Scan /\ n.p = Ground /\ n.chunks = s.chunks /\ n.sticky = k
      /\ n.cache = c /\ n.st = "none" /\ n.ev = "keep" /\ n.utf8 = 0
      /\ n.pending = Append(s.pending, b)
  BY <1>1, <1>2, <1>3, <1>5, SeenSunk
<1>7. FeedOne(s, b) = Keep(n)
  <2>1. FeedOne(s, b) = Settled(n)
    BY <1>1, <1>2, <1>3, FeedOneByteIs
  <2> QED BY <1>6, <2>1 DEF Settled
<1>8. s.pending = <<>> /\ s.chunks # <<>> /\ G \subseteq 1..Len(s.chunks)
  BY DEF EngineOk, SpanOk, Shape, RingOk, Split
<1>9. n.pending = Append(<<>>, b)
  BY <1>6, <1>8
<1>10. ASSUME NEW j \in 1..Len(s.chunks)
       PROVE  ChunkOk(j, G, Reads(Shown(ReplayFrom(s.chunks, j)), n.pending), Ground, "none", y)
  <2>1. PICK v, w : v = Shown(ReplayFrom(s.chunks, j)) /\ w = TermStep(v, "st")
    OBVIOUS
  <2>2. ChunkOk(j, G, v, s.p, s.st, t)
    BY <2>1 DEF EngineOk, RingOk
  <2>3. Reads(v, n.pending) = w
    <3>1. Reads(v, Append(<<>>, b)) = TermStep(Reads(v, <<>>), b)
      BY <1>3, BytesConcat, ReadsByte
    <3> QED BY <1>2, <1>9, <2>1, <3>1, ReadsEmpty
  <2>4. v \in Term /\ v.more = 0 /\ v.noise \subseteq KeptQueries /\ (v.p = Ground \/ v.p = s.p)
        /\ (j \in G => v.state = t.state /\ EndsIn(t.text, v.text) /\ v.p = s.p)
        /\ (j \in G /\ j = 1 => v.text = t.text)
    BY <2>2 DEF ChunkOk
  <2>5. v.p = s.p => w \in Term /\ w.p = Ground /\ w.more = 0 /\ w.noise = v.noise
                     /\ w.state = v.state /\ w.text = v.text
    <3>1. ASSUME v.p = s.p PROVE w = Placed(v, Ground, 0)
      BY <1>1, <2>1, <2>4, <3>1, StReads
    <3> QED BY <2>4, <3>1, ColdType, PlacedType
  <2>6. v.p = Ground => w \in Term /\ w.p = Ground /\ w.more = 0
                        /\ w.noise \subseteq v.noise \cup KeptQueries
    <3>1. v.p = Ground => Idle(v)
      BY <2>4 DEF Idle
    <3> QED BY <2>1, <3>1, StPrints
  <2>7. ~Split(Ground, "none")
    BY DEF Split
  <2>8. w \in Term /\ w.p = Ground /\ w.more = 0 /\ w.noise \subseteq KeptQueries
    BY <2>4, <2>5, <2>6
  <2>9. j \in G => w.state = y.state /\ EndsIn(y.text, w.text) /\ (j = 1 => w.text = y.text)
    BY <1>4, <2>4, <2>5
  <2>10. ChunkOk(j, G, w, Ground, "none", y)
    BY <2>7, <2>8, <2>9 DEF ChunkOk
  <2> QED BY <2>1, <2>3, <2>10
<1>11. Keep(n).ev = n.ev /\ EngineOk(Keep(n), y, R, Gain(G, Len(n.chunks), Keep(n), y, R))
  <2>1. Done(n.p, n.st)
    BY <1>6, ColdType DEF Done
  <2>2. Fresh(n.sticky, n.cache, y, R)
    BY <1>2, <1>4, <1>6 DEF EngineOk, StickyOk, Fresh
  <2>3. \A j \in 1..Len(n.chunks) :
            ChunkOk(j, G, Reads(Shown(ReplayFrom(n.chunks, j)), n.pending), n.p, n.st, y)
    BY <1>6, <1>10
  <2>4. n \in Scan /\ y \in Term /\ n.p = y.p /\ n.utf8 = 0 /\ y.more = 0 /\ n.chunks # <<>>
        /\ G \subseteq 1..Len(n.chunks)
    BY <1>4, <1>6, <1>8
  <2> QED BY <2>1, <2>2, <2>3, <2>4, KeepOk
<1>12. Moves(s, Keep(n), y, R, G)
  BY <1>6, <1>11 DEF Moves
<1>13. n.pending # <<>> /\ n.chunks # <<>>
  BY <1>6, <1>8, <1>9
<1>14. Last(Keep(n).chunks).data = <<>> => Len(Keep(n).chunks) > Len(s.chunks)
  BY <1>6, <1>13, KeepCuts
<1> QED BY <1>2, <1>7, <1>12, <1>14

-----------------------------------------------------------------------------
(* One byte, by what the parser is reading.                                *)

(* What the sink makes of a byte is what it makes of the call.             *)
LEMMA SinksAs ==
    ASSUME NEW s \in Scan, NEW b \in AllPieces, NEW call, NEW e, NEW f, NEW k \in Sticky,
           NEW c \in Bytes, ParserStep(s.p, b) \in Parser, Callback(s.p, b) = call,
           e \in {"none", "keep", "drop", "clear"}, f \in {"none", "keep", "drop"},
           \A x \in Scan : x.st = s.st /\ x.sticky = s.sticky /\ x.cache = s.cache =>
                              Dispatch(x, call) = Sunk(x, e, f, k, c)
    PROVE  Sinks(s, b, e, f, k, c)
<1>1. PICK x : x = Pushed(s, b)
  OBVIOUS
<1>2. x \in Scan /\ x.st = s.st /\ x.sticky = s.sticky /\ x.cache = s.cache
  BY <1>1, PushedType
<1>3. Dispatch(x, call) = Sunk(x, e, f, k, c)
  BY <1>2
<1> QED BY <1>1, <1>3 DEF Sinks

(* A span that is kept and leaves the state alone.                         *)
LEMMA StepText ==
    ASSUME NEW s, NEW t, NEW R, NEW G, EngineOk(s, t, R, G), NEW b \in AllPieces,
           OneByte(s.utf8, b), MoreAfter(s.utf8, b) = 0, ~Mid(s.p), ParserStep(s.p, b) = Ground,
           Sinks(s, b, "keep", "none", s.sticky, s.cache),
           \A x \in State : \E u \in Seq(TextItem) : Does(Callback(s.p, b), x, u, x)
    PROVE  Moves(s, FeedOne(s, b), TermStep(t, b), R, G)
<1>1. s \in Scan /\ t \in Term /\ s.p = t.p /\ s.utf8 = t.more
  BY DEF EngineOk, TypesOk
<1>2. PICK y, f, k, c : y = TermStep(t, b) /\ f = "none" /\ k = s.sticky /\ c = s.cache
  OBVIOUS
<1>3. t.state \in State
  BY <1>1 DEF Term
<1>4. PICK u \in Seq(TextItem) : Does(Callback(s.p, b), t.state, u, t.state)
  BY <1>3
<1>5. PICK r : r = t.state
  OBVIOUS
<1>6. CanGrow(t, b, u, r) /\ ParserStep(t.p, b) = Ground
  BY <1>1, <1>3, <1>4, <1>5, ColdType DEF CanGrow
<1>7. GrownTo(y, t, Ground, u, r)
  BY <1>2, <1>6, StepGrows
<1>8. Fresh(k, c, y, R)
  <2>1. y.state = t.state
    BY <1>5, <1>7 DEF GrownTo
  <2> QED BY <1>2, <2>1 DEF EngineOk, StickyOk, Fresh
<1>9. Done(ParserStep(s.p, b), f) /\ f # "drop" /\ Sinks(s, b, "keep", f, k, c)
  BY <1>2, ColdType DEF Done
<1>10. \A x \in State : \E w \in Seq(TextItem), z \in State : Does(Callback(s.p, b), x, w, z)
  OBVIOUS
<1>11. Fresh(k, c, TermStep(t, b), R)
  BY <1>2, <1>8
<1> QED BY <1>9, <1>10, <1>11, StepKeep

(* A call that only makes a noise.                                         *)
Noisy(call) == \A u \in Term : \E z \in AllPieces :
                  TermDo(u, call) = [u EXCEPT !.noise = u.noise \cup {z}]

(* The terminal after it.                                                  *)
LEMMA StepNoise ==
    ASSUME NEW t \in Term, NEW b, OneByte(t.more, b), MoreAfter(t.more, b) = 0,
           ParserStep(t.p, b) \in Parser, Noisy(Callback(t.p, b))
    PROVE  Unmoved(TermStep(t, b), t, ParserStep(t.p, b))
<1>1. PICK y, u, q, call : /\ y = TermStep(t, b) /\ u = [t EXCEPT !.more = 0]
                           /\ q = ParserStep(t.p, b) /\ call = Callback(t.p, b)
  OBVIOUS
<1>2. u \in Term /\ u.text = t.text /\ u.state = t.state /\ u.more = 0
  BY <1>1 DEF Term
<1>3. PICK z \in AllPieces : TermDo(u, call) = [u EXCEPT !.noise = u.noise \cup {z}]
  BY <1>1, <1>2 DEF Noisy
<1>4. y = [TermDo(u, call) EXCEPT !.p = q]
  BY <1>1, OneByteStep
<1>5. PICK x : x = u.noise \cup {z}
  OBVIOUS
<1>6. x \in SUBSET AllPieces
  BY <1>2, <1>5 DEF Term
<1>7. y = [[u EXCEPT !.noise = x] EXCEPT !.p = q]
  BY <1>3, <1>4, <1>5
<1>8. q \in Parser
  BY <1>1
<1>9. y \in Term /\ y.p = q /\ y.more = 0 /\ y.text = t.text /\ y.state = t.state
  BY <1>2, <1>6, <1>7, <1>8 DEF Term
<1> QED BY <1>1, <1>9 DEF Unmoved

(* The noises.                                                             *)
LEMMA Noises ==
    /\ Noisy(<<"execute", "bel">>) /\ Noisy(<<"csi_dispatch", "6n">>)
    /\ \A body : Head(body) \in OscDropped => Noisy(<<"osc_dispatch", body>>)
<1>1. "bel" \in AllPieces /\ "6n" \in AllPieces /\ OscDropped \subseteq AllPieces
  BY PieceSets DEF OscDropped
<1>2. ASSUME NEW u \in Term
      PROVE  TermDo(u, <<"execute", "bel">>) = [u EXCEPT !.noise = u.noise \cup {"bel"}]
  BY DEF TermDo
<1>3. ASSUME NEW u \in Term
      PROVE  TermDo(u, <<"csi_dispatch", "6n">>) = [u EXCEPT !.noise = u.noise \cup {"6n"}]
  <2>1. TermDo(u, <<"csi_dispatch", "6n">>) = TermCsi(u, "6n")
    BY DEF TermDo
  <2> QED BY <2>1, CsiAsserts
<1>4. ASSUME NEW body, Head(body) \in OscDropped, NEW u \in Term
      PROVE  TermDo(u, <<"osc_dispatch", body>>) = [u EXCEPT !.noise = u.noise \cup {Head(body)}]
  <2>1. TermDo(u, <<"osc_dispatch", body>>) = TermOsc(u, body)
    BY DEF TermDo
  <2>2. Head(body) \notin Titles /\ Head(body) \notin Cwds /\ Head(body) # "10"
    BY <1>4 DEF OscDropped, Titles, Cwds
  <2> QED BY <2>1, <2>2 DEF TermOsc
<1> QED BY <1>1, <1>2, <1>3, <1>4 DEF Noisy

(* A parser is where it is and what it has read.                           *)
LEMMA ParserIs ==
    ASSUME NEW p \in Parser, p.body = <<>>
    PROVE  p = At(p.at)
  BY DEF Parser, At

(* Between sequences.                                                      *)
LEMMA StepGround ==
    ASSUME NEW s, NEW t, NEW R, NEW G, EngineOk(s, t, R, G), s.p.at = "ground",
           NEW b \in {"a", "esc", "lead", "lf", "bel"}
    PROVE  Moves(s, FeedOne(s, b), TermStep(t, b), R, G)
<1>1. /\ s \in Scan /\ t \in Term /\ s.p = t.p /\ s.utf8 = t.more /\ s.p \in Parser
      /\ s.sticky \in Sticky /\ s.cache \in Bytes
  BY DEF EngineOk, TypesOk, Scan
<1>2. s.p = Ground /\ s.utf8 = 0 /\ s.pending = <<>>
  <2>1. s.p.body = <<>> /\ s.utf8 = 0 /\ s.pending = <<>>
    BY DEF EngineOk, SpanOk, Shape
  <2> QED BY <1>1, <2>1, ParserIs DEF Ground
<1>3. b \in AllPieces /\ OneByte(s.utf8, b) /\ ~Mid(s.p)
  BY PieceSets DEF OneByte, Mid
<1>4. CASE b = "esc"
  <2>1. Callback(s.p, b) = <<"none">>
    BY <1>4 DEF Callback
  <2>2. ParserStep(s.p, b) = At("esc")
    BY <1>2, <1>4 DEF ParserStep, Ground, At
  <2>3. At("esc") \in Parser /\ At("esc").at = "esc" /\ At("esc").body = <<>>
    BY BytesConcat DEF At, Parser
  <2>4. Append(s.pending, b) = <<"esc">>
    BY <1>2, <1>4
  <2>5. Shape(At("esc"), <<"esc">>, MoreAfter(s.utf8, b)) /\ ~Mid(At("esc"))
    <3>1. MoreAfter(s.utf8, b) = 0
      BY <1>4 DEF MoreAfter
    <3> QED BY <2>3, <3>1 DEF Shape, Mid
  <2> QED BY <1>3, <2>1, <2>2, <2>3, <2>4, <2>5, StepNone
<1>5. CASE b = "lead"
  <2>1. Callback(s.p, b) = <<"none">>
    BY <1>5 DEF Callback
  <2>2. ParserStep(s.p, b) = At("char")
    BY <1>5 DEF ParserStep
  <2>3. At("char") \in Parser /\ At("char").at = "char" /\ At("char").body = <<>>
    BY BytesConcat DEF At, Parser
  <2>4. MoreAfter(s.utf8, b) = 2
    BY <1>5 DEF MoreAfter
  <2>5. Shape(At("char"), Append(s.pending, b), MoreAfter(s.utf8, b)) /\ ~Mid(At("char"))
    BY <2>3, <2>4 DEF Shape, Mid
  <2> QED BY <1>3, <2>1, <2>2, <2>3, <2>5, StepNone
<1>6. CASE b \in {"a", "lf"}
  <2>1. ParserStep(s.p, b) = Ground /\ MoreAfter(s.utf8, b) = 0
    BY <1>6 DEF ParserStep, MoreAfter
  <2>2. PICK call, e, f, k, c : /\ call = Callback(s.p, b) /\ e = "keep" /\ f = "none"
                                /\ k = s.sticky /\ c = s.cache
    OBVIOUS
  <2>3. call = <<"print", "a">> \/ call = <<"execute", "lf">>
    BY <1>6, <2>2 DEF Callback, C0
  <2>4. \A x \in Scan : x.st = s.st /\ x.sticky = s.sticky /\ x.cache = s.cache =>
                           Dispatch(x, call) = Sunk(x, e, f, k, c)
    BY <2>2, <2>3, SinkQuiet
  <2>5. Sinks(s, b, e, f, k, c)
    <3>1. k \in Sticky /\ c \in Bytes /\ s \in Scan
      BY <1>1, <2>2
    <3>2. e \in {"none", "keep", "drop", "clear"} /\ f \in {"none", "keep", "drop"}
          /\ ParserStep(s.p, b) \in Parser /\ Callback(s.p, b) = call
      BY <2>1, <2>2, ColdType
    <3> QED BY <1>3, <2>4, <3>1, <3>2, SinksAs
  <2>6. \A x \in State : \E u \in Seq(TextItem) : Does(call, x, u, x)
    <3>1. "a" \in AllPieces
      BY PieceSets
    <3> QED BY <2>3, <3>1, DoesText
  <2>7. Sinks(s, b, "keep", "none", s.sticky, s.cache)
    BY <2>2, <2>5
  <2>8. \A x \in State : \E u \in Seq(TextItem) : Does(Callback(s.p, b), x, u, x)
    BY <2>2, <2>6
  <2> QED BY <1>3, <2>1, <2>7, <2>8, StepText
<1>7. CASE b = "bel"
  <2>1. ParserStep(s.p, b) = Ground /\ MoreAfter(s.utf8, b) = 0
    BY <1>7 DEF ParserStep, MoreAfter
  <2>2. PICK call, e, f, k, c : /\ call = Callback(s.p, b) /\ e = "drop" /\ f = "none"
                                /\ k = s.sticky /\ c = s.cache
    OBVIOUS
  <2>3. call = <<"execute", "bel">>
    BY <1>7, <2>2 DEF Callback, C0
  <2>4. \A x \in Scan : x.st = s.st /\ x.sticky = s.sticky /\ x.cache = s.cache =>
                           Dispatch(x, call) = Sunk(x, e, f, k, c)
    BY <2>2, <2>3, SinkQuiet
  <2>5. Sinks(s, b, e, f, k, c)
    <3>1. k \in Sticky /\ c \in Bytes /\ s \in Scan
      BY <1>1, <2>2
    <3>2. e \in {"none", "keep", "drop", "clear"} /\ f \in {"none", "keep", "drop"}
          /\ ParserStep(s.p, b) \in Parser /\ Callback(s.p, b) = call
      BY <2>1, <2>2, ColdType
    <3> QED BY <1>3, <2>4, <3>1, <3>2, SinksAs
  <2>6. Unmoved(TermStep(t, b), t, ParserStep(t.p, b))
    <3>1. Noisy(Callback(t.p, b))
      BY <1>1, <2>2, <2>3, Noises
    <3>2. /\ OneByte(t.more, b) /\ MoreAfter(t.more, b) = 0 /\ ParserStep(t.p, b) \in Parser
      BY <1>1, <1>3, <2>1, ColdType
    <3> QED BY <1>1, <3>1, <3>2, StepNoise
  <2>7. Sinks(s, b, "drop", f, s.sticky, s.cache) /\ Done(ParserStep(s.p, b), f) /\ f # "keep"
        /\ ~Split(s.p, s.st) /\ Unmoved(TermStep(t, b), t, ParserStep(s.p, b))
    BY <1>1, <1>3, <2>1, <2>2, <2>5, <2>6, ColdType DEF Done, Split
  <2> QED BY <1>3, <2>1, <2>7, StepDrop
<1> QED BY <1>4, <1>5, <1>6, <1>7

(* Within a character.                                                     *)
LEMMA StepChar ==
    ASSUME NEW s, NEW t, NEW R, NEW G, EngineOk(s, t, R, G), s.p.at = "char", NEW b,
           b = IF t.more = 2 THEN "9c" ELSE "93"
    PROVE  Moves(s, FeedOne(s, b), TermStep(t, b), R, G)
<1>1. /\ s \in Scan /\ t \in Term /\ s.p = t.p /\ s.utf8 = t.more /\ s.p \in Parser
      /\ s.sticky \in Sticky /\ s.cache \in Bytes
  BY DEF EngineOk, TypesOk, Scan
<1>2. s.p.body = <<>> /\ s.utf8 \in {1, 2}
  BY DEF EngineOk, SpanOk, Shape
<1>3. b \in AllPieces /\ OneByte(s.utf8, b) /\ ~Mid(s.p)
  BY <1>1, <1>2, PieceSets DEF OneByte, Mid
<1>4. CASE s.utf8 = 2
  <2>1. b = "9c" /\ MoreAfter(s.utf8, b) = 1
    BY <1>1, <1>4 DEF MoreAfter
  <2>2. Callback(s.p, b) = <<"none">> /\ ParserStep(s.p, b) = s.p
    BY <2>1 DEF Callback, ParserStep, C0
  <2>3. Shape(s.p, Append(s.pending, b), MoreAfter(s.utf8, b))
    BY <1>2, <1>3, <2>1 DEF Shape
  <2> QED BY <1>1, <1>3, <2>2, <2>3, StepNone
<1>5. CASE s.utf8 = 1
  <2>1. b = "93" /\ MoreAfter(s.utf8, b) = 0
    BY <1>1, <1>5 DEF MoreAfter
  <2>2. Callback(s.p, b) = <<"print", "93">> /\ ParserStep(s.p, b) = Ground
    BY <2>1 DEF Callback, ParserStep, C0
  <2>3. PICK call, e, f, k, c : /\ call = Callback(s.p, b) /\ e = "keep" /\ f = "none"
                                /\ k = s.sticky /\ c = s.cache
    OBVIOUS
  <2>4. \A x \in Scan : x.st = s.st /\ x.sticky = s.sticky /\ x.cache = s.cache =>
                           Dispatch(x, call) = Sunk(x, e, f, k, c)
    BY <2>2, <2>3, SinkQuiet
  <2>5. Sinks(s, b, e, f, k, c)
    <3>1. k \in Sticky /\ c \in Bytes /\ s \in Scan
      BY <1>1, <2>3
    <3>2. e \in {"none", "keep", "drop", "clear"} /\ f \in {"none", "keep", "drop"}
          /\ ParserStep(s.p, b) \in Parser /\ Callback(s.p, b) = call
      BY <2>2, <2>3, ColdType
    <3> QED BY <1>3, <2>4, <3>1, <3>2, SinksAs
  <2>6. \A x \in State : \E u \in Seq(TextItem) : Does(Callback(s.p, b), x, u, x)
    <3>1. "93" \in AllPieces
      BY PieceSets
    <3> QED BY <2>2, <3>1, DoesText
  <2>7. Sinks(s, b, "keep", "none", s.sticky, s.cache)
    BY <2>3, <2>5
  <2> QED BY <1>3, <2>1, <2>2, <2>6, <2>7, StepText
<1> QED BY <1>2, <1>4, <1>5

(* Two bytes, the second appended to the first.                            *)
LEMMA TwoBytes ==
    ASSUME NEW a \in AllPieces, NEW b \in AllPieces
    PROVE  Append(<<a>>, b) = <<a, b>>
<1>1. PICK x1, x2 : x1 = <<a>> /\ x2 = <<a, b>>
  OBVIOUS
<1>2. x2 = Append(x1, b)
  BY <1>1
<1> QED BY <1>1, <1>2

(* After an ESC: the beginning of a sequence, or RIS.                      *)
LEMMA StepEsc ==
    ASSUME NEW s, NEW t, NEW R, NEW G, EngineOk(s, t, R, G), s.p.at = "esc", s.p.body = <<>>,
           NEW b \in {"[", "]", "c"}, NEW R2,
           ~R2 => ~R /\ (b = "c" => t.state = ColdState)
    PROVE  /\ b # "c" => Moves(s, FeedOne(s, b), TermStep(t, b), R, G)
           /\ b = "c" => Clears(FeedOne(s, b), TermStep(t, b), R2)
<1>1. /\ s \in Scan /\ t \in Term /\ s.p = t.p /\ s.utf8 = t.more /\ s.p \in Parser
      /\ s.sticky \in Sticky /\ s.cache \in Bytes
  BY DEF EngineOk, TypesOk, Scan
<1>2. s.pending = <<"esc">>
  BY DEF EngineOk, SpanOk, Shape
<1>3. /\ b \in AllPieces /\ OneByte(s.utf8, b) /\ ~Mid(s.p) /\ MoreAfter(s.utf8, b) = 0
  BY PieceSets DEF OneByte, Mid, MoreAfter
<1>4. CASE b = "["
  <2>1. Callback(s.p, b) = <<"none">>
    BY <1>4 DEF Callback, C0
  <2>2. ParserStep(s.p, b) = At("csi")
    BY <1>4 DEF ParserStep, C0
  <2>3. At("csi") \in Parser /\ At("csi").at = "csi" /\ At("csi").body = <<>>
    BY BytesConcat DEF At, Parser
  <2>4. Shape(At("csi"), Append(s.pending, b), MoreAfter(s.utf8, b)) /\ ~Mid(At("csi"))
    BY <2>3 DEF Shape, Mid
  <2> QED BY <1>3, <1>4, <2>1, <2>2, <2>3, <2>4, StepNone
<1>5. CASE b = "]"
  <2>1. Callback(s.p, b) = <<"none">>
    BY <1>5 DEF Callback, C0
  <2>2. ParserStep(s.p, b) = At("osc")
    BY <1>5 DEF ParserStep, C0
  <2>3. At("osc") \in Parser /\ At("osc").at = "osc" /\ At("osc").body = <<>>
    BY BytesConcat DEF At, Parser
  <2>4. Append(s.pending, b) = <<"esc", "]">> \o <<>>
    <3>1. "esc" \in AllPieces /\ "]" \in AllPieces
      BY PieceSets
    <3>2. PICK x : x = <<"esc", "]">>
      OBVIOUS
    <3>3. x \in Bytes
      BY <3>1, <3>2 DEF Bytes
    <3>4. Append(s.pending, b) = x
      <4>1. PICK u, y : u = "esc" /\ y = <<u>>
        OBVIOUS
      <4>2. x = <<u, b>>
        BY <1>5, <3>2, <4>1
      <4>3. Append(<<u>>, b) = <<u, b>>
        BY <1>3, <3>1, <4>1, TwoBytes
      <4> QED BY <1>2, <4>1, <4>2, <4>3
    <3> QED BY <3>2, <3>3, <3>4, BytesConcat
  <2>5. Shape(At("osc"), Append(s.pending, b), MoreAfter(s.utf8, b)) /\ ~Mid(At("osc"))
    BY <2>3, <2>4 DEF Shape, Mid
  <2> QED BY <1>3, <1>5, <2>1, <2>2, <2>3, <2>5, StepNone
<1>6. CASE b = "c"
  <2>1. Callback(s.p, b) = <<"esc_dispatch", "c">> /\ ParserStep(s.p, b) = Ground
    BY <1>6 DEF Callback, ParserStep, C0
  <2>2. PICK call, e, f, k, c : /\ call = Callback(s.p, b) /\ e = "clear" /\ f = "none"
                                /\ k = s.sticky /\ c = s.cache
    OBVIOUS
  <2>3. \A x \in Scan : x.st = s.st /\ x.sticky = s.sticky /\ x.cache = s.cache =>
                           Dispatch(x, call) = Sunk(x, e, f, k, c)
    BY <2>1, <2>2, SinkQuiet
  <2>4. Sinks(s, b, e, f, k, c)
    <3>1. k \in Sticky /\ c \in Bytes /\ s \in Scan
      BY <1>1, <2>2
    <3>2. e \in {"none", "keep", "drop", "clear"} /\ f \in {"none", "keep", "drop"}
          /\ ParserStep(s.p, b) \in Parser /\ Callback(s.p, b) = call
      BY <2>1, <2>2, ColdType
    <3> QED BY <1>3, <2>3, <3>1, <3>2, SinksAs
  <2>5. Sinks(s, b, "clear", "none", s.sticky, s.cache)
    BY <2>2, <2>4
  <2>6. PICK u, y : u = [t EXCEPT !.more = 0] /\ y = TermStep(t, b)
    OBVIOUS
  <2>7. y = [TermDo(u, <<"esc_dispatch", "c">>) EXCEPT !.p = Ground]
    BY <1>1, <1>3, <2>1, <2>6, OneByteStep
  <2>8. TermDo(u, <<"esc_dispatch", "c">>) = [Cold EXCEPT !.noise = u.noise]
    BY DEF TermDo
  <2>9. u.noise \in SUBSET AllPieces
    BY <1>1, <2>6 DEF Term
  <2>10. y \in Term /\ y.p = Ground /\ y.more = 0 /\ y.text = <<>> /\ y.state = ColdState
    BY <2>7, <2>8, <2>9, ColdType DEF Term
  <2>11. ~R2 => ~R /\ y.state = t.state
    BY <1>6, <2>10
  <2> QED BY <1>3, <1>6, <2>1, <2>5, <2>6, <2>10, <2>11, StepClear
<1> QED BY <1>4, <1>5, <1>6

(* The end of a CSI that changes the state.                                *)
LEMMA StepState ==
    ASSUME NEW s, NEW t, NEW R, NEW G, EngineOk(s, t, R, G), s.p.at = "csi",
           NEW b \in Changing
    PROVE  Moves(s, FeedOne(s, b), TermStep(t, b), R, G)
<1>1. /\ s \in Scan /\ t \in Term /\ s.p = t.p /\ s.utf8 = t.more /\ s.p \in Parser
      /\ s.sticky \in Sticky /\ s.cache \in Bytes /\ t.state \in State
  BY DEF EngineOk, TypesOk, Scan, Term
<1>2. /\ b \in AllPieces /\ OneByte(s.utf8, b) /\ ~Mid(s.p) /\ MoreAfter(s.utf8, b) = 0
      /\ b \notin {"esc", "lead", "lf", "bel", "9c", "93"}
  BY PieceSets DEF OneByte, Mid, MoreAfter, Changing
<1>3. Callback(s.p, b) = <<"csi_dispatch", b>> /\ ParserStep(s.p, b) = Ground
  BY <1>2 DEF Callback, ParserStep, C0
<1>4. PICK call, e, f, k, c : /\ call = Callback(s.p, b) /\ e = "keep" /\ f = "none"
                              /\ k = StickyCsi(s.sticky, b) /\ c = <<>>
  OBVIOUS
<1>5. k \in Sticky /\ k.cwd = s.sticky.cwd /\ k.title = s.sticky.title
  BY <1>1, <1>4, CsiStates
<1>6. \A x \in Scan : x.st = s.st /\ x.sticky = s.sticky /\ x.cache = s.cache =>
                         Dispatch(x, call) = Sunk(x, e, f, k, c)
  BY <1>3, <1>4, SinkCsi
<1>7. Sinks(s, b, e, f, k, c)
  <2>1. k \in Sticky /\ c \in Bytes /\ s \in Scan
    BY <1>1, <1>4, <1>5, BytesConcat
  <2>2. e \in {"none", "keep", "drop", "clear"} /\ f \in {"none", "keep", "drop"}
        /\ ParserStep(s.p, b) \in Parser /\ Callback(s.p, b) = call
    BY <1>3, <1>4, ColdType
  <2> QED BY <1>2, <1>6, <2>1, <2>2, SinksAs
<1>8. PICK y, r, u : y = TermStep(t, b) /\ r = CsiState(t.state, b) /\ u = <<>>
  OBVIOUS
<1>9. r \in State /\ u \in Seq(TextItem) /\ Does(<<"csi_dispatch", b>>, t.state, u, r)
  BY <1>1, <1>8, CsiStates, DoesState, DoesText
<1>10. CanGrow(t, b, u, r) /\ ParserStep(t.p, b) = Ground
  BY <1>1, <1>2, <1>3, <1>9, ColdType DEF CanGrow
<1>11. GrownTo(y, t, Ground, u, r)
  BY <1>8, <1>10, StepGrows
<1>12. Fresh(k, c, y, R)
  <2>1. y.state = CsiState(t.state, b)
    BY <1>8, <1>11 DEF GrownTo
  <2>2. /\ CwdOk(s.sticky.cwd) /\ TitleOk(s.sticky.title)
        /\ ~R => Agrees(s.sticky, t.state)
    BY DEF EngineOk, StickyOk
  <2>3. ~R => Agrees(k, y.state)
    BY <1>1, <1>4, <2>1, <2>2, CsiStates
  <2> QED BY <1>4, <1>5, <2>2, <2>3 DEF Fresh
<1>13. \A x \in State : \E w \in Seq(TextItem), z \in State : Does(Callback(s.p, b), x, w, z)
  <2>1. ASSUME NEW x \in State
        PROVE  <<>> \in Seq(TextItem) /\ CsiState(x, b) \in State
               /\ Does(Callback(s.p, b), x, <<>>, CsiState(x, b))
    BY <1>1, <1>3, CsiStates, DoesState, DoesText
  <2> QED BY <2>1
<1>14. /\ Sinks(s, b, "keep", f, k, c) /\ Done(ParserStep(s.p, b), f) /\ f # "drop"
       /\ Fresh(k, c, TermStep(t, b), R)
  BY <1>3, <1>4, <1>7, <1>8, <1>12, ColdType DEF Done
<1> QED BY <1>2, <1>13, <1>14, StepKeep

(* The end of any other CSI: a cursor movement, a question, a clear.       *)
LEMMA StepCsi ==
    ASSUME NEW s, NEW t, NEW R, NEW G, EngineOk(s, t, R, G), s.p.at = "csi", NEW b \in {"K", "$p", "6n", "2J"}
    PROVE  /\ b # "2J" => Moves(s, FeedOne(s, b), TermStep(t, b), R, G)
           /\ b = "2J" => Clears(FeedOne(s, b), TermStep(t, b), R)
<1>1. /\ s \in Scan /\ t \in Term /\ s.p = t.p /\ s.utf8 = t.more /\ s.p \in Parser
      /\ s.sticky \in Sticky /\ s.cache \in Bytes
  BY DEF EngineOk, TypesOk, Scan
<1>2. /\ b \in AllPieces /\ OneByte(s.utf8, b) /\ ~Mid(s.p) /\ MoreAfter(s.utf8, b) = 0
  BY PieceSets DEF OneByte, Mid, MoreAfter
<1>3. Callback(s.p, b) = <<"csi_dispatch", b>> /\ ParserStep(s.p, b) = Ground
  BY DEF Callback, ParserStep, C0
<1>4. ASSUME NEW e \in {"none", "keep", "drop", "clear"},
             \A x \in Scan : Dispatch(x, <<"csi_dispatch", b>>)
                               = Sunk(x, e, "none", x.sticky, x.cache)
      PROVE  Sinks(s, b, e, "none", s.sticky, s.cache)
  <2>1. PICK call, f, k, c : /\ call = Callback(s.p, b) /\ f = "none"
                             /\ k = s.sticky /\ c = s.cache
    OBVIOUS
  <2>2. \A x \in Scan : x.st = s.st /\ x.sticky = s.sticky /\ x.cache = s.cache =>
                           Dispatch(x, call) = Sunk(x, e, f, k, c)
    BY <1>3, <1>4, <2>1
  <2>3. k \in Sticky /\ c \in Bytes /\ s \in Scan
    BY <1>1, <2>1
  <2>4. e \in {"none", "keep", "drop", "clear"} /\ f \in {"none", "keep", "drop"}
        /\ ParserStep(s.p, b) \in Parser /\ Callback(s.p, b) = call
    BY <1>3, <2>1, ColdType
  <2>5. Sinks(s, b, e, f, k, c)
    BY <1>2, <2>2, <2>3, <2>4, SinksAs
  <2> QED BY <2>1, <2>5
<1>5. CASE b \in {"K", "$p"}
  <2>1. Sinks(s, b, "keep", "none", s.sticky, s.cache)
    BY <1>4, <1>5, SinkQuiet
  <2>2. \A x \in State : \E u \in Seq(TextItem) : Does(Callback(s.p, b), x, u, x)
    BY <1>3, <1>5, DoesText
  <2> QED BY <1>2, <1>3, <1>5, <2>1, <2>2, StepText
<1>6. CASE b = "6n"
  <2>1. Sinks(s, b, "drop", "none", s.sticky, s.cache)
    BY <1>4, <1>6, SinkQuiet
  <2>2. Unmoved(TermStep(t, b), t, ParserStep(t.p, b))
    <3>1. Noisy(Callback(t.p, b))
      BY <1>1, <1>3, <1>6, Noises
    <3>2. /\ OneByte(t.more, b) /\ MoreAfter(t.more, b) = 0 /\ ParserStep(t.p, b) \in Parser
      BY <1>1, <1>2, <1>3, ColdType
    <3> QED BY <1>1, <3>1, <3>2, StepNoise
  <2>3. PICK f : f = "none"
    OBVIOUS
  <2>4. Sinks(s, b, "drop", f, s.sticky, s.cache) /\ Done(ParserStep(s.p, b), f) /\ f # "keep"
        /\ ~Split(s.p, s.st) /\ Unmoved(TermStep(t, b), t, ParserStep(s.p, b))
    BY <1>1, <1>2, <1>3, <2>1, <2>2, <2>3, ColdType DEF Done, Split
  <2> QED BY <1>2, <1>6, <2>4, StepDrop
<1>7. CASE b = "2J"
  <2>1. Sinks(s, b, "clear", "none", s.sticky, s.cache)
    BY <1>4, <1>7, SinkQuiet
  <2>2. PICK u, y : u = [t EXCEPT !.more = 0] /\ y = TermStep(t, b)
    OBVIOUS
  <2>3. u \in Term /\ u.more = 0 /\ u.state = t.state
    BY <1>1, <2>2 DEF Term
  <2>4. TermDo(u, <<"csi_dispatch", b>>) = [u EXCEPT !.text = <<>>]
    <3>1. TermDo(u, <<"csi_dispatch", b>>) = TermCsi(u, b)
      BY DEF TermDo
    <3> QED BY <1>7, <2>3, <3>1, CsiAsserts
  <2>5. y = [TermDo(u, <<"csi_dispatch", b>>) EXCEPT !.p = Ground]
    BY <1>1, <1>2, <1>3, <2>2, OneByteStep
  <2>6. <<>> \in Seq(TextItem)
    OBVIOUS
  <2>7. y \in Term /\ y.p = Ground /\ y.more = 0 /\ y.text = <<>> /\ y.state = t.state
    BY <2>3, <2>4, <2>5, <2>6, ColdType DEF Term
  <2> QED BY <1>2, <1>3, <1>7, <2>1, <2>2, <2>7, StepClear
<1> QED BY <1>5, <1>6, <1>7

(* Within an OSC.                                                          *)
LEMMA StepOscByte ==
    ASSUME NEW s, NEW t, NEW R, NEW G, EngineOk(s, t, R, G), s.p.at = "osc", NEW b,
           \/ s.p.body = <<>> /\ b \in Osc
           \/ s.p.body # <<>> /\ b \in Char /\ (b = "lead" \/ s.utf8 > 0)
    PROVE  Moves(s, FeedOne(s, b), TermStep(t, b), R, G)
<1>1. s \in Scan /\ s.p \in Parser /\ s.p.body \in Bytes
  BY DEF EngineOk, TypesOk, Scan, Parser
<1>2. b \in AllPieces /\ OneByte(s.utf8, b) /\ ~Mid(s.p) /\ b \notin {"bel", "esc"}
  BY PieceSets DEF OneByte, Mid, Char
<1>3. Callback(s.p, b) = <<"none">>
  BY <1>2 DEF Callback
<1>4. PICK body, q : body = Append(s.p.body, b) /\ q = ParserStep(s.p, b)
  OBVIOUS
<1>5. q = [s.p EXCEPT !.body = body]
  BY <1>2, <1>4 DEF ParserStep
<1>6. body \in Bytes
  BY <1>1, <1>2, <1>4, BytesConcat
<1>7. q \in Parser /\ q.at = "osc" /\ q.body = body
  BY <1>1, <1>5, <1>6 DEF Parser
<1>8. Head(body) \in Osc
  <2>1. s.p.body # <<>> => Head(s.p.body) \in Osc
    BY DEF EngineOk, SpanOk, Shape
  <2>2. s.p.body = <<>> => Head(body) = b
    BY <1>4
  <2>3. s.p.body # <<>> => Head(body) = Head(s.p.body)
    BY <1>1, <1>2, <1>4 DEF Bytes
  <2> QED BY <2>1, <2>2, <2>3
<1>9. Append(s.pending, b) = <<"esc", "]">> \o body
  <2>1. s.pending = <<"esc", "]">> \o s.p.body
    BY DEF EngineOk, SpanOk, Shape
  <2>2. PICK x, w : x = <<"esc", "]">> /\ w = s.p.body
    OBVIOUS
  <2>3. "esc" \in AllPieces /\ "]" \in AllPieces
    BY PieceSets
  <2>4. x \in Bytes /\ w \in Bytes
    BY <1>1, <2>2, <2>3 DEF Bytes
  <2>5. Append(x \o w, b) = x \o Append(w, b)
    <3>1. x \in Seq(AllPieces) /\ w \in Seq(AllPieces) /\ b \in AllPieces
      BY <1>2, <2>4 DEF Bytes
    <3>2. PICK A : A = AllPieces
      OBVIOUS
    <3>3. x \in Seq(A) /\ w \in Seq(A) /\ b \in A
      BY <3>1, <3>2
    <3>4. x \o Append(w, b) = Append(x \o w, b)
      BY <3>3, ConcatAppend
    <3> QED BY <3>4
  <2> QED BY <1>4, <2>1, <2>2, <2>5
<1>10. Shape(q, Append(s.pending, b), MoreAfter(s.utf8, b)) /\ ~Mid(q)
  BY <1>7, <1>8, <1>9 DEF Shape, Mid
<1> QED BY <1>2, <1>3, <1>4, <1>7, <1>10, StepNone

(* The body of an OSC that is complete can go into a prologue.             *)
LEMMA BodyDone ==
    ASSUME NEW s, SpanOk(s), s \in Scan, s.p.at = "osc", s.p.body # <<>>
    PROVE  BodyOk(s.p.body)
<1>1. PICK body, m : body = s.p.body /\ m = s.utf8
  OBVIOUS
<1>2. body \in Bytes /\ body # <<>> /\ m \in Nat /\ s.p \in Parser
  BY <1>1 DEF Scan, Parser
<1>3. s.p = InOsc(body)
  BY <1>1, <1>2 DEF Parser, InOsc
<1>4. s.pending = <<"esc", "]">> \o body /\ Tracks(s.pending, s.p, m)
  BY <1>1 DEF SpanOk, Shape, Mid
<1>5. ASSUME NEW t, Idle(t) PROVE Reads(t, <<"esc", "]">> \o body) = AtOsc(t, body, m)
  BY <1>3, <1>4, <1>5 DEF Tracks, Placed, AtOsc
<1> QED BY <1>1, <1>2, <1>5 DEF BodyOk

(* The terminator of an OSC, or the first byte of one: the OSC is          *)
(* dispatched.                                                             *)
LEMMA OscDispatched ==
    ASSUME NEW p \in Parser, p.at = "osc", p.body # <<>>, NEW b \in {"bel", "esc"}
    PROVE  /\ Callback(p, b) = <<"osc_dispatch", p.body>> /\ ParserStep(p, b) \in Parser
           /\ b = "bel" => ParserStep(p, b) = Ground
           /\ b = "esc" => Mid(ParserStep(p, b)) /\ ParserStep(p, b).body = p.body
<1>1. Callback(p, b) = <<"osc_dispatch", p.body>>
  BY DEF Callback
<1>2. b = "bel" => ParserStep(p, b) = Ground
  BY DEF ParserStep
<1>3. ASSUME b = "esc"
      PROVE  ParserStep(p, b) \in Parser /\ Mid(ParserStep(p, b)) /\ ParserStep(p, b).body = p.body
  <2>1. PICK q : q = [p EXCEPT !.at = "esc"]
    OBVIOUS
  <2>2. ParserStep(p, b) = q
    BY <1>3, <2>1 DEF ParserStep
  <2>3. q \in Parser /\ q.at = "esc" /\ q.body = p.body
    BY <2>1 DEF Parser
  <2> QED BY <2>2, <2>3 DEF Mid
<1> QED BY <1>1, <1>2, <1>3, ColdType

(* The end of an OSC that is dropped.                                      *)
LEMMA StepOscDrop ==
    ASSUME NEW s, NEW t, NEW R, NEW G, EngineOk(s, t, R, G), s.p.at = "osc", s.p.body # <<>>,
           Head(s.p.body) \in OscDropped, NEW b \in {"bel", "esc"}
    PROVE  Moves(s, FeedOne(s, b), TermStep(t, b), R, G) /\ FeedOne(s, b).chunks = s.chunks
<1>1. /\ s \in Scan /\ t \in Term /\ s.p = t.p /\ s.utf8 = t.more /\ s.p \in Parser
      /\ s.sticky \in Sticky /\ s.cache \in Bytes
  BY DEF EngineOk, TypesOk, Scan
<1>2. /\ b \in AllPieces /\ OneByte(s.utf8, b) /\ ~Mid(s.p) /\ MoreAfter(s.utf8, b) = 0
  BY PieceSets DEF OneByte, Mid, MoreAfter
<1>3. PICK call, q, e, f, k, c : /\ call = <<"osc_dispatch", s.p.body>> /\ q = ParserStep(s.p, b)
                                 /\ e = "drop" /\ f = "drop" /\ k = s.sticky /\ c = s.cache
  OBVIOUS
<1>4. Callback(s.p, b) = call /\ q \in Parser /\ (q = Ground \/ Mid(q))
  BY <1>1, <1>3, OscDispatched
<1>5. \A x \in Scan : x.st = s.st /\ x.sticky = s.sticky /\ x.cache = s.cache =>
                         Dispatch(x, call) = Sunk(x, e, f, k, c)
  BY <1>3, SinkOsc
<1>6. Sinks(s, b, e, f, k, c)
  <2>1. k \in Sticky /\ c \in Bytes /\ s \in Scan
    BY <1>1, <1>3
  <2>2. e \in {"none", "keep", "drop", "clear"} /\ f \in {"none", "keep", "drop"}
        /\ ParserStep(s.p, b) \in Parser /\ Callback(s.p, b) = call
    BY <1>3, <1>4
  <2> QED BY <1>2, <1>5, <2>1, <2>2, SinksAs
<1>7. Unmoved(TermStep(t, b), t, ParserStep(t.p, b))
  <2>1. Noisy(Callback(t.p, b))
    BY <1>1, <1>3, <1>4, Noises
  <2>2. /\ OneByte(t.more, b) /\ MoreAfter(t.more, b) = 0 /\ ParserStep(t.p, b) \in Parser
    BY <1>1, <1>2, <1>3, <1>4
  <2> QED BY <1>1, <2>1, <2>2, StepNoise
<1>8. Done(ParserStep(s.p, b), f)
  BY <1>3, <1>4 DEF Done
<1>9. /\ Sinks(s, b, "drop", f, s.sticky, s.cache) /\ f # "keep"
      /\ ~Split(s.p, s.st) /\ Unmoved(TermStep(t, b), t, ParserStep(s.p, b))
  BY <1>1, <1>2, <1>3, <1>6, <1>7 DEF Split
<1>10. \A x \in AllPieces :
         /\ OneByte(s.utf8, x) /\ MoreAfter(s.utf8, x) = 0 /\ ~Split(s.p, s.st) /\ f # "keep"
         /\ Sinks(s, x, "drop", f, s.sticky, s.cache) /\ Done(ParserStep(s.p, x), f)
         /\ Unmoved(TermStep(t, x), t, ParserStep(s.p, x))
         => Moves(s, FeedOne(s, x), TermStep(t, x), R, G) /\ FeedOne(s, x).chunks = s.chunks
  BY StepDrop
<1> QED BY <1>2, <1>8, <1>9, <1>10

(* The end of an OSC that is kept.                                         *)
LEMMA StepOscKeep ==
    ASSUME NEW s, NEW t, NEW R, NEW G, EngineOk(s, t, R, G), s.p.at = "osc", s.p.body # <<>>,
           Head(s.p.body) \in OscKept, NEW b \in {"bel", "esc"}
    PROVE  Moves(s, FeedOne(s, b), TermStep(t, b), R, G) /\ FeedOne(s, b).st = "keep"
<1>1. /\ s \in Scan /\ t \in Term /\ s.p = t.p /\ s.utf8 = t.more /\ s.p \in Parser
      /\ s.sticky \in Sticky /\ s.cache \in Bytes /\ t.state \in State
  BY DEF EngineOk, TypesOk, Scan, Term
<1>2. /\ b \in AllPieces /\ OneByte(s.utf8, b) /\ ~Mid(s.p) /\ MoreAfter(s.utf8, b) = 0
  BY PieceSets DEF OneByte, Mid, MoreAfter
<1>3. PICK body, call, q, e, f, k, c :
         /\ body = s.p.body /\ call = <<"osc_dispatch", body>> /\ q = ParserStep(s.p, b)
         /\ e = "keep" /\ f = "keep" /\ k = OscSticky(s.sticky, body)
         /\ c = OscCache(s.cache, body)
  OBVIOUS
<1>4. Callback(s.p, b) = call /\ q \in Parser /\ (q = Ground \/ Mid(q))
  BY <1>1, <1>3, OscDispatched
<1>5. body \in Bytes /\ Head(body) \in OscKept /\ BodyOk(body)
  <2>1. body \in Bytes
    BY <1>1, <1>3 DEF Parser
  <2>2. SpanOk(s)
    BY DEF EngineOk
  <2> QED BY <1>1, <1>3, <2>1, <2>2, BodyDone
<1>6. \A x \in Scan : x.st = s.st /\ x.sticky = s.sticky /\ x.cache = s.cache =>
                         Dispatch(x, call) = Sunk(x, e, f, k, c)
  BY <1>3, <1>5, SinkOsc
<1>7. k \in Sticky /\ c \in Bytes /\ (c = <<>> \/ (k = s.sticky /\ c = s.cache))
  <2>1. k \in Sticky
    BY <1>1, <1>3, <1>5, OscStates
  <2>2. c = <<>> \/ (k = s.sticky /\ c = s.cache)
    BY <1>3 DEF OscSticky, OscCache
  <2> QED BY <1>1, <2>1, <2>2, BytesConcat
<1>8. Sinks(s, b, e, f, k, c)
  <2>1. k \in Sticky /\ c \in Bytes /\ s \in Scan
    BY <1>1, <1>7
  <2>2. e \in {"none", "keep", "drop", "clear"} /\ f \in {"none", "keep", "drop"}
        /\ ParserStep(s.p, b) \in Parser /\ Callback(s.p, b) = call
    BY <1>3, <1>4
  <2> QED BY <1>2, <1>6, <2>1, <2>2, SinksAs
<1>9. PICK y, r, u : y = TermStep(t, b) /\ r = OscState(t.state, body) /\ u = <<>>
  OBVIOUS
<1>10. r \in State /\ u \in Seq(TextItem) /\ Does(call, t.state, u, r)
  BY <1>1, <1>3, <1>5, <1>9, OscStates, DoesState, DoesText
<1>11. CanGrow(t, b, u, r) /\ ParserStep(t.p, b) = q
  BY <1>1, <1>2, <1>3, <1>4, <1>10 DEF CanGrow
<1>12. GrownTo(y, t, q, u, r)
  BY <1>9, <1>11, StepGrows
<1>13. Fresh(k, c, y, R)
  <2>1. y.state = OscState(t.state, body)
    BY <1>9, <1>12 DEF GrownTo
  <2>2. /\ CwdOk(s.sticky.cwd) /\ TitleOk(s.sticky.title)
        /\ s.cache = <<>> \/ s.cache = BuildSerialized(s.sticky)
        /\ ~R => Agrees(s.sticky, t.state)
    BY DEF EngineOk, StickyOk
  <2>3. CwdOk(k.cwd) /\ TitleOk(k.title)
    BY <1>1, <1>3, <1>5, <2>2, OscStates
  <2>4. ~R => Agrees(k, y.state)
    BY <1>1, <1>3, <1>5, <2>1, <2>2, OscStates
  <2> QED BY <1>7, <2>2, <2>3, <2>4 DEF Fresh
<1>14. \A x \in State : \E w \in Seq(TextItem), z \in State : Does(Callback(s.p, b), x, w, z)
  <2>1. ASSUME NEW x \in State
        PROVE  <<>> \in Seq(TextItem) /\ OscState(x, body) \in State
               /\ Does(Callback(s.p, b), x, <<>>, OscState(x, body))
    BY <1>1, <1>3, <1>4, <1>5, OscStates, DoesState, DoesText
  <2> QED BY <2>1
<1>15. Done(ParserStep(s.p, b), f)
  BY <1>3, <1>4 DEF Done
<1>16. Sinks(s, b, "keep", f, k, c) /\ f # "drop" /\ Fresh(k, c, TermStep(t, b), R)
  BY <1>3, <1>8, <1>9, <1>13
<1> QED BY <1>2, <1>3, <1>14, <1>15, <1>16, StepKeep

(* The end of an OSC, kept or dropped, that ends in ESC \.                 *)
LEMMA StepSt ==
    ASSUME NEW s, NEW t, NEW R, NEW G, EngineOk(s, t, R, G), Mid(s.p)
    PROVE  /\ Moves(s, FeedOne(s, "st"), TermStep(t, "st"), R, G)
           /\ s.st = "keep" /\ Last(FeedOne(s, "st").chunks).data = <<>> =>
                Len(FeedOne(s, "st").chunks) > Len(s.chunks)
           /\ s.st # "keep" => FeedOne(s, "st").chunks = s.chunks
<1>1. /\ s \in Scan /\ t \in Term /\ s.p = t.p /\ s.utf8 = t.more /\ s.p.at = "esc"
      /\ s.st \in {"keep", "drop"} /\ s.sticky \in Sticky /\ s.cache \in Bytes
  BY DEF EngineOk, TypesOk, SpanOk, Scan, Mid
<1>2. CASE s.st = "keep"
  BY <1>2, StepSplit DEF Split
<1>3. CASE s.st = "drop"
  <2>1. PICK b, call, e, f, k, c :
           /\ b = "st" /\ call = <<"esc_dispatch", "st">>
           /\ e = "drop" /\ f = "none" /\ k = s.sticky /\ c = s.cache
    OBVIOUS
  <2>2. /\ Callback(s.p, b) = call /\ ParserStep(s.p, b) = Ground
        /\ TermStep(t, b) = Placed(t, Ground, 0)
    <3>1. /\ Callback(t.p, "st") = <<"esc_dispatch", "st">> /\ ParserStep(t.p, "st") = Ground
          /\ TermStep(t, "st") = Placed(t, Ground, 0)
      BY <1>1, StReads
    <3> QED BY <1>1, <2>1, <3>1
  <2>3. b \in AllPieces /\ OneByte(s.utf8, b) /\ MoreAfter(s.utf8, b) = 0
    BY <2>1, PieceSets DEF OneByte, MoreAfter
  <2>4. \A x \in Scan : x.st = s.st /\ x.sticky = s.sticky /\ x.cache = s.cache =>
                           Dispatch(x, call) = Sunk(x, e, f, k, c)
    BY <1>3, <2>1, SinkQuiet
  <2>5. Sinks(s, b, e, f, k, c)
    <3>1. k \in Sticky /\ c \in Bytes /\ s \in Scan
      BY <1>1, <2>1
    <3>2. e \in {"none", "keep", "drop", "clear"} /\ f \in {"none", "keep", "drop"}
          /\ ParserStep(s.p, b) \in Parser /\ Callback(s.p, b) = call
      BY <2>1, <2>2, ColdType
    <3> QED BY <2>3, <2>4, <3>1, <3>2, SinksAs
  <2>6. Unmoved(TermStep(t, b), t, ParserStep(s.p, b))
    BY <1>1, <2>2, ColdType, PlacedType DEF Unmoved
  <2>7. Done(ParserStep(s.p, b), f)
    BY <2>2, ColdType DEF Done
  <2>8. Sinks(s, b, "drop", f, s.sticky, s.cache) /\ f # "keep" /\ ~Split(s.p, s.st)
    BY <1>3, <2>1, <2>5 DEF Split
  <2>9. Moves(s, FeedOne(s, b), TermStep(t, b), R, G) /\ FeedOne(s, b).chunks = s.chunks
    BY <2>3, <2>6, <2>7, <2>8, StepDrop
  <2> QED BY <1>3, <2>1, <2>9
<1> QED BY <1>1, <1>2, <1>3

(* Scanner::feed turns a 0x9C of its own into ESC \, as the terminal does. *)
LEMMA TerminatorIs ==
    ASSUME NEW s \in Scan, NEW t \in Term, s.utf8 = 0, t.more = 0,
           FeedOne(s, "esc") \in Scan, FeedOne(s, "esc").utf8 = 0,
           TermStep(t, "esc") \in Term, TermStep(t, "esc").more = 0
    PROVE  /\ FeedOne(s, "9c") = FeedOne(FeedOne(s, "esc"), "st")
           /\ TermStep(t, "9c") = TermStep(TermStep(t, "esc"), "st")
<1>1. ASSUME NEW x \in Scan, x.utf8 = 0 PROVE [x EXCEPT !.utf8 = 0] = x
  BY <1>1 DEF Scan
<1>2. ASSUME NEW x \in Term, x.more = 0 PROVE [x EXCEPT !.more = 0] = x
  BY <1>2 DEF Term
<1>3. ASSUME NEW x \in Scan, x.utf8 = 0
      PROVE  /\ FeedOne(x, "esc") = AdvanceOne([x EXCEPT !.utf8 = 0], "esc")
             /\ FeedOne(x, "st") = AdvanceOne([x EXCEPT !.utf8 = 0], "st")
             /\ FeedOne(x, "9c") = AdvanceOne(AdvanceOne([x EXCEPT !.utf8 = 0], "esc"), "st")
  BY <1>3 DEF FeedOne
<1>4. ASSUME NEW x \in Term, x.more = 0
      PROVE  /\ TermStep(x, "esc") = TermByte([x EXCEPT !.more = 0], "esc")
             /\ TermStep(x, "st") = TermByte([x EXCEPT !.more = 0], "st")
             /\ TermStep(x, "9c") = TermByte(TermByte([x EXCEPT !.more = 0], "esc"), "st")
  BY <1>4 DEF TermStep
<1>5. FeedOne(s, "9c") = FeedOne(FeedOne(s, "esc"), "st")
  <2>1. PICK x : x = FeedOne(s, "esc")
    OBVIOUS
  <2>2. x \in Scan /\ x.utf8 = 0 /\ x = AdvanceOne(s, "esc")
    BY <1>1, <1>3, <2>1
  <2>3. FeedOne(x, "st") = AdvanceOne(x, "st")
    BY <1>1, <1>3, <2>2
  <2>4. FeedOne(s, "9c") = AdvanceOne(AdvanceOne(s, "esc"), "st")
    BY <1>1, <1>3
  <2> QED BY <2>1, <2>2, <2>3, <2>4
<1>6. TermStep(t, "9c") = TermStep(TermStep(t, "esc"), "st")
  <2>1. PICK x : x = TermStep(t, "esc")
    OBVIOUS
  <2>2. x \in Term /\ x.more = 0 /\ x = TermByte(t, "esc")
    BY <1>2, <1>4, <2>1
  <2>3. TermStep(x, "st") = TermByte(x, "st")
    BY <1>2, <1>4, <2>2
  <2>4. TermStep(t, "9c") = TermByte(TermByte(t, "esc"), "st")
    BY <1>2, <1>4
  <2> QED BY <2>1, <2>2, <2>3, <2>4
<1> QED BY <1>5, <1>6

(* The chunks that are sound when a byte has been fed.                     *)
Sounds(s, s2, t2, R, G) ==
    (IF s2.ev = "clear" THEN {} ELSE G)
    \cup IF Begins(s, s2) /\ Sayable(t2.state) /\ ~R THEN {Len(s2.chunks)} ELSE {}

(* They are so after each of these steps.                                  *)
LEMMA StepSounds ==
    ASSUME NEW s, NEW s2, NEW t2, NEW R, NEW G,
           Moves(s, s2, t2, R, G) \/ Clears(s2, t2, R)
    PROVE  EngineOk(s2, t2, R, Sounds(s, s2, t2, R, G))
<1>1. CASE Moves(s, s2, t2, R, G)
  <2>1. Sounds(s, s2, t2, R, G) \subseteq Gain(G, Len(s.chunks), s2, t2, R)
    BY <1>1 DEF Moves, Sounds, Gain, Begins
  <2> QED BY <1>1, <2>1, Fewer DEF Moves
<1>2. CASE Clears(s2, t2, R)
  <2>1. Len(s2.chunks) > 0
    <3>1. s2.chunks \in Seq(Chunk) /\ s2.chunks # <<>>
      BY <1>2 DEF Clears, EngineOk, TypesOk, RingOk, Scan
    <3> QED BY <3>1, EmptySeq
  <2>2. Sounds(s, s2, t2, R, G) \subseteq Gain({}, 0, s2, t2, R)
    BY <1>2, <2>1 DEF Clears, Sounds, Gain, Begins
  <2> QED BY <1>2, <2>2, Fewer DEF Clears
<1> QED BY <1>1, <1>2

(* The end of an OSC, whatever ends it.                                    *)
LEMMA StepOscEnd ==
    ASSUME NEW s, NEW t, NEW R, NEW G, EngineOk(s, t, R, G), s.p.at = "osc", s.p.body # <<>>,
           NEW b \in {"bel", "esc", "9c"}, b = "9c" => s.utf8 = 0
    PROVE  EngineOk(FeedOne(s, b), TermStep(t, b), R, Sounds(s, FeedOne(s, b), TermStep(t, b), R, G))
<1>1. Head(s.p.body) \in Osc
  BY DEF EngineOk, SpanOk, Shape
<1>2. Head(s.p.body) \in OscDropped \/ Head(s.p.body) \in OscKept
  BY <1>1 DEF Osc, OscDropped, OscKept
<1>3. ASSUME NEW x \in {"bel", "esc"}
      PROVE  /\ Moves(s, FeedOne(s, x), TermStep(t, x), R, G)
             /\ FeedOne(s, x).chunks = s.chunks \/ FeedOne(s, x).st = "keep"
  BY <1>2, StepOscDrop, StepOscKeep
<1>4. CASE b \in {"bel", "esc"}
  BY <1>3, <1>4, StepSounds
<1>5. CASE b = "9c"
  <2>1. PICK s1, t1, s2, t2 : /\ s1 = FeedOne(s, "esc") /\ t1 = TermStep(t, "esc")
                              /\ s2 = FeedOne(s1, "st") /\ t2 = TermStep(t1, "st")
    OBVIOUS
  <2>2. Moves(s, s1, t1, R, G) /\ (s1.chunks = s.chunks \/ s1.st = "keep")
    BY <1>3, <2>1
  <2>3. EngineOk(s1, t1, R, Gain(G, Len(s.chunks), s1, t1, R))
    BY <2>2 DEF Moves
  <2>4. EngineOk(s1, t1, R, G)
    <3>1. G \subseteq Gain(G, Len(s.chunks), s1, t1, R)
      BY DEF Gain
    <3> QED BY <2>3, <3>1, Fewer
  <2>5. s \in Scan /\ t \in Term /\ s.p = t.p /\ s.utf8 = t.more /\ s.p \in Parser
    BY DEF EngineOk, TypesOk, Scan
  <2>6. s1 \in Scan /\ t1 \in Term /\ s1.p = t1.p /\ s1.utf8 = t1.more
    BY <2>4 DEF EngineOk, TypesOk
  <2>7. Mid(t1.p)
    <3>1. PICK x, q : x = "esc" /\ q = ParserStep(t.p, x)
      OBVIOUS
    <3>2. Mid(q)
      BY <2>5, <3>1, OscDispatched
    <3>3. t1 = [TermDo([t EXCEPT !.more = MoreAfter(t.more, x)], Callback(t.p, x)) EXCEPT !.p = q]
      <4>1. OneByte(t.more, x)
        BY <3>1 DEF OneByte
      <4> QED BY <2>1, <2>5, <3>1, <4>1, OneByteStep
    <3>4. t1.p = q
      BY <2>6, <3>3 DEF Term
    <3> QED BY <3>2, <3>4
  <2>8. s1.utf8 = 0
    BY <2>4, <2>6, <2>7 DEF EngineOk, SpanOk, Shape, Mid
  <2>9. /\ Moves(s1, s2, t2, R, G)
        /\ s1.st = "keep" /\ Last(s2.chunks).data = <<>> => Len(s2.chunks) > Len(s1.chunks)
        /\ s1.st # "keep" => s2.chunks = s1.chunks
    BY <2>1, <2>4, <2>6, <2>7, StepSt
  <2>10. FeedOne(s, b) = s2 /\ TermStep(t, b) = t2
    BY <1>5, <2>1, <2>5, <2>6, <2>8, TerminatorIs
  <2>11. Begins(s, s2) => Len(s2.chunks) > Len(s1.chunks)
    <3>1. s2.ev # "clear" /\ Len(s.chunks) \in Nat
      BY <2>5, <2>9 DEF Moves, Scan
    <3>2. Begins(s, s2) => Len(s2.chunks) > Len(s.chunks) /\ Last(s2.chunks).data = <<>>
      BY <3>1 DEF Begins
    <3>3. ~(Len(s.chunks) > Len(s.chunks))
      BY <3>1
    <3> QED BY <2>2, <2>9, <3>2, <3>3
  <2>12. Sounds(s, s2, t2, R, G) \subseteq Gain(G, Len(s1.chunks), s2, t2, R)
    BY <2>9, <2>11 DEF Moves, Sounds, Gain, Begins
  <2>13. EngineOk(s2, t2, R, Sounds(s, s2, t2, R, G))
    BY <2>9, <2>12, Fewer DEF Moves
  <2> QED BY <2>10, <2>13
<1> QED BY <1>4, <1>5

-----------------------------------------------------------------------------
(* The theorems.                                                           *)

(* Scanner::feed keeps the engine and the terminal together, for all the   *)
(* output that programs write.                                             *)
LEMMA FeedOk ==
    ASSUME NEW s, NEW t, NEW R, NEW G, EngineOk(s, t, R, G), NEW b \in Pieces, WellFormed(t, b),
           NEW R2 \in BOOLEAN, R2 = (R \/ (b = "c" /\ t.state # ColdState)), NEW s2, NEW t2,
           s2 = FeedOne(s, b), t2 = TermStep(t, b)
    PROVE  EngineOk(s2, t2, R2, Sounds(s, s2, t2, R2, G))
<1>1. s \in Scan /\ t \in Term /\ s.p = t.p /\ s.utf8 = t.more
  BY DEF EngineOk, TypesOk
<1>2. s.p.at \in {"ground", "char", "esc", "csi", "osc"} /\ s.utf8 \in Nat
  BY <1>1 DEF Scan, Parser
<1>3. EngineOk(s, t, R2, G)
  BY DEF EngineOk, StickyOk
<1>4. CASE s.p.at = "ground"
  <2>1. b \in {"a", "esc", "lead", "lf", "bel"}
    BY <1>1, <1>4 DEF WellFormed, C0
  <2>2. Moves(s, s2, t2, R2, G)
    BY <1>3, <1>4, <2>1, StepGround
  <2> QED BY <2>2, StepSounds
<1>5. CASE s.p.at = "char"
  <2>1. b = IF t.more = 2 THEN "9c" ELSE "93"
    BY <1>1, <1>5 DEF WellFormed
  <2>2. Moves(s, s2, t2, R2, G)
    BY <1>3, <1>5, <2>1, StepChar
  <2> QED BY <2>2, StepSounds
<1>6. CASE s.p.at = "esc" /\ s.p.body = <<>>
  <2>1. b \in {"[", "]", "c"}
    BY <1>1, <1>6 DEF WellFormed
  <2>2. ~R2 => ~R2 /\ (b = "c" => t.state = ColdState)
    OBVIOUS
  <2>3. Moves(s, s2, t2, R2, G) \/ Clears(s2, t2, R2)
    BY <1>3, <1>6, <2>1, <2>2, StepEsc
  <2> QED BY <2>3, StepSounds
<1>7. CASE s.p.at = "esc" /\ s.p.body # <<>>
  <2>1. b = "st"
    BY <1>1, <1>7 DEF WellFormed
  <2>2. Mid(s.p)
    BY <1>7 DEF Mid
  <2>3. Moves(s, s2, t2, R2, G)
    BY <1>3, <2>1, <2>2, StepSt
  <2> QED BY <2>3, StepSounds
<1>8. CASE s.p.at = "csi"
  <2>1. b \in Csi
    BY <1>1, <1>8 DEF WellFormed
  <2>2. CASE b \in {"K", "$p", "6n", "2J"}
    <3>1. Moves(s, s2, t2, R2, G) \/ Clears(s2, t2, R2)
      BY <1>3, <1>8, <2>2, StepCsi
    <3> QED BY <3>1, StepSounds
  <2>3. CASE b \notin {"K", "$p", "6n", "2J"}
    <3>1. b \in Changing
      BY <2>1, <2>3 DEF Changing
    <3>2. Moves(s, s2, t2, R2, G)
      BY <1>3, <1>8, <3>1, StepState
    <3> QED BY <3>2, StepSounds
  <2> QED BY <2>2, <2>3
<1>9. CASE s.p.at = "osc" /\ s.p.body = <<>>
  <2>1. b \in Osc
    BY <1>1, <1>9 DEF WellFormed
  <2>2. Moves(s, s2, t2, R2, G)
    BY <1>3, <1>9, <2>1, StepOscByte
  <2> QED BY <2>2, StepSounds
<1>10. CASE s.p.at = "osc" /\ s.p.body # <<>>
  <2>1. \/ b \in Char /\ (b = "lead" \/ s.utf8 > 0)
        \/ b \in IF Head(s.p.body) \in OscDropped THEN {"bel", "esc", "9c"} ELSE TitleEnds
    BY <1>1, <1>10 DEF WellFormed
  <2>2. CASE b \in Char /\ (b = "lead" \/ s.utf8 > 0)
    <3>1. Moves(s, s2, t2, R2, G)
      BY <1>3, <1>10, <2>2, StepOscByte
    <3> QED BY <3>1, StepSounds
  <2>3. CASE ~(b \in Char /\ (b = "lead" \/ s.utf8 > 0))
    <3>1. b \in {"bel", "esc", "9c"}
      BY <2>1, <2>3, EngineAssumption
    <3>2. b = "9c" => s.utf8 = 0
      BY <1>2, <2>3 DEF Char
    <3> QED BY <1>3, <1>10, <3>1, <3>2, StepOscEnd
  <2> QED BY <2>2, <2>3
<1> QED BY <1>2, <1>4, <1>5, <1>6, <1>7, <1>8, <1>9, <1>10

(* A new scanner with its ring, beside a fresh terminal.                   *)
LEMMA StartOk == EngineOk(Scanner0, Cold, FALSE, {1})
<1>1. PICK s, ch, d, G : s = Scanner0 /\ ch = NewChunk(<<>>) /\ d = <<ch>> /\ G = {1}
  OBVIOUS
<1>2. ch \in Chunk /\ ch.prologue = <<>> /\ ch.data = <<>>
  BY <1>1, BytesConcat DEF NewChunk, Chunk
<1>3. d \in Seq(Chunk) /\ Len(d) = 1 /\ d # <<>> /\ d = Append(<<>>, ch)
  BY <1>1, <1>2
<1>4. /\ s.p = Ground /\ s.sticky = NoSticky /\ s.cache = <<>> /\ s.st = "none"
      /\ s.pending = <<>> /\ s.utf8 = 0 /\ s.chunks = d
  BY <1>1 DEF Scanner0, NewChunk
<1>5. s \in Scan
  BY <1>1, <1>3, <1>4, BytesConcat, ColdType DEF Scanner0, Scan
<1>6. TypesOk(s, Cold)
  BY <1>4, <1>5, ColdType DEF TypesOk
<1>7. SpanOk(s)
  <2>1. Done(s.p, s.st)
    BY <1>4, ColdType DEF Done
  <2> QED BY <1>4, <1>5, <2>1, SpanDone
<1>8. StickyOk(s, Cold, FALSE)
  <2>1. NoSticky.cwd = <<>> /\ NoSticky.title = <<>>
    BY DEF NoSticky
  <2>2. Agrees(NoSticky, ColdState)
    BY DEF NoSticky, ColdState, Agrees
  <2> QED BY <1>4, <2>1, <2>2, ColdType DEF StickyOk, CwdOk, TitleOk
<1>9. ReplayFrom(d, 1) = <<>>
  <2>1. PICK c0 : c0 = <<>>
    OBVIOUS
  <2>2. c0 \in Seq(Chunk) /\ Len(c0) = 0 /\ d = Append(c0, ch)
    BY <1>3, <2>1
  <2>3. ReplayFrom(d, Len(c0) + 1) = ch.prologue \o ch.data
    BY <1>2, <2>2, ReplayAppend
  <2> QED BY <1>2, <2>2, <2>3, BytesConcat
<1>10. ChunkOk(1, G, Shown(ReplayFrom(d, 1)), s.p, s.st, Cold)
  <2>1. Shown(<<>>) = Cold
    BY ReadsEmpty DEF Shown
  <2>2. EndsIn(<<>>, <<>>)
    <3>1. <<>> \in Seq(TextItem) /\ <<>> = <<>> \o <<>>
      OBVIOUS
    <3> QED BY <3>1 DEF EndsIn
  <2>3. ~Split(s.p, s.st)
    BY <1>4 DEF Split
  <2> QED BY <1>4, <1>9, <2>1, <2>2, <2>3, ColdType DEF ChunkOk
<1>11. RingOk(s, Cold, G)
  BY <1>1, <1>3, <1>4, <1>10 DEF RingOk
<1> QED BY <1>1, <1>6, <1>7, <1>8, <1>11 DEF EngineOk

(* The engine and the terminal stay together.                              *)
THEOREM EngineTogether == Spec => [](stale \in BOOLEAN /\ EngineOk(sc, live, stale, sound))
<1> DEFINE Inv == stale \in BOOLEAN /\ EngineOk(sc, live, stale, sound)
<1>1. Init => Inv
  BY StartOk DEF Init
<1>2. Inv /\ [Next]_vars => Inv'
  <2>1. SUFFICES ASSUME Inv, [Next]_vars PROVE Inv'
    OBVIOUS
  <2>2. CASE Next
    <3>1. PICK b \in Pieces : Feed(b)
      BY <2>2 DEF Next
    <3>2. /\ WellFormed(live, b) /\ sc' = FeedOne(sc, b) /\ live' = TermStep(live, b)
          /\ stale' = (stale \/ (b = "c" /\ live.state # ColdState))
      BY <3>1 DEF Feed
    <3>3. sound' = Sounds(sc, sc', live', stale', sound)
      BY <3>1 DEF Feed, Sounds
    <3>4. stale' \in BOOLEAN
      BY <3>2
    <3>5. EngineOk(sc', live', stale', Sounds(sc, sc', live', stale', sound))
      BY <2>1, <3>2, <3>4, FeedOk
    <3> QED BY <3>3, <3>4, <3>5
  <2>3. CASE UNCHANGED vars
    BY <2>1, <2>3 DEF vars
  <2> QED BY <2>1, <2>2, <2>3
<1> QED BY <1>1, <1>2, PTL DEF Spec

(* A text that ends in another has it as a suffix.                         *)
LEMMA EndsInSuffix ==
    ASSUME NEW s \in Seq(TextItem), NEW e \in Seq(TextItem), EndsIn(s, e)
    PROVE  IsSuffix(e, s)
<1>1. PICK u \in Seq(TextItem) : s = u \o e
  BY DEF EndsIn
<1>2. PICK k, m, n, re, rs : /\ k = Len(u) /\ m = Len(e) /\ n = Len(s)
                             /\ re = Reverse(e) /\ rs = Reverse(s)
  OBVIOUS
<1>3. /\ k \in Nat /\ m \in Nat /\ n = k + m
      /\ \A i \in 1..m : s[k + i] = e[i]
  BY <1>1, <1>2
<1>4. /\ re = [i \in 1..m |-> e[(m - i) + 1]]
      /\ rs = [i \in 1..n |-> s[(n - i) + 1]]
  BY <1>2 DEF Reverse
<1>5. \A i \in 1..m : e[(m - i) + 1] \in TextItem
  BY <1>2, <1>3
<1>6. \A i \in 1..n : s[(n - i) + 1] \in TextItem
  <2>1. n \in Nat /\ \A i \in 1..n : s[i] \in TextItem
    BY <1>2
  <2>2. \A i \in 1..n : (n - i) + 1 \in 1..n
    BY <2>1
  <2> QED BY <2>1, <2>2
<1>7. re \in Seq(TextItem) /\ rs \in Seq(TextItem) /\ Len(re) = m /\ Len(rs) = n
  BY <1>3, <1>4, <1>5, <1>6
<1>8. \A i \in 1..m : re[i] = rs[i]
  <2>1. SUFFICES ASSUME NEW i \in 1..m PROVE re[i] = rs[i]
    OBVIOUS
  <2>2. i \in 1..n /\ (m - i) + 1 \in 1..m /\ (n - i) + 1 = k + ((m - i) + 1)
    BY <1>3
  <2> QED BY <1>3, <1>4, <2>2
<1>9. SubSeq(re, 1, m) = SubSeq(rs, 1, m)
  BY <1>3, <1>7, <1>8
<1>10. IsPrefix(re, rs)
  BY <1>3, <1>7, <1>9 DEF IsPrefix
<1> QED BY <1>2, <1>10 DEF IsSuffix

(* ChunkRing::replay begins at some chunk of the ring, the first for 0.    *)
LEMMA ReplayStarts ==
    ASSUME NEW s \in Scan, s.chunks # <<>>, NEW want \in Nat
    PROVE  /\ Start(s, want) \in 1..Len(s.chunks)
           /\ Replay(s, want) = ReplayFrom(s.chunks, Start(s, want))
           /\ Replay(s, 0) = ReplayFrom(s.chunks, 1)
           /\ 1 \in 1..Len(s.chunks)
<1>1. PICK n : n = Len(s.chunks)
  OBVIOUS
<1>2. n \in Nat \ {0}
  <2>1. s.chunks \in Seq(Chunk)
    BY DEF Scan
  <2> QED BY <1>1, <2>1, EmptySeq
<1>3. Start(s, want) \in 1..n
  BY <1>1, <1>2 DEF Start
<1>4. Replay(s, 0) = ReplayFrom(s.chunks, 1)
  BY DEF Replay, Start
<1> QED BY <1>1, <1>2, <1>3, <1>4 DEF Replay

(* ReplayQuiet: whatever the output, a replay rings no bell, touches no    *)
(* clipboard and asks nothing but the questions that Sink keeps.           *)
THEOREM ReplayIsQuiet == Spec => []ReplayQuiet
<1>1. EngineOk(sc, live, stale, sound) => ReplayQuiet
  <2>1. SUFFICES ASSUME EngineOk(sc, live, stale, sound), NEW want \in Wants
                 PROVE  Shown(Replay(sc, want)).noise \subseteq KeptQueries
    BY DEF ReplayQuiet
  <2>2. sc \in Scan /\ sc.chunks # <<>> /\ want \in Nat
    BY <2>1, EngineAssumption DEF EngineOk, TypesOk, RingOk
  <2>3. PICK j : j = Start(sc, want)
    OBVIOUS
  <2>4. j \in 1..Len(sc.chunks) /\ Replay(sc, want) = ReplayFrom(sc.chunks, j)
    BY <2>2, <2>3, ReplayStarts
  <2>5. ChunkOk(j, sound, Shown(ReplayFrom(sc.chunks, j)), sc.p, sc.st, live)
    BY <2>1, <2>4 DEF EngineOk, RingOk
  <2> QED BY <2>4, <2>5 DEF ChunkOk
<1> QED BY <1>1, EngineTogether, PTL

(* ReplayFull, whatever the output: when the ring began where its prologue *)
(* could say the state, a full replay and the bytes still pending leave a  *)
(* fresh terminal showing what the one that has read everything shows, and *)
(* in the same state.                                                      *)
THEOREM ReplayIsFull == Spec => []ReplayFull
<1>1. EngineOk(sc, live, stale, sound) => ReplayFull
  <2>1. SUFFICES ASSUME EngineOk(sc, live, stale, sound), 1 \in sound
                 PROVE  /\ Shown(Replay(sc, 0) \o sc.pending).state = live.state
                        /\ Shown(Replay(sc, 0) \o sc.pending).text = live.text
    BY DEF ReplayFull
  <2>2. /\ sc \in Scan /\ sc.chunks # <<>> /\ sc.pending \in Bytes
        /\ sc.chunks \in Seq(Chunk) /\ sc.p \in Parser /\ sc.utf8 \in Nat
    BY <2>1 DEF EngineOk, TypesOk, RingOk, Scan
  <2>3. Replay(sc, 0) = ReplayFrom(sc.chunks, 1) /\ 1 \in 1..Len(sc.chunks)
    BY <2>2, ReplayStarts
  <2>4. PICK r, v, w : /\ r = ReplayFrom(sc.chunks, 1) /\ v = Shown(r)
                       /\ w = Shown(r \o sc.pending)
    OBVIOUS
  <2>5. ChunkOk(1, sound, v, sc.p, sc.st, live)
    BY <2>1, <2>3, <2>4 DEF EngineOk, RingOk
  <2>6. v \in Term /\ v.more = 0 /\ v.state = live.state /\ v.text = live.text
    BY <2>1, <2>5 DEF ChunkOk
  <2>7. r \in Bytes
    BY <2>2, <2>3, <2>4, ReplayType
  <2>8. w = Reads(v, sc.pending)
    BY <2>2, <2>4, <2>7, ReadsBytes DEF Shown
  <2>9. CASE Mid(sc.p)
    <3>1. sc.pending = <<>>
      BY <2>1, <2>9 DEF EngineOk, SpanOk, Shape
    <3>2. w = v
      BY <2>8, <3>1, ReadsEmpty
    <3> QED BY <2>3, <2>4, <2>6, <3>2
  <2>10. CASE ~Mid(sc.p)
    <3>1. Idle(v)
      BY <2>5, <2>6, <2>10 DEF ChunkOk, Split, Idle
    <3>2. w = Placed(v, sc.p, sc.utf8)
      BY <2>1, <2>8, <2>10, <3>1 DEF EngineOk, SpanOk, Tracks
    <3>3. w.text = v.text /\ w.state = v.state
      BY <2>2, <2>6, <3>2, PlacedType
    <3> QED BY <2>3, <2>4, <2>6, <3>3
  <2> QED BY <2>9, <2>10
<1> QED BY <1>1, EngineTogether, PTL

(* ReplayCapped, whatever the output: between sequences a replay from a    *)
(* chunk that began where its prologue could say the state leaves a fresh  *)
(* terminal in the state of the live one, showing the end of its text.     *)
THEOREM ReplayIsCapped == Spec => []ReplayCapped
<1>1. EngineOk(sc, live, stale, sound) => ReplayCapped
  <2>1. SUFFICES ASSUME EngineOk(sc, live, stale, sound), NEW want \in Wants,
                        Start(sc, want) \in sound
                 PROVE  /\ Shown(Replay(sc, want)).state = live.state
                        /\ IsSuffix(Shown(Replay(sc, want)).text, live.text)
    BY DEF ReplayCapped, Restores
  <2>2. sc \in Scan /\ sc.chunks # <<>> /\ want \in Nat /\ live \in Term
    BY <2>1, EngineAssumption DEF EngineOk, TypesOk, RingOk
  <2>3. PICK j, v : j = Start(sc, want) /\ v = Shown(ReplayFrom(sc.chunks, j))
    OBVIOUS
  <2>4. j \in 1..Len(sc.chunks) /\ Replay(sc, want) = ReplayFrom(sc.chunks, j)
    BY <2>2, <2>3, ReplayStarts
  <2>5. ChunkOk(j, sound, v, sc.p, sc.st, live)
    BY <2>1, <2>3, <2>4 DEF EngineOk, RingOk
  <2>6. v \in Term /\ v.state = live.state /\ EndsIn(live.text, v.text)
    BY <2>1, <2>3, <2>5 DEF ChunkOk
  <2>7. IsSuffix(v.text, live.text)
    <3>1. v.text \in Seq(TextItem) /\ live.text \in Seq(TextItem)
      BY <2>2, <2>6 DEF Term
    <3> QED BY <2>6, <3>1, EndsInSuffix
  <2> QED BY <2>3, <2>4, <2>6, <2>7
<1> QED BY <1>1, EngineTogether, PTL

=============================================================================
