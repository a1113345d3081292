-------------------------- MODULE ConnectionProofs --------------------------
(***************************************************************************)
(* The wire and the dispatch, for any frames, any limits and any portions  *)
(* of the reads: StreamConserved, RejectsOnlyBad, BufferBounded and        *)
(* ActsAsAsked.                                                            *)
(*                                                                         *)
(* The successor relation of IsWireFrom says where every byte is only by   *)
(* induction.  The invariant says it of each byte directly: the whole      *)
(* frame it belongs to stands around it, and the next frame or the end of  *)
(* the wire behind that.                                                   *)
(***************************************************************************)
EXTENDS Connection, SequenceTheorems, TLAPS

Byte == Nat \X Nat

(* Frame n of fs stands in b behind position s, with the next behind it.   *)
FrameAt(fs, b, s, n) ==
    /\ s \in Nat /\ n \in 1..Len(fs) /\ s + Size(fs[n]) <= Len(b)
    /\ \A l \in 1..Size(fs[n]) : b[s + l] = <<n, l>>
    /\ s + Size(fs[n]) = Len(b) => n = Len(fs)
    /\ s + Size(fs[n]) < Len(b) => b[s + Size(fs[n]) + 1] = <<n + 1, 1>>

(* b is the frames of fs from the i-th on.                                 *)
IsRest(fs, b, i) ==
    /\ i \in 1..(Len(fs) + 1)
    /\ b = <<>> <=> i = Len(fs) + 1
    /\ b # <<>> => b[1] = <<i, 1>>
    /\ \A j \in 1..Len(b) : \E n \in i..Len(fs), k \in 1..j :
          /\ k <= Size(fs[n]) /\ b[j] = <<n, k>>
          /\ FrameAt(fs, b, j - k, n)
    /\ \A j, l \in 1..Len(b) : b[j] = b[l] => j = l

(* Frames have a length, and so have their encodings.                      *)
LEMMA Sizes ==
    ASSUME NEW f \in Frames
    PROVE  /\ f.len \in Nat /\ Size(f) = f.len + 2 /\ Size(f) \in Nat
           /\ f.ty \in Types /\ f.ok \in BOOLEAN
<1>1. f \in [ty : Types, len : Nat, ok : BOOLEAN]
  BY ConnectionAssumption DEF ConnectionAssumption
<1> QED
  BY <1>1 DEF Size, Header

(* The frames of a stream likewise.                                        *)
LEMMA SizeOf ==
    ASSUME NEW fs \in Seq(Frames), NEW n \in 1..Len(fs)
    PROVE  Size(fs[n]) \in Nat /\ Size(fs[n]) > 0
<1>1. fs[n] \in Frames
  OBVIOUS
<1>2. PICK f \in Frames : f = fs[n]
  BY <1>1
<1> QED
  BY <1>2, Sizes

(* The bytes that encode_frame writes for the n-th frame.                  *)
LEMMA EncodeIs ==
    ASSUME NEW f \in Frames, NEW n \in Nat
    PROVE  /\ Encode(n, f) \in Seq(Byte) /\ Len(Encode(n, f)) = Size(f)
           /\ \A k \in 1..Size(f) : Encode(n, f)[k] = <<n, k>>
<1>1. Size(f) \in Nat
  BY Sizes
<1>2. Encode(n, f) = [k \in 1..Size(f) |-> <<n, k>>]
  BY DEF Encode, Size
<1>3. \A k \in 1..Size(f) : <<n, k>> \in Byte
  BY <1>1 DEF Byte
<1>4. PICK z \in Nat : z = Size(f)
  BY <1>1
<1>5. PICK e : e = [k \in 1..z |-> <<n, k>>]
  OBVIOUS
<1> HIDE DEF Byte
<1>6. \A k \in 1..z : e[k] = <<n, k>> /\ <<n, k>> \in Byte
  BY <1>3, <1>4, <1>5
<1>7. e \in Seq(Byte) /\ Len(e) = z
  BY <1>5, <1>6
<1> QED
  BY <1>2, <1>4, <1>5, <1>6, <1>7

(* Bytes behind bytes: a buffer and what a read adds to it.                *)
LEMMA Joined ==
    ASSUME NEW b \in Seq(Byte), NEW e \in Seq(Byte)
    PROVE  /\ b \o e \in Seq(Byte) /\ Len(b \o e) = Len(b) + Len(e)
           /\ \A j \in 1..(Len(b) + Len(e)) :
                 (b \o e)[j] = IF j <= Len(b) THEN b[j] ELSE e[j - Len(b)]
BY ConcatProperties, Zenon

(* Writing one more frame leaves the others where they are ...             *)
LEMMA FrameStays ==
    ASSUME NEW fs \in Seq(Frames), NEW f \in Frames, NEW b \in Seq(Byte),
           NEW s, NEW n, FrameAt(fs, b, s, n)
    PROVE  FrameAt(Append(fs, f), b \o Encode(Len(fs) + 1, f), s, n)
<1> DEFINE m == Len(fs)
           gs == Append(fs, f)
           e == Encode(m + 1, f)
           c == b \o e
<1>1. m \in Nat /\ Len(b) \in Nat /\ Size(f) \in Nat /\ Size(f) > 0
  BY Sizes
<1>2. /\ Len(gs) = m + 1 /\ \A i \in 1..m : gs[i] = fs[i]
  BY AppendProperties
<1>3. e \in Seq(Byte) /\ Len(e) = Size(f) /\ e[1] = <<m + 1, 1>>
  BY <1>1, EncodeIs
<1> HIDE DEF e
<1>4. /\ Len(c) = Len(b) + Size(f)
      /\ \A j \in 1..Len(b) : c[j] = b[j]
      /\ c[Len(b) + 1] = <<m + 1, 1>>
  <2>1. /\ Len(c) = Len(b) + Size(f)
        /\ \A j \in 1..(Len(b) + Size(f)) :
              c[j] = IF j <= Len(b) THEN b[j] ELSE e[j - Len(b)]
    <3>1. /\ Len(c) = Len(b) + Len(e)
          /\ \A j \in 1..(Len(b) + Len(e)) :
                c[j] = IF j <= Len(b) THEN b[j] ELSE e[j - Len(b)]
      BY <1>3, Joined, Zenon
    <3>2. Len(e) = Size(f)
      BY <1>3
    <3> QED
      BY <3>1, <3>2, Zenon
  <2>2. /\ Len(b) + 1 \in 1..(Len(b) + Size(f)) /\ (Len(b) + 1) - Len(b) = 1
        /\ ~(Len(b) + 1 <= Len(b))
    BY <1>1
  <2>3. c[Len(b) + 1] = e[1]
    BY <2>1, <2>2
  <2> HIDE DEF c
  <2> QED
    BY <1>1, <1>3, <2>1, <2>3
<1>5. n \in 1..m /\ s \in Nat /\ Size(fs[n]) \in Nat /\ Size(fs[n]) > 0
  <2>1. n \in 1..m /\ s \in Nat
    BY DEF FrameAt
  <2> QED
    BY <2>1, SizeOf
<1> HIDE DEF m, gs, c
<1>6. gs[n] = fs[n]
  BY <1>2, <1>5
<1> DEFINE z == Size(fs[n])
<1>7. /\ s + z <= Len(b)
      /\ \A l \in 1..z : b[s + l] = <<n, l>>
      /\ s + z = Len(b) => n = m
      /\ s + z < Len(b) => b[s + z + 1] = <<n + 1, 1>>
  BY DEF FrameAt, m
<1>8. /\ n \in 1..Len(gs) /\ s + z <= Len(c) /\ s + z # Len(c) /\ z \in Nat
  BY <1>1, <1>2, <1>4, <1>5, <1>7
<1> HIDE DEF z
<1>9. ASSUME NEW l \in 1..z PROVE c[s + l] = <<n, l>>
  <2>1. s + l \in 1..Len(b)
    BY <1>1, <1>5, <1>7, <1>8
  <2> QED
    BY <1>4, <1>7, <2>1
<1>10. c[s + z + 1] = <<n + 1, 1>>
  <2>1. CASE s + z = Len(b)
    BY <1>4, <1>7, <2>1
  <2>2. CASE s + z # Len(b)
    <3>1. s + z + 1 \in 1..Len(b) /\ s + z < Len(b)
      BY <1>1, <1>5, <1>7, <1>8, <2>2
    <3> QED
      BY <1>4, <1>7, <3>1
  <2> QED
    BY <2>1, <2>2
<1>11. FrameAt(gs, c, s, n)
  BY <1>5, <1>6, <1>8, <1>9, <1>10 DEF FrameAt, z
<1> QED
  BY <1>11 DEF gs, c, e, m

(* ... and stands behind them.                                             *)
LEMMA FrameComes ==
    ASSUME NEW fs \in Seq(Frames), NEW f \in Frames, NEW b \in Seq(Byte)
    PROVE  FrameAt(Append(fs, f), b \o Encode(Len(fs) + 1, f), Len(b), Len(fs) + 1)
<1> DEFINE m == Len(fs)
           gs == Append(fs, f)
           e == Encode(m + 1, f)
           c == b \o e
<1>1. m \in Nat /\ Len(b) \in Nat /\ Size(f) \in Nat /\ Size(f) > 0
  BY Sizes
<1>2. Len(gs) = m + 1 /\ gs[m + 1] = f
  BY AppendProperties
<1>3. e \in Seq(Byte) /\ Len(e) = Size(f) /\ \A k \in 1..Size(f) : e[k] = <<m + 1, k>>
  BY <1>1, EncodeIs
<1> HIDE DEF e, m, gs
<1>4. /\ Len(c) = Len(b) + Size(f)
      /\ \A k \in 1..Size(f) : c[Len(b) + k] = <<m + 1, k>>
  <2>1. /\ Len(c) = Len(b) + Size(f)
        /\ \A j \in 1..(Len(b) + Size(f)) :
              c[j] = IF j <= Len(b) THEN b[j] ELSE e[j - Len(b)]
    <3>1. /\ Len(c) = Len(b) + Len(e)
          /\ \A j \in 1..(Len(b) + Len(e)) :
                c[j] = IF j <= Len(b) THEN b[j] ELSE e[j - Len(b)]
      BY <1>3, Joined, Zenon
    <3>2. Len(e) = Size(f)
      BY <1>3
    <3> QED
      BY <3>1, <3>2, Zenon
  <2> HIDE DEF c
  <2>2. ASSUME NEW k \in 1..Size(f) PROVE c[Len(b) + k] = <<m + 1, k>>
    <3>1. /\ Len(b) + k \in 1..(Len(b) + Size(f)) /\ (Len(b) + k) - Len(b) = k
          /\ ~(Len(b) + k <= Len(b))
      BY <1>1
    <3>2. c[Len(b) + k] = e[k]
      BY <2>1, <3>1
    <3> QED
      BY <1>3, <3>2
  <2> QED
    BY <2>1, <2>2
<1> HIDE DEF c
<1>5. FrameAt(gs, c, Len(b), m + 1)
  BY <1>1, <1>2, <1>4 DEF FrameAt
<1> QED
  BY <1>5 DEF gs, c, e, m

(* What is left when bytes are taken off the front.                        *)
LEMMA Suffix ==
    ASSUME NEW b \in Seq(Byte), NEW z \in 0..Len(b)
    PROVE  /\ SubSeq(b, z + 1, Len(b)) \in Seq(Byte)
           /\ Len(SubSeq(b, z + 1, Len(b))) = Len(b) - z
           /\ \A j \in 1..(Len(b) - z) : SubSeq(b, z + 1, Len(b))[j] = b[z + j]
<1>1. Len(b) \in Nat
  OBVIOUS
<1> QED
  BY <1>1

(* Taking bytes off the front moves the frames behind them.                *)
LEMMA FrameShifts ==
    ASSUME NEW fs \in Seq(Frames), NEW b \in Seq(Byte), NEW z \in 0..Len(b),
           NEW s, NEW n, FrameAt(fs, b, s, n), s >= z
    PROVE  FrameAt(fs, SubSeq(b, z + 1, Len(b)), s - z, n)
<1> DEFINE c == SubSeq(b, z + 1, Len(b))
           y == Size(fs[n])
<1>1. s \in Nat /\ n \in 1..Len(fs) /\ y \in Nat /\ y > 0 /\ Len(b) \in Nat
  BY Sizes DEF FrameAt
<1>2. /\ s + y <= Len(b)
      /\ \A l \in 1..y : b[s + l] = <<n, l>>
      /\ s + y = Len(b) => n = Len(fs)
      /\ s + y < Len(b) => b[s + y + 1] = <<n + 1, 1>>
  BY DEF FrameAt
<1>3. /\ Len(c) = Len(b) - z
      /\ \A j \in 1..(Len(b) - z) : c[j] = b[z + j]
  BY <1>1
<1> HIDE DEF c, y
<1>4. /\ s - z \in Nat /\ (s - z) + y <= Len(c)
      /\ (s - z) + y = Len(c) => n = Len(fs)
  BY <1>1, <1>2, <1>3
<1>5. ASSUME NEW l \in 1..y PROVE c[(s - z) + l] = <<n, l>>
  <2>1. (s - z) + l \in 1..(Len(b) - z) /\ z + ((s - z) + l) = s + l
    BY <1>1, <1>2
  <2> QED
    BY <1>2, <1>3, <2>1
<1>6. ASSUME (s - z) + y < Len(c) PROVE c[(s - z) + y + 1] = <<n + 1, 1>>
  <2>1. /\ (s - z) + y + 1 \in 1..(Len(b) - z) /\ z + ((s - z) + y + 1) = s + y + 1
        /\ s + y < Len(b)
    BY <1>1, <1>2, <1>3, <1>6
  <2> QED
    BY <1>2, <1>3, <2>1
<1> QED
  BY <1>1, <1>4, <1>5, <1>6 DEF FrameAt, c, y

(* Writing a frame.                                                        *)
LEMMA RestWrites ==
    ASSUME NEW fs \in Seq(Frames), NEW f \in Frames, NEW b \in Seq(Byte), NEW i,
           IsRest(fs, b, i)
    PROVE  IsRest(Append(fs, f), b \o Encode(Len(fs) + 1, f), i)
<1> DEFINE m == Len(fs)
           gs == Append(fs, f)
           e == Encode(m + 1, f)
           c == b \o e
           z == Size(f)
           y == Len(b)
<1>1. m \in Nat /\ y \in Nat /\ z \in Nat /\ z > 0
  BY Sizes
<1>2. /\ gs \in Seq(Frames) /\ Len(gs) = m + 1 /\ gs[m + 1] = f
      /\ \A n \in 1..m : gs[n] = fs[n]
  BY AppendProperties
<1>3. e \in Seq(Byte) /\ Len(e) = z /\ \A k \in 1..z : e[k] = <<m + 1, k>>
  BY <1>1, EncodeIs
<1>4. /\ i \in 1..(m + 1)
      /\ b = <<>> <=> i = m + 1
      /\ b # <<>> => b[1] = <<i, 1>>
      /\ \A j \in 1..y : \E n \in i..m, k \in 1..j :
            k <= Size(fs[n]) /\ b[j] = <<n, k>> /\ FrameAt(fs, b, j - k, n)
      /\ \A j, l \in 1..y : b[j] = b[l] => j = l
  BY DEF IsRest
<1>5. \A s, n : FrameAt(fs, b, s, n) => FrameAt(gs, c, s, n)
  BY FrameStays
<1>6. FrameAt(gs, c, y, m + 1)
  BY FrameComes
<1>7. b = <<>> <=> y = 0
  BY EmptySeq
<1> HIDE DEF e, m, gs, z
<1>8. /\ c \in Seq(Byte) /\ Len(c) = y + z
      /\ \A j \in 1..(y + z) : c[j] = IF j <= y THEN b[j] ELSE e[j - y]
  BY <1>1, <1>3, ConcatProperties
<1> HIDE DEF c, y
<1>9. \A j \in 1..y : c[j] = b[j]
  BY <1>1, <1>8
<1>10. ASSUME NEW j \in 1..(y + z), ~(j \in 1..y)
       PROVE  j - y \in 1..z /\ c[j] = <<m + 1, j - y>>
  <2>1. j - y \in 1..z /\ ~(j <= y)
    BY <1>1, <1>10
  <2> QED
    BY <1>3, <1>8, <2>1
<1>11. c # <<>> /\ i # Len(gs) + 1 /\ i \in 1..(Len(gs) + 1)
  BY <1>1, <1>2, <1>4, <1>8
<1>12. c[1] = <<i, 1>>
  <2>1. CASE y = 0
    <3>1. 1 \in 1..(y + z) /\ ~(1 \in 1..y) /\ 1 - y = 1
      BY <1>1, <2>1
    <3> QED
      BY <1>4, <1>7, <1>10, <2>1, <3>1
  <2>2. CASE y # 0
    <3>1. 1 \in 1..y
      BY <1>1, <2>2
    <3> QED
      BY <1>4, <1>7, <1>9, <2>2, <3>1
  <2> QED
    BY <2>1, <2>2
<1>13. ASSUME NEW j \in 1..(y + z)
       PROVE  \E n \in i..Len(gs), k \in 1..j :
                 k <= Size(gs[n]) /\ c[j] = <<n, k>> /\ FrameAt(gs, c, j - k, n)
  <2>1. CASE j \in 1..y
    <3>1. PICK n \in i..m, k \in 1..j :
                 k <= Size(fs[n]) /\ b[j] = <<n, k>> /\ FrameAt(fs, b, j - k, n)
      BY <1>4, <2>1
    <3>2. n \in i..Len(gs) /\ gs[n] = fs[n]
      BY <1>1, <1>2, <1>4
    <3> QED
      BY <1>5, <1>9, <2>1, <3>1, <3>2
  <2>2. CASE ~(j \in 1..y)
    <3>1. j - y \in 1..z /\ c[j] = <<m + 1, j - y>>
      BY <1>10, <2>2
    <3>2. /\ m + 1 \in i..Len(gs) /\ j - y \in 1..j /\ j - (j - y) = y
          /\ j - y <= Size(gs[m + 1])
      BY <1>1, <1>2, <1>4, <3>1 DEF z
    <3> QED
      BY <1>6, <3>1, <3>2
  <2> QED
    BY <2>1, <2>2
<1>14. ASSUME NEW j \in 1..y, NEW l \in 1..(y + z), ~(l \in 1..y) PROVE c[j] # c[l]
  <2>1. PICK n \in i..m, k \in 1..j : b[j] = <<n, k>>
    BY <1>4
  <2>2. n # m + 1
    BY <1>1, <1>4
  <2>3. c[j] = <<n, k>> /\ c[l] = <<m + 1, l - y>>
    BY <1>9, <1>10, <1>14, <2>1
  <2> QED
    BY <2>2, <2>3
<1>15. ASSUME NEW j \in 1..(y + z), NEW l \in 1..(y + z), c[j] = c[l] PROVE j = l
  <2>1. CASE j \in 1..y /\ l \in 1..y
    BY <1>4, <1>9, <1>15, <2>1
  <2>2. CASE ~(j \in 1..y) /\ ~(l \in 1..y)
    <3>1. <<m + 1, j - y>> = <<m + 1, l - y>>
      BY <1>10, <1>15, <2>2
    <3>2. j - y = l - y
      BY <3>1
    <3> QED
      BY <1>1, <3>2
  <2> QED
    BY <1>14, <1>15, <2>1, <2>2
<1>16. IsRest(gs, c, i)
  BY <1>8, <1>11, <1>12, <1>13, <1>15 DEF IsRest
<1> QED
  BY <1>16 DEF gs, c, e, m

(* The rest begins with its first frame, and what is behind that is the    *)
(* rest after it.                                                          *)
LEMMA RestBegins ==
    ASSUME NEW fs \in Seq(Frames), NEW b \in Seq(Byte), NEW i,
           IsRest(fs, b, i), b # <<>>
    PROVE  /\ i \in 1..Len(fs) /\ FrameAt(fs, b, 0, i)
           /\ Size(fs[i]) <= Len(b) /\ \A k \in 1..Size(fs[i]) : b[k] = <<i, k>>
<1>1. Len(b) \in Nat \ {0} /\ 1 \in 1..Len(b) /\ Len(fs) \in Nat
  BY EmptySeq
<1>2. PICK n \in i..Len(fs), k \in 1..1 : b[1] = <<n, k>> /\ FrameAt(fs, b, 1 - k, n)
  BY <1>1 DEF IsRest
<1>3. i \in 1..(Len(fs) + 1) /\ i # Len(fs) + 1 /\ b[1] = <<i, 1>>
  BY DEF IsRest
<1>4. n = i /\ 1 - k = 0
  BY <1>2, <1>3
<1>5. i \in 1..Len(fs) /\ FrameAt(fs, b, 0, i)
  BY <1>1, <1>2, <1>3, <1>4
<1>6. Size(fs[i]) \in Nat
  BY <1>5, Sizes
<1>7. 0 + Size(fs[i]) <= Len(b) /\ \A l \in 1..Size(fs[i]) : b[0 + l] = <<i, l>>
  BY <1>5 DEF FrameAt
<1>8. 0 + Size(fs[i]) = Size(fs[i]) /\ \A l \in 1..Size(fs[i]) : 0 + l = l
  BY <1>6
<1> QED
  BY <1>5, <1>7, <1>8

(* When the first frame is taken off the wire, what is left begins with the *)
(* next one.                                                               *)
LEMMA RestTaken ==
    ASSUME NEW fs \in Seq(Frames), NEW b \in Seq(Byte), NEW i,
           IsRest(fs, b, i), b # <<>>
    PROVE  IsRest(fs, SubSeq(b, Size(fs[i]) + 1, Len(b)), i + 1)
<1> DEFINE m == Len(fs)
           z == Size(fs[i])
           y == Len(b)
           c == SubSeq(b, z + 1, y)
<1>1. /\ i \in 1..m /\ FrameAt(fs, b, 0, i)
      /\ z <= y /\ \A k \in 1..z : b[k] = <<i, k>>
  BY RestBegins
<1>2. m \in Nat /\ y \in Nat /\ z \in Nat /\ z > 0
  BY <1>1, SizeOf
<1>3. /\ \A j \in 1..y : \E n \in i..m, k \in 1..j :
            k <= Size(fs[n]) /\ b[j] = <<n, k>> /\ FrameAt(fs, b, j - k, n)
      /\ \A j, l \in 1..y : b[j] = b[l] => j = l
  BY DEF IsRest
<1>4. /\ 0 + z = y => i = m
      /\ 0 + z < y => b[0 + z + 1] = <<i + 1, 1>>
  BY <1>1 DEF FrameAt
<1>5. /\ c \in Seq(Byte) /\ Len(c) = y - z
      /\ \A j \in 1..(y - z) : c[j] = b[z + j]
  <2>1. z \in 0..y
    BY <1>1, <1>2
  <2> HIDE DEF z
  <2> QED
    BY <2>1, Suffix
<1>6. \A s, n : FrameAt(fs, b, s, n) /\ s >= z => FrameAt(fs, c, s - z, n)
  BY <1>1, <1>2, FrameShifts
<1> HIDE DEF m, y, c
<1>7. c = <<>> <=> y = z
  BY <1>1, <1>2, <1>5, EmptySeq
<1>z. z = Size(fs[i])
  OBVIOUS
<1> HIDE DEF z
<1>8. ASSUME NEW j \in 1..(y - z)
      PROVE  \E n \in (i + 1)..m, k \in 1..j :
                k <= Size(fs[n]) /\ c[j] = <<n, k>> /\ FrameAt(fs, c, j - k, n)
  <2>1. z + j \in 1..y /\ c[j] = b[z + j]
    BY <1>1, <1>2, <1>5
  <2>2. PICK n \in i..m, k \in 1..(z + j) :
           k <= Size(fs[n]) /\ b[z + j] = <<n, k>> /\ FrameAt(fs, b, (z + j) - k, n)
    BY <1>3, <2>1
  <2>3. n # i
    <3> SUFFICES ASSUME n = i PROVE FALSE
      OBVIOUS
    <3>1. k \in 1..z /\ k \in 1..y /\ k # z + j
      <4>1. k <= z /\ k \in Nat /\ k >= 1
        BY <1>2, <1>z, <2>2
      <4> QED
        BY <1>1, <1>2, <4>1
    <3>2. b[k] = b[z + j]
      BY <1>1, <2>2, <3>1
    <3> QED
      BY <1>3, <2>1, <3>1, <3>2
  <2>4. (z + j) - k >= z
    <3> SUFFICES ASSUME ~((z + j) - k >= z) PROVE FALSE
      OBVIOUS
    <3> DEFINE s == (z + j) - k
               l == z - s
    <3>1. s \in Nat /\ l \in Nat /\ l >= 1 /\ l <= k /\ s + l = z
      BY <1>2
    <3> HIDE DEF s, l
    <3>2. Size(fs[n]) \in Nat
      <4>1. n \in 1..Len(fs)
        BY <1>1, <1>2 DEF m
      <4> QED
        BY <4>1, SizeOf
    <3>3. l \in 1..Size(fs[n])
      BY <2>2, <3>1, <3>2
    <3>4. b[s + l] = <<n, l>>
      BY <2>2, <3>3 DEF FrameAt, s
    <3>5. b[z] = <<i, z>>
      BY <1>1, <1>2
    <3> QED
      BY <2>3, <3>1, <3>4, <3>5
  <2>5. FrameAt(fs, c, ((z + j) - k) - z, n)
    BY <1>6, <2>2, <2>4
  <2>6. n \in (i + 1)..m /\ k \in 1..j /\ ((z + j) - k) - z = j - k
    BY <1>1, <1>2, <2>3, <2>4
  <2> QED
    BY <2>1, <2>2, <2>5, <2>6
<1>9. ASSUME NEW j \in 1..(y - z), NEW l \in 1..(y - z), c[j] = c[l] PROVE j = l
  <2>1. z + j \in 1..y /\ z + l \in 1..y /\ b[z + j] = b[z + l]
    BY <1>1, <1>2, <1>5, <1>9
  <2> QED
    BY <1>2, <1>3, <2>1
<1>10. /\ i + 1 \in 1..(m + 1)
       /\ c = <<>> <=> i + 1 = m + 1
       /\ c # <<>> => c[1] = <<i + 1, 1>>
  <2>1. CASE y = z
    BY <1>1, <1>2, <1>4, <1>7, <2>1
  <2>2. CASE y # z
    <3>1. 1 \in 1..(y - z) /\ 0 + z < y /\ 0 + z + 1 = z + 1
      BY <1>1, <1>2, <2>2
    <3>2. c[1] = <<i + 1, 1>>
      BY <1>4, <1>5, <3>1
    <3>3. \E n \in (i + 1)..m : TRUE
      BY <1>8, <3>1
    <3> QED
      BY <1>1, <1>2, <1>7, <2>2, <3>2, <3>3
  <2> QED
    BY <2>1, <2>2
<1> QED
  BY <1>5, <1>8, <1>9, <1>10 DEF IsRest, c, m, y, z

(* The rest, byte by byte.                                                 *)
LEMMA RestIsWire ==
    ASSUME sent \in Seq(Frames), NEW b \in Seq(Byte), NEW i, IsRest(sent, b, i)
    PROVE  IsWireFrom(b, i)
<1> DEFINE m == Len(sent)
           y == Len(b)
<1>1. /\ m \in Nat /\ y \in Nat /\ (b # <<>> => y > 0)
  BY EmptySeq
<1>2. /\ i \in 1..(m + 1)
      /\ b = <<>> <=> i = m + 1
      /\ b # <<>> => b[1] = <<i, 1>>
      /\ \A j \in 1..y : \E n \in i..m, k \in 1..j :
            k <= Size(sent[n]) /\ b[j] = <<n, k>> /\ FrameAt(sent, b, j - k, n)
  BY DEF IsRest
<1>3. ASSUME NEW j \in 1..y, NEW n \in i..m, NEW k \in 1..j,
             k <= Size(sent[n]), FrameAt(sent, b, j - k, n)
      PROVE  /\ k < Size(sent[n]) => b[j + 1] = <<n, k + 1>> /\ j + 1 <= y
             /\ k = Size(sent[n]) => (j = y => n = m) /\ (j < y => b[j + 1] = <<n + 1, 1>>)
  <2> DEFINE z == Size(sent[n])
  <2>1. z \in Nat /\ j \in Nat /\ k \in Nat /\ n \in 1..m
    <3>1. j \in Nat /\ k \in Nat /\ n \in 1..m
      BY <1>1, <1>2
    <3> QED
      BY <3>1, SizeOf
  <2>2. /\ (j - k) + z <= y
        /\ \A l \in 1..z : b[(j - k) + l] = <<n, l>>
        /\ (j - k) + z = y => n = m
        /\ (j - k) + z < y => b[(j - k) + z + 1] = <<n + 1, 1>>
    BY <1>3 DEF FrameAt
  <2> HIDE DEF z, m, y
  <2>3. ASSUME k < z PROVE b[j + 1] = <<n, k + 1>> /\ j + 1 <= y
    <3>1. k + 1 \in 1..z /\ (j - k) + (k + 1) = j + 1 /\ j + 1 <= (j - k) + z
      BY <2>1, <2>3
    <3>2. b[j + 1] = <<n, k + 1>>
      BY <2>2, <3>1
    <3>3. j + 1 <= y
      BY <1>1, <2>1, <2>2, <3>1
    <3> QED
      BY <3>2, <3>3
  <2>4. ASSUME k = z PROVE (j = y => n = m) /\ (j < y => b[j + 1] = <<n + 1, 1>>)
    <3>1. (j - k) + z = j /\ (j - k) + z + 1 = j + 1
      BY <2>1, <2>4
    <3> QED
      BY <2>2, <3>1
  <2> QED
    BY <2>3, <2>4 DEF z
<1>4. ASSUME NEW j \in 1..(y - 1)
      PROVE  \E n \in i..m, k \in 1..y :
                /\ b[j] = <<n, k>>
                /\ b[j + 1] = IF k < Size(sent[n]) THEN <<n, k + 1>> ELSE <<n + 1, 1>>
  <2>1. j \in 1..y /\ j < y
    BY <1>1
  <2>2. PICK n \in i..m, k \in 1..j :
            k <= Size(sent[n]) /\ b[j] = <<n, k>> /\ FrameAt(sent, b, j - k, n)
    BY <1>2, <2>1
  <2>3. Size(sent[n]) \in Nat /\ k \in Nat
    <3>1. n \in 1..m /\ k \in Nat
      BY <1>1, <1>2
    <3> QED
      BY <3>1, Sizes
  <2>4. k \in 1..y
    BY <1>1, <2>1
  <2>5. /\ k < Size(sent[n]) => b[j + 1] = <<n, k + 1>>
        /\ k = Size(sent[n]) => b[j + 1] = <<n + 1, 1>>
    BY <1>3, <2>1, <2>2
  <2>6. ~(k < Size(sent[n])) => k = Size(sent[n])
    BY <2>2, <2>3
  <2> QED
    BY <2>2, <2>4, <2>5, <2>6
<1>5. ASSUME b # <<>> PROVE b[y] = <<m, Size(sent[m])>>
  <2>1. y \in 1..y
    BY <1>1, <1>5
  <2>2. PICK n \in i..m, k \in 1..y :
            k <= Size(sent[n]) /\ b[y] = <<n, k>> /\ FrameAt(sent, b, y - k, n)
    BY <1>2, <2>1
  <2>3. Size(sent[n]) \in Nat
    <3>1. n \in 1..m
      BY <1>1, <1>2
    <3> QED
      BY <3>1, SizeOf
  <2>4. ~(k < Size(sent[n]))
    BY <1>1, <1>3, <2>1, <2>2
  <2> QED
    BY <1>3, <2>1, <2>2, <2>3, <2>4
<1>6. i > m <=> i = m + 1
  BY <1>1, <1>2
<1> HIDE DEF m, y
<1>7. /\ b = <<>> <=> i > m
      /\ b # <<>> => b[1] = <<i, 1>> /\ b[y] = <<m, Size(sent[m])>>
  BY <1>2, <1>5, <1>6
<1> QED
  BY <1>4, <1>7 DEF IsWireFrom, m, y


-----------------------------------------------------------------------------
(* The buffer.                                                             *)

(* Advancing pos by a frame's size drops that frame from what is available. *)
LEMMA SuffixOfSuffix ==
    ASSUME NEW b \in Seq(Byte), NEW p \in 0..Len(b), NEW t \in 0..(Len(b) - p)
    PROVE  SubSeq(b, (p + t) + 1, Len(b))
             = SubSeq(SubSeq(b, p + 1, Len(b)), t + 1, Len(SubSeq(b, p + 1, Len(b))))
<1> DEFINE a == SubSeq(b, p + 1, Len(b))
           c == SubSeq(a, t + 1, Len(a))
           d == SubSeq(b, (p + t) + 1, Len(b))
           y == Len(b)
<1>1. y \in Nat /\ p \in 0..y /\ t \in 0..(y - p) /\ p + t \in 0..y
  OBVIOUS
<1>2. a \in Seq(Byte) /\ Len(a) = y - p /\ \A j \in 1..(y - p) : a[j] = b[p + j]
  BY Suffix
<1>3. /\ d \in Seq(Byte) /\ Len(d) = y - (p + t)
      /\ \A j \in 1..(y - (p + t)) : d[j] = b[(p + t) + j]
  <2> DEFINE z == p + t
  <2>1. z \in 0..Len(b)
    BY <1>1
  <2> HIDE DEF z
  <2>2. /\ SubSeq(b, z + 1, Len(b)) \in Seq(Byte)
        /\ Len(SubSeq(b, z + 1, Len(b))) = Len(b) - z
        /\ \A j \in 1..(Len(b) - z) : SubSeq(b, z + 1, Len(b))[j] = b[z + j]
    BY <2>1, Suffix
  <2> QED
    BY <2>2 DEF z
<1> HIDE DEF a, d
<1>4. t \in 0..Len(a)
  BY <1>1, <1>2
<1>5. c \in Seq(Byte) /\ Len(c) = Len(a) - t /\ \A j \in 1..(Len(a) - t) : c[j] = a[t + j]
  BY <1>2, <1>4, Suffix
<1> HIDE DEF c, y
<1>6. Len(c) = Len(d)
  <2>1. Len(c) = (y - p) - t /\ Len(d) = y - (p + t)
    BY <1>2, <1>3, <1>5
  <2>2. y \in Nat /\ p \in Nat /\ t \in Nat
    BY <1>1
  <2> QED
    BY <2>1, <2>2
<1>7. ASSUME NEW j \in 1..Len(c) PROVE c[j] = d[j]
  <2>1. /\ j \in 1..(Len(a) - t) /\ t + j \in 1..(y - p) /\ j \in 1..(y - (p + t))
        /\ p + (t + j) = (p + t) + j
    BY <1>1, <1>2, <1>5
  <2> QED
    BY <1>2, <1>3, <1>5, <2>1
<1>8. c = d
  BY <1>3, <1>5, <1>6, <1>7, SeqEqual
<1> QED
  BY <1>8 DEF a, c, d

(* Bytes taken off the front of two sequences in a row, when the first has *)
(* as many.                                                                *)
LEMMA SuffixOfConcat ==
    ASSUME NEW a \in Seq(Byte), NEW n \in Seq(Byte), NEW t \in 0..Len(a)
    PROVE  SubSeq(a \o n, t + 1, Len(a \o n)) = SubSeq(a, t + 1, Len(a)) \o n
<1> DEFINE b == a \o n
           c == SubSeq(b, t + 1, Len(b))
           e == SubSeq(a, t + 1, Len(a))
           d == e \o n
           x == Len(a)
           y == Len(n)
<1>1. x \in Nat /\ y \in Nat /\ t \in 0..x
  OBVIOUS
<1>2. /\ b \in Seq(Byte) /\ Len(b) = x + y
      /\ \A j \in 1..(x + y) : b[j] = IF j <= x THEN a[j] ELSE n[j - x]
  BY ConcatProperties
<1>3. e \in Seq(Byte) /\ Len(e) = x - t /\ \A j \in 1..(x - t) : e[j] = a[t + j]
  BY Suffix
<1> HIDE DEF b, e
<1>4. t \in 0..Len(b)
  BY <1>1, <1>2
<1>5. c \in Seq(Byte) /\ Len(c) = Len(b) - t /\ \A j \in 1..(Len(b) - t) : c[j] = b[t + j]
  BY <1>2, <1>4, Suffix
<1>6. /\ d \in Seq(Byte) /\ Len(d) = Len(e) + y
      /\ \A j \in 1..(Len(e) + y) : d[j] = IF j <= Len(e) THEN e[j] ELSE n[j - Len(e)]
  BY <1>3, ConcatProperties
<1> HIDE DEF c, d, x, y
<1>7. Len(c) = Len(d)
  BY <1>1, <1>2, <1>3, <1>5, <1>6
<1>8. ASSUME NEW j \in 1..Len(c) PROVE c[j] = d[j]
  <2>1. /\ j \in 1..(Len(b) - t) /\ t + j \in 1..(x + y) /\ j \in 1..(Len(e) + y)
        /\ t + j <= x <=> j <= Len(e)
        /\ j <= Len(e) => j \in 1..(x - t)
        /\ (t + j) - x = j - Len(e)
    BY <1>1, <1>2, <1>3, <1>5, <1>6
  <2>2. c[j] = IF j <= Len(e) THEN a[t + j] ELSE n[j - Len(e)]
    BY <1>2, <1>5, <2>1
  <2>3. d[j] = IF j <= Len(e) THEN a[t + j] ELSE n[j - Len(e)]
    BY <1>3, <1>6, <2>1
  <2> QED
    BY <2>2, <2>3
<1>9. c = d
  BY <1>5, <1>6, <1>7, <1>8, SeqEqual
<1> QED
  BY <1>9 DEF b, c, d, e

-----------------------------------------------------------------------------
(* The invariant.                                                          *)

TypeOK ==
    /\ sent \in Seq(Frames) /\ net \in Seq(Byte)
    /\ dec \in [buf : Seq(Byte), pos : Nat] /\ dec.pos <= Len(dec.buf)
    /\ eof \in BOOLEAN /\ dry \in BOOLEAN /\ broken \in BOOLEAN
    /\ conn \in {"first", "control", "session", "closed"}
    /\ handled \in Seq([ty : Types, payload : Seq(Byte), ok : BOOLEAN])
    /\ acts \in Seq((Types \cup {"hello_ok", "sessions"}) \X Nat)

(* What is left of the wire starts with the frame that is next, the frames *)
(* taken are the ones before it, and none of them is malformed.            *)
WireInv ==
    /\ IsRest(sent, Avail \o net, Len(handled) + 1)
    /\ \A i \in 1..Len(handled) :
          /\ handled[i].ty = sent[i].ty /\ handled[i].ok = sent[i].ok
          /\ handled[i].payload = [k \in 1..sent[i].len |-> <<i, Header + k>>]
          /\ ~BadFrame(sent[i])
    /\ broken => /\ conn = "closed"
                 /\ Len(handled) < Len(sent) /\ BadFrame(sent[Len(handled) + 1])

(* A read comes only when a frame is unfinished.                           *)
BufferInv == BufferBounded /\ (dry => Len(Avail) < Header + MaxFrameLen)

(* The first frame has made the connection what it is.                     *)
ActInv ==
    /\ conn = "first" => Len(handled) = 0
    /\ conn = "control" => Len(handled) > 0 /\ sent[1].ty = "hello" /\ sent[1].ok
    /\ conn = "session" => /\ Len(handled) > 0 /\ sent[1].ty = "attach" /\ sent[1].ok
                           /\ \A j \in 2..Len(handled) : sent[j].ty # "close"
    /\ ActsAsAsked

ConnInv == TypeOK /\ WireInv /\ BufferInv /\ ActInv

(* What next_frame looks at is a part of the buffer, in front of the socket's. *)
LEMMA AvailIs ==
    ASSUME TypeOK
    PROVE  /\ Avail \in Seq(Byte) /\ Len(Avail) = Len(dec.buf) - dec.pos
           /\ Avail \o net \in Seq(Byte)
           /\ \A j \in 1..Len(Avail) : (Avail \o net)[j] = Avail[j]
           /\ Avail # <<>> => Avail \o net # <<>>
<1>1. dec.buf \in Seq(Byte) /\ dec.pos \in 0..Len(dec.buf) /\ net \in Seq(Byte)
  BY DEF TypeOK
<1>2. Avail \in Seq(Byte) /\ Len(Avail) = Len(dec.buf) - dec.pos
  BY <1>1, Suffix DEF Avail
<1> DEFINE a == Avail
<1> HIDE DEF a
<1>3. /\ a \o net \in Seq(Byte)
      /\ \A j \in 1..Len(a) : (a \o net)[j] = a[j]
      /\ a # <<>> => a \o net # <<>>
  BY <1>1, <1>2, ConcatProperties, ConcatEqualIffEmpty DEF a
<1> QED
  BY <1>2, <1>3 DEF a

(* What the decoder sees of the frame that is next.                        *)
LEMMA NextFrame ==
    ASSUME TypeOK, WireInv, HasHeader, NEW h, h = Len(handled) + 1
    PROVE  /\ h \in 1..Len(sent) /\ sent[h] \in Frames
           /\ Taken = h /\ TypeOf(Avail[1]) = sent[h].ty
           /\ LengthOf(Avail[2]) = sent[h].len /\ Total = Size(sent[h])
           /\ Malformed <=> BadFrame(sent[h])
           /\ \A k \in 1..Size(sent[h]) : (Avail \o net)[k] = <<h, k>>
<1>1. /\ Avail \in Seq(Byte) /\ Avail \o net \in Seq(Byte)
      /\ \A j \in 1..Len(Avail) : (Avail \o net)[j] = Avail[j]
      /\ Avail # <<>> => Avail \o net # <<>>
  BY AvailIs
<1>2. Len(Avail) \in Nat /\ Len(Avail) >= 2 /\ 1 \in 1..Len(Avail) /\ 2 \in 1..Len(Avail)
  BY <1>1 DEF HasHeader, Header
<1>3. Avail # <<>>
  BY <1>2
<1>4. sent \in Seq(Frames) /\ IsRest(sent, Avail \o net, h)
  BY DEF TypeOK, WireInv
<1> DEFINE r == Avail \o net
<1> HIDE DEF r
<1>5. /\ h \in 1..Len(sent)
      /\ \A k \in 1..Size(sent[h]) : r[k] = <<h, k>>
  BY <1>1, <1>3, <1>4, RestBegins DEF r
<1>6. /\ sent[h] \in Frames /\ sent[h].len \in Nat /\ Size(sent[h]) = sent[h].len + 2
  BY <1>4, <1>5, Sizes
<1>7. 1 \in 1..Size(sent[h]) /\ 2 \in 1..Size(sent[h])
  BY <1>6
<1>8. Avail[1] = <<h, 1>> /\ Avail[2] = <<h, 2>>
  BY <1>1, <1>2, <1>5, <1>7 DEF r
<1>9. /\ Taken = h /\ TypeOf(Avail[1]) = sent[h].ty
      /\ LengthOf(Avail[2]) = sent[h].len
  BY <1>8 DEF Taken, TypeOf, LengthOf
<1>10. Total = Size(sent[h])
  BY <1>9 DEF Total, Size
<1>11. Malformed <=> BadFrame(sent[h])
  BY <1>9 DEF Malformed, Oversized, BadFrame
<1> QED
  BY <1>5, <1>6, <1>9, <1>10, <1>11 DEF r


(* Bytes that are consumed are gone from the buffer, compacted or not, and *)
(* no others are.                                                          *)
LEMMA ConsumedIs ==
    ASSUME TypeOK, Total \in 0..Len(Avail), dec' = Consumed(dec)
    PROVE  /\ dec' \in [buf : Seq(Byte), pos : Nat] /\ dec'.pos <= Len(dec'.buf)
           /\ Len(dec'.buf) <= Len(dec.buf)
           /\ Avail' = SubSeq(Avail, Total + 1, Len(Avail))
<1> DEFINE b == dec.buf
           p == dec.pos
           t == Total
           c == SubSeq(b, (p + t) + 1, Len(b))
<1>1. b \in Seq(Byte) /\ p \in 0..Len(b) /\ Len(b) \in Nat
  BY DEF TypeOK
<1>2. dec = [buf |-> b, pos |-> p]
  BY DEF TypeOK
<1>3. t \in 0..(Len(b) - p)
  BY AvailIs
<1>4. Avail = SubSeq(b, p + 1, Len(b))
  BY DEF Avail
<1>5. [dec EXCEPT !.pos = dec.pos + Total] = [buf |-> b, pos |-> p + t]
  BY <1>2
<1>6. dec' = [buf |-> b, pos |-> p + t] \/ dec' = [buf |-> c, pos |-> 0]
  BY <1>5 DEF Consumed, Compact
<1>7. Avail' = SubSeq(dec'.buf, dec'.pos + 1, Len(dec'.buf))
  BY DEF Avail
<1> HIDE DEF b, p, t
<1>8. c = SubSeq(Avail, t + 1, Len(Avail))
  BY <1>1, <1>3, <1>4, SuffixOfSuffix
<1>9. p + t \in 0..Len(b)
  BY <1>1, <1>3
<1>10. c \in Seq(Byte) /\ Len(c) <= Len(b)
  <2> DEFINE z == p + t
  <2>1. z \in 0..Len(b)
    BY <1>9
  <2> HIDE DEF z
  <2>2. SubSeq(b, z + 1, Len(b)) \in Seq(Byte) /\ Len(SubSeq(b, z + 1, Len(b))) = Len(b) - z
    BY <1>1, <2>1, Suffix
  <2>3. Len(b) - z <= Len(b)
    BY <1>1, <2>1
  <2> QED
    BY <2>2, <2>3 DEF z
<1> HIDE DEF c
<1>11. CASE dec' = [buf |-> b, pos |-> p + t]
  <2>1. Avail' = c
    <3>1. dec'.buf = b /\ dec'.pos = p + t
      BY <1>11
    <3> QED
      BY <1>7, <3>1 DEF c
  <2> QED
    BY <1>1, <1>8, <1>9, <1>11, <2>1 DEF b, t
<1>12. CASE dec' = [buf |-> c, pos |-> 0]
  <2>1. Avail' = c
    <3>1. Avail' = SubSeq(c, 0 + 1, Len(c))
      BY <1>7, <1>12
    <3> QED
      BY <1>10, <3>1, SubSeqFull
  <2>2. Len(c) \in Nat
    BY <1>10
  <2> QED
    BY <1>8, <1>10, <1>12, <2>1, <2>2 DEF b, t
<1> QED
  BY <1>6, <1>11, <1>12

(* next_frame takes the frame that is next, as it was written.             *)
LEMMA Takes ==
    ASSUME TypeOK, WireInv, NEW in, TakeFrame(in), NEW h, h = Len(handled) + 1
    PROVE  /\ h \in 1..Len(sent) /\ sent[h] \in Frames /\ ~BadFrame(sent[h])
           /\ Taken = h /\ Frame.ty = sent[h].ty /\ Frame.ok = sent[h].ok
           /\ Frame.payload = [k \in 1..sent[h].len |-> <<h, Header + k>>]
           /\ handled' \in Seq([ty : Types, payload : Seq(Byte), ok : BOOLEAN])
           /\ Len(handled') = h /\ handled'[h] = Frame
           /\ \A i \in 1..Len(handled) : handled'[i] = handled[i]
           /\ dec' \in [buf : Seq(Byte), pos : Nat] /\ dec'.pos <= Len(dec'.buf)
           /\ Len(dec'.buf) <= Len(dec.buf)
           /\ IsRest(sent, Avail' \o net, h + 1)
<1>1. HasHeader /\ ~Malformed /\ Len(Avail) >= Total /\ dec' = Consumed(dec)
      /\ handled' = Append(handled, Frame)
  BY DEF TakeFrame, Whole
<1>2. /\ h \in 1..Len(sent) /\ sent[h] \in Frames /\ ~BadFrame(sent[h])
      /\ Taken = h /\ TypeOf(Avail[1]) = sent[h].ty
      /\ Total = Size(sent[h])
      /\ \A k \in 1..Size(sent[h]) : (Avail \o net)[k] = <<h, k>>
  BY <1>1, NextFrame
<1>3. /\ sent[h].len \in Nat /\ Size(sent[h]) = sent[h].len + 2
      /\ sent[h].ty \in Types /\ sent[h].ok \in BOOLEAN
  BY <1>2, Sizes
<1>4. /\ Avail \in Seq(Byte) /\ Avail \o net \in Seq(Byte) /\ net \in Seq(Byte)
      /\ \A j \in 1..Len(Avail) : (Avail \o net)[j] = Avail[j]
      /\ Avail # <<>> => Avail \o net # <<>>
  BY AvailIs DEF TypeOK
<1>5. Total \in 0..Len(Avail) /\ Len(Avail) \in Nat /\ Avail # <<>>
  BY <1>1, <1>2, <1>3, <1>4
<1> DEFINE y == Size(sent[h])
           a == Avail
           pl == SubSeq(a, Header + 1, Total)
<1>6. pl = [k \in 1..sent[h].len |-> <<h, Header + k>>] /\ pl \in Seq(Byte)
  <2> DEFINE n == sent[h].len
             q == [k \in 1..n |-> <<h, Header + k>>]
  <2>1. n \in Nat /\ Total = n + 2 /\ n + 2 <= Len(a) /\ h \in Nat
    BY <1>2, <1>3, <1>5
  <2>2. \A k \in 1..n : a[2 + k] = <<h, 2 + k>>
    <3> SUFFICES ASSUME NEW k \in 1..n PROVE a[2 + k] = <<h, 2 + k>>
      OBVIOUS
    <3>1. 2 + k \in 1..Size(sent[h]) /\ 2 + k \in 1..Len(a)
      BY <1>3, <1>5, <2>1
    <3> QED
      BY <1>2, <1>4, <3>1
  <2> HIDE DEF a, n
  <2>3. /\ pl \in Seq(Byte) /\ Len(pl) = n
        /\ \A k \in 1..n : pl[k] = a[2 + k]
    <3>1. a \in Seq(Byte) /\ Len(a) \in Nat
      BY <1>4 DEF a
    <3>2. SubSeq(a, 3, n + 2) \in Seq(Byte)
      BY <2>1, <3>1
    <3>3. Len(SubSeq(a, 3, n + 2)) = n
      BY <2>1, <3>1
    <3>4. \A k \in 1..n : SubSeq(a, 3, n + 2)[k] = a[2 + k]
      BY <2>1, <3>1
    <3>5. pl = SubSeq(a, 3, n + 2)
      BY <2>1 DEF Header
    <3> QED
      BY <3>2, <3>3, <3>4, <3>5
  <2>4. q \in Seq(Byte) /\ Len(q) = n /\ \A k \in 1..n : q[k] = <<h, 2 + k>>
    <3>1. \A k \in 1..n : <<h, 2 + k>> \in Byte
      BY <2>1 DEF Byte
    <3> QED
      BY <2>1, <3>1 DEF Header
  <2> HIDE DEF pl, q
  <2>5. pl = q
    BY <2>2, <2>3, <2>4, SeqEqual
  <2> QED
    BY <2>3, <2>5 DEF q, n
<1>7. /\ Frame.ty = sent[h].ty /\ Frame.ok = sent[h].ok
      /\ Frame.payload = [k \in 1..sent[h].len |-> <<h, Header + k>>]
      /\ Frame \in [ty : Types, payload : Seq(Byte), ok : BOOLEAN]
  BY <1>2, <1>3, <1>6 DEF Frame
<1>8. /\ handled' \in Seq([ty : Types, payload : Seq(Byte), ok : BOOLEAN])
      /\ Len(handled') = h /\ handled'[h] = Frame
      /\ \A i \in 1..Len(handled) : handled'[i] = handled[i]
  BY <1>1, <1>7, AppendProperties DEF TypeOK
<1>9. /\ dec' \in [buf : Seq(Byte), pos : Nat] /\ dec'.pos <= Len(dec'.buf)
      /\ Len(dec'.buf) <= Len(dec.buf)
      /\ Avail' = SubSeq(a, Total + 1, Len(a))
  BY <1>1, <1>5, ConsumedIs
<1>10. IsRest(sent, Avail' \o net, h + 1)
  <2>1. IsRest(sent, a \o net, h) /\ sent \in Seq(Frames) /\ a \o net # <<>>
    BY <1>4, <1>5 DEF WireInv, TypeOK
  <2>2. a \in Seq(Byte) /\ a \o net \in Seq(Byte) /\ Total \in 0..Len(a)
    BY <1>4, <1>5
  <2> HIDE DEF a
  <2>3. IsRest(sent, SubSeq(a \o net, Size(sent[h]) + 1, Len(a \o net)), h + 1)
    BY <2>1, <2>2, RestTaken
  <2>4. SubSeq(a \o net, Total + 1, Len(a \o net)) = SubSeq(a, Total + 1, Len(a)) \o net
    BY <1>4, <2>2, SuffixOfConcat
  <2> QED
    BY <1>2, <1>9, <2>3, <2>4
<1> QED
  BY <1>2, <1>7, <1>8, <1>9, <1>10


-----------------------------------------------------------------------------
(* The steps.                                                              *)

(* Steps that take a frame.                                                *)
TakesOne ==
    \/ HandleSession \/ HandleControl \/ FirstRefused \/ ReplyFails
    \/ ControlFrame \/ SessionFrame \/ ActorGone

(* Each step that handles a frame takes it off the buffer in the same way. *)
LEMMA TakesFrom ==
    ASSUME TakesOne
    PROVE  \E in \in {"first", "control", "session"} : TakeFrame(in)
BY DEF TakesOne, HandleSession, HandleControl, FirstRefused, ReplyFails, ControlFrame,
       SessionFrame, ActorGone

(* Push keeps what is not consumed, and puts the new bytes behind it.      *)
LEMMA PushIs ==
    ASSUME TypeOK, NEW n \in 1..Len(net), Read(n)
    PROVE  /\ dec' = [buf |-> Avail \o SubSeq(net, 1, n), pos |-> 0]
           /\ net' = SubSeq(net, n + 1, Len(net)) /\ net' \in Seq(Byte)
           /\ SubSeq(net, 1, n) \in Seq(Byte) /\ Len(SubSeq(net, 1, n)) = n
           /\ dec'.buf \in Seq(Byte) /\ Len(dec'.buf) = Len(Avail) + n
           /\ Avail' = dec'.buf /\ Avail' \o net' = Avail \o net
<1> DEFINE a == Avail
           s == SubSeq(net, 1, n)
           t == SubSeq(net, n + 1, Len(net))
           b == a \o s
<1>1. a \in Seq(Byte) /\ net \in Seq(Byte) /\ Len(net) \in Nat
  BY AvailIs DEF TypeOK
<1>2. s \in Seq(Byte) /\ Len(s) = n /\ t \in Seq(Byte)
  BY <1>1
<1>3. s \o t = net
  <2>1. 1 \in 1..(Len(net) + 1) /\ n \in (1 - 1)..Len(net) /\ Len(net) \in n..Len(net)
    BY <1>1
  <2>2. s \o t = SubSeq(net, 1, Len(net))
    BY <1>1, <2>1, ConcatAdjacentSubSeq
  <2> QED
    BY <1>1, <2>2, SubSeqFull
<1>4. dec' = [buf |-> b, pos |-> 0] /\ net' = t
  BY DEF Read, Push, Compact, Avail
<1>5. Avail' = SubSeq(dec'.buf, dec'.pos + 1, Len(dec'.buf))
  BY DEF Avail
<1> HIDE DEF a, s, t
<1>6. b \in Seq(Byte) /\ Len(b) = Len(a) + n
  BY <1>1, <1>2, ConcatProperties
<1>7. b \o t = a \o net
  <2>1. (a \o s) \o t = a \o (s \o t)
    <3>1. a \in Seq(Byte) /\ s \in Seq(Byte) /\ t \in Seq(Byte)
      BY <1>1, <1>2
    <3> HIDE DEF Byte
    <3> QED
      BY <3>1, ConcatAssociative, SMTT(20)
  <2> QED
    BY <1>3, <2>1
<1> HIDE DEF b
<1>8. dec'.buf = b /\ dec'.pos = 0
  BY <1>4
<1>9. Avail' = b
  <2>1. Avail' = SubSeq(b, 1, Len(b))
    BY <1>5, <1>8
  <2> QED
    BY <1>6, <2>1, SubSeqFull
<1> QED
  BY <1>2, <1>4, <1>6, <1>7, <1>8, <1>9 DEF a, b, s, t

(* Types.                                                                  *)
LEMMA TypeStep ==
    ASSUME TypeOK, WireInv, [Next]_vars
    PROVE  TypeOK'
<1>1. ASSUME NEW f \in Frames, ClientWrites(f) PROVE TypeOK'
  <2>1. sent' \in Seq(Frames)
    BY <1>1, AppendProperties DEF TypeOK, ClientWrites
  <2>2. net' \in Seq(Byte)
    <3>1. Len(sent) + 1 \in Nat
      BY DEF TypeOK
    <3>2. Encode(Len(sent) + 1, f) \in Seq(Byte)
      BY <3>1, EncodeIs
    <3> QED
      BY <1>1, <3>2, ConcatProperties DEF TypeOK, ClientWrites
  <2> QED
    BY <1>1, <2>1, <2>2 DEF TypeOK, ClientWrites
<1>2. ASSUME NEW n \in 1..Len(net), Read(n) PROVE TypeOK'
  <2>1. /\ dec'.buf \in Seq(Byte) /\ net' \in Seq(Byte)
        /\ dec' = [buf |-> Avail \o SubSeq(net, 1, n), pos |-> 0]
    BY <1>2, PushIs
  <2>2. dec' \in [buf : Seq(Byte), pos : Nat] /\ dec'.pos <= Len(dec'.buf)
    BY <2>1
  <2> QED
    BY <1>2, <2>1, <2>2 DEF TypeOK, Read
<1>3. CASE TakesOne
  <2>1. PICK in \in {"first", "control", "session"} : TakeFrame(in)
    BY <1>3, TakesFrom
  <2>2. PICK h : h = Len(handled) + 1
    OBVIOUS
  <2>3. /\ sent[h] \in Frames /\ Taken = h /\ Frame.ty = sent[h].ty
        /\ handled' \in Seq([ty : Types, payload : Seq(Byte), ok : BOOLEAN])
        /\ dec' \in [buf : Seq(Byte), pos : Nat] /\ dec'.pos <= Len(dec'.buf)
    BY <2>1, <2>2, Takes
  <2>4. h \in Nat /\ Frame.ty \in Types
    BY <2>2, <2>3, Sizes DEF TypeOK
  <2>5. UNCHANGED <<sent, net, eof, broken>>
    BY <2>1 DEF TakeFrame
  <2>6. /\ conn' \in {"first", "control", "session", "closed"} /\ dry' = dry
        /\ \/ acts' = acts
           \/ \E k \in Types \cup {"hello_ok", "sessions"} : acts' = Append(acts, <<k, h>>)
    BY <1>3, <2>3, <2>4
       DEF TakesOne, HandleSession, HandleControl, FirstRefused, ReplyFails,
           ControlFrame, SessionFrame, ActorGone, Do, DoNothing, TypeOK, Types
  <2>7. acts' \in Seq((Types \cup {"hello_ok", "sessions"}) \X Nat)
    <3> DEFINE K == (Types \cup {"hello_ok", "sessions"}) \X Nat
    <3>1. acts' = acts \/ \E a \in K : acts' = Append(acts, a)
      BY <2>4, <2>6
    <3>2. acts \in Seq(K)
      BY DEF TypeOK
    <3> HIDE DEF K
    <3>3. acts' \in Seq(K)
      BY <3>1, <3>2, AppendProperties
    <3> QED
      BY <3>3 DEF K
  <2> QED
    BY <2>3, <2>5, <2>6, <2>7 DEF TypeOK
<1>4. CASE \/ UNCHANGED vars \/ ClientCloses \/ ReadEnds \/ NeedsMore \/ Teardown
           \/ Rejects
  BY <1>4 DEF TypeOK, vars, ClientCloses, ReadEnds, NeedsMore, Teardown, Rejects
<1>5. CASE \E n \in 1..ReadMax : n <= Len(net) /\ Read(n)
  <2>1. PICK n \in 1..Len(net) : Read(n)
    BY <1>5 DEF TypeOK
  <2> QED
    BY <1>2, <2>1
<1> QED
  BY <1>1, <1>3, <1>4, <1>5 DEF Next, Daemon, Decode, TakesOne


(* Nothing is lost, repeated or reordered by any step.                     *)
LEMMA WireStep ==
    ASSUME TypeOK, WireInv, [Next]_vars
    PROVE  WireInv'
<1>0. /\ Len(handled) \in Nat /\ Len(sent) \in Nat /\ sent \in Seq(Frames)
      /\ Len(handled) + 1 \in 1..(Len(sent) + 1)
      /\ IsRest(sent, Avail \o net, Len(handled) + 1)
  <2>1. Len(handled) \in Nat /\ Len(sent) \in Nat /\ sent \in Seq(Frames)
    BY DEF TypeOK
  <2>2. IsRest(sent, Avail \o net, Len(handled) + 1)
    BY DEF WireInv
  <2>3. Len(handled) + 1 \in 1..(Len(sent) + 1)
    BY <2>2 DEF IsRest
  <2> QED
    BY <2>1, <2>2, <2>3
<1>1. ASSUME NEW f \in Frames, ClientWrites(f) PROVE WireInv'
  <2>1. /\ sent' = Append(sent, f) /\ net' = net \o Encode(Len(sent) + 1, f)
        /\ UNCHANGED <<dec, conn, handled, broken>>
    BY <1>1 DEF ClientWrites
  <2>2. \A i \in 1..Len(sent) : sent'[i] = sent[i]
    BY <1>0, <2>1, AppendProperties
  <2>3. Len(sent') = Len(sent) + 1
    BY <1>0, <2>1, AppendProperties
  <2>4. IsRest(sent', Avail' \o net', Len(handled) + 1)
    <3> DEFINE a == Avail
               e == Encode(Len(sent) + 1, f)
               r == a \o net
    <3>1. a \in Seq(Byte) /\ r \in Seq(Byte) /\ net \in Seq(Byte)
      BY AvailIs DEF TypeOK
    <3>2. e \in Seq(Byte)
      <4>1. Len(sent) + 1 \in Nat
        BY <1>0
      <4> QED
        BY <4>1, EncodeIs
    <3>3. Avail' = a
      BY <2>1 DEF Avail
    <3> HIDE DEF a, e
    <3>4. IsRest(sent', r \o e, Len(handled) + 1)
      <4>1. IsRest(sent, r, Len(handled) + 1)
        BY <1>0 DEF a
      <4> HIDE DEF r
      <4> QED
        BY <1>0, <2>1, <3>1, <4>1, RestWrites DEF e
    <3>5. r \o e = a \o (net \o e)
      <4> HIDE DEF Byte
      <4> QED
        BY <3>1, <3>2, ConcatAssociative
    <3> QED
      BY <2>1, <3>3, <3>4, <3>5 DEF e
  <2>5. ASSUME NEW i \in 1..Len(handled)
        PROVE  /\ handled[i].ty = sent'[i].ty /\ handled[i].ok = sent'[i].ok
               /\ handled[i].payload = [k \in 1..sent'[i].len |-> <<i, Header + k>>]
               /\ ~BadFrame(sent'[i])
    <3>1. i \in 1..Len(sent)
      BY <1>0
    <3> QED
      BY <2>2, <3>1 DEF WireInv
  <2>6. ASSUME broken
        PROVE  /\ conn = "closed" /\ Len(handled) < Len(sent')
               /\ BadFrame(sent'[Len(handled) + 1])
    <3>1. /\ conn = "closed" /\ Len(handled) < Len(sent) /\ BadFrame(sent[Len(handled) + 1])
      BY <2>6 DEF WireInv
    <3>2. Len(handled) + 1 \in 1..Len(sent)
      BY <1>0, <3>1
    <3> QED
      BY <1>0, <2>2, <2>3, <3>1, <3>2
  <2> QED
    BY <2>1, <2>4, <2>5, <2>6 DEF WireInv
<1>2. ASSUME NEW n \in 1..Len(net), Read(n) PROVE WireInv'
  <2>1. UNCHANGED <<sent, handled, broken, conn>>
    BY <1>2 DEF Read
  <2>2. Avail' \o net' = Avail \o net
    BY <1>2, PushIs
  <2> QED
    BY <2>1, <2>2 DEF WireInv
<1>3. CASE TakesOne
  <2>1. PICK in \in {"first", "control", "session"} : TakeFrame(in)
    BY <1>3, TakesFrom
  <2>2. PICK h : h = Len(handled) + 1
    OBVIOUS
  <2>3. UNCHANGED <<sent, net, broken>> /\ conn # "closed"
    BY <2>1 DEF TakeFrame
  <2>4. /\ ~BadFrame(sent[h]) /\ Frame.ty = sent[h].ty /\ Frame.ok = sent[h].ok
        /\ Frame.payload = [k \in 1..sent[h].len |-> <<h, Header + k>>]
        /\ Len(handled') = h /\ handled'[h] = Frame
        /\ \A i \in 1..Len(handled) : handled'[i] = handled[i]
        /\ IsRest(sent, Avail' \o net, h + 1)
    BY <2>1, <2>2, Takes
  <2>5. IsRest(sent', Avail' \o net', Len(handled') + 1)
    BY <2>3, <2>4
  <2>6. ~broken'
    BY <2>3 DEF WireInv
  <2>7. ASSUME NEW i \in 1..Len(handled')
        PROVE  /\ handled'[i].ty = sent'[i].ty /\ handled'[i].ok = sent'[i].ok
               /\ handled'[i].payload = [k \in 1..sent'[i].len |-> <<i, Header + k>>]
               /\ ~BadFrame(sent'[i])
    <3>1. CASE i = h
      BY <2>3, <2>4, <3>1
    <3>2. CASE i # h
      <4>1. i \in 1..Len(handled)
        BY <1>0, <2>2, <2>4, <3>2
      <4> QED
        BY <2>3, <2>4, <4>1 DEF WireInv
    <3> QED
      BY <3>1, <3>2
  <2> QED
    BY <2>5, <2>6, <2>7 DEF WireInv
<1>4. CASE Rejects
  <2>1. /\ UNCHANGED <<sent, net, dec, handled>> /\ conn' = "closed"
        /\ HasHeader /\ Malformed
    BY <1>4 DEF Rejects, Malformed
  <2>2. PICK h : h = Len(handled) + 1
    OBVIOUS
  <2>3. h \in 1..Len(sent) /\ BadFrame(sent[h])
    BY <2>1, <2>2, NextFrame
  <2>4. Len(handled) < Len(sent)
    BY <1>0, <2>2, <2>3
  <2>5. Avail' = Avail
    BY <2>1 DEF Avail
  <2> QED
    BY <2>1, <2>2, <2>3, <2>4, <2>5 DEF WireInv
<1>5. CASE UNCHANGED vars \/ ClientCloses \/ ReadEnds \/ NeedsMore \/ Teardown
  <2>1. UNCHANGED <<sent, net, dec, handled, broken>> /\ conn' \in {conn, "closed"}
    BY <1>5 DEF vars, ClientCloses, ReadEnds, NeedsMore, Teardown
  <2>2. Avail' = Avail
    BY <2>1 DEF Avail
  <2> QED
    BY <2>1, <2>2 DEF WireInv
<1>6. CASE \E n \in 1..ReadMax : n <= Len(net) /\ Read(n)
  <2>1. PICK n \in 1..Len(net) : Read(n)
    BY <1>6 DEF TypeOK
  <2> QED
    BY <1>2, <2>1
<1> QED
  BY <1>1, <1>3, <1>4, <1>5, <1>6 DEF Next, Daemon, Decode, TakesOne

(* A read is added to an unfinished frame, and to nothing else.            *)
LEMMA BufferStep ==
    ASSUME TypeOK, WireInv, BufferInv, [Next]_vars
    PROVE  BufferInv'
<1>0. /\ Len(dec.buf) \in Nat /\ Len(Avail) \in Nat /\ {MaxFrameLen, ReadMax} \subseteq Nat
      /\ Header = 2
  BY AvailIs, ConnectionAssumption DEF TypeOK, ConnectionAssumption, Header
<1>1. CASE \/ \E f \in Frames : ClientWrites(f)
           \/ UNCHANGED vars \/ ClientCloses \/ ReadEnds \/ Teardown \/ Rejects
  <2>1. UNCHANGED <<dec, dry>>
    BY <1>1 DEF ClientWrites, vars, ClientCloses, ReadEnds, Teardown, Rejects
  <2> QED
    BY <2>1 DEF BufferInv, BufferBounded, Avail
<1>2. CASE \E n \in 1..ReadMax : n <= Len(net) /\ Read(n)
  <2>1. PICK n \in 1..Len(net) : n <= ReadMax /\ Read(n)
    BY <1>2 DEF TypeOK
  <2>2. dry /\ ~dry' /\ Len(dec'.buf) = Len(Avail) + n
    BY <2>1, PushIs DEF Read
  <2>3. Len(dec'.buf) < Header + MaxFrameLen + ReadMax
    BY <1>0, <2>1, <2>2 DEF BufferInv
  <2> QED
    BY <2>2, <2>3 DEF BufferInv, BufferBounded
<1>3. CASE TakesOne
  <2>1. PICK in \in {"first", "control", "session"} : TakeFrame(in)
    BY <1>3, TakesFrom
  <2>2. Len(dec'.buf) <= Len(dec.buf) /\ dec'.buf \in Seq(Byte)
    BY <2>1, Takes
  <2>3. ~dry'
    BY <1>3, <2>1 DEF TakeFrame, TakesOne, HandleSession, HandleControl, FirstRefused,
                      ReplyFails, ControlFrame, SessionFrame, ActorGone
  <2>4. Len(dec'.buf) < Header + MaxFrameLen + ReadMax
    BY <1>0, <2>2 DEF BufferInv, BufferBounded
  <2> QED
    BY <2>3, <2>4 DEF BufferInv, BufferBounded
<1>4. CASE NeedsMore
  <2>1. dec' = dec /\ ~Whole /\ ~Malformed
    BY <1>4 DEF NeedsMore
  <2>2. Len(Avail) < Header + MaxFrameLen
    <3>1. CASE ~HasHeader
      BY <1>0, <3>1 DEF HasHeader
    <3>2. CASE HasHeader
      <4>1. PICK h : h = Len(handled) + 1
        OBVIOUS
      <4>2. /\ sent[h] \in Frames /\ Total = Size(sent[h]) /\ ~BadFrame(sent[h])
        BY <2>1, <3>2, <4>1, NextFrame
      <4>3. ~(sent[h].len > MaxFrameLen)
        BY <4>2 DEF BadFrame
      <4>4. sent[h].len \in Nat /\ Size(sent[h]) = sent[h].len + 2
        BY <4>2, Sizes
      <4>5. ~(Len(Avail) >= Total)
        BY <2>1, <3>2 DEF Whole
      <4> QED
        BY <1>0, <4>2, <4>3, <4>4, <4>5
    <3> QED
      BY <3>1, <3>2
  <2>3. Avail' = Avail
    BY <2>1 DEF Avail
  <2> QED
    BY <2>1, <2>2, <2>3 DEF BufferInv, BufferBounded
<1> QED
  BY <1>1, <1>2, <1>3, <1>4 DEF Next, Daemon, Decode, TakesOne


(* What a frame asks for depends on the frames up to it only.              *)
LEMMA AsksStays ==
    ASSUME NEW i \in Nat, i >= 1, \A j \in 1..i : sent'[j] = sent[j]
    PROVE  Asks(i)' = Asks(i)
<1>1. sent'[1] = sent[1] /\ sent'[i] = sent[i]
  <2>1. 1 \in 1..i /\ i \in 1..i
    OBVIOUS
  <2> QED
    BY <2>1
<1>2. (\E j \in 1..i : BadFrame(sent'[j])) <=> (\E j \in 1..i : BadFrame(sent[j]))
  OBVIOUS
<1>3. (\A j \in 2..(i - 1) : sent'[j].ty # "close")
        <=> (\A j \in 2..(i - 1) : sent[j].ty # "close")
  <2>1. \A j \in 2..(i - 1) : j \in 1..i
    OBVIOUS
  <2> QED
    BY <2>1
<1> QED
  BY <1>1, <1>2, <1>3, Zenon DEF Asks

(* What the next frame asks for, from what the connection is.              *)
LEMMA AsksNext ==
    ASSUME TypeOK, WireInv, ActInv, NEW in, TakeFrame(in), NEW h, h = Len(handled) + 1
    PROVE  /\ conn = "first" /\ sent[1].ok =>
                 /\ sent[1].ty = "hello" => Asks(h) = "hello_ok"
                 /\ sent[1].ty = "attach" => Asks(h) = "attach"
           /\ conn = "control" =>
                 Asks(h) = IF sent[h].ty = "list" THEN "sessions" ELSE "nothing"
           /\ conn = "session" =>
                 Asks(h) = IF IsCommand(sent[h]) THEN sent[h].ty ELSE "nothing"
<1>1. h \in 1..Len(sent) /\ ~BadFrame(sent[h])
  BY Takes
<1>2. Len(handled) \in Nat /\ h \in Nat
  BY DEF TypeOK
<1>3. ~\E j \in 1..h : BadFrame(sent[j])
  <2> SUFFICES ASSUME NEW j \in 1..h PROVE ~BadFrame(sent[j])
    OBVIOUS
  <2>1. j = h \/ j \in 1..Len(handled)
    BY <1>2
  <2> QED
    BY <1>1, <2>1 DEF WireInv
<1>4. CASE conn = "first"
  <2>1. h = 1
    BY <1>2, <1>4 DEF ActInv
  <2> QED
    BY <1>3, <1>4, <2>1 DEF Asks
<1>5. CASE conn = "control"
  <2>1. sent[1].ty = "hello" /\ sent[1].ok /\ h > 1 /\ h # 1
    BY <1>2, <1>5 DEF ActInv
  <2> QED
    BY <1>3, <1>5, <2>1 DEF Asks
<1>6. CASE conn = "session"
  <2>1. /\ sent[1].ty = "attach" /\ sent[1].ok /\ h > 1 /\ h # 1
        /\ \A j \in 2..Len(handled) : sent[j].ty # "close"
    BY <1>2, <1>6 DEF ActInv
  <2>2. h - 1 = Len(handled)
    BY <1>2
  <2>3. CASE IsCommand(sent[h])
    BY <1>3, <1>6, <2>1, <2>2, <2>3 DEF Asks
  <2>4. CASE ~IsCommand(sent[h])
    BY <1>3, <1>6, <2>1, <2>4 DEF Asks
  <2> QED
    BY <1>6, <2>3, <2>4
<1> QED
  BY <1>4, <1>5, <1>6

(* A frame is taken, and what it asks for is done, or the connection is    *)
(* closed without.                                                         *)
LEMMA ActsKept ==
    ASSUME TypeOK, WireInv, ActInv, NEW in, TakeFrame(in), conn # "closed",
           NEW h, h = Len(handled) + 1,
           \/ acts' = acts /\ (Asks(h) = "nothing" \/ conn' = "closed")
           \/ acts' = Append(acts, <<Asks(h), h>>) /\ Asks(h) # "nothing"
    PROVE  ActsAsAsked'
<1> DEFINE m == Len(acts)
<1>1. /\ h \in Nat /\ h >= 1 /\ Len(handled) \in Nat /\ m \in Nat /\ sent' = sent
      /\ acts \in Seq((Types \cup {"hello_ok", "sessions"}) \X Nat)
  BY DEF TypeOK, TakeFrame
<1>2. Len(handled') = h
  BY Takes
<1>3. \A i \in 1..h : Asks(i)' = Asks(i)
  <2> SUFFICES ASSUME NEW i \in 1..h PROVE Asks(i)' = Asks(i)
    OBVIOUS
  <2>1. i \in Nat /\ i >= 1
    BY <1>1
  <2> QED
    BY <1>1, <2>1, AsksStays
<1>4. /\ \A j \in 1..m : /\ acts[j][2] \in 1..Len(handled)
                         /\ acts[j][1] = Asks(acts[j][2]) /\ acts[j][1] # "nothing"
      /\ \A j, k \in 1..m : j < k => acts[j][2] < acts[k][2]
      /\ \A i \in 1..Len(handled) : Asks(i) = "nothing" \/ \E j \in 1..m : acts[j][2] = i
  BY DEF ActInv, ActsAsAsked
<1>5. \A i \in 1..h : i = h \/ i \in 1..Len(handled)
  BY <1>1
<1>6. \A j \in 1..m : acts[j][2] \in 1..h /\ acts[j][2] < h
  BY <1>1, <1>4
<1>7. ASSUME NEW n, n = Len(acts'), NEW b, b = acts',
             \A j \in 1..n : /\ b[j][2] \in 1..h
                             /\ b[j][1] = Asks(b[j][2]) /\ b[j][1] # "nothing",
             \A j, k \in 1..n : j < k => b[j][2] < b[k][2],
             \A i \in 1..h : \/ Asks(i) = "nothing"
                             \/ \E j \in 1..n : b[j][2] = i
                             \/ i = h /\ conn' = "closed"
      PROVE  ActsAsAsked'
  <2>1. ASSUME NEW j \in 1..n PROVE acts'[j][1] = Asks(acts[j][2])'
    <3>1. b[j][1] = Asks(b[j][2])
      BY <1>7
    <3>2. PICK i : i = b[j][2]
      OBVIOUS
    <3>3. Asks(acts[j][2])' = Asks(i)'
      BY <1>7, <3>2 DEF Asks
    <3> QED
      BY <1>3, <1>7, <3>1, <3>2, <3>3
  <2>2. \A i \in 1..h : \/ Asks(i)' = "nothing"
                        \/ \E j \in 1..n : b[j][2] = i
                        \/ i = h /\ conn' = "closed"
    BY <1>3, <1>7
  <2> QED
    BY <1>2, <1>7, <2>1, <2>2 DEF ActsAsAsked
<1>8. CASE acts' = acts /\ (Asks(h) = "nothing" \/ conn' = "closed")
  <2>1. \A i \in 1..h : \/ Asks(i) = "nothing"
                        \/ \E j \in 1..m : acts[j][2] = i
                        \/ i = h /\ conn' = "closed"
    BY <1>4, <1>5, <1>8
  <2>2. /\ \A j \in 1..m : /\ acts[j][2] \in 1..h
                           /\ acts[j][1] = Asks(acts[j][2]) /\ acts[j][1] # "nothing"
        /\ \A j, k \in 1..m : j < k => acts[j][2] < acts[k][2]
    BY <1>4, <1>6
  <2>3. acts = acts' /\ m = Len(acts')
    BY <1>8
  <2> QED
    BY <1>7, <2>1, <2>2, <2>3
<1>9. CASE acts' = Append(acts, <<Asks(h), h>>) /\ Asks(h) # "nothing"
  <2> DEFINE b == acts'
             n == m + 1
  <2>1. /\ Len(b) = n /\ b[n] = <<Asks(h), h>>
        /\ \A j \in 1..m : b[j] = acts[j]
    BY <1>1, <1>9
  <2>2. b[n][1] = Asks(h) /\ b[n][2] = h
    BY <2>1
  <2>3. \A j \in 1..n : j = n \/ j \in 1..m
    BY <1>1
  <2>4. h \in 1..h /\ n \in 1..n /\ \A j \in 1..m : j \in 1..n
    BY <1>1
  <2> HIDE DEF n
  <2>5. \A j \in 1..n : /\ b[j][2] \in 1..h
                        /\ b[j][1] = Asks(b[j][2]) /\ b[j][1] # "nothing"
    BY <1>4, <1>6, <1>9, <2>1, <2>2, <2>3, <2>4
  <2>6. ASSUME NEW j \in 1..n, NEW k \in 1..n, j < k PROVE b[j][2] < b[k][2]
    <3>1. j \in 1..m
      BY <1>1, <2>6 DEF n
    <3>2. CASE k = n
      BY <1>6, <2>1, <2>2, <3>1, <3>2
    <3>3. CASE k \in 1..m
      BY <1>4, <2>1, <2>6, <3>1, <3>3
    <3> QED
      BY <2>3, <3>2, <3>3
  <2>7. ASSUME NEW i \in 1..h
        PROVE  Asks(i) = "nothing" \/ \E j \in 1..n : b[j][2] = i
    <3>1. CASE i = h
      BY <2>2, <2>4, <3>1
    <3>2. CASE i \in 1..Len(handled)
      BY <1>4, <2>1, <2>4, <3>2
    <3> QED
      BY <1>5, <3>1, <3>2
  <2> QED
    BY <1>7, <2>1, <2>5, <2>6, <2>7
<1> QED
  BY <1>8, <1>9


(* Each frame is dispatched as the protocol says.                          *)
LEMMA ActStep ==
    ASSUME TypeOK, WireInv, ActInv, [Next]_vars
    PROVE  ActInv'
<1>0. Len(handled) \in Nat /\ Len(sent) \in Nat /\ Len(handled) <= Len(sent)
  <2>1. Len(handled) \in Nat /\ Len(sent) \in Nat
    BY DEF TypeOK
  <2>2. Len(handled) + 1 \in 1..(Len(sent) + 1)
    BY DEF WireInv, IsRest
  <2> QED
    BY <2>1, <2>2
<1>1. CASE TakesOne
  <2>1. PICK in \in {"first", "control", "session"} : TakeFrame(in)
    BY <1>1, TakesFrom
  <2>2. PICK h : h = Len(handled) + 1
    OBVIOUS
  <2>3. /\ h \in 1..Len(sent) /\ Taken = h /\ Frame.ty = sent[h].ty
        /\ Frame.ok = sent[h].ok /\ Len(handled') = h
    BY <2>1, <2>2, Takes
  <2>4. sent' = sent /\ conn # "closed" /\ h > 0 /\ h \in Nat
    BY <1>0, <2>1, <2>2 DEF TakeFrame
  <2>5. conn = "first" => h = 1
    BY <2>2 DEF ActInv
  <2>6. IsCommand(Frame) <=> IsCommand(sent[h])
    BY <2>3 DEF IsCommand
  <2>7. /\ conn = "first" /\ sent[1].ok =>
              /\ sent[1].ty = "hello" => Asks(h) = "hello_ok"
              /\ sent[1].ty = "attach" => Asks(h) = "attach"
        /\ conn = "control" =>
              Asks(h) = IF sent[h].ty = "list" THEN "sessions" ELSE "nothing"
        /\ conn = "session" =>
              Asks(h) = IF IsCommand(sent[h]) THEN sent[h].ty ELSE "nothing"
    BY <2>1, <2>2, AsksNext
  <2>8. \A j \in 2..h : j = h \/ j \in 2..Len(handled)
    BY <1>0, <2>2
  <2>9. ASSUME \/ acts' = acts /\ (Asks(h) = "nothing" \/ conn' = "closed")
               \/ acts' = Append(acts, <<Asks(h), h>>) /\ Asks(h) # "nothing"
        PROVE  ActsAsAsked'
    BY <2>1, <2>2, <2>4, <2>9, ActsKept
  <2>10. CASE HandleSession
    <3>1. /\ conn = "first" /\ sent[h].ty = "attach" /\ sent[h].ok
          /\ acts' = Append(acts, <<"attach", h>>) /\ conn' = "session"
      BY <2>3, <2>10 DEF HandleSession, TakeFrame, Do
    <3>2. ActsAsAsked'
      BY <2>5, <2>7, <2>9, <3>1
    <3>3. ~\E j \in 2..Len(handled') : TRUE
      BY <2>3, <2>5, <3>1
    <3> QED
      BY <2>3, <2>4, <2>5, <3>1, <3>2, <3>3 DEF ActInv
  <2>11. CASE HandleControl
    <3>1. /\ conn = "first" /\ sent[h].ty = "hello" /\ sent[h].ok
          /\ acts' = Append(acts, <<"hello_ok", h>>) /\ conn' = "control"
      BY <2>3, <2>11 DEF HandleControl, TakeFrame, Do
    <3>2. ActsAsAsked'
      BY <2>5, <2>7, <2>9, <3>1
    <3> QED
      BY <2>3, <2>4, <2>5, <3>1, <3>2 DEF ActInv
  <2>12. CASE FirstRefused \/ ReplyFails \/ ActorGone
    <3>1. acts' = acts /\ conn' = "closed"
      BY <2>12 DEF FirstRefused, ReplyFails, ActorGone, DoNothing
    <3> QED
      BY <2>9, <3>1 DEF ActInv
  <2>13. CASE ControlFrame
    <3>1. /\ conn = "control" /\ conn' = conn
          /\ \/ sent[h].ty = "list" /\ acts' = Append(acts, <<"sessions", h>>)
             \/ sent[h].ty # "list" /\ acts' = acts
      BY <2>3, <2>13 DEF ControlFrame, TakeFrame, Do, DoNothing
    <3>2. ActsAsAsked'
      BY <2>7, <2>9, <3>1
    <3>3. sent[1].ty = "hello" /\ sent[1].ok
      BY <3>1 DEF ActInv
    <3> QED
      BY <2>3, <2>4, <3>1, <3>2, <3>3 DEF ActInv
  <2>14. CASE SessionFrame
    <3>1. /\ conn = "session"
          /\ conn' = IF sent[h].ty = "close" THEN "closed" ELSE "session"
          /\ \/ IsCommand(sent[h]) /\ acts' = Append(acts, <<sent[h].ty, h>>)
             \/ ~IsCommand(sent[h]) /\ acts' = acts
      BY <2>3, <2>6, <2>14 DEF SessionFrame, TakeFrame, Do, DoNothing
    <3>2. IsCommand(sent[h]) => sent[h].ty # "nothing"
      BY DEF IsCommand
    <3>3. ActsAsAsked'
      BY <2>7, <2>9, <3>1, <3>2
    <3>4. /\ sent[1].ty = "attach" /\ sent[1].ok
          /\ \A j \in 2..Len(handled) : sent[j].ty # "close"
      BY <3>1 DEF ActInv
    <3>5. conn' = "session" => \A j \in 2..h : sent[j].ty # "close"
      BY <2>8, <3>1, <3>4
    <3> QED
      BY <2>3, <2>4, <3>1, <3>3, <3>4, <3>5 DEF ActInv
  <2> QED
    BY <1>1, <2>10, <2>11, <2>12, <2>13, <2>14 DEF TakesOne
<1>2. CASE ~TakesOne
  <2>1. /\ UNCHANGED <<handled, acts>> /\ conn' \in {conn, "closed"}
        /\ \/ sent' = sent
           \/ \E f \in Frames : sent' = Append(sent, f)
    BY <1>2 DEF TakesOne, Next, Daemon, Decode, ClientWrites, ClientCloses, Read,
                ReadEnds, NeedsMore, Rejects, Teardown, vars
  <2>2. \A i \in 1..Len(handled) : sent'[i] = sent[i]
    <3>1. \A i \in 1..Len(sent) : sent'[i] = sent[i]
      BY <2>1, AppendProperties DEF TypeOK
    <3>2. \A i \in 1..Len(handled) : i \in 1..Len(sent)
      BY <1>0
    <3> QED
      BY <3>1, <3>2
  <2>3. \A i \in 1..Len(handled) : Asks(i)' = Asks(i)
    <3> SUFFICES ASSUME NEW i \in 1..Len(handled) PROVE Asks(i)' = Asks(i)
      OBVIOUS
    <3>1. i \in Nat /\ i >= 1 /\ \A j \in 1..i : j \in 1..Len(handled)
      BY <1>0
    <3> QED
      BY <2>2, <3>1, AsksStays
  <2>4. ActsAsAsked
    BY DEF ActInv
  <2>5. ASSUME NEW j \in 1..Len(acts) PROVE acts'[j][1] = Asks(acts[j][2])'
    <3>1. PICK i : i = acts[j][2]
      OBVIOUS
    <3>2. Asks(acts[j][2])' = Asks(i)'
      BY <2>1, <3>1 DEF Asks
    <3>3. i \in 1..Len(handled) /\ acts[j][1] = Asks(i)
      BY <2>4, <3>1 DEF ActsAsAsked
    <3> QED
      BY <2>1, <2>3, <3>2, <3>3
  <2>6. ActsAsAsked'
    BY <2>1, <2>3, <2>4, <2>5 DEF ActsAsAsked
  <2>7. \A j \in 2..Len(handled) : sent'[j] = sent[j]
    <3>1. \A j \in 2..Len(handled) : j \in 1..Len(handled)
      BY <1>0
    <3> QED
      BY <2>2, <3>1
  <2>8. Len(handled) > 0 => sent'[1] = sent[1]
    BY <1>0, <2>2
  <2> QED
    BY <2>1, <2>6, <2>7, <2>8 DEF ActInv
<1> QED
  BY <1>1, <1>2

-----------------------------------------------------------------------------
(* No portioning of the stream and no frame breaks the invariant.          *)
LEMMA ConnInvariant == Spec => []ConnInv
<1>1. Init => ConnInv
  <2> SUFFICES ASSUME Init PROVE ConnInv
    OBVIOUS
  <2>1. TypeOK
    <3>1. dec \in [buf : Seq(Byte), pos : Nat] /\ dec.pos <= Len(dec.buf)
      BY DEF Init
    <3>2. \A S : <<>> \in Seq(S)
      BY EmptySeq
    <3>3. /\ sent = <<>> /\ net = <<>> /\ handled = <<>> /\ acts = <<>> /\ conn = "first"
          /\ eof \in BOOLEAN /\ dry \in BOOLEAN /\ broken \in BOOLEAN
      BY DEF Init
    <3> QED
      BY <3>1, <3>2, <3>3, Zenon DEF TypeOK
  <2>2. /\ Len(handled) = 0 /\ Len(sent) = 0 /\ Len(acts) = 0 /\ ~broken
        /\ conn = "first" /\ dry = FALSE /\ net = <<>> /\ Len(dec.buf) = 0 /\ dec.pos = 0
    BY DEF Init
  <2>3. Avail \o net = <<>>
    <3>1. Avail = <<>>
      BY <2>1, <2>2, AvailIs, EmptySeq
    <3> QED
      BY <2>2, <3>1
  <2>4. IsRest(sent, <<>>, 1)
    BY <2>2 DEF IsRest
  <2>5. WireInv
    BY <2>2, <2>3, <2>4 DEF WireInv
  <2>6. BufferInv
    BY <2>2, ConnectionAssumption DEF BufferInv, BufferBounded, Header, ConnectionAssumption
  <2>7. ActInv
    BY <2>2 DEF ActInv, ActsAsAsked
  <2> QED
    BY <2>1, <2>5, <2>6, <2>7 DEF ConnInv
<1>2. ConnInv /\ [Next]_vars => ConnInv'
  BY TypeStep, WireStep, BufferStep, ActStep DEF ConnInv
<1> QED
  BY <1>1, <1>2, PTL DEF Spec

(* FrameDecoder gives the frames back as they were written, and what is    *)
(* not taken is still there, whatever the portions of the reads and the    *)
(* moments of compaction, for any frames and any threshold.                *)
THEOREM StreamConservedCorrect == Spec => []StreamConserved
<1>1. ConnInv => StreamConserved
  <2> SUFFICES ASSUME ConnInv PROVE StreamConserved
    OBVIOUS
  <2>1. TypeOK /\ WireInv /\ sent \in Seq(Frames)
    BY DEF ConnInv, TypeOK
  <2>2. Avail \o net \in Seq(Byte) /\ IsRest(sent, Avail \o net, Len(handled) + 1)
    BY <2>1, AvailIs DEF WireInv
  <2>3. IsWireFrom(Avail \o net, Len(handled) + 1)
    BY <2>1, <2>2, RestIsWire
  <2> QED
    BY <2>1, <2>3 DEF StreamConserved, WireInv
<1> QED
  BY <1>1, ConnInvariant, PTL

(* next_frame fails for a frame that is too long or of no known type, and  *)
(* for no other, although it looks at the header only.                     *)
THEOREM RejectsCorrect == Spec => []RejectsOnlyBad
<1>1. ConnInv => RejectsOnlyBad
  BY DEF ConnInv, WireInv, RejectsOnlyBad
<1> QED
  BY <1>1, ConnInvariant, PTL

(* The decoder's buffer stays below a frame and a read.                    *)
THEOREM BufferCorrect == Spec => []BufferBounded
<1>1. ConnInv => BufferBounded
  BY DEF ConnInv, BufferInv
<1> QED
  BY <1>1, ConnInvariant, PTL

(* Dispatch, control loop and reader do what the frames ask for, each once *)
(* and in their order, and nothing else.                                   *)
THEOREM ActsCorrect == Spec => []ActsAsAsked
<1>1. ConnInv => ActsAsAsked
  BY DEF ConnInv, ActInv
<1> QED
  BY <1>1, ConnInvariant, PTL

=============================================================================
