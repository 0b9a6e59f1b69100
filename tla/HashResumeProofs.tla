-------------------------- MODULE HashResumeProofs --------------------------
(***************************************************************************)
(* Proofs about HashResume, for files of any shape, any block size,        *)
(* distance of checkpoints and options, any number of runs, and faults,    *)
(* signals, kills, writes to the file and moves of it anywhere; while no   *)
(* code of a failed block store has been taken as a length (astray).       *)
(*                                                                         *)
(* Five invariants, each inductive with those before it: Agree, on the     *)
(* digest of the file; Keys, on where what is stored and staged ends while *)
(* no write has failed; Contents, on the digests of its extents; Coverage, *)
(* on which rows cover which data while no write has failed; Lasting, on   *)
(* how far the batch and the worker are beyond what is committed.          *)
(***************************************************************************)
EXTENDS HashResume, LeastElements, FiniteSetTheorems, SequenceTheorems, TLAPS

-----------------------------------------------------------------------------
(* Blocks. *)

LEMMA BlockPos == BlockLen \in Nat /\ 0 < BlockLen
BY ShapeOK

Aligned(off) == off \in Nat /\ BlockOf(off) = off

LEMMA BlockOfIs ==
    ASSUME NEW c \in Nat
    PROVE  /\ BlockOf(c) \in Nat /\ BlockOf(c) <= c /\ c < BlockOf(c) + BlockLen
           /\ c \div BlockLen \in Nat /\ BlockOf(c) = (c \div BlockLen) * BlockLen
BY BlockPos DEF BlockOf

LEMMA Quotient ==
    ASSUME NEW k \in Nat, NEW c \in Nat, k * BlockLen <= c, c < k * BlockLen + BlockLen
    PROVE  c \div BlockLen = k
<1>1. PICK q \in Int : q = c \div BlockLen
  BY BlockPos
<1>2. q * BlockLen <= c /\ c < q * BlockLen + BlockLen
  BY BlockPos, <1>1
<1>3. ~(q <= k - 1)
  <2>. SUFFICES ASSUME q <= k - 1 PROVE FALSE
    OBVIOUS
  <2>1. q * BlockLen <= (k - 1) * BlockLen
    BY BlockPos
  <2>. QED BY BlockPos, <1>2, <2>1
<1>4. ~(k <= q - 1)
  <2>. SUFFICES ASSUME k <= q - 1 PROVE FALSE
    OBVIOUS
  <2>1. k * BlockLen <= (q - 1) * BlockLen
    BY BlockPos
  <2>. QED BY BlockPos, <1>2, <2>1
<1>. QED BY <1>1, <1>3, <1>4

\* A block starts where its number says, and the next where it ends.
LEMMA InBlock ==
    ASSUME NEW off, Aligned(off)
    PROVE  /\ \A c \in Nat : off <= c /\ c < off + BlockLen => BlockOf(c) = off
           /\ Aligned(off + BlockLen)
<1>1. PICK k \in Nat : k = off \div BlockLen /\ off = k * BlockLen
  BY BlockOfIs DEF Aligned
<1>2. ASSUME NEW c \in Nat, off <= c, c < off + BlockLen PROVE BlockOf(c) = off
  BY <1>1, <1>2, Quotient DEF BlockOf
<1>3. off + BlockLen = (k + 1) * BlockLen /\ off + BlockLen \in Nat
  BY BlockPos, <1>1
<1>4. (off + BlockLen) \div BlockLen = k + 1
  <2>1. PICK m \in Nat, c \in Nat : m = k + 1 /\ c = off + BlockLen /\ c = m * BlockLen
    BY <1>1, <1>3
  <2>2. m * BlockLen <= c /\ c < m * BlockLen + BlockLen
    BY BlockPos, <2>1
  <2>3. c \div BlockLen = m
    BY <2>2, Quotient
  <2>. QED BY <2>1, <2>3
<1>. QED BY <1>2, <1>3, <1>4 DEF Aligned, BlockOf

LEMMA Blocks ==
    /\ Aligned(0)
    /\ \A c \in Nat : Aligned(BlockOf(c))
    /\ \A off : Aligned(off) /\ off # 0 =>
          /\ off - BlockLen \in Nat /\ Aligned(off - BlockLen)
          /\ BlockOf(off - 1) = off - BlockLen
    /\ \A a, b : Aligned(a) /\ Aligned(b) /\ a < b => a + BlockLen <= b
<1>1. ASSUME NEW c \in Nat PROVE Aligned(BlockOf(c))
  <2>1. PICK k \in Nat : BlockOf(c) = k * BlockLen
    BY BlockOfIs
  <2>2. BlockOf(c) \div BlockLen = k
    BY BlockPos, <2>1, BlockOfIs, Quotient
  <2>. QED BY <2>1, <2>2, BlockOfIs DEF Aligned, BlockOf
<1>2. Aligned(0)
  <2>1. 0 \div BlockLen = 0
    BY BlockPos, Quotient
  <2>. QED BY BlockPos, <2>1 DEF Aligned, BlockOf
<1>3. ASSUME NEW a, NEW b, Aligned(a), Aligned(b), a < b PROVE a + BlockLen <= b
  <2>1. PICK k \in Nat, l \in Nat : a = k * BlockLen /\ b = l * BlockLen
    BY <1>3, BlockOfIs DEF Aligned
  <2>2. ~(l <= k)
    <3>. SUFFICES ASSUME l <= k PROVE FALSE
      OBVIOUS
    <3>1. l * BlockLen <= k * BlockLen
      BY BlockPos
    <3>. QED BY <1>3, <2>1, <3>1, BlockPos
  <2>3. (k + 1) * BlockLen <= l * BlockLen
    BY BlockPos, <2>2
  <2>. QED BY BlockPos, <2>1, <2>3
<1>4. ASSUME NEW off, Aligned(off), off # 0
      PROVE  /\ off - BlockLen \in Nat /\ Aligned(off - BlockLen)
             /\ BlockOf(off - 1) = off - BlockLen
  <2>1. off \in Nat /\ 0 < off
    BY <1>4 DEF Aligned
  <2>2. BlockLen <= off
    <3>1. 0 + BlockLen <= off
      BY <1>2, <1>3, <1>4, <2>1
    <3>. QED BY <3>1, BlockPos
  <2>3. off - BlockLen \in Nat /\ off - 1 \in Nat
    BY <2>1, <2>2, BlockPos
  <2>4. PICK b \in Nat :
           b = BlockOf(off - 1) /\ Aligned(b) /\ b <= off - 1 /\ off - 1 < b + BlockLen
    BY <1>1, <2>3, BlockOfIs
  <2>5. b + BlockLen <= off
    BY <1>3, <1>4, <2>1, <2>4
  <2>6. b = off - BlockLen
    BY <2>1, <2>4, <2>5, BlockPos
  <2>. QED BY <2>3, <2>4, <2>6
<1>. QED BY <1>1, <1>2, <1>3, <1>4

-----------------------------------------------------------------------------
(* The file. *)

IsMap(map) == /\ map \subseteq Extents /\ IsFiniteSet(map)
              /\ \A e, f \in map : e # f => End(e) <= f.from \/ End(f) <= e.from

LEMMA Files ==
    /\ \A v \in Versions :
          /\ v \in Nat \ {0} /\ Size(v) \in Nat \ {0}
          /\ \A m \in Shape[v].maps : IsMap(m)
    /\ \A v \in Versions : \A m, n \in Shape[v].maps : \A e \in m :
          \A c \in Nat : e.from <= c /\ c < End(e) =>
             \E f \in n : f.from <= c /\ c < End(f) /\ f.skip = e.skip
<1>1. ASSUME NEW v \in Versions PROVE v \in Nat \ {0}
  <2>1. PICK n : Versions = 1 .. n
    BY Zenon, ShapeOK
  <2>2. v \in 1 .. n
    BY <2>1
  <2>. QED BY <2>2
<1>2. ASSUME NEW v \in Versions
      PROVE  Size(v) \in Nat \ {0} /\ \A m \in Shape[v].maps : IsMap(m)
  BY ShapeOK DEF Size, IsMap, End
<1>3. ASSUME NEW v \in Versions, NEW m \in Shape[v].maps, NEW n \in Shape[v].maps, NEW e \in m,
             NEW c \in Nat, e.from <= c, c < End(e)
      PROVE  \E f \in n : f.from <= c /\ c < End(f) /\ f.skip = e.skip
  <2>1. e \in Extents
    BY <1>2 DEF IsMap
  <2>2. c \in e.from .. e.from + e.len - 1
    BY <1>3, <2>1 DEF Extents, End
  <2>. QED BY ShapeOK, <2>2 DEF End
<1>. QED BY <1>1, <1>2, <1>3

LEMMA ExtentIs == ASSUME NEW map, IsMap(map), NEW e \in map
                  PROVE  /\ e.from \in Nat /\ End(e) \in Nat /\ e.from < End(e)
                         /\ e.skip \in BOOLEAN
BY DEF IsMap, Extents, End

\* All maps of a version cover the same cells in the same way.
LEMMA SameCover ==
    ASSUME NEW v \in Versions, NEW m \in Shape[v].maps, NEW n \in Shape[v].maps
    PROVE  /\ \A c \in Nat : InData(m, c) = InData(n, c)
           /\ \A b \in Nat : MappedBlock(m, b) = MappedBlock(n, b)
<1>. DEFINE Covers(p, q) ==
        /\ \A c \in Nat : InData(p, c) => InData(q, c)
        /\ \A b \in Nat : MappedBlock(p, b) => MappedBlock(q, b)
<1>1. ASSUME NEW p \in Shape[v].maps, NEW q \in Shape[v].maps PROVE Covers(p, q)
  <2>1. IsMap(p) /\ IsMap(q)
    BY Files
  <2>2. ASSUME NEW c \in Nat, InData(p, c) PROVE InData(q, c)
    <3>1. PICK e \in p : ~e.skip /\ e.from <= c /\ c < End(e)
      BY <2>2 DEF InData
    <3>2. PICK f \in q : f.from <= c /\ c < End(f) /\ f.skip = e.skip
      BY <3>1, Files
    <3>. QED BY <3>1, <3>2 DEF InData
  <2>3. ASSUME NEW b \in Nat, MappedBlock(p, b) PROVE MappedBlock(q, b)
    <3>1. PICK e \in p : e.from < b + BlockLen /\ End(e) > b
      BY <2>3 DEF MappedBlock
    <3>2. PICK c \in Nat : e.from <= c /\ c < End(e) /\ b <= c /\ c < b + BlockLen
      <4>1. e.from \in Nat /\ End(e) \in Nat /\ e.from < End(e)
        BY <2>1, ExtentIs
      <4>2. CASE e.from <= b
        BY <3>1, <4>1, <4>2, BlockPos
      <4>3. CASE ~(e.from <= b)
        BY <3>1, <4>1, <4>3, BlockPos
      <4>. QED BY <4>2, <4>3
    <3>3. PICK f \in q : f.from <= c /\ c < End(f)
      BY <3>2, Files
    <3>4. f.from \in Nat /\ End(f) \in Nat
      BY <2>1, ExtentIs
    <3>5. f.from < b + BlockLen /\ End(f) > b
      BY <3>2, <3>3, <3>4, BlockPos
    <3>. QED BY <3>5 DEF MappedBlock
  <2>. QED BY <2>2, <2>3
<1>2. Covers(m, n) /\ Covers(n, m)
  BY <1>1
<1>3. ASSUME NEW c \in Nat PROVE InData(m, c) = InData(n, c)
  BY <1>2 DEF InData
<1>4. ASSUME NEW b \in Nat PROVE MappedBlock(m, b) = MappedBlock(n, b)
  BY <1>2 DEF MappedBlock
<1>. QED BY <1>3, <1>4

-----------------------------------------------------------------------------
(* A straight scan, piece by piece. *)

IsSeq(s, n) == n \in Nat /\ s = [i \in 1 .. n |-> s[i]]

IsConcat(q, s, a, t, b) ==
    IsSeq(q, a + b) /\ \A i \in 1 .. a + b : q[i] = IF i <= a THEN s[i] ELSE t[i - a]

LEMMA ConcatIs ==
    ASSUME NEW a \in Nat, NEW b \in Nat, NEW s, NEW t, IsSeq(s, a), IsSeq(t, b)
    PROVE  IsConcat(s \o t, s, a, t, b)
<1>. DEFINE S == {s[i] : i \in 1 .. a} \cup {t[i] : i \in 1 .. b}
<1>1. a \in Nat /\ b \in Nat
  BY DEF IsSeq
<1>2. s \in Seq(S) /\ Len(s) = a
  <2>1. s \in [1 .. a -> S]
    BY DEF IsSeq
  <2>. QED BY <1>1, <2>1
<1>3. t \in Seq(S) /\ Len(t) = b
  <2>1. t \in [1 .. b -> S]
    BY DEF IsSeq
  <2>. QED BY <1>1, <2>1
<1>. HIDE DEF S
<1>4. /\ s \o t \in Seq(S) /\ Len(s \o t) = a + b
      /\ \A i \in 1 .. a + b : (s \o t)[i] = IF i <= a THEN s[i] ELSE t[i - a]
  BY <1>2, <1>3, ConcatProperties, Zenon
<1>5. s \o t = [i \in 1 .. a + b |-> (s \o t)[i]]
  <2>1. \A q \in Seq(S) : q = [i \in 1 .. Len(q) |-> q[i]]
    OBVIOUS
  <2>. QED BY <1>4, <2>1
<1>. QED BY <1>1, <1>4, <1>5 DEF IsSeq, IsConcat

LEMMA NothingBefore ==
    ASSUME NEW n \in Nat, NEW s, IsSeq(s, n)
    PROVE  <<>> \o s = s
<1>1. IsSeq(<<>>, 0)
  BY DEF IsSeq
<1>2. IsConcat(<<>> \o s, <<>>, 0, s, n)
  BY <1>1, ConcatIs
<1>3. 0 + n = n /\ \A i \in 1 .. n : ~(i <= 0) /\ i - 0 = i
  OBVIOUS
<1>. QED BY <1>2, <1>3 DEF IsConcat, IsSeq

\* All of a sequence, and what is behind it.
LEMMA WholeSeq ==
    ASSUME NEW n \in Nat, NEW s, IsSeq(s, n)
    PROVE  SubSeq(s, 1, n) = s /\ SubSeq(s, n + 1, n) = <<>>
<1>. DEFINE S == {s[i] : i \in 1 .. n}
<1>1. s \in Seq(S) /\ Len(s) = n
  <2>1. s \in [1 .. n -> S]
    BY DEF IsSeq
  <2>. QED BY <2>1
<1>. HIDE DEF S
<1>2. SubSeq(s, 1, n) = s
  BY <1>1
<1>3. SubSeq(s, n + 1, n) = <<>>
  BY <1>1
<1>. QED BY <1>2, <1>3

\* What a straight scan feeds to the digest for cell c.
Fed(v, map, c) ==
    IF MappedBlock(map, BlockOf(c)) THEN Cell(v, map, c) ELSE -(RunStart(map, c) + 1)

LEMMA StraightIs ==
    ASSUME NEW v, NEW map, NEW n \in Nat
    PROVE  /\ IsSeq(Straight(v, map, n), n)
           /\ \A i \in 1 .. n : Straight(v, map, n)[i] = Fed(v, map, i - 1)
BY DEF Straight, IsSeq, Fed

\* It goes on from any offset.
GoesOn(s, n, v, map, off) ==
    IsSeq(s, n) /\ \A i \in 1 .. n : s[i] = Fed(v, map, off + i - 1)

Appends(v, map, off, s, n, m) ==
    GoesOn(s, n, v, map, off) => Straight(v, map, off) \o s = Straight(v, map, m)

LEMMA StraightOn ==
    ASSUME NEW v, NEW map, NEW off \in Nat, NEW n \in Nat, NEW s, NEW m, m = off + n
    PROVE  Appends(v, map, off, s, n, m)
<1>0. SUFFICES ASSUME NEW old, old = Straight(v, map, off), GoesOn(s, n, v, map, off)
               PROVE  old \o s = Straight(v, map, m)
  BY DEF Appends
<1>1. PICK new : m \in Nat /\ new = Straight(v, map, m)
  OBVIOUS
<1>2. /\ IsSeq(old, off) /\ \A i \in 1 .. off : old[i] = Fed(v, map, i - 1)
      /\ IsSeq(new, m) /\ \A i \in 1 .. m : new[i] = Fed(v, map, i - 1)
  BY <1>0, <1>1, StraightIs
<1>3. /\ IsSeq(old \o s, m)
      /\ \A i \in 1 .. m : (old \o s)[i] = IF i <= off THEN old[i] ELSE s[i - off]
  <2>1. IsSeq(old, off) /\ IsSeq(s, n)
    BY <1>0, <1>2 DEF GoesOn
  <2>2. IsConcat(old \o s, old, off, s, n)
    BY <2>1, ConcatIs
  <2>. QED BY <1>1, <2>2 DEF IsConcat
<1>4. ASSUME NEW i \in 1 .. m PROVE (old \o s)[i] = new[i]
  <2>1. CASE i <= off
    <3>1. i \in 1 .. off
      BY <2>1
    <3>. QED BY <1>2, <1>3, <2>1, <3>1
  <2>2. CASE ~(i <= off)
    <3>1. i - off \in 1 .. n /\ off + (i - off) - 1 = i - 1
      BY <1>1, <2>2
    <3>2. s[i - off] = Fed(v, map, i - 1)
      BY <1>0, <3>1 DEF GoesOn
    <3>. QED BY <1>2, <1>3, <2>2, <3>2
  <2>. QED BY <2>1, <2>2
<1>5. old \o s = new
  BY <1>2, <1>3, <1>4 DEF IsSeq
<1>. QED BY <1>1, <1>5

\* In whichever of its maps a version lies.
LEMMA SameStraight ==
    ASSUME NEW v \in Versions, NEW m \in Shape[v].maps, NEW n \in Shape[v].maps, NEW k \in Nat
    PROVE  Straight(v, m, k) = Straight(v, n, k)
<1>1. ASSUME NEW c \in Nat PROVE Fed(v, m, c) = Fed(v, n, c)
  <2>1. BlockOf(c) \in Nat
    BY BlockOfIs
  <2>2. MappedBlock(m, BlockOf(c)) = MappedBlock(n, BlockOf(c)) /\ InData(m, c) = InData(n, c)
    BY <2>1, SameCover
  <2>3. RunStart(m, c) = RunStart(n, c)
    <3>. DEFINE Starts(map) == {b \in {BlockOf(x) : x \in 0 .. c} :
                                   \A x \in b .. c : ~MappedBlock(map, BlockOf(x))}
    <3>1. ASSUME NEW b \in {BlockOf(x) : x \in 0 .. c}, NEW x \in b .. c
          PROVE  MappedBlock(m, BlockOf(x)) = MappedBlock(n, BlockOf(x))
      <4>1. b \in Nat
        BY BlockOfIs
      <4>2. x \in Nat
        BY <4>1
      <4>3. BlockOf(x) \in Nat
        BY <4>2, BlockOfIs
      <4>. QED BY <4>3, SameCover
    <3>2. Starts(m) = Starts(n)
      BY <3>1
    <3>. QED BY <3>2 DEF RunStart
  <2>. QED BY <2>2, <2>3 DEF Fed, Cell
<1>2. \A i \in 1 .. k : Straight(v, m, k)[i] = Straight(v, n, k)[i]
  <2>1. \A i \in 1 .. k : i - 1 \in Nat
    OBVIOUS
  <2>. QED BY <1>1, <2>1, StraightIs
<1>. QED BY <1>2, StraightIs DEF IsSeq

-----------------------------------------------------------------------------
(* Holes. *)

\* A straight scan can be at such an offset: no hole goes on over it.
Begins(map, off) ==
    Aligned(off) /\ (off = 0 \/ MappedBlock(map, off - BlockLen) \/ MappedBlock(map, off))

LEMMA NextExtent ==
    ASSUME NEW map, IsMap(map), NEW off \in Nat
    PROVE  /\ \A e \in GetExtent(map, off) :
                 e \in map /\ End(e) > off /\ \A f \in map : End(f) > off => e.from <= f.from
           /\ GetExtent(map, off) = {} => \A f \in map : ~(End(f) > off)
<1>1. ASSUME NEW g \in map, End(g) > off PROVE GetExtent(map, off) # {}
  <2>. DEFINE later == {e \in map : End(e) > off}
              T == {e.from : e \in later}
  <2>1. T \in SUBSET Nat /\ T # {}
    BY <1>1, ExtentIs
  <2>. HIDE DEF T
  <2>2. PICK x \in T : \A y \in T : x <= y
    BY <2>1, LeastNat
  <2>3. PICK e \in later : e.from = x
    BY <2>2 DEF T
  <2>4. \A f \in later : e.from <= f.from
    BY <2>2, <2>3 DEF T
  <2>. QED BY <2>3, <2>4 DEF GetExtent
<1>2. \A e \in GetExtent(map, off) :
         e \in map /\ End(e) > off /\ \A f \in map : End(f) > off => e.from <= f.from
  BY DEF GetExtent
<1>. QED BY <1>1, <1>2

LEMMA HoleRunIs ==
    ASSUME NEW map, IsMap(map), NEW off, Aligned(off), NEW size \in Nat, off < size,
           NEW h, h = HoleRun(map, size, off)
    PROVE  /\ h \in Nat
           /\ h = 0 => MappedBlock(map, off)
           /\ h > 0 => /\ \A b : Aligned(b) /\ off <= b /\ b < off + h => ~MappedBlock(map, b)
                       /\ off + h = size \/ (Aligned(off + h) /\ MappedBlock(map, off + h))
<1>. DEFINE next == GetExtent(map, off)
<1>1. off \in Nat
  BY DEF Aligned
<1>2. CASE next = {}
  <2>1. h = size - off
    BY <1>2 DEF HoleRun
  <2>2. ASSUME NEW b, Aligned(b), off <= b PROVE ~MappedBlock(map, b)
    <3>. SUFFICES ASSUME NEW f \in map, End(f) > b PROVE FALSE
      BY DEF MappedBlock
    <3>1. End(f) \in Nat /\ b \in Nat
      BY <2>2, ExtentIs DEF Aligned
    <3>2. End(f) > off
      BY <1>1, <2>2, <3>1
    <3>. QED BY <1>1, <1>2, <3>2, NextExtent
  <2>. QED BY <1>1, <2>1, <2>2
<1>3. CASE next # {}
  <2>1. PICK x : x = CHOOSE y \in next : TRUE
    OBVIOUS
  <2>2. x \in next
    BY <1>3, <2>1
  <2>3. x \in map /\ End(x) > off /\ \A f \in map : End(f) > off => x.from <= f.from
    BY <1>1, <2>2, NextExtent
  <2>4. x.from \in Nat /\ End(x) \in Nat /\ x.from < End(x)
    BY <2>3, ExtentIs
  <2>5. CASE \E y \in next : y.from >= off + BlockLen
    <3>1. x.from >= off + BlockLen
      <4>1. PICK y \in next : y.from >= off + BlockLen
        BY <2>5
      <4>2. y \in map /\ x.from \in Nat /\ x.from <= y.from /\ y.from \in Nat
        BY <1>1, <2>3, <2>4, NextExtent, ExtentIs
      <4>3. y.from <= x.from
        BY <1>1, <2>3, NextExtent
      <4>. QED BY <4>1, <4>2, <4>3
    <3>2. PICK b : b = BlockOf(x.from)
      OBVIOUS
    <3>3. b \in Nat /\ Aligned(b) /\ b <= x.from /\ x.from < b + BlockLen
      BY <2>4, <3>2, BlockOfIs, Blocks
    <3>4. h = b - off
      <4>1. h = BlockOf((CHOOSE y \in next : TRUE).from) - off
        BY <1>3, <2>5 DEF HoleRun
      <4>. QED BY <2>1, <3>2, <4>1
    <3>5. off + BlockLen <= b
      <4>1. Aligned(off + BlockLen) /\ off + BlockLen \in Nat
        BY InBlock DEF Aligned
      <4>2. b < off + BlockLen => b + BlockLen <= off + BlockLen
        BY <3>3, <4>1, Blocks
      <4>3. b + BlockLen <= off + BlockLen => b <= off
        BY <1>1, <3>3, BlockPos
      <4>4. b <= off => FALSE
        BY <1>1, <2>4, <3>1, <3>3, BlockPos
      <4>. QED BY <3>3, <4>1, <4>2, <4>3, <4>4
    <3>6. MappedBlock(map, b)
      BY <2>3, <2>4, <3>3 DEF MappedBlock
    <3>7. ASSUME NEW c, Aligned(c), off <= c, c < b PROVE ~MappedBlock(map, c)
      <4>. SUFFICES ASSUME NEW f \in map, f.from < c + BlockLen, End(f) > c PROVE FALSE
        BY DEF MappedBlock
      <4>1. End(f) \in Nat /\ f.from \in Nat /\ c \in Nat
        BY <3>7, ExtentIs DEF Aligned
      <4>2. x.from <= f.from
        BY <1>1, <2>3, <3>7, <4>1
      <4>3. c + BlockLen <= b
        BY <3>3, <3>7, Blocks
      <4>. QED BY <2>4, <3>3, <4>1, <4>2, <4>3, BlockPos
    <3>8. h \in Nat /\ h > 0 /\ off + h = b
      BY <1>1, <3>3, <3>4, <3>5, BlockPos
    <3>. QED BY <3>3, <3>6, <3>7, <3>8
  <2>6. CASE ~\E y \in next : y.from >= off + BlockLen
    <3>1. h = 0
      BY <1>3, <2>6 DEF HoleRun
    <3>2. x.from < off + BlockLen
      <4>1. ~(x.from >= off + BlockLen)
        BY <2>2, <2>6
      <4>. QED BY <1>1, <2>4, <4>1, BlockPos
    <3>3. MappedBlock(map, off)
      BY <2>3, <3>2 DEF MappedBlock
    <3>. QED BY <3>1, <3>3
  <2>. QED BY <2>5, <2>6
<1>. QED BY <1>2, <1>3

\* A hole's run starts where a straight scan finds it.
LEMMA RunStartIs ==
    ASSUME NEW map, NEW off, Begins(map, off), NEW c \in Nat, off <= c,
           \A b : Aligned(b) /\ off <= b /\ b <= c => ~MappedBlock(map, b)
    PROVE  ~MappedBlock(map, BlockOf(c)) /\ RunStart(map, c) = off
<1>. DEFINE S == {b \in {BlockOf(x) : x \in 0 .. c} :
                     \A x \in b .. c : ~MappedBlock(map, BlockOf(x))}
<1>1. off \in Nat /\ Aligned(off) /\ BlockOf(off) = off
  BY DEF Begins, Aligned
<1>2. ASSUME NEW x \in off .. c PROVE ~MappedBlock(map, BlockOf(x))
  <2>1. x \in Nat /\ off <= x /\ x <= c
    BY <1>1, <1>2
  <2>2. PICK b \in Nat : b = BlockOf(x) /\ Aligned(b) /\ b <= x /\ x < b + BlockLen
    BY <2>1, BlockOfIs, Blocks
  <2>3. off <= b
    <3>1. b < off => b + BlockLen <= off
      BY <1>1, <2>2, Blocks
    <3>. QED BY <1>1, <2>1, <2>2, <3>1, BlockPos
  <2>4. b <= c
    BY <2>1, <2>2
  <2>. QED BY <2>2, <2>3, <2>4
<1>3. off \in S
  <2>1. off \in 0 .. c
    BY <1>1
  <2>. QED BY <1>1, <1>2, <2>1
<1>4. ASSUME NEW b \in S PROVE b \in Nat /\ off <= b
  <2>1. PICK x \in 0 .. c : b = BlockOf(x)
    BY <1>4
  <2>2. b \in Nat /\ Aligned(b)
    BY <2>1, BlockOfIs, Blocks
  <2>3. ASSUME b < off PROVE FALSE
    <3>1. b + BlockLen <= off /\ off # 0
      BY <1>1, <2>2, <2>3, Blocks
    <3>2. /\ off - BlockLen \in Nat /\ BlockOf(off - 1) = off - BlockLen
      BY <1>1, <3>1, Blocks
    <3>3. off - 1 \in b .. c
      BY <1>1, <2>2, <3>1, BlockPos
    <3>4. ~MappedBlock(map, off - BlockLen)
      BY <1>4, <3>2, <3>3
    <3>5. ~MappedBlock(map, off)
      BY <1>1
    <3>. QED BY <3>1, <3>4, <3>5 DEF Begins
  <2>. QED BY <1>1, <2>2, <2>3
<1>5. S \in SUBSET Nat /\ S # {}
  BY <1>3, <1>4
<1>. HIDE DEF S
<1>6. Min(S) \in S /\ Min(S) <= off
  BY <1>3, <1>5, MinIn
<1>7. Min(S) = off
  <2>1. Min(S) \in Nat /\ off <= Min(S)
    BY <1>4, <1>6
  <2>. QED BY <1>1, <1>6, <2>1
<1>8. c \in off .. c
  BY <1>1
<1>. QED BY <1>2, <1>7, <1>8 DEF RunStart, S

-----------------------------------------------------------------------------
(* The digest on its way through the file. *)

\* The state of a straight scan at offset off.
Sound(v, map, off, csum) ==
    /\ off \in Nat /\ csum = Straight(v, map, off)
    /\ off < Size(v) => Begins(map, off)

LEMMA SoundStart ==
    ASSUME NEW v \in Versions, NEW map
    PROVE  Sound(v, map, 0, <<>>)
<1>1. Straight(v, map, 0) = <<>>
  BY DEF Straight
<1>. QED BY <1>1, Blocks DEF Sound, Begins

LEMMA SoundElsewhere ==
    ASSUME NEW v \in Versions, NEW m \in Shape[v].maps, NEW n \in Shape[v].maps,
           NEW off, NEW csum, Sound(v, m, off, csum)
    PROVE  Sound(v, n, off, csum)
<1>1. off \in Nat
  BY DEF Sound
<1>2. off < Size(v) => Begins(n, off)
  <2>1. ASSUME Begins(m, off) PROVE Begins(n, off)
    <3>1. off # 0 => off - BlockLen \in Nat
      BY <2>1, Blocks DEF Begins
    <3>. QED BY <1>1, <2>1, <3>1, SameCover DEF Begins
  <2>. QED BY <2>1 DEF Sound
<1>. QED BY <1>1, <1>2, SameStraight DEF Sound

\* Over a hole, as the map that the reader has opened shows it.
LEMMA SoundHole ==
    ASSUME NEW v \in Versions, NEW m \in Shape[v].maps, NEW n \in Shape[v].maps,
           NEW off, NEW csum, Sound(v, m, off, csum), off < Size(v),
           NEW h, h = HoleRun(n, Size(v), off), h > 0
    PROVE  Sound(v, m, off + h, csum \o [i \in 1 .. h |-> -(off + 1)])
<1>1. IsMap(n) /\ Size(v) \in Nat /\ Begins(m, off) /\ Aligned(off) /\ off \in Nat
  BY Files DEF Sound, Begins
<1>2. /\ h \in Nat
      /\ \A b : Aligned(b) /\ off <= b /\ b < off + h => ~MappedBlock(n, b)
      /\ off + h = Size(v) \/ (Aligned(off + h) /\ MappedBlock(n, off + h))
  BY <1>1, HoleRunIs
<1>3. ASSUME NEW i \in 1 .. h PROVE Fed(v, m, off + i - 1) = -(off + 1)
  <2>1. PICK c \in Nat : c = off + i - 1 /\ off <= c /\ c < off + h
    BY <1>1, <1>2
  <2>2. ASSUME NEW b, Aligned(b), off <= b, b <= c PROVE ~MappedBlock(m, b)
    <3>1. b \in Nat /\ b < off + h
      BY <1>1, <1>2, <2>1, <2>2 DEF Aligned
    <3>. QED BY <1>2, <2>2, <3>1, SameCover
  <2>3. ~MappedBlock(m, BlockOf(c)) /\ RunStart(m, c) = off
    BY <1>1, <2>1, <2>2, RunStartIs
  <2>. QED BY <2>1, <2>3 DEF Fed
<1>4. PICK s : s = [i \in 1 .. h |-> -(off + 1)]
  OBVIOUS
<1>5. GoesOn(s, h, v, m, off)
  BY <1>2, <1>3, <1>4 DEF IsSeq, GoesOn
<1>6. PICK o \in Nat, k \in Nat, end \in Nat : o = off /\ k = h /\ end = o + k
  BY <1>1, <1>2
<1>8. csum \o s = Straight(v, m, end)
  <2>1. GoesOn(s, k, v, m, o) /\ csum = Straight(v, m, o)
    BY <1>5, <1>6 DEF Sound
  <2>2. Appends(v, m, o, s, k, end)
    BY <1>6, StraightOn, Zenon
  <2>. QED BY <2>1, <2>2 DEF Appends
<1>7. off + h < Size(v) => Begins(m, off + h)
  <2>. SUFFICES ASSUME off + h < Size(v) PROVE Begins(m, off + h)
    OBVIOUS
  <2>1. off + h \in Nat /\ off + h # Size(v)
    BY <1>1, <1>2
  <2>. QED BY <1>2, <2>1, SameCover DEF Begins
<1>. QED BY <1>1, <1>2, <1>4, <1>6, <1>7, <1>8 DEF Sound

\* Over a buffer that was read or faked.
LEMMA SoundRead ==
    ASSUME NEW v \in Versions, NEW m \in Shape[v].maps, NEW n \in Shape[v].maps,
           NEW off, NEW csum, Sound(v, m, off, csum), off < Size(v),
           HoleRun(n, Size(v), off) = 0,
           NEW len \in Nat, len <= BlockLen, len = BlockLen \/ off + len = Size(v),
           NEW buf, IsSeq(buf, len), \A i \in 1 .. len : buf[i] = Cell(v, m, off + i - 1)
    PROVE  Sound(v, m, off + len, csum \o buf)
<1>1. IsMap(n) /\ Size(v) \in Nat /\ Begins(m, off) /\ Aligned(off) /\ off \in Nat
  BY Files DEF Sound, Begins
<1>2. MappedBlock(m, off)
  <2>1. MappedBlock(n, off)
    BY <1>1, HoleRunIs
  <2>. QED BY <1>1, <2>1, SameCover
<1>3. ASSUME NEW i \in 1 .. len PROVE buf[i] = Fed(v, m, off + i - 1)
  <2>1. PICK c \in Nat : c = off + i - 1 /\ off <= c /\ c < off + BlockLen
    BY <1>1, BlockPos
  <2>2. BlockOf(c) = off
    BY <1>1, <2>1, InBlock
  <2>. QED BY <1>2, <2>1, <2>2 DEF Fed
<1>4. PICK o \in Nat, end \in Nat : o = off /\ end = o + len
  BY <1>1
<1>7. csum \o buf = Straight(v, m, end)
  <2>1. GoesOn(buf, len, v, m, o) /\ csum = Straight(v, m, o)
    BY <1>3, <1>4 DEF GoesOn, Sound
  <2>2. Appends(v, m, o, buf, len, end)
    BY <1>4, StraightOn, Zenon
  <2>. QED BY <2>1, <2>2 DEF Appends
<1>5. off + len < Size(v) => Begins(m, off + len)
  <2>. SUFFICES ASSUME off + len < Size(v) PROVE Begins(m, off + len)
    OBVIOUS
  <2>1. off + len \in Nat /\ off + len # Size(v)
    BY <1>1
  <2>2. Aligned(off + BlockLen) /\ len = BlockLen
    BY <1>1, <2>1, InBlock
  <2>3. (off + BlockLen) - BlockLen = off
    BY <1>1, BlockPos
  <2>. QED BY <1>2, <2>2, <2>3 DEF Begins
<1>6. off + len \in Nat
  BY <1>1
<1>. QED BY <1>4, <1>5, <1>6, <1>7 DEF Sound

-----------------------------------------------------------------------------
(* The file, its rows and its reader agree. *)

World(w) == /\ w = [ver |-> w.ver, map |-> w.map]
            /\ w.ver \in Versions /\ w.map \in Shape[w.ver].maps

IsFile(d) == d = [row |-> d.row, blocks |-> d.blocks, extents |-> d.extents, ck |-> d.ck]

\* What the hashfile says of the version on disk is what a straight scan of it
\* would say; it says nothing of versions to come.
Right(d, w) ==
    /\ IsFile(d)
    /\ d.row = [mtime |-> d.row.mtime, digest |-> d.row.digest, mode |-> d.row.mode]
    /\ d.row.mtime \in Nat /\ d.row.mtime <= w.ver
    /\ d.ck.mtime \in Nat /\ d.ck.mtime <= w.ver
    /\ d.row.digest # <<>> /\ d.row.mtime = w.ver =>
          d.row.digest = Straight(w.ver, w.map, Size(w.ver))
    /\ d.ck.mtime = w.ver => Sound(w.ver, w.map, d.ck.off, d.ck.csum)

Before == {"resume", "store", "open"}
Inside == {"read", "save", "leave", "final"}

IsContext(c) ==
    c = [off |-> c.off, csum |-> c.csum, ext_csum |-> c.ext_csum, map |-> c.map,
         mtime |-> c.mtime, blocks |-> c.blocks, extents |-> c.extents,
         left |-> c.left, last |-> c.last, on |-> c.on, resume |-> c.resume]
IsRun(r) == r = [mode |-> r.mode, stop |-> r.stop, lost |-> r.lost]

\* So does the digest in progress, unless the file was written since.
Reader ==
    /\ IsContext(ctx)
    /\ pc \in Before => ctx.off = 0 /\ ctx.csum = <<>> /\ ctx.left = <<>>
    /\ pc \in {"resume", "store"} => ctx.resume = NoCheckpoint
    /\ pc \in Before \cup Inside => ctx.mtime \in Nat /\ ctx.mtime <= disk.ver
    /\ pc = "open" /\ ctx.mtime = disk.ver =>
          Sound(disk.ver, disk.map, ctx.resume.off, ctx.resume.csum)
    /\ pc \in Inside /\ ctx.mtime = disk.ver =>
          /\ ctx.map \in Shape[disk.ver].maps /\ ctx.left = <<>>
          /\ Sound(disk.ver, disk.map, ctx.off, ctx.csum)

\* And the row that it goes to is of the version that is read.
Writer ==
    /\ IsRun(run)
    /\ pc = "list" => batch = db
    /\ pc \in (Before \ {"store"}) \cup Inside /\ ~run.lost => batch.row.mtime = ctx.mtime

Agree == World(disk) /\ Right(db, disk) /\ Right(batch, disk) /\ Reader /\ Writer

LEMMA InitAgree == Init => Agree
<1>. SUFFICES ASSUME Init PROVE Agree
  OBVIOUS
<1>1. World(disk)
  BY DEF Init, World
<1>2. Right(NoFile, disk)
  <2>1. disk.ver \in Nat \ {0}
    BY <1>1, Files DEF World
  <2>. QED BY <2>1 DEF Right, IsFile, NoFile, NoRow, NoCheckpoint
<1>. QED BY <1>1, <1>2
         DEF Init, Agree, Reader, Writer, IsContext, IsRun, Down, Idle, Before, Inside

LEMMA RightSame ==
    ASSUME NEW w, NEW d, Right(d, w), NEW z, IsFile(z), z.row = d.row, z.ck = d.ck
    PROVE  Right(z, w)
BY DEF Right

LEMMA RightElsewhere ==
    ASSUME NEW w, World(w), NEW d, Right(d, w), NEW c, c.mtime \in Nat, c.mtime <= w.ver,
           c.mtime = w.ver => Sound(w.ver, w.map, c.off, c.csum)
    PROVE  Right([d EXCEPT !.ck = c], w) /\ [d EXCEPT !.ck = c].row = d.row
<1>1. PICK z : z = [d EXCEPT !.ck = c]
  OBVIOUS
<1>2. IsFile(z) /\ z.row = d.row /\ z.ck = c
  BY <1>1 DEF Right, IsFile
<1>3. Right(z, w)
  BY <1>2 DEF Right
<1>. QED BY <1>1, <1>2, <1>3

\* What a unit makes of rows that are right.
LEMMA UnitsRight ==
    ASSUME NEW w, World(w), NEW d, Right(d, w)
    PROVE  /\ Right(NoFile, w)
           /\ \A t \in Nat : t <= w.ver => /\ Right([NoFile EXCEPT !.row.mtime = t], w)
                                           /\ [NoFile EXCEPT !.row.mtime = t].row.mtime = t
           /\ \A off : Right(RemoveFrom(d, off), w) /\ RemoveFrom(d, off).row = d.row
           /\ \A off : \A p \in PartlyRemoved(d, off) : Right(p, w) /\ p.row = d.row
           /\ Right(RemoveCheckpoint(d), w) /\ RemoveCheckpoint(d).row = d.row
           /\ Right(Prune(d), w)
           /\ \A bs, es : Right(Stored(d, bs, es), w) /\ Stored(d, bs, es).row = d.row
<1>1. w.ver \in Nat \ {0} /\ IsFile(d)
  BY Files DEF World, Right
<1>2. Right(NoFile, w)
  BY <1>1 DEF Right, IsFile, NoFile, NoRow, NoCheckpoint
<1>3. ASSUME NEW t \in Nat, t <= w.ver, NEW z, z = [NoFile EXCEPT !.row.mtime = t]
      PROVE  Right(z, w) /\ z.row.mtime = t
  <2>1. PICK r : r = [NoRow EXCEPT !.mtime = t]
    OBVIOUS
  <2>2. /\ r.mtime = t /\ r.digest = <<>>
        /\ r = [mtime |-> r.mtime, digest |-> r.digest, mode |-> r.mode]
    BY <2>1 DEF NoRow
  <2>3. z = [NoFile EXCEPT !.row = r]
    BY <1>3, <2>1 DEF NoFile
  <2>4. IsFile(NoFile) /\ NoFile.ck.mtime = 0
    BY DEF IsFile, NoFile, NoCheckpoint
  <2>5. IsFile(z) /\ z.row = r /\ z.ck = NoFile.ck
    BY <2>3, <2>4 DEF IsFile
  <2>. QED BY <1>1, <1>3, <2>2, <2>4, <2>5 DEF Right
<1>4. ASSUME NEW off, NEW z, z = RemoveFrom(d, off) PROVE Right(z, w) /\ z.row = d.row
  <2>1. IsFile(z) /\ z.row = d.row /\ z.ck = d.ck
    BY <1>1, <1>4 DEF RemoveFrom, IsFile
  <2>. QED BY <2>1, RightSame
<1>5. ASSUME NEW off, NEW p \in PartlyRemoved(d, off) PROVE Right(p, w) /\ p.row = d.row
  <2>1. CASE p = d
    BY <2>1
  <2>2. CASE p = [RemoveFrom(d, off) EXCEPT !.extents = d.extents]
    <3>1. PICK r : r = RemoveFrom(d, off) /\ Right(r, w) /\ r.row = d.row
      BY <1>4
    <3>2. p = [r EXCEPT !.extents = d.extents] /\ IsFile(r)
      BY <2>2, <3>1 DEF Right
    <3>3. IsFile(p) /\ p.row = r.row /\ p.ck = r.ck
      BY <3>2 DEF IsFile
    <3>. QED BY <3>1, <3>3, RightSame
  <2>. QED BY <2>1, <2>2 DEF PartlyRemoved
<1>6. ASSUME NEW z, z = RemoveCheckpoint(d) PROVE Right(z, w) /\ z.row = d.row
  <2>1. NoCheckpoint.mtime = 0
    BY DEF NoCheckpoint
  <2>2. IsFile(z) /\ z.row = d.row /\ z.ck = NoCheckpoint
    BY <1>1, <1>6 DEF RemoveCheckpoint, IsFile
  <2>. QED BY <1>1, <2>1, <2>2 DEF Right
<1>7. Right(Prune(d), w)
  BY <1>2 DEF Prune
<1>8. ASSUME NEW bs, NEW es, NEW z, z = Stored(d, bs, es) PROVE Right(z, w) /\ z.row = d.row
  <2>1. IsFile(z) /\ z.row = d.row /\ z.ck = d.ck
    BY <1>1, <1>8 DEF Stored, IsFile
  <2>. QED BY <2>1, RightSame
<1>9. \A t \in Nat : t <= w.ver => /\ Right([NoFile EXCEPT !.row.mtime = t], w)
                                 /\ [NoFile EXCEPT !.row.mtime = t].row.mtime = t
  BY <1>3
<1>. QED BY <1>2, <1>4, <1>5, <1>6, <1>7, <1>8, <1>9

\* Writing the file makes all of it history, moving it changes nothing.
LEMMA RightAfter ==
    ASSUME NEW w, World(w), NEW u, World(u), u.ver > w.ver \/ u.ver = w.ver, NEW d, Right(d, w)
    PROVE  Right(d, u)
<1>1. w.ver \in Nat /\ u.ver \in Nat
  BY Files DEF World
<1>2. CASE u.ver > w.ver
  BY <1>1, <1>2 DEF Right
<1>3. CASE u.ver = w.ver
  <2>1. Size(w.ver) \in Nat
    BY Files DEF World
  <2>2. Straight(w.ver, w.map, Size(w.ver)) = Straight(u.ver, u.map, Size(u.ver))
    BY <1>3, <2>1, SameStraight DEF World
  <2>3. d.ck.mtime = w.ver => Sound(u.ver, u.map, d.ck.off, d.ck.csum)
    BY <1>3, SoundElsewhere DEF World, Right
  <2>. QED BY <1>3, <2>2, <2>3 DEF Right
<1>. QED BY <1>2, <1>3

-----------------------------------------------------------------------------
(* One step. *)

\* A read that starts at a block is full, or ends with the file.
LEMMA NotCapped == Aligned(ctx.off) => ~Capped
<1>. SUFFICES ASSUME Aligned(ctx.off) PROVE BlockOf(ctx.off + BlockLen - 1) = ctx.off
  BY DEF Capped, NextBlock, Aligned
<1>1. PICK c \in Nat : c = ctx.off + BlockLen - 1 /\ ctx.off <= c /\ c < ctx.off + BlockLen
  BY BlockPos DEF Aligned
<1>. QED BY <1>1, InBlock

\* The least of some numbers of which one is 0 at most, and a buffer's length.
LEMMA BufferLenIs ==
    ASSUME ctx.off \in Nat, FileSize \in Nat, ctx.off < FileSize, Size(disk.ver) = FileSize,
           ctx.left = <<>>, ~Capped
    PROVE  /\ BufferLen \in Nat /\ BufferLen <= BlockLen
           /\ BufferLen = BlockLen \/ ctx.off + BufferLen = FileSize
<1>1. PICK left \in Nat : left = FileSize - ctx.off
  OBVIOUS
<1>2. PICK m : m = Min({BlockLen, left, left})
  OBVIOUS
<1>3. m \in {BlockLen, left, left} /\ m <= BlockLen
  <2>1. {BlockLen, left, left} \in SUBSET Nat /\ {BlockLen, left, left} # {}
    BY <1>1, BlockPos
  <2>. QED BY <1>2, <2>1, MinIn
<1>4. m \in Nat
  BY <1>1, <1>3, BlockPos
<1>5. Max({0, m}) = m
  <2>1. {0, m} \in SUBSET (0 .. m) /\ {0, m} # {}
    BY <1>4
  <2>2. Max({0, m}) \in {0, m} /\ m <= Max({0, m})
    BY <1>4, <2>1, MaxIn
  <2>. QED BY <1>4, <2>2
<1>6. CASE Faked
  BY <1>6, BlockPos DEF BufferLen
<1>7. CASE ~Faked
  <2>1. BufferLen = m
    BY <1>1, <1>2, <1>5, <1>7 DEF BufferLen, ReadCap
  <2>. QED BY <1>1, <1>3, <1>4, <2>1
<1>. QED BY <1>6, <1>7

LEMMA BufferSeq ==
    ASSUME ctx.off \in Nat, BufferLen \in Nat, ctx.left = <<>>
    PROVE  IsSeq(Buffer, BufferLen)
<1>1. CASE Faked
  BY <1>1 DEF BufferLen, Buffer, IsSeq
<1>2. CASE ~Faked
  <2>1. PICK o \in Nat, n \in Nat : o = ctx.off /\ n = BufferLen /\ o + n - o = n
    OBVIOUS
  <2>2. PICK s : s = Cells(disk.ver, disk.map, o, o + n)
    OBVIOUS
  <2>3. Buffer = <<>> \o s
    BY <1>2, <2>1, <2>2 DEF Buffer
  <2>4. s = [i \in 1 .. n |-> Cell(disk.ver, disk.map, o + i - 1)]
    BY <2>1, <2>2 DEF Cells
  <2>5. IsSeq(s, n)
    BY <2>1, <2>4 DEF IsSeq
  <2>. QED BY <2>1, <2>3, <2>5, NothingBefore
<1>. QED BY <1>1, <1>2

\* What a buffer holds, read or faked.
LEMMA BufferIs ==
    ASSUME World(disk), ctx.mtime = disk.ver, ctx.map \in Shape[disk.ver].maps,
           ctx.off \in Nat, ctx.off < FileSize, ctx.left = <<>>, ~Capped
    PROVE  /\ IsSeq(Buffer, BufferLen)
           /\ \A i \in 1 .. BufferLen : Buffer[i] = Cell(disk.ver, disk.map, ctx.off + i - 1)
<1>1. FileSize \in Nat /\ Size(disk.ver) = FileSize
  BY Files DEF World, FileSize
<1>2. BufferLen \in Nat
  BY <1>1, BufferLenIs
<1>3. CASE Faked
  <2>1. BufferLen = BlockLen /\ Buffer = [i \in 1 .. BlockLen |-> 0]
    BY <1>3 DEF BufferLen, Buffer
  <2>2. ASSUME NEW i \in 1 .. BlockLen
        PROVE  Cell(disk.ver, disk.map, ctx.off + i - 1) = 0
    <3>1. PICK c \in Nat : c = ctx.off + i - 1 /\ ctx.off <= c /\ c < ctx.off + BlockLen
      BY BlockPos
    <3>2. ~InData(ctx.map, c)
      <4>. SUFFICES ASSUME NEW e \in ctx.map, ~e.skip, e.from <= c, c < End(e) PROVE FALSE
        BY DEF InData
      <4>1. e.from \in Nat /\ End(e) \in Nat
        BY Files, ExtentIs DEF World
      <4>2. e.from < ctx.off + BlockLen /\ End(e) > ctx.off
        BY <3>1, <4>1, BlockPos
      <4>. QED BY <1>3, <4>2 DEF Faked, BlockIgnored
    <3>3. ~InData(disk.map, c)
      BY <3>2, SameCover DEF World
    <3>. QED BY <3>1, <3>3 DEF Cell
  <2>. QED BY <2>1, <2>2, BlockPos DEF IsSeq
<1>4. CASE ~Faked
  <2>1. PICK o, n, buf :
           /\ o \in Nat /\ n \in Nat /\ o = ctx.off
           /\ n = BufferLen /\ buf = Buffer
           /\ buf = <<>> \o Cells(disk.ver, disk.map, o, o + n)
    BY <1>2, <1>4 DEF Buffer
  <2>2. o + n - o = n
    BY <2>1
  <2>3. PICK s : s = Cells(disk.ver, disk.map, o, o + n)
    OBVIOUS
  <2>4. s = [i \in 1 .. n |-> Cell(disk.ver, disk.map, o + i - 1)]
    BY <2>1, <2>2, <2>3 DEF Cells
  <2>5. IsSeq(s, n)
    BY <2>1, <2>4 DEF IsSeq
  <2>6. buf = s
    BY <2>1, <2>3, <2>5, NothingBefore
  <2>. QED BY <2>1, <2>4, <2>5, <2>6
<1>. QED BY <1>3, <1>4

LEMMA Rights ==
    ASSUME Agree, UNCHANGED disk, Right(db', disk), Right(batch', disk)
    PROVE  World(disk)' /\ Right(db, disk)' /\ Right(batch, disk)'
BY DEF Agree

LEMMA Units ==
    ASSUME Agree, NEW d, Right(d, disk)
    PROVE  /\ UnitEnd(d) \/ UnitFlush(d) =>
                 /\ Right(db', disk) /\ Right(batch', disk)
                 /\ ~run.lost /\ batch' = d /\ run' = run
           /\ UnitFails => /\ Right(db', disk) /\ Right(batch', disk)
                           /\ batch' = batch /\ run' = run
           /\ BatchLost => /\ Right(db', disk) /\ Right(batch', disk)
                           /\ IsRun(run') /\ run'.lost
<1>1. ASSUME BatchLost PROVE IsRun(run') /\ run'.lost
  BY <1>1 DEF BatchLost, Agree, Writer, IsRun
<1>. QED BY <1>1 DEF Agree, UnitEnd, UnitFlush, UnitFails, BatchLost

\* The listing, up to the worker that opens the file.
LEMMA ListingAgree == Agree /\ (StartRun \/ Listing) => Agree'
<1>. SUFFICES ASSUME Agree, StartRun \/ Listing PROVE Agree'
  OBVIOUS
<1>0. UNCHANGED disk /\ World(disk) /\ disk.ver \in Nat /\ Right(db, disk) /\ Right(batch, disk)
  BY Files
     DEF Agree, World, StartRun, Listing, ListFile, TakeCheckpoint, RefuseCheckpoint, StoreRow
<1>1. CASE StartRun
  <2>1. Right(db', disk) /\ Right(batch', disk)
    BY <1>0, <1>1, UnitsRight DEF StartRun
  <2>2. pc' = "list" /\ ctx' = Idle /\ batch' = db' /\ IsRun(run')
    BY <1>1 DEF StartRun, Down, IsRun
  <2>3. Reader'
    BY <2>2 DEF Reader, Idle, IsContext, Before, Inside
  <2>4. Writer'
    BY <2>2 DEF Writer, Before, Inside
  <2>. QED BY <1>0, <2>1, <2>3, <2>4, Rights DEF Agree
<1>2. CASE ListFile
  <2>1. /\ UNCHANGED <<db, batch, run>> /\ batch = db /\ pc' \in {"done", "resume", "store"}
        /\ pc' = "resume" => db.row.mtime = disk.ver
    BY <1>2 DEF ListFile, Agree, Writer, Unchanged
  <2>2. IsContext(ctx') /\ ctx'.off = 0 /\ ctx'.csum = <<>> /\ ctx'.left = <<>>
        /\ ctx'.resume = NoCheckpoint /\ ctx'.mtime = disk.ver
    BY <1>2 DEF ListFile, Idle, IsContext
  <2>3. Reader'
    BY <1>0, <2>1, <2>2 DEF Reader, Before, Inside
  <2>4. Writer'
    BY <2>1, <2>2 DEF Agree, Writer, Before, Inside
  <2>. QED BY <1>0, <2>1, <2>3, <2>4, Rights DEF Agree
<1>3. CASE TakeCheckpoint
  <2>1. /\ pc = "resume" /\ pc' = "open" /\ ctx.mtime \in Nat /\ ctx.mtime <= disk.ver
        /\ ctx.off = 0 /\ ctx.csum = <<>> /\ ctx.left = <<>>
        /\ batch.ck.mtime = ctx.mtime
        /\ ~run.lost => batch.row.mtime = ctx.mtime
    BY <1>3 DEF TakeCheckpoint, Usable, Agree, Reader, Writer, Before, Inside
  <2>2. /\ Right(db', disk) /\ Right(batch', disk) /\ IsRun(run')
        /\ ~run'.lost => ~run.lost /\ batch'.row = batch.row
    <3>1. CASE UnitEnd(RemoveFrom(batch, batch.ck.off))
      BY <1>0, <3>1, Units, UnitsRight DEF Agree, Writer
    <3>2. CASE UnitEndWithout(PartlyRemoved(batch, batch.ck.off))
      <4>1. PICK p \in PartlyRemoved(batch, batch.ck.off) :
               ~run.lost /\ batch' = p /\ db' \in {db, p} /\ run' = run
        BY <3>2 DEF UnitEndWithout
      <4>2. Right(p, disk) /\ p.row = batch.row
        BY <1>0, <4>1, UnitsRight
      <4>. QED BY <1>0, <4>1, <4>2 DEF Agree, Writer
    <3>3. CASE BatchLost
      BY <1>0, <3>3, Units
    <3>. QED BY <1>3, <3>1, <3>2, <3>3 DEF TakeCheckpoint
  <2>3. IsContext(ctx') /\ ctx'.off = 0 /\ ctx'.csum = <<>> /\ ctx'.left = <<>>
        /\ ctx'.resume = batch.ck /\ ctx'.mtime = ctx.mtime
    BY <1>3, <2>1 DEF TakeCheckpoint, Agree, Reader, IsContext
  <2>4. Reader'
    BY <1>0, <2>1, <2>3 DEF Reader, Before, Inside, Right
  <2>5. Writer'
    BY <2>1, <2>2, <2>3 DEF Writer, Before, Inside
  <2>. QED BY <1>0, <2>2, <2>4, <2>5, Rights DEF Agree
<1>4. CASE RefuseCheckpoint
  <2>1. pc = "resume" /\ pc' = "store" /\ ctx' = ctx
    BY <1>4 DEF RefuseCheckpoint
  <2>2. Right(db', disk) /\ Right(batch', disk) /\ IsRun(run')
    <3>1. CASE UnitEnd(RemoveCheckpoint(batch))
      BY <1>0, <3>1, Units, UnitsRight DEF Agree, Writer
    <3>2. CASE UnitFails \/ BatchLost
      BY <1>0, <3>2, Units DEF Agree, Writer
    <3>. QED BY <1>4, <3>1, <3>2 DEF RefuseCheckpoint
  <2>3. Reader'
    BY <1>0, <2>1 DEF Agree, Reader, Before, Inside
  <2>4. Writer'
    BY <2>1, <2>2 DEF Writer, Before, Inside
  <2>. QED BY <1>0, <2>2, <2>3, <2>4, Rights DEF Agree
<1>5. CASE StoreRow
  <2>1. pc = "store" /\ pc' \in {"open", "done"} /\ ctx' = ctx
        /\ ctx.mtime \in Nat /\ ctx.mtime <= disk.ver /\ ctx.resume = NoCheckpoint
    BY <1>5 DEF StoreRow, Agree, Reader, Before, Inside
  <2>2. /\ Right(db', disk) /\ Right(batch', disk) /\ IsRun(run')
        /\ pc' = "open" => batch'.row.mtime = ctx.mtime
    <3>1. CASE UnitEnd([NoFile EXCEPT !.row.mtime = ctx.mtime]) /\ pc' = "open"
      BY <1>0, <2>1, <3>1, Units, UnitsRight DEF Agree, Writer
    <3>2. CASE (UnitFails \/ BatchLost) /\ pc' = "done"
      BY <1>0, <3>2, Units DEF Agree, Writer
    <3>. QED BY <1>5, <3>1, <3>2 DEF StoreRow
  <2>3. Sound(disk.ver, disk.map, NoCheckpoint.off, NoCheckpoint.csum)
    BY <1>0, SoundStart DEF NoCheckpoint, World
  <2>4. Reader'
    BY <1>0, <2>1, <2>3 DEF Agree, Reader, Before, Inside
  <2>5. Writer'
    BY <2>1, <2>2 DEF Writer, Before, Inside
  <2>. QED BY <1>0, <2>2, <2>4, <2>5, Rights DEF Agree
<1>. QED BY <1>1, <1>2, <1>3, <1>4, <1>5 DEF Listing

\* The worker, up to the end of the file.
Working ==
    \/ SkipFile \/ OpenFile \/ Decline \/ SkipHole \/ ReadBuffer \/ ReadToHole
    \/ FlushBlocks \/ FlushFails

LEMMA WorkerAgree == Agree /\ Working => Agree'
<1>. SUFFICES ASSUME Agree, Working PROVE Agree'
  OBVIOUS
<1>0. UNCHANGED disk /\ World(disk) /\ disk.ver \in Nat /\ Right(db, disk) /\ Right(batch, disk)
  BY Files DEF Agree, World, Working, SkipFile, OpenFile, Decline, SkipHole, ReadBuffer,
               ReadToHole, FlushBlocks, FlushFails
<1>1. CASE SkipFile
  <2>1. pc' = "done" /\ ctx' = ctx
    BY <1>1 DEF SkipFile
  <2>2. Right(db', disk) /\ Right(batch', disk) /\ IsRun(run')
    BY <1>0, <1>1, Units DEF SkipFile, Agree, Writer
  <2>3. Reader'
    BY <1>0, <2>1 DEF Agree, Reader, Before, Inside
  <2>4. Writer'
    BY <2>1, <2>2 DEF Writer, Before, Inside
  <2>. QED BY <1>0, <2>2, <2>3, <2>4, Rights DEF Agree
<1>2. CASE OpenFile
  <2>1. pc = "open" /\ pc' = "read" /\ UNCHANGED <<db, batch, run>>
    BY <1>2 DEF OpenFile
  <2>2. /\ IsContext(ctx') /\ ctx'.mtime = ctx.mtime /\ ctx'.map = disk.map
        /\ ctx'.off = ctx.resume.off /\ ctx'.csum = ctx.resume.csum
        /\ ctx'.left = <<>>
    BY <1>2 DEF OpenFile, Agree, Reader, IsContext, Before
  <2>3. Reader'
    BY <1>0, <2>1, <2>2 DEF Agree, Reader, Before, Inside, World
  <2>4. Writer'
    BY <2>1, <2>2 DEF Agree, Writer, Before, Inside
  <2>. QED BY <1>0, <2>1, <2>3, <2>4, Rights DEF Agree
<1>3. CASE Decline
  <2>1. pc = "open" /\ pc' = "read" /\ ~run.lost /\ ctx.off = 0 /\ ctx.csum = <<>>
        /\ ctx.left = <<>> /\ batch.row.mtime = ctx.mtime
        /\ ctx.mtime \in Nat /\ ctx.mtime <= disk.ver
    BY <1>3 DEF Decline, Agree, Reader, Writer, Before, Inside
  <2>2. /\ IsContext(ctx') /\ ctx'.mtime = ctx.mtime /\ ctx'.map = disk.map
        /\ ctx'.off = 0 /\ ctx'.csum = <<>> /\ ctx'.left = <<>>
    BY <1>3, <2>1 DEF Decline, Agree, Reader, IsContext
  <2>3. /\ Right(db', disk) /\ Right(batch', disk) /\ IsRun(run')
        /\ ~run'.lost => batch'.row = batch.row
    <3>1. PICK d : d = RemoveFrom(batch, 0) /\ Right(d, disk) /\ d.row = batch.row
      BY <1>0, UnitsRight
    <3>5. ASSUME NEW x \in PartlyRemoved(batch, 0) PROVE Right(x, disk) /\ x.row = batch.row
      BY <1>0, UnitsRight
    <3>2. CASE UnitEnd(RemoveCheckpoint(d))
      BY <1>0, <3>1, <3>2, Units, UnitsRight DEF Agree, Writer
    <3>3. CASE UnitEndWithout({d, batch}
                 \cup {RemoveCheckpoint(x) : x \in PartlyRemoved(batch, 0)})
      <4>1. PICK p \in {d, batch} \cup {RemoveCheckpoint(x) : x \in PartlyRemoved(batch, 0)} :
               batch' = p /\ db' \in {db, p} /\ run' = run
        BY <3>3 DEF UnitEndWithout
      <4>2. Right(p, disk) /\ p.row = batch.row
        <5>1. CASE p \in {d, batch}
          BY <1>0, <3>1, <5>1
        <5>2. CASE p \notin {d, batch}
          <6>1. PICK x \in PartlyRemoved(batch, 0) : p = RemoveCheckpoint(x)
            BY <4>1, <5>2
          <6>2. Right(x, disk) /\ x.row = batch.row
            BY <3>5, <6>1
          <6>. QED BY <1>0, <6>1, <6>2, UnitsRight
        <5>. QED BY <5>1, <5>2
      <4>. QED BY <1>0, <4>1, <4>2 DEF Agree, Writer
    <3>4. CASE BatchLost
      BY <1>0, <3>4, Units
    <3>. QED BY <1>3, <3>1, <3>2, <3>3, <3>4 DEF Decline
  <2>4. Sound(disk.ver, disk.map, 0, <<>>)
    BY <1>0, SoundStart DEF World
  <2>5. Reader'
    BY <1>0, <2>1, <2>2, <2>4 DEF Reader, Before, Inside, World
  <2>6. Writer'
    BY <2>1, <2>2, <2>3 DEF Writer, Before, Inside
  <2>. QED BY <1>0, <2>3, <2>5, <2>6, Rights DEF Agree
<1>4. CASE SkipHole
  <2>1. pc = "read" /\ pc' = "read" /\ UNCHANGED <<db, batch, run>>
        /\ ctx.off < FileSize /\ Hole > 0 /\ ctx.mtime \in Nat /\ ctx.mtime <= disk.ver
    BY <1>4 DEF SkipHole, Agree, Reader, Before, Inside
  <2>2. PICK h, gap : h = Hole /\ gap = [i \in 1 .. h |-> -(ctx.off + 1)]
    OBVIOUS
  <2>3. /\ IsContext(ctx') /\ ctx'.mtime = ctx.mtime /\ ctx'.map = ctx.map
        /\ ctx'.off = ctx.off + h /\ ctx'.csum = ctx.csum \o gap /\ ctx'.left = ctx.left
    BY <1>4, <2>2 DEF SkipHole, Agree, Reader, IsContext
  <2>4. ASSUME ctx.mtime = disk.ver
        PROVE  /\ ctx.map \in Shape[disk.ver].maps /\ ctx.left = <<>>
               /\ Sound(disk.ver, disk.map, ctx.off + h, ctx.csum \o gap)
    <3>1. ctx.map \in Shape[disk.ver].maps /\ ctx.left = <<>>
          /\ Sound(disk.ver, disk.map, ctx.off, ctx.csum)
      BY <2>1, <2>4 DEF Agree, Reader, Inside
    <3>2. ctx.off < Size(disk.ver) /\ h = HoleRun(ctx.map, Size(disk.ver), ctx.off) /\ h > 0
      BY <2>1, <2>2, <2>4 DEF Hole, FileSize
    <3>. QED BY <1>0, <2>2, <3>1, <3>2, SoundHole DEF World
  <2>5. Reader'
    BY <1>0, <2>1, <2>3, <2>4 DEF Reader, Before, Inside
  <2>6. Writer'
    BY <2>1, <2>3 DEF Agree, Writer, Before, Inside
  <2>. QED BY <1>0, <2>1, <2>5, <2>6, Rights DEF Agree
<1>5. CASE ReadBuffer
  <2>1. /\ pc = "read" /\ pc' \in {"read", "save", "leave", "final", "done"}
        /\ UNCHANGED <<db, batch, run>>
        /\ ctx.off < FileSize /\ Hole = 0 /\ ctx.mtime \in Nat /\ ctx.mtime <= disk.ver
    BY <1>5 DEF ReadBuffer, AtData, AfterBuffer, Agree, Reader, Before, Inside
  <2>2. PICK n, buf : n = BufferLen /\ buf = Buffer
    OBVIOUS
  <2>3. /\ IsContext(ctx') /\ ctx'.mtime = ctx.mtime /\ ctx'.map = ctx.map
        /\ ctx'.off = ctx.off + n /\ ctx'.csum = ctx.csum \o SubSeq(buf, 1, n)
        /\ ctx'.left = SubSeq(buf, n + 1, n)
    BY <1>5, <2>2 DEF ReadBuffer, Consume, Agree, Reader, IsContext
  <2>4. ASSUME ctx.mtime = disk.ver
        PROVE  /\ ctx.map \in Shape[disk.ver].maps /\ ctx'.left = <<>>
               /\ Sound(disk.ver, disk.map, ctx'.off, ctx'.csum)
    <3>1. /\ ctx.map \in Shape[disk.ver].maps /\ ctx.left = <<>> /\ ~Capped
          /\ Sound(disk.ver, disk.map, ctx.off, ctx.csum)
      BY <1>5, <2>1, <2>4 DEF ReadBuffer, Agree, Reader, Inside
    <3>2. ctx.off < Size(disk.ver) /\ HoleRun(ctx.map, Size(disk.ver), ctx.off) = 0
          /\ FileSize = Size(disk.ver) /\ FileSize \in Nat /\ ctx.off \in Nat
      BY <1>0, <2>1, <2>4, <3>1, Files DEF Hole, FileSize, World, Sound
    <3>3. n \in Nat /\ n <= BlockLen /\ (n = BlockLen \/ ctx.off + n = Size(disk.ver))
      BY <2>1, <2>2, <3>1, <3>2, BufferLenIs
    <3>4. IsSeq(buf, n) /\ \A i \in 1 .. n : buf[i] = Cell(disk.ver, disk.map, ctx.off + i - 1)
      BY <1>0, <2>1, <2>2, <2>4, <3>1, <3>2, BufferIs
    <3>5. SubSeq(buf, 1, n) = buf /\ SubSeq(buf, n + 1, n) = <<>>
      BY <3>3, <3>4, WholeSeq
    <3>6. Sound(disk.ver, disk.map, ctx.off + n, ctx.csum \o buf)
      BY <1>0, <3>1, <3>2, <3>3, <3>4, SoundRead DEF World
    <3>. QED BY <2>3, <3>1, <3>5, <3>6
  <2>5. Reader'
    BY <1>0, <2>1, <2>3, <2>4 DEF Reader, Before, Inside
  <2>6. Writer'
    BY <2>1, <2>3 DEF Agree, Writer, Before, Inside
  <2>. QED BY <1>0, <2>1, <2>5, <2>6, Rights DEF Agree
<1>7. CASE ReadToHole
  <2>1. /\ pc = "read" /\ pc' \in {"read", "save", "leave", "done"}
        /\ UNCHANGED <<db, batch, run>>
        /\ Capped /\ ctx.off < FileSize /\ ctx.mtime \in Nat /\ ctx.mtime <= disk.ver
    BY <1>7 DEF ReadToHole, AtData, AfterBuffer, Agree, Reader, Before, Inside
  <2>2. IsContext(ctx') /\ ctx'.mtime = ctx.mtime
    BY <1>7 DEF ReadToHole, Consume, Agree, Reader, IsContext
  <2>3. ctx.mtime # disk.ver
    BY <2>1, NotCapped DEF Agree, Reader, Inside, Sound, Begins, FileSize
  <2>4. Reader'
    BY <1>0, <2>1, <2>2, <2>3 DEF Reader, Before, Inside
  <2>5. Writer'
    BY <2>1, <2>2 DEF Agree, Writer, Before, Inside
  <2>. QED BY <1>0, <2>1, <2>4, <2>5, Rights DEF Agree
<1>6. CASE FlushBlocks
  <2>1. pc = "read" /\ pc' = "read" /\ ctx.mtime \in Nat /\ ctx.mtime <= disk.ver
    BY <1>6 DEF FlushBlocks, Flushing, AtData, Agree, Reader, Before, Inside
  <2>2. /\ IsContext(ctx') /\ ctx'.mtime = ctx.mtime /\ ctx'.map = ctx.map
        /\ ctx'.off = ctx.off /\ ctx'.csum = ctx.csum /\ ctx'.left = ctx.left
    BY <1>6 DEF FlushBlocks, Agree, Reader, IsContext
  <2>3. /\ Right(db', disk) /\ Right(batch', disk) /\ IsRun(run')
        /\ run' = run /\ batch'.row = batch.row
    BY <1>0, <1>6, Units, UnitsRight DEF FlushBlocks, Agree, Writer
  <2>4. Reader'
    BY <1>0, <2>1, <2>2 DEF Agree, Reader, Before, Inside
  <2>5. Writer'
    BY <2>1, <2>2, <2>3 DEF Agree, Writer, Before, Inside
  <2>. QED BY <1>0, <2>3, <2>4, <2>5, Rights DEF Agree
<1>8. CASE FlushFails
  <2>1. pc' = "done" /\ ctx' = ctx
    BY <1>8 DEF FlushFails
  <2>2. Right(db', disk) /\ Right(batch', disk) /\ IsRun(run')
    BY <1>0, <1>8, Units DEF FlushFails, FlushRefused, Agree, Writer
  <2>3. Reader'
    BY <1>0, <2>1 DEF Agree, Reader, Before, Inside
  <2>4. Writer'
    BY <2>1, <2>2 DEF Writer, Before, Inside
  <2>. QED BY <1>0, <2>2, <2>3, <2>4, Rights DEF Agree
<1>. QED BY <1>1, <1>2, <1>3, <1>4, <1>5, <1>6, <1>7, <1>8 DEF Working

\* What the worker commits, and the end of the file.
LEMMA StoringAgree == Agree /\ (WriteCheckpoint \/ CheckpointFails \/ FinishFile) => Agree'
<1>. SUFFICES ASSUME Agree, WriteCheckpoint \/ CheckpointFails \/ FinishFile PROVE Agree'
  OBVIOUS
<1>0. UNCHANGED disk /\ World(disk) /\ disk.ver \in Nat /\ Right(db, disk) /\ Right(batch, disk)
  BY Files DEF Agree, World, WriteCheckpoint, CheckpointFails, FinishFile
<1>1. PICK d : /\ d = Stored(batch, ctx.blocks, ctx.extents)
               /\ Right(d, disk) /\ d.row = batch.row
  BY <1>0, UnitsRight
<1>2. CASE WriteCheckpoint
  <2>1. /\ pc \in {"save", "leave"} /\ pc' \in {"read", "done"}
        /\ pc' = "read" => pc = "save"
        /\ ctx.mtime \in Nat /\ ctx.mtime <= disk.ver
        /\ ctx.mtime = disk.ver => /\ ctx.map \in Shape[disk.ver].maps /\ ctx.left = <<>>
                                   /\ Sound(disk.ver, disk.map, ctx.off, ctx.csum)
    BY <1>2 DEF WriteCheckpoint, Agree, Reader, Before, Inside
  <2>2. PICK c : c = Checkpoint
    OBVIOUS
  <2>3. c.mtime = ctx.mtime /\ c.off = ctx.off /\ c.csum = ctx.csum
    BY <2>2 DEF Checkpoint
  <2>4. Right([d EXCEPT !.ck = c], disk) /\ [d EXCEPT !.ck = c].row = batch.row
    BY <1>0, <1>1, <2>1, <2>3, RightElsewhere
  <2>5. UnitFlush([d EXCEPT !.ck = c])
    BY <1>1, <1>2, <2>2 DEF WriteCheckpoint
  <2>6. /\ Right(db', disk) /\ Right(batch', disk) /\ IsRun(run')
        /\ run' = run /\ batch'.row = batch.row
    BY <2>4, <2>5, Units DEF Agree, Writer
  <2>7. /\ IsContext(ctx') /\ ctx'.mtime = ctx.mtime /\ ctx'.map = ctx.map
        /\ ctx'.off = ctx.off /\ ctx'.csum = ctx.csum /\ ctx'.left = ctx.left
    BY <1>2 DEF WriteCheckpoint, Agree, Reader, IsContext
  <2>8. Reader'
    BY <1>0, <2>1, <2>7 DEF Reader, Before, Inside
  <2>9. Writer'
    BY <2>1, <2>6, <2>7 DEF Agree, Writer, Before, Inside
  <2>. QED BY <1>0, <2>6, <2>8, <2>9, Rights DEF Agree
<1>3. CASE CheckpointFails
  <2>1. /\ pc \in {"save", "leave"} /\ pc' \in {"read", "done"}
        /\ ctx.mtime \in Nat /\ ctx.mtime <= disk.ver
        /\ ctx.mtime = disk.ver => /\ ctx.map \in Shape[disk.ver].maps /\ ctx.left = <<>>
                                   /\ Sound(disk.ver, disk.map, ctx.off, ctx.csum)
    BY <1>3 DEF CheckpointFails, Agree, Reader, Before, Inside
  <2>2. PICK x, y : Staged(x, y)
    BY <1>3 DEF CheckpointFails
  <2>3. /\ IsContext(ctx') /\ ctx'.mtime = ctx.mtime /\ ctx'.map = ctx.map
        /\ ctx'.off = ctx.off /\ ctx'.csum = ctx.csum /\ ctx'.left = ctx.left
    BY <2>2 DEF Staged, Agree, Reader, IsContext
  <2>4. /\ Right(db', disk) /\ Right(batch', disk) /\ IsRun(run')
        /\ ~run'.lost => run' = run /\ batch' = batch
    <3>1. CASE UNCHANGED <<db, batch, run, faults>>
      BY <1>0, <3>1 DEF Agree, Writer
    <3>2. CASE UnitFails \/ BatchLost
      BY <1>0, <3>2, Units DEF Agree, Writer
    <3>. QED BY <1>3, <3>1, <3>2 DEF CheckpointFails
  <2>5. Reader'
    BY <1>0, <2>1, <2>3 DEF Reader, Before, Inside
  <2>6. Writer'
    BY <2>1, <2>3, <2>4 DEF Agree, Writer, Before, Inside
  <2>. QED BY <1>0, <2>4, <2>5, <2>6, Rights DEF Agree
<1>4. CASE FinishFile
  <2>1. /\ pc \in {"read", "final"} /\ pc' = "done" /\ ctx' = ctx
        /\ ctx.mtime \in Nat /\ ctx.mtime <= disk.ver
        /\ ctx.mtime = disk.ver => Sound(disk.ver, disk.map, ctx.off, ctx.csum)
        /\ ~run.lost => batch.row.mtime = ctx.mtime
    BY <1>4 DEF FinishFile, AtEnd, Agree, Reader, Writer, Before, Inside
  <2>2. ASSUME Complete, ~run.lost PROVE Right(Finished, disk)
    <3>1. PICK z, r, c :
             /\ z = Finished /\ c = IF ctx.last # 0 THEN NoCheckpoint ELSE d.ck
             /\ r = [d.row EXCEPT !.digest = ctx.csum, !.mode = run.mode]
      OBVIOUS
    <3>2. z = [d EXCEPT !.row = r, !.ck = c]
      BY <1>1, <3>1 DEF Finished
    <3>3. IsFile(z) /\ z.row = r /\ z.ck = c
      BY <1>1, <3>2 DEF Right, IsFile
    <3>4. /\ r = [mtime |-> r.mtime, digest |-> r.digest, mode |-> r.mode]
          /\ r.mtime = ctx.mtime /\ r.digest = ctx.csum
      BY <1>1, <2>1, <2>2, <3>1 DEF Right
    <3>5. /\ c.mtime \in Nat /\ c.mtime <= disk.ver
          /\ c.mtime = disk.ver => Sound(disk.ver, disk.map, c.off, c.csum)
      <4>1. disk.ver # 0 /\ NoCheckpoint.mtime = 0
        BY <1>0, Files DEF World, NoCheckpoint
      <4>. QED BY <1>0, <1>1, <3>1, <4>1 DEF Right
    <3>6. ctx.mtime = disk.ver => ctx.csum = Straight(disk.ver, disk.map, Size(disk.ver))
      BY <2>1, <2>2 DEF Complete, FileSize, Sound
    <3>7. Right(z, disk)
      BY <2>1, <3>3, <3>4, <3>5, <3>6 DEF Right
    <3>. QED BY <3>1, <3>7
  <2>3. Right(db', disk) /\ Right(batch', disk) /\ IsRun(run')
    <3>1. CASE Complete /\ UnitEnd(Finished)
      <4>1. ~run.lost
        BY <3>1 DEF UnitEnd
      <4>. QED BY <2>2, <3>1, <4>1, Units DEF Agree, Writer
    <3>2. CASE UnitFails \/ BatchLost
      BY <1>0, <3>2, Units DEF Agree, Writer
    <3>3. CASE UNCHANGED <<db, batch, run, faults>>
      BY <1>0, <3>3 DEF Agree, Writer
    <3>. QED BY <1>4, <3>1, <3>2, <3>3 DEF FinishFile
  <2>4. Reader'
    BY <1>0, <2>1 DEF Agree, Reader, Before, Inside
  <2>5. Writer'
    BY <2>1, <2>3 DEF Writer, Before, Inside
  <2>. QED BY <1>0, <2>3, <2>4, <2>5, Rights DEF Agree
<1>. QED BY <1>2, <1>3, <1>4

\* The end of a run, and the world.
LEMMA WorldAgree ==
    /\ Agree
    /\ EndRun \/ Kill \/ Interrupt \/ OtherFiles \/ Rewrite \/ Defragment \/ UNCHANGED vars
    => Agree'
<1>. SUFFICES ASSUME Agree, \/ EndRun \/ Kill \/ Interrupt \/ OtherFiles
                            \/ Rewrite \/ Defragment \/ UNCHANGED vars
              PROVE  Agree'
  OBVIOUS
<1>0. World(disk) /\ disk.ver \in Nat /\ Right(db, disk) /\ Right(batch, disk)
  BY Files DEF Agree, World
<1>1. CASE EndRun \/ Kill
  <2>1. /\ UNCHANGED disk /\ run' = Down /\ ctx' = Idle /\ pc' = "down"
        /\ Right(db', disk) /\ Right(batch', disk)
    BY <1>0, <1>1 DEF EndRun, Kill
  <2>2. Reader'
    BY <2>1 DEF Reader, IsContext, Idle, Before, Inside
  <2>3. Writer'
    BY <2>1 DEF Writer, IsRun, Down, Before, Inside
  <2>. QED BY <2>1, <2>2, <2>3, Rights DEF Agree
<1>2. CASE Interrupt
  <2>1. UNCHANGED <<disk, db, batch, ctx, pc>> /\ IsRun(run') /\ run'.lost = run.lost
    BY <1>2 DEF Interrupt, Agree, Writer, IsRun
  <2>2. Reader'
    BY <2>1 DEF Agree, Reader
  <2>3. Writer'
    BY <2>1 DEF Agree, Writer
  <2>. QED BY <1>0, <2>1, <2>2, <2>3, Rights DEF Agree
<1>3. CASE OtherFiles
  <2>1. /\ UNCHANGED <<disk, ctx, pc>>
        /\ \/ db # batch /\ UnitFlush(batch)
           \/ BatchLost
    BY <1>3 DEF OtherFiles
  <2>2. /\ Right(db', disk) /\ Right(batch', disk) /\ IsRun(run')
        /\ ~run'.lost => run' = run /\ batch' = batch
        /\ pc = "list" => batch' = db'
    BY <1>0, <2>1, Units DEF Agree, Writer, UnitFlush, BatchLost
  <2>3. Reader'
    BY <2>1 DEF Agree, Reader
  <2>4. Writer'
    BY <2>1, <2>2 DEF Agree, Writer
  <2>. QED BY <2>1, <2>2, <2>3, <2>4, Rights DEF Agree
<1>4. CASE Rewrite \/ Defragment
  <2>1. PICK u : u = disk'
    OBVIOUS
  <2>2. World(u) /\ (u.ver > disk.ver \/ u.ver = disk.ver)
    BY <1>0, <1>4, <2>1 DEF Rewrite, Defragment, World
  <2>3. UNCHANGED <<db, batch, run, ctx, pc>>
    BY <1>4 DEF Rewrite, Defragment
  <2>4. Right(db, u) /\ Right(batch, u)
    BY <1>0, <2>2, RightAfter
  <2>5. Reader'
    <3>1. u.ver \in Nat
      BY <2>2, Files DEF World
    <3>2. ASSUME ctx.mtime = u.ver, ctx.mtime <= disk.ver PROVE disk.ver = u.ver
      BY <1>0, <2>2, <3>1, <3>2
    <3>3. ASSUME disk.ver = u.ver, NEW off, NEW csum, Sound(disk.ver, disk.map, off, csum)
          PROVE  Sound(u.ver, u.map, off, csum)
      BY <1>0, <2>2, <3>3, SoundElsewhere DEF World
    <3>4. ctx.mtime \in Nat /\ ctx.mtime <= disk.ver => ctx.mtime <= u.ver
      BY <1>0, <2>2, <3>1
    <3>5. /\ IsContext(ctx)
          /\ pc \in Before => ctx.off = 0 /\ ctx.csum = <<>> /\ ctx.left = <<>>
          /\ pc \in {"resume", "store"} => ctx.resume = NoCheckpoint
          /\ pc \in Before \cup Inside => ctx.mtime \in Nat /\ ctx.mtime <= u.ver
      BY <3>4 DEF Agree, Reader
    <3>6. ASSUME pc = "open", ctx.mtime = u.ver
          PROVE  Sound(u.ver, u.map, ctx.resume.off, ctx.resume.csum)
      BY <3>2, <3>3, <3>6 DEF Agree, Reader, Before
    <3>7. ASSUME pc \in Inside, ctx.mtime = u.ver
          PROVE  /\ ctx.map \in Shape[u.ver].maps /\ ctx.left = <<>>
                 /\ Sound(u.ver, u.map, ctx.off, ctx.csum)
      BY <3>2, <3>3, <3>7 DEF Agree, Reader
    <3>. QED BY <2>1, <2>3, <3>5, <3>6, <3>7 DEF Reader
  <2>6. Writer'
    BY <2>3 DEF Agree, Writer
  <2>. QED BY <2>1, <2>2, <2>3, <2>4, <2>5, <2>6 DEF Agree
<1>5. CASE UNCHANGED vars
  <2>1. UNCHANGED <<disk, db, batch, run, ctx, pc>>
    BY <1>5 DEF vars
  <2>2. Reader' /\ Writer'
    BY <2>1 DEF Agree, Reader, Writer
  <2>. QED BY <1>0, <2>1, <2>2, Rights DEF Agree
<1>. QED BY <1>1, <1>2, <1>3, <1>4, <1>5

\* While no code of a failed write is taken as a length.
LEMMA NextAgree == Agree /\ [Next]_vars /\ ~astray' => Agree'
<1>1. CodeAsLength => astray'
  BY DEF CodeAsLength
<1>. QED BY <1>1, ListingAgree, WorkerAgree, StoringAgree, WorldAgree DEF Next, Hashing, Working

LEMMA StaysAstray == astray /\ [Next]_vars => astray'
BY DEF Next, vars, StartRun, Listing, ListFile, TakeCheckpoint, RefuseCheckpoint, StoreRow,
       Hashing, SkipFile, OpenFile, Decline, SkipHole, ReadBuffer, ReadToHole, FlushBlocks,
       FlushFails, CodeAsLength, WriteCheckpoint, CheckpointFails, FinishFile, EndRun, Kill,
       Interrupt, OtherFiles, Rewrite, Defragment

\* A file that counts as hashed has the digest of one straight scan, over any
\* number of runs of any options, with interruptions, kills, failing writes,
\* and writes to the file and moves of it, wherever they strike between the
\* checkpoints, as long as no code of a failed block store has been taken as a
\* length (csum_whole_file(), adopt_resume()).
THEOREM DigestsAreContent == Spec => [](~astray => DigestIsContent)
<1>1. Init => (~astray => Agree)
  BY InitAgree
<1>2. (~astray => Agree) /\ [Next]_vars => (~astray => Agree)'
  BY NextAgree, StaysAstray
<1>3. Agree => DigestIsContent
  BY DEF Agree, Right, DigestIsContent, UpToDate, Hashed, Unchanged
<1>. QED BY <1>1, <1>2, <1>3, PTL DEF Spec

-----------------------------------------------------------------------------
(* The rows and the checkpoint that hang on the file, while no write fails. *)

Mapped ==
    /\ faults \in Nat
    /\ pc \in Before \cup Inside => ctx.mtime \in Versions
    /\ pc \in Inside => IsMap(ctx.map)

KeysTyped(blocks, extents) ==
    /\ \A b \in blocks : b.loff \in Nat
    /\ \A e \in extents : e.loff \in Nat /\ e.len \in Nat

\* A checkpoint belongs to a file without a digest, and no extent that was
\* stored goes on behind it.
Keyed(d) ==
    /\ KeysTyped(d.blocks, d.extents)
    /\ d.ck # NoCheckpoint =>
          /\ ~Hashed(d) /\ Aligned(d.ck.off) /\ d.ck.off > 0
          /\ \A e \in d.extents : e.loff + e.len <= d.ck.off

\* The worker gets a file whose rows all end at the checkpoint.
Opening ==
    /\ ctx.blocks = {} /\ ctx.extents = {} /\ ctx.last = 0
    /\ pc = "open" => /\ ~Hashed(batch) /\ batch.ck = ctx.resume
                      /\ \A b \in batch.blocks : b.loff < ctx.resume.off
                      /\ \A e \in batch.extents : e.loff + e.len <= ctx.resume.off
                      /\ Aligned(ctx.resume.off)
                      /\ ctx.resume.off = 0 => ctx.resume = NoCheckpoint

\* What is staged and what is stored ends at the reader's offset.
Reading ==
    /\ ctx.off \in Nat /\ ctx.last \in Nat /\ ctx.left = <<>>
    /\ KeysTyped(ctx.blocks, ctx.extents)
    /\ ~Hashed(batch) /\ (ctx.last = 0 => batch.ck = NoCheckpoint)
    /\ \A b \in ctx.blocks \cup batch.blocks : b.loff < ctx.off
    /\ Fits(batch, ctx.blocks, ctx.extents)
    /\ pc # "final" =>
          /\ \A e \in ctx.extents \cup batch.extents : e.loff + e.len <= ctx.off
          /\ ctx.off < FileSize => Aligned(ctx.off)
    /\ pc \in {"save", "leave"} => ctx.last < ctx.off /\ ctx.off < FileSize

Keys ==
    faults = 0 =>
        /\ ~run.lost /\ Keyed(db) /\ Keyed(batch)
        /\ pc \in Before => Opening
        /\ pc \in Inside => Reading

LEMMA FaultsGrow == [Next]_vars => faults' = faults \/ faults' = faults + 1
BY DEF Next, vars, StartRun, Listing, ListFile, TakeCheckpoint, RefuseCheckpoint,
       StoreRow, Hashing, SkipFile, OpenFile, Decline, SkipHole, ReadBuffer, ReadToHole,
       FlushBlocks, FlushFails, FlushRefused, CodeAsLength, WriteCheckpoint, CheckpointFails,
       FinishFile, EndRun, Kill, Interrupt, OtherFiles, Rewrite, Defragment, UnitEnd,
       UnitEndWithout, UnitFlush, UnitFails, BatchLost, Fault

LEMMA MappedStays == Agree /\ Mapped /\ [Next]_vars => Mapped'
<1>. SUFFICES ASSUME Agree, Mapped, [Next]_vars PROVE Mapped'
  OBVIOUS
<1>1. faults' \in Nat
  BY FaultsGrow DEF Mapped
<1>2. IsMap(disk.map) /\ disk.ver \in Versions
  BY Files DEF Agree, World
<1>3. CASE Listing
  <2>1. pc' \notin Inside
    BY <1>3 DEF Listing, ListFile, TakeCheckpoint, RefuseCheckpoint, StoreRow, Inside
  <2>2. pc' \in Before => ctx'.mtime \in Versions
    <3>1. CASE ListFile
      BY <1>2, <3>1 DEF ListFile, Idle
    <3>2. CASE TakeCheckpoint \/ RefuseCheckpoint \/ StoreRow
      <4>1. pc \in Before /\ ctx'.mtime = ctx.mtime
        BY <3>2 DEF TakeCheckpoint, RefuseCheckpoint, StoreRow, Before, Agree, Reader, IsContext
      <4>. QED BY <4>1 DEF Mapped
    <3>. QED BY <1>3, <3>1, <3>2 DEF Listing
  <2>. QED BY <1>1, <2>1, <2>2 DEF Mapped
<1>4. CASE OpenFile \/ Decline
  <2>1. pc \in Before /\ ctx'.mtime = ctx.mtime /\ ctx'.map = disk.map
    BY <1>4 DEF OpenFile, Decline, Before, Agree, Reader, IsContext
  <2>. QED BY <1>1, <1>2, <2>1 DEF Mapped
<1>5. CASE \/ SkipHole \/ ReadBuffer \/ ReadToHole \/ FlushBlocks \/ CodeAsLength
           \/ WriteCheckpoint \/ CheckpointFails
  <2>1. pc \in Inside /\ ctx'.mtime = ctx.mtime /\ ctx'.map = ctx.map
    <3>1. ASSUME NEW n, NEW rows, Consume(n, rows)
          PROVE  ctx'.mtime = ctx.mtime /\ ctx'.map = ctx.map
      BY <3>1 DEF Consume, Agree, Reader, IsContext
    <3>2. CASE ReadBuffer \/ ReadToHole \/ CodeAsLength
      BY <3>1, <3>2 DEF ReadBuffer, ReadToHole, CodeAsLength, Flushing, AtData, Inside
    <3>. QED BY <1>5, <3>2 DEF SkipHole, FlushBlocks, Flushing, AtData, WriteCheckpoint,
                               CheckpointFails, Staged, Inside, Agree, Reader, IsContext
  <2>. QED BY <1>1, <2>1 DEF Mapped
<1>6. CASE StartRun \/ SkipFile \/ FlushFails \/ FinishFile \/ EndRun \/ Kill
  <2>1. pc' \notin Before \cup Inside
    BY <1>6 DEF StartRun, SkipFile, FlushFails, FinishFile, EndRun, Kill, Before, Inside
  <2>. QED BY <1>1, <2>1 DEF Mapped
<1>7. CASE Interrupt \/ OtherFiles \/ Rewrite \/ Defragment \/ UNCHANGED vars
  <2>1. UNCHANGED <<ctx, pc>>
    BY <1>7 DEF Interrupt, OtherFiles, Rewrite, Defragment, vars
  <2>. QED BY <1>1, <2>1 DEF Mapped
<1>. QED BY <1>3, <1>4, <1>5, <1>6, <1>7 DEF Next, Hashing

\* Without a failed write a unit does what it says.
LEMMA NoFault ==
    ASSUME Mapped, Keys, [Next]_vars, faults' = 0
    PROVE  /\ faults = 0 /\ ~run.lost
           /\ ~Fault /\ ~UnitFails /\ ~BatchLost /\ \A ds : ~UnitEndWithout(ds)
           /\ ~ReadToHole /\ ~FlushFails /\ ~CodeAsLength
<1>1. faults' = faults \/ faults' = faults + 1
  BY FaultsGrow
<1>2. faults = 0 /\ ~run.lost
  BY <1>1 DEF Mapped, Keys
<1>3. ~Fault
  BY <1>2 DEF Fault
<1>4. ASSUME AtData PROVE Fits(batch, ctx.blocks, {}) /\ ~Capped
  BY <1>2, <1>4, NotCapped DEF AtData, Keys, Reading, Inside, Fits
<1>5. ~ReadToHole
  BY <1>4 DEF ReadToHole
<1>6. ~BatchLost /\ \A ds : ~UnitEndWithout(ds)
  BY <1>3 DEF BatchLost, UnitEndWithout
<1>7. ~FlushFails /\ ~CodeAsLength
  BY <1>2, <1>3, <1>4, <1>6 DEF FlushFails, CodeAsLength, Flushing, FlushRefused
<1>. QED BY <1>2, <1>3, <1>5, <1>6, <1>7 DEF UnitFails

LEMMA UnitsKeyed ==
    ASSUME NEW d, IsFile(d), Keyed(d)
    PROVE  /\ Keyed(NoFile) /\ Keyed(Prune(d))
           /\ \A t : LET z == [NoFile EXCEPT !.row.mtime = t]
                     IN  /\ Keyed(z) /\ ~Hashed(z) /\ z.ck = NoCheckpoint
                         /\ z.blocks = {} /\ z.extents = {}
           /\ \A off : LET z == RemoveFrom(d, off)
                       IN  /\ IsFile(z) /\ Keyed(z) /\ z.row = d.row /\ z.ck = d.ck
                           /\ z.blocks = {b \in d.blocks : b.loff < off}
                           /\ z.extents = {e \in d.extents : e.loff < off}
           /\ LET z == RemoveCheckpoint(d)
              IN  /\ Keyed(z) /\ z.row = d.row /\ z.ck = NoCheckpoint
                  /\ z.blocks = d.blocks /\ z.extents = d.extents
<1>1. Keyed(NoFile)
  BY DEF Keyed, NoFile, KeysTyped
<1>2. Keyed(Prune(d))
  BY <1>1 DEF Prune
<1>3. ASSUME NEW t, NEW z, z = [NoFile EXCEPT !.row.mtime = t]
      PROVE  /\ Keyed(z) /\ ~Hashed(z) /\ z.ck = NoCheckpoint
             /\ z.blocks = {} /\ z.extents = {}
  BY <1>3 DEF NoFile, NoRow, Keyed, KeysTyped, Hashed
<1>4. ASSUME NEW off, NEW z, z = RemoveFrom(d, off)
      PROVE  /\ IsFile(z) /\ Keyed(z) /\ z.row = d.row /\ z.ck = d.ck
             /\ z.blocks = {b \in d.blocks : b.loff < off}
             /\ z.extents = {e \in d.extents : e.loff < off}
  <2>1. /\ IsFile(z) /\ z.row = d.row /\ z.ck = d.ck
        /\ z.blocks = {b \in d.blocks : b.loff < off}
        /\ z.extents = {e \in d.extents : e.loff < off}
    BY <1>4 DEF RemoveFrom, IsFile
  <2>. QED BY <2>1 DEF Keyed, KeysTyped, Hashed
<1>5. ASSUME NEW z, z = RemoveCheckpoint(d)
      PROVE  /\ Keyed(z) /\ z.row = d.row /\ z.ck = NoCheckpoint
             /\ z.blocks = d.blocks /\ z.extents = d.extents
  <2>1. /\ z.row = d.row /\ z.ck = NoCheckpoint
        /\ z.blocks = d.blocks /\ z.extents = d.extents
    BY <1>5 DEF RemoveCheckpoint, IsFile
  <2>. QED BY <2>1 DEF Keyed, KeysTyped
<1>6. \A t : LET z == [NoFile EXCEPT !.row.mtime = t]
            IN  /\ Keyed(z) /\ ~Hashed(z) /\ z.ck = NoCheckpoint
                /\ z.blocks = {} /\ z.extents = {}
  BY <1>3, Zenon
<1>7. \A off : LET z == RemoveFrom(d, off)
              IN  /\ IsFile(z) /\ Keyed(z) /\ z.row = d.row /\ z.ck = d.ck
                  /\ z.blocks = {b \in d.blocks : b.loff < off}
                  /\ z.extents = {e \in d.extents : e.loff < off}
  BY <1>4, Zenon
<1>. QED BY <1>1, <1>2, <1>5, <1>6, <1>7

\* A buffer ends in the file.
LEMMA BufferEnds ==
    ASSUME ctx.off \in Nat, FileSize \in Nat, ctx.off < FileSize, Size(disk.ver) \in Nat,
           ctx.left = <<>>, ~Capped
    PROVE  /\ BufferLen \in Nat /\ BufferLen <= BlockLen
           /\ ctx.off + BufferLen <= FileSize
<1>1. PICK left \in Nat, rest \in Int :
         left = FileSize - ctx.off /\ rest = Size(disk.ver) - ctx.off
  OBVIOUS
<1>. DEFINE m == Min({BlockLen, left, rest})
<1>2. m \in Int /\ m <= BlockLen /\ m <= left
  <2>1. \E x \in {BlockLen, left, rest} : \A y \in {BlockLen, left, rest} : x <= y
    BY BlockPos
  <2>. QED BY <1>1, <2>1, BlockPos DEF Min
<1>. HIDE DEF m
<1>3. Max({0, m}) \in {0, m} /\ 0 <= Max({0, m})
  <2>1. \E x \in {0, m} : \A y \in {0, m} : y <= x
    BY <1>2
  <2>. QED BY <1>2, <2>1 DEF Max
<1>4. CASE Faked
  BY <1>4, BlockPos DEF BufferLen, Faked
<1>5. CASE ~Faked
  <2>1. BufferLen = Max({0, m})
    BY <1>1, <1>5 DEF BufferLen, ReadCap, m
  <2>. QED BY <1>1, <1>2, <1>3, <2>1, BlockPos
<1>. QED BY <1>4, <1>5

\* What every step without a failed write may rely on.
LEMMA Keyeds ==
    ASSUME Agree, Keys, faults = 0
    PROVE  /\ ~run.lost /\ Keyed(db) /\ Keyed(batch) /\ IsFile(db) /\ IsFile(batch)
           /\ pc \in Before => Opening
           /\ pc \in Inside => Reading
BY DEF Agree, Right, Keys

LEMMA ListingKeys ==
    ASSUME Agree, Mapped, Keys, StartRun \/ Listing, faults' = 0
    PROVE  Keys'
<1>0. faults = 0 /\ ~run.lost /\ ~UnitFails /\ ~BatchLost /\ \A ds : ~UnitEndWithout(ds)
  BY NoFault DEF Next
<1>1. /\ Keyed(db) /\ Keyed(batch) /\ IsFile(db) /\ IsFile(batch)
      /\ pc \in Before => Opening
  BY <1>0, Keyeds
<1>2. CASE StartRun
  <2>1. Keyed(db)' /\ Keyed(batch)'
    BY <1>1, <1>2, UnitsKeyed DEF StartRun
  <2>2. pc' = "list" /\ ~run'.lost
    BY <1>2 DEF StartRun, Down
  <2>. QED BY <2>1, <2>2 DEF Keys, Before, Inside
<1>3. CASE ListFile
  <2>1. /\ UNCHANGED <<db, batch, run>> /\ pc' \in {"done", "resume", "store"}
        /\ ctx'.blocks = {} /\ ctx'.extents = {} /\ ctx'.last = 0
    BY <1>3 DEF ListFile, Idle
  <2>2. Opening'
    BY <2>1 DEF Opening
  <2>. QED BY <1>0, <1>1, <2>1, <2>2 DEF Keys, Inside
<1>4. CASE TakeCheckpoint
  <2>1. PICK z : z = RemoveFrom(batch, batch.ck.off) /\ UnitEnd(z)
    BY <1>0, <1>4 DEF TakeCheckpoint
  <2>2. /\ Keyed(z) /\ z.row = batch.row /\ z.ck = batch.ck
        /\ z.blocks = {b \in batch.blocks : b.loff < batch.ck.off}
        /\ z.extents = {e \in batch.extents : e.loff < batch.ck.off}
    BY <1>1, <2>1, UnitsKeyed
  <2>3. /\ pc = "resume" /\ pc' = "open" /\ batch' = z /\ db' \in {db, z} /\ run' = run
        /\ batch.ck.off > 0
    BY <1>4, <2>1 DEF TakeCheckpoint, UnitEnd, Usable
  <2>4. /\ ctx'.blocks = {} /\ ctx'.extents = {} /\ ctx'.last = 0 /\ ctx'.resume = batch.ck
    BY <1>1, <1>4, <2>3 DEF TakeCheckpoint, Before, Opening, Agree, Reader, IsContext
  <2>5. batch.ck # NoCheckpoint
    BY <2>3 DEF NoCheckpoint
  <2>6. Opening'
    BY <1>1, <2>2, <2>3, <2>4, <2>5 DEF Opening, Keyed, Hashed
  <2>. QED BY <1>0, <1>1, <2>2, <2>3, <2>6 DEF Keys, Inside
<1>5. CASE RefuseCheckpoint
  <2>1. PICK z : z = RemoveCheckpoint(batch) /\ UnitEnd(z)
    BY <1>0, <1>5 DEF RefuseCheckpoint
  <2>2. Keyed(z)
    BY <1>1, <2>1, UnitsKeyed
  <2>3. /\ pc = "resume" /\ pc' = "store" /\ batch' = z /\ db' \in {db, z} /\ run' = run
        /\ ctx' = ctx
    BY <1>5, <2>1 DEF RefuseCheckpoint, UnitEnd
  <2>4. Opening'
    BY <1>1, <2>3 DEF Opening, Before
  <2>. QED BY <1>0, <1>1, <2>2, <2>3, <2>4 DEF Keys, Inside
<1>6. CASE StoreRow
  <2>1. PICK z : z = [NoFile EXCEPT !.row.mtime = ctx.mtime] /\ UnitEnd(z)
    BY <1>0, <1>6 DEF StoreRow
  <2>2. /\ Keyed(z) /\ ~Hashed(z) /\ z.ck = NoCheckpoint
        /\ z.blocks = {} /\ z.extents = {}
    BY <1>1, <2>1, UnitsKeyed, Zenon
  <2>3. /\ pc = "store" /\ pc' \in {"open", "done"} /\ batch' = z /\ db' \in {db, z} /\ run' = run
        /\ ctx' = ctx
    BY <1>6, <2>1 DEF StoreRow, UnitEnd
  <2>4. ctx.resume = NoCheckpoint /\ Aligned(NoCheckpoint.off)
    BY <2>3, Blocks DEF Agree, Reader, NoCheckpoint
  <2>5. Opening'
    BY <1>1, <2>2, <2>3, <2>4 DEF Opening, Before
  <2>. QED BY <1>0, <1>1, <2>2, <2>3, <2>5 DEF Keys, Inside
<1>. QED BY <1>2, <1>3, <1>4, <1>5, <1>6 DEF Listing

LEMMA OpeningKeys ==
    ASSUME Agree, Mapped, Keys, SkipFile \/ OpenFile \/ Decline, faults' = 0
    PROVE  Keys'
<1>0. faults = 0 /\ ~run.lost /\ ~UnitFails /\ ~BatchLost /\ \A ds : ~UnitEndWithout(ds)
  BY NoFault DEF Next, Hashing
<1>1. /\ Keyed(db) /\ Keyed(batch) /\ IsFile(db) /\ IsFile(batch)
      /\ pc \in Before => Opening
  BY <1>0, Keyeds
<1>2. CASE SkipFile
  <2>1. UNCHANGED <<db, batch, run>> /\ pc' = "done"
    BY <1>0, <1>2 DEF SkipFile
  <2>. QED BY <1>0, <1>1, <2>1 DEF Keys, Before, Inside
<1>3. CASE OpenFile
  <2>1. UNCHANGED <<db, batch, run>> /\ pc = "open" /\ pc' = "read" /\ Opening
    BY <1>1, <1>3 DEF OpenFile, Before
  <2>2. /\ ctx'.off = ctx.resume.off /\ ctx'.last = ctx.resume.off
        /\ ctx'.blocks = {} /\ ctx'.extents = {} /\ ctx'.left = <<>>
    BY <1>3, <2>1 DEF OpenFile, Opening, Agree, Reader, IsContext, Before
  <2>3. Fits(batch, {}, {})
    BY DEF Fits
  <2>4. Reading'
    BY <2>1, <2>2, <2>3 DEF Reading, Opening, Aligned, KeysTyped
  <2>. QED BY <1>0, <1>1, <2>1, <2>4 DEF Keys, Before
<1>4. CASE Decline
  <2>1. PICK y : y = RemoveFrom(batch, 0)
    OBVIOUS
  <2>2. PICK z : z = RemoveCheckpoint(y) /\ UnitEnd(z)
    BY <1>0, <1>4, <2>1 DEF Decline
  <2>3. /\ IsFile(y) /\ Keyed(y) /\ y.row = batch.row
        /\ y.blocks = {b \in batch.blocks : b.loff < 0}
        /\ y.extents = {e \in batch.extents : e.loff < 0}
    BY <1>1, <2>1, UnitsKeyed
  <2>4. y.blocks = {} /\ y.extents = {}
    BY <1>1, <2>3 DEF Keyed, KeysTyped
  <2>5. /\ Keyed(z) /\ z.row = batch.row /\ z.ck = NoCheckpoint
        /\ z.blocks = {} /\ z.extents = {}
    BY <2>2, <2>3, <2>4, UnitsKeyed
  <2>6. /\ pc = "open" /\ pc' = "read" /\ Opening /\ ctx.off = 0 /\ ctx.left = <<>>
        /\ batch' = z /\ db' \in {db, z} /\ run' = run
    BY <1>1, <1>4, <2>2 DEF Decline, Before, UnitEnd, Agree, Reader
  <2>7. /\ ctx'.off = 0 /\ ctx'.last = 0 /\ ctx'.blocks = {} /\ ctx'.extents = {}
        /\ ctx'.left = <<>>
    BY <1>4, <2>6 DEF Decline, Opening, Agree, Reader, IsContext
  <2>8. Fits(z, {}, {})
    BY DEF Fits
  <2>9. Reading'
    BY <2>5, <2>6, <2>7, <2>8, Blocks DEF Reading, Opening, KeysTyped, Hashed
  <2>. QED BY <1>0, <1>1, <2>5, <2>6, <2>9 DEF Keys, Before
<1>. QED BY <1>2, <1>3, <1>4

\* What a buffer adds to the staged rows: keys of its own.
LEMMA NewRows ==
    ASSUME IsMap(ctx.map), ctx.off \in Nat
    PROVE  /\ \A s \in BlockRows : s.loff = ctx.off /\ BufferLen > 0
           /\ \A s \in ExtentRows(BufferLen) :
                 /\ s.loff \in Nat /\ s.len \in Nat /\ ctx.off < s.loff + s.len
                 /\ Min({s.loff + s.len, FileSize}) <= ctx.off + BufferLen
<1>1. \A s \in BlockRows : s.loff = ctx.off /\ BufferLen > 0
  BY DEF BlockRows
<1>2. ASSUME NEW s \in ExtentRows(BufferLen)
      PROVE  /\ s.loff \in Nat /\ s.len \in Nat
             /\ ctx.off < s.loff + s.len
             /\ Min({s.loff + s.len, FileSize}) <= ctx.off + BufferLen
  <2>1. PICK e \in ctx.map : /\ End(e) > ctx.off /\ Ended(e, BufferLen)
                             /\ s.loff = e.from /\ s.len = e.len
    BY DEF ExtentRows, Reached
  <2>2. e.from \in Nat /\ e.len \in Nat
    BY DEF IsMap, Extents
  <2>. QED BY <2>1, <2>2 DEF Ended, End
<1>. QED BY <1>1, <1>2

LEMMA LoopKeys ==
    ASSUME Agree, Mapped, Keys, SkipHole \/ ReadBuffer \/ FlushBlocks, faults' = 0
    PROVE  Keys'
<1>0. faults = 0 /\ ~run.lost /\ ~UnitFails /\ ~BatchLost /\ \A ds : ~UnitEndWithout(ds)
  BY NoFault DEF Next, Hashing
<1>1. /\ Keyed(db) /\ Keyed(batch) /\ IsFile(db) /\ IsFile(batch)
      /\ pc = "read" /\ Reading /\ IsMap(ctx.map)
      /\ FileSize \in Nat /\ ctx.off \in Nat /\ ctx.off < FileSize /\ Aligned(ctx.off)
      /\ Size(disk.ver) \in Nat
  <2>1. pc = "read" /\ ctx.off < FileSize
    BY DEF SkipHole, ReadBuffer, FlushBlocks, Flushing, AtData
  <2>2. /\ Keyed(db) /\ Keyed(batch) /\ IsFile(db) /\ IsFile(batch) /\ Reading
    BY <1>0, <2>1, Keyeds DEF Inside
  <2>3. IsMap(ctx.map) /\ FileSize \in Nat /\ Size(disk.ver) \in Nat
    BY <2>1, Files DEF Mapped, Inside, FileSize, Agree, World
  <2>. QED BY <2>1, <2>2, <2>3 DEF Reading
<1>2. CASE SkipHole
  <2>1. PICK h : h = Hole
    OBVIOUS
  <2>2. h \in Nat /\ (ctx.off + h = FileSize \/ Aligned(ctx.off + h))
    BY <1>1, <1>2, <2>1, HoleRunIs DEF SkipHole, Hole
  <2>3. UNCHANGED <<db, batch, run, pc>> /\ ctx'.off = ctx.off + h /\ ctx'.last = ctx.last
        /\ ctx'.blocks = ctx.blocks /\ ctx'.extents = ctx.extents /\ ctx'.mtime = ctx.mtime
        /\ ctx'.left = ctx.left
    BY <1>2, <2>1 DEF SkipHole, Agree, Reader, IsContext
  <2>4. FileSize' = FileSize
    BY <2>3 DEF FileSize
  <2>5. /\ \A b \in ctx.blocks \cup batch.blocks : b.loff < ctx'.off
        /\ \A e \in ctx.extents \cup batch.extents : e.loff + e.len <= ctx'.off
    BY <1>1, <2>2, <2>3 DEF Reading, Keyed, KeysTyped
  <2>6. Reading'
    BY <1>1, <2>2, <2>3, <2>4, <2>5 DEF Reading
  <2>. QED BY <1>0, <1>1, <2>3, <2>6 DEF Keys, Before
<1>3. CASE ReadBuffer
  <2>1. PICK n : n = BufferLen
    OBVIOUS
  <2>2. n \in Nat /\ n <= BlockLen /\ ctx.off + n <= FileSize
    BY <1>1, <1>3, <2>1, BufferEnds DEF Reading, ReadBuffer
  <2>3. /\ UNCHANGED <<db, batch, run>> /\ pc' \in {"read", "save", "leave", "final", "done"}
        /\ ctx'.off = ctx.off + n /\ ctx'.last = ctx.last /\ ctx'.mtime = ctx.mtime
        /\ ctx'.left = SubSeq(Buffer, n + 1, n)
        /\ ctx'.blocks = ctx.blocks \cup BlockRows
        /\ ctx'.extents \subseteq ctx.extents \cup ExtentRows(n)
    BY <1>3, <2>1 DEF ReadBuffer, Consume, AfterBuffer, Agree, Reader, IsContext
  <2>13. ctx'.left = <<>>
    BY <1>1, <1>3, <2>1, <2>2, <2>3, BufferSeq, WholeSeq DEF Reading
  <2>4. pc' # "final" => n = BlockLen /\ ctx.off + n # FileSize
    BY <1>3, <2>1, <2>2, BlockPos DEF ReadBuffer
  <2>5. pc' \in {"save", "leave"} => ctx.last < ctx.off + n
    BY <1>1, <1>3, <2>1, <2>2, ShapeOK DEF ReadBuffer, AfterBuffer, Reading
  <2>6. FileSize' = FileSize
    BY <2>3 DEF FileSize
  <2>7. /\ \A s \in BlockRows : s.loff = ctx.off /\ n > 0
        /\ \A s \in ExtentRows(n) : /\ s.loff \in Nat /\ s.len \in Nat
                                    /\ ctx.off < s.loff + s.len
                                    /\ Min({s.loff + s.len, FileSize}) <= ctx.off + n
    BY <1>1, <2>1, NewRows
  <2>8. KeysTyped(ctx'.blocks, ctx'.extents)
    BY <1>1, <2>3, <2>7 DEF Reading, KeysTyped
  <2>9. \A b \in ctx'.blocks \cup batch.blocks : b.loff < ctx.off + n
    BY <1>1, <2>2, <2>3, <2>7 DEF Reading, Keyed, KeysTyped
  <2>10. Fits(batch, ctx'.blocks, ctx'.extents)
    <3>1. ASSUME NEW s \in ctx'.blocks, NEW b \in batch.blocks PROVE s.loff # b.loff
      BY <1>1, <2>3, <2>7 DEF Reading, Fits, Keyed, KeysTyped
    <3>2. ASSUME NEW s \in ctx'.extents, NEW e \in batch.extents,
                 s.loff = e.loff, s.len = e.len
          PROVE  FALSE
      <4>1. s \in ctx.extents \/ ctx.off < s.loff + s.len
        BY <2>3, <2>7
      <4>2. e.loff + e.len <= ctx.off /\ e.loff \in Nat /\ e.len \in Nat
        BY <1>1 DEF Reading, Keyed, KeysTyped
      <4>. QED BY <1>1, <3>2, <4>1, <4>2 DEF Reading, Fits
    <3>. QED BY <3>1, <3>2 DEF Fits
  <2>11. ASSUME pc' # "final"
         PROVE  /\ \A e \in ctx'.extents \cup batch.extents : e.loff + e.len <= ctx.off + n
                /\ ctx.off + n < FileSize /\ Aligned(ctx.off + n)
    <3>1. ctx.off + n < FileSize /\ n = BlockLen
      BY <1>1, <2>2, <2>4, <2>11
    <3>2. Aligned(ctx.off + n)
      BY <1>1, <3>1, InBlock
    <3>3. ASSUME NEW s \in ExtentRows(n) PROVE s.loff + s.len <= ctx.off + n
      <4>0. s.loff \in Nat /\ s.len \in Nat
        BY <2>7
      <4>1. PICK x \in Nat : x = s.loff + s.len
        BY <4>0
      <4>2. {x, FileSize} \in SUBSET Nat /\ {x, FileSize} # {}
        BY <1>1
      <4>3. Min({x, FileSize}) \in {x, FileSize}
        BY <4>2, MinIn
      <4>. QED BY <1>1, <2>2, <2>7, <3>1, <4>1, <4>3
    <3>4. ASSUME NEW e \in ctx.extents \cup batch.extents PROVE e.loff + e.len <= ctx.off + n
      <4>1. e.loff + e.len <= ctx.off /\ e.loff \in Nat /\ e.len \in Nat
        BY <1>1 DEF Reading, Keyed, KeysTyped
      <4>. QED BY <1>1, <2>2, <4>1
    <3>. QED BY <2>3, <3>1, <3>2, <3>3, <3>4
  <2>12. Reading'
    BY <1>1, <2>2, <2>3, <2>5, <2>6, <2>8, <2>9, <2>10, <2>11, <2>13 DEF Reading
  <2>. QED BY <1>0, <1>1, <2>3, <2>12 DEF Keys, Before
<1>4. CASE FlushBlocks
  <2>1. PICK z, bs, es : z = Stored(batch, bs, es) /\ bs = ctx.blocks /\ es = {}
    OBVIOUS
  <2>2. /\ z.row = batch.row /\ z.ck = batch.ck
        /\ z.blocks = batch.blocks \cup ctx.blocks /\ z.extents = batch.extents
    BY <1>1, <2>1 DEF Stored, IsFile
  <2>3. batch' = z /\ db' \in {db, z} /\ run' = run /\ pc' = "read"
    BY <1>1, <1>4, <2>1 DEF FlushBlocks, UnitEnd
  <2>4. Keyed(z)
    BY <1>1, <2>2 DEF Keyed, KeysTyped, Reading, Hashed
  <2>5. /\ ctx'.off = ctx.off /\ ctx'.last = ctx.last /\ ctx'.mtime = ctx.mtime
        /\ ctx'.blocks = {} /\ ctx'.extents = ctx.extents /\ ctx'.left = ctx.left
    BY <1>4 DEF FlushBlocks, Agree, Reader, IsContext
  <2>6. FileSize' = FileSize
    BY <2>5 DEF FileSize
  <2>7. Fits(z, {}, ctx.extents)
    BY <1>1, <2>2 DEF Reading, Fits
  <2>8. Reading'
    BY <1>1, <2>2, <2>3, <2>5, <2>6, <2>7 DEF Reading, KeysTyped, Hashed
  <2>. QED BY <1>0, <1>1, <2>3, <2>4, <2>8 DEF Keys, Before
<1>. QED BY <1>2, <1>3, <1>4

LEMMA StoringKeys ==
    ASSUME Agree, Mapped, Keys, WriteCheckpoint \/ CheckpointFails \/ FinishFile, faults' = 0
    PROVE  Keys'
<1>0. faults = 0 /\ ~run.lost /\ ~UnitFails /\ ~BatchLost /\ \A ds : ~UnitEndWithout(ds)
  BY NoFault DEF Next, Hashing
<1>1. /\ Keyed(db) /\ Keyed(batch) /\ IsFile(db) /\ IsFile(batch)
      /\ Reading /\ FileSize \in Nat
  <2>1. pc \in Inside
    BY DEF WriteCheckpoint, CheckpointFails, FinishFile, AtEnd, Inside
  <2>2. FileSize \in Nat
    BY <2>1, Files DEF Mapped, FileSize
  <2>. QED BY <1>0, <2>1, <2>2, Keyeds
<1>2. CASE WriteCheckpoint
  <2>1. PICK y, z, c :
           /\ y = Stored(batch, ctx.blocks, ctx.extents) /\ c = Checkpoint
           /\ z = [y EXCEPT !.ck = c] /\ UnitFlush(z)
    BY <1>2 DEF WriteCheckpoint
  <2>2. /\ IsFile(y) /\ y.row = batch.row
        /\ y.blocks = batch.blocks \cup ctx.blocks
        /\ y.extents = batch.extents \cup ctx.extents
    BY <1>1, <2>1 DEF Stored, IsFile
  <2>3. /\ z.row = batch.row /\ z.ck = c
        /\ z.blocks = batch.blocks \cup ctx.blocks
        /\ z.extents = batch.extents \cup ctx.extents
    BY <2>1, <2>2 DEF IsFile
  <2>4. c.off = ctx.off
    BY <2>1 DEF Checkpoint
  <2>5. /\ pc \in {"save", "leave"} /\ pc' \in {"read", "done"}
        /\ batch' = z /\ db' = z /\ run' = run
    BY <1>2, <2>1 DEF WriteCheckpoint, UnitFlush
  <2>6. /\ ctx.off \in Nat /\ ctx.last \in Nat /\ ctx.last < ctx.off /\ Aligned(ctx.off)
        /\ \A e \in z.extents : e.loff + e.len <= ctx.off
    BY <1>1, <2>3, <2>5 DEF Reading
  <2>7. Keyed(z)
    BY <1>1, <2>3, <2>4, <2>6 DEF Keyed, KeysTyped, Reading, Hashed
  <2>8. /\ ctx'.off = ctx.off /\ ctx'.last = ctx.off /\ ctx'.mtime = ctx.mtime
        /\ ctx'.blocks = {} /\ ctx'.extents = {} /\ ctx'.left = ctx.left
    BY <1>2 DEF WriteCheckpoint, Agree, Reader, IsContext
  <2>9. FileSize' = FileSize
    BY <2>8 DEF FileSize
  <2>10. Fits(z, {}, {})
    BY DEF Fits
  <2>11. Reading'
    BY <1>1, <2>3, <2>5, <2>6, <2>8, <2>9, <2>10 DEF Reading, KeysTyped, Hashed
  <2>. QED BY <1>0, <2>5, <2>7, <2>11 DEF Keys, Before
<1>3. CASE CheckpointFails
  <2>1. PICK bs, es : Staged(bs, es) /\ bs \subseteq ctx.blocks /\ es \subseteq ctx.extents
    BY <1>0, <1>3 DEF CheckpointFails
  <2>2. /\ UNCHANGED <<db, batch, run>> /\ pc \in {"save", "leave"} /\ pc' \in {"read", "done"}
    BY <1>0, <1>3 DEF CheckpointFails
  <2>3. /\ ctx'.off = ctx.off /\ ctx'.last = ctx.last /\ ctx'.mtime = ctx.mtime
        /\ ctx'.blocks = bs /\ ctx'.extents = es /\ ctx'.left = ctx.left
    BY <2>1 DEF Staged, Agree, Reader, IsContext
  <2>4. FileSize' = FileSize
    BY <2>3 DEF FileSize
  <2>5. Reading'
    BY <1>1, <2>1, <2>2, <2>3, <2>4 DEF Reading, KeysTyped, Fits
  <2>. QED BY <1>0, <1>1, <2>2, <2>5 DEF Keys, Before
<1>4. CASE FinishFile
  <2>1. pc' = "done" /\ run' = run
    BY <1>0, <1>4 DEF FinishFile, UnitEnd
  <2>2. CASE UNCHANGED <<db, batch>>
    BY <1>0, <1>1, <2>1, <2>2 DEF Keys, Before, Inside
  <2>3. CASE UnitEnd(Finished)
    <3>1. PICK y, z, c, r :
             /\ y = Stored(batch, ctx.blocks, ctx.extents)
             /\ c = IF ctx.last # 0 THEN NoCheckpoint ELSE y.ck
             /\ z = [y EXCEPT !.row = r, !.ck = c] /\ z = Finished
      BY DEF Finished
    <3>2. /\ IsFile(y) /\ y.ck = batch.ck
          /\ y.blocks = batch.blocks \cup ctx.blocks
          /\ y.extents = batch.extents \cup ctx.extents
      BY <1>1, <3>1 DEF Stored, IsFile
    <3>3. z.ck = c /\ z.blocks = y.blocks /\ z.extents = y.extents
      BY <3>1, <3>2 DEF IsFile
    <3>4. c = NoCheckpoint
      BY <1>1, <3>1, <3>2 DEF Reading
    <3>5. Keyed(z)
      BY <1>1, <3>2, <3>3, <3>4 DEF Keyed, KeysTyped, Reading
    <3>6. batch' = z /\ db' \in {db, z}
      BY <2>3, <3>1 DEF UnitEnd
    <3>. QED BY <1>0, <1>1, <2>1, <3>5, <3>6 DEF Keys, Before, Inside
  <2>. QED BY <1>0, <1>4, <2>2, <2>3 DEF FinishFile
<1>. QED BY <1>2, <1>3, <1>4

LEMMA KeysStay == Agree /\ Mapped /\ Keys /\ [Next]_vars => Keys'
<1>. SUFFICES ASSUME Agree, Mapped, Keys, [Next]_vars, faults' = 0 PROVE Keys'
  BY DEF Keys
<1>0. /\ faults = 0 /\ ~run.lost /\ ~Fault /\ ~BatchLost
      /\ ~ReadToHole /\ ~FlushFails /\ ~CodeAsLength
  BY NoFault
<1>1. /\ Keyed(db) /\ Keyed(batch)
      /\ pc \in Before => Opening
      /\ pc \in Inside => Reading
  BY <1>0, Keyeds
<1>2. CASE EndRun \/ Kill
  <2>1. /\ pc' = "down" /\ ~run'.lost /\ db' \in {db, batch} /\ batch' \in {db, batch}
    BY <1>0, <1>2 DEF EndRun, Kill, Down
  <2>. QED BY <1>1, <2>1 DEF Keys, Before, Inside
<1>3. CASE Interrupt \/ OtherFiles \/ Rewrite \/ Defragment \/ UNCHANGED vars
  <2>1. UNCHANGED <<batch, ctx, pc>> /\ db' \in {db, batch} /\ run'.lost = run.lost
    <3>1. CASE Interrupt
      BY <3>1 DEF Interrupt, Agree, Writer, IsRun
    <3>2. CASE OtherFiles
      BY <1>0, <3>2 DEF OtherFiles, UnitFlush
    <3>3. CASE Rewrite \/ Defragment \/ UNCHANGED vars
      BY <3>3 DEF Rewrite, Defragment, vars
    <3>. QED BY <1>3, <3>1, <3>2, <3>3
  <2>2. FileSize' = FileSize
    BY <2>1 DEF FileSize
  <2>3. pc' \in Before => Opening'
    BY <1>1, <2>1 DEF Opening
  <2>4. pc' \in Inside => Reading'
    BY <1>1, <2>1, <2>2 DEF Reading
  <2>. QED BY <1>0, <1>1, <2>1, <2>3, <2>4 DEF Keys
<1>. QED BY <1>0, <1>2, <1>3, ListingKeys, OpeningKeys, LoopKeys, StoringKeys DEF Next, Hashing

LEMMA InitKeys == Init => Mapped /\ Keys
<1>1. Init => Mapped
  BY DEF Init, Mapped, Before, Inside
<1>2. Init => Keys
  BY DEF Init, Keys, Before, Inside, Down, Keyed, KeysTyped, NoFile
<1>. QED BY <1>1, <1>2

\* Without a failed write no code of one is taken for a length.
OnGrid == faults \in Nat /\ (faults = 0 => ~astray)

LEMMA GridStays ==
    OnGrid /\ (~astray => Mapped /\ Keys) /\ [Next]_vars => OnGrid'
<1>. SUFFICES ASSUME OnGrid, ~astray => Mapped /\ Keys, [Next]_vars PROVE OnGrid'
  OBVIOUS
<1>1. faults' = faults \/ faults' = faults + 1
  BY FaultsGrow
<1>2. ASSUME faults' = 0 PROVE ~astray'
  <2>1. ~astray /\ Mapped /\ Keys
    BY <1>1, <1>2 DEF OnGrid
  <2>2. ~CodeAsLength
    BY <1>2, <2>1, NoFault
  <2>. QED BY <2>1, <2>2
         DEF Next, vars, StartRun, Listing, ListFile, TakeCheckpoint, RefuseCheckpoint,
             StoreRow, Hashing, SkipFile, OpenFile, Decline, SkipHole, ReadBuffer, ReadToHole,
             FlushBlocks, FlushFails, WriteCheckpoint, CheckpointFails, FinishFile, EndRun,
             Kill, Interrupt, OtherFiles, Rewrite, Defragment
<1>. QED BY <1>1, <1>2 DEF OnGrid

KeysKnown == OnGrid /\ (~astray => Agree /\ Mapped /\ Keys)

THEOREM KeysHold == Spec => []KeysKnown
<1>1. Init => KeysKnown
  BY InitAgree, InitKeys DEF KeysKnown, OnGrid, Init
<1>2. KeysKnown /\ [Next]_vars => KeysKnown'
  BY NextAgree, MappedStays, KeysStay, GridStays, StaysAstray DEF KeysKnown
<1>. QED BY <1>1, <1>2, PTL DEF Spec

\* What a worker has staged runs into no row that is stored, of this run or of
\* the one that left the checkpoint, as long as no write fails: its offset is
\* behind all that is stored (store_block_batch(), store_extent_batch(),
\* dbfile_remove_hashes_from()).
THEOREM StagedIsNew == Spec => []NoKeyTwice
<1>1. KeysKnown => NoKeyTwice
  BY DEF KeysKnown, OnGrid, Keys, Inside, Reading, NoKeyTwice
<1>. QED BY <1>1, KeysHold, PTL

\* As long as no write fails, a checkpoint goes when its file gets its digest
\* (dbfile_remove_checkpoint() at the end of csum_whole_file()).
THEOREM CheckpointsGo == Spec => []CheckpointOnlyUnhashed
<1>1. KeysKnown => CheckpointOnlyUnhashed
  BY DEF KeysKnown, OnGrid, Keys, Keyed, CheckpointOnlyUnhashed
<1>. QED BY <1>1, KeysHold, PTL

-----------------------------------------------------------------------------
(* Runs of cells. *)

IsCells(s, v, map, a, b) ==
    IsSeq(s, b - a) /\ \A i \in 1 .. b - a : s[i] = Cell(v, map, a + i - 1)

CellsAreSo(s, v, map, a, b) ==
    a <= b => (IsCells(s, v, map, a, b) <=> s = Cells(v, map, a, b))

LEMMA CellsAre ==
    ASSUME NEW v, NEW map, NEW a \in Nat, NEW b \in Nat, NEW s
    PROVE  CellsAreSo(s, v, map, a, b)
<1>. SUFFICES ASSUME a <= b PROVE IsCells(s, v, map, a, b) <=> s = Cells(v, map, a, b)
  BY DEF CellsAreSo
<1>1. PICK n \in Nat : n = b - a
  OBVIOUS
<1>2. Cells(v, map, a, b) = [i \in 1 .. n |-> Cell(v, map, a + i - 1)]
  BY <1>1 DEF Cells
<1>. QED BY <1>1, <1>2 DEF IsCells, IsSeq

LEMMA SameCells ==
    ASSUME NEW v \in Versions, NEW m \in Shape[v].maps, NEW n \in Shape[v].maps,
           NEW a \in Nat, NEW b \in Nat
    PROVE  Cells(v, m, a, b) = Cells(v, n, a, b)
<1>1. ASSUME NEW i \in 1 .. b - a PROVE Cell(v, m, a + i - 1) = Cell(v, n, a + i - 1)
  <2>1. PICK c \in Nat : c = a + i - 1
    OBVIOUS
  <2>2. InData(m, c) = InData(n, c)
    BY SameCover
  <2>. QED BY <2>1, <2>2 DEF Cell
<1>. QED BY <1>1 DEF Cells

JoinsTo(v, map, a, b, c) == Cells(v, map, a, b) \o Cells(v, map, b, c) = Cells(v, map, a, c)

LEMMA CellsJoin ==
    ASSUME NEW v, NEW map, NEW a \in Nat, NEW b \in Nat, NEW c \in Nat, a <= b, b <= c
    PROVE  JoinsTo(v, map, a, b, c)
<1>1. PICK k \in Nat, l \in Nat : k = b - a /\ l = c - b /\ k + l = c - a
  OBVIOUS
<1>2. PICK s, t : s = Cells(v, map, a, b) /\ t = Cells(v, map, b, c)
  OBVIOUS
<1>3. IsCells(s, v, map, a, b) /\ IsCells(t, v, map, b, c)
  <2>1. CellsAreSo(s, v, map, a, b) /\ CellsAreSo(t, v, map, b, c)
    BY CellsAre, Zenon
  <2>. QED BY <1>2, <2>1 DEF CellsAreSo
<1>4. IsSeq(s, k) /\ IsSeq(t, l)
  BY <1>1, <1>3 DEF IsCells
<1>5. IsConcat(s \o t, s, k, t, l)
  BY <1>4, ConcatIs
<1>6. ASSUME NEW i \in 1 .. k + l PROVE (s \o t)[i] = Cell(v, map, a + i - 1)
  <2>1. CASE i <= k
    <3>1. i \in 1 .. b - a
      BY <1>1, <2>1
    <3>. QED BY <1>3, <1>5, <2>1, <3>1 DEF IsCells, IsConcat
  <2>2. CASE ~(i <= k)
    <3>1. i - k \in 1 .. c - b /\ b + (i - k) - 1 = a + i - 1
      BY <1>1, <2>2
    <3>2. t[i - k] = Cell(v, map, a + i - 1)
      BY <1>3, <3>1 DEF IsCells
    <3>. QED BY <1>5, <2>2, <3>2 DEF IsConcat
  <2>. QED BY <2>1, <2>2
<1>7. IsCells(s \o t, v, map, a, c)
  BY <1>1, <1>5, <1>6 DEF IsCells, IsConcat
<1>8. CellsAreSo(s \o t, v, map, a, c)
  BY CellsAre, Zenon
<1>. QED BY <1>2, <1>7, <1>8 DEF JoinsTo, CellsAreSo

SubOf(v, map, a, b, s, e) ==
    SubSeq(Cells(v, map, a, b), s - a + 1, e - a) = Cells(v, map, s, e)

LEMMA CellsPart ==
    ASSUME NEW v, NEW map, NEW a \in Nat, NEW b \in Nat, NEW s \in Nat, NEW e \in Nat,
           a <= s, s <= e, e <= b
    PROVE  SubOf(v, map, a, b, s, e)
<1>. DEFINE S == {Cell(v, map, c) : c \in Nat}
<1>1. PICK q : q = Cells(v, map, a, b)
  OBVIOUS
<1>2. IsCells(q, v, map, a, b)
  <2>1. CellsAreSo(q, v, map, a, b)
    BY CellsAre, Zenon
  <2>. QED BY <1>1, <2>1 DEF CellsAreSo
<1>3. PICK m \in Int, n \in Int : m = s - a + 1 /\ n = e - a
  OBVIOUS
<1>4. ASSUME NEW i \in m .. n PROVE q[i] \in S
  <2>1. i \in 1 .. b - a /\ a + i - 1 \in Nat
    BY <1>3
  <2>. QED BY <1>2, <2>1 DEF IsCells
<1>5. PICK p : p = SubSeq(q, m, n)
  OBVIOUS
<1>. HIDE DEF S
<1>6. /\ p \in Seq(S) /\ Len(p) = IF m <= n THEN n - m + 1 ELSE 0
      /\ \A i \in 1 .. n - m + 1 : p[i] = q[m + i - 1]
  <2>1. /\ SubSeq(q, m, n) \in Seq(S)
        /\ Len(SubSeq(q, m, n)) = IF m <= n THEN n - m + 1 ELSE 0
        /\ \A i \in 1 .. n - m + 1 : SubSeq(q, m, n)[i] = q[m + i - 1]
    BY <1>4, SubSeqProperties
  <2>. QED BY <1>5, <2>1
<1>7. PICK k \in Nat : k = e - s /\ Len(p) = k /\ n - m + 1 = k
  BY <1>3, <1>6
<1>8. IsSeq(p, k)
  BY <1>6, <1>7 DEF IsSeq
<1>9. ASSUME NEW i \in 1 .. k PROVE p[i] = Cell(v, map, s + i - 1)
  <2>1. PICK j \in 1 .. b - a : j = m + i - 1 /\ a + j - 1 = s + i - 1
    BY <1>3, <1>7
  <2>2. q[j] = Cell(v, map, a + j - 1)
    BY <1>2 DEF IsCells
  <2>. QED BY <1>6, <1>7, <2>1, <2>2
<1>10. IsCells(p, v, map, s, e)
  BY <1>7, <1>8, <1>9 DEF IsCells
<1>11. CellsAreSo(p, v, map, s, e)
  BY CellsAre, Zenon
<1>. QED BY <1>1, <1>3, <1>5, <1>10, <1>11 DEF SubOf, CellsAreSo

LEMMA MinOfTwo ==
    ASSUME NEW a \in Int, NEW b \in Int
    PROVE  Min({a, b}) = IF a <= b THEN a ELSE b
<1>1. \E x \in {a, b} : \A y \in {a, b} : x <= y
  OBVIOUS
<1>. QED BY <1>1 DEF Min

LEMMA MaxOfTwo ==
    ASSUME NEW a \in Int, NEW b \in Int
    PROVE  Max({a, b}) = IF a <= b THEN b ELSE a
<1>1. \E x \in {a, b} : \A y \in {a, b} : y <= x
  OBVIOUS
<1>. QED BY <1>1 DEF Max

-----------------------------------------------------------------------------
(* The extent in progress. *)

\* The data extent that an offset is inside of.
OpenAt(map, off) == {x \in map : ~x.skip /\ x.from < off /\ off < End(x)}

\* What is carried at an offset is the digest of what is behind it of that
\* extent, and of nothing if it is inside of none.
Carry(v, map, off, cs) ==
    /\ OpenAt(map, off) = {} => cs = <<>>
    /\ \A x \in OpenAt(map, off) : cs = Cells(v, map, x.from, off)

\* What a checkpoint carries is of the extent it names.
Carries(v, map, ck) ==
    ck.ext_csum # <<>> =>
        \E x \in Extents :
            /\ ck.ext = {x} /\ InData(map, x.from) /\ x.from < ck.off /\ ck.off < End(x)
            /\ ck.ext_csum = Cells(v, map, x.from, ck.off)

LEMMA OneOpen ==
    ASSUME NEW map, IsMap(map), NEW off \in Nat, NEW x \in OpenAt(map, off)
    PROVE  /\ x \in Extents /\ x.from \in Nat
           /\ \A y \in OpenAt(map, off) : y = x
           /\ GetExtent(map, off) = {x}
<1>1. /\ x \in map /\ x \in Extents /\ x.from \in Nat /\ End(x) \in Nat
      /\ x.from < off /\ off < End(x)
  BY ExtentIs DEF OpenAt, IsMap
<1>2. ASSUME NEW y \in map, off < End(y), y # x PROVE ~(y.from <= x.from)
  <2>1. y.from \in Nat /\ End(y) \in Nat /\ y.from < End(y)
    BY ExtentIs
  <2>2. End(y) <= x.from \/ End(x) <= y.from
    BY <1>1, <1>2 DEF IsMap
  <2>. QED BY <1>1, <1>2, <2>1, <2>2
<1>3. ASSUME NEW y \in OpenAt(map, off) PROVE y = x
  <2>1. /\ y \in map /\ y.from \in Nat /\ End(y) \in Nat /\ y.from < off /\ off < End(y)
    BY ExtentIs DEF OpenAt
  <2>2. y = x \/ End(y) <= x.from \/ End(x) <= y.from
    BY <1>1, <2>1 DEF IsMap
  <2>. QED BY <1>1, <2>1, <2>2
<1>4. GetExtent(map, off) = {x}
  <2>1. ASSUME NEW y \in map, off < End(y) PROVE x.from <= y.from
    <3>1. y.from \in Nat
      BY ExtentIs
    <3>. QED BY <1>1, <1>2, <2>1, <3>1
  <2>2. x \in GetExtent(map, off)
    BY <1>1, <2>1 DEF GetExtent
  <2>3. ASSUME NEW y \in GetExtent(map, off) PROVE y = x
    <3>1. y \in map /\ off < End(y) /\ y.from <= x.from
      BY <1>1 DEF GetExtent
    <3>. QED BY <1>2, <3>1
  <2>. QED BY <2>2, <2>3
<1>. QED BY <1>1, <1>3, <1>4

LEMMA CarryStart ==
    ASSUME NEW v, NEW map, IsMap(map)
    PROVE  Carry(v, map, 0, <<>>)
<1>1. OpenAt(map, 0) = {}
  BY ExtentIs DEF OpenAt
<1>. QED BY <1>1 DEF Carry

LEMMA OneExtent ==
    ASSUME NEW map, IsMap(map), NEW x \in map, NEW y \in map, NEW c \in Nat,
           x.from <= c, c < End(x), y.from <= c, c < End(y)
    PROVE  x = y
<1>1. /\ x.from \in Nat /\ End(x) \in Nat
      /\ y.from \in Nat /\ End(y) \in Nat
  BY ExtentIs
<1>. QED BY <1>1 DEF IsMap

\* adopt_resume() compares where the extents are, and how long.
SamePlace(x, y) == x.from = y.from /\ x.len = y.len

LEMMA NotMoved ==
    ASSUME NEW r, ~LayoutMoved(r), r.ext_csum # <<>>
    PROVE  /\ \A y \in GetExtent(disk.map, r.off) : \E x \in r.ext : SamePlace(x, y)
           /\ \A x \in r.ext : \E y \in GetExtent(disk.map, r.off) : SamePlace(x, y)
<1>1. {<<y.from, y.len>> : y \in GetExtent(disk.map, r.off)} = {<<x.from, x.len>> : x \in r.ext}
  BY DEF LayoutMoved
<1>2. ASSUME NEW y \in GetExtent(disk.map, r.off)
      PROVE  \E x \in r.ext : SamePlace(x, y)
  <2>1. <<y.from, y.len>> \in {<<x.from, x.len>> : x \in r.ext}
    BY <1>1
  <2>. QED BY <2>1 DEF SamePlace
<1>3. ASSUME NEW x \in r.ext
      PROVE  \E y \in GetExtent(disk.map, r.off) : SamePlace(x, y)
  <2>1. <<x.from, x.len>> \in {<<y.from, y.len>> : y \in GetExtent(disk.map, r.off)}
    BY <1>1
  <2>. QED BY <2>1 DEF SamePlace
<1>. QED BY <1>2, <1>3

\* Taking a checkpoint up, adopt_resume()'s two tests passed.
LEMMA CarryAdopted ==
    ASSUME IsMap(disk.map), NEW v, NEW r, r.off \in Nat, Carries(v, disk.map, r),
           ~LayoutMoved(r), ~NoExtentState(r), run.mode # "whole"
    PROVE  Carry(v, disk.map, r.off, r.ext_csum)
<1>1. CASE r.ext_csum = <<>>
  <2>1. ASSUME NEW x \in OpenAt(disk.map, r.off) PROVE FALSE
    <3>1. GetExtent(disk.map, r.off) = {x}
      BY OneOpen
    <3>. QED BY <1>1, <3>1 DEF NoExtentState, OpenAt
  <2>. QED BY <1>1, <2>1 DEF Carry
<1>2. CASE r.ext_csum # <<>>
  <2>1. PICK x \in Extents :
          /\ r.ext = {x} /\ InData(disk.map, x.from) /\ x.from < r.off /\ r.off < End(x)
          /\ r.ext_csum = Cells(v, disk.map, x.from, r.off)
    BY <1>2 DEF Carries
  <2>2. PICK y \in GetExtent(disk.map, r.off) : y.from = x.from /\ y.len = x.len
    BY <1>2, <2>1, NotMoved DEF SamePlace
  <2>3. PICK z \in disk.map : ~z.skip /\ z.from <= x.from /\ x.from < End(z)
    BY <2>1 DEF InData
  <2>4. y \in disk.map /\ y.from < r.off /\ r.off < End(y) /\ y.from \in Nat /\ End(y) \in Nat
    BY <2>1, <2>2, NextExtent, ExtentIs DEF End
  <2>5. y = z
    BY <2>2, <2>3, <2>4, OneExtent
  <2>6. y \in OpenAt(disk.map, r.off)
    BY <2>3, <2>4, <2>5 DEF OpenAt
  <2>7. \A u \in OpenAt(disk.map, r.off) : u = y
    BY <2>6, OneOpen
  <2>. QED BY <2>1, <2>2, <2>6, <2>7 DEF Carry
<1>. QED BY <1>1, <1>2

\* The checkpoint written from it.
LEMMA CarriesOn ==
    ASSUME NEW map, IsMap(map), NEW v, NEW off \in Nat, NEW cs, Carry(v, map, off, cs),
           NEW ck, ck.off = off, ck.ext_csum = cs,
           cs # <<>> => ck.ext = GetExtent(map, off)
    PROVE  Carries(v, map, ck)
<1>. SUFFICES ASSUME cs # <<>> PROVE Carries(v, map, ck)
  BY DEF Carries
<1>1. PICK x : x \in OpenAt(map, off)
  BY DEF Carry
<1>2. x \in Extents /\ GetExtent(map, off) = {x}
  BY <1>1, OneOpen
<1>3. /\ cs = Cells(v, map, x.from, off) /\ x \in map /\ ~x.skip
      /\ x.from < off /\ off < End(x)
  BY <1>1 DEF Carry, OpenAt
<1>4. InData(map, x.from)
  BY <1>3, ExtentIs DEF InData
<1>. QED BY <1>2, <1>3, <1>4 DEF Carries

\* No extent is open at either end of a hole.
LEMMA HoleShuts ==
    ASSUME NEW map, IsMap(map), NEW off, Aligned(off), NEW size \in Nat, off < size,
           NEW h, h = HoleRun(map, size, off), h > 0
    PROVE  h \in Nat /\ OpenAt(map, off) = {} /\ OpenAt(map, off + h) = {}
<1>1. /\ h \in Nat /\ off \in Nat
      /\ \A b : Aligned(b) /\ off <= b /\ b < off + h => ~MappedBlock(map, b)
  BY HoleRunIs DEF Aligned
<1>2. ASSUME NEW x \in map, NEW c \in Nat, x.from <= c, c < End(x), off <= c, c < off + h
      PROVE  FALSE
  <2>1. PICK b \in Nat : /\ b = BlockOf(c) /\ Aligned(b) /\ b <= c /\ c < b + BlockLen
    BY BlockOfIs, Blocks
  <2>2. off <= b
    <3>. SUFFICES ASSUME b < off PROVE FALSE
      BY <1>1, <2>1
    <3>1. b + BlockLen <= off
      BY <2>1, Blocks
    <3>. QED BY <1>1, <1>2, <2>1, <3>1, BlockPos
  <2>3. b < off + h
    BY <1>1, <1>2, <2>1
  <2>4. x.from \in Nat /\ End(x) \in Nat
    BY ExtentIs
  <2>5. MappedBlock(map, b)
    BY <1>2, <2>1, <2>4, BlockPos DEF MappedBlock
  <2>. QED BY <1>1, <2>1, <2>2, <2>3, <2>5
<1>3. ASSUME NEW x \in OpenAt(map, off) PROVE FALSE
  <2>1. x \in map /\ x.from \in Nat /\ x.from < off /\ off < End(x)
    BY ExtentIs DEF OpenAt
  <2>. QED BY <1>1, <1>2, <2>1
<1>4. ASSUME NEW x \in OpenAt(map, off + h) PROVE FALSE
  <2>1. x \in map /\ x.from \in Nat /\ End(x) \in Nat /\ x.from < off + h /\ off + h < End(x)
    BY ExtentIs DEF OpenAt
  <2>2. PICK c \in Nat : c = off + h - 1
    BY <1>1
  <2>. QED BY <1>1, <1>2, <2>1, <2>2
<1>. QED BY <1>1, <1>3, <1>4

\* A buffer of the version that was listed.
Fresh ==
    /\ World(disk) /\ ctx.mtime = disk.ver /\ ctx.map \in Shape[disk.ver].maps
    /\ ctx.off \in Nat /\ ctx.off < FileSize /\ ctx.left = <<>> /\ ~Capped
    /\ Carry(disk.ver, ctx.map, ctx.off, ctx.ext_csum)

LEMMA FreshIs ==
    ASSUME Fresh
    PROVE  /\ IsMap(ctx.map) /\ disk.ver \in Versions
           /\ FileSize = Size(disk.ver) /\ FileSize \in Nat
           /\ BufferLen \in Nat /\ BufferLen > 0 /\ ctx.off + BufferLen <= FileSize
           /\ Buffer = Cells(disk.ver, ctx.map, ctx.off, ctx.off + BufferLen)
<1>1. /\ IsMap(ctx.map) /\ FileSize = Size(disk.ver) /\ FileSize \in Nat /\ disk.ver \in Versions
  BY Files DEF Fresh, World, FileSize
<1>2. /\ BufferLen \in Nat /\ BufferLen > 0 /\ ctx.off + BufferLen <= FileSize
  <2>1. /\ ctx.off \in Nat /\ ctx.off < FileSize /\ Size(disk.ver) = FileSize
        /\ ctx.left = <<>> /\ ~Capped
    BY <1>1 DEF Fresh
  <2>2. BufferLen \in Nat /\ (BufferLen = BlockLen \/ ctx.off + BufferLen = FileSize)
    BY <1>1, <2>1, BufferLenIs
  <2>3. ctx.off + BufferLen <= FileSize
    BY <1>1, <2>1, BufferEnds
  <2>. QED BY <1>1, <2>1, <2>2, <2>3, BlockPos
<1>3. PICK o \in Nat, n \in Nat, end \in Nat : o = ctx.off /\ n = BufferLen /\ end = o + n
  BY <1>2 DEF Fresh
<1>4. IsSeq(Buffer, n) /\ \A i \in 1 .. n : Buffer[i] = Cell(disk.ver, disk.map, o + i - 1)
  BY <1>3, BufferIs DEF Fresh
<1>5. end - o = n
  BY <1>3
<1>6. IsCells(Buffer, disk.ver, disk.map, o, end)
  BY <1>4, <1>5 DEF IsCells
<1>7. CellsAreSo(Buffer, disk.ver, disk.map, o, end)
  BY CellsAre, Zenon
<1>8. Buffer = Cells(disk.ver, disk.map, o, end)
  BY <1>3, <1>6, <1>7 DEF CellsAreSo
<1>9. Cells(disk.ver, disk.map, o, end) = Cells(disk.ver, ctx.map, o, end)
  BY <1>1, SameCells DEF Fresh, World
<1>. QED BY <1>1, <1>2, <1>3, <1>8, <1>9

LEMMA ReachedIs ==
    ASSUME Fresh, NEW e \in Reached(BufferLen), NEW to, to = ctx.off + BufferLen
    PROVE  /\ e \in ctx.map /\ ~e.skip /\ e.from \in Nat /\ End(e) \in Nat /\ e.from < End(e)
           /\ e.from < to /\ End(e) > ctx.off
BY FreshIs, ExtentIs DEF Reached

\* What is digested of an extent up to the end of the buffer.
LEMMA DigestIs ==
    ASSUME Fresh, NEW e \in Reached(BufferLen), NEW to \in Nat, to = ctx.off + BufferLen,
           NEW hi \in Nat, hi = IF to <= End(e) THEN to ELSE End(e)
    PROVE  ExtentDigest(e, BufferLen) = Cells(disk.ver, ctx.map, e.from, hi)
<1>1. /\ e \in ctx.map /\ ~e.skip /\ e.from \in Nat /\ End(e) \in Nat /\ e.from < End(e)
      /\ e.from < to /\ End(e) > ctx.off
  BY ReachedIs
<1>2. /\ IsMap(ctx.map) /\ BufferLen \in Nat /\ BufferLen > 0 /\ ctx.off \in Nat
  BY FreshIs DEF Fresh
<1>0. PICK v, m : v = disk.ver /\ m = ctx.map
  OBVIOUS
<1>3. PICK o \in Nat, from \in Nat :
         v = disk.ver /\ m = ctx.map /\ o = ctx.off /\ from = e.from
  BY <1>0, <1>1, <1>2
<1>4. Buffer = Cells(v, m, o, to)
  BY <1>3, FreshIs
<1>5. PICK lo \in Nat : lo = IF o <= from THEN from ELSE o
  OBVIOUS
<1>6. o <= lo /\ lo <= hi /\ hi <= to
  BY <1>1, <1>2, <1>3, <1>5
<1>7. Part(e, BufferLen) = Cells(v, m, lo, hi)
  <2>1. lo = Max({ctx.off, e.from})
    BY <1>3, <1>5, MaxOfTwo
  <2>2. hi = Min({ctx.off + BufferLen, End(e)})
    BY <1>1, MinOfTwo
  <2>3. Part(e, BufferLen) = SubSeq(Buffer, lo - o + 1, hi - o)
    BY <1>3, <2>1, <2>2 DEF Part
  <2>4. SubOf(v, m, o, to, lo, hi)
    BY <1>6, CellsPart
  <2>. QED BY <1>4, <2>3, <2>4 DEF SubOf
<1>8. ASSUME NEW y \in OpenAt(m, o) PROVE y \in Reached(BufferLen) /\ y.from < o
  <2>1. y \in ctx.map /\ ~y.skip /\ y.from \in Nat /\ y.from < o /\ o < End(y)
    BY <1>2, <1>3, ExtentIs DEF OpenAt
  <2>. QED BY <1>2, <1>3, <2>1 DEF Reached
<1>9. CASE \A f \in Reached(BufferLen) : e.from <= f.from
  <2>1. ExtentDigest(e, BufferLen) = ctx.ext_csum \o Part(e, BufferLen)
    BY <1>9 DEF ExtentDigest
  <2>2. CASE from < o
    <3>1. e \in OpenAt(m, o)
      BY <1>1, <1>3, <2>2 DEF OpenAt
    <3>2. ctx.ext_csum = Cells(v, m, from, o)
      BY <1>3, <3>1 DEF Fresh, Carry
    <3>3. JoinsTo(v, m, from, o, hi)
      BY <1>6, <1>5, <2>2, CellsJoin
    <3>. QED BY <1>3, <1>5, <1>7, <2>1, <2>2, <3>2, <3>3 DEF JoinsTo
  <2>3. CASE ~(from < o)
    <3>1. OpenAt(m, o) = {}
      <4>. SUFFICES ASSUME NEW y \in OpenAt(m, o) PROVE FALSE
        OBVIOUS
      <4>1. y.from \in Nat
        BY <1>8, ReachedIs
      <4>. QED BY <1>3, <1>8, <1>9, <2>3, <4>1
    <3>2. ctx.ext_csum = <<>>
      BY <1>3, <3>1 DEF Fresh, Carry
    <3>3. Cells(v, m, from, from) = <<>>
      BY DEF Cells
    <3>4. JoinsTo(v, m, from, from, hi)
      BY <1>5, <1>6, <2>3, CellsJoin
    <3>. QED BY <1>3, <1>5, <1>7, <2>1, <2>3, <3>2, <3>3, <3>4 DEF JoinsTo
  <2>. QED BY <2>2, <2>3
<1>10. CASE ~\A f \in Reached(BufferLen) : e.from <= f.from
  <2>1. PICK f \in Reached(BufferLen) : ~(e.from <= f.from)
    BY <1>10
  <2>2. f \in ctx.map /\ f.from \in Nat /\ End(f) \in Nat /\ End(f) > ctx.off
    BY <2>1, ReachedIs
  <2>3. End(f) <= e.from \/ End(e) <= f.from
    BY <1>1, <1>2, <2>1, <2>2 DEF IsMap
  <2>4. o <= from
    BY <1>1, <1>3, <2>1, <2>2, <2>3
  <2>. QED BY <1>3, <1>5, <1>7, <1>10, <2>4 DEF ExtentDigest
<1>. QED BY <1>9, <1>10

LEMMA MapEnds ==
    ASSUME NEW map, IsMap(map)
    PROVE  MapEnd(map) \in Nat /\ \A e \in map : End(e) <= MapEnd(map)
<1>1. PICK n \in Nat : ExistsSurjection(1 .. n, map)
  BY FS_NatSurjection DEF IsMap
<1>2. PICK f : f \in [1 .. n -> map] /\ \A e \in map : \E i \in 1 .. n : f[i] = e
  BY <1>1 DEF ExistsSurjection, Surjection
<1>. DEFINE P == {i \in 0 .. n : \E b \in Nat : \A j \in 1 .. i : End(f[j]) <= b}
<1>3. 0 \in P
  OBVIOUS
<1>4. ASSUME NEW i \in 1 .. n, i - 1 \in P PROVE i \in P
  <2>1. PICK b \in Nat : \A j \in 1 .. i - 1 : End(f[j]) <= b
    BY <1>4
  <2>2. PICK x \in Nat : x = End(f[i])
    BY <1>2, ExtentIs
  <2>3. PICK c \in Nat : b <= c /\ x <= c
    OBVIOUS
  <2>4. ASSUME NEW j \in 1 .. i PROVE End(f[j]) <= c
    <3>1. End(f[j]) \in Nat
      BY <1>2, ExtentIs
    <3>2. j = i \/ j \in 1 .. i - 1
      OBVIOUS
    <3>. QED BY <2>1, <2>2, <2>3, <3>1, <3>2
  <2>. QED BY <2>4
<1>. HIDE DEF P
<1>5. n \in P
  BY <1>3, <1>4, CountUp
<1>6. PICK b \in Nat : \A j \in 1 .. n : End(f[j]) <= b
  BY <1>5 DEF P
<1>. DEFINE T == {0} \cup {End(e) : e \in map}
<1>7. T \in SUBSET (0 .. b) /\ T # {}
  <2>1. ASSUME NEW e \in map PROVE End(e) \in 0 .. b
    <3>1. End(e) \in Nat
      BY ExtentIs
    <3>. QED BY <1>2, <1>6, <3>1
  <2>. QED BY <2>1
<1>8. Max(T) \in T /\ \A y \in T : y <= Max(T)
  BY <1>7, MaxIn
<1>. QED BY <1>7, <1>8 DEF MapEnd

\* Reading on: what ends is stored with its digest, what goes on is carried.
LEMMA ReadCarries ==
    ASSUME Fresh, NEW to \in Nat, to = ctx.off + BufferLen
    PROVE  /\ \A s \in ExtentRows(BufferLen) : ExtentIsContent(s, disk.ver, disk.map)
           /\ to < FileSize => Carry(disk.ver, ctx.map, to, ExtentCsum(BufferLen))
<1>1. /\ IsMap(ctx.map) /\ BufferLen \in Nat /\ BufferLen > 0 /\ ctx.off \in Nat
      /\ FileSize \in Nat /\ FileSize = Size(disk.ver) /\ to <= FileSize /\ disk.ver \in Versions
  BY FreshIs DEF Fresh
<1>2. ASSUME NEW e \in Reached(BufferLen)
      PROVE  /\ e \in ctx.map /\ ~e.skip /\ e.from \in Nat /\ End(e) \in Nat /\ e.from < End(e)
             /\ e.from < to /\ End(e) > ctx.off
             /\ Ended(e, BufferLen) <=> (End(e) <= to \/ FileSize <= to)
  <2>1. /\ e \in ctx.map /\ ~e.skip /\ e.from \in Nat /\ End(e) \in Nat /\ e.from < End(e)
        /\ e.from < to /\ End(e) > ctx.off
    BY ReachedIs
  <2>2. Ended(e, BufferLen) <=> Min({End(e), FileSize}) <= to
    BY DEF Ended
  <2>. QED BY <1>1, <2>1, <2>2, MinOfTwo
<1>3. ASSUME NEW s \in ExtentRows(BufferLen) PROVE ExtentIsContent(s, disk.ver, disk.map)
  <2>1. PICK e \in Reached(BufferLen) :
          /\ Ended(e, BufferLen)
          /\ s = [loff |-> e.from, len |-> e.len, digest |-> ExtentDigest(e, BufferLen)]
    BY DEF ExtentRows
  <2>2. /\ e.from \in Nat /\ End(e) \in Nat /\ (End(e) <= to \/ FileSize <= to)
    BY <1>2, <2>1
  <2>3. PICK hi \in Nat : hi = IF to <= End(e) THEN to ELSE End(e)
    BY <2>2
  <2>4. ExtentDigest(e, BufferLen) = Cells(disk.ver, ctx.map, e.from, hi)
    BY <2>3, DigestIs
  <2>5. hi = Min({End(e), FileSize})
    BY <1>1, <2>2, <2>3, MinOfTwo
  <2>6. Cells(disk.ver, ctx.map, e.from, hi) = Cells(disk.ver, disk.map, e.from, hi)
    BY <1>1, <2>2, SameCells DEF Fresh, World
  <2>7. s.loff = e.from /\ s.loff + s.len = End(e) /\ s.digest = ExtentDigest(e, BufferLen)
    BY <2>1 DEF End
  <2>. QED BY <1>1, <2>4, <2>5, <2>6, <2>7 DEF ExtentIsContent
<1>4. ASSUME NEW x \in OpenAt(ctx.map, to)
      PROVE  /\ x \in Reached(BufferLen) /\ x.from < to /\ to < End(x)
             /\ x.from \in Nat /\ End(x) \in Nat
  <2>1. /\ x \in ctx.map /\ ~x.skip /\ x.from \in Nat /\ End(x) \in Nat
        /\ x.from < to /\ to < End(x)
    BY <1>1, ExtentIs DEF OpenAt
  <2>. QED BY <1>1, <2>1 DEF Reached
<1>5. ASSUME to < FileSize PROVE Carry(disk.ver, ctx.map, to, ExtentCsum(BufferLen))
  <2>1. CASE to > MapEnd(ctx.map)
    <3>1. ASSUME NEW x \in OpenAt(ctx.map, to) PROVE FALSE
      <4>1. End(x) <= MapEnd(ctx.map)
        BY <1>1, <1>2, <1>4, MapEnds
      <4>2. MapEnd(ctx.map) \in Nat
        BY <1>1, MapEnds
      <4>. QED BY <1>4, <2>1, <4>1, <4>2
    <3>2. ExtentCsum(BufferLen) = <<>>
      BY <2>1 DEF ExtentCsum
    <3>. QED BY <3>1, <3>2 DEF Carry
  <2>2. CASE ~(to > MapEnd(ctx.map)) /\ Reached(BufferLen) = {}
    <3>1. OpenAt(ctx.map, to) = {}
      BY <1>4, <2>2
    <3>2. ASSUME NEW x \in OpenAt(ctx.map, ctx.off) PROVE FALSE
      <4>1. x \in ctx.map /\ ~x.skip /\ x.from \in Nat /\ x.from < ctx.off /\ ctx.off < End(x)
        BY <1>1, ExtentIs DEF OpenAt
      <4>. QED BY <1>1, <2>2, <4>1 DEF Reached
    <3>3. ctx.ext_csum = <<>>
      BY <3>2 DEF Fresh, Carry
    <3>. QED BY <2>2, <3>1, <3>3 DEF ExtentCsum, Carry
  <2>3. CASE ~(to > MapEnd(ctx.map)) /\ Reached(BufferLen) # {}
    <3>. DEFINE last == CHOOSE e \in Reached(BufferLen) :
                           \A f \in Reached(BufferLen) : f.from <= e.from
    <3>1. last \in Reached(BufferLen) /\ \A f \in Reached(BufferLen) : f.from <= last.from
      <4>. DEFINE T == {e.from : e \in Reached(BufferLen)}
      <4>1. T \in SUBSET (0 .. to) /\ T # {}
        BY <1>2, <2>3
      <4>2. Max(T) \in T /\ \A y \in T : y <= Max(T)
        BY <4>1, MaxIn
      <4>3. \E e \in Reached(BufferLen) : \A f \in Reached(BufferLen) : f.from <= e.from
        BY <4>2
      <4>. QED BY <4>3
    <3>2. ExtentCsum(BufferLen) = IF Ended(last, BufferLen) THEN <<>>
                                  ELSE ExtentDigest(last, BufferLen)
      BY <2>3 DEF ExtentCsum
    <3>. HIDE DEF last
    <3>3. ASSUME NEW x \in OpenAt(ctx.map, to) PROVE x = last
      <4>1. /\ x \in ctx.map /\ last \in ctx.map /\ x.from \in Nat /\ x.from <= last.from
            /\ to < End(x) /\ End(x) \in Nat /\ last.from \in Nat /\ last.from < to
            /\ last.from < End(last) /\ End(last) \in Nat
        BY <1>2, <1>4, <3>1
      <4>2. x # last => End(x) <= last.from \/ End(last) <= x.from
        BY <1>1, <4>1 DEF IsMap
      <4>. QED BY <4>1, <4>2
    <3>4. CASE Ended(last, BufferLen)
      <4>1. OpenAt(ctx.map, to) = {}
        BY <1>2, <1>4, <1>5, <1>1, <3>1, <3>3, <3>4
      <4>. QED BY <3>2, <3>4, <4>1 DEF Carry
    <3>5. CASE ~Ended(last, BufferLen)
      <4>1. /\ last \in ctx.map /\ ~last.skip /\ last.from < to /\ to < End(last)
            /\ End(last) \in Nat
        BY <1>2, <3>1, <3>5
      <4>2. last \in OpenAt(ctx.map, to)
        BY <4>1 DEF OpenAt
      <4>3. ExtentDigest(last, BufferLen) = Cells(disk.ver, ctx.map, last.from, to)
        <5>1. to = IF to <= End(last) THEN to ELSE End(last)
          BY <4>1
        <5>. QED BY <3>1, <5>1, DigestIs
      <4>. QED BY <3>2, <3>3, <3>5, <4>2, <4>3 DEF Carry
    <3>. QED BY <3>4, <3>5
  <2>. QED BY <2>1, <2>2, <2>3
<1>. QED BY <1>3, <1>5

-----------------------------------------------------------------------------
(* The extents of the file, when all runs digest extents or none does.  A   *)
(* run of the other kind would go on from a checkpoint with the digest of   *)
(* an extent as it found it.                                                *)

ByExtent == "whole" \notin Modes
OneKind == ByExtent \/ Modes \subseteq {"whole"}

Looping == {"read", "save", "leave"}

AllContent(extents, w) ==
    \A e \in extents : /\ e.loff \in Nat /\ e.len \in Nat
                       /\ ExtentIsContent(e, w.ver, w.map)

Kept(d, w) ==
    /\ d.row.mtime = w.ver => AllContent(d.extents, w)
    /\ ByExtent /\ d.ck.mtime = w.ver => Carries(w.ver, w.map, d.ck)

Carrier ==
    /\ pc \in Before => ctx.extents = {} /\ ctx.ext_csum = <<>>
    /\ ByExtent /\ pc = "open" /\ ctx.mtime = disk.ver =>
          Carries(disk.ver, disk.map, ctx.resume)
    /\ pc \in Inside /\ ctx.mtime = disk.ver => AllContent(ctx.extents, disk)
    /\ ByExtent /\ pc \in Looping /\ ctx.mtime = disk.ver /\ ctx.off < FileSize =>
          Carry(disk.ver, ctx.map, ctx.off, ctx.ext_csum)
    /\ pc \in {"save", "leave"} /\ ctx.mtime = disk.ver => ctx.off < FileSize
    /\ ByExtent => run.mode # "whole"
    /\ ~ByExtent /\ pc # "down" => run.mode = "whole"

Contents == Kept(db, disk) /\ Kept(batch, disk) /\ Carrier

LEMMA InitContents == Init => Contents
<1>. SUFFICES ASSUME Init PROVE Contents
  OBVIOUS
<1>1. disk.ver # 0
  BY Files DEF Init
<1>2. Kept(NoFile, disk)
  BY <1>1 DEF Kept, NoFile, NoRow, NoCheckpoint
<1>3. Carrier
  BY DEF Init, Carrier, Before, Inside, Looping, Down
<1>. QED BY <1>2, <1>3 DEF Init, Contents

LEMMA KeptSame ==
    ASSUME NEW w, w.ver # 0, NEW d, Kept(d, w),
           NEW z, z.row.mtime = d.row.mtime, z.extents \subseteq d.extents,
           z.ck = d.ck \/ z.ck = NoCheckpoint
    PROVE  Kept(z, w)
<1>1. NoCheckpoint.mtime = 0
  BY DEF NoCheckpoint
<1>. QED BY <1>1 DEF Kept, AllContent

LEMMA UnitsKept ==
    ASSUME NEW w, w.ver # 0, NEW d, IsFile(d), Kept(d, w)
    PROVE  /\ Kept(NoFile, w) /\ Kept(Prune(d), w)
           /\ \A t : Kept([NoFile EXCEPT !.row.mtime = t], w)
           /\ \A off : IsFile(RemoveFrom(d, off)) /\ Kept(RemoveFrom(d, off), w)
           /\ \A off : \A p \in PartlyRemoved(d, off) : IsFile(p) /\ Kept(p, w)
           /\ Kept(RemoveCheckpoint(d), w)
           /\ \A bs : Kept(Stored(d, bs, {}), w)
<1>1. Kept(NoFile, w)
  BY DEF Kept, NoFile, NoRow, NoCheckpoint
<1>2. Kept(Prune(d), w)
  BY <1>1 DEF Prune
<1>3. ASSUME NEW t, NEW z, z = [NoFile EXCEPT !.row.mtime = t] PROVE Kept(z, w)
  <2>1. z.extents = {} /\ z.ck.mtime = 0
    BY <1>3 DEF NoFile, NoCheckpoint
  <2>. QED BY <2>1 DEF Kept, AllContent
<1>4. ASSUME NEW off, NEW z, z = RemoveFrom(d, off) PROVE IsFile(z) /\ Kept(z, w)
  <2>1. IsFile(z) /\ z.row = d.row /\ z.ck = d.ck /\ z.extents \subseteq d.extents
    BY <1>4 DEF RemoveFrom, IsFile
  <2>. QED BY <2>1, KeptSame
<1>5. ASSUME NEW off, NEW p \in PartlyRemoved(d, off) PROVE IsFile(p) /\ Kept(p, w)
  <2>0. PICK r : r = RemoveFrom(d, off)
    OBVIOUS
  <2>1. /\ r = RemoveFrom(d, off) /\ IsFile(r) /\ r.row = d.row /\ r.ck = d.ck
        /\ Kept(r, w)
    BY <1>4, <2>0 DEF RemoveFrom, IsFile
  <2>2. CASE p = [r EXCEPT !.extents = d.extents]
    <3>1. IsFile(p) /\ p.row = d.row /\ p.ck = d.ck /\ p.extents = d.extents
      BY <2>1, <2>2 DEF IsFile
    <3>. QED BY <3>1, KeptSame
  <2>. QED BY <2>1, <2>2 DEF PartlyRemoved
<1>6. ASSUME NEW z, z = RemoveCheckpoint(d) PROVE Kept(z, w)
  <2>1. IsFile(z) /\ z.row = d.row /\ z.ck = NoCheckpoint /\ z.extents = d.extents
    BY <1>6 DEF RemoveCheckpoint, IsFile
  <2>. QED BY <2>1, KeptSame
<1>7. ASSUME NEW bs, NEW z, z = Stored(d, bs, {}) PROVE Kept(z, w)
  <2>1. IsFile(z) /\ z.row = d.row /\ z.ck = d.ck /\ z.extents = d.extents
    BY <1>7 DEF Stored, IsFile
  <2>. QED BY <2>1, KeptSame
<1>. QED BY <1>1, <1>2, <1>3, <1>4, <1>5, <1>6, <1>7

\* Units keep what they are given.
LEMMA KeptUnits ==
    ASSUME Agree, Kept(db, disk), Kept(batch, disk)
    PROVE  /\ \A d : Kept(d, disk) /\ (UnitEnd(d) \/ UnitFlush(d)) =>
                 Kept(db', disk) /\ Kept(batch', disk) /\ run'.mode = run.mode
           /\ \A ds : (\A d \in ds : Kept(d, disk)) /\ UnitEndWithout(ds) =>
                 Kept(db', disk) /\ Kept(batch', disk) /\ run'.mode = run.mode
           /\ UnitFails \/ BatchLost =>
                 Kept(db', disk) /\ Kept(batch', disk) /\ run'.mode = run.mode
<1>1. BatchLost => run'.mode = run.mode
  BY DEF BatchLost, Agree, Writer, IsRun
<1>. QED BY <1>1 DEF UnitEnd, UnitFlush, UnitEndWithout, UnitFails, BatchLost

LEMMA ListingContents ==
    ASSUME OneKind, Agree, Contents, StartRun \/ Listing
    PROVE  Contents'
<1>0. /\ disk' = disk /\ disk.ver # 0 /\ IsFile(db) /\ IsFile(batch)
      /\ Kept(db, disk) /\ Kept(batch, disk)
      /\ ByExtent => run.mode # "whole"
      /\ ~ByExtent /\ pc # "down" => run.mode = "whole"
  BY Files DEF Agree, World, Right, Contents, Carrier, StartRun, Listing, ListFile,
               TakeCheckpoint, RefuseCheckpoint, StoreRow
<1>1. CASE StartRun
  <2>1. Kept(db', disk) /\ Kept(batch', disk)
    BY <1>0, <1>1, UnitsKept DEF StartRun
  <2>2. pc' = "list" /\ run'.mode \in Modes
    BY <1>1 DEF StartRun, Down
  <2>3. Carrier'
    BY <2>2 DEF Carrier, Before, Inside, Looping, OneKind, ByExtent
  <2>. QED BY <1>0, <2>1, <2>3 DEF Contents
<1>2. CASE ListFile
  <2>1. /\ UNCHANGED <<db, batch, run>> /\ pc' \in {"done", "resume", "store"} /\ pc # "down"
        /\ ctx'.extents = {} /\ ctx'.ext_csum = <<>>
    BY <1>2 DEF ListFile, Idle
  <2>2. Carrier'
    BY <1>0, <2>1 DEF Carrier, Inside, Looping
  <2>. QED BY <1>0, <2>1, <2>2 DEF Contents
<1>3. CASE TakeCheckpoint
  <2>1. /\ pc = "resume" /\ pc' = "open" /\ ctx.extents = {} /\ ctx.ext_csum = <<>>
        /\ batch.ck.mtime = ctx.mtime
    BY <1>3 DEF TakeCheckpoint, Usable, Contents, Carrier, Before
  <2>2. Kept(db', disk) /\ Kept(batch', disk) /\ run'.mode = run.mode
    <3>1. CASE UnitEnd(RemoveFrom(batch, batch.ck.off))
      BY <1>0, <3>1, KeptUnits, UnitsKept
    <3>2. CASE UnitEndWithout(PartlyRemoved(batch, batch.ck.off))
      BY <1>0, <3>2, KeptUnits, UnitsKept
    <3>3. CASE BatchLost
      BY <1>0, <3>3, KeptUnits
    <3>. QED BY <1>3, <3>1, <3>2, <3>3 DEF TakeCheckpoint
  <2>3. /\ ctx'.extents = {} /\ ctx'.ext_csum = <<>> /\ ctx'.resume = batch.ck
        /\ ctx'.mtime = ctx.mtime
    BY <1>3, <2>1 DEF TakeCheckpoint, Agree, Reader, IsContext
  <2>4. Carrier'
    BY <1>0, <2>1, <2>2, <2>3 DEF Carrier, Inside, Looping, Kept
  <2>. QED BY <1>0, <2>2, <2>4 DEF Contents
<1>4. CASE RefuseCheckpoint
  <2>1. pc = "resume" /\ pc' = "store" /\ ctx' = ctx
    BY <1>4 DEF RefuseCheckpoint
  <2>2. Kept(db', disk) /\ Kept(batch', disk) /\ run'.mode = run.mode
    BY <1>0, <1>4, KeptUnits, UnitsKept DEF RefuseCheckpoint
  <2>3. Carrier'
    BY <1>0, <2>1, <2>2 DEF Contents, Carrier, Before, Inside, Looping
  <2>. QED BY <1>0, <2>2, <2>3 DEF Contents
<1>5. CASE StoreRow
  <2>1. pc = "store" /\ pc' \in {"open", "done"} /\ ctx' = ctx /\ ctx.resume = NoCheckpoint
    BY <1>5 DEF StoreRow, Agree, Reader
  <2>2. Kept(db', disk) /\ Kept(batch', disk) /\ run'.mode = run.mode
    BY <1>0, <1>5, KeptUnits, UnitsKept DEF StoreRow
  <2>3. Carries(disk.ver, disk.map, NoCheckpoint)
    BY DEF Carries, NoCheckpoint
  <2>4. Carrier'
    BY <1>0, <2>1, <2>2, <2>3 DEF Contents, Carrier, Before, Inside, Looping
  <2>. QED BY <1>0, <2>2, <2>4 DEF Contents
<1>. QED BY <1>1, <1>2, <1>3, <1>4, <1>5 DEF Listing

LEMMA OpeningContents ==
    ASSUME OneKind, Agree, Mapped, Contents, SkipFile \/ OpenFile \/ Decline
    PROVE  Contents'
<1>0. /\ disk' = disk /\ disk.ver # 0 /\ IsFile(db) /\ IsFile(batch) /\ IsMap(disk.map)
      /\ Kept(db, disk) /\ Kept(batch, disk)
      /\ ByExtent => run.mode # "whole"
      /\ ~ByExtent /\ pc # "down" => run.mode = "whole"
      /\ pc = "open" /\ ctx.extents = {} /\ ctx.ext_csum = <<>>
  BY Files DEF Agree, World, Right, Contents, Carrier, Before, SkipFile, OpenFile, Decline
<1>1. CASE SkipFile
  <2>1. pc' = "done" /\ Kept(db', disk) /\ Kept(batch', disk) /\ run'.mode = run.mode
    BY <1>0, <1>1, KeptUnits DEF SkipFile
  <2>2. Carrier'
    BY <1>0, <2>1 DEF Carrier, Before, Inside, Looping
  <2>. QED BY <1>0, <2>1, <2>2 DEF Contents
<1>2. CASE OpenFile
  <2>1. pc' = "read" /\ UNCHANGED <<db, batch, run>>
    BY <1>2 DEF OpenFile
  <2>2. /\ ctx'.mtime = ctx.mtime /\ ctx'.map = disk.map /\ ctx'.extents = {}
        /\ ctx'.off = ctx.resume.off /\ ctx'.ext_csum = ctx.resume.ext_csum
    BY <1>0, <1>2 DEF OpenFile, Agree, Reader, IsContext
  <2>3. ASSUME ByExtent, ctx.mtime = disk.ver
        PROVE  Carry(disk.ver, disk.map, ctx.resume.off, ctx.resume.ext_csum)
    <3>1. ctx.resume.off \in Nat /\ Carries(disk.ver, disk.map, ctx.resume)
      BY <1>0, <2>3 DEF Agree, Reader, Sound, Contents, Carrier
    <3>2. CASE Resuming
      <4>1. ~LayoutMoved(ctx.resume) /\ ~NoExtentState(ctx.resume)
        BY <1>2, <3>2 DEF OpenFile
      <4>. QED BY <1>0, <2>3, <3>1, <4>1, CarryAdopted
    <3>3. CASE ~Resuming
      <4>1. ctx.resume.off = 0 /\ ctx.resume.ext_csum = <<>>
        BY <3>3 DEF Resuming, NoCheckpoint
      <4>. QED BY <1>0, <4>1, CarryStart
    <3>. QED BY <3>2, <3>3
  <2>4. Carrier'
    BY <1>0, <2>1, <2>2, <2>3 DEF Carrier, AllContent, Before, Inside, Looping
  <2>. QED BY <1>0, <2>1, <2>4 DEF Contents
<1>3. CASE Decline
  <2>1. pc' = "read" /\ ctx.off = 0
    BY <1>0, <1>3 DEF Decline, Agree, Reader, Before
  <2>2. Kept(db', disk) /\ Kept(batch', disk) /\ run'.mode = run.mode
    <3>1. PICK d : d = RemoveFrom(batch, 0) /\ IsFile(d) /\ Kept(d, disk)
      BY <1>0, UnitsKept
    <3>2. Kept(RemoveCheckpoint(d), disk)
      BY <1>0, <3>1, UnitsKept
    <3>3. PICK ds : ds = {d, batch} \cup {RemoveCheckpoint(x) : x \in PartlyRemoved(batch, 0)}
      OBVIOUS
    <3>4. ASSUME NEW p \in ds PROVE Kept(p, disk)
      <4>1. CASE p \in {d, batch}
        BY <1>0, <3>1, <4>1
      <4>2. CASE p \notin {d, batch}
        <5>1. PICK x \in PartlyRemoved(batch, 0) : p = RemoveCheckpoint(x)
          BY <3>3, <4>2
        <5>2. IsFile(x) /\ Kept(x, disk)
          BY <1>0, <5>1, UnitsKept
        <5>. QED BY <1>0, <5>1, <5>2, UnitsKept
      <4>. QED BY <4>1, <4>2
    <3>5. UnitEnd(RemoveCheckpoint(d)) \/ UnitEndWithout(ds) \/ BatchLost
      BY <1>3, <3>1, <3>3 DEF Decline
    <3>. QED BY <1>0, <3>2, <3>4, <3>5, KeptUnits
  <2>3. /\ ctx'.mtime = ctx.mtime /\ ctx'.map = disk.map /\ ctx'.extents = {}
        /\ ctx'.off = 0 /\ ctx'.ext_csum = <<>>
    BY <1>0, <1>3, <2>1 DEF Decline, Agree, Reader, IsContext
  <2>4. Carry(disk.ver, disk.map, 0, <<>>)
    BY <1>0, CarryStart
  <2>5. Carrier'
    BY <1>0, <2>1, <2>2, <2>3, <2>4 DEF Carrier, AllContent, Before, Inside, Looping
  <2>. QED BY <1>0, <2>2, <2>5 DEF Contents
<1>. QED BY <1>1, <1>2, <1>3

LEMMA LoopContents ==
    ASSUME OneKind, Agree, Mapped, Contents,
           SkipHole \/ ReadBuffer \/ ReadToHole \/ FlushBlocks \/ FlushFails
    PROVE  Contents'
<1>0. /\ disk' = disk /\ disk.ver # 0 /\ IsFile(db) /\ IsFile(batch) /\ World(disk)
      /\ Kept(db, disk) /\ Kept(batch, disk)
      /\ ByExtent => run.mode # "whole"
      /\ ~ByExtent => run.mode = "whole"
      /\ pc = "read" /\ ctx.off < FileSize
      /\ ctx.mtime = disk.ver => AllContent(ctx.extents, disk)
  BY Files DEF Agree, World, Right, Contents, Carrier, Inside, SkipHole, ReadBuffer,
               ReadToHole, FlushBlocks, FlushFails, Flushing, AtData
<1>1. ASSUME ctx.mtime = disk.ver
      PROVE  /\ IsMap(ctx.map) /\ ctx.map \in Shape[disk.ver].maps
             /\ Aligned(ctx.off) /\ ctx.off \in Nat /\ FileSize \in Nat
             /\ ctx.left = <<>> /\ ~Capped
             /\ ByExtent => Carry(disk.ver, ctx.map, ctx.off, ctx.ext_csum) /\ Fresh
  <2>1. /\ ctx.map \in Shape[disk.ver].maps /\ ctx.left = <<>>
        /\ Sound(disk.ver, disk.map, ctx.off, ctx.csum)
    BY <1>0, <1>1 DEF Agree, Reader, Inside
  <2>2. IsMap(ctx.map) /\ FileSize \in Nat
    BY <1>0, <1>1, <2>1, Files DEF World, FileSize
  <2>3. Aligned(ctx.off) /\ ~Capped
    BY <1>0, <1>1, <2>1, NotCapped DEF Sound, Begins, FileSize
  <2>4. ByExtent => Carry(disk.ver, ctx.map, ctx.off, ctx.ext_csum)
    BY <1>0, <1>1 DEF Contents, Carrier, Looping
  <2>. QED BY <1>0, <1>1, <2>1, <2>2, <2>3, <2>4 DEF Aligned, Fresh
<1>2. CASE SkipHole
  <2>1. PICK h : h = Hole
    OBVIOUS
  <2>2. UNCHANGED <<db, batch, run, pc>> /\ ctx'.off = ctx.off + h /\ ctx'.mtime = ctx.mtime
        /\ ctx'.map = ctx.map /\ ctx'.extents = ctx.extents /\ ctx'.ext_csum = ctx.ext_csum
    BY <1>2, <2>1 DEF SkipHole, Agree, Reader, IsContext
  <2>3. ASSUME ByExtent, ctx.mtime = disk.ver
        PROVE  Carry(disk.ver, ctx.map, ctx.off + h, ctx.ext_csum)
    <3>1. OpenAt(ctx.map, ctx.off) = {} /\ OpenAt(ctx.map, ctx.off + h) = {}
      BY <1>0, <1>1, <1>2, <2>1, <2>3, HoleShuts DEF SkipHole, Hole
    <3>. QED BY <1>1, <2>3, <3>1 DEF Carry
  <2>4. Carrier'
    BY <1>0, <2>2, <2>3 DEF Carrier, Before, Inside, Looping
  <2>. QED BY <1>0, <2>2, <2>4 DEF Contents
<1>3. CASE ReadBuffer
  <2>1. PICK to : to = ctx.off + BufferLen
    OBVIOUS
  <2>2. /\ UNCHANGED <<db, batch, run>> /\ pc' \in {"read", "save", "leave", "final", "done"}
        /\ ctx'.off = to /\ ctx'.mtime = ctx.mtime /\ ctx'.map = ctx.map
        /\ ctx'.extents = ctx.extents
                            \cup (IF run.mode # "whole" THEN ExtentRows(BufferLen) ELSE {})
        /\ ctx'.ext_csum = IF run.mode # "whole" THEN ExtentCsum(BufferLen) ELSE ctx.ext_csum
    BY <1>3, <2>1 DEF ReadBuffer, Consume, AfterBuffer, Agree, Reader, IsContext
  <2>3. FileSize' = FileSize
    BY <2>2 DEF FileSize
  <2>4. ASSUME ctx.mtime = disk.ver
        PROVE  /\ AllContent(ctx'.extents, disk)
               /\ ByExtent /\ to < FileSize => Carry(disk.ver, ctx.map, to, ctx'.ext_csum)
    <3>1. CASE ByExtent
      <4>1. Fresh
        BY <1>1, <2>4, <3>1
      <4>2. to \in Nat
        BY <2>1, <4>1, FreshIs DEF Fresh
      <4>3. /\ \A s \in ExtentRows(BufferLen) : ExtentIsContent(s, disk.ver, disk.map)
            /\ to < FileSize => Carry(disk.ver, ctx.map, to, ExtentCsum(BufferLen))
        BY <2>1, <4>1, <4>2, ReadCarries
      <4>4. \A s \in ExtentRows(BufferLen) : s.loff \in Nat /\ s.len \in Nat
        BY <1>1, <2>4, NewRows
      <4>. QED BY <1>0, <2>2, <2>4, <3>1, <4>3, <4>4 DEF AllContent
    <3>2. CASE ~ByExtent
      BY <1>0, <2>2, <2>4, <3>2 DEF AllContent
    <3>. QED BY <3>1, <3>2
  <2>5. ASSUME pc' \in {"save", "leave"}, ctx.mtime = disk.ver PROVE to < FileSize
    <3>1. BufferLen \in Nat /\ ctx.off + BufferLen <= FileSize
      BY <1>0, <1>1, <2>5, BufferEnds DEF FileSize
    <3>2. to # FileSize
      BY <1>3, <2>1, <2>5 DEF ReadBuffer
    <3>. QED BY <1>1, <2>1, <2>5, <3>1, <3>2
  <2>6. Carrier'
    BY <1>0, <2>2, <2>3, <2>4, <2>5 DEF Carrier, Before, Inside, Looping
  <2>. QED BY <1>0, <2>2, <2>6 DEF Contents
<1>5. CASE ReadToHole
  <2>1. /\ UNCHANGED <<db, batch, run>> /\ pc' \in {"read", "save", "leave", "done"}
        /\ ctx'.mtime = ctx.mtime
    BY <1>5 DEF ReadToHole, Consume, AfterBuffer, Agree, Reader, IsContext
  <2>2. ctx.mtime # disk.ver
    BY <1>1, <1>5 DEF ReadToHole
  <2>3. Carrier'
    BY <1>0, <2>1, <2>2 DEF Carrier, Before, Inside, Looping
  <2>. QED BY <1>0, <2>1, <2>3 DEF Contents
<1>6. CASE FlushFails
  <2>1. /\ Kept(db', disk) /\ Kept(batch', disk) /\ run'.mode = run.mode /\ pc' = "done"
    <3>1. BatchLost \/ UNCHANGED <<db, batch, run>>
      BY <1>6 DEF FlushFails, FlushRefused
    <3>. QED BY <1>0, <1>6, <3>1, KeptUnits DEF FlushFails
  <2>2. Carrier'
    BY <1>0, <2>1 DEF Carrier, Before, Inside, Looping
  <2>. QED BY <1>0, <2>1, <2>2 DEF Contents
<1>4. CASE FlushBlocks
  <2>1. Kept(db', disk) /\ Kept(batch', disk) /\ run'.mode = run.mode
    <3>1. Kept(Stored(batch, ctx.blocks, {}), disk)
      BY <1>0, UnitsKept
    <3>2. UnitEnd(Stored(batch, ctx.blocks, {}))
      BY <1>4 DEF FlushBlocks
    <3>. QED BY <1>0, <3>1, <3>2, KeptUnits
  <2>2. /\ pc' = "read" /\ ctx'.off = ctx.off /\ ctx'.mtime = ctx.mtime
        /\ ctx'.map = ctx.map /\ ctx'.extents = ctx.extents /\ ctx'.ext_csum = ctx.ext_csum
    BY <1>0, <1>4 DEF FlushBlocks, Agree, Reader, IsContext
  <2>3. Carrier'
    BY <1>0, <1>1, <2>1, <2>2 DEF Carrier, Before, Inside, Looping
  <2>. QED BY <1>0, <2>1, <2>3 DEF Contents
<1>. QED BY <1>2, <1>3, <1>4, <1>5, <1>6

LEMMA SameCarries ==
    ASSUME NEW v \in Versions, NEW m \in Shape[v].maps, NEW n \in Shape[v].maps,
           NEW ck, ck.off \in Nat, Carries(v, m, ck)
    PROVE  Carries(v, n, ck)
<1>. SUFFICES ASSUME ck.ext_csum # <<>> PROVE Carries(v, n, ck)
  BY DEF Carries
<1>1. PICK x \in Extents :
        /\ ck.ext = {x} /\ InData(m, x.from) /\ x.from < ck.off /\ ck.off < End(x)
        /\ ck.ext_csum = Cells(v, m, x.from, ck.off)
  BY DEF Carries
<1>2. /\ Cells(v, m, x.from, ck.off) = Cells(v, n, x.from, ck.off)
      /\ InData(n, x.from)
  BY <1>1, SameCells, SameCover DEF Extents
<1>. QED BY <1>1, <1>2 DEF Carries

LEMMA StoringContents ==
    ASSUME OneKind, Agree, Mapped, Contents, WriteCheckpoint \/ CheckpointFails \/ FinishFile
    PROVE  Contents'
<1>0. /\ disk' = disk /\ disk.ver # 0 /\ IsFile(db) /\ IsFile(batch) /\ World(disk)
      /\ Kept(db, disk) /\ Kept(batch, disk)
      /\ ByExtent => run.mode # "whole"
      /\ ~ByExtent => run.mode = "whole"
      /\ pc \in Inside
      /\ ctx.mtime = disk.ver => AllContent(ctx.extents, disk)
      /\ ~run.lost => batch.row.mtime = ctx.mtime
  BY Files DEF Agree, World, Right, Writer, Contents, Carrier, Inside, WriteCheckpoint,
               CheckpointFails, FinishFile, AtEnd
<1>1. CASE WriteCheckpoint
  <2>1. PICK y, z, c :
           /\ y = Stored(batch, ctx.blocks, ctx.extents) /\ c = Checkpoint
           /\ z = [y EXCEPT !.ck = c] /\ UnitFlush(z)
    BY <1>1 DEF WriteCheckpoint
  <2>2. /\ IsFile(y) /\ y.row = batch.row /\ y.extents = batch.extents \cup ctx.extents
    BY <1>0, <2>1 DEF Stored, IsFile
  <2>3. /\ z.row = batch.row /\ z.ck = c /\ z.extents = batch.extents \cup ctx.extents
    BY <2>1, <2>2 DEF IsFile
  <2>4. /\ c.off = ctx.off /\ c.mtime = ctx.mtime /\ c.ext_csum = ctx.ext_csum
        /\ c.ext_csum # <<>> => c.ext = GetExtent(ctx.map, ctx.off)
    BY <2>1 DEF Checkpoint
  <2>5. /\ pc \in {"save", "leave"} /\ pc' \in {"read", "done"} /\ ~run.lost
        /\ batch' = z /\ db' = z /\ run' = run
    BY <1>1, <2>1 DEF WriteCheckpoint, UnitFlush
  <2>6. ASSUME ByExtent, ctx.mtime = disk.ver
        PROVE  Carries(disk.ver, disk.map, c)
    <3>1. /\ ctx.map \in Shape[disk.ver].maps /\ ctx.off \in Nat /\ IsMap(ctx.map)
      BY <1>0, <2>6, Files DEF Agree, Reader, Sound, World
    <3>2. Carry(disk.ver, ctx.map, ctx.off, ctx.ext_csum)
      BY <2>5, <2>6 DEF Contents, Carrier, Looping
    <3>3. Carries(disk.ver, ctx.map, c)
      BY <2>4, <3>1, <3>2, CarriesOn
    <3>. QED BY <1>0, <2>4, <3>1, <3>3, SameCarries DEF World
  <2>7. Kept(z, disk)
    BY <1>0, <2>3, <2>4, <2>5, <2>6 DEF Kept, AllContent
  <2>8. /\ ctx'.off = ctx.off /\ ctx'.mtime = ctx.mtime /\ ctx'.map = ctx.map
        /\ ctx'.extents = {} /\ ctx'.ext_csum = ctx.ext_csum
    BY <1>1 DEF WriteCheckpoint, Agree, Reader, IsContext
  <2>9. FileSize' = FileSize
    BY <2>8 DEF FileSize
  <2>10. Carrier'
    BY <1>0, <2>5, <2>8, <2>9 DEF Contents, Carrier, AllContent, Before, Inside, Looping
  <2>. QED BY <1>0, <2>5, <2>7, <2>10 DEF Contents
<1>2. CASE CheckpointFails
  <2>1. PICK bs, es : Staged(bs, es) /\ es \subseteq ctx.extents
    BY <1>2 DEF CheckpointFails
  <2>2. /\ pc \in {"save", "leave"} /\ pc' \in {"read", "done"}
        /\ UNCHANGED <<db, batch, run, faults>> \/ UnitFails \/ BatchLost
    BY <1>2 DEF CheckpointFails
  <2>3. Kept(db', disk) /\ Kept(batch', disk) /\ run'.mode = run.mode
    BY <1>0, <2>2, KeptUnits
  <2>4. /\ ctx'.off = ctx.off /\ ctx'.mtime = ctx.mtime /\ ctx'.map = ctx.map
        /\ ctx'.extents = es /\ ctx'.ext_csum = ctx.ext_csum
    BY <2>1 DEF Staged, Agree, Reader, IsContext
  <2>5. FileSize' = FileSize
    BY <2>4 DEF FileSize
  <2>6. Carrier'
    BY <1>0, <2>1, <2>2, <2>3, <2>4, <2>5
       DEF Contents, Carrier, AllContent, Before, Inside, Looping
  <2>. QED BY <1>0, <2>3, <2>6 DEF Contents
<1>3. CASE FinishFile
  <2>1. Kept(db', disk) /\ Kept(batch', disk) /\ run'.mode = run.mode
    <3>1. CASE UnitEnd(Finished)
      <4>1. PICK y, z, c, r :
               /\ y = Stored(batch, ctx.blocks, ctx.extents)
               /\ r = [y.row EXCEPT !.digest = ctx.csum, !.mode = run.mode]
               /\ c = IF ctx.last # 0 THEN NoCheckpoint ELSE y.ck
               /\ z = [y EXCEPT !.row = r, !.ck = c] /\ z = Finished
        BY DEF Finished
      <4>2. /\ IsFile(y) /\ y.row = batch.row /\ y.ck = batch.ck
            /\ y.extents = batch.extents \cup ctx.extents
        BY <1>0, <4>1 DEF Stored, IsFile
      <4>3. z.row = r /\ z.ck = c /\ z.extents = y.extents
        BY <4>1, <4>2 DEF IsFile
      <4>4. r.mtime = ctx.mtime /\ batch.row.mtime = ctx.mtime
        BY <1>0, <3>1, <4>1, <4>2 DEF UnitEnd, Agree, Right
      <4>5. NoCheckpoint.mtime = 0
        BY DEF NoCheckpoint
      <4>6. Kept(z, disk)
        BY <1>0, <4>1, <4>2, <4>3, <4>4, <4>5 DEF Kept, AllContent
      <4>. QED BY <3>1, <4>1, <4>6, KeptUnits, <1>0
    <3>2. CASE UNCHANGED <<db, batch, run, faults>> \/ UnitFails \/ BatchLost
      BY <1>0, <3>2, KeptUnits
    <3>. QED BY <1>3, <3>1, <3>2 DEF FinishFile
  <2>2. pc' = "done"
    BY <1>3 DEF FinishFile
  <2>3. Carrier'
    BY <1>0, <2>1, <2>2 DEF Carrier, Before, Inside, Looping
  <2>. QED BY <1>0, <2>1, <2>3 DEF Contents
<1>. QED BY <1>1, <1>2, <1>3

LEMMA WorldContents ==
    ASSUME OneKind, Agree, Mapped, Contents,
           \/ EndRun \/ Kill \/ Interrupt \/ OtherFiles
           \/ Rewrite \/ Defragment \/ UNCHANGED vars
    PROVE  Contents'
<1>0. /\ World(disk) /\ disk.ver \in Nat /\ disk.ver # 0 /\ Right(db, disk) /\ Right(batch, disk)
      /\ Kept(db, disk) /\ Kept(batch, disk)
  BY Files DEF Agree, World, Contents
<1>1. CASE EndRun \/ Kill
  <2>1. /\ disk' = disk /\ pc' = "down" /\ run' = Down
        /\ db' \in {db, batch} /\ batch' \in {db, batch}
    BY <1>1 DEF EndRun, Kill
  <2>2. Carrier'
    BY <2>1 DEF Carrier, Before, Inside, Looping, Down
  <2>. QED BY <1>0, <2>1, <2>2 DEF Contents
<1>2. CASE Interrupt \/ OtherFiles \/ UNCHANGED vars
  <2>1. UNCHANGED <<disk, ctx, pc>> /\ run'.mode = run.mode
    BY <1>2 DEF Interrupt, OtherFiles, UnitFlush, BatchLost, vars, Agree, Writer, IsRun
  <2>2. Kept(db', disk) /\ Kept(batch', disk)
    <3>1. CASE Interrupt \/ UNCHANGED vars
      BY <1>0, <3>1 DEF Interrupt, vars
    <3>2. CASE OtherFiles
      BY <1>0, <3>2, KeptUnits DEF OtherFiles
    <3>. QED BY <1>2, <3>1, <3>2
  <2>3. FileSize' = FileSize
    BY <2>1 DEF FileSize
  <2>4. Carrier'
    BY <2>1, <2>3 DEF Contents, Carrier
  <2>. QED BY <2>1, <2>2, <2>4 DEF Contents
<1>3. CASE Rewrite
  <2>1. PICK u : u = disk'
    OBVIOUS
  <2>2. UNCHANGED <<db, batch, run, ctx, pc>> /\ u.ver = disk.ver + 1
    BY <1>3, <2>1 DEF Rewrite
  <2>3. Kept(db, u) /\ Kept(batch, u)
    BY <1>0, <2>2 DEF Kept, Right
  <2>4. pc \in Before \cup Inside => ctx.mtime # u.ver
    BY <1>0, <2>2 DEF Agree, Reader
  <2>5. Carrier'
    BY <2>1, <2>2, <2>4 DEF Contents, Carrier, Before, Inside, Looping
  <2>. QED BY <2>1, <2>2, <2>3, <2>5 DEF Contents
<1>4. CASE Defragment
  <2>1. PICK u : u = disk'
    OBVIOUS
  <2>2. UNCHANGED <<db, batch, run, ctx, pc>> /\ u.ver = disk.ver /\ u.map \in Shape[u.ver].maps
    BY <1>0, <1>4, <2>1 DEF Defragment, World
  <2>3. ASSUME NEW es, AllContent(es, disk) PROVE AllContent(es, u)
    <3>1. ASSUME NEW e \in es PROVE ExtentIsContent(e, u.ver, u.map)
      <4>1. e.loff \in Nat /\ e.len \in Nat /\ ExtentIsContent(e, disk.ver, disk.map)
        BY <2>3 DEF AllContent
      <4>2. PICK end \in Nat : end = Min({e.loff + e.len, Size(disk.ver)})
        <5>1. PICK x \in Nat, y \in Nat : x = e.loff + e.len /\ y = Size(disk.ver)
          BY <1>0, <4>1, Files DEF World
        <5>2. Min({x, y}) \in Nat
          BY MinOfTwo
        <5>. QED BY <5>1, <5>2
      <4>3. Cells(disk.ver, disk.map, e.loff, end) = Cells(u.ver, u.map, e.loff, end)
        BY <1>0, <2>2, <4>1, SameCells DEF World
      <4>. QED BY <2>2, <4>1, <4>2, <4>3 DEF ExtentIsContent
    <3>. QED BY <2>3, <3>1 DEF AllContent
  <2>4. ASSUME NEW ck, ck.off \in Nat, Carries(disk.ver, disk.map, ck)
        PROVE  Carries(u.ver, u.map, ck)
    BY <1>0, <2>2, <2>4, SameCarries DEF World
  <2>5. Kept(db, u) /\ Kept(batch, u)
    BY <1>0, <2>2, <2>3, <2>4 DEF Kept, Right, Sound
  <2>6. FileSize' = FileSize
    BY <2>2 DEF FileSize
  <2>7. Carrier'
    BY <2>1, <2>2, <2>3, <2>4, <2>6 DEF Contents, Carrier, Agree, Reader, Sound
  <2>. QED BY <2>1, <2>2, <2>5, <2>7 DEF Contents
<1>. QED BY <1>1, <1>2, <1>3, <1>4

LEMMA ContentsStay ==
    OneKind /\ Agree /\ Mapped /\ Contents /\ [Next]_vars /\ ~astray' => Contents'
<1>1. CodeAsLength => astray'
  BY DEF CodeAsLength
<1>. QED BY <1>1, ListingContents, OpeningContents, LoopContents, StoringContents, WorldContents
         DEF Next, Hashing

\* Whatever runs, kills, signals, failing writes, rewrites and moves: the extent
\* digests of a file that counts as hashed are of what is in its extents now,
\* also of one that was digested in two pieces (process_extents(),
\* adopt_resume()), if all runs digest extents or none does, and as long as no
\* code of a failed block store has been taken as a length.
THEOREM ExtentsAreTrue ==
    ASSUME OneKind
    PROVE  Spec => [](~astray => ExtentsAreContent)
<1>. DEFINE Known == ~astray => Agree /\ Mapped /\ Contents
<1>1. Known => (~astray => ExtentsAreContent)
  BY DEF Contents, Kept, AllContent, ExtentsAreContent, UpToDate, Unchanged
<1>2. Init => Known
  BY InitAgree, InitKeys, InitContents
<1>3. Known /\ [Next]_vars => Known'
  BY NextAgree, MappedStays, ContentsStay, StaysAstray
<1>. HIDE DEF Known
<1>. QED BY <1>1, <1>2, <1>3, PTL DEF Spec

-----------------------------------------------------------------------------
(* Which rows cover what.  The data before an offset is in one row each, but *)
(* for that of the extent the offset is inside of, which is in none.        *)

Held(rows, c) == {e \in rows : e.loff <= c /\ c < e.loff + e.len}
Once(rows, c) == \E s : Held(rows, c) = {s}

Covers(rows, map, n, size) ==
    \A x \in map : \A c \in Nat : ~x.skip /\ x.from <= c /\ c < End(x) /\ c < n =>
        IF n < size /\ n < End(x) THEN Held(rows, c) = {} ELSE Once(rows, c)

\* The extent in progress when the checkpoint was written.
OpenCells(ck) == UNION {e.from .. ck.off - 1 : e \in ck.ext}

\* The same of a checkpoint, which may be of another map of the file.
Behind(rows, map, ck) ==
    \A c \in Nat : c < ck.off /\ InData(map, c) =>
        IF c \in OpenCells(ck) THEN Held(rows, c) = {} ELSE Once(rows, c)

LEMMA CoversHole ==
    ASSUME NEW map, IsMap(map), NEW off, Aligned(off), NEW size \in Nat, off < size,
           NEW h, h = HoleRun(map, size, off), h > 0,
           NEW rows, Covers(rows, map, off, size)
    PROVE  Covers(rows, map, off + h, size)
<1>1. /\ off \in Nat /\ h \in Nat
      /\ \A b : Aligned(b) /\ off <= b /\ b < off + h => ~MappedBlock(map, b)
      /\ OpenAt(map, off) = {} /\ OpenAt(map, off + h) = {}
  BY HoleRunIs, HoleShuts DEF Aligned
<1>. SUFFICES ASSUME NEW x \in map, NEW c \in Nat,
                     ~x.skip, x.from <= c, c < End(x), c < off + h
              PROVE  ~(off + h < End(x)) /\ Once(rows, c)
  BY DEF Covers
<1>2. x.from \in Nat /\ End(x) \in Nat
  BY ExtentIs
<1>3. c < off
  <2>. SUFFICES ASSUME off <= c PROVE FALSE
    BY <1>1
  <2>1. PICK b \in Nat : b = BlockOf(c) /\ Aligned(b) /\ b <= c /\ c < b + BlockLen
    BY BlockOfIs, Blocks
  <2>2. off <= b
    <3>1. b < off => b + BlockLen <= off
      BY <2>1, Blocks
    <3>. QED BY <1>1, <2>1, <3>1, BlockPos
  <2>3. MappedBlock(map, b)
    BY <1>2, <2>1, BlockPos DEF MappedBlock
  <2>. QED BY <1>1, <2>1, <2>2, <2>3
<1>4. ~(off < End(x)) /\ ~(off + h < End(x))
  BY <1>1, <1>2, <1>3 DEF OpenAt
<1>. QED BY <1>3, <1>4 DEF Covers

LEMMA CoversRead ==
    ASSUME Fresh, NEW to, to = ctx.off + BufferLen,
           NEW rows, Covers(rows, ctx.map, ctx.off, FileSize),
           \A e \in rows : e.loff \in Nat /\ e.len \in Nat /\ e.loff + e.len <= ctx.off
    PROVE  Covers(rows \cup ExtentRows(BufferLen), ctx.map, to, FileSize)
<1>1. /\ IsMap(ctx.map) /\ ctx.off \in Nat /\ FileSize \in Nat /\ BufferLen \in Nat
      /\ to \in Nat /\ ctx.off < to /\ to <= FileSize /\ ctx.off < FileSize
  BY FreshIs DEF Fresh
<1>. SUFFICES ASSUME NEW x \in ctx.map, NEW c \in Nat,
                     ~x.skip, x.from <= c, c < End(x), c < to
              PROVE  IF to < FileSize /\ to < End(x)
                     THEN Held(rows \cup ExtentRows(BufferLen), c) = {}
                     ELSE Once(rows \cup ExtentRows(BufferLen), c)
  BY DEF Covers
<1>2. x.from \in Nat /\ x.len \in Nat /\ End(x) \in Nat /\ End(x) = x.from + x.len
  BY <1>1, ExtentIs DEF End, IsMap, Extents
<1>3. PICK r : r = [loff |-> x.from, len |-> x.len, digest |-> ExtentDigest(x, BufferLen)]
  OBVIOUS
\* Which of the new rows hold c.
<1>4. Ended(x, BufferLen) <=> ~(to < FileSize /\ to < End(x))
  <2>1. Min({End(x), FileSize}) = IF End(x) <= FileSize THEN End(x) ELSE FileSize
    BY <1>1, <1>2, MinOfTwo
  <2>. QED BY <1>1, <1>2, <2>1 DEF Ended
<1>5. ASSUME NEW s \in Held(ExtentRows(BufferLen), c)
      PROVE  s = r /\ Ended(x, BufferLen) /\ ctx.off < End(x)
  <2>1. PICK e \in Reached(BufferLen) : /\ Ended(e, BufferLen)
                             /\ s = [loff |-> e.from, len |-> e.len,
                                      digest |-> ExtentDigest(e, BufferLen)]
    BY <1>5 DEF Held, ExtentRows
  <2>2. e \in ctx.map /\ e.from <= c /\ c < End(e) /\ End(e) > ctx.off
    BY <1>5, <2>1 DEF Held, Reached, End
  <2>3. e = x
    BY <1>1, <2>2, OneExtent
  <2>. QED BY <1>3, <2>1, <2>2, <2>3
<1>6. ASSUME Ended(x, BufferLen), ctx.off < End(x) PROVE Held(ExtentRows(BufferLen), c) = {r}
  <2>1. x \in Reached(BufferLen)
    BY <1>1, <1>2, <1>6 DEF Reached
  <2>2. r \in Held(ExtentRows(BufferLen), c)
    BY <1>2, <1>3, <1>6, <2>1 DEF ExtentRows, Held
  <2>. QED BY <1>5, <2>2
<1>7. Held(rows \cup ExtentRows(BufferLen), c) = Held(rows, c) \cup Held(ExtentRows(BufferLen), c)
  BY DEF Held
<1>8. CASE ctx.off < End(x)
  <2>1. Held(rows, c) = {}
    <3>1. CASE c < ctx.off
      BY <1>1, <1>8, <3>1 DEF Covers
    <3>2. CASE ~(c < ctx.off)
      BY <1>1, <3>2 DEF Held
    <3>. QED BY <3>1, <3>2
  <2>2. CASE Ended(x, BufferLen)
    BY <1>4, <1>6, <1>7, <1>8, <2>1, <2>2 DEF Once
  <2>3. CASE ~Ended(x, BufferLen)
    BY <1>4, <1>5, <1>7, <2>1, <2>3
  <2>. QED BY <2>2, <2>3
<1>9. CASE ~(ctx.off < End(x))
  <2>1. c < ctx.off
    BY <1>1, <1>2, <1>9
  <2>2. Once(rows, c)
    BY <1>9, <2>1 DEF Covers
  <2>3. Held(ExtentRows(BufferLen), c) = {}
    BY <1>5, <1>9
  <2>4. ~(to < End(x))
    BY <1>1, <1>2, <1>9
  <2>. QED BY <1>7, <2>2, <2>3, <2>4 DEF Once
<1>. QED BY <1>8, <1>9

\* A checkpoint written where the reader is.
LEMMA CoversSaved ==
    ASSUME Fresh, NEW rows, Covers(rows, ctx.map, ctx.off, FileSize),
           NEW ck, ck.off = ctx.off,
           ck.ext = IF ctx.ext_csum = <<>> THEN {} ELSE GetExtent(ctx.map, ctx.off)
    PROVE  Behind(rows, ctx.map, ck)
<1>1. /\ IsMap(ctx.map) /\ ctx.off \in Nat /\ ctx.off < FileSize /\ disk.ver \in Versions
      /\ Carry(disk.ver, ctx.map, ctx.off, ctx.ext_csum)
  BY FreshIs DEF Fresh
<1>. SUFFICES ASSUME NEW c \in Nat, c < ctx.off, InData(ctx.map, c)
              PROVE  IF c \in OpenCells(ck) THEN Held(rows, c) = {} ELSE Once(rows, c)
  BY DEF Behind
<1>2. PICK x \in ctx.map : ~x.skip /\ x.from <= c /\ c < End(x)
  BY DEF InData
<1>3. x.from \in Nat /\ End(x) \in Nat
  BY <1>1, ExtentIs
<1>4. CASE ctx.off < End(x)
  <2>1. x \in OpenAt(ctx.map, ctx.off)
    BY <1>1, <1>2, <1>3, <1>4 DEF OpenAt
  <2>2. GetExtent(ctx.map, ctx.off) = {x}
    BY <1>1, <2>1, OneOpen
  <2>3. ctx.ext_csum # <<>>
    <3>0. PICK a \in Nat, b \in Nat : a = x.from /\ b = ctx.off
      BY <1>1, <1>3
    <3>1. PICK s : s = Cells(disk.ver, ctx.map, a, b)
      OBVIOUS
    <3>2. CellsAreSo(s, disk.ver, ctx.map, a, b)
      BY CellsAre, Zenon
    <3>3. a < b
      BY <1>1, <1>2, <1>3, <1>4, <3>0
    <3>4. 1 \in DOMAIN s
      BY <3>1, <3>2, <3>3 DEF CellsAreSo, IsCells, IsSeq
    <3>5. ctx.ext_csum = s
      BY <1>1, <2>1, <3>0, <3>1 DEF Carry
    <3>. QED BY <3>4, <3>5
  <2>4. c \in OpenCells(ck)
    BY <1>1, <1>2, <1>3, <2>2, <2>3 DEF OpenCells
  <2>. QED BY <1>1, <1>2, <1>4, <2>4 DEF Covers
<1>5. CASE ~(ctx.off < End(x))
  <2>1. c \notin OpenCells(ck)
    <3>. SUFFICES ASSUME NEW y \in GetExtent(ctx.map, ctx.off), y.from <= c PROVE FALSE
      BY DEF OpenCells
    <3>1. y \in ctx.map /\ End(y) > ctx.off
      BY <1>1, NextExtent
    <3>2. End(y) \in Nat /\ y.from \in Nat
      BY <1>1, <3>1, ExtentIs
    <3>3. x = y
      BY <1>1, <1>2, <3>1, <3>2, OneExtent
    <3>. QED BY <1>5, <3>1, <3>3
  <2>. QED BY <1>2, <1>5, <2>1 DEF Covers
<1>. QED BY <1>4, <1>5

\* And taken up again.
LEMMA CoversAdopted ==
    ASSUME IsMap(disk.map), NEW r, r.off \in Nat, NEW rows, Behind(rows, disk.map, r),
           r.ext_csum = <<>> => r.ext = {}, ~LayoutMoved(r), ~NoExtentState(r),
           run.mode # "whole", NEW size, r.off < size
    PROVE  Covers(rows, disk.map, r.off, size)
<1>. SUFFICES ASSUME NEW x \in disk.map, NEW c \in Nat,
                     ~x.skip, x.from <= c, c < End(x), c < r.off
              PROVE  IF r.off < End(x) THEN Held(rows, c) = {} ELSE Once(rows, c)
  BY DEF Covers
<1>1. x.from \in Nat /\ End(x) \in Nat /\ InData(disk.map, c)
  BY ExtentIs DEF InData
<1>2. CASE r.off < End(x)
  <2>1. x \in OpenAt(disk.map, r.off)
    BY <1>1, <1>2 DEF OpenAt
  <2>2. GetExtent(disk.map, r.off) = {x}
    BY <2>1, OneOpen
  <2>3. r.ext_csum # <<>>
    BY <1>1, <2>2 DEF NoExtentState
  <2>4. \E y \in r.ext : y.from = x.from
    BY <2>2, <2>3, NotMoved DEF SamePlace
  <2>5. c \in OpenCells(r)
    BY <1>1, <2>4 DEF OpenCells
  <2>. QED BY <1>1, <1>2, <2>5 DEF Behind
<1>3. CASE ~(r.off < End(x))
  <2>1. c \notin OpenCells(r)
    <3>. SUFFICES ASSUME NEW y \in r.ext, y.from <= c PROVE FALSE
      BY DEF OpenCells
    <3>1. PICK z \in GetExtent(disk.map, r.off) : z.from = y.from
      BY NotMoved DEF SamePlace
    <3>2. z \in disk.map /\ End(z) > r.off
      BY <3>1, NextExtent
    <3>3. End(z) \in Nat /\ z.from \in Nat
      BY <3>2, ExtentIs
    <3>4. x = z
      BY <3>1, <3>2, <3>3, OneExtent
    <3>. QED BY <1>3, <3>2, <3>4
  <2>. QED BY <1>1, <1>3, <2>1 DEF Behind
<1>. QED BY <1>2, <1>3

-----------------------------------------------------------------------------
(* The hashes of blocks that a straight scan stores. *)

Wanted(v, map, b) ==
    MappedBlock(map, b) /\ (b + BlockLen <= Size(v) => ~BlockIgnored(map, b))
BlockRow(v, map, b) ==
    [loff |-> b, digest |-> Cells(v, map, b, Min({b + BlockLen, Size(v)}))]

LEMMA StraightBlocksAre ==
    ASSUME NEW v, NEW map, NEW n \in Nat
    PROVE  StraightBlocks(v, map, n) =
             {BlockRow(v, map, b) :
                b \in {x \in Nat : Aligned(x) /\ x < n /\ Wanted(v, map, x)}}
<1>. DEFINE S == {x \in {BlockOf(c) : c \in 0 .. n - 1} :
                    /\ MappedBlock(map, x)
                    /\ x + BlockLen <= Size(v) => ~BlockIgnored(map, x)}
            T == {x \in Nat : Aligned(x) /\ x < n /\ Wanted(v, map, x)}
<1>1. ASSUME NEW x \in S PROVE x \in T
  <2>1. PICK c \in 0 .. n - 1 : x = BlockOf(c)
    OBVIOUS
  <2>2. c \in Nat /\ c < n
    OBVIOUS
  <2>3. x \in Nat /\ x <= c /\ Aligned(x)
    BY <2>1, <2>2, BlockOfIs, Blocks
  <2>4. x < n
    BY <2>2, <2>3
  <2>. QED BY <2>3, <2>4 DEF Wanted
<1>2. ASSUME NEW x \in T PROVE x \in S
  <2>1. x \in 0 .. n - 1 /\ x = BlockOf(x)
    BY DEF Aligned
  <2>. QED BY <2>1 DEF Wanted
<1>3. S = T
  BY <1>1, <1>2
<1>4. StraightBlocks(v, map, n) = {BlockRow(v, map, b) : b \in S}
  BY DEF StraightBlocks, BlockRow
<1>. HIDE DEF S, T
<1>5. StraightBlocks(v, map, n) = {BlockRow(v, map, b) : b \in T}
  BY <1>3, <1>4
<1>. QED BY <1>5 DEF T

LEMMA SameIgnored ==
    ASSUME NEW v \in Versions, NEW m \in Shape[v].maps, NEW n \in Shape[v].maps,
           NEW b \in Nat, BlockIgnored(m, b)
    PROVE  BlockIgnored(n, b)
<1>1. IsMap(m) /\ IsMap(n)
  BY Files
<1>2. MappedBlock(n, b)
  <2>1. MappedBlock(m, b)
    BY DEF BlockIgnored, MappedBlock
  <2>. QED BY <2>1, SameCover
<1>3. ASSUME NEW f \in n, f.from < b + BlockLen, End(f) > b PROVE f.skip
  <2>1. f.from \in Nat /\ End(f) \in Nat /\ f.from < End(f)
    BY <1>1, ExtentIs
  <2>2. PICK c \in Nat : b <= c /\ c < b + BlockLen /\ f.from <= c /\ c < End(f)
    <3>1. CASE f.from <= b
      BY <1>3, <2>1, <3>1, BlockPos
    <3>2. CASE b < f.from
      BY <1>3, <2>1, <3>2
    <3>. QED BY <2>1, <3>1, <3>2
  <2>3. PICK e \in m : e.from <= c /\ c < End(e) /\ e.skip = f.skip
    BY <2>2, Files
  <2>4. e.from \in Nat /\ End(e) \in Nat
    BY <1>1, ExtentIs
  <2>5. e.from < b + BlockLen /\ End(e) > b
    BY <2>2, <2>3, <2>4, BlockPos
  <2>. QED BY <2>3, <2>5 DEF BlockIgnored
<1>. QED BY <1>2, <1>3 DEF BlockIgnored, MappedBlock

LEMMA SameBlocks ==
    ASSUME NEW v \in Versions, NEW m \in Shape[v].maps, NEW n \in Shape[v].maps, NEW k \in Nat
    PROVE  StraightBlocks(v, m, k) = StraightBlocks(v, n, k)
<1>1. ASSUME NEW b \in Nat PROVE Wanted(v, m, b) = Wanted(v, n, b)
  <2>1. BlockIgnored(m, b) <=> BlockIgnored(n, b)
    BY SameIgnored
  <2>2. MappedBlock(m, b) <=> MappedBlock(n, b)
    BY SameCover
  <2>. QED BY <2>1, <2>2 DEF Wanted
<1>2. ASSUME NEW b \in Nat PROVE BlockRow(v, m, b) = BlockRow(v, n, b)
  <2>1. PICK x \in Nat, size \in Nat : x = b + BlockLen /\ size = Size(v)
    BY Files, BlockPos
  <2>2. Min({x, size}) \in Nat
    BY MinOfTwo
  <2>. QED BY <2>1, <2>2, SameCells DEF BlockRow
<1>. DEFINE T(p) == {x \in Nat : Aligned(x) /\ x < k /\ Wanted(v, p, x)}
<1>3. T(m) = T(n)
  BY <1>1
<1>4. {BlockRow(v, m, b) : b \in T(m)} = {BlockRow(v, n, b) : b \in T(n)}
  <2>1. T(m) \subseteq Nat
    OBVIOUS
  <2>. HIDE DEF T
  <2>. QED BY <1>2, <1>3, <2>1
<1>. QED BY <1>4, StraightBlocksAre

LEMMA NoBlocks == ASSUME NEW v, NEW map PROVE StraightBlocks(v, map, 0) = {}
BY DEF StraightBlocks

\* Those before an earlier offset.
LEMMA BlocksBefore ==
    ASSUME NEW v, NEW map, NEW n \in Nat, NEW k \in Nat, k <= n
    PROVE  {b \in StraightBlocks(v, map, n) : b.loff < k} = StraightBlocks(v, map, k)
<1>. DEFINE T(p) == {x \in Nat : Aligned(x) /\ x < p /\ Wanted(v, map, x)}
<1>1. \A b : BlockRow(v, map, b).loff = b
  BY DEF BlockRow
<1>2. \A x : x \in T(k) <=> x \in T(n) /\ x < k
  OBVIOUS
<1>3. /\ StraightBlocks(v, map, n) = {BlockRow(v, map, b) : b \in T(n)}
      /\ StraightBlocks(v, map, k) = {BlockRow(v, map, b) : b \in T(k)}
  BY StraightBlocksAre
<1>. HIDE DEF T
<1>. QED BY <1>1, <1>2, <1>3

LEMMA BlocksHole ==
    ASSUME NEW v, NEW map, IsMap(map), NEW off, Aligned(off), NEW size \in Nat, off < size,
           NEW h, h = HoleRun(map, size, off), h > 0
    PROVE  StraightBlocks(v, map, off + h) = StraightBlocks(v, map, off)
<1>. DEFINE T(p) == {x \in Nat : Aligned(x) /\ x < p /\ Wanted(v, map, x)}
<1>1. /\ off \in Nat /\ h \in Nat /\ off + h \in Nat
      /\ \A b : Aligned(b) /\ off <= b /\ b < off + h => ~MappedBlock(map, b)
  BY HoleRunIs DEF Aligned
<1>2. T(off + h) = T(off)
  BY <1>1 DEF Wanted
<1>3. /\ StraightBlocks(v, map, off) = {BlockRow(v, map, b) : b \in T(off)}
      /\ StraightBlocks(v, map, off + h) = {BlockRow(v, map, b) : b \in T(off + h)}
  BY <1>1, StraightBlocksAre
<1>. HIDE DEF T
<1>. QED BY <1>2, <1>3

LEMMA BlocksRead ==
    ASSUME Fresh, Aligned(ctx.off), Hole = 0, run.mode = "partial",
           NEW to, to = ctx.off + BufferLen
    PROVE  StraightBlocks(disk.ver, ctx.map, to) =
             StraightBlocks(disk.ver, ctx.map, ctx.off) \cup BlockRows
<1>. DEFINE off == ctx.off
            T(p) == {x \in Nat : Aligned(x) /\ x < p /\ Wanted(disk.ver, ctx.map, x)}
            R == {x \in {off} : Wanted(disk.ver, ctx.map, x)}
<1>1. /\ IsMap(ctx.map) /\ off \in Nat /\ off < FileSize /\ FileSize = Size(disk.ver)
      /\ FileSize \in Nat /\ BufferLen \in Nat /\ BufferLen > 0 /\ to <= FileSize
      /\ to \in Nat /\ Buffer = Cells(disk.ver, ctx.map, off, to)
  BY FreshIs DEF Fresh
<1>2. BufferLen <= BlockLen /\ (BufferLen = BlockLen \/ to = FileSize)
  BY <1>1, BufferLenIs DEF Fresh
<1>3. MappedBlock(ctx.map, off)
  BY <1>1, HoleRunIs DEF Hole
<1>4. T(to) = T(off) \cup R
  <2>1. \A b : Aligned(b) /\ off < b => off + BlockLen <= b
    BY Blocks
  <2>2. ASSUME NEW b \in T(to) PROVE b \in T(off) \cup R
    BY <1>1, <1>2, <2>1, BlockPos
  <2>3. \A b \in R : b \in T(to)
    BY <1>1
  <2>4. \A b \in T(off) : b \in T(to)
    BY <1>1
  <2>. QED BY <2>2, <2>3, <2>4
<1>5. BlockRows = {BlockRow(disk.ver, ctx.map, b) : b \in R}
  <2>1. Min({off + BlockLen, Size(disk.ver)}) = to
    BY <1>1, <1>2, BlockPos, MinOfTwo
  <2>2. BlockRow(disk.ver, ctx.map, off) = [loff |-> ctx.off, digest |-> Buffer]
    BY <1>1, <2>1 DEF BlockRow
  <2>3. (off + BlockLen <= Size(disk.ver)) <=> BufferLen = BlockLen
    BY <1>1, <1>2, BlockPos
  <2>4. BlockRows = IF Wanted(disk.ver, ctx.map, off)
                    THEN {[loff |-> ctx.off, digest |-> Buffer]} ELSE {}
    BY <1>1, <1>3, <2>3 DEF BlockRows, Wanted, Faked
  <2>. QED BY <2>2, <2>4
<1>6. /\ StraightBlocks(disk.ver, ctx.map, off) = {BlockRow(disk.ver, ctx.map, b) : b \in T(off)}
      /\ StraightBlocks(disk.ver, ctx.map, to) = {BlockRow(disk.ver, ctx.map, b) : b \in T(to)}
  BY <1>1, StraightBlocksAre
<1>. HIDE DEF T, R
<1>. QED BY <1>4, <1>5, <1>6

-----------------------------------------------------------------------------
(* A checkpoint and a digest have all the hashes before them. *)

OnlyPartial == Modes = {"partial"}
OneMode == \E m : Modes = {m}

\* Every data cell of the file is in one row.
Everything(rows, map, size) ==
    \A c \in Nat : c < size /\ InData(map, c) => Once(rows, c)

UpTo(blocks, off) == {b \in blocks : b.loff < off}

SavedFull(d, w) ==
    /\ d.ck.mtime = d.row.mtime /\ d.ck.off < Size(d.ck.mtime)
    /\ d.ck.ext_csum = <<>> => d.ck.ext = {}
    /\ d.ck.mtime = w.ver =>
          /\ ByExtent => Behind(d.extents, w.map, d.ck)
          /\ OnlyPartial => UpTo(d.blocks, d.ck.off) = StraightBlocks(w.ver, w.map, d.ck.off)

HashedFull(d, w) ==
    /\ d.row.mode \in Modes
    /\ d.row.mtime = w.ver =>
          /\ ByExtent => Everything(d.extents, w.map, Size(w.ver))
          /\ OnlyPartial => d.blocks = StraightBlocks(w.ver, w.map, Size(w.ver))

Full(d, w) == /\ d.ck # NoCheckpoint => SavedFull(d, w)
              /\ Hashed(d) => HashedFull(d, w)

\* What is stored and what is staged, before the reader.
Worker ==
    /\ pc # "down" => run.mode \in Modes
    /\ pc \in Inside => (batch.ck # NoCheckpoint => batch.ck.off <= ctx.off)
    /\ pc \in Inside /\ ctx.mtime = disk.ver =>
          /\ ByExtent => Covers(batch.extents \cup ctx.extents, ctx.map, ctx.off, FileSize)
          /\ OnlyPartial =>
                batch.blocks \cup ctx.blocks = StraightBlocks(disk.ver, ctx.map, ctx.off)

Coverage == faults = 0 => Full(db, disk) /\ Full(batch, disk) /\ Worker

LEMMA EverythingCovered ==
    ASSUME NEW rows, NEW size, NEW v \in Versions, NEW m \in Shape[v].maps,
           NEW n \in Shape[v].maps, Covers(rows, m, size, size), size \in Nat
    PROVE  Everything(rows, n, size)
<1>. SUFFICES ASSUME NEW c \in Nat, c < size, InData(n, c) PROVE Once(rows, c)
  BY DEF Everything
<1>1. InData(m, c)
  BY SameCover
<1>2. PICK x \in m : ~x.skip /\ x.from <= c /\ c < End(x)
  BY <1>1 DEF InData
<1>. QED BY <1>2 DEF Covers

LEMMA HeldBefore ==
    ASSUME NEW rows, NEW k \in Nat, NEW c \in Nat, c < k, \A e \in rows : e.loff \in Nat
    PROVE  Held({e \in rows : e.loff < k}, c) = Held(rows, c)
BY DEF Held

\* Where the file lies does not matter, and an older version is not claimed.
LEMMA FullElsewhere ==
    ASSUME NEW w, World(w), NEW u, World(u), u.ver > w.ver \/ u.ver = w.ver,
           NEW d, Right(d, w), Full(d, w), d.ck # NoCheckpoint => d.ck.off \in Nat
    PROVE  Full(d, u)
<1>1. w.ver \in Nat /\ u.ver \in Nat /\ w.ver \in Versions
  BY Files DEF World
<1>2. CASE u.ver > w.ver
  <2>1. d.ck.mtime # u.ver /\ d.row.mtime # u.ver
    BY <1>1, <1>2 DEF Right
  <2>. QED BY <2>1 DEF Full, SavedFull, HashedFull
<1>3. CASE u.ver = w.ver
  <2>1. w.map \in Shape[w.ver].maps /\ u.map \in Shape[w.ver].maps /\ Size(w.ver) \in Nat
    BY <1>1, <1>3, Files DEF World
  <2>2. \A c \in Nat : InData(w.map, c) = InData(u.map, c)
    BY <1>1, <2>1, SameCover
  <2>3. \A k \in Nat : StraightBlocks(w.ver, w.map, k) = StraightBlocks(w.ver, u.map, k)
    BY <1>1, <2>1, SameBlocks
  <2>4. d.ck # NoCheckpoint => SavedFull(d, u)
    BY <1>3, <2>2, <2>3 DEF Full, SavedFull, Behind
  <2>5. Hashed(d) => HashedFull(d, u)
    BY <1>3, <2>1, <2>2, <2>3 DEF Full, HashedFull, Everything
  <2>. QED BY <2>4, <2>5 DEF Full
<1>. QED BY <1>2, <1>3

LEMMA FullWithout ==
    ASSUME NEW w, NEW z, z.ck = NoCheckpoint, ~Hashed(z)
    PROVE  Full(z, w)
BY DEF Full

LEMMA UnitsFull ==
    ASSUME NEW w, NEW d, IsFile(d), Keyed(d), Full(d, w)
    PROVE  /\ Full(Prune(d), w)
           /\ \A t : Full([NoFile EXCEPT !.row.mtime = t], w)
           /\ d.ck # NoCheckpoint => Full(RemoveFrom(d, d.ck.off), w)
           /\ Full(RemoveCheckpoint(d), w)
<1>1. Full(Prune(d), w)
  <2>1. Full(NoFile, w)
    BY FullWithout DEF NoFile, NoRow, Hashed
  <2>. QED BY <2>1 DEF Prune
<1>2. ASSUME NEW t PROVE Full([NoFile EXCEPT !.row.mtime = t], w)
  <2>1. PICK z : z = [NoFile EXCEPT !.row.mtime = t]
    OBVIOUS
  <2>2. z.ck = NoCheckpoint /\ ~Hashed(z)
    BY <2>1 DEF NoFile, NoRow, Hashed
  <2>. QED BY <2>1, <2>2, FullWithout
<1>3. ASSUME d.ck # NoCheckpoint PROVE Full(RemoveFrom(d, d.ck.off), w)
  <2>1. PICK z : z = RemoveFrom(d, d.ck.off)
    OBVIOUS
  <2>2. /\ z.row = d.row /\ z.ck = d.ck
        /\ z.blocks = UpTo(d.blocks, d.ck.off)
        /\ z.extents = {e \in d.extents : e.loff < d.ck.off}
    BY <2>1 DEF RemoveFrom, IsFile, UpTo
  <2>3. ~Hashed(z) /\ d.ck.off \in Nat /\ \A e \in d.extents : e.loff \in Nat
    BY <1>3, <2>2 DEF Keyed, KeysTyped, Hashed, Aligned
  <2>4. \A c \in Nat : c < d.ck.off => Held(z.extents, c) = Held(d.extents, c)
    BY <2>2, <2>3, HeldBefore
  <2>5. \A map : Behind(d.extents, map, d.ck) => Behind(z.extents, map, d.ck)
    BY <2>4 DEF Behind, Once
  <2>6. UpTo(z.blocks, d.ck.off) = UpTo(d.blocks, d.ck.off)
    BY <2>2 DEF UpTo
  <2>7. SavedFull(z, w)
    BY <1>3, <2>2, <2>5, <2>6 DEF Full, SavedFull
  <2>. QED BY <2>1, <2>3, <2>7 DEF Full
<1>4. Full(RemoveCheckpoint(d), w)
  <2>1. PICK z : z = RemoveCheckpoint(d)
    OBVIOUS
  <2>2. z.row = d.row /\ z.ck = NoCheckpoint /\ z.blocks = d.blocks /\ z.extents = d.extents
    BY <2>1 DEF RemoveCheckpoint, IsFile
  <2>. QED BY <2>1, <2>2 DEF Full, HashedFull, Hashed
<1>. QED BY <1>1, <1>2, <1>3, <1>4

\* What every step of the file may rely on.
Sure == ~astray /\ Agree /\ Mapped /\ Keys /\ Contents /\ Coverage

LEMMA Surely ==
    ASSUME OneKind, Sure, [Next]_vars, faults' = 0
    PROVE  /\ faults = 0 /\ ~run.lost
           /\ ~Fault /\ ~UnitFails /\ ~BatchLost /\ \A ds : ~UnitEndWithout(ds)
           /\ ~ReadToHole /\ ~FlushFails /\ ~CodeAsLength
           /\ Keyed(db) /\ Keyed(batch) /\ IsFile(db) /\ IsFile(batch)
           /\ pc \in Before => Opening
           /\ pc \in Inside => Reading
           /\ Full(db, disk) /\ Full(batch, disk) /\ Worker
           /\ World(disk) /\ disk.ver \in Versions /\ IsMap(disk.map)
           /\ IsContext(ctx) /\ IsRun(run)
<1>1. /\ faults = 0 /\ ~run.lost
      /\ ~Fault /\ ~UnitFails /\ ~BatchLost /\ \A ds : ~UnitEndWithout(ds)
      /\ ~ReadToHole /\ ~FlushFails /\ ~CodeAsLength
  BY NoFault DEF Sure
<1>2. /\ Keyed(db) /\ Keyed(batch) /\ IsFile(db) /\ IsFile(batch)
      /\ pc \in Before => Opening
      /\ pc \in Inside => Reading
  BY <1>1, Keyeds DEF Sure
<1>. QED BY <1>1, <1>2, Files DEF Sure, Coverage, Agree, World, Reader, Writer

LEMMA ListingCoverage ==
    ASSUME OneKind, Sure, StartRun \/ Listing, faults' = 0
    PROVE  Coverage'
<1>0. /\ ~UnitFails /\ ~BatchLost /\ \A ds : ~UnitEndWithout(ds)
      /\ Keyed(db) /\ Keyed(batch) /\ IsFile(db) /\ IsFile(batch)
      /\ Full(db, disk) /\ Full(batch, disk) /\ Worker /\ disk' = disk
  BY Surely DEF Next, StartRun, Listing, ListFile, TakeCheckpoint, RefuseCheckpoint, StoreRow
<1>1. CASE StartRun
  <2>1. Full(db', disk) /\ Full(batch', disk)
    BY <1>0, <1>1, UnitsFull DEF StartRun
  <2>2. pc' = "list" /\ run'.mode \in Modes
    BY <1>1 DEF StartRun, Down
  <2>. QED BY <1>0, <2>1, <2>2 DEF Coverage, Worker, Inside
<1>2. CASE ListFile
  BY <1>0, <1>2 DEF ListFile, Coverage, Worker, Inside
<1>3. CASE TakeCheckpoint
  <2>1. batch.ck # NoCheckpoint /\ UnitEnd(RemoveFrom(batch, batch.ck.off)) /\ pc # "down"
    BY <1>0, <1>3 DEF TakeCheckpoint, Usable, NoCheckpoint
  <2>2. Full(RemoveFrom(batch, batch.ck.off), disk)
    BY <1>0, <2>1, UnitsFull
  <2>3. Full(db', disk) /\ Full(batch', disk) /\ run' = run /\ pc' = "open"
    BY <1>0, <1>3, <2>1, <2>2 DEF UnitEnd, TakeCheckpoint
  <2>. QED BY <1>0, <2>1, <2>3 DEF Coverage, Worker, Inside
<1>4. CASE RefuseCheckpoint
  <2>1. Full(RemoveCheckpoint(batch), disk)
    BY <1>0, UnitsFull
  <2>2. Full(db', disk) /\ Full(batch', disk) /\ run' = run /\ pc' = "store" /\ pc # "down"
    BY <1>0, <1>4, <2>1 DEF UnitEnd, RefuseCheckpoint
  <2>. QED BY <1>0, <2>2 DEF Coverage, Worker, Inside
<1>5. CASE StoreRow
  <2>1. Full([NoFile EXCEPT !.row.mtime = ctx.mtime], disk)
    BY <1>0, UnitsFull
  <2>2. Full(db', disk) /\ Full(batch', disk) /\ run' = run /\ pc' = "open" /\ pc # "down"
    BY <1>0, <1>5, <2>1 DEF UnitEnd, StoreRow
  <2>. QED BY <1>0, <2>2 DEF Coverage, Worker, Inside
<1>. QED BY <1>1, <1>2, <1>3, <1>4, <1>5 DEF Listing

\* The hashfile as the worker leaves it, and what it has staged.
LEMMA OpeningCoverage ==
    ASSUME OneKind, Sure, SkipFile \/ OpenFile \/ Decline, faults' = 0
    PROVE  Coverage'
<1>0. /\ faults = 0 /\ ~run.lost /\ ~UnitFails /\ ~BatchLost /\ \A ds : ~UnitEndWithout(ds)
      /\ Keyed(db) /\ Keyed(batch) /\ IsFile(db) /\ IsFile(batch)
      /\ Full(db, disk) /\ Full(batch, disk) /\ Worker
      /\ World(disk) /\ disk.ver \in Versions /\ IsMap(disk.map) /\ IsContext(ctx)
      /\ pc = "open" /\ Opening /\ disk' = disk
  BY Surely DEF Next, Hashing, SkipFile, OpenFile, Decline, Before
<1>1. CASE SkipFile
  <2>1. UNCHANGED <<db, batch, run>> /\ pc' = "done"
    BY <1>0, <1>1 DEF SkipFile
  <2>. QED BY <1>0, <2>1 DEF Coverage, Worker, Inside
<1>2. ctx.mtime = batch.row.mtime /\ run.mode \in Modes
      /\ (ByExtent => run.mode # "whole")
  BY <1>0 DEF Sure, Agree, Writer, Before, Worker, Contents, Carrier
<1>3. CASE OpenFile
  <2>1. /\ UNCHANGED <<db, batch, run>> /\ pc' = "read"
        /\ Resuming => ~LayoutMoved(ctx.resume) /\ ~NoExtentState(ctx.resume)
    BY <1>3 DEF OpenFile
  <2>2. /\ ctx'.off = ctx.resume.off /\ ctx'.map = disk.map /\ ctx'.mtime = ctx.mtime
        /\ ctx'.blocks = {} /\ ctx'.extents = {}
    BY <1>0, <1>3 DEF OpenFile, IsContext, Opening
  <2>3. PICK off \in Nat : off = ctx.resume.off
    BY <1>0 DEF Opening, Aligned
  <2>4. batch.blocks = UpTo(batch.blocks, off)
    BY <1>0, <2>3 DEF Opening, UpTo
  <2>5. ASSUME ctx.mtime = disk.ver
        PROVE  /\ ByExtent => Covers(batch.extents, disk.map, off, Size(disk.ver))
               /\ OnlyPartial => batch.blocks = StraightBlocks(disk.ver, disk.map, off)
    <3>1. CASE Resuming
      <4>1. batch.ck = ctx.resume /\ batch.ck # NoCheckpoint
        BY <1>0, <3>1 DEF Opening, Resuming
      <4>2. SavedFull(batch, disk) /\ batch.ck.mtime = disk.ver
        BY <1>0, <1>2, <2>5, <4>1 DEF Full, SavedFull
      <4>3. OnlyPartial => batch.blocks = StraightBlocks(disk.ver, disk.map, off)
        BY <2>3, <2>4, <4>1, <4>2 DEF SavedFull
      <4>4. ByExtent => Behind(batch.extents, disk.map, ctx.resume)
        BY <4>1, <4>2 DEF SavedFull
      <4>5. off < Size(disk.ver) /\ (ctx.resume.ext_csum = <<>> => ctx.resume.ext = {})
        BY <2>3, <4>1, <4>2 DEF SavedFull
      <4>6. ByExtent => Covers(batch.extents, disk.map, ctx.resume.off, Size(disk.ver))
        BY <1>0, <1>2, <2>1, <2>3, <3>1, <4>4, <4>5, CoversAdopted
      <4>. QED BY <2>3, <4>3, <4>6
    <3>2. CASE ~Resuming
      <4>1. off = 0
        BY <2>3, <3>2 DEF Resuming, NoCheckpoint
      <4>2. Covers(batch.extents, disk.map, off, Size(disk.ver))
        BY <4>1 DEF Covers
      <4>3. batch.blocks = {}
        BY <1>0, <2>4, <4>1 DEF UpTo, Keyed, KeysTyped
      <4>. QED BY <4>1, <4>2, <4>3, NoBlocks
    <3>. QED BY <3>1, <3>2
  <2>6. FileSize' = Size(ctx.mtime)
    BY <2>2 DEF FileSize
  <2>7. batch.ck # NoCheckpoint => batch.ck.off <= off
    BY <1>0, <2>3 DEF Opening
  <2>8. batch.extents \cup {} = batch.extents /\ batch.blocks \cup {} = batch.blocks
    OBVIOUS
  <2>9. Worker'
    BY <1>0, <1>2, <2>1, <2>2, <2>3, <2>5, <2>6, <2>7, <2>8 DEF Worker, Inside
  <2>. QED BY <1>0, <2>1, <2>9 DEF Coverage
<1>4. CASE Decline
  <2>1. PICK z : z = RemoveCheckpoint(RemoveFrom(batch, 0))
    OBVIOUS
  <2>2. z.ck = NoCheckpoint /\ z.row = batch.row /\ z.blocks = {} /\ z.extents = {}
    BY <1>0, <2>1 DEF RemoveCheckpoint, RemoveFrom, IsFile, Keyed, KeysTyped
  <2>3. UnitEnd(z) /\ pc' = "read" /\ ctx.off = 0
    BY <1>0, <1>4, <2>1 DEF Decline, Sure, Agree, Reader, Before
  <2>4. batch' = z /\ db' \in {db, z} /\ run' = run
    BY <2>3 DEF UnitEnd
  <2>5. Full(z, disk)
    BY <1>0, <2>2, FullWithout DEF Opening, Hashed
  <2>6. ctx'.off = 0 /\ ctx'.mtime = ctx.mtime /\ ctx'.blocks = {} /\ ctx'.extents = {}
    BY <1>0, <1>4, <2>3 DEF Decline, IsContext, Opening
  <2>7. Covers(batch'.extents \cup ctx'.extents, ctx'.map, ctx'.off, FileSize')
    BY <2>6 DEF Covers
  <2>8. batch'.blocks \cup ctx'.blocks = StraightBlocks(disk.ver, ctx'.map, 0)
    BY <2>2, <2>4, <2>6, NoBlocks
  <2>9. Worker'
    BY <1>0, <1>2, <2>2, <2>3, <2>4, <2>6, <2>7, <2>8 DEF Worker, Inside
  <2>. QED BY <1>0, <2>4, <2>5, <2>9 DEF Coverage
<1>. QED BY <1>1, <1>3, <1>4

\* Blocks that are stored behind a checkpoint do not change what is before it.
LEMMA FullFlushed ==
    ASSUME NEW w, World(w), NEW d, IsFile(d), Keyed(d), Full(d, w), ~Hashed(d),
           NEW blocks, NEW off \in Nat, NEW map \in Shape[w.ver].maps,
           d.ck # NoCheckpoint => d.ck.off <= off,
           OnlyPartial /\ d.row.mtime = w.ver =>
              d.blocks \cup blocks = StraightBlocks(w.ver, map, off),
           NEW z, z = Stored(d, blocks, {})
    PROVE  Full(z, w)
<1>1. /\ z.row = d.row /\ z.ck = d.ck /\ z.extents = d.extents
      /\ z.blocks = d.blocks \cup blocks
  BY DEF Stored, IsFile
<1>2. ASSUME d.ck # NoCheckpoint PROVE SavedFull(z, w)
  <2>1. SavedFull(d, w) /\ d.ck.off \in Nat /\ d.ck.off <= off
    BY <1>2 DEF Full, Keyed, Aligned
  <2>2. ASSUME OnlyPartial, d.ck.mtime = w.ver
        PROVE  UpTo(z.blocks, d.ck.off) = StraightBlocks(w.ver, w.map, d.ck.off)
    <3>1. z.blocks = StraightBlocks(w.ver, map, off)
      BY <1>1, <2>1, <2>2 DEF SavedFull
    <3>2. UpTo(z.blocks, d.ck.off) = StraightBlocks(w.ver, map, d.ck.off)
      BY <2>1, <3>1, BlocksBefore DEF UpTo
    <3>. QED BY <2>1, <3>2, SameBlocks DEF World
  <2>. QED BY <1>1, <2>1, <2>2 DEF SavedFull
<1>. QED BY <1>1, <1>2 DEF Full, Hashed

LEMMA LoopCoverage ==
    ASSUME OneKind, Sure, SkipHole \/ ReadBuffer \/ FlushBlocks, faults' = 0
    PROVE  Coverage'
<1>0. /\ faults = 0 /\ ~run.lost /\ ~UnitFails /\ ~BatchLost /\ \A ds : ~UnitEndWithout(ds)
      /\ Keyed(db) /\ Keyed(batch) /\ IsFile(db) /\ IsFile(batch)
      /\ Full(db, disk) /\ Full(batch, disk) /\ Worker
      /\ World(disk) /\ disk.ver \in Versions /\ IsContext(ctx)
      /\ pc = "read" /\ Reading /\ ctx.off \in Nat /\ ctx.off < FileSize /\ disk' = disk
  <2>1. pc = "read" /\ ctx.off < FileSize /\ disk' = disk
    BY DEF SkipHole, ReadBuffer, FlushBlocks, Flushing, AtData
  <2>. QED BY <2>1, Surely DEF Next, Hashing, Inside, Reading
<1>1. /\ run.mode \in Modes
      /\ batch.ck # NoCheckpoint => batch.ck.off <= ctx.off
      /\ batch.row.mtime = ctx.mtime
  BY <1>0 DEF Worker, Inside, Sure, Agree, Writer
<1>2. ASSUME ctx.mtime = disk.ver
      PROVE  /\ IsMap(ctx.map) /\ ctx.map \in Shape[disk.ver].maps
             /\ Aligned(ctx.off) /\ FileSize \in Nat /\ FileSize = Size(disk.ver)
             /\ ByExtent => Fresh /\ run.mode # "whole"
             /\ ByExtent => Covers(batch.extents \cup ctx.extents, ctx.map, ctx.off, FileSize)
             /\ OnlyPartial =>
                   batch.blocks \cup ctx.blocks = StraightBlocks(disk.ver, ctx.map, ctx.off)
  <2>1. /\ ctx.map \in Shape[disk.ver].maps /\ Sound(disk.ver, disk.map, ctx.off, ctx.csum)
    BY <1>0, <1>2 DEF Sure, Agree, Reader, Inside
  <2>2. IsMap(ctx.map) /\ FileSize \in Nat /\ FileSize = Size(disk.ver)
    BY <1>0, <1>2, <2>1, Files DEF FileSize
  <2>3. Aligned(ctx.off)
    BY <1>0, <2>1, <2>2 DEF Sound, Begins
  <2>4. ByExtent => Fresh /\ run.mode # "whole"
    BY <1>0, <1>2, <2>1, <2>3, NotCapped DEF Sure, Contents, Carrier, Looping, Fresh, Reading
  <2>. QED BY <1>0, <1>2, <2>1, <2>2, <2>3, <2>4 DEF Worker, Inside
<1>3. CASE SkipHole
  <2>1. PICK h : h = Hole
    OBVIOUS
  <2>2. /\ UNCHANGED <<db, batch, run, pc>> /\ ctx'.off = ctx.off + h /\ ctx'.mtime = ctx.mtime
        /\ ctx'.map = ctx.map /\ ctx'.extents = ctx.extents /\ ctx'.blocks = ctx.blocks
    BY <1>0, <1>3, <2>1 DEF SkipHole, IsContext
  <2>3. FileSize' = FileSize
    BY <2>2 DEF FileSize
  <2>4. ASSUME ctx.mtime = disk.ver
        PROVE  /\ ByExtent =>
                     Covers(batch.extents \cup ctx.extents, ctx.map, ctx.off + h, FileSize)
               /\ OnlyPartial =>
                     batch.blocks \cup ctx.blocks = StraightBlocks(disk.ver, ctx.map, ctx.off + h)
    <3>1. h > 0 /\ h = HoleRun(ctx.map, FileSize, ctx.off)
      BY <1>3, <2>1 DEF SkipHole, Hole
    <3>2. StraightBlocks(disk.ver, ctx.map, ctx.off + h)
            = StraightBlocks(disk.ver, ctx.map, ctx.off)
      BY <1>0, <1>2, <2>4, <3>1, BlocksHole
    <3>. QED BY <1>0, <1>2, <2>4, <3>1, <3>2, CoversHole
  <2>5. batch.ck # NoCheckpoint => batch.ck.off <= ctx.off + h
    <3>1. h \in Nat /\ h > 0
      <4>1. IsMap(ctx.map) /\ FileSize \in Nat /\ Aligned(ctx.off)
        BY <1>0, Files DEF Sure, Mapped, Inside, FileSize, Reading
      <4>. QED BY <1>0, <1>3, <2>1, <4>1, HoleRunIs DEF SkipHole, Hole
    <3>2. batch.ck # NoCheckpoint => batch.ck.off \in Nat
      BY <1>0 DEF Keyed, Aligned
    <3>. QED BY <1>0, <1>1, <3>1, <3>2
  <2>6. Worker'
    BY <1>0, <1>1, <2>2, <2>3, <2>4, <2>5 DEF Worker, Inside
  <2>. QED BY <1>0, <2>2, <2>6 DEF Coverage
<1>4. CASE ReadBuffer
  <2>1. PICK to : to = ctx.off + BufferLen
    OBVIOUS
  <2>2. /\ UNCHANGED <<db, batch, run>> /\ pc' \in {"read", "save", "leave", "final", "done"}
        /\ ctx'.off = to /\ ctx'.mtime = ctx.mtime /\ ctx'.map = ctx.map
        /\ ctx'.extents =
             ctx.extents \cup (IF run.mode # "whole" THEN ExtentRows(BufferLen) ELSE {})
        /\ ctx'.blocks = ctx.blocks \cup BlockRows
    BY <1>0, <1>4, <2>1 DEF ReadBuffer, Consume, AfterBuffer, IsContext
  <2>3. FileSize' = FileSize
    BY <2>2 DEF FileSize
  <2>4. ASSUME ctx.mtime = disk.ver, ByExtent
        PROVE  Covers(batch.extents \cup ctx'.extents, ctx.map, to, FileSize)
    <3>1. PICK rows : rows = batch.extents \cup ctx.extents
      OBVIOUS
    <3>2. \A e \in rows : e.loff \in Nat /\ e.len \in Nat /\ e.loff + e.len <= ctx.off
      BY <1>0, <3>1 DEF Reading, Keyed, KeysTyped
    <3>3. Fresh /\ Covers(rows, ctx.map, ctx.off, FileSize)
      BY <1>2, <2>4, <3>1
    <3>4. Covers(rows \cup ExtentRows(BufferLen), ctx.map, to, FileSize)
      BY <2>1, <3>2, <3>3, CoversRead
    <3>5. batch.extents \cup ctx'.extents = rows \cup ExtentRows(BufferLen)
      BY <1>2, <2>2, <2>4, <3>1
    <3>. QED BY <3>4, <3>5
  <2>5. ASSUME ctx.mtime = disk.ver, OnlyPartial
        PROVE  batch.blocks \cup ctx'.blocks = StraightBlocks(disk.ver, ctx.map, to)
    <3>1. run.mode = "partial" /\ ByExtent
      BY <1>1, <2>5 DEF OnlyPartial, ByExtent
    <3>2. Fresh /\ Aligned(ctx.off) /\ Hole = 0
      BY <1>2, <1>4, <2>5, <3>1 DEF ReadBuffer, AtData
    <3>3. StraightBlocks(disk.ver, ctx.map, to) =
             StraightBlocks(disk.ver, ctx.map, ctx.off) \cup BlockRows
      BY <2>1, <3>1, <3>2, BlocksRead
    <3>. QED BY <1>2, <2>2, <2>5, <3>3
  <2>6. batch.ck # NoCheckpoint => batch.ck.off <= to
    <3>1. FileSize \in Nat /\ Size(disk.ver) \in Nat
      BY <1>0, Files DEF Sure, Mapped, Inside, FileSize
    <3>2. BufferLen \in Nat
      BY <1>0, <1>4, <3>1, BufferEnds DEF ReadBuffer, Reading
    <3>3. batch.ck # NoCheckpoint => batch.ck.off \in Nat
      BY <1>0 DEF Keyed, Aligned
    <3>. QED BY <1>0, <1>1, <2>1, <3>2, <3>3
  <2>7. Worker'
    BY <1>0, <1>1, <2>2, <2>3, <2>4, <2>5, <2>6 DEF Worker, Inside
  <2>. QED BY <1>0, <2>2, <2>7 DEF Coverage
<1>5. CASE FlushBlocks
  <2>1. PICK z : z = Stored(batch, ctx.blocks, {})
    OBVIOUS
  <2>2. /\ z.row = batch.row /\ z.ck = batch.ck
        /\ z.blocks = batch.blocks \cup ctx.blocks /\ z.extents = batch.extents
    BY <1>0, <2>1 DEF Stored, IsFile
  <2>3. batch' = z /\ db' \in {db, z} /\ run' = run /\ pc' = "read"
    BY <1>0, <1>5, <2>1 DEF FlushBlocks, UnitEnd
  <2>4. Full(z, disk)
    <3>1. CASE ctx.mtime = disk.ver
      BY <1>0, <1>1, <1>2, <2>1, <3>1, FullFlushed DEF Reading
    <3>2. CASE ctx.mtime # disk.ver
      <4>1. disk.map \in Shape[disk.ver].maps
        BY <1>0 DEF World
      <4>. QED BY <1>0, <1>1, <2>1, <3>2, <4>1, FullFlushed DEF Reading
    <3>. QED BY <3>1, <3>2
  <2>5. /\ ctx'.off = ctx.off /\ ctx'.mtime = ctx.mtime /\ ctx'.map = ctx.map
        /\ ctx'.blocks = {} /\ ctx'.extents = ctx.extents
    BY <1>0, <1>5 DEF FlushBlocks, IsContext
  <2>6. FileSize' = FileSize
    BY <2>5 DEF FileSize
  <2>7. z.blocks \cup {} = batch.blocks \cup ctx.blocks
    BY <2>2
  <2>8. Worker'
    BY <1>0, <1>1, <1>2, <2>2, <2>3, <2>5, <2>6, <2>7 DEF Worker, Inside
  <2>. QED BY <1>0, <2>3, <2>4, <2>8 DEF Coverage
<1>. QED BY <1>3, <1>4, <1>5

LEMMA StoringCoverage ==
    ASSUME OneKind, Sure, WriteCheckpoint \/ CheckpointFails \/ FinishFile, faults' = 0
    PROVE  Coverage'
<1>0. /\ faults = 0 /\ ~run.lost /\ ~UnitFails /\ ~BatchLost /\ \A ds : ~UnitEndWithout(ds)
      /\ Keyed(db) /\ Keyed(batch) /\ IsFile(db) /\ IsFile(batch)
      /\ Full(db, disk) /\ Full(batch, disk) /\ Worker
      /\ World(disk) /\ disk.ver \in Versions /\ IsContext(ctx)
      /\ pc \in Inside /\ Reading /\ ctx.off \in Nat /\ disk' = disk
  <2>1. pc \in Inside /\ disk' = disk
    BY DEF WriteCheckpoint, CheckpointFails, FinishFile, AtEnd, Inside
  <2>. QED BY <2>1, Surely DEF Next, Hashing, Reading
<1>1. /\ run.mode \in Modes
      /\ batch.ck # NoCheckpoint => batch.ck.off <= ctx.off
      /\ batch.row.mtime = ctx.mtime
      /\ batch.row = [mtime |-> batch.row.mtime, digest |-> batch.row.digest,
                      mode |-> batch.row.mode]
  BY <1>0 DEF Worker, Inside, Sure, Agree, Writer, Right
<1>2. ASSUME ctx.mtime = disk.ver
      PROVE  /\ IsMap(ctx.map) /\ ctx.map \in Shape[disk.ver].maps
             /\ disk.map \in Shape[disk.ver].maps
             /\ FileSize \in Nat /\ FileSize = Size(disk.ver)
             /\ ByExtent => Covers(batch.extents \cup ctx.extents, ctx.map, ctx.off, FileSize)
             /\ OnlyPartial =>
                   batch.blocks \cup ctx.blocks = StraightBlocks(disk.ver, disk.map, ctx.off)
  <2>1. /\ ctx.map \in Shape[disk.ver].maps /\ disk.map \in Shape[disk.ver].maps
    BY <1>0, <1>2 DEF Sure, Agree, Reader, World
  <2>2. IsMap(ctx.map) /\ FileSize \in Nat /\ FileSize = Size(disk.ver)
    BY <1>0, <1>2, <2>1, Files DEF FileSize
  <2>3. StraightBlocks(disk.ver, disk.map, ctx.off) = StraightBlocks(disk.ver, ctx.map, ctx.off)
    BY <1>0, <2>1, SameBlocks
  <2>. QED BY <1>0, <1>2, <2>1, <2>2, <2>3 DEF Worker
<1>3. CASE WriteCheckpoint
  <2>1. PICK y, z, c :
           /\ y = Stored(batch, ctx.blocks, ctx.extents) /\ c = Checkpoint
           /\ z = [y EXCEPT !.ck = c] /\ UnitFlush(z)
    BY <1>3 DEF WriteCheckpoint
  <2>2. /\ IsFile(y) /\ y.row = batch.row
        /\ y.blocks = batch.blocks \cup ctx.blocks
        /\ y.extents = batch.extents \cup ctx.extents
    BY <1>0, <2>1 DEF Stored, IsFile
  <2>3. /\ z.row = batch.row /\ z.ck = c
        /\ z.blocks = batch.blocks \cup ctx.blocks
        /\ z.extents = batch.extents \cup ctx.extents
    BY <2>1, <2>2 DEF IsFile
  <2>4. /\ c.off = ctx.off /\ c.mtime = ctx.mtime /\ c.ext_csum = ctx.ext_csum
        /\ c.ext = IF ctx.ext_csum = <<>> THEN {} ELSE GetExtent(ctx.map, ctx.off)
    BY <2>1 DEF Checkpoint
  <2>5. /\ pc \in {"save", "leave"} /\ pc' \in {"read", "done"}
        /\ batch' = z /\ db' = z /\ run' = run
    BY <1>3, <2>1 DEF WriteCheckpoint, UnitFlush
  <2>6. ctx.off < FileSize /\ FileSize = Size(ctx.mtime)
    BY <1>0, <2>5 DEF Reading, FileSize
  <2>7. ASSUME ByExtent, ctx.mtime = disk.ver PROVE Behind(z.extents, disk.map, c)
    <3>1. Fresh
      <4>1. ~Capped
        BY <1>0, <2>5, <2>6, NotCapped DEF Reading
      <4>. QED BY <1>0, <1>2, <2>5, <2>6, <2>7, <4>1
               DEF Fresh, Sure, Contents, Carrier, Looping, Reading
    <3>2. Behind(z.extents, ctx.map, c)
      BY <1>2, <2>3, <2>4, <2>7, <3>1, CoversSaved
    <3>3. \A p \in Nat : InData(ctx.map, p) = InData(disk.map, p)
      BY <1>0, <1>2, <2>7, SameCover
    <3>. QED BY <3>2, <3>3 DEF Behind
  <2>8. ASSUME OnlyPartial, ctx.mtime = disk.ver
        PROVE  UpTo(z.blocks, c.off) = StraightBlocks(disk.ver, disk.map, c.off)
    <3>1. z.blocks = StraightBlocks(disk.ver, disk.map, ctx.off)
      BY <1>2, <2>3, <2>8
    <3>. QED BY <1>0, <2>4, <3>1, BlocksBefore DEF UpTo
  <2>9. SavedFull(z, disk)
    BY <1>1, <2>3, <2>4, <2>6, <2>7, <2>8 DEF SavedFull
  <2>10. Full(z, disk)
    BY <1>0, <2>3, <2>9 DEF Full, Hashed, Reading
  <2>11. /\ ctx'.off = ctx.off /\ ctx'.mtime = ctx.mtime /\ ctx'.map = ctx.map
         /\ ctx'.blocks = {} /\ ctx'.extents = {}
    BY <1>0, <1>3 DEF WriteCheckpoint, IsContext
  <2>12. FileSize' = FileSize
    BY <2>11 DEF FileSize
  <2>13. /\ batch'.extents \cup ctx'.extents = batch.extents \cup ctx.extents
         /\ batch'.blocks \cup ctx'.blocks = batch.blocks \cup ctx.blocks
    BY <2>3, <2>5, <2>11
  <2>14. batch'.ck.off <= ctx'.off
    BY <1>0, <2>3, <2>4, <2>5, <2>11
  <2>15. ASSUME ctx.mtime = disk.ver
         PROVE  /\ ByExtent =>
                      Covers(batch'.extents \cup ctx'.extents, ctx'.map, ctx'.off, FileSize')
                /\ OnlyPartial =>
                      batch'.blocks \cup ctx'.blocks
                        = StraightBlocks(disk.ver, ctx'.map, ctx'.off)
    BY <1>0, <2>11, <2>12, <2>13, <2>15 DEF Worker
  <2>16. Worker'
    BY <1>0, <1>1, <2>5, <2>11, <2>14, <2>15 DEF Worker
  <2>. QED BY <1>0, <2>5, <2>10, <2>16 DEF Coverage
<1>4. CASE CheckpointFails
  <2>1. Staged(ctx.blocks, ctx.extents)
    <3>1. Fits(batch, {}, ctx.extents) /\ Fits(batch, ctx.blocks, {})
      BY <1>0 DEF Reading, Fits
    <3>. QED BY <1>0, <1>4, <3>1 DEF CheckpointFails
  <2>2. /\ UNCHANGED <<db, batch, run>> /\ pc \in {"save", "leave"} /\ pc' \in {"read", "done"}
    BY <1>0, <1>4 DEF CheckpointFails
  <2>3. /\ ctx'.off = ctx.off /\ ctx'.mtime = ctx.mtime /\ ctx'.map = ctx.map
        /\ ctx'.blocks = ctx.blocks /\ ctx'.extents = ctx.extents
    BY <1>0, <2>1 DEF Staged, IsContext
  <2>4. FileSize' = FileSize
    BY <2>3 DEF FileSize
  <2>5. Worker'
    BY <1>0, <2>2, <2>3, <2>4 DEF Worker, Inside
  <2>. QED BY <1>0, <2>2, <2>5 DEF Coverage
<1>5. CASE FinishFile
  <2>1. pc' = "done" /\ run' = run
    BY <1>0, <1>5 DEF FinishFile, UnitEnd
  <2>2. Worker'
    BY <1>1, <2>1 DEF Worker, Inside
  <2>3. CASE UNCHANGED <<db, batch>>
    BY <1>0, <2>2, <2>3 DEF Coverage
  <2>4. CASE Complete /\ UnitEnd(Finished)
    <3>1. PICK y, z, c, r :
             /\ y = Stored(batch, ctx.blocks, ctx.extents)
             /\ r = [y.row EXCEPT !.digest = ctx.csum, !.mode = run.mode]
             /\ c = IF ctx.last # 0 THEN NoCheckpoint ELSE y.ck
             /\ z = [y EXCEPT !.row = r, !.ck = c] /\ z = Finished
      BY DEF Finished
    <3>2. /\ IsFile(y) /\ y.row = batch.row /\ y.ck = batch.ck
          /\ y.blocks = batch.blocks \cup ctx.blocks
          /\ y.extents = batch.extents \cup ctx.extents
      BY <1>0, <3>1 DEF Stored, IsFile
    <3>3. z.row = r /\ z.ck = c /\ z.blocks = y.blocks /\ z.extents = y.extents
      BY <3>1, <3>2 DEF IsFile
    <3>4. r.mtime = ctx.mtime /\ r.mode = run.mode
      BY <1>1, <3>1, <3>2
    <3>5. c = NoCheckpoint
      BY <1>0, <3>1, <3>2 DEF Reading
    <3>6. ASSUME ctx.mtime = disk.ver
          PROVE  /\ ByExtent => Everything(z.extents, disk.map, Size(disk.ver))
                 /\ OnlyPartial =>
                       z.blocks = StraightBlocks(disk.ver, disk.map, Size(disk.ver))
      <4>1. ctx.off = FileSize /\ FileSize = Size(disk.ver)
        BY <1>2, <2>4, <3>6 DEF Complete
      <4>2. ASSUME ByExtent PROVE Covers(z.extents, ctx.map, Size(disk.ver), Size(disk.ver))
        BY <1>2, <3>2, <3>3, <3>6, <4>1, <4>2
      <4>3. Size(disk.ver) \in Nat
        BY <1>2, <3>6
      <4>4. ASSUME ByExtent PROVE Everything(z.extents, disk.map, Size(disk.ver))
        BY <1>0, <1>2, <3>6, <4>2, <4>3, <4>4, EverythingCovered
      <4>. QED BY <1>2, <3>2, <3>3, <3>6, <4>1, <4>4
    <3>7. Full(z, disk)
      BY <1>1, <3>3, <3>4, <3>5, <3>6 DEF Full, HashedFull
    <3>8. batch' = z /\ db' \in {db, z}
      BY <2>4, <3>1 DEF UnitEnd
    <3>. QED BY <1>0, <2>2, <3>7, <3>8 DEF Coverage
  <2>. QED BY <1>0, <1>5, <2>3, <2>4 DEF FinishFile
<1>. QED BY <1>3, <1>4, <1>5

LEMMA WorldCoverage ==
    ASSUME OneKind, Sure, faults' = 0,
           \/ EndRun \/ Kill \/ Interrupt \/ OtherFiles
           \/ Rewrite \/ Defragment \/ UNCHANGED vars
    PROVE  Coverage'
<1>0. /\ faults = 0 /\ ~Fault /\ ~BatchLost /\ Keyed(db) /\ Keyed(batch)
      /\ Full(db, disk) /\ Full(batch, disk) /\ Worker /\ World(disk)
  BY Surely DEF Next
<1>1. CASE EndRun \/ Kill
  <2>1. disk' = disk /\ pc' = "down" /\ db' \in {db, batch} /\ batch' \in {db, batch}
    BY <1>1 DEF EndRun, Kill
  <2>. QED BY <1>0, <2>1 DEF Coverage, Worker, Inside
<1>2. CASE Interrupt \/ OtherFiles \/ UNCHANGED vars
  <2>1. UNCHANGED <<disk, ctx, pc, batch>> /\ run'.mode = run.mode /\ db' \in {db, batch}
    BY <1>0, <1>2 DEF Interrupt, OtherFiles, UnitFlush, vars, Sure, Agree, Writer, IsRun
  <2>2. FileSize' = FileSize
    BY <2>1 DEF FileSize
  <2>. QED BY <1>0, <2>1, <2>2 DEF Coverage, Worker
<1>3. CASE Rewrite \/ Defragment
  <2>1. PICK u : u = disk'
    OBVIOUS
  <2>2. /\ UNCHANGED <<db, batch, run, ctx, pc>> /\ World(u)
        /\ u.ver = disk.ver + 1 \/ u.ver = disk.ver
    BY <1>0, <1>3, <2>1 DEF Rewrite, Defragment, World
  <2>3. disk.ver \in Nat /\ (u.ver > disk.ver \/ u.ver = disk.ver)
    BY <1>0, <2>2, Files DEF World
  <2>4. Full(db, u) /\ Full(batch, u)
    BY <1>0, <2>2, <2>3, FullElsewhere DEF Sure, Agree, Keyed, Aligned
  <2>5. FileSize' = FileSize
    BY <2>2 DEF FileSize
  <2>6. pc \in Inside => ctx.mtime \in Nat /\ ctx.mtime <= disk.ver
    BY DEF Sure, Agree, Reader
  <2>7. pc \in Inside /\ ctx.mtime = u.ver => u.ver = disk.ver
    BY <2>2, <2>3, <2>6
  <2>8. Worker'
    BY <1>0, <2>1, <2>2, <2>5, <2>7 DEF Worker
  <2>. QED BY <2>1, <2>2, <2>4, <2>8 DEF Coverage
<1>. QED BY <1>1, <1>2, <1>3

LEMMA SureStays == OneKind /\ Sure /\ [Next]_vars /\ faults' = 0 => Sure'
<1>. SUFFICES ASSUME OneKind, Sure, [Next]_vars, faults' = 0 PROVE Sure'
  OBVIOUS
<1>1. ~astray'
  BY GridStays DEF Sure, Mapped, OnGrid
<1>2. Agree' /\ Mapped' /\ Keys' /\ Contents'
  BY <1>1, NextAgree, MappedStays, KeysStay, ContentsStay DEF Sure
<1>3. ~ReadToHole /\ ~FlushFails /\ ~CodeAsLength
  BY Surely
<1>4. Coverage'
  BY <1>3, ListingCoverage, OpeningCoverage, LoopCoverage, StoringCoverage, WorldCoverage
     DEF Next, Hashing
<1>. QED BY <1>1, <1>2, <1>4 DEF Sure

LEMMA InitSure == Init => Sure
<1>. SUFFICES ASSUME Init PROVE Sure
  OBVIOUS
<1>1. Full(NoFile, disk)
  BY FullWithout DEF NoFile, NoRow, Hashed
<1>2. Coverage
  BY <1>1 DEF Init, Coverage, Worker, Inside
<1>. QED BY <1>2, InitAgree, InitKeys, InitContents DEF Sure, Init

\* No write ever fails.
NeverFailed == MaxFaults = 0

LEMMA NoFaults == NeverFailed => /\ Init => faults = 0
                                 /\ faults = 0 /\ [Next]_vars => faults' = 0
<1>. SUFFICES ASSUME NeverFailed PROVE /\ Init => faults = 0
                                       /\ faults = 0 /\ [Next]_vars => faults' = 0
  OBVIOUS
<1>1. Init => faults = 0
  BY DEF Init
<1>2. ASSUME faults = 0, [Next]_vars PROVE faults' = 0
  <2>1. ~Fault
    BY <1>2 DEF Fault, NeverFailed
  <2>. QED BY <1>2, <2>1
       DEF Next, vars, StartRun, Listing, ListFile, TakeCheckpoint, RefuseCheckpoint,
           StoreRow, Hashing, SkipFile, OpenFile, Decline, SkipHole, ReadBuffer, ReadToHole,
           FlushBlocks, FlushFails, FlushRefused, CodeAsLength, WriteCheckpoint,
           CheckpointFails, FinishFile, EndRun, Kill, Interrupt, OtherFiles, Rewrite,
           Defragment, UnitEnd, UnitEndWithout, UnitFlush, UnitFails, BatchLost
<1>. QED BY <1>1, <1>2

LEMMA OnceCounted ==
    ASSUME NEW rows, NEW c, Once(rows, c)
    PROVE  Cardinality({e \in rows : e.loff <= c /\ c < e.loff + e.len}) = 1
<1>1. PICK s : {e \in rows : e.loff <= c /\ c < e.loff + e.len} = {s}
  BY DEF Once, Held
<1>. QED BY <1>1, FS_Singleton

\* What NothingSkipped says, of one state.
LEMMA NothingLeftOut ==
    ASSUME OneMode, Sure, faults = 0
    PROVE  NothingSkipped
<1>. SUFFICES ASSUME NEW d \in {db, batch}, UpToDate(d)
              PROVE  /\ d.row.mode # "whole" =>
                           CoveredOnce(d, disk.map, Size(disk.ver), {})
                     /\ d.row.mode = "partial" =>
                           d.blocks = StraightBlocks(disk.ver, disk.map, Size(disk.ver))
  BY DEF NothingSkipped
<1>1. HashedFull(d, disk) /\ d.row.mtime = disk.ver
  BY DEF Sure, Coverage, Full, UpToDate, Unchanged
<1>2. PICK m : Modes = {m} /\ d.row.mode = m
  BY <1>1 DEF OneMode, HashedFull
<1>3. Size(disk.ver) \in Nat
  BY Files DEF Sure, Agree, World
<1>4. ASSUME m # "whole" PROVE CoveredOnce(d, disk.map, Size(disk.ver), {})
  <2>1. Everything(d.extents, disk.map, Size(disk.ver))
    BY <1>1, <1>2, <1>4 DEF HashedFull, ByExtent
  <2>2. ASSUME NEW c \in {x \in 0 .. Size(disk.ver) - 1 : InData(disk.map, x)} \ {}
        PROVE  Once(d.extents, c)
    BY <1>3, <2>1 DEF Everything
  <2>. QED BY <2>2, OnceCounted DEF CoveredOnce
<1>5. ASSUME m = "partial"
      PROVE  d.blocks = StraightBlocks(disk.ver, disk.map, Size(disk.ver))
  BY <1>1, <1>2, <1>5 DEF HashedFull, OnlyPartial
<1>. QED BY <1>2, <1>4, <1>5

\* While no write fails and all runs have the same options, a file that counts
\* as hashed has all the hashes that one straight scan stores, however often it
\* was left and taken up again (csum_whole_file(), write_checkpoint(),
\* adopt_resume()): each data byte is in one extent's row, and each block that
\* is not preallocated has its digest.
THEOREM NothingIsSkipped ==
    ASSUME NeverFailed, OneMode PROVE Spec => []NothingSkipped
<1>0. OneKind
  BY DEF OneMode, OneKind, ByExtent
<1>1. Init => Sure /\ faults = 0
  BY InitSure, NoFaults
<1>2. Sure /\ faults = 0 /\ [Next]_vars => (Sure /\ faults = 0)'
  BY <1>0, SureStays, NoFaults
<1>3. Sure /\ faults = 0 => NothingSkipped
  BY NothingLeftOut
<1>. QED BY <1>1, <1>2, <1>3, PTL DEF Spec

\* What CheckpointIsPrefix says, of one state.
LEMMA PrefixSaved ==
    ASSUME Sure, faults = 0
    PROVE  CheckpointIsPrefix
<1>. SUFFICES ASSUME NEW d \in {db, batch}, d.ck # NoCheckpoint, d.ck.mtime = disk.ver,
                     NEW before, before = RemoveFrom(d, d.ck.off),
                     NEW open, open = UNION {e.from .. d.ck.off - 1 : e \in d.ck.ext}
              PROVE  /\ d.ck.csum = Straight(disk.ver, disk.map, d.ck.off)
                     /\ \A e \in before.extents : ExtentIsContent(e, disk.ver, disk.map)
                     /\ "whole" \notin Modes => CoveredOnce(before, disk.map, d.ck.off, open)
                     /\ Modes = {"partial"} =>
                           before.blocks = StraightBlocks(disk.ver, disk.map, d.ck.off)
  BY DEF CheckpointIsPrefix
<1>1. /\ IsFile(d) /\ Keyed(d) /\ SavedFull(d, disk) /\ Kept(d, disk) /\ Right(d, disk)
  BY DEF Sure, Coverage, Full, Keys, Contents, Agree, Right
<1>2. /\ before.blocks = UpTo(d.blocks, d.ck.off)
      /\ before.extents = {e \in d.extents : e.loff < d.ck.off}
  BY <1>1 DEF RemoveFrom, IsFile, UpTo
<1>3. d.ck.csum = Straight(disk.ver, disk.map, d.ck.off) /\ d.ck.off \in Nat
  BY <1>1 DEF Right, Sound
<1>4. \A e \in before.extents : ExtentIsContent(e, disk.ver, disk.map)
  BY <1>1, <1>2 DEF Kept, AllContent, SavedFull
<1>5. ASSUME ByExtent PROVE CoveredOnce(before, disk.map, d.ck.off, open)
  <2>1. Behind(d.extents, disk.map, d.ck) /\ open = OpenCells(d.ck)
    BY <1>1, <1>5 DEF SavedFull, OpenCells
  <2>2. ASSUME NEW c \in {x \in 0 .. d.ck.off - 1 : InData(disk.map, x)} \ open
        PROVE  Once(before.extents, c)
    <3>1. c \in Nat /\ c < d.ck.off
      BY <1>3
    <3>2. Once(d.extents, c)
      BY <2>1, <3>1 DEF Behind
    <3>3. Held(before.extents, c) = Held(d.extents, c)
      BY <1>1, <1>2, <1>3, <3>1, HeldBefore DEF Keyed, KeysTyped
    <3>. QED BY <3>2, <3>3 DEF Once
  <2>. QED BY <2>2, OnceCounted DEF CoveredOnce
<1>6. ASSUME OnlyPartial
      PROVE  before.blocks = StraightBlocks(disk.ver, disk.map, d.ck.off)
  BY <1>1, <1>2, <1>6 DEF SavedFull
<1>. QED BY <1>3, <1>4, <1>5, <1>6 DEF ByExtent, OnlyPartial

\* While no write fails, a checkpoint and the hashes before it are one scan's
\* up to its offset (write_checkpoint()), if all runs digest extents or none
\* does.
THEOREM CheckpointsArePrefixes ==
    ASSUME NeverFailed, OneKind PROVE Spec => []CheckpointIsPrefix
<1>1. Init => Sure /\ faults = 0
  BY InitSure, NoFaults
<1>2. Sure /\ faults = 0 /\ [Next]_vars => (Sure /\ faults = 0)'
  BY SureStays, NoFaults
<1>3. Sure /\ faults = 0 => CheckpointIsPrefix
  BY PrefixSaved
<1>. QED BY <1>1, <1>2, <1>3, PTL DEF Spec

-----------------------------------------------------------------------------
(* What is committed stays.  A file that lies still is taken up where its  *)
(* checkpoint says, and no unit sets it back.                              *)

\* There is a checkpoint of the version on disk, which lies where it lay.
Steady(d, w) == /\ d.ck # NoCheckpoint /\ d.ck.mtime = w.ver
                /\ Shape[w.ver].maps = {w.map}

\* What adopt_resume() asks of it.
Placed(d, w) ==
    /\ ByExtent /\ Steady(d, w) =>
          /\ Carry(w.ver, w.map, d.ck.off, d.ck.ext_csum)
          /\ d.ck.ext_csum # <<>> => d.ck.ext = GetExtent(w.map, d.ck.off)
    /\ ~ByExtent => d.ck.ext_csum = <<>>

\* d is of the same version as c and as far as it, or further.
Ahead(d, c) ==
    /\ d.row.mtime = c.row.mtime
    /\ Hashed(d) \/ (d.ck # NoCheckpoint /\ d.ck.off >= c.ck.off)

Lasting ==
    faults = 0 =>
        /\ Placed(db, disk) /\ Placed(batch, disk)
        /\ ~ByExtent => ctx.ext_csum = <<>>
        /\ pc = "resume" => batch = db
        /\ pc = "store" => ~Steady(db, disk) /\ ~Steady(batch, disk)
        /\ Steady(db, disk) => Ahead(batch, db)

Onward == Steady(db, disk) => Ahead(db', db)

LEMMA PlacedSame ==
    ASSUME NEW w, NEW d, Placed(d, w), NEW z, z.ck = d.ck \/ z.ck = NoCheckpoint
    PROVE  Placed(z, w)
<1>1. NoCheckpoint.ext_csum = <<>>
  BY DEF NoCheckpoint
<1>. QED BY <1>1 DEF Placed, Steady

\* A unit that leaves z, which is as far as what is committed.
LEMMA UnitLasts ==
    ASSUME faults' = 0, NEW z, batch' = z, db' \in {db, z}, Placed(db, disk), Placed(z, disk),
           Keyed(db), Keyed(z), disk' = disk, Steady(db, disk) => Ahead(z, db),
           ~ByExtent => ctx'.ext_csum = <<>>, pc' \notin {"resume", "store"}
    PROVE  Lasting' /\ Onward
<1>1. Steady(db, disk) => Ahead(db, db)
  BY DEF Keyed, Steady, Ahead, Aligned
<1>2. Steady(z, disk) => Ahead(z, z)
  BY DEF Keyed, Steady, Ahead, Aligned
<1>. QED BY <1>1, <1>2 DEF Lasting, Onward

\* A step that leaves the hashfile as it is.
LEMMA IdleLasts ==
    ASSUME faults' = 0, Lasting, faults = 0, UNCHANGED <<db, batch, disk>>, Keyed(db),
           ~ByExtent => ctx'.ext_csum = <<>>,
           pc' = "resume" => batch = db,
           pc' = "store" => ~Steady(db, disk) /\ ~Steady(batch, disk)
    PROVE  Lasting' /\ Onward
<1>1. Steady(db, disk) => Ahead(db, db)
  BY DEF Keyed, Steady, Ahead, Aligned
<1>. QED BY <1>1 DEF Lasting, Onward

\* adopt_resume() does not decline a checkpoint of a file that lies still.
LEMMA Adopts ==
    ASSUME IsMap(disk.map), NEW d, Placed(d, disk), Steady(d, disk), d.ck.off \in Nat,
           ~ByExtent => run.mode = "whole"
    PROVE  ~LayoutMoved(d.ck) /\ ~NoExtentState(d.ck)
<1>1. CASE ~ByExtent
  BY <1>1 DEF Placed, LayoutMoved, NoExtentState
<1>2. CASE ByExtent
  <2>1. PICK off, cs : off \in Nat /\ off = d.ck.off /\ cs = d.ck.ext_csum
    OBVIOUS
  <2>2. /\ Carry(disk.ver, disk.map, off, cs)
        /\ cs # <<>> => d.ck.ext = GetExtent(disk.map, off)
    BY <1>2, <2>1 DEF Placed
  <2>3. ASSUME LayoutMoved(d.ck) PROVE FALSE
    <3>1. cs # <<>> /\ \E x \in GetExtent(disk.map, off) : x.from >= off
      BY <2>1, <2>2, <2>3 DEF LayoutMoved
    <3>2. PICK x : x \in OpenAt(disk.map, off)
      BY <2>2, <3>1 DEF Carry
    <3>3. GetExtent(disk.map, off) = {x} /\ x.from \in Nat /\ x.from < off
      BY <2>1, <3>2, OneOpen DEF OpenAt
    <3>. QED BY <2>1, <3>1, <3>3
  <2>4. ASSUME NoExtentState(d.ck) PROVE FALSE
    <3>1. cs = <<>> /\ \E y \in GetExtent(disk.map, off) : y.from < off /\ ~y.skip
      BY <2>1, <2>4 DEF NoExtentState
    <3>2. PICK x \in GetExtent(disk.map, off) : x.from < off /\ ~x.skip
      BY <3>1
    <3>3. x \in OpenAt(disk.map, off)
      BY <3>2 DEF OpenAt, GetExtent
    <3>4. cs = Cells(disk.ver, disk.map, x.from, off) /\ x.from \in Nat
      BY <2>1, <2>2, <3>3, OneOpen DEF Carry
    <3>5. Cells(disk.ver, disk.map, x.from, off) # <<>>
      <4>1. PICK n \in Nat : n = off - x.from /\ n > 0
        BY <2>1, <3>2, <3>4
      <4>2. DOMAIN Cells(disk.ver, disk.map, x.from, off) = 1 .. n
        BY <4>1 DEF Cells
      <4>3. 1 \in 1 .. n /\ DOMAIN <<>> = 1 .. 0
        BY <4>1
      <4>. QED BY <4>2, <4>3
    <3>. QED BY <3>1, <3>4, <3>5
  <2>. QED BY <2>3, <2>4
<1>. QED BY <1>1, <1>2

\* What a step without a failed write may rely on.
LEMMA Lastly ==
    ASSUME OneKind, Sure, Lasting, [Next]_vars, faults' = 0
    PROVE  /\ faults = 0 /\ ~run.lost
           /\ ~Fault /\ ~UnitFails /\ ~BatchLost /\ \A ds : ~UnitEndWithout(ds)
           /\ Keyed(db) /\ Keyed(batch) /\ IsFile(db) /\ IsFile(batch)
           /\ Keyed(db') /\ Keyed(batch')
           /\ Full(db, disk) /\ Full(batch, disk)
           /\ World(disk) /\ disk.ver \in Versions /\ IsMap(disk.map) /\ IsContext(ctx)
           /\ Placed(db, disk) /\ Placed(batch, disk)
           /\ Steady(db, disk) => Ahead(batch, db) /\ Ahead(db, db)
           /\ ~ByExtent => ctx.ext_csum = <<>>
<1>1. Keyed(db') /\ Keyed(batch')
  BY SureStays DEF Sure, Keys
<1>2. Keyed(db)
  BY Surely
<1>3. Steady(db, disk) => Ahead(db, db)
  BY <1>2 DEF Keyed, Steady, Ahead, Aligned
<1>. QED BY <1>1, <1>3, Surely DEF Lasting

LEMMA ListingLasts ==
    ASSUME OneKind, Sure, Lasting, StartRun \/ Listing, faults' = 0
    PROVE  Lasting' /\ Onward
<1>0. /\ faults = 0 /\ ~run.lost /\ ~UnitFails /\ ~BatchLost /\ \A ds : ~UnitEndWithout(ds)
      /\ Keyed(db) /\ Keyed(batch) /\ IsFile(db) /\ IsFile(batch)
      /\ Keyed(db') /\ Keyed(batch') /\ Full(db, disk) /\ Full(batch, disk)
      /\ Placed(db, disk) /\ Placed(batch, disk) /\ disk' = disk
      /\ Steady(db, disk) => Ahead(batch, db) /\ Ahead(db, db)
      /\ ~ByExtent => ctx.ext_csum = <<>>
  BY Lastly DEF Next, StartRun, Listing, ListFile, TakeCheckpoint, RefuseCheckpoint, StoreRow
<1>1. CASE StartRun
  <2>1. PICK z : z = Prune(db)
    OBVIOUS
  <2>2. /\ db' = z /\ batch' = z /\ pc' = "list" /\ ctx'.ext_csum = <<>>
    BY <1>1, <2>1 DEF StartRun, Idle
  <2>3. z.ck = db.ck /\ (Steady(db, disk) => z = db)
    BY <2>1 DEF Prune, NoFile, Steady
  <2>4. Placed(z, disk)
    BY <1>0, <2>3, PlacedSame
  <2>5. Steady(z, disk) => Ahead(z, z)
    BY <1>0, <2>2 DEF Keyed, Steady, Ahead, Aligned
  <2>. QED BY <1>0, <2>2, <2>3, <2>4, <2>5 DEF Lasting, Onward
<1>2. CASE ListFile
  <2>1. UNCHANGED <<db, batch>> /\ ctx'.ext_csum = <<>> /\ batch = db
    BY <1>2 DEF ListFile, Idle, Sure, Agree, Writer
  <2>2. ASSUME pc' = "store", Steady(db, disk) PROVE FALSE
    <3>1. db.ck # NoCheckpoint /\ db.ck.mtime = disk.ver /\ ~Hashed(db)
      BY <1>0, <2>2 DEF Steady, Keyed
    <3>2. db.row.mtime = disk.ver
      BY <1>0, <3>1 DEF Full, SavedFull
    <3>. QED BY <1>2, <2>2, <3>1, <3>2 DEF ListFile, Unchanged
  <2>. QED BY <1>0, <2>1, <2>2, IdleLasts
<1>3. CASE TakeCheckpoint
  <2>1. PICK z : z = RemoveFrom(batch, batch.ck.off)
    OBVIOUS
  <2>2. z.row = batch.row /\ z.ck = batch.ck
    BY <1>0, <2>1 DEF RemoveFrom, IsFile
  <2>3. batch' = z /\ db' \in {db, z} /\ pc' = "open"
    BY <1>0, <1>3, <2>1 DEF TakeCheckpoint, UnitEnd
  <2>4. ctx'.ext_csum = ctx.ext_csum
    BY <1>3 DEF TakeCheckpoint, Sure, Agree, Reader, IsContext
  <2>5. Placed(z, disk)
    BY <1>0, <2>2, PlacedSame
  <2>6. Steady(db, disk) => Ahead(z, db)
    BY <1>0, <2>2 DEF Ahead, Hashed
  <2>. QED BY <1>0, <2>3, <2>4, <2>5, <2>6, UnitLasts
<1>4. CASE RefuseCheckpoint
  <2>1. batch = db /\ ~Usable(batch.ck) /\ UnitEnd(RemoveCheckpoint(batch))
    BY <1>0, <1>4 DEF RefuseCheckpoint, Lasting
  <2>2. ASSUME Steady(db, disk) PROVE FALSE
    <3>1. db.ck # NoCheckpoint /\ SavedFull(db, disk) /\ db.ck.off \in Nat /\ db.ck.off > 0
      BY <1>0, <2>2 DEF Steady, Keyed, Aligned, Full
    <3>2. batch.row.mtime = ctx.mtime
      BY <1>0, <1>4 DEF RefuseCheckpoint, Sure, Agree, Writer, Before
    <3>. QED BY <2>1, <3>1, <3>2 DEF SavedFull, Usable
  <2>3. PICK z : z = RemoveCheckpoint(batch)
    OBVIOUS
  <2>4. z.ck = NoCheckpoint /\ batch' = z /\ db' \in {db, z}
    BY <1>0, <2>1, <2>3 DEF RemoveCheckpoint, UnitEnd, IsFile
  <2>5. Placed(z, disk) /\ ~Steady(z, disk)
    BY <1>0, <2>4, PlacedSame DEF Steady
  <2>6. ctx' = ctx /\ pc' = "store"
    BY <1>4 DEF RefuseCheckpoint
  <2>. QED BY <1>0, <2>2, <2>4, <2>5, <2>6 DEF Lasting, Onward
<1>5. CASE StoreRow
  <2>1. PICK z : z = [NoFile EXCEPT !.row.mtime = ctx.mtime]
    OBVIOUS
  <2>2. z.ck = NoCheckpoint
    BY <2>1 DEF NoFile
  <2>3. batch' = z /\ db' \in {db, z} /\ pc' = "open" /\ ctx' = ctx
    BY <1>0, <1>5, <2>1 DEF StoreRow, UnitEnd
  <2>4. ~Steady(db, disk)
    BY <1>0, <1>5 DEF StoreRow, Lasting
  <2>5. Placed(z, disk)
    BY <1>0, <2>2, PlacedSame
  <2>. QED BY <1>0, <2>3, <2>4, <2>5, UnitLasts
<1>. QED BY <1>1, <1>2, <1>3, <1>4, <1>5 DEF Listing

\* The checkpoint that is committed is at the worker, or one further on.
LEMMA SteadyBatch ==
    ASSUME Full(db, disk), Full(batch, disk), Keyed(db), Ahead(batch, db), Steady(db, disk),
           ~Hashed(batch)
    PROVE  /\ Steady(batch, disk)
           /\ batch.row.mtime = disk.ver
<1>1. db.row.mtime = disk.ver
  BY DEF Full, SavedFull, Steady
<1>2. batch.ck # NoCheckpoint /\ batch.row.mtime = disk.ver
  BY <1>1 DEF Ahead
<1>. QED BY <1>2 DEF Full, SavedFull, Steady

LEMMA OpeningLasts ==
    ASSUME OneKind, Sure, Lasting, SkipFile \/ OpenFile \/ Decline, faults' = 0
    PROVE  Lasting' /\ Onward
<1>0. /\ faults = 0 /\ ~run.lost /\ ~UnitFails /\ ~BatchLost /\ \A ds : ~UnitEndWithout(ds)
      /\ Keyed(db) /\ Keyed(batch) /\ IsFile(db) /\ IsFile(batch)
      /\ Keyed(db') /\ Keyed(batch') /\ Full(db, disk) /\ Full(batch, disk)
      /\ Placed(db, disk) /\ Placed(batch, disk) /\ disk' = disk /\ IsMap(disk.map)
      /\ Steady(db, disk) => Ahead(batch, db) /\ Ahead(db, db)
      /\ ~ByExtent => ctx.ext_csum = <<>>
      /\ IsContext(ctx) /\ pc = "open" /\ Opening
  <2>1. Opening
    BY Surely DEF Next, Hashing, SkipFile, OpenFile, Decline, Before
  <2>. QED BY <2>1, Lastly DEF Next, Hashing, SkipFile, OpenFile, Decline
<1>1. ~Hashed(batch) /\ batch.ck = ctx.resume
  BY <1>0 DEF Opening
<1>2. CASE SkipFile
  <2>1. UNCHANGED <<db, batch>> /\ pc' = "done" /\ ctx' = ctx
    BY <1>0, <1>2 DEF SkipFile
  <2>. QED BY <1>0, <2>1, IdleLasts
<1>3. CASE OpenFile
  <2>1. /\ UNCHANGED <<db, batch>> /\ pc' = "read" /\ ctx'.ext_csum = batch.ck.ext_csum
    BY <1>0, <1>1, <1>3 DEF OpenFile, IsContext
  <2>2. ~ByExtent => ctx'.ext_csum = <<>>
    BY <1>0, <2>1 DEF Placed
  <2>. QED BY <1>0, <2>1, <2>2, IdleLasts
<1>4. CASE Decline
  <2>1. ASSUME Steady(db, disk) PROVE FALSE
    <3>1. Steady(batch, disk) /\ batch.ck.off \in Nat
      BY <1>0, <1>1, <2>1, SteadyBatch DEF Keyed, Aligned, Steady
    <3>2. ~ByExtent => run.mode = "whole"
      BY <1>0 DEF Sure, Contents, Carrier
    <3>3. ~LayoutMoved(batch.ck) /\ ~NoExtentState(batch.ck)
      BY <1>0, <3>1, <3>2, Adopts
    <3>. QED BY <1>1, <1>4, <3>3 DEF Decline
  <2>2. PICK z : z = RemoveCheckpoint(RemoveFrom(batch, 0))
    OBVIOUS
  <2>3. z.ck = NoCheckpoint
    BY <1>0, <2>2 DEF RemoveCheckpoint, RemoveFrom, IsFile
  <2>4. batch' = z /\ db' \in {db, z} /\ pc' = "read" /\ ctx'.ext_csum = ctx.ext_csum
    BY <1>0, <1>4, <2>2 DEF Decline, UnitEnd, IsContext
  <2>5. Placed(z, disk)
    BY <1>0, <2>3, PlacedSame
  <2>. QED BY <1>0, <2>1, <2>4, <2>5, UnitLasts
<1>. QED BY <1>2, <1>3, <1>4

LEMMA LoopLasts ==
    ASSUME OneKind, Sure, Lasting, SkipHole \/ ReadBuffer \/ FlushBlocks, faults' = 0
    PROVE  Lasting' /\ Onward
<1>0. /\ faults = 0 /\ ~UnitFails /\ ~BatchLost
      /\ Keyed(db) /\ Keyed(batch) /\ IsFile(db) /\ IsFile(batch)
      /\ Keyed(db') /\ Keyed(batch')
      /\ Placed(db, disk) /\ Placed(batch, disk) /\ disk' = disk
      /\ Steady(db, disk) => Ahead(batch, db) /\ Ahead(db, db)
      /\ ~ByExtent => ctx.ext_csum = <<>>
      /\ IsContext(ctx) /\ pc = "read"
  BY Lastly DEF Next, Hashing, SkipHole, ReadBuffer, FlushBlocks, Flushing, AtData
<1>1. CASE SkipHole
  <2>1. UNCHANGED <<db, batch, pc>> /\ ctx'.ext_csum = ctx.ext_csum
    BY <1>0, <1>1 DEF SkipHole, IsContext
  <2>. QED BY <1>0, <2>1, IdleLasts
<1>2. CASE ReadBuffer
  <2>1. ~ByExtent => run.mode = "whole"
    BY <1>0 DEF Sure, Contents, Carrier
  <2>2. UNCHANGED <<db, batch>> /\ pc' \in {"read", "save", "leave", "final", "done"}
    BY <1>2 DEF ReadBuffer, AfterBuffer
  <2>3. run.mode = "whole" => ctx'.ext_csum = ctx.ext_csum
    BY <1>0, <1>2 DEF ReadBuffer, Consume, IsContext
  <2>. QED BY <1>0, <2>1, <2>2, <2>3, IdleLasts
<1>3. CASE FlushBlocks
  <2>1. PICK z : z = Stored(batch, ctx.blocks, {})
    OBVIOUS
  <2>2. z.row = batch.row /\ z.ck = batch.ck
    BY <1>0, <2>1 DEF Stored, IsFile
  <2>3. batch' = z /\ db' \in {db, z} /\ ctx'.ext_csum = ctx.ext_csum /\ pc' = "read"
    BY <1>0, <1>3, <2>1 DEF FlushBlocks, UnitEnd, IsContext
  <2>4. Placed(z, disk)
    BY <1>0, <2>2, PlacedSame
  <2>5. Steady(db, disk) => Ahead(z, db)
    BY <1>0, <2>2 DEF Ahead, Hashed
  <2>. QED BY <1>0, <2>3, <2>4, <2>5, UnitLasts
<1>. QED BY <1>1, <1>2, <1>3

\* The file that is hashed ends with a digest.
LEMMA FinishedIs ==
    ASSUME Sure, IsFile(batch), pc \in Inside, batch.row.mtime = ctx.mtime,
           ctx.mtime = disk.ver, ctx.off = FileSize
    PROVE  ctx.csum # <<>>
<1>1. disk.ver \in Versions /\ FileSize = Size(disk.ver)
  BY DEF Sure, Agree, World, FileSize
<1>2. PICK n : n \in Nat /\ n > 0 /\ n = Size(disk.ver)
  BY <1>1, Files
<1>3. ctx.csum = Straight(disk.ver, disk.map, n)
  BY <1>1, <1>2 DEF Sure, Agree, Reader, Sound
<1>4. DOMAIN ctx.csum = 1 .. n
  BY <1>3 DEF Straight
<1>5. 1 \in DOMAIN ctx.csum
  BY <1>2, <1>4
<1>. QED BY <1>5

LEMMA StoringLasts ==
    ASSUME OneKind, Sure, Lasting, WriteCheckpoint \/ CheckpointFails \/ FinishFile, faults' = 0
    PROVE  Lasting' /\ Onward
<1>0. /\ faults = 0 /\ ~run.lost /\ ~UnitFails /\ ~BatchLost
      /\ Keyed(db) /\ Keyed(batch) /\ IsFile(db) /\ IsFile(batch)
      /\ Keyed(db') /\ Keyed(batch') /\ Full(db, disk) /\ Full(batch, disk)
      /\ Placed(db, disk) /\ Placed(batch, disk) /\ disk' = disk
      /\ Steady(db, disk) => Ahead(batch, db) /\ Ahead(db, db)
      /\ ~ByExtent => ctx.ext_csum = <<>>
      /\ IsContext(ctx) /\ World(disk) /\ disk.ver \in Versions
      /\ pc \in Inside /\ Reading /\ Worker
  <2>1. pc \in Inside /\ disk' = disk
    BY DEF WriteCheckpoint, CheckpointFails, FinishFile, AtEnd, Inside
  <2>2. Reading /\ Worker
    BY <2>1, Surely DEF Next, Hashing
  <2>. QED BY <2>1, <2>2, Lastly DEF Next, Hashing
<1>1. /\ ~Hashed(batch) /\ ctx.off \in Nat /\ ctx.last \in Nat
      /\ batch.ck # NoCheckpoint => batch.ck.off <= ctx.off
      /\ batch.row.mtime = ctx.mtime
      /\ batch.row = [mtime |-> batch.row.mtime, digest |-> batch.row.digest,
                      mode |-> batch.row.mode]
  BY <1>0 DEF Reading, Worker, Sure, Agree, Writer, Right
<1>2. CASE WriteCheckpoint
  <2>1. PICK y, z, c :
           /\ y = Stored(batch, ctx.blocks, ctx.extents) /\ c = Checkpoint
           /\ z = [y EXCEPT !.ck = c] /\ UnitFlush(z)
    BY <1>2 DEF WriteCheckpoint
  <2>2. IsFile(y) /\ y.row = batch.row
    BY <1>0, <2>1 DEF Stored, IsFile
  <2>3. z.row = batch.row /\ z.ck = c
    BY <2>1, <2>2 DEF IsFile
  <2>4. /\ c.off = ctx.off /\ c.mtime = ctx.mtime /\ c.ext_csum = ctx.ext_csum
        /\ ctx.ext_csum # <<>> => c.ext = GetExtent(ctx.map, ctx.off)
    BY <2>1 DEF Checkpoint
  <2>5. pc \in {"save", "leave"} /\ pc' \in {"read", "done"} /\ ctx'.ext_csum = ctx.ext_csum
    BY <1>0, <1>2 DEF WriteCheckpoint, IsContext
  <2>6. batch' = z /\ db' \in {db, z}
    BY <2>1 DEF UnitFlush
  <2>7. ctx.last < ctx.off /\ ctx.off < FileSize
    BY <1>0, <2>5 DEF Reading
  <2>8. c # NoCheckpoint
    BY <1>1, <2>4, <2>7 DEF NoCheckpoint
  <2>9. ASSUME Steady(db, disk) PROVE Ahead(z, db)
    <3>1. Steady(batch, disk) /\ Ahead(batch, db)
      BY <1>0, <1>1, <2>9, SteadyBatch
    <3>2. batch.ck.off \in Nat /\ db.ck.off \in Nat
      BY <1>0, <2>9, <3>1 DEF Keyed, Steady, Aligned
    <3>3. batch.ck.off >= db.ck.off /\ batch.ck.off <= ctx.off
      BY <1>1, <3>1 DEF Ahead, Steady
    <3>4. z.ck.off >= db.ck.off
      BY <1>1, <2>3, <2>4, <3>2, <3>3
    <3>. QED BY <2>3, <2>8, <3>1, <3>4 DEF Ahead
  <2>10. Placed(z, disk)
    <3>1. ~ByExtent => z.ck.ext_csum = <<>>
      BY <1>0, <2>3, <2>4
    <3>2. ASSUME ByExtent, Steady(z, disk)
          PROVE  /\ Carry(disk.ver, disk.map, z.ck.off, z.ck.ext_csum)
                 /\ z.ck.ext_csum # <<>> => z.ck.ext = GetExtent(disk.map, z.ck.off)
      <4>1. ctx.mtime = disk.ver /\ Shape[disk.ver].maps = {disk.map}
        BY <2>3, <2>4, <3>2 DEF Steady
      <4>2. ctx.map = disk.map
        BY <1>0, <4>1 DEF Sure, Agree, Reader
      <4>3. Carry(disk.ver, ctx.map, ctx.off, ctx.ext_csum)
        BY <2>5, <2>7, <3>2, <4>1 DEF Sure, Contents, Carrier, Looping
      <4>. QED BY <2>3, <2>4, <4>2, <4>3
    <3>. QED BY <3>1, <3>2 DEF Placed
  <2>. QED BY <1>0, <2>5, <2>6, <2>9, <2>10, UnitLasts
<1>3. CASE CheckpointFails
  <2>1. UNCHANGED <<db, batch>> /\ pc' \in {"read", "done"}
    BY <1>0, <1>3 DEF CheckpointFails
  <2>2. ctx'.ext_csum = ctx.ext_csum
    BY <1>0, <1>3 DEF CheckpointFails, Staged, IsContext
  <2>. QED BY <1>0, <2>1, <2>2, IdleLasts
<1>4. CASE FinishFile
  <2>1. pc' = "done" /\ ctx' = ctx
    BY <1>4 DEF FinishFile
  <2>2. CASE UNCHANGED <<db, batch>>
    BY <1>0, <2>1, <2>2, IdleLasts
  <2>3. CASE Complete /\ UnitEnd(Finished)
    <3>1. PICK y, z, c, r :
             /\ y = Stored(batch, ctx.blocks, ctx.extents)
             /\ r = [y.row EXCEPT !.digest = ctx.csum, !.mode = run.mode]
             /\ c = IF ctx.last # 0 THEN NoCheckpoint ELSE y.ck
             /\ z = [y EXCEPT !.row = r, !.ck = c] /\ z = Finished
      BY DEF Finished
    <3>2. IsFile(y) /\ y.row = batch.row /\ y.ck = batch.ck
      BY <1>0, <3>1 DEF Stored, IsFile
    <3>3. z.row = r /\ z.ck = c
      BY <3>1, <3>2 DEF IsFile
    <3>4. r.mtime = batch.row.mtime /\ r.digest = ctx.csum
      BY <1>1, <3>1, <3>2
    <3>5. c = NoCheckpoint
      BY <1>0, <3>1, <3>2 DEF Reading
    <3>6. batch' = z /\ db' \in {db, z}
      BY <2>3, <3>1 DEF UnitEnd
    <3>7. Placed(z, disk)
      BY <1>0, <3>3, <3>5, PlacedSame
    <3>8. ASSUME Steady(db, disk) PROVE Ahead(z, db)
      <4>1. batch.row.mtime = disk.ver /\ Ahead(batch, db)
        BY <1>0, <1>1, <3>8, SteadyBatch
      <4>2. ctx.csum # <<>>
        BY <1>0, <1>1, <2>3, <4>1, FinishedIs DEF Complete
      <4>. QED BY <3>3, <3>4, <4>1, <4>2 DEF Ahead, Hashed
    <3>. QED BY <1>0, <2>1, <3>6, <3>7, <3>8, UnitLasts
  <2>. QED BY <1>0, <1>4, <2>2, <2>3 DEF FinishFile
<1>. QED BY <1>2, <1>3, <1>4

LEMMA WorldLasts ==
    ASSUME OneKind, Sure, Lasting, faults' = 0,
           \/ EndRun \/ Kill \/ Interrupt \/ OtherFiles
           \/ Rewrite \/ Defragment \/ UNCHANGED vars
    PROVE  Lasting' /\ Onward
<1>0. /\ faults = 0 /\ ~Fault /\ ~BatchLost /\ Keyed(db) /\ Keyed(batch)
      /\ Placed(db, disk) /\ Placed(batch, disk) /\ World(disk)
      /\ Steady(db, disk) => Ahead(batch, db) /\ Ahead(db, db)
      /\ ~ByExtent => ctx.ext_csum = <<>>
  BY Lastly DEF Next
<1>1. CASE EndRun \/ Kill
  <2>1. PICK z \in {db, batch} : batch' = z /\ db' = z
    BY <1>0, <1>1 DEF EndRun, Kill
  <2>2. disk' = disk /\ pc' = "down" /\ ctx'.ext_csum = <<>>
    BY <1>1 DEF EndRun, Kill, Idle
  <2>. QED BY <1>0, <2>1, <2>2, UnitLasts
<1>2. CASE Interrupt \/ OtherFiles \/ UNCHANGED vars
  <2>1. UNCHANGED <<disk, ctx, pc, batch>> /\ db' \in {db, batch}
    BY <1>0, <1>2 DEF Interrupt, OtherFiles, UnitFlush, vars
  <2>2. Steady(batch, disk) => Ahead(batch, batch)
    BY <1>0 DEF Keyed, Steady, Ahead, Aligned
  <2>. QED BY <1>0, <2>1, <2>2 DEF Lasting, Onward
<1>3. CASE Rewrite \/ Defragment
  <2>1. PICK u : u = disk'
    OBVIOUS
  <2>2. UNCHANGED <<db, batch, run, ctx, pc>>
    BY <1>3 DEF Rewrite, Defragment
  <2>3. ASSUME NEW d \in {db, batch} PROVE ~Steady(d, u)
    <3>1. CASE Rewrite
      <4>1. u.ver = disk.ver + 1 /\ disk.ver \in Nat
        BY <1>0, <2>1, <3>1, Files DEF Rewrite, World
      <4>2. d.ck.mtime \in Nat /\ d.ck.mtime <= disk.ver
        BY DEF Sure, Agree, Right
      <4>. QED BY <4>1, <4>2 DEF Steady
    <3>2. CASE Defragment
      <4>1. PICK m \in Shape[disk.ver].maps \ {disk.map} : u.ver = disk.ver /\ u.map = m
        BY <1>0, <2>1, <3>2 DEF Defragment, World
      <4>. QED BY <1>0, <4>1 DEF Steady, World
    <3>. QED BY <1>3, <3>1, <3>2
  <2>4. \A d \in {db, batch} : Placed(d, u)
    BY <1>0, <2>3 DEF Placed
  <2>. QED BY <1>0, <2>1, <2>2, <2>3, <2>4 DEF Lasting, Onward
<1>. QED BY <1>1, <1>2, <1>3

LEMMA LastingStays ==
    ASSUME OneKind, Sure, Lasting, [Next]_vars, faults' = 0
    PROVE  Lasting' /\ Onward
<1>1. ~ReadToHole /\ ~FlushFails /\ ~CodeAsLength
  BY Surely
<1>. QED BY <1>1, ListingLasts, OpeningLasts, LoopLasts, StoringLasts, WorldLasts
         DEF Next, Hashing

\* While no write fails, a committed checkpoint is not lost: as long as the file's
\* content and map stay, neither a later run (resume_scan(), adopt_resume(),
\* write_checkpoint()) nor a kill sets it back, and only the file's digest
\* replaces it.
THEOREM CheckpointsAreKept ==
    ASSUME NeverFailed, OneKind PROVE Spec => CheckpointKept
<1>1. Init => Sure /\ faults = 0 /\ Lasting
  <2>. SUFFICES ASSUME Init PROVE Sure /\ faults = 0 /\ Lasting
    OBVIOUS
  <2>1. ~Steady(NoFile, disk) /\ Placed(NoFile, disk)
    BY DEF Steady, Placed, NoFile, NoCheckpoint
  <2>. QED BY <2>1, InitSure, NoFaults DEF Init, Lasting, Idle
<1>2. Sure /\ faults = 0 /\ Lasting /\ [Next]_vars => (Sure /\ faults = 0 /\ Lasting)'
  BY SureStays, NoFaults, LastingStays
<1>3. Sure /\ faults = 0 /\ Lasting /\ [Next]_vars =>
        [/\ db.ck # NoCheckpoint /\ db.ck.mtime = disk.ver
         /\ Shape[disk.ver].maps = {disk.map}
         => db'.ck.off >= db.ck.off \/ Hashed(db')]_vars
  BY NoFaults, LastingStays DEF Onward, Steady, Ahead
<1>. QED BY <1>1, <1>2, <1>3, PTL DEF Spec, CheckpointKept
=============================================================================
