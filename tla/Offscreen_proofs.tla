-------------------------- MODULE Offscreen_proofs --------------------------
(***************************************************************************)
(* Proofs about the allocator of off-screen memory, for a memory of any    *)
(* size, every alignment and any number of users.                          *)
(*                                                                         *)
(* What an operation does to the list of areas is one of three things: an  *)
(* area is replaced by one of the same extent, one is split, or two free   *)
(* neighbours are merged.  There are lemmas for each, on any list, and     *)
(* Grant and Freed are put together from them.                             *)
(*                                                                         *)
(* IInv says more than that the areas follow one another: that every area  *)
(* lies before every later one, and that every byte is in an area, which   *)
(* would follow by induction over the list; that a free area begins where  *)
(* it is taken to begin; and that no user has two areas.                   *)
(***************************************************************************)
EXTENDS Offscreen, SequenceTheorems, WellFoundedInduction, TLAPS

-----------------------------------------------------------------------------
(***************************************************************************)
(* The inductive invariant.                                                *)
(***************************************************************************)
End(a) == a.save_offset + a.size

In(a, b) == a.save_offset <= b /\ b < End(a)

Within(a) ==
    /\ a.save_offset <= a.offset /\ a.offset < End(a)
    /\ a.user = "nobody" => a.offset = a.save_offset

\* The areas cover the memory, one after the other.
Tiling(l) ==
    /\ l \in Seq(Area) /\ Len(l) > 0
    /\ l[1].save_offset = Base /\ End(l[Len(l)]) = MemorySize
    /\ \A i \in 1..Len(l)-1 : End(l[i]) = l[i + 1].save_offset
    /\ \A i, j \in 1..Len(l) : i < j => End(l[i]) <= l[j].save_offset
    /\ \A b \in Base..MemorySize-1 : \E i \in 1..Len(l) : In(l[i], b)
    /\ \A i \in 1..Len(l) : Within(l[i])

Alone(l) ==
    \A i, j \in 1..Len(l) : l[i].user = l[j].user /\ l[i].user # "nobody" => i = j

\* No free neighbours, except for the pairs that begin at X.
NoPair(l, X) ==
    \A i \in (1..Len(l)-1) \ X : ~(l[i].user = "nobody" /\ l[i + 1].user = "nobody")

\* Does v have byte b?
Has(l, v, b) == \E i \in 1..Len(l) : l[i].user = v /\ In(l[i], b)

IInv ==
    /\ TypeOK
    /\ areas # <<>> => Tiling(areas) /\ Alone(areas) /\ NoPair(areas, {})

-----------------------------------------------------------------------------
(***************************************************************************)
(* Sequences.                                                              *)
(***************************************************************************)
IsReplaced(m, l, i, e) ==
    /\ m \in Seq(Area) /\ Len(m) = Len(l)
    /\ \A j \in 1..Len(l) : m[j] = IF j = i THEN e ELSE l[j]

IsInserted(m, l, i, e) ==
    /\ m \in Seq(Area) /\ Len(m) = Len(l) + 1
    /\ \A j \in 1..Len(l)+1 : m[j] = IF j < i THEN l[j] ELSE IF j = i THEN e ELSE l[j - 1]

IsRemoved(m, l, i) ==
    /\ m \in Seq(Area) /\ Len(m) = Len(l) - 1
    /\ \A j \in 1..Len(l)-1 : m[j] = IF j < i THEN l[j] ELSE l[j + 1]

LEMMA Replaced ==
    ASSUME NEW l \in Seq(Area), NEW i \in 1..Len(l), NEW e \in Area
    PROVE  IsReplaced(ReplaceAt(l, i, e), l, i, e)
  BY ExceptSeq DEF ReplaceAt, IsReplaced

LEMMA Inserted ==
    ASSUME NEW l \in Seq(Area), NEW i \in 1..Len(l)+1, NEW e \in Area
    PROVE  IsInserted(InsertAt(l, i, e), l, i, e)
<1> DEFINE p == SubSeq(l, 1, i - 1)
           q == SubSeq(l, i, Len(l))
<1>1. Len(l) \in Nat /\ i \in Nat
  BY LenProperties
<1>2. /\ p \in Seq(Area) /\ Len(p) = i - 1
      /\ \A j \in 1..i-1 : p[j] = l[j]
  BY <1>1
<1>3. /\ q \in Seq(Area) /\ Len(q) = Len(l) - i + 1
      /\ \A j \in 1..Len(l)-i+1 : q[j] = l[i + j - 1]
  <2>1. \A k \in i..Len(l) : l[k] \in Area
    BY <1>1, ElementOfSeq
  <2>2. /\ q \in Seq(Area) /\ Len(q) = IF i <= Len(l) THEN Len(l) - i + 1 ELSE 0
        /\ \A j \in 1..Len(l)-i+1 : q[j] = l[i + j - 1]
    BY <1>1, <2>1, SubSeqProperties
  <2> QED  BY <1>1, <2>2
<1>4. InsertAt(l, i, e) = p \o <<e>> \o q
  BY DEF InsertAt
<1> HIDE DEF p, q
<1> DEFINE r == p \o <<e>>
<1>5. /\ r \in Seq(Area) /\ Len(r) = i
      /\ \A j \in 1..i : r[j] = IF j < i THEN l[j] ELSE e
  <2>1. <<e>> \in Seq(Area) /\ Len(<<e>>) = 1 /\ <<e>>[1] = e
    OBVIOUS
  <2>2. /\ r \in Seq(Area) /\ Len(r) = Len(p) + Len(<<e>>)
        /\ \A j \in 1..Len(p)+Len(<<e>>) :
              r[j] = IF j <= Len(p) THEN p[j] ELSE <<e>>[j - Len(p)]
    BY <1>2, <2>1, ConcatProperties
  <2>3. Len(p) + Len(<<e>>) = i /\ i - (i - 1) = 1
    BY <1>1, <1>2, <2>1
  <2>4. ASSUME NEW j \in 1..i PROVE r[j] = IF j < i THEN l[j] ELSE e
    <3>1. CASE j < i
      BY <1>1, <1>2, <2>2, <2>3, <3>1
    <3>2. CASE j = i
      BY <1>1, <1>2, <2>1, <2>2, <2>3, <3>2
    <3>3. j < i \/ j = i
      BY <1>1
    <3> QED  BY <3>1, <3>2, <3>3
  <2> QED  BY <2>2, <2>3, <2>4
<1> HIDE DEF r
<1>6. /\ r \o q \in Seq(Area) /\ Len(r \o q) = Len(l) + 1
      /\ \A j \in 1..Len(l)+1 : (r \o q)[j] = IF j <= i THEN r[j] ELSE q[j - i]
  <2>1. /\ r \o q \in Seq(Area) /\ Len(r \o q) = Len(r) + Len(q)
        /\ \A j \in 1..Len(r)+Len(q) :
              (r \o q)[j] = IF j <= Len(r) THEN r[j] ELSE q[j - Len(r)]
    BY <1>3, <1>5, ConcatProperties
  <2>2. Len(r) = i /\ Len(r) + Len(q) = Len(l) + 1
    BY <1>1, <1>3, <1>5
  <2> QED  BY <2>1, <2>2
<1>7. ASSUME NEW j \in 1..Len(l)+1
      PROVE  (r \o q)[j] = IF j < i THEN l[j] ELSE IF j = i THEN e ELSE l[j - 1]
  <2>1. CASE j <= i
    BY <1>1, <1>5, <1>6, <2>1
  <2>2. CASE j > i
    <3>1. j - i \in 1..Len(l)-i+1 /\ i + (j - i) - 1 = j - 1
      BY <1>1, <2>2
    <3> QED  BY <1>1, <1>3, <1>6, <2>2, <3>1
  <2>3. j <= i \/ j > i
    BY <1>1
  <2> QED  BY <2>1, <2>2, <2>3
<1> QED  BY <1>4, <1>6, <1>7 DEF r, IsInserted

LEMMA Removed ==
    ASSUME NEW l \in Seq(Area), NEW i \in 1..Len(l)
    PROVE  IsRemoved(RemoveAt(l, i), l, i)
<1> DEFINE p == SubSeq(l, 1, i - 1)
           q == SubSeq(l, i + 1, Len(l))
<1>1. Len(l) \in Nat /\ i \in Nat
  BY LenProperties
<1>2. /\ p \in Seq(Area) /\ Len(p) = i - 1
      /\ \A j \in 1..i-1 : p[j] = l[j]
  BY <1>1
<1>3. /\ q \in Seq(Area) /\ Len(q) = Len(l) - i
      /\ \A j \in 1..Len(l)-i : q[j] = l[i + j]
  <2>1. \A k \in i+1..Len(l) : l[k] \in Area
    BY <1>1, ElementOfSeq
  <2>2. /\ q \in Seq(Area) /\ Len(q) = IF i + 1 <= Len(l) THEN Len(l) - (i + 1) + 1 ELSE 0
        /\ \A j \in 1..Len(l)-(i+1)+1 : q[j] = l[(i + 1) + j - 1]
    BY <1>1, <2>1, SubSeqProperties
  <2>3. \A j \in 1..Len(l)-i : (i + 1) + j - 1 = i + j
    BY <1>1
  <2> QED  BY <1>1, <2>2, <2>3
<1>4. RemoveAt(l, i) = p \o q
  BY DEF RemoveAt
<1> HIDE DEF p, q
<1>5. /\ p \o q \in Seq(Area) /\ Len(p \o q) = Len(l) - 1
      /\ \A j \in 1..Len(l)-1 : (p \o q)[j] = IF j <= i - 1 THEN p[j] ELSE q[j - (i - 1)]
  <2>1. /\ p \o q \in Seq(Area) /\ Len(p \o q) = Len(p) + Len(q)
        /\ \A j \in 1..Len(p)+Len(q) :
              (p \o q)[j] = IF j <= Len(p) THEN p[j] ELSE q[j - Len(p)]
    BY <1>2, <1>3, ConcatProperties
  <2>2. Len(p) = i - 1 /\ Len(p) + Len(q) = Len(l) - 1
    BY <1>1, <1>2, <1>3
  <2> QED  BY <2>1, <2>2
<1>6. ASSUME NEW j \in 1..Len(l)-1
      PROVE  (p \o q)[j] = IF j < i THEN l[j] ELSE l[j + 1]
  <2>1. CASE j < i
    BY <1>1, <1>2, <1>5, <2>1
  <2>2. CASE j >= i
    <3>1. j - (i - 1) \in 1..Len(l)-i /\ i + (j - (i - 1)) = j + 1
      BY <1>1, <2>2
    <3> QED  BY <1>1, <1>3, <1>5, <2>2, <3>1
  <2>3. j < i \/ j >= i
    BY <1>1
  <2> QED  BY <2>1, <2>2, <2>3
<1> QED  BY <1>4, <1>5, <1>6 DEF IsRemoved

-----------------------------------------------------------------------------
(***************************************************************************)
(* Lists of areas.                                                         *)
(***************************************************************************)
LEMMA Fields ==
    ASSUME NEW a \in Area
    PROVE  /\ a.user \in Users \cup {"nobody"} /\ a.offset \in Nat /\ a.save_offset \in Nat
           /\ a.size \in Nat /\ a.size > 0 /\ End(a) \in Nat /\ a.save_offset < End(a)
<1>1. /\ a.user \in Users \cup {"nobody"} /\ a.offset \in Nat /\ a.save_offset \in Nat
      /\ a.size \in Nat \ {0}
  BY DEF Area
<1>2. End(a) \in Nat /\ a.save_offset < End(a)
  BY <1>1 DEF End
<1> QED  BY <1>1, <1>2

LEMMA Elements ==
    ASSUME NEW l \in Seq(Area), NEW i \in 1..Len(l)
    PROVE  /\ l[i] \in Area /\ Len(l) \in Nat /\ i \in Nat
           /\ l[i].save_offset \in Nat /\ End(l[i]) \in Nat
           /\ l[i].save_offset < End(l[i])
  BY ElementOfSeq, LenProperties, Fields

\* An area may be replaced by one of the same extent.
LEMMA SameExtent ==
    ASSUME NEW l, Tiling(l), NEW i \in 1..Len(l), NEW e \in Area,
           e.save_offset = l[i].save_offset, End(e) = End(l[i]), Within(e)
    PROVE  Tiling(ReplaceAt(l, i, e))
<1> DEFINE m == ReplaceAt(l, i, e)
<1>1. l \in Seq(Area) /\ Len(l) \in Nat /\ Len(l) > 0
  BY LenProperties DEF Tiling
<1>2. /\ m \in Seq(Area) /\ Len(m) = Len(l)
      /\ \A j \in 1..Len(l) : m[j] = IF j = i THEN e ELSE l[j]
  <2>1. l \in Seq(Area)
    BY <1>1
  <2>2. IsReplaced(m, l, i, e)
    BY <2>1, Replaced
  <2> QED  BY <2>2 DEF IsReplaced
<1> HIDE DEF m
<1>3. \A j \in 1..Len(l) : m[j].save_offset = l[j].save_offset /\ End(m[j]) = End(l[j])
  BY <1>2
<1>4. \A j \in 1..Len(l) : Within(m[j])
  BY <1>2 DEF Tiling
<1>5. \A j \in 1..Len(l), b \in Base..MemorySize-1 : In(m[j], b) <=> In(l[j], b)
  BY <1>3 DEF In
<1>6. 1 \in 1..Len(l) /\ Len(l) \in 1..Len(l)
  BY <1>1
<1>7. \A j \in 1..Len(l)-1 : j \in 1..Len(l) /\ j + 1 \in 1..Len(l)
  BY <1>1
<1>8. Tiling(m)
  BY <1>1, <1>2, <1>3, <1>4, <1>5, <1>6, <1>7 DEF Tiling
<1> QED  BY <1>8 DEF m

\* A free area is split.
SplitAt(l, i, e, f) == InsertAt(ReplaceAt(l, i, e), i + 1, f)

LEMMA Split ==
    ASSUME NEW l, Tiling(l), NEW i \in 1..Len(l), NEW e \in Area, NEW f \in Area,
           e.save_offset = l[i].save_offset, End(e) = f.save_offset, End(f) = End(l[i]),
           Within(e), Within(f)
    PROVE  LET m == SplitAt(l, i, e, f) IN
           /\ m \in Seq(Area) /\ Len(m) = Len(l) + 1
           /\ \A j \in 1..Len(l)+1 :
                 m[j] = IF j < i THEN l[j] ELSE IF j = i THEN e ELSE IF j = i + 1 THEN f ELSE l[j - 1]
           /\ Tiling(m)
<1> DEFINE r == ReplaceAt(l, i, e)
           m == SplitAt(l, i, e, f)
<1>1. l \in Seq(Area) /\ Len(l) \in Nat /\ Len(l) > 0 /\ i \in Nat
  BY LenProperties DEF Tiling
<1>2. /\ r \in Seq(Area) /\ Len(r) = Len(l)
      /\ \A j \in 1..Len(l) : r[j] = IF j = i THEN e ELSE l[j]
  <2>1. l \in Seq(Area)
    BY <1>1
  <2>2. IsReplaced(r, l, i, e)
    BY <2>1, Replaced
  <2> QED  BY <2>2 DEF IsReplaced
<1>14. m = InsertAt(r, i + 1, f)
  BY DEF SplitAt
<1> HIDE DEF r, m
<1>3. /\ m \in Seq(Area) /\ Len(m) = Len(l) + 1
      /\ \A j \in 1..Len(l)+1 :
            m[j] = IF j < i + 1 THEN r[j] ELSE IF j = i + 1 THEN f ELSE r[j - 1]
  <2>1. i + 1 \in 1..Len(r)+1
    BY <1>1, <1>2
  <2>2. /\ m \in Seq(Area) /\ Len(m) = Len(r) + 1
        /\ \A j \in 1..Len(r)+1 :
              m[j] = IF j < i + 1 THEN r[j] ELSE IF j = i + 1 THEN f ELSE r[j - 1]
    <3>1. r \in Seq(Area)
      BY <1>2
    <3>2. IsInserted(m, r, i + 1, f)
      BY <1>14, <2>1, <3>1, Inserted
    <3> QED  BY <3>2 DEF IsInserted
  <2> QED  BY <1>2, <2>2
<1>4. \A j \in 1..Len(l)+1 :
         m[j] = IF j < i THEN l[j] ELSE IF j = i THEN e ELSE IF j = i + 1 THEN f ELSE l[j - 1]
  <2> SUFFICES ASSUME NEW j \in 1..Len(l)+1
               PROVE  m[j] = IF j < i THEN l[j] ELSE IF j = i THEN e
                             ELSE IF j = i + 1 THEN f ELSE l[j - 1]
    OBVIOUS
  <2>1. CASE j <= i
    <3>1. j \in 1..Len(l) /\ m[j] = r[j]
      BY <1>1, <1>3, <2>1
    <3> QED  BY <1>1, <1>2, <2>1, <3>1
  <2>2. CASE j = i + 1
    BY <1>1, <1>3, <2>2
  <2>3. CASE j > i + 1
    <3>1. j - 1 \in 1..Len(l) /\ j - 1 # i /\ m[j] = r[j - 1]
      BY <1>1, <1>3, <2>3
    <3> QED  BY <1>1, <1>2, <2>3, <3>1
  <2>4. j <= i \/ j = i + 1 \/ j > i + 1
    BY <1>1
  <2> QED  BY <2>1, <2>2, <2>3, <2>4
<1>5. \A j \in 1..Len(l) : /\ l[j].save_offset \in Nat /\ End(l[j]) \in Nat
                           /\ l[j].save_offset < End(l[j])
  BY <1>1, Elements
<1>6. \A a \in {e, f} : /\ a.save_offset \in Nat /\ End(a) \in Nat
                        /\ a.save_offset < End(a)
  BY Fields
\* The area of l that area j of m lies in.
<1> DEFINE from(j) == IF j <= i THEN j ELSE j - 1
<1>7. \A j \in 1..Len(l)+1 :
         /\ from(j) \in 1..Len(l)
         /\ l[from(j)].save_offset <= m[j].save_offset /\ End(m[j]) <= End(l[from(j)])
         /\ m[j].save_offset \in Nat /\ End(m[j]) \in Nat
  <2> SUFFICES ASSUME NEW j \in 1..Len(l)+1
               PROVE  /\ from(j) \in 1..Len(l)
                      /\ l[from(j)].save_offset <= m[j].save_offset
                      /\ End(m[j]) <= End(l[from(j)])
                      /\ m[j].save_offset \in Nat /\ End(m[j]) \in Nat
    OBVIOUS
  <2>1. CASE j < i
    <3>1. m[j] = l[j] /\ from(j) = j /\ j \in 1..Len(l)
      BY <1>1, <1>4, <2>1
    <3> QED  BY <1>5, <3>1
  <2>2. CASE j = i
    <3>1. m[j] = e /\ from(j) = i
      BY <1>1, <1>4, <2>2
    <3> QED  BY <1>5, <1>6, <3>1
  <2>3. CASE j = i + 1
    <3>1. m[j] = f /\ from(j) = i
      BY <1>1, <1>4, <2>3
    <3> QED  BY <1>5, <1>6, <3>1
  <2>4. CASE j > i + 1
    <3>1. m[j] = l[j - 1] /\ from(j) = j - 1 /\ j - 1 \in 1..Len(l)
      BY <1>1, <1>4, <2>4
    <3> QED  BY <1>5, <3>1
  <2>5. j < i \/ j = i \/ j = i + 1 \/ j > i + 1
    BY <1>1
  <2> QED  BY <2>1, <2>2, <2>3, <2>4, <2>5
<1>8. m[1].save_offset = Base /\ End(m[Len(l) + 1]) = MemorySize
  <2>1. l[1].save_offset = Base /\ End(l[Len(l)]) = MemorySize
    BY DEF Tiling
  <2>2. m[1].save_offset = l[1].save_offset
    BY <1>1, <1>4
  <2>3. End(m[Len(l) + 1]) = End(l[Len(l)])
    BY <1>1, <1>4
  <2> QED  BY <2>1, <2>2, <2>3
<1>9. ASSUME NEW j \in 1..Len(l) PROVE End(m[j]) = m[j + 1].save_offset
  <2>1. \A k \in 1..Len(l)-1 : End(l[k]) = l[k + 1].save_offset
    BY DEF Tiling
  <2>2. CASE j < i - 1
    BY <1>1, <1>4, <2>1, <2>2
  <2>3. CASE j = i - 1
    BY <1>1, <1>4, <2>1, <2>3
  <2>4. CASE j = i
    BY <1>1, <1>4, <2>4
  <2>5. CASE j = i + 1
    BY <1>1, <1>4, <2>1, <2>5
  <2>6. CASE j > i + 1
    BY <1>1, <1>4, <2>1, <2>6
  <2>7. j < i - 1 \/ j = i - 1 \/ j = i \/ j = i + 1 \/ j > i + 1
    BY <1>1
  <2> QED  BY <2>2, <2>3, <2>4, <2>5, <2>6, <2>7
<1>10. ASSUME NEW j \in 1..Len(l)+1, NEW k \in 1..Len(l)+1, j < k
       PROVE  End(m[j]) <= m[k].save_offset
  <2>1. CASE j = i /\ k = i + 1
    BY <1>1, <1>9, <2>1, <1>6, <1>4
  <2>2. CASE ~(j = i /\ k = i + 1)
    <3>1. from(j) < from(k)
      BY <1>1, <1>10, <2>2
    <3>2. End(l[from(j)]) <= l[from(k)].save_offset
      BY <1>7, <3>1 DEF Tiling
    <3>3. /\ End(m[j]) <= End(l[from(j)]) /\ l[from(k)].save_offset <= m[k].save_offset
          /\ from(j) \in 1..Len(l) /\ from(k) \in 1..Len(l)
          /\ End(m[j]) \in Nat /\ m[k].save_offset \in Nat
      BY <1>7
    <3> HIDE DEF from
    <3>7. from(j) \in 1..Len(l) /\ from(k) \in 1..Len(l)
      BY <3>3
    <3>4. End(l[from(j)]) \in Nat /\ l[from(k)].save_offset \in Nat
      BY <1>5, <3>7
    <3>5. \A w, x, y, z \in Nat : w <= x /\ x <= y /\ y <= z => w <= z
      OBVIOUS
    <3>6. /\ End(m[j]) <= End(l[from(j)]) /\ l[from(k)].save_offset <= m[k].save_offset
          /\ End(m[j]) \in Nat /\ m[k].save_offset \in Nat
      BY <3>3
    <3> QED  BY <3>2, <3>4, <3>5, <3>6
  <2> QED  BY <2>1, <2>2
<1>11. ASSUME NEW b \in Base..MemorySize-1 PROVE \E j \in 1..Len(l)+1 : In(m[j], b)
  <2>1. PICK k \in 1..Len(l) : In(l[k], b)
    BY DEF Tiling
  <2>2. CASE k < i
    <3>1. k \in 1..Len(l)+1 /\ m[k] = l[k]
      BY <1>1, <1>4, <2>2
    <3> QED  BY <2>1, <3>1
  <2>3. CASE k > i
    <3>1. k + 1 \in 1..Len(l)+1 /\ m[k + 1] = l[k]
      BY <1>1, <1>4, <2>3
    <3> QED  BY <2>1, <3>1
  <2>4. CASE k = i
    <3>1. i \in 1..Len(l)+1 /\ m[i] = e /\ i + 1 \in 1..Len(l)+1 /\ m[i + 1] = f
      BY <1>1, <1>4
    <3>2. b \in Int
      BY OffscreenAssumption
    <3>3. In(e, b) \/ In(f, b)
      BY <2>1, <2>4, <3>2, <1>5, <1>6 DEF In
    <3> QED  BY <3>1, <3>3
  <2>5. k < i \/ k = i \/ k > i
    BY <1>1
  <2> QED  BY <2>2, <2>3, <2>4, <2>5
<1>12. ASSUME NEW j \in 1..Len(l)+1 PROVE Within(m[j])
  <2>1. m[j] \in {e, f} \/ \E k \in 1..Len(l) : m[j] = l[k]
    BY <1>1, <1>4
  <2> QED  BY <2>1 DEF Tiling
<1>13. Tiling(m)
  <2>1. (Len(l) + 1) - 1 = Len(l) /\ Len(l) + 1 > 0
    BY <1>1
  <2> QED  BY <1>3, <1>8, <1>9, <1>10, <1>11, <1>12, <2>1 DEF Tiling
<1> QED  BY <1>3, <1>4, <1>13 DEF m

LEMMA Resized ==
    ASSUME NEW a \in Area, NEW n \in Nat, a.size + n \in Nat \ {0}
    PROVE  [a EXCEPT !.size = @ + n] \in Area
  BY DEF Area

\* Two free neighbours are merged: what anybody has is the same as before.
LEMMA Merged ==
    ASSUME NEW l, Tiling(l), NEW i \in 1..Len(l)-1,
           l[i].user = "nobody", l[i + 1].user = "nobody"
    PROVE  LET m == Merge(l, i) IN
           /\ m \in Seq(Area) /\ Len(m) = Len(l) - 1
           /\ \A j \in 1..Len(l)-1 :
                 /\ j < i => m[j] = l[j]
                 /\ j = i => m[j].user = "nobody"
                 /\ j > i => m[j] = l[j + 1]
           /\ Tiling(m)
           /\ \A v, b : b \in Int => (Has(m, v, b) <=> Has(l, v, b))
<1> DEFINE g == [l[i] EXCEPT !.size = @ + l[i + 1].size]
           r == ReplaceAt(l, i, g)
           m == Merge(l, i)
<1>1. l \in Seq(Area) /\ Len(l) \in Nat /\ Len(l) > 0 /\ i \in Nat
  BY LenProperties DEF Tiling
<1>2. i \in 1..Len(l) /\ i + 1 \in 1..Len(l)
  BY <1>1
<1>3. l[i] \in Area /\ l[i + 1] \in Area
  BY <1>1, <1>2, ElementOfSeq
<1>4. \A j \in 1..Len(l) : /\ l[j].save_offset \in Nat /\ End(l[j]) \in Nat
                           /\ l[j].save_offset < End(l[j])
  BY <1>1, Elements
<1>5. /\ g \in Area /\ g.user = "nobody" /\ g.save_offset = l[i].save_offset
      /\ End(g) = End(l[i + 1]) /\ Within(g)
  <2>1. /\ l[i].size \in Nat \ {0} /\ l[i + 1].size \in Nat \ {0}
        /\ l[i].save_offset \in Nat /\ l[i].offset = l[i].save_offset
    BY <1>2, <1>3 DEF Area, Tiling, Within
  <2>2. /\ g.user = "nobody" /\ g.save_offset = l[i].save_offset /\ g.offset = l[i].offset
        /\ g.size = l[i].size + l[i + 1].size
    BY <1>3 DEF Area
  <2>3. g \in Area
    <3>1. l[i + 1].size \in Nat /\ l[i].size + l[i + 1].size \in Nat \ {0}
      BY <2>1
    <3> QED  BY <1>3, <3>1, Resized
  <2>4. l[i].save_offset + l[i].size = l[i + 1].save_offset
    BY <1>1 DEF Tiling, End
  <2>5. End(g) = End(l[i + 1])
    BY <2>1, <2>2, <2>4 DEF End
  <2>6. Within(g)
    BY <2>1, <2>2 DEF Within, End
  <2> QED  BY <2>2, <2>3, <2>5, <2>6
<1>6. m = RemoveAt(r, i + 1)
  BY DEF Merge
<1> HIDE DEF g, m
<1>7. /\ r \in Seq(Area) /\ Len(r) = Len(l)
      /\ \A j \in 1..Len(l) : r[j] = IF j = i THEN g ELSE l[j]
  <2>1. l \in Seq(Area) /\ i \in 1..Len(l) /\ g \in Area
    BY <1>1, <1>2, <1>5
  <2>2. IsReplaced(r, l, i, g)
    BY <2>1, Replaced
  <2> QED  BY <2>2 DEF IsReplaced
<1> HIDE DEF r
<1>8. /\ m \in Seq(Area) /\ Len(m) = Len(l) - 1
      /\ \A j \in 1..Len(l)-1 : m[j] = IF j < i + 1 THEN r[j] ELSE r[j + 1]
  <2>1. i + 1 \in 1..Len(r)
    BY <1>2, <1>7
  <2>2. /\ m \in Seq(Area) /\ Len(m) = Len(r) - 1
        /\ \A j \in 1..Len(r)-1 : m[j] = IF j < i + 1 THEN r[j] ELSE r[j + 1]
    <3>1. r \in Seq(Area)
      BY <1>7
    <3>2. IsRemoved(m, r, i + 1)
      BY <1>6, <2>1, <3>1, Removed
    <3> QED  BY <3>2 DEF IsRemoved
  <2> QED  BY <1>7, <2>2
<1>9. \A j \in 1..Len(l)-1 : m[j] = IF j < i THEN l[j] ELSE IF j = i THEN g ELSE l[j + 1]
  <2> SUFFICES ASSUME NEW j \in 1..Len(l)-1
               PROVE  m[j] = IF j < i THEN l[j] ELSE IF j = i THEN g ELSE l[j + 1]
    OBVIOUS
  <2>1. j \in 1..Len(l) /\ j + 1 \in 1..Len(l)
    BY <1>1
  <2>2. CASE j <= i
    BY <1>1, <1>7, <1>8, <2>1, <2>2
  <2>3. CASE j > i
    <3>1. m[j] = r[j + 1] /\ j + 1 # i
      BY <1>1, <1>8, <2>3
    <3> QED  BY <1>1, <1>7, <2>1, <2>3, <3>1
  <2>4. j <= i \/ j > i
    BY <1>1
  <2> QED  BY <2>2, <2>3, <2>4
\* The areas of l in which area j of m begins and ends.
<1> DEFINE from(j) == IF j <= i THEN j ELSE j + 1
           to(j) == IF j < i THEN j ELSE j + 1
<1>10. \A j \in 1..Len(l)-1 :
          /\ from(j) \in 1..Len(l) /\ to(j) \in 1..Len(l)
          /\ m[j].save_offset = l[from(j)].save_offset /\ End(m[j]) = End(l[to(j)])
  BY <1>1, <1>5, <1>9
<1>11. m[1].save_offset = Base /\ End(m[Len(l) - 1]) = MemorySize
  <2>1. l[1].save_offset = Base /\ End(l[Len(l)]) = MemorySize
    BY DEF Tiling
  <2>2. 1 \in 1..Len(l)-1 /\ from(1) = 1 /\ Len(l)-1 \in 1..Len(l)-1 /\ to(Len(l)-1) = Len(l)
    BY <1>1
  <2> HIDE DEF from, to
  <2> QED  BY <1>10, <2>1, <2>2
<1>12. ASSUME NEW j \in 1..(Len(l)-1)-1 PROVE End(m[j]) = m[j + 1].save_offset
  <2>1. /\ to(j) \in 1..Len(l)-1 /\ from(j + 1) = to(j) + 1
        /\ j \in 1..Len(l)-1 /\ j + 1 \in 1..Len(l)-1
    BY <1>1
  <2>2. End(l[to(j)]) = l[to(j) + 1].save_offset
    BY <2>1 DEF Tiling
  <2> HIDE DEF from, to
  <2> QED  BY <1>10, <2>1, <2>2
<1>13. ASSUME NEW j \in 1..Len(l)-1, NEW k \in 1..Len(l)-1, j < k
       PROVE  End(m[j]) <= m[k].save_offset
  <2>1. to(j) < from(k)
    BY <1>1, <1>13
  <2> HIDE DEF from, to
  <2>2. End(l[to(j)]) <= l[from(k)].save_offset
    BY <1>10, <2>1 DEF Tiling
  <2> QED  BY <1>10, <2>2
<1>14. \A b \in Int : In(g, b) <=> In(l[i], b) \/ In(l[i + 1], b)
  <2>1. End(l[i]) = l[i + 1].save_offset
    BY <1>1 DEF Tiling
  <2> QED  BY <1>2, <1>4, <1>5, <2>1 DEF In
<1>15. ASSUME NEW v, NEW b \in Int PROVE Has(m, v, b) <=> Has(l, v, b)
  <2>1. ASSUME NEW j \in 1..Len(l)-1, m[j].user = v, In(m[j], b) PROVE Has(l, v, b)
    <3>1. CASE j # i
      <4>1. m[j] = l[from(j)] /\ from(j) \in 1..Len(l)
        BY <1>1, <1>9, <1>10, <3>1
      <4> HIDE DEF from
      <4> QED  BY <2>1, <4>1 DEF Has
    <3>2. CASE j = i
      <4>1. v = "nobody" /\ In(g, b)
        BY <1>1, <1>5, <1>9, <2>1, <3>2
      <4> QED  BY <1>2, <1>14, <4>1 DEF Has
    <3> QED  BY <3>1, <3>2
  <2>2. ASSUME NEW j \in 1..Len(l), l[j].user = v, In(l[j], b)
        PROVE  \E k \in 1..Len(l)-1 : m[k].user = v /\ In(m[k], b)
    <3>1. CASE j < i
      <4>1. j \in 1..Len(l)-1 /\ m[j] = l[j]
        BY <1>1, <1>9, <3>1
      <4> QED  BY <2>2, <4>1
    <3>2. CASE j \in {i, i + 1}
      <4>1. v = "nobody" /\ In(g, b)
        BY <1>14, <2>2, <3>2
      <4>2. m[i] = g
        BY <1>1, <1>9
      <4> QED  BY <1>5, <4>1, <4>2
    <3>3. CASE j > i + 1
      <4>1. j - 1 \in 1..Len(l)-1 /\ (j - 1) + 1 = j /\ j - 1 > i
        BY <1>1, <3>3
      <4>2. m[j - 1] = l[j]
        BY <1>1, <1>9, <4>1
      <4> QED  BY <2>2, <4>1, <4>2
    <3>4. j < i \/ j \in {i, i + 1} \/ j > i + 1
      BY <1>1
    <3> QED  BY <3>1, <3>2, <3>3, <3>4
  <2> QED  BY <1>8, <2>1, <2>2 DEF Has
<1>16. ASSUME NEW b \in Base..MemorySize-1 PROVE \E j \in 1..Len(l)-1 : In(m[j], b)
  <2>1. PICK k \in 1..Len(l) : In(l[k], b)
    BY DEF Tiling
  <2>2. b \in Int
    BY OffscreenAssumption
  <2>3. Has(l, l[k].user, b)
    BY <2>1 DEF Has
  <2>4. Has(m, l[k].user, b)
    BY <1>15, <2>2, <2>3
  <2> QED  BY <1>8, <2>4 DEF Has
<1>17. ASSUME NEW j \in 1..Len(l)-1 PROVE Within(m[j])
  <2>1. m[j] = g \/ \E k \in 1..Len(l) : m[j] = l[k]
    BY <1>1, <1>9
  <2> QED  BY <1>5, <2>1 DEF Tiling
<1>18. Tiling(m)
  <2>1. Len(l) - 1 > 0
    BY <1>1
  <2> QED  BY <1>8, <1>11, <1>12, <1>13, <1>16, <1>17, <2>1 DEF Tiling
<1>19. \A j \in 1..Len(l)-1 : /\ j < i => m[j] = l[j]
                              /\ j = i => m[j].user = "nobody"
                              /\ j > i => m[j] = l[j + 1]
  BY <1>1, <1>5, <1>9
<1> QED  BY <1>8, <1>15, <1>18, <1>19 DEF m

\* ... and it leaves no free neighbours behind where there were none.
LEMMA MergedPairs ==
    ASSUME NEW l, Tiling(l), NEW i \in 1..Len(l)-1,
           l[i].user = "nobody", l[i + 1].user = "nobody",
           NEW X, X \subseteq 0..i, NoPair(l, X)
    PROVE  NoPair(Merge(l, i), X \ {i})
<1> DEFINE m == Merge(l, i)
<1>1. /\ Len(m) = Len(l) - 1
      /\ \A j \in 1..Len(l)-1 :
            /\ j < i => m[j] = l[j]
            /\ j = i => m[j].user = "nobody"
            /\ j > i => m[j] = l[j + 1]
  BY Merged
<1>2. Len(l) \in Nat /\ i \in Nat
  BY LenProperties DEF Tiling
<1> HIDE DEF m
<1>3. ASSUME NEW j \in (1..Len(m)-1) \ (X \ {i})
      PROVE  ~(m[j].user = "nobody" /\ m[j + 1].user = "nobody")
  <2>1. j \in 1..Len(l)-1 /\ j + 1 \in 1..Len(l)-1
    BY <1>1, <1>2
  <2>2. CASE j < i - 1
    BY <1>1, <1>2, <2>1, <2>2 DEF NoPair
  <2>3. CASE j = i - 1
    <3>1. j \notin X /\ m[j] = l[j] /\ l[j + 1].user = "nobody"
      BY <1>1, <1>2, <2>1, <2>3
    <3> QED  BY <2>1, <3>1 DEF NoPair
  <2>4. CASE j >= i
    <3>1. j + 1 \in (1..Len(l)-1) \ X
      BY <1>2, <2>1, <2>4
    <3>2. m[j + 1] = l[(j + 1) + 1] /\ m[j].user = l[j + 1].user
      BY <1>1, <1>2, <2>1, <2>4
    <3> QED  BY <3>1, <3>2 DEF NoPair
  <2>5. j < i - 1 \/ j = i - 1 \/ j >= i
    BY <1>2, <2>1
  <2> QED  BY <2>2, <2>3, <2>4, <2>5
<1> QED  BY <1>3 DEF NoPair, m

LEMMA MergedAlone ==
    ASSUME NEW l, Tiling(l), NEW i \in 1..Len(l)-1,
           l[i].user = "nobody", l[i + 1].user = "nobody", Alone(l)
    PROVE  Alone(Merge(l, i))
<1> DEFINE m == Merge(l, i)
<1>1. /\ Len(m) = Len(l) - 1
      /\ \A j \in 1..Len(l)-1 :
            /\ j < i => m[j] = l[j]
            /\ j = i => m[j].user = "nobody"
            /\ j > i => m[j] = l[j + 1]
  BY Merged
<1>2. Len(l) \in Nat /\ i \in Nat
  BY LenProperties DEF Tiling
<1> HIDE DEF m
<1>3. ASSUME NEW j \in 1..Len(m), NEW k \in 1..Len(m),
             m[j].user = m[k].user, m[j].user # "nobody"
      PROVE  j = k
  <2> DEFINE from(n) == IF n <= i THEN n ELSE n + 1
  <2>1. \A n \in {j, k} : n # i /\ from(n) \in 1..Len(l) /\ m[n] = l[from(n)]
    BY <1>1, <1>2, <1>3
  <2>2. from(j) = from(k)
    <3> HIDE DEF from
    <3> QED  BY <1>3, <2>1 DEF Alone
  <2> QED  BY <1>1, <1>2, <2>2
<1> QED  BY <1>3 DEF Alone, m

-----------------------------------------------------------------------------
(***************************************************************************)
(* KdOffscreenFree.                                                        *)
(***************************************************************************)
LEMMA Freeing ==
    ASSUME areas \in Seq(Area), Tiling(areas), Alone(areas), NoPair(areas, {}),
           NEW i \in 1..Len(areas), areas[i].user # "nobody"
    PROVE  /\ Tiling(Freed(i)) /\ Alone(Freed(i)) /\ NoPair(Freed(i), {})
           /\ \A v \in Users : \A b \in Int :
                 Has(Freed(i), v, b) <=> v # areas[i].user /\ Has(areas, v, b)
<1> DEFINE e == FreeArea(areas[i].save_offset, areas[i].size)
           a == ReplaceAt(areas, i, e)
           next == i < Len(a) /\ Avail(i + 1)
           b == IF next THEN Merge(a, i) ELSE a
           last == i > 1 /\ Avail(i - 1)
           c == IF last THEN Merge(b, i - 1) ELSE b
<1>1. Freed(i) = c
  BY DEF Freed
<1>2. Len(areas) \in Nat /\ i \in Nat /\ areas[i] \in Area
  BY LenProperties, ElementOfSeq
<1>3. /\ e \in Area /\ e.user = "nobody" /\ e.save_offset = areas[i].save_offset
      /\ End(e) = End(areas[i]) /\ Within(e)
  <2>1. areas[i].save_offset \in Nat /\ areas[i].size \in Nat \ {0}
    BY <1>2 DEF Area
  <2>2. /\ e.user = "nobody" /\ e.save_offset = areas[i].save_offset
        /\ e.offset = areas[i].save_offset /\ e.size = areas[i].size
    BY DEF FreeArea
  <2>3. e \in Area
    BY <2>1 DEF FreeArea, Area
  <2> HIDE DEF e
  <2> QED  BY <2>1, <2>2, <2>3 DEF End, Within
<1> HIDE DEF e
<1>4. /\ a \in Seq(Area) /\ Len(a) = Len(areas)
      /\ \A j \in 1..Len(areas) : a[j] = IF j = i THEN e ELSE areas[j]
  <2>1. e \in Area
    BY <1>3
  <2>2. IsReplaced(a, areas, i, e)
    BY <2>1, Replaced
  <2> QED  BY <2>2 DEF IsReplaced
<1>5. Tiling(a)
  BY <1>3, SameExtent
<1> HIDE DEF a
<1>6. Alone(a)
  BY <1>3, <1>4 DEF Alone
<1>7. \A v \in Users : \A d \in Int : Has(a, v, d) <=> v # areas[i].user /\ Has(areas, v, d)
  <2> SUFFICES ASSUME NEW v \in Users, NEW d \in Int
               PROVE  Has(a, v, d) <=> v # areas[i].user /\ Has(areas, v, d)
    OBVIOUS
  <2>1. v # "nobody"
    BY OffscreenAssumption
  <2>2. \A j \in 1..Len(areas) \ {i} : areas[j].user # areas[i].user
    BY DEF Alone
  <2>3. ASSUME NEW j \in 1..Len(a), a[j].user = v, In(a[j], d)
        PROVE  v # areas[i].user /\ Has(areas, v, d)
    <3>1. j # i /\ a[j] = areas[j] /\ j \in 1..Len(areas)
      BY <1>3, <1>4, <2>1, <2>3
    <3> QED  BY <2>2, <2>3, <3>1 DEF Has
  <2>4. ASSUME NEW j \in 1..Len(areas), areas[j].user = v, In(areas[j], d), v # areas[i].user
        PROVE  Has(a, v, d)
    <3>1. j # i /\ a[j] = areas[j] /\ j \in 1..Len(a)
      BY <1>4, <2>4
    <3> QED  BY <2>4, <3>1 DEF Has
  <2> QED  BY <2>3, <2>4 DEF Has
<1>8. NoPair(a, {i - 1, i})
  <2> SUFFICES ASSUME NEW j \in (1..Len(a)-1) \ {i - 1, i}
               PROVE  ~(a[j].user = "nobody" /\ a[j + 1].user = "nobody")
    BY DEF NoPair
  <2>1. /\ j \in 1..Len(areas) /\ j + 1 \in 1..Len(areas) /\ j # i /\ j + 1 # i
        /\ j \in 1..Len(areas)-1
    BY <1>2, <1>4
  <2>2. a[j] = areas[j] /\ a[j + 1] = areas[j + 1]
    BY <1>4, <2>1
  <2> QED  BY <2>1, <2>2 DEF NoPair
\* With the next one ...
<1>9. /\ b \in Seq(Area) /\ Tiling(b) /\ Alone(b) /\ NoPair(b, {i - 1})
      /\ i \in 1..Len(b) /\ b[i].user = "nobody"
      /\ \A j \in 1..i-1 : b[j] = areas[j]
      /\ \A v \in Users : \A d \in Int : Has(b, v, d) <=> Has(a, v, d)
  <2>1. CASE next
    <3>1. /\ i \in 1..Len(a)-1 /\ i + 1 \in 1..Len(areas) /\ i + 1 # i
          /\ Len(a)-1 = Len(areas)-1 /\ i \in 1..Len(a)
      BY <1>2, <1>4, <2>1
    <3>2. a[i].user = "nobody" /\ a[i + 1].user = "nobody"
      BY <1>3, <1>4, <2>1, <3>1 DEF Avail
    <3>3. /\ b \in Seq(Area) /\ Len(b) = Len(a) - 1 /\ Tiling(b)
          /\ \A j \in 1..Len(a)-1 : /\ j < i => b[j] = a[j]
                                    /\ j = i => b[j].user = "nobody"
          /\ \A v, d : d \in Int => (Has(b, v, d) <=> Has(a, v, d))
      <4>1. b = Merge(a, i)
        BY <2>1
      <4> HIDE DEF b
      <4> QED  BY <1>5, <3>1, <3>2, <4>1, Merged
    <3>4. Alone(b) /\ NoPair(b, {i - 1})
      <4>1. b = Merge(a, i)
        BY <2>1
      <4> HIDE DEF b
      <4>2. {i - 1, i} \subseteq 0..i /\ {i - 1, i} \ {i} = {i - 1}
        BY <1>2
      <4>3. NoPair(b, {i - 1, i} \ {i})
        BY <1>5, <1>8, <3>1, <3>2, <4>1, <4>2, MergedPairs
      <4>4. Alone(b)
        BY <1>5, <1>6, <3>1, <3>2, <4>1, MergedAlone
      <4> QED  BY <4>2, <4>3, <4>4
    <3> HIDE DEF b
    <3>5. \A j \in 1..i-1 : b[j] = areas[j]
      BY <1>2, <1>4, <3>1, <3>3
    <3> QED  BY <1>2, <3>1, <3>3, <3>4, <3>5
  <2>2. CASE ~next
    <3>1. b = a
      BY <2>2
    <3>2. a[i].user = "nobody" /\ i \in 1..Len(a)
      BY <1>3, <1>4
    <3>3. \A j \in 1..i-1 : a[j] = areas[j]
      BY <1>2, <1>4
    <3>4. i \in 1..Len(a)-1 => a[i + 1].user # "nobody"
      BY <1>2, <1>4, <2>2 DEF Avail
    <3>5. NoPair(a, {i - 1})
      BY <1>8, <3>4 DEF NoPair
    <3> QED  BY <1>4, <1>5, <1>6, <3>1, <3>2, <3>3, <3>5
  <2> QED  BY <2>1, <2>2
<1> HIDE DEF b, next
\* ... and with the one before.
<1>10. /\ Tiling(c) /\ Alone(c) /\ NoPair(c, {})
       /\ \A v \in Users : \A d \in Int : Has(c, v, d) <=> Has(b, v, d)
  <2>1. Len(b) \in Nat
    BY <1>9, LenProperties
  <2>2. CASE last
    <3>1. i - 1 \in 1..Len(b)-1 /\ (i - 1) + 1 = i /\ i - 1 \in 1..i-1
      BY <1>2, <1>9, <2>1, <2>2
    <3>2. b[i - 1].user = "nobody" /\ b[(i - 1) + 1].user = "nobody"
      BY <1>9, <2>2, <3>1 DEF Avail
    <3>3. c = Merge(b, i - 1)
      BY <2>2
    <3> HIDE DEF c
    <3>4. Tiling(c) /\ \A v, d : d \in Int => (Has(c, v, d) <=> Has(b, v, d))
      BY <1>9, <3>1, <3>2, <3>3, Merged
    <3>5. Alone(c)
      BY <1>9, <3>1, <3>2, <3>3, MergedAlone
    <3>6. NoPair(c, {})
      <4>1. {i - 1} \subseteq 0..(i - 1) /\ {i - 1} \ {i - 1} = {}
        BY <1>2, <3>1
      <4>2. NoPair(c, {i - 1} \ {i - 1})
        BY <1>9, <3>1, <3>2, <3>3, <4>1, MergedPairs
      <4> QED  BY <4>1, <4>2
    <3> QED  BY <3>4, <3>5, <3>6
  <2>3. CASE ~last
    <3>1. c = b
      BY <2>3
    <3>2. i - 1 \in 1..Len(b)-1 => b[i - 1].user # "nobody"
      BY <1>2, <1>9, <2>1, <2>3 DEF Avail
    <3>3. NoPair(b, {})
      BY <1>9, <3>2 DEF NoPair
    <3> QED  BY <1>9, <3>1, <3>3
  <2> QED  BY <2>2, <2>3
<1> HIDE DEF c
<1> QED  BY <1>1, <1>7, <1>9, <1>10

-----------------------------------------------------------------------------
(***************************************************************************)
(* KdOffscreenAlloc.                                                       *)
(***************************************************************************)
\* The padding leads to the next aligned byte.
LEMMA NextAligned ==
    ASSUME NEW x \in Nat
    PROVE  /\ Padding(x) \in Nat /\ Padding(x) < Align /\ (x + Padding(x)) % Align = 0
           /\ \A o \in Nat : o >= x /\ o % Align = 0 => o >= x + Padding(x)
<1>1. Align \in Nat /\ Align > 0
  BY OffscreenAssumption
<1>2. PICK q \in Nat, r \in 0..Align-1 : x = Align * q + r /\ r = x % Align
  BY <1>1
<1>3. CASE r = 0
  <2>1. Padding(x) = 0
    BY <1>1, <1>2, <1>3 DEF Padding
  <2> QED  BY <1>1, <1>2, <1>3, <2>1
<1>4. CASE r > 0
  <2>1. Padding(x) = Align - r
    BY <1>1, <1>2, <1>4 DEF Padding
  <2>2. x + Padding(x) = Align * (q + 1)
    BY <1>1, <1>2, <2>1
  <2>3. (Align * (q + 1)) % Align = 0
    BY <1>1
  <2>4. ASSUME NEW o \in Nat, o >= x, o % Align = 0 PROVE o >= x + Padding(x)
    <3>1. PICK p \in Nat : o = Align * p
      BY <1>1, <2>4
    <3>2. Align * q < Align * p
      BY <1>1, <1>2, <1>4, <2>4, <3>1
    <3>3. Align * q + Align <= Align * p
      BY <1>1, <3>2
    <3> QED  BY <1>1, <1>2, <2>1, <3>1, <3>3
  <2> QED  BY <1>1, <1>2, <1>4, <2>1, <2>2, <2>3, <2>4
<1> QED  BY <1>2, <1>3, <1>4

\* A set of natural numbers has a least one.
LEMMA LessThan ==
    \E R : IsWellFoundedOn(R, Nat) /\ \A x, y \in Nat : <<x, y>> \in R <=> x < y
<1> DEFINE R == OpToRel(<, Nat)
<1>1. IsWellFoundedOn(R, Nat)
  BY NatLessThanWellFounded
<1>2. \A x, y \in Nat : <<x, y>> \in R <=> x < y
  BY DEF OpToRel
<1> HIDE DEF R
<1> QED  BY <1>1, <1>2

LEMMA Least ==
    ASSUME NEW W \in SUBSET Nat, W # {}
    PROVE  \E x \in W : \A y \in W : x <= y
<1>1. PICK R : IsWellFoundedOn(R, Nat) /\ \A x, y \in Nat : <<x, y>> \in R <=> x < y
  BY LessThan
<1>2. PICK x \in W : \A y \in W : ~(<<y, x>> \in R)
  <2>1. IsWellFoundedOn(R, Nat) /\ W \subseteq Nat /\ W # {}
    BY <1>1
  <2>2. \E x \in W : \A y \in W : ~(<<y, x>> \in R)
    BY <2>1, WFMin, Zenon
  <2> QED  BY <2>2
<1>3. \A y \in W : ~(y < x)
  BY <1>1, <1>2
<1> QED  BY <1>2, <1>3

LEMMA FirstFits ==
    ASSUME areas \in Seq(Area), NEW size, \E i \in DOMAIN areas : Fits(size, i)
    PROVE  FirstFit(size) \in 1..Len(areas) /\ Fits(size, FirstFit(size))
<1> DEFINE W == {i \in 1..Len(areas) : Fits(size, i)}
<1>1. DOMAIN areas = 1..Len(areas) /\ Len(areas) \in Nat
  BY LenProperties
<1>2. W \in SUBSET Nat /\ W # {}
  BY <1>1
<1>3. PICK x \in W : \A y \in W : x <= y
  <2> HIDE DEF W
  <2> QED  BY <1>2, Least
<1>4. x \in DOMAIN areas /\ Fits(size, x) /\ \A j \in 1..x-1 : ~Fits(size, j)
  <2>1. x \in 1..Len(areas) /\ Fits(size, x)
    OBVIOUS
  <2>2. ASSUME NEW j \in 1..x-1, Fits(size, j) PROVE FALSE
    <3>1. j \in W /\ j < x
      BY <1>1, <2>1, <2>2
    <3> HIDE DEF W
    <3> QED  BY <1>1, <1>3, <2>1, <3>1
  <2> QED  BY <1>1, <2>1, <2>2
<1>5. \E i \in DOMAIN areas : Fits(size, i) /\ \A j \in 1..i-1 : ~Fits(size, j)
  BY <1>4
<1> QED  BY <1>1, <1>5 DEF FirstFit

LEMMA AreaRecord ==
    ASSUME NEW u \in Users \cup {"nobody"}, NEW o \in Nat, NEW p \in Nat, NEW n \in Nat \ {0}
    PROVE  [user |-> u, offset |-> o, save_offset |-> p, size |-> n] \in Area
  BY DEF Area

\* The list after an allocation from area i.
Granted(u, size, i) ==
    IF LeavesSpace(size, i)
      THEN SplitAt(areas, i, InUse(u, size, i), Remainder(size, i))
      ELSE ReplaceAt(areas, i, InUse(u, size, i))

LEMMA Granting ==
    ASSUME areas \in Seq(Area), Tiling(areas), Alone(areas), NoPair(areas, {}),
           NEW u \in Users, \A j \in 1..Len(areas) : areas[j].user # u,
           NEW size \in Nat \ {0}, NEW i \in 1..Len(areas), Fits(size, i)
    PROVE  LET m == Granted(u, size, i) IN
           /\ Tiling(m) /\ Alone(m) /\ NoPair(m, {})
           /\ \A v \in Users : \A b \in Int :
                 Has(m, v, b) <=> IF v = u THEN In(InUse(u, size, i), b) ELSE Has(areas, v, b)
<1> DEFINE e == InUse(u, size, i)
           f == Remainder(size, i)
           m == Granted(u, size, i)
<1>1. /\ Len(areas) \in Nat /\ i \in Nat /\ areas[i] \in Area /\ areas[i].user = "nobody"
      /\ u # "nobody"
  BY LenProperties, ElementOfSeq, OffscreenAssumption DEF Fits, Avail
<1>2. /\ areas[i].save_offset \in Nat /\ areas[i].size \in Nat
      /\ areas[i].offset = areas[i].save_offset
  BY <1>1 DEF Area, Tiling, Within
<1>3. /\ Padding(areas[i].offset) \in Nat
      /\ RealSize(size, i) = size + Padding(areas[i].offset)
      /\ RealSize(size, i) \in Nat \ {0} /\ RealSize(size, i) <= areas[i].size
  <2>1. Padding(areas[i].offset) \in Nat
    BY <1>2, NextAligned
  <2>2. RealSize(size, i) = size + Padding(areas[i].offset)
    BY DEF RealSize
  <2>3. RealSize(size, i) <= areas[i].size
    BY DEF Fits
  <2>4. size + Padding(areas[i].offset) \in Nat \ {0}
    BY <2>1
  <2> QED  BY <2>1, <2>2, <2>3, <2>4
<1>4. /\ e \in Area /\ e.user = u /\ e.save_offset = areas[i].save_offset /\ Within(e)
      /\ End(e) = areas[i].save_offset + RealSize(size, i)
  <2>1. /\ e.user = u /\ e.save_offset = areas[i].save_offset
        /\ e.offset = areas[i].save_offset + Padding(areas[i].offset)
        /\ e.size = RealSize(size, i)
    BY <1>2 DEF InUse
  <2>2. e \in Area
    <3>1. /\ u \in Users \cup {"nobody"} /\ RealSize(size, i) \in Nat \ {0}
          /\ areas[i].offset + Padding(areas[i].offset) \in Nat /\ areas[i].offset \in Nat
      BY <1>2, <1>3
    <3> QED  BY <3>1, AreaRecord DEF InUse
  <2> HIDE DEF e
  <2> QED  BY <1>1, <1>2, <1>3, <2>1, <2>2 DEF End, Within
<1>5. End(areas[i]) = areas[i].save_offset + areas[i].size
  BY DEF End
<1>6. NoPair(areas, {}) /\ \A j \in 1..Len(areas)-1 :
         ~(areas[j].user = "nobody" /\ areas[j + 1].user = "nobody")
  BY DEF NoPair
<1>7. CASE LeavesSpace(size, i)
  <2>1. /\ f \in Area /\ f.user = "nobody" /\ f.save_offset = End(e)
        /\ End(f) = End(areas[i]) /\ Within(f)
    <3>1. RealSize(size, i) < areas[i].size
      BY <1>7 DEF LeavesSpace
    <3>2. /\ f.user = "nobody" /\ f.save_offset = areas[i].save_offset + RealSize(size, i)
          /\ f.offset = areas[i].save_offset + RealSize(size, i)
          /\ f.size = areas[i].size - RealSize(size, i)
      BY <1>2 DEF Remainder, FreeArea
    <3>3. f \in Area
      <4>1. /\ areas[i].offset + RealSize(size, i) \in Nat
            /\ areas[i].size - RealSize(size, i) \in Nat \ {0}
        <5>1. \A a, b, r \in Nat : r < b => a + r \in Nat /\ b - r \in Nat \ {0}
          OBVIOUS
        <5>2. /\ areas[i].offset \in Nat /\ areas[i].size \in Nat
              /\ RealSize(size, i) \in Nat
          BY <1>2, <1>3
        <5> QED  BY <3>1, <5>1, <5>2
      <4>2. "nobody" \in Users \cup {"nobody"}
        OBVIOUS
      <4> QED  BY <4>1, <4>2, AreaRecord DEF Remainder, FreeArea
    <3> HIDE DEF e, f
    <3>4. f.save_offset = End(e)
      BY <1>4, <3>2
    <3>5. End(f) = End(areas[i])
      <4>1. End(f) = f.save_offset + f.size
        BY DEF End
      <4>2. RealSize(size, i) \in Nat /\ areas[i].save_offset \in Nat /\ areas[i].size \in Nat
        BY <1>2, <1>3
      <4> QED  BY <1>5, <3>2, <4>1, <4>2
    <3>6. Within(f)
      BY <1>2, <1>3, <3>1, <3>2 DEF End, Within
    <3> QED  BY <3>2, <3>3, <3>4, <3>5, <3>6
  <2>2. m = SplitAt(areas, i, e, f)
    BY <1>7 DEF Granted
  <2> HIDE DEF e, f, m
  <2>3. /\ m \in Seq(Area) /\ Len(m) = Len(areas) + 1 /\ Tiling(m)
        /\ \A j \in 1..Len(areas)+1 :
              m[j] = IF j < i THEN areas[j] ELSE IF j = i THEN e
                     ELSE IF j = i + 1 THEN f ELSE areas[j - 1]
    <3>1. /\ e \in Area /\ f \in Area /\ e.save_offset = areas[i].save_offset
          /\ End(e) = f.save_offset /\ End(f) = End(areas[i]) /\ Within(e) /\ Within(f)
      BY <1>4, <2>1
    <3> QED  BY <2>2, <3>1, Split
  <2> DEFINE from(n) == IF n <= i THEN n ELSE n - 1
  <2>4. \A j \in 1..Len(m) :
           \/ j = i /\ m[j] = e
           \/ j = i + 1 /\ m[j] = f
           \/ j \notin {i, i + 1} /\ from(j) \in 1..Len(areas) \ {i} /\ m[j] = areas[from(j)]
    BY <1>1, <2>3
  <2>5. ASSUME NEW j \in 1..Len(m), NEW k \in 1..Len(m),
               m[j].user = m[k].user, m[j].user # "nobody"
        PROVE  j = k
    <3>1. j # i + 1 /\ k # i + 1
      BY <2>1, <2>4, <2>5, <1>1
    <3>2. CASE j = i \/ k = i
      <4>1. m[j].user = u
        <5>1. \A n \in {j, k} : n = i => m[n] = e
          BY <1>1, <2>3
        <5> QED  BY <1>4, <2>5, <3>2, <5>1
      <4>2. \A n \in {j, k} : n = i
        BY <2>4, <2>5, <3>1, <4>1
      <4> QED  BY <4>2
    <3>3. CASE j # i /\ k # i
      <4>1. /\ from(j) \in 1..Len(areas) /\ m[j] = areas[from(j)]
            /\ from(k) \in 1..Len(areas) /\ m[k] = areas[from(k)]
        BY <2>4, <3>1, <3>3
      <4>2. from(j) = from(k)
        <5> HIDE DEF from
        <5> QED  BY <2>5, <4>1 DEF Alone
      <4> QED  BY <1>1, <2>3, <3>1, <3>3, <4>2
    <3> QED  BY <3>2, <3>3
  <2>6. ASSUME NEW j \in 1..Len(m)-1 PROVE ~(m[j].user = "nobody" /\ m[j + 1].user = "nobody")
    <3>1. j \in 1..Len(m) /\ j + 1 \in 1..Len(m) /\ Len(m) = Len(areas) + 1
      BY <1>1, <2>3
    <3>2. CASE j < i - 1
      <4>1. m[j] = areas[j] /\ m[j + 1] = areas[j + 1] /\ j \in 1..Len(areas)-1
        BY <1>1, <2>3, <3>1, <3>2
      <4> QED  BY <1>6, <4>1
    <3>3. CASE j = i - 1 \/ j = i
      <4>1. m[j] = e \/ m[j + 1] = e
        BY <1>1, <2>3, <3>1, <3>3
      <4> QED  BY <1>1, <1>4, <4>1
    <3>4. CASE j = i + 1
      <4>1. m[j + 1] = areas[i + 1] /\ i \in 1..Len(areas)-1
        BY <1>1, <2>3, <3>1, <3>4
      <4> QED  BY <1>1, <1>6, <4>1
    <3>5. CASE j > i + 1
      <4>1. m[j] = areas[j - 1] /\ m[j + 1] = areas[(j - 1) + 1] /\ j - 1 \in 1..Len(areas)-1
        BY <1>1, <2>3, <3>1, <3>5
      <4> QED  BY <1>6, <4>1
    <3>6. j < i - 1 \/ j = i - 1 \/ j = i \/ j = i + 1 \/ j > i + 1
      BY <1>1, <3>1
    <3> QED  BY <3>2, <3>3, <3>4, <3>5, <3>6
  <2>7. ASSUME NEW v \in Users, NEW b \in Int
        PROVE  Has(m, v, b) <=> IF v = u THEN In(e, b) ELSE Has(areas, v, b)
    <3>1. v # "nobody"
      BY OffscreenAssumption
    <3>2. ASSUME NEW j \in 1..Len(m), m[j].user = v, In(m[j], b)
          PROVE  IF v = u THEN In(e, b) ELSE Has(areas, v, b)
      <4>1. j # i + 1
        BY <1>1, <2>1, <2>3, <3>1, <3>2
      <4>2. CASE j = i
        BY <1>4, <2>4, <3>2, <4>2, <4>1
      <4>3. CASE j # i
        <5>1. from(j) \in 1..Len(areas) /\ m[j] = areas[from(j)]
          BY <2>4, <4>1, <4>3
        <5> HIDE DEF from
        <5> QED  BY <3>2, <5>1 DEF Has
      <4> QED  BY <4>2, <4>3
    <3>3. i \in 1..Len(m) /\ m[i] = e
      BY <1>1, <2>3
    <3>4. ASSUME NEW j \in 1..Len(areas), areas[j].user = v, In(areas[j], b)
          PROVE  Has(m, v, b)
      <4>1. j # i
        BY <1>1, <3>1, <3>4
      <4>2. CASE j < i
        <5>1. j \in 1..Len(m) /\ m[j] = areas[j]
          BY <1>1, <2>3, <4>2
        <5> QED  BY <3>4, <5>1 DEF Has
      <4>3. CASE j > i
        <5>1. j + 1 \in 1..Len(m) /\ m[j + 1] = areas[j]
          BY <1>1, <2>3, <4>3
        <5> QED  BY <3>4, <5>1 DEF Has
      <4> QED  BY <1>1, <4>1, <4>2, <4>3
    <3> QED  BY <1>4, <3>2, <3>3, <3>4 DEF Has
  <2> QED  BY <2>3, <2>5, <2>6, <2>7 DEF Alone, NoPair, e, m
<1>8. CASE ~LeavesSpace(size, i)
  <2>1. End(e) = End(areas[i])
    <3>1. RealSize(size, i) = areas[i].size
      BY <1>2, <1>3, <1>8 DEF LeavesSpace
    <3> QED  BY <1>4, <1>5, <3>1
  <2>2. m = ReplaceAt(areas, i, e)
    BY <1>8 DEF Granted
  <2> HIDE DEF e, f, m
  <2>3. Tiling(m)
    BY <1>4, <2>1, <2>2, SameExtent
  <2>4. /\ Len(m) = Len(areas)
        /\ \A j \in 1..Len(areas) : m[j] = IF j = i THEN e ELSE areas[j]
    <3>1. e \in Area
      BY <1>4
    <3>2. IsReplaced(m, areas, i, e)
      BY <2>2, <3>1, Replaced
    <3> QED  BY <3>2 DEF IsReplaced
  <2>5. Alone(m)
    BY <1>4, <2>4 DEF Alone
  <2>6. \A j \in 1..Len(areas) : m[j].user = "nobody" => areas[j].user = "nobody"
    BY <1>1, <1>4, <2>4
  <2>7. NoPair(m, {})
    <3>1. \A j \in 1..Len(areas)-1 : j \in 1..Len(areas) /\ j + 1 \in 1..Len(areas)
      BY <1>1
    <3> QED  BY <1>6, <2>4, <2>6, <3>1 DEF NoPair
  <2>8. ASSUME NEW v \in Users, NEW b \in Int
        PROVE  Has(m, v, b) <=> IF v = u THEN In(e, b) ELSE Has(areas, v, b)
    <3>1. v # "nobody"
      BY OffscreenAssumption
    <3>2. ASSUME NEW j \in 1..Len(m), m[j].user = v, In(m[j], b)
          PROVE  IF v = u THEN In(e, b) ELSE Has(areas, v, b)
      BY <1>4, <2>4, <3>2 DEF Has
    <3>3. ASSUME NEW j \in 1..Len(areas), areas[j].user = v, In(areas[j], b)
          PROVE  Has(m, v, b)
      <4>1. m[j] = areas[j] /\ j \in 1..Len(m)
        BY <1>1, <2>4, <3>1, <3>3
      <4> QED  BY <3>3, <4>1 DEF Has
    <3>4. i \in 1..Len(m) /\ m[i] = e
      BY <2>4
    <3> QED  BY <1>4, <3>2, <3>3, <3>4 DEF Has
  <2> QED  BY <2>3, <2>5, <2>7, <2>8 DEF e, m
<1> QED  BY <1>7, <1>8

-----------------------------------------------------------------------------
(***************************************************************************)
(* The invariant is kept.                                                  *)
(***************************************************************************)
LEMMA WholeFree ==
    /\ Tiling(WholeMemory) /\ Alone(WholeMemory) /\ NoPair(WholeMemory, {})
    /\ \A v \in Users : \A b : ~Has(WholeMemory, v, b)
<1> DEFINE e == FreeArea(Base, Total)
<1>1. Total \in Nat \ {0} /\ Base \in Nat /\ Base + Total = MemorySize
  BY OffscreenAssumption DEF Total
<1>2. e \in Area /\ e.save_offset = Base /\ e.offset = Base /\ e.size = Total /\ e.user = "nobody"
  <2>1. e \in Area
    BY <1>1, AreaRecord DEF FreeArea
  <2> QED  BY <2>1 DEF FreeArea
<1>3. WholeMemory \in Seq(Area) /\ Len(WholeMemory) = 1 /\ WholeMemory[1] = e
  <2>1. WholeMemory = <<e>>
    BY DEF WholeMemory
  <2> HIDE DEF e
  <2> QED  BY <1>2, <2>1
<1> HIDE DEF e
<1>4. End(e) = MemorySize
  BY <1>1, <1>2 DEF End
<1>5. \A b \in Base..MemorySize-1 : In(e, b)
  BY <1>1, <1>2, <1>4 DEF In
<1>6. Within(e)
  BY <1>1, <1>2, <1>4 DEF Within
<1>7. 1..1 = {1} /\ 1..1-1 = {}
  OBVIOUS
<1>8. Tiling(WholeMemory)
  BY <1>2, <1>3, <1>4, <1>5, <1>6, <1>7 DEF Tiling
<1>9. Alone(WholeMemory) /\ NoPair(WholeMemory, {})
  BY <1>3, <1>7 DEF Alone, NoPair
<1>10. \A v \in Users : \A b : ~Has(WholeMemory, v, b)
  BY <1>2, <1>3, <1>7, OffscreenAssumption DEF Has
<1> QED  BY <1>8, <1>9, <1>10

\* A list that is not empty has areas.
LEMMA NotEmpty ==
    ASSUME areas \in Seq(Area), DOMAIN areas # {}
    PROVE  areas # <<>>
  BY LenProperties, EmptySeq

LEMMA InitInv == Init => IInv
<1> SUFFICES ASSUME Init PROVE IInv
  OBVIOUS
<1>1. areas = WholeMemory /\ Tiling(WholeMemory) /\ Alone(WholeMemory) /\ NoPair(WholeMemory, {})
  BY WholeFree DEF Init
<1>2. areas \in Seq(Area)
  BY <1>1 DEF Tiling
<1> QED  BY <1>1, <1>2 DEF IInv, TypeOK, Init

LEMMA GrantList ==
    ASSUME IInv, NEW u \in Users, NEW size \in Nat \ {0}, ~Holds(u),
           \E i \in DOMAIN areas : Fits(size, i), Grant(u, size)
    PROVE  LET i == FirstFit(size) IN
           /\ areas \in Seq(Area) /\ Tiling(areas) /\ NoPair(areas, {})
           /\ i \in 1..Len(areas) /\ Fits(size, i)
           /\ Tiling(areas') /\ Alone(areas') /\ NoPair(areas', {})
           /\ \A v \in Users : \A b \in Int :
                 Has(areas', v, b) <=> IF v = u THEN In(InUse(u, size, i), b) ELSE Has(areas, v, b)
<1> DEFINE i == FirstFit(size)
<1>1. areas \in Seq(Area)
  BY DEF IInv, TypeOK
<1>2. areas # <<>>
  BY <1>1, NotEmpty
<1>3. Tiling(areas) /\ Alone(areas) /\ NoPair(areas, {})
  BY <1>2 DEF IInv
<1>4. i \in 1..Len(areas) /\ Fits(size, i)
  BY <1>1, FirstFits
<1>5. areas' = Granted(u, size, i)
  BY DEF Grant, Granted, SplitAt
<1>6. \A j \in 1..Len(areas) : areas[j].user # u
  BY <1>1, LenProperties DEF Holds
<1> HIDE DEF i
<1>7. /\ Tiling(areas') /\ Alone(areas') /\ NoPair(areas', {})
      /\ \A v \in Users : \A b \in Int :
            Has(areas', v, b) <=> IF v = u THEN In(InUse(u, size, i), b) ELSE Has(areas, v, b)
  BY <1>1, <1>3, <1>4, <1>5, <1>6, Granting
<1> QED  BY <1>1, <1>3, <1>4, <1>7 DEF i

LEMMA AllocInv ==
    ASSUME IInv, NEW u \in Users, NEW size \in 1..Total+1, Alloc(u, size)
    PROVE  IInv'
<1>1. size \in Nat \ {0}
  BY OffscreenAssumption DEF Total
<1>2. swapping' = swapping
  BY DEF Alloc
<1>3. CASE UNCHANGED areas /\ answer' \in {"null", "starved", "crashed"}
  BY <1>2, <1>3 DEF IInv, TypeOK
<1>4. CASE (\E i \in DOMAIN areas : Fits(size, i)) /\ Grant(u, size)
  <2>1. Tiling(areas') /\ Alone(areas') /\ NoPair(areas', {})
    BY <1>1, <1>4, GrantList DEF Alloc
  <2>2. areas' \in Seq(Area)
    BY <2>1 DEF Tiling
  <2>3. answer' = "granted"
    BY <1>4 DEF Grant
  <2> QED  BY <1>2, <2>1, <2>2, <2>3 DEF IInv, TypeOK
<1> QED  BY <1>3, <1>4 DEF Alloc, Starve

\* An area is given back, by its user or because the screen goes down.
LEMMA FreeList ==
    ASSUME IInv, NEW i \in DOMAIN areas, areas[i].user # "nobody", areas' = Freed(i)
    PROVE  /\ areas # <<>> /\ areas' # <<>>
           /\ areas' \in Seq(Area) /\ Tiling(areas') /\ Alone(areas') /\ NoPair(areas', {})
           /\ areas[i].user \in Users
           /\ \A v \in Users : \A b \in Int :
                 Has(areas', v, b) <=> v # areas[i].user /\ Has(areas, v, b)
<1>1. areas \in Seq(Area) /\ i \in 1..Len(areas)
  BY LenProperties DEF IInv, TypeOK
<1>2. areas # <<>>
  BY <1>1, NotEmpty
<1>3. Tiling(areas) /\ Alone(areas) /\ NoPair(areas, {})
  BY <1>2 DEF IInv
<1>4. /\ Tiling(areas') /\ Alone(areas') /\ NoPair(areas', {})
      /\ \A v \in Users : \A b \in Int :
            Has(areas', v, b) <=> v # areas[i].user /\ Has(areas, v, b)
  BY <1>1, <1>3, Freeing
<1>5. areas' \in Seq(Area) /\ areas' # <<>>
  BY <1>4 DEF Tiling
<1>6. areas[i].user \in Users
  BY <1>1, Fields, ElementOfSeq
<1> QED  BY <1>2, <1>4, <1>5, <1>6

LEMMA FreeInv == ASSUME IInv, NEW u \in Users, Free(u) PROVE IInv'
<1>1. PICK i \in DOMAIN areas : areas[i].user = u /\ areas' = Freed(i)
  BY DEF Free
<1>2. areas[i].user # "nobody"
  BY <1>1, OffscreenAssumption
<1> QED  BY <1>1, <1>2, FreeList DEF Free, IInv, TypeOK

\* The loop of KdOffscreenSwapOut may skip one free area only.
LEMMA VictimInUse ==
    ASSUME IInv, KickOut
    PROVE  Victim \in DOMAIN areas /\ areas[Victim].user # "nobody"
<1>1. areas \in Seq(Area) /\ areas # <<>> /\ Victim <= Len(areas)
  BY DEF IInv, TypeOK, KickOut
<1>2. Len(areas) \in Nat /\ DOMAIN areas = 1..Len(areas)
  BY <1>1, LenProperties
<1>3. NoPair(areas, {}) /\ Len(areas) > 0
  BY <1>1 DEF IInv, Tiling
<1>4. CASE areas[1].user = "nobody"
  <2>1. Victim = 2 /\ 1 \in (1..Len(areas)-1) \ {}
    BY <1>1, <1>2, <1>4 DEF Victim, Avail
  <2>2. areas[1 + 1].user # "nobody"
    BY <1>3, <1>4, <2>1 DEF NoPair
  <2> QED  BY <1>1, <1>2, <2>1, <2>2
<1>5. CASE areas[1].user # "nobody"
  BY <1>2, <1>3, <1>5 DEF Victim, Avail
<1> QED  BY <1>4, <1>5

LEMMA KickOutInv == ASSUME IInv, KickOut PROVE IInv'
<1>1. areas' = Freed(Victim) /\ Victim \in DOMAIN areas /\ areas[Victim].user # "nobody"
  BY VictimInUse DEF KickOut
<1>2. /\ areas' \in Seq(Area) /\ Tiling(areas') /\ Alone(areas') /\ NoPair(areas', {})
  BY <1>1, FreeList
<1> QED  BY <1>2 DEF KickOut, IInv, TypeOK

LEMMA StepInv == IInv /\ [Next]_vars => IInv'
<1> SUFFICES ASSUME IInv, [Next]_vars PROVE IInv'
  OBVIOUS
<1>1. ASSUME NEW u \in Users, NEW size \in 1..Total+1, Alloc(u, size) PROVE IInv'
  BY <1>1, AllocInv
<1>2. ASSUME NEW u \in Users, Free(u) PROVE IInv'
  BY <1>2, FreeInv
<1>3. CASE SwapOut
  BY <1>3 DEF SwapOut, IInv, TypeOK
<1>4. CASE KickOut
  BY <1>4, KickOutInv
<1>5. CASE SwappedOut
  <2>1. areas' = <<>> /\ areas' \in Seq(Area)
    BY <1>5, EmptySeq DEF SwappedOut
  <2> QED  BY <1>5, <2>1 DEF SwappedOut, IInv, TypeOK
<1>6. CASE SwapIn
  <2>1. /\ areas' = WholeMemory /\ Tiling(areas') /\ Alone(areas') /\ NoPair(areas', {})
    BY <1>6, WholeFree DEF SwapIn
  <2>2. areas' \in Seq(Area)
    BY <2>1 DEF Tiling
  <2> QED  BY <1>6, <2>1, <2>2 DEF SwapIn, IInv, TypeOK
<1>7. CASE UNCHANGED vars
  BY <1>7 DEF vars, IInv, TypeOK
<1> QED  BY <1>1, <1>2, <1>3, <1>4, <1>5, <1>6, <1>7 DEF Next

\* At every moment the areas are of their type, lie one after the other, cover
\* the memory and have one user each, and no two free ones are neighbours.
THEOREM Invariant == Spec => []IInv
  BY InitInv, StepInv, PTL DEF Spec

LEMMA InvTiled == IInv => Tiled
<1> SUFFICES ASSUME IInv, areas # <<>> PROVE Tiled
  BY DEF IInv, Tiled
<1>1. Tiling(areas) /\ TypeOK
  BY DEF IInv
<1>2. DOMAIN areas = 1..Len(areas)
  BY <1>1, LenProperties DEF TypeOK
<1> QED  BY <1>1, <1>2 DEF Tiled, Tiling, Within, End

\* After any allocations, frees and kick-outs the areas cover the memory from
\* off_screen_base to memory_size without gap or overlap, each with its
\* aligned part inside it.
THEOREM MemoryTiled == Spec => []Tiled
  BY Invariant, InvTiled, PTL

LEMMA InvCoalesced == IInv => Coalesced
<1> SUFFICES ASSUME IInv PROVE Coalesced
  OBVIOUS
<1>1. CASE areas = <<>>
  BY <1>1, EmptySeq DEF Coalesced
<1>2. CASE areas # <<>>
  BY <1>2 DEF IInv, NoPair, Coalesced, Avail
<1> QED  BY <1>1, <1>2

\* No two free areas are ever neighbours: what KdOffscreenSwapOut relies on
\* when it looks at the first two areas only.
THEOREM AlwaysCoalesced == Spec => []Coalesced
  BY Invariant, InvCoalesced, PTL

-----------------------------------------------------------------------------
(***************************************************************************)
(* The allocator implements OffscreenMap.                                  *)
(***************************************************************************)
HeldIn(l, v) == {b \in Int : Has(l, v, b)}

LEMMA BytesHeld ==
    ASSUME NEW l \in Seq(Area), NEW v
    PROVE  UNION {l[i].save_offset..l[i].save_offset+l[i].size-1 :
                    i \in {j \in DOMAIN l : l[j].user = v}} = HeldIn(l, v)
<1>1. DOMAIN l = 1..Len(l)
  BY LenProperties
<1>2. ASSUME NEW i \in 1..Len(l), NEW b
      PROVE  b \in l[i].save_offset..l[i].save_offset+l[i].size-1 <=> b \in Int /\ In(l[i], b)
  <2>1. l[i].save_offset \in Nat /\ l[i].size \in Nat
    BY ElementOfSeq, Fields
  <2> QED  BY <2>1 DEF In, End
<1> QED  BY <1>1, <1>2 DEF HeldIn, Has

held == [u \in Users |-> HeldBy(u)]
up == areas # <<>>

LEMMA HeldIs ==
    /\ areas \in Seq(Area) => held = [u \in Users |-> HeldIn(areas, u)]
    /\ areas' \in Seq(Area) => held' = [u \in Users |-> HeldIn(areas', u)]
<1>1. ASSUME areas \in Seq(Area), NEW u \in Users PROVE HeldBy(u) = HeldIn(areas, u)
  BY <1>1, BytesHeld DEF HeldBy, Bytes
<1>2. ASSUME areas' \in Seq(Area), NEW u \in Users PROVE HeldBy(u)' = HeldIn(areas', u)
  BY <1>2, BytesHeld DEF HeldBy, Bytes
<1> QED  BY <1>1, <1>2 DEF held

\* Every area lies in the memory, and a byte in one area only.
LEMMA Inside ==
    ASSUME NEW l, Tiling(l), NEW i \in 1..Len(l)
    PROVE  /\ Base <= l[i].save_offset /\ End(l[i]) <= MemorySize
           /\ l[i].save_offset \in Nat /\ End(l[i]) \in Nat /\ l[i] \in Area
           /\ \A j \in 1..Len(l) : \A b \in Int : In(l[i], b) /\ In(l[j], b) => i = j
<1>1. l \in Seq(Area) /\ Len(l) \in Nat /\ 1 \in 1..Len(l) /\ Len(l) \in 1..Len(l)
  BY LenProperties DEF Tiling
<1>2. \A j \in 1..Len(l) : /\ l[j].save_offset \in Nat /\ End(l[j]) \in Nat
                           /\ l[j].save_offset < End(l[j])
  BY <1>1, Elements
<1>3. \A j, k \in 1..Len(l) : j < k => End(l[j]) <= l[k].save_offset
  BY DEF Tiling
<1>4. l[1].save_offset = Base /\ End(l[Len(l)]) = MemorySize
  BY DEF Tiling
<1>5. Base <= l[i].save_offset
  <2>1. i = 1 \/ 1 < i
    BY <1>1
  <2>2. 1 < i => End(l[1]) <= l[i].save_offset
    BY <1>1, <1>3
  <2> QED  BY <1>1, <1>2, <1>4, <2>1, <2>2
<1>6. End(l[i]) <= MemorySize
  <2>1. i = Len(l) \/ i < Len(l)
    BY <1>1
  <2>2. i < Len(l) => End(l[i]) <= l[Len(l)].save_offset
    BY <1>1, <1>3
  <2> QED  BY <1>1, <1>2, <1>4, <2>1, <2>2
<1>7. ASSUME NEW j \in 1..Len(l), NEW b \in Int, In(l[i], b), In(l[j], b) PROVE i = j
  <2>1. ~(i < j) /\ ~(j < i)
    BY <1>2, <1>3, <1>7 DEF In
  <2> QED  BY <1>1, <2>1
<1> QED  BY <1>1, <1>2, <1>5, <1>6, <1>7, ElementOfSeq

\* Bytes of free areas are nobody's, and no others are.
LEMMA UnheldIs ==
    ASSUME IInv, areas # <<>>
    PROVE  /\ \A b : b \in Map!Unheld <=> /\ b \in Base..MemorySize-1
                                          /\ \A v \in Users : ~Has(areas, v, b)
           /\ \A i \in 1..Len(areas) : \A b \in Int :
                 areas[i].user = "nobody" /\ In(areas[i], b) => b \in Map!Unheld
<1>1. areas \in Seq(Area) /\ Tiling(areas)
  BY DEF IInv, TypeOK
<1>2. held = [u \in Users |-> HeldIn(areas, u)]
  BY <1>1, HeldIs
<1>3. Map!Unheld = (Base..MemorySize-1) \ UNION {held[u] : u \in Users}
  BY DEF Map!Unheld, Map!Bytes, held
<1>4. \A b : b \in Map!Unheld <=> /\ b \in Base..MemorySize-1
                                  /\ \A v \in Users : ~Has(areas, v, b)
  <2>1. \A b \in Base..MemorySize-1 : b \in Int
    BY OffscreenAssumption
  <2>2. \A b \in Int, v \in Users : b \in held[v] <=> Has(areas, v, b)
    BY <1>2 DEF HeldIn
  <2> QED  BY <1>3, <2>1, <2>2
<1>5. ASSUME NEW i \in 1..Len(areas), NEW b \in Int,
             areas[i].user = "nobody", In(areas[i], b)
      PROVE  b \in Map!Unheld
  <2>1. b \in Base..MemorySize-1
    <3>1. /\ Base <= areas[i].save_offset /\ End(areas[i]) <= MemorySize
          /\ areas[i].save_offset \in Nat /\ End(areas[i]) \in Nat
      BY <1>1, Inside
    <3> QED  BY <1>5, <3>1, OffscreenAssumption DEF In
  <2>2. ASSUME NEW v \in Users, Has(areas, v, b) PROVE FALSE
    <3>1. PICK j \in 1..Len(areas) : areas[j].user = v /\ In(areas[j], b)
      BY <2>2 DEF Has
    <3>2. i = j
      BY <1>1, <1>5, <3>1, Inside
    <3> QED  BY <1>5, <3>1, <3>2, OffscreenAssumption
  <2> QED  BY <1>4, <2>1, <2>2
<1> QED  BY <1>4, <1>5

\* Where there is an aligned stretch of free bytes it lies in one area, which
\* an allocation would have found.
LEMMA NoRoom ==
    ASSUME IInv, areas # <<>>, NEW size \in Nat \ {0},
           NEW o \in Map!Bytes, Map!Stretch(o, size, Map!Unheld)
    PROVE  size <= Total /\ \E i \in DOMAIN areas : Fits(size, i)
<1>1. areas \in Seq(Area) /\ Tiling(areas) /\ NoPair(areas, {}) /\ Len(areas) \in Nat
  BY LenProperties DEF IInv, TypeOK
<1>2. /\ o \in Nat /\ o \in Base..MemorySize-1 /\ o % Align = 0
      /\ \A b \in o..o+size-1 : b \in Map!Unheld
  BY OffscreenAssumption DEF Map!Bytes, Map!Stretch
<1>3. PICK i \in 1..Len(areas) : In(areas[i], o)
  BY <1>1, <1>2 DEF Tiling
<1>4. /\ Base <= areas[i].save_offset /\ End(areas[i]) <= MemorySize
      /\ areas[i].save_offset \in Nat /\ End(areas[i]) \in Nat /\ areas[i] \in Area
  BY <1>1, Inside
<1>5. ASSUME NEW j \in 1..Len(areas), NEW b \in o..o+size-1, In(areas[j], b)
      PROVE  areas[j].user = "nobody"
  <2>1. b \in Map!Unheld
    BY <1>2
  <2>2. \A v \in Users : ~Has(areas, v, b)
    BY <2>1, UnheldIs
  <2>3. areas[j].user \in Users \cup {"nobody"}
    BY <1>1, Elements, Fields
  <2> QED  BY <1>5, <2>2, <2>3 DEF Has
<1>6. areas[i].user = "nobody"
  <2>1. o \in o..o+size-1
    BY <1>2
  <2> QED  BY <1>3, <1>5, <2>1
<1>7. o + size <= End(areas[i])
  <2> SUFFICES ASSUME o + size > End(areas[i]) PROVE FALSE
    BY <1>2, <1>4
  <2> DEFINE b == End(areas[i])
  <2>1. b \in o..o+size-1
    BY <1>2, <1>3, <1>4 DEF In
  <2>2. b \in Base..MemorySize-1
    BY <1>2, <2>1, UnheldIs
  <2>3. i \in 1..Len(areas)-1
    <3>1. i # Len(areas)
      BY <1>1, <2>2, OffscreenAssumption DEF Tiling
    <3> QED  BY <1>1, <3>1
  <2>4. i + 1 \in 1..Len(areas)
    BY <1>1, <2>3
  <2>5. In(areas[i + 1], b)
    <3>1. areas[i + 1].save_offset = b
      BY <1>1, <2>3 DEF Tiling
    <3>2. areas[i + 1].save_offset < End(areas[i + 1])
      BY <1>1, <2>4, Elements
    <3> QED  BY <1>4, <3>1, <3>2 DEF In
  <2>6. areas[i + 1].user = "nobody"
    <3> HIDE DEF b
    <3> QED  BY <1>5, <2>1, <2>4, <2>5
  <2> QED  BY <1>1, <1>6, <2>3, <2>6 DEF NoPair
<1>8. areas[i].save_offset <= o
  BY <1>3 DEF In
<1>9. size <= Total
  BY <1>2, <1>4, <1>7, <1>8, OffscreenAssumption DEF Total
<1>10. Fits(size, i)
  <2>1. areas[i].offset = areas[i].save_offset
    BY <1>1, <1>6 DEF Tiling, Within
  <2>2. /\ Padding(areas[i].offset) \in Nat
        /\ areas[i].save_offset + Padding(areas[i].offset) <= o
    BY <1>2, <1>4, <1>8, <2>1, NextAligned
  <2>3. End(areas[i]) = areas[i].save_offset + areas[i].size /\ areas[i].size \in Nat
    BY <1>4, Fields DEF End
  <2>4. size + Padding(areas[i].offset) <= areas[i].size
    BY <1>2, <1>4, <1>7, <2>2, <2>3
  <2> QED  BY <1>6, <2>4 DEF Fits, Avail, RealSize
<1>11. DOMAIN areas = 1..Len(areas)
  BY <1>1, LenProperties
<1> QED  BY <1>9, <1>10, <1>11

LEMMA GrantMaps ==
    ASSUME IInv, NEW u \in Users, NEW size \in Nat \ {0}, ~Holds(u),
           \E i \in DOMAIN areas : Fits(size, i), Grant(u, size)
    PROVE  Map!Grant(u, size)
<1> DEFINE i == FirstFit(size)
           e == InUse(u, size, i)
           first == areas[i].save_offset
           o == areas[i].save_offset + Padding(areas[i].offset)
<1>1. /\ areas \in Seq(Area) /\ Tiling(areas) /\ NoPair(areas, {})
      /\ i \in 1..Len(areas) /\ Fits(size, i)
      /\ Tiling(areas')
      /\ \A v \in Users : \A b \in Int :
            Has(areas', v, b) <=> IF v = u THEN In(InUse(u, size, i), b) ELSE Has(areas, v, b)
  BY GrantList
<1>2. areas # <<>> /\ areas' # <<>> /\ areas' \in Seq(Area)
  BY <1>1 DEF Tiling
<1> HIDE DEF i
<1>3. /\ Base <= areas[i].save_offset /\ End(areas[i]) <= MemorySize
      /\ areas[i].save_offset \in Nat /\ End(areas[i]) \in Nat /\ areas[i] \in Area
  BY <1>1, Inside
<1>4. areas[i].user = "nobody" /\ areas[i].offset = areas[i].save_offset
  BY <1>1 DEF Fits, Avail, Tiling, Within
<1>5. /\ Padding(areas[i].offset) \in Nat /\ Padding(areas[i].offset) < Align
      /\ o % Align = 0
  BY <1>3, <1>4, NextAligned
<1>6. /\ RealSize(size, i) = size + Padding(areas[i].offset)
      /\ RealSize(size, i) <= areas[i].size /\ areas[i].size \in Nat
      /\ End(areas[i]) = areas[i].save_offset + areas[i].size
  BY <1>1, <1>3, Fields DEF Fits, RealSize, End
<1>7. o + size <= End(areas[i])
  BY <1>3, <1>5, <1>6
<1>8. \A b \in first..o+size-1 : b \in Map!Unheld
  <2> SUFFICES ASSUME NEW b \in first..o+size-1 PROVE b \in Map!Unheld
    OBVIOUS
  <2>1. b \in Int /\ In(areas[i], b)
    BY <1>3, <1>5, <1>7 DEF In
  <2> QED  BY <1>1, <1>2, <1>4, <2>1, UnheldIs
<1>9. first \in Map!Bytes /\ o \in Map!Bytes
  BY <1>3, <1>5, <1>7, OffscreenAssumption DEF Map!Bytes
<1>10. first <= o /\ o - first < Align
  BY <1>3, <1>5, OffscreenAssumption
<1>11. Map!Stretch(o, size, Map!Unheld) /\ first..o \subseteq Map!Unheld
  <2>1. \A b \in o..o+size-1 : b \in first..o+size-1
    BY <1>3, <1>5
  <2>2. \A b \in first..o : b \in first..o+size-1
    BY <1>3, <1>5
  <2> QED  BY <1>5, <1>8, <2>1, <2>2 DEF Map!Stretch
<1>12. \A b \in Int : In(e, b) <=> b \in first..o+size-1
  <2>1. e.save_offset = first /\ e.size = RealSize(size, i)
    BY <1>4 DEF InUse
  <2> HIDE DEF e
  <2> QED  BY <1>3, <1>5, <1>6, <2>1 DEF In, End
<1>13. HeldIn(areas, u) = {}
  <2>1. \A j \in 1..Len(areas) : areas[j].user # u
    BY <1>1, LenProperties DEF Holds
  <2> QED  BY <2>1 DEF HeldIn, Has
<1>14. /\ held = [v \in Users |-> HeldIn(areas, v)]
       /\ held' = [v \in Users |-> HeldIn(areas', v)]
  BY <1>1, <1>2, HeldIs
<1>15. held' = [held EXCEPT ![u] = first..o+size-1]
  <2>1. HeldIn(areas', u) = first..o+size-1
    <3>1. \A b \in first..o+size-1 : b \in Int
      BY <1>3, <1>5
    <3>2. \A b \in Int : Has(areas', u, b) <=> In(e, b)
      BY <1>1
    <3> HIDE DEF first, o, e
    <3> QED  BY <1>12, <3>1, <3>2 DEF HeldIn
  <2>2. \A v \in Users \ {u} : HeldIn(areas', v) = HeldIn(areas, v)
    BY <1>1 DEF HeldIn
  <2> HIDE DEF first, o
  <2> QED  BY <1>14, <2>1, <2>2
<1>16. held[u] = {}
  BY <1>13, <1>14
<1>17. answer' = "granted" /\ up /\ up'
  BY <1>2 DEF Grant, up
<1> HIDE DEF first, o
<1> QED  BY <1>9, <1>10, <1>11, <1>15, <1>16, <1>17 DEF Map!Grant, held, up

LEMMA AllocMaps ==
    ASSUME IInv, NEW u \in Users, NEW size \in 1..Total+1, Alloc(u, size)
    PROVE  [Map!Next]_(Map!vars)
<1>1. size \in Nat \ {0} /\ size \in 1..MemorySize+1
  BY OffscreenAssumption DEF Total
<1>2. CASE (\E i \in DOMAIN areas : Fits(size, i)) /\ Grant(u, size)
  BY <1>1, <1>2, GrantMaps DEF Alloc, Map!Next
<1>3. CASE UNCHANGED areas /\ answer' = "starved"
  BY <1>3 DEF Map!Starve, Map!Next, HeldBy, Bytes
<1>4. CASE /\ UNCHANGED areas /\ answer' \in {"null", "crashed"}
           /\ size > Total \/ ~\E i \in DOMAIN areas : Fits(size, i)
  <2>1. ASSUME areas # <<>>, NEW o \in Map!Bytes, Map!Stretch(o, size, Map!Unheld) PROVE FALSE
    <3>1. size <= Total /\ \E i \in DOMAIN areas : Fits(size, i)
      BY <1>1, <2>1, NoRoom
    <3> QED  BY <1>1, <1>4, <3>1, OffscreenAssumption DEF Total
  <2>2. Map!Refuse(size)
    BY <1>4, <2>1 DEF Map!Refuse, HeldBy, Bytes
  <2> QED  BY <1>1, <2>2 DEF Map!Next
<1> QED  BY <1>2, <1>3, <1>4 DEF Alloc, Starve

LEMMA FreeMaps ==
    ASSUME IInv, NEW i \in DOMAIN areas, areas[i].user # "nobody", areas' = Freed(i),
           UNCHANGED answer
    PROVE  [Map!Next]_(Map!vars)
<1> DEFINE u == areas[i].user
<1>1. /\ areas # <<>> /\ areas' # <<>> /\ areas' \in Seq(Area) /\ areas \in Seq(Area)
      /\ u \in Users
      /\ \A v \in Users : \A b \in Int :
            Has(areas', v, b) <=> v # u /\ Has(areas, v, b)
  BY FreeList DEF IInv, TypeOK
<1> HIDE DEF u
<1>2. HeldIn(areas', u) = {} /\ \A v \in Users \ {u} : HeldIn(areas', v) = HeldIn(areas, v)
  BY <1>1 DEF HeldIn
<1>3. held' = [held EXCEPT ![u] = {}]
  BY <1>1, <1>2, HeldIs
<1>4. Map!Release(u)
  BY <1>1, <1>3 DEF Map!Release, held
<1> QED  BY <1>1, <1>4 DEF Map!Next

LEMMA SwitchMaps ==
    ASSUME areas \in Seq(Area), areas' \in Seq(Area), UNCHANGED answer,
           \A v \in Users : HeldIn(areas, v) = {} /\ HeldIn(areas', v) = {},
           (areas' # <<>>) <=> ~(areas # <<>>)
    PROVE  [Map!Next]_(Map!vars)
<1>1. held = [v \in Users |-> {}] /\ held' = [v \in Users |-> {}]
  BY HeldIs
<1>2. (areas' # <<>>) = ~(areas # <<>>)
  OBVIOUS
<1>3. Map!Switch
  BY <1>1, <1>2 DEF Map!Switch, held
<1> QED  BY <1>3 DEF Map!Next

LEMMA EmptyHolds == \A v : HeldIn(<<>>, v) = {}
  BY EmptySeq DEF HeldIn, Has

LEMMA StepMaps == IInv /\ [Next]_vars => [Map!Next]_(Map!vars)
<1> SUFFICES ASSUME IInv, [Next]_vars PROVE [Map!Next]_(Map!vars)
  OBVIOUS
<1>1. ASSUME NEW u \in Users, NEW size \in 1..Total+1, Alloc(u, size)
      PROVE  [Map!Next]_(Map!vars)
  BY <1>1, AllocMaps
<1>2. ASSUME NEW u \in Users, Free(u) PROVE [Map!Next]_(Map!vars)
  <2>1. PICK i \in DOMAIN areas : areas[i].user = u /\ areas' = Freed(i)
    BY <1>2 DEF Free
  <2>2. areas[i].user # "nobody" /\ UNCHANGED answer
    BY <1>2, <2>1, OffscreenAssumption DEF Free
  <2> QED  BY <2>1, <2>2, FreeMaps
<1>3. CASE KickOut
  <2>1. Victim \in DOMAIN areas /\ areas[Victim].user # "nobody"
    BY <1>3, VictimInUse
  <2> QED  BY <1>3, <2>1, FreeMaps DEF KickOut
<1>4. CASE UNCHANGED areas /\ UNCHANGED answer
  BY <1>4 DEF Map!vars, HeldBy, Bytes
<1>5. CASE SwappedOut /\ areas # <<>>
  <2>1. areas \in Seq(Area) /\ Tiling(areas) /\ Len(areas) \in Nat /\ Len(areas) > 0
    BY <1>5, LenProperties DEF IInv, TypeOK, Tiling
  <2>2. areas[1].user = "nobody" /\ Len(areas) = 1
    <3>1. Victim > Len(areas)
      BY <1>5 DEF SwappedOut
    <3>2. Victim = IF areas[1].user = "nobody" THEN 2 ELSE 1
      BY DEF Victim, Avail
    <3>3. Len(areas) \in Nat /\ Len(areas) > 0
      BY <2>1
    <3>4. areas[1].user = "nobody"
      BY <3>1, <3>2, <3>3
    <3>5. Victim = 2
      BY <3>2, <3>4
    <3>6. Len(areas) = 1
      <4>1. 2 > Len(areas)
        BY <3>1, <3>5
      <4>2. \A n \in Nat : n > 0 /\ 2 > n => n = 1
        OBVIOUS
      <4> QED  BY <3>3, <4>1, <4>2
    <3> QED  BY <3>4, <3>6
  <2>3. \A v \in Users : HeldIn(areas, v) = {}
    BY <2>2, OffscreenAssumption DEF HeldIn, Has
  <2>4. areas' = <<>> /\ UNCHANGED answer /\ areas' \in Seq(Area)
    BY <1>5, EmptySeq DEF SwappedOut
  <2>5. \A v \in Users : HeldIn(areas', v) = {}
    BY <2>4, EmptyHolds
  <2> QED  BY <1>5, <2>1, <2>3, <2>4, <2>5, SwitchMaps
<1>6. CASE SwapIn
  <2>1. /\ areas = <<>> /\ areas' = WholeMemory /\ UNCHANGED answer
        /\ areas \in Seq(Area) /\ areas' \in Seq(Area) /\ areas' # <<>>
    BY <1>6, WholeFree, EmptySeq DEF SwapIn, Tiling
  <2>2. \A v \in Users : HeldIn(areas, v) = {} /\ HeldIn(areas', v) = {}
    BY <2>1, WholeFree, EmptyHolds DEF HeldIn
  <2> QED  BY <2>1, <2>2, SwitchMaps
<1>7. CASE SwapOut \/ UNCHANGED vars \/ (SwappedOut /\ areas = <<>>)
  <2>1. UNCHANGED areas /\ UNCHANGED answer
    BY <1>7 DEF SwapOut, vars, SwappedOut
  <2> QED  BY <1>4, <2>1
<1> QED  BY <1>1, <1>2, <1>3, <1>5, <1>6, <1>7 DEF Next

LEMMA InitMaps == Init => Map!Init
<1> SUFFICES ASSUME Init PROVE Map!Init
  OBVIOUS
<1>1. areas = WholeMemory /\ areas \in Seq(Area) /\ areas # <<>>
  BY WholeFree DEF Init, Tiling
<1>2. \A v \in Users : HeldIn(areas, v) = {}
  BY <1>1, WholeFree DEF HeldIn
<1>3. held = [v \in Users |-> {}]
  BY <1>1, <1>2, HeldIs
<1> QED  BY <1>1, <1>3 DEF Map!Init, Init, held

\* To its users the list of areas is what OffscreenMap says: they have
\* disjoint aligned memory, and are refused it only if no aligned stretch of
\* that size is free.
THEOREM MapImplemented == Spec => MapSpec
<1>1. IInv /\ [Next]_vars => [Map!Next]_(Map!vars)
  BY StepMaps
<1> QED  BY <1>1, InitMaps, Invariant, PTL DEF Spec, MapSpec, Map!Spec
=============================================================================
