-------------------------- MODULE ConfParserProofs --------------------------
(***************************************************************************)
(* Proofs about ConfParser: what the three loops leave, for a file of any  *)
(* length.                                                                 *)
(***************************************************************************)
EXTENDS ConfParser, NatSets, FiniteSetTheorems, SequenceTheorems, TLAPS

-----------------------------------------------------------------------------
(* The loop                                                                 *)

Turn(file, st, lines, f, n) == IF n = 0 THEN st ELSE parse_line(file, f[n - 1], lines[n])

(* The recursive definition of Loop has a solution, built one line at a     *)
(* time, so that Loop satisfies it.                                         *)
LEMMA LoopTurns ==
  ASSUME NEW file, NEW st, NEW lines, Len(lines) \in Nat
  PROVE  \A n \in 0 .. Len(lines) :
           Loop(file, st, lines)[n] = Turn(file, st, lines, Loop(file, st, lines), n)
<1> DEFINE Far == {n \in Nat : \E f : f = [k \in 0 .. n |-> Turn(file, st, lines, f, k)]}
<1>1. 0 \in Far
  <2> DEFINE f == [k \in 0 .. 0 |-> st]
  <2>1. f = [k \in 0 .. 0 |-> Turn(file, st, lines, f, k)]
    BY DEF Turn
  <2> QED
    BY <2>1
<1>2. ASSUME NEW n \in Nat, n \in Far PROVE n + 1 \in Far
  <2>1. PICK f : f = [k \in 0 .. n |-> Turn(file, st, lines, f, k)]
    BY <1>2
  <2> DEFINE g == [k \in 0 .. n + 1 |-> IF k = n + 1 THEN Turn(file, st, lines, f, k) ELSE f[k]]
  <2>2. ASSUME NEW k \in 0 .. n + 1 PROVE g[k] = Turn(file, st, lines, g, k)
    <3>1. CASE k = n + 1
      <4>1. (n + 1) - 1 = n /\ n + 1 # 0 /\ n \in 0 .. n + 1 /\ n # n + 1
        OBVIOUS
      <4>2. g[n] = f[n] /\ g[k] = Turn(file, st, lines, f, k)
        BY <3>1, <4>1
      <4> QED
        BY <3>1, <4>1, <4>2 DEF Turn
    <3>2. CASE k # n + 1
      <4>1. k \in 0 .. n /\ (k # 0 => k - 1 \in 0 .. n)
        BY <3>2
      <4>2. g[k] = f[k] /\ f[k] = Turn(file, st, lines, f, k) /\ (k # 0 => g[k - 1] = f[k - 1])
        BY <2>1, <3>2, <4>1
      <4> QED
        BY <4>2 DEF Turn
    <3> QED
      BY <3>1, <3>2
  <2>3. g = [k \in 0 .. n + 1 |-> Turn(file, st, lines, g, k)]
    BY <2>2
  <2>4. n + 1 \in Nat
    OBVIOUS
  <2> HIDE DEF g
  <2> QED
    BY <2>3, <2>4
<1>3. Len(lines) \in Far
  BY <1>1, <1>2, NatSet
<1>4. PICK f : f = [k \in 0 .. Len(lines) |-> Turn(file, st, lines, f, k)]
  BY <1>3
<1> DEFINE l == Loop(file, st, lines)
<1>5. l = [k \in 0 .. Len(lines) |-> Turn(file, st, lines, l, k)]
  BY <1>4, Zenon DEF Loop, Turn
<1> QED
  BY <1>5

(* The loop starts with st and takes the lines one after the other.         *)
LEMMA LoopLine ==
  ASSUME NEW file, NEW st, NEW lines, Len(lines) \in Nat
  PROVE  /\ Loop(file, st, lines)[0] = st
         /\ \A n \in Nat : n + 1 <= Len(lines) =>
              Loop(file, st, lines)[n + 1] = parse_line(file, Loop(file, st, lines)[n], lines[n + 1])
<1> DEFINE l == Loop(file, st, lines)
<1>1. \A n \in 0 .. Len(lines) : l[n] = Turn(file, st, lines, l, n)
  BY LoopTurns
<1> HIDE DEF l
<1>2. l[0] = st
  BY <1>1 DEF Turn
<1>3. ASSUME NEW n \in Nat, n + 1 <= Len(lines) PROVE l[n + 1] = parse_line(file, l[n], lines[n + 1])
  <2>1. n + 1 \in 0 .. Len(lines) /\ n + 1 # 0 /\ (n + 1) - 1 = n
    BY <1>3
  <2> QED
    BY <1>1, <2>1 DEF Turn
<1> QED
  BY <1>2, <1>3 DEF l

-----------------------------------------------------------------------------
(* The sections of a file                                                   *)

SectionAt(lines) == Positions(lines, "section")
Upto(lines, k) == {h \in SectionAt(lines) : h <= k}
Count(lines, k) == Cardinality(Upto(lines, k))

(* s is the last section begun in the first k lines.                        *)
Last(lines, k, s) == s \in SectionAt(lines) /\ s <= k /\ \A h \in SectionAt(lines) : h <= k => h <= s

(* Sections are lines, and there are finitely many.                         *)
LEMMA SectionLines ==
  ASSUME NEW lines, Len(lines) \in Nat
  PROVE  /\ \A s \in SectionAt(lines) : s \in 1 .. Len(lines) /\ s \in Nat /\ lines[s][1] = "section"
         /\ IsFiniteSet(SectionAt(lines))
         /\ \A k : IsFiniteSet(Upto(lines, k)) /\ Count(lines, k) \in Nat
<1>1. \A s \in SectionAt(lines) : s \in 1 .. Len(lines) /\ lines[s][1] = "section"
  BY DEF SectionAt, Positions
<1>2. IsFiniteSet(1 .. Len(lines))
  BY FS_Interval
<1>3. IsFiniteSet(SectionAt(lines))
  BY <1>1, <1>2, FS_Subset
<1>4. ASSUME NEW k PROVE IsFiniteSet(Upto(lines, k)) /\ Count(lines, k) \in Nat
  <2>1. Upto(lines, k) \subseteq SectionAt(lines)
    BY DEF Upto
  <2> QED
    BY <1>3, <2>1, FS_Subset, FS_CardinalityType DEF Count
<1> QED
  BY <1>1, <1>3, <1>4

(* One line more is one section more or none.                               *)
LEMMA CountStep ==
  ASSUME NEW lines, Len(lines) \in Nat, NEW k \in Nat
  PROVE  /\ Count(lines, 0) = 0
         /\ k + 1 \in SectionAt(lines) => Count(lines, k + 1) = Count(lines, k) + 1
         /\ k + 1 \notin SectionAt(lines) => Count(lines, k + 1) = Count(lines, k)
<1>1. \A s \in SectionAt(lines) : s \in Nat /\ s >= 1
  BY SectionLines
<1>2. Count(lines, 0) = 0
  <2>1. Upto(lines, 0) = {}
    BY <1>1 DEF Upto
  <2> QED
    BY <2>1, FS_EmptySet DEF Count
<1>3. ASSUME k + 1 \in SectionAt(lines) PROVE Count(lines, k + 1) = Count(lines, k) + 1
  <2>1. Upto(lines, k + 1) = Upto(lines, k) \cup {k + 1} /\ k + 1 \notin Upto(lines, k)
    BY <1>1, <1>3 DEF Upto
  <2>2. IsFiniteSet(Upto(lines, k))
    BY SectionLines
  <2> QED
    BY <2>1, <2>2, FS_AddElement DEF Count
<1>4. ASSUME k + 1 \notin SectionAt(lines) PROVE Count(lines, k + 1) = Count(lines, k)
  <2>1. Upto(lines, k + 1) = Upto(lines, k)
    BY <1>1, <1>4 DEF Upto
  <2> QED
    BY <2>1 DEF Count
<1> QED
  BY <1>2, <1>3, <1>4

(* There is a last section as soon as there is one.                         *)
LEMMA LastSection ==
  ASSUME NEW lines, Len(lines) \in Nat
  PROVE  \A k \in Nat : (\A h \in SectionAt(lines) : ~(h <= k)) \/ \E s : Last(lines, k, s)
<1> DEFINE Some == {k \in Nat : (\A h \in SectionAt(lines) : ~(h <= k)) \/ \E s : Last(lines, k, s)}
<1>1. \A s \in SectionAt(lines) : s \in Nat /\ s >= 1
  BY SectionLines
<1>2. 0 \in Some
  BY <1>1
<1>3. ASSUME NEW k \in Nat, k \in Some PROVE k + 1 \in Some
  <2>1. CASE k + 1 \in SectionAt(lines)
    BY <1>1, <2>1 DEF Last
  <2>2. CASE k + 1 \notin SectionAt(lines)
    <3>1. \A h \in SectionAt(lines) : h <= k + 1 <=> h <= k
      BY <1>1, <2>2
    <3>2. CASE \A h \in SectionAt(lines) : ~(h <= k)
      BY <3>1, <3>2
    <3>3. CASE \E s : Last(lines, k, s)
      <4>1. PICK s : Last(lines, k, s)
        BY <3>3
      <4>2. Last(lines, k + 1, s)
        BY <3>1, <4>1 DEF Last
      <4> QED
        BY <4>2
    <3> QED
      BY <1>3, <3>2, <3>3
  <2> QED
    BY <2>1, <2>2
<1>4. Nat \subseteq Some
  <2> HIDE DEF Some
  <2> QED
    BY <1>2, <1>3, NatSet
<1> QED
  BY <1>4

(* The last section after one line more.                                    *)
LEMMA LastStep ==
  ASSUME NEW lines, Len(lines) \in Nat, NEW k \in Nat
  PROVE  /\ k + 1 \in SectionAt(lines) => \A s : Last(lines, k + 1, s) <=> s = k + 1
         /\ k + 1 \notin SectionAt(lines) => \A s : Last(lines, k + 1, s) <=> Last(lines, k, s)
<1>1. \A s \in SectionAt(lines) : s \in Nat /\ s >= 1
  BY SectionLines
<1>2. ASSUME k + 1 \in SectionAt(lines), NEW s PROVE Last(lines, k + 1, s) <=> s = k + 1
  BY <1>1, <1>2 DEF Last
<1>3. ASSUME k + 1 \notin SectionAt(lines), NEW s PROVE Last(lines, k + 1, s) <=> Last(lines, k, s)
  <2>1. \A h \in SectionAt(lines) : h <= k + 1 <=> h <= k
    BY <1>1, <1>3
  <2> QED
    BY <2>1 DEF Last
<1> QED
  BY <1>2, <1>3

(* Sections are numbered in the order of the file.                          *)
LEMMA RankOrder ==
  ASSUME NEW lines, Len(lines) \in Nat
  PROVE  /\ \A s \in SectionAt(lines) : Rank(lines, s) = Count(lines, s) /\ Rank(lines, s) \in Nat
                                         /\ Rank(lines, s) >= 1
         /\ \A s, t \in SectionAt(lines) : s < t => Rank(lines, s) < Rank(lines, t)
         /\ \A k, s : Last(lines, k, s) /\ k \in Nat => Rank(lines, s) = Count(lines, k)
<1>1. \A s \in SectionAt(lines) : s \in Nat /\ s >= 1
  BY SectionLines
<1>2. \A s : Rank(lines, s) = Count(lines, s)
  BY DEF Rank, Count, Upto, SectionAt
<1>3. \A k : Count(lines, k) \in Nat /\ IsFiniteSet(Upto(lines, k))
  BY SectionLines
<1>4. ASSUME NEW s \in SectionAt(lines) PROVE Count(lines, s) >= 1
  <2>1. s \in Upto(lines, s)
    BY <1>1 DEF Upto
  <2>2. Upto(lines, s) # {}
    BY <2>1
  <2>3. Count(lines, s) # 0
    BY <1>3, <2>2, FS_EmptySet DEF Count
  <2> QED
    BY <1>3, <2>3
<1>5. ASSUME NEW s \in SectionAt(lines), NEW t \in SectionAt(lines), s < t
      PROVE  Count(lines, s) < Count(lines, t)
  <2>1. Upto(lines, s) \subseteq Upto(lines, t) /\ t \in Upto(lines, t) /\ t \notin Upto(lines, s)
    BY <1>1, <1>5 DEF Upto
  <2>2. Upto(lines, s) # Upto(lines, t)
    BY <2>1
  <2>3. /\ Cardinality(Upto(lines, s)) <= Cardinality(Upto(lines, t))
        /\ Cardinality(Upto(lines, s)) = Cardinality(Upto(lines, t)) => Upto(lines, s) = Upto(lines, t)
    BY <1>3, <2>1, FS_Subset
  <2> QED
    BY <1>3, <2>2, <2>3 DEF Count
<1>6. ASSUME NEW k \in Nat, NEW s, Last(lines, k, s) PROVE Count(lines, s) = Count(lines, k)
  <2>1. Upto(lines, s) = Upto(lines, k)
    BY <1>1, <1>6 DEF Last, Upto
  <2> QED
    BY <2>1 DEF Count
<1> QED
  BY <1>2, <1>3, <1>4, <1>5, <1>6

(* Every number up to the number of sections is that of a section.          *)
LEMMA RankOnto ==
  ASSUME NEW lines, Len(lines) \in Nat
  PROVE  \A n \in 1 .. Cardinality(SectionAt(lines)) :
           \E s \in SectionAt(lines) : Rank(lines, s) = n
<1> DEFINE Reached == {k \in Nat : \A n \in 1 .. Count(lines, k) :
                         \E s \in SectionAt(lines) : Rank(lines, s) = n}
<1>1. \A k : Count(lines, k) \in Nat
  BY SectionLines
<1>2. 0 \in Reached
  BY CountStep
<1>3. ASSUME NEW k \in Nat, k \in Reached PROVE k + 1 \in Reached
  <2>1. CASE k + 1 \in SectionAt(lines)
    <3>1. Count(lines, k + 1) = Count(lines, k) + 1 /\ Rank(lines, k + 1) = Count(lines, k + 1)
      BY <2>1, CountStep, RankOrder
    <3>2. \A n \in 1 .. Count(lines, k + 1) : n \in 1 .. Count(lines, k) \/ n = Count(lines, k + 1)
      BY <1>1, <3>1
    <3> QED
      BY <1>3, <2>1, <3>1, <3>2
  <2>2. CASE k + 1 \notin SectionAt(lines)
    BY <1>3, <2>2, CountStep
  <2> QED
    BY <2>1, <2>2
<1>4. Nat \subseteq Reached
  <2> HIDE DEF Reached
  <2> QED
    BY <1>2, <1>3, NatSet
<1>5. Upto(lines, Len(lines)) = SectionAt(lines)
  BY SectionLines DEF Upto
<1> QED
  BY <1>4, <1>5 DEF Count

(* The n-th section has the number n.                                       *)
LEMMA SectionRank ==
  ASSUME NEW lines, Len(lines) \in Nat, NEW s \in SectionAt(lines)
  PROVE  /\ Section(lines, Rank(lines, s)) = s
         /\ Rank(lines, s) \in 1 .. Cardinality(SectionAt(lines))
<1>1. \A t \in SectionAt(lines) : t \in Nat
  BY SectionLines
<1>2. ASSUME NEW t \in SectionAt(lines), Rank(lines, t) = Rank(lines, s) PROVE t = s
  <2>1. ~(s < t) /\ ~(t < s)
    BY <1>2, RankOrder
  <2> QED
    BY <1>1, <2>1
<1>3. Section(lines, Rank(lines, s)) = s
  BY <1>2 DEF Section, SectionAt
<1>4. Rank(lines, s) \in 1 .. Cardinality(SectionAt(lines))
  <2>1. Rank(lines, s) = Count(lines, s) /\ Rank(lines, s) \in Nat /\ Rank(lines, s) >= 1
    BY RankOrder
  <2>2. Upto(lines, s) \subseteq SectionAt(lines) /\ IsFiniteSet(SectionAt(lines))
    BY SectionLines DEF Upto
  <2>3. Cardinality(Upto(lines, s)) <= Cardinality(SectionAt(lines))
    BY <2>2, FS_Subset
  <2>4. Cardinality(SectionAt(lines)) \in Nat
    BY <2>2, FS_CardinalityType
  <2> QED
    BY <2>1, <2>3, <2>4 DEF Count
<1> QED
  BY <1>3, <1>4

-----------------------------------------------------------------------------
(* The keys of a section                                                    *)

Place(lines, s, key) == The(InSection(lines, s, key))

(* The line of a key that stands once in its section.                       *)
LEMMA PlaceOfKey ==
  ASSUME NEW lines, Len(lines) \in Nat, NEW s \in SectionAt(lines), NEW key,
         Single(InSection(lines, s, key))
  PROVE  /\ Place(lines, s, key) \in 1 .. Len(lines) /\ lines[Place(lines, s, key)][1] = key
         /\ s < Place(lines, s, key)
         /\ \A h \in SectionAt(lines) : h > s => h > Place(lines, s, key)
         /\ \A i \in InSection(lines, s, key) : i = Place(lines, s, key)
<1>1. PICK i \in InSection(lines, s, key) : InSection(lines, s, key) = {i}
  BY DEF Single
<1>2. Place(lines, s, key) = i
  BY <1>1 DEF Place, The
<1>3. /\ i \in 1 .. Len(lines) /\ lines[i][1] = key /\ i > s
      /\ \A h \in SectionAt(lines) : h > s => h > i
  BY <1>1 DEF InSection, Positions, SectionAt
<1>4. s \in Nat
  BY SectionLines
<1> QED
  BY <1>1, <1>2, <1>3, <1>4

(* A line with the key, read when s is the last section, is that line.      *)
LEMMA PlaceReached ==
  ASSUME NEW lines, Len(lines) \in Nat, NEW k \in Nat, k + 1 <= Len(lines),
         NEW s, Last(lines, k, s), NEW key, key # "section", lines[k + 1][1] = key,
         Single(InSection(lines, s, key))
  PROVE  Place(lines, s, key) = k + 1
<1>1. s \in SectionAt(lines) /\ s <= k /\ \A h \in SectionAt(lines) : h <= k => h <= s
  BY DEF Last
<1>2. \A h \in SectionAt(lines) : h \in Nat /\ lines[h][1] = "section"
  BY SectionLines
<1>3. k + 1 \in 1 .. Len(lines) /\ k + 1 > s
  BY <1>1, <1>2
<1>4. \A h \in SectionAt(lines) : h > s => h > k + 1
  BY <1>1, <1>2
<1>5. k + 1 \in InSection(lines, s, key)
  BY <1>3, <1>4 DEF InSection, Positions, SectionAt
<1> QED
  BY <1>1, <1>5, PlaceOfKey

(* What was placed in the first k lines lies in the last section or before. *)
LEMMA PlacedBefore ==
  ASSUME NEW lines, Len(lines) \in Nat, NEW k \in Nat, NEW s, Last(lines, k, s), NEW key,
         NEW t \in SectionAt(lines), Single(InSection(lines, t, key)), Place(lines, t, key) <= k
  PROVE  t = s \/ (t < s /\ Place(lines, t, key) < s)
<1>1. s \in SectionAt(lines) /\ s <= k /\ \A h \in SectionAt(lines) : h <= k => h <= s
  BY DEF Last
<1>2. \A h \in SectionAt(lines) : h \in Nat
  BY SectionLines
<1>3. /\ Place(lines, t, key) \in Nat /\ t < Place(lines, t, key)
      /\ \A h \in SectionAt(lines) : h > t => h > Place(lines, t, key)
  BY PlaceOfKey
<1>4. t <= s
  BY <1>1, <1>2, <1>3
<1> QED
  BY <1>1, <1>2, <1>3, <1>4

(* A file of the documented form, key by key.                               *)
LEMMA FormOfSchema ==
  ASSUME NEW lines, WellFormed(lines, SchemaKeys)
  PROVE  /\ \A s \in SectionAt(lines) :
              /\ Single(InSection(lines, s, "pattern")) /\ Single(InSection(lines, s, "retentions"))
              /\ Place(lines, s, "pattern") < Place(lines, s, "retentions")
         /\ \A key \in {"pattern", "retentions"} : \A i \in Positions(lines, key) :
              \E s \in SectionAt(lines) : s < i
<1>1. /\ Len(SchemaKeys) = 2 /\ SchemaKeys[1] = "pattern" /\ SchemaKeys[2] = "retentions"
      /\ 1 \in 1 .. 2 /\ 2 \in 1 .. 2 /\ 1 \in 1 .. 2 - 1 /\ 1 + 1 = 2
  BY DEF SchemaKeys
<1> HIDE DEF SchemaKeys
<1>2. ASSUME NEW s \in SectionAt(lines)
      PROVE  /\ Single(InSection(lines, s, "pattern")) /\ Single(InSection(lines, s, "retentions"))
             /\ Place(lines, s, "pattern") < Place(lines, s, "retentions")
  BY <1>1 DEF WellFormed, SectionAt, Place
<1>3. \A key \in {"pattern", "retentions"} : \A i \in Positions(lines, key) :
        \E s \in SectionAt(lines) : s < i
  BY <1>1 DEF WellFormed, SectionAt
<1> QED
  BY <1>2, <1>3

(* The same for the three keys of an aggregation file.                      *)
LEMMA FormOfAggregation ==
  ASSUME NEW lines, WellFormed(lines, AggregationKeys)
  PROVE  /\ \A s \in SectionAt(lines) :
              /\ Single(InSection(lines, s, "pattern")) /\ Single(InSection(lines, s, "xFilesFactor"))
              /\ Single(InSection(lines, s, "aggregationMethod"))
              /\ Place(lines, s, "pattern") < Place(lines, s, "xFilesFactor")
              /\ Place(lines, s, "xFilesFactor") < Place(lines, s, "aggregationMethod")
         /\ \A key \in {"pattern", "xFilesFactor", "aggregationMethod"} :
              \A i \in Positions(lines, key) : \E s \in SectionAt(lines) : s < i
<1>1. /\ Len(AggregationKeys) = 3 /\ AggregationKeys[1] = "pattern"
      /\ AggregationKeys[2] = "xFilesFactor" /\ AggregationKeys[3] = "aggregationMethod"
      /\ 1 \in 1 .. 3 /\ 2 \in 1 .. 3 /\ 3 \in 1 .. 3
      /\ 1 \in 1 .. 3 - 1 /\ 2 \in 1 .. 3 - 1 /\ 1 + 1 = 2 /\ 2 + 1 = 3
  BY DEF AggregationKeys
<1> HIDE DEF AggregationKeys
<1>2. ASSUME NEW s \in SectionAt(lines)
      PROVE  /\ Single(InSection(lines, s, "pattern")) /\ Single(InSection(lines, s, "xFilesFactor"))
             /\ Single(InSection(lines, s, "aggregationMethod"))
             /\ Place(lines, s, "pattern") < Place(lines, s, "xFilesFactor")
             /\ Place(lines, s, "xFilesFactor") < Place(lines, s, "aggregationMethod")
  BY <1>1 DEF WellFormed, SectionAt, Place
<1>3. \A key \in {"pattern", "xFilesFactor", "aggregationMethod"} :
        \A i \in Positions(lines, key) : \E s \in SectionAt(lines) : s < i
  BY <1>1 DEF WellFormed, SectionAt
<1> QED
  BY <1>2, <1>3

(* A line of one of the keys has a section before it.                       *)
LEMMA KeyInSection ==
  ASSUME NEW lines, Len(lines) \in Nat, NEW k \in Nat, k + 1 <= Len(lines), NEW key,
         lines[k + 1][1] = key,
         \A i \in Positions(lines, key) : \E s \in SectionAt(lines) : s < i
  PROVE  \E s : Last(lines, k, s)
<1>1. k + 1 \in Positions(lines, key)
  BY DEF Positions
<1>2. PICK h \in SectionAt(lines) : h < k + 1
  BY <1>1
<1>3. h <= k
  BY <1>2, SectionLines
<1> QED
  BY <1>2, <1>3, LastSection

-----------------------------------------------------------------------------
(* Lists of rules                                                           *)

IsList(s) == \E S : s \in Seq(S)

(* A rule is appended.                                                      *)
LEMMA ListAppend ==
  ASSUME NEW s, IsList(s), NEW x
  PROVE  /\ IsList(Append(s, x)) /\ Len(s) \in Nat /\ Len(Append(s, x)) = Len(s) + 1
         /\ Append(s, x)[Len(s) + 1] = x /\ \A i \in 1 .. Len(s) : Append(s, x)[i] = s[i]
<1>1. PICK S : s \in Seq(S)
  BY DEF IsList
<1> DEFINE T == S \cup {x}
<1>2. s \in Seq(T) /\ x \in T
  BY <1>1
<1> HIDE DEF T
<1>3. Append(s, x) \in Seq(T) /\ Len(s) \in Nat /\ Len(Append(s, x)) = Len(s) + 1
  BY <1>2, AppendProperties
<1>4. Append(s, x)[Len(s) + 1] = x /\ \A i \in 1 .. Len(s) : Append(s, x)[i] = s[i]
  BY <1>2, AppendProperties
<1> QED
  BY <1>3, <1>4 DEF IsList

(* A rule is replaced.                                                      *)
LEMMA ListUpdate ==
  ASSUME NEW s, IsList(s), NEW i \in 1 .. Len(s), NEW x
  PROVE  /\ IsList([s EXCEPT ![i] = x]) /\ Len([s EXCEPT ![i] = x]) = Len(s)
         /\ [s EXCEPT ![i] = x][i] = x
         /\ \A j \in 1 .. Len(s) : j # i => [s EXCEPT ![i] = x][j] = s[j]
<1>1. PICK S : s \in Seq(S)
  BY DEF IsList
<1> DEFINE T == S \cup {x}
<1>2. s \in Seq(T) /\ x \in T
  BY <1>1
<1> HIDE DEF T
<1>3. [s EXCEPT ![i] = x] \in Seq(T)
  BY <1>2
<1>4. /\ Len([s EXCEPT ![i] = x]) = Len(s) /\ [s EXCEPT ![i] = x][i] = x
      /\ \A j \in 1 .. Len(s) : j # i => [s EXCEPT ![i] = x][j] = s[j]
  BY <1>2
<1> QED
  BY <1>3, <1>4 DEF IsList

(* Two lists with the same elements are equal.                              *)
LEMMA ListEqual ==
  ASSUME NEW s, IsList(s), NEW n \in Nat, NEW t, t = [i \in 1 .. n |-> t[i]],
         Len(s) = n, \A i \in 1 .. n : s[i] = t[i]
  PROVE  s = t
<1>1. PICK S : s \in Seq(S)
  BY DEF IsList
<1>2. s = [i \in 1 .. n |-> s[i]]
  BY <1>1
<1> QED
  BY <1>2

-----------------------------------------------------------------------------
(* storage-schemas.conf                                                     *)

Rule(p, r) == [pattern |-> p, retentions |-> r]

(* The form of what the loop keeps: a rule that is begun is the last one.   *)
SchemaState(st) ==
  /\ st = [found |-> st.found, rules |-> st.rules, status |-> st.status]
  /\ st.found \in BOOLEAN /\ st.status \in {"ok", "segv"}
  /\ IsList(st.rules) /\ (st.found => Len(st.rules) >= 1)
  /\ \A i \in 1 .. Len(st.rules) : st.rules[i] = Rule(st.rules[i].pattern, st.rules[i].retentions)

(* What a line does to it.                                                  *)
Begun(st, p) == [found |-> TRUE, rules |-> Append(st.rules, Rule(p, <<>>)), status |-> "ok"]
Completed(st, r) ==
  [found |-> FALSE, status |-> "ok",
   rules |-> [st.rules EXCEPT ![Len(st.rules)] =
                Rule(st.rules[Len(st.rules)].pattern, parse_retention_list_str(r))]]
Crashed(st) == [found |-> st.found, rules |-> st.rules, status |-> "segv"]

(* The cases of the loop's body.                                            *)
LEMMA SchemaLine ==
  ASSUME NEW st, SchemaState(st), NEW line, NEW t, t = parse_line("schema", st, line)
  PROVE  IF st.status = "ok" /\ ~st.found /\ line[1] = "pattern" THEN t = Begun(st, line[2])
         ELSE IF st.status = "ok" /\ st.found /\ line[1] = "retentions"
           THEN IF HasNullItem(line[2]) THEN t = Crashed(st) ELSE t = Completed(st, line[2])
         ELSE t = st
<1>1. t = schema_line(st, line)
  BY DEF parse_line
<1>2. CASE st.status = "ok" /\ ~st.found /\ line[1] = "pattern"
  <2>1. t = [st EXCEPT !.found = TRUE,
                       !.rules = Append(st.rules, [pattern |-> line[2], retentions |-> <<>>])]
    BY <1>1, <1>2 DEF schema_line, SchemaState
  <2> QED
    BY <1>2, <2>1 DEF SchemaState, Begun, Rule
<1>3. CASE st.status = "ok" /\ st.found /\ line[1] = "retentions"
  <2> DEFINE n == Len(st.rules)
             v == parse_retention_list_str(line[2])
  <2>1. CASE HasNullItem(line[2])
    <3>1. t = [st EXCEPT !.status = "segv"]
      BY <1>1, <1>3, <2>1 DEF schema_line
    <3> QED
      BY <1>3, <2>1, <3>1 DEF SchemaState, Crashed
  <2>2. CASE ~HasNullItem(line[2])
    <3>1. t = [st EXCEPT !.found = FALSE, !.rules[n].retentions = v]
      BY <1>1, <1>3, <2>2 DEF schema_line
    <3>2. n \in 1 .. Len(st.rules)
      BY <1>3, ListAppend DEF SchemaState
    <3>3. st.rules[n] = Rule(st.rules[n].pattern, st.rules[n].retentions)
      BY <3>2 DEF SchemaState
    <3> HIDE DEF n, v
    <3>4. [st.rules[n] EXCEPT !.retentions = v] = Rule(st.rules[n].pattern, v)
      BY <3>3 DEF Rule
    <3>5. t = [found |-> FALSE, status |-> "ok",
               rules |-> [st.rules EXCEPT ![n] = [st.rules[n] EXCEPT !.retentions = v]]]
      BY <1>3, <3>1 DEF SchemaState
    <3> QED
      BY <1>3, <2>2, <3>4, <3>5 DEF Completed, n, v
  <2> QED
    BY <1>3, <2>1, <2>2
<1>4. CASE ~(\/ st.status = "ok" /\ ~st.found /\ line[1] = "pattern"
             \/ st.status = "ok" /\ st.found /\ line[1] = "retentions")
  BY <1>1, <1>4 DEF schema_line
<1> QED
  BY <1>2, <1>3, <1>4

(* The form is kept.                                                        *)
LEMMA SchemaStateKept ==
  ASSUME NEW st, SchemaState(st), NEW line
  PROVE  SchemaState(parse_line("schema", st, line))
<1> DEFINE t == parse_line("schema", st, line)
<1>1. IF st.status = "ok" /\ ~st.found /\ line[1] = "pattern" THEN t = Begun(st, line[2])
      ELSE IF st.status = "ok" /\ st.found /\ line[1] = "retentions"
        THEN IF HasNullItem(line[2]) THEN t = Crashed(st) ELSE t = Completed(st, line[2])
      ELSE t = st
  BY SchemaLine
<1> HIDE DEF t
<1>2. SchemaState(Begun(st, line[2]))
  <2> DEFINE r == Append(st.rules, Rule(line[2], <<>>))
  <2>1. /\ IsList(r) /\ Len(st.rules) \in Nat /\ Len(r) = Len(st.rules) + 1
        /\ r[Len(st.rules) + 1] = Rule(line[2], <<>>)
        /\ \A i \in 1 .. Len(st.rules) : r[i] = st.rules[i]
    BY ListAppend DEF SchemaState
  <2>2. Begun(st, line[2]) = [found |-> TRUE, rules |-> r, status |-> "ok"]
    BY DEF Begun
  <2> HIDE DEF r
  <2>3. ASSUME NEW i \in 1 .. Len(r) PROVE r[i] = Rule(r[i].pattern, r[i].retentions)
    <3>1. CASE i = Len(st.rules) + 1
      BY <2>1, <3>1 DEF Rule
    <3>2. CASE i \in 1 .. Len(st.rules)
      BY <2>1, <3>2 DEF SchemaState
    <3> QED
      BY <2>1, <3>1, <3>2
  <2> QED
    BY <2>1, <2>2, <2>3 DEF SchemaState
<1>3. ASSUME st.found PROVE SchemaState(Completed(st, line[2]))
  <2> DEFINE n == Len(st.rules)
             x == Rule(st.rules[n].pattern, parse_retention_list_str(line[2]))
             r == [st.rules EXCEPT ![n] = x]
  <2>1. n \in 1 .. Len(st.rules)
    BY <1>3, ListAppend DEF SchemaState
  <2>2. /\ IsList(r) /\ Len(r) = n /\ r[n] = x /\ \A j \in 1 .. n : j # n => r[j] = st.rules[j]
    BY <2>1, ListUpdate DEF SchemaState
  <2>3. Completed(st, line[2]) = [found |-> FALSE, status |-> "ok", rules |-> r]
    BY DEF Completed
  <2>4. x = Rule(x.pattern, x.retentions)
    BY DEF Rule
  <2> HIDE DEF r, x
  <2>5. ASSUME NEW i \in 1 .. Len(r) PROVE r[i] = Rule(r[i].pattern, r[i].retentions)
    <3>1. CASE i = n
      BY <2>2, <2>4, <3>1
    <3>2. CASE i # n
      BY <2>2, <3>2 DEF SchemaState
    <3> QED
      BY <3>1, <3>2
  <2> QED
    BY <2>2, <2>3, <2>5 DEF SchemaState
<1>4. SchemaState(Crashed(st))
  BY DEF SchemaState, Crashed
<1>5. SchemaState(t)
  BY <1>1, <1>2, <1>3, <1>4
<1> QED
  BY <1>5 DEF t

(* It holds after any number of lines.                                      *)
LEMMA SchemaStates ==
  ASSUME NEW lines, Len(lines) \in Nat
  PROVE  \A k \in Nat : k <= Len(lines) => SchemaState(Loop("schema", NoSchema, lines)[k])
<1> DEFINE l == Loop("schema", NoSchema, lines)
           Good == {k \in Nat : k <= Len(lines) => SchemaState(l[k])}
<1>1. 0 \in Good
  <2>1. IsList(<<>>)
    BY DEF IsList
  <2>2. SchemaState(NoSchema)
    BY <2>1 DEF SchemaState, NoSchema
  <2> QED
    BY <2>2, LoopLine
<1>2. ASSUME NEW k \in Nat, k \in Good PROVE k + 1 \in Good
  <2> SUFFICES ASSUME k + 1 <= Len(lines) PROVE SchemaState(l[k + 1])
    OBVIOUS
  <2>1. SchemaState(l[k])
    BY <1>2
  <2>2. l[k + 1] = parse_line("schema", l[k], lines[k + 1])
    BY LoopLine
  <2> QED
    BY <2>1, <2>2, SchemaStateKept
<1>3. Nat \subseteq Good
  <2> HIDE DEF Good
  <2> QED
    BY <1>1, <1>2, NatSet
<1> QED
  BY <1>3

PatternAt(lines, s)    == Place(lines, s, "pattern")
RetentionsAt(lines, s) == Place(lines, s, "retentions")
SchemaOf(lines, s) ==
  Rule(lines[PatternAt(lines, s)][2], parse_retention_list_str(lines[RetentionsAt(lines, s)][2]))

(* What the loop has after the first k lines: a rule for each section whose *)
(* pattern was read, complete where its retentions were.                    *)
SchemaAfter(lines, k, st) ==
  st.status = "ok" =>
    /\ (\A h \in SectionAt(lines) : ~(h <= k)) => Len(st.rules) = 0 /\ ~st.found
    /\ \A s : Last(lines, k, s) =>
         /\ Len(st.rules) = IF PatternAt(lines, s) <= k THEN Count(lines, k) ELSE Count(lines, k) - 1
         /\ st.found <=> PatternAt(lines, s) <= k /\ ~(RetentionsAt(lines, s) <= k)
         /\ st.found => st.rules[Rank(lines, s)] = Rule(lines[PatternAt(lines, s)][2], <<>>)
    /\ \A t \in SectionAt(lines) :
         RetentionsAt(lines, t) <= k => st.rules[Rank(lines, t)] = SchemaOf(lines, t)

(* Where the keys of a section stand.                                       *)
LEMMA SchemaPlaces ==
  ASSUME NEW lines, Len(lines) \in Nat, WellFormed(lines, SchemaKeys), NEW s \in SectionAt(lines)
  PROVE  /\ PatternAt(lines, s) \in Nat /\ RetentionsAt(lines, s) \in Nat /\ s \in Nat
         /\ s < PatternAt(lines, s) /\ PatternAt(lines, s) < RetentionsAt(lines, s)
         /\ RetentionsAt(lines, s) <= Len(lines)
         /\ lines[PatternAt(lines, s)][1] = "pattern"
         /\ lines[RetentionsAt(lines, s)][1] = "retentions"
         /\ \A h \in SectionAt(lines) : h > s => h > RetentionsAt(lines, s)
         /\ Single(InSection(lines, s, "pattern")) /\ Single(InSection(lines, s, "retentions"))
<1>1. /\ Single(InSection(lines, s, "pattern")) /\ Single(InSection(lines, s, "retentions"))
      /\ Place(lines, s, "pattern") < Place(lines, s, "retentions")
  BY FormOfSchema
<1>2. /\ Place(lines, s, "pattern") \in 1 .. Len(lines)
      /\ lines[Place(lines, s, "pattern")][1] = "pattern" /\ s < Place(lines, s, "pattern")
  BY <1>1, PlaceOfKey
<1>3. /\ Place(lines, s, "retentions") \in 1 .. Len(lines)
      /\ lines[Place(lines, s, "retentions")][1] = "retentions"
      /\ \A h \in SectionAt(lines) : h > s => h > Place(lines, s, "retentions")
  BY <1>1, PlaceOfKey
<1> QED
  BY <1>1, <1>2, <1>3, SectionLines DEF PatternAt, RetentionsAt

(* A section that was completed before is an earlier rule.                  *)
LEMMA SchemaEarlier ==
  ASSUME NEW lines, Len(lines) \in Nat, WellFormed(lines, SchemaKeys), NEW k \in Nat,
         NEW s, Last(lines, k, s), NEW t \in SectionAt(lines), RetentionsAt(lines, t) <= k
  PROVE  /\ t = s \/ t < s
         /\ t # s => Rank(lines, t) < Rank(lines, s)
         /\ Rank(lines, t) \in Nat /\ Rank(lines, t) >= 1 /\ Rank(lines, s) \in Nat
         /\ Rank(lines, s) = Count(lines, k)
<1>1. t = s \/ t < s
  BY SchemaPlaces, PlacedBefore DEF RetentionsAt
<1>2. s \in SectionAt(lines)
  BY DEF Last
<1> QED
  BY <1>1, <1>2, RankOrder

(* A [section] line: the section before it is complete.                     *)
LEMMA SchemaSection ==
  ASSUME NEW lines, Len(lines) \in Nat, WellFormed(lines, SchemaKeys), NEW k \in Nat,
         NEW st, SchemaAfter(lines, k, st), k + 1 \in SectionAt(lines)
  PROVE  SchemaAfter(lines, k + 1, st)
<1> SUFFICES ASSUME st.status = "ok" PROVE SchemaAfter(lines, k + 1, st)
  BY DEF SchemaAfter
<1>1. ~(\A h \in SectionAt(lines) : ~(h <= k + 1))
  OBVIOUS
<1>2. \A s : Last(lines, k + 1, s) <=> s = k + 1
  BY LastStep
<1>3. Count(lines, k + 1) = Count(lines, k) + 1 /\ Count(lines, k) \in Nat
  BY CountStep, SectionLines
<1>4. k + 1 < PatternAt(lines, k + 1) /\ PatternAt(lines, k + 1) \in Nat
  BY SchemaPlaces
<1>5. Len(st.rules) = Count(lines, k) /\ ~st.found
  <2>1. CASE \A h \in SectionAt(lines) : ~(h <= k)
    <3>1. Upto(lines, k) = {}
      BY <2>1 DEF Upto
    <3>2. Count(lines, k) = 0
      BY <3>1, FS_EmptySet DEF Count
    <3> QED
      BY <2>1, <3>2 DEF SchemaAfter
  <2>2. CASE \E s : Last(lines, k, s)
    <3>1. PICK s : Last(lines, k, s)
      BY <2>2
    <3>2. s \in SectionAt(lines) /\ s <= k
      BY <3>1 DEF Last
    <3>3. /\ PatternAt(lines, s) < RetentionsAt(lines, s) /\ s \in Nat
          /\ PatternAt(lines, s) \in Nat /\ RetentionsAt(lines, s) \in Nat
          /\ \A h \in SectionAt(lines) : h > s => h > RetentionsAt(lines, s)
      BY <3>2, SchemaPlaces
    <3>4. k + 1 > RetentionsAt(lines, s)
      BY <3>2, <3>3
    <3>5. PatternAt(lines, s) <= k /\ RetentionsAt(lines, s) <= k
      BY <3>3, <3>4
    <3> QED
      BY <3>1, <3>5 DEF SchemaAfter
  <2> QED
    BY <2>1, <2>2, LastSection
<1>6. ASSUME NEW t \in SectionAt(lines), RetentionsAt(lines, t) <= k + 1
      PROVE  st.rules[Rank(lines, t)] = SchemaOf(lines, t)
  <2>1. RetentionsAt(lines, t) # k + 1
    <3>1. lines[k + 1][1] = "section" /\ lines[RetentionsAt(lines, t)][1] = "retentions"
      BY SectionLines, SchemaPlaces
    <3> QED
      BY <3>1
  <2>2. RetentionsAt(lines, t) <= k
    BY <1>6, <2>1, SchemaPlaces
  <2> QED
    BY <2>2 DEF SchemaAfter
<1>7. ~(PatternAt(lines, k + 1) <= k + 1) /\ Len(st.rules) = Count(lines, k + 1) - 1
  BY <1>3, <1>4, <1>5
<1> QED
  BY <1>1, <1>2, <1>5, <1>6, <1>7 DEF SchemaAfter

(* A line that is none of the three kinds.                                  *)
LEMMA SchemaOther ==
  ASSUME NEW lines, Len(lines) \in Nat, WellFormed(lines, SchemaKeys), NEW k \in Nat,
         k + 1 <= Len(lines), NEW st, SchemaAfter(lines, k, st),
         lines[k + 1][1] \notin {"section", "pattern", "retentions"}
  PROVE  SchemaAfter(lines, k + 1, st)
<1> SUFFICES ASSUME st.status = "ok" PROVE SchemaAfter(lines, k + 1, st)
  BY DEF SchemaAfter
<1>1. k + 1 \notin SectionAt(lines)
  BY SectionLines
<1>2. \A s : Last(lines, k + 1, s) <=> Last(lines, k, s)
  BY <1>1, LastStep
<1>3. Count(lines, k + 1) = Count(lines, k)
  BY <1>1, CountStep
<1>4. \A s \in SectionAt(lines) :
        /\ s <= k + 1 <=> s <= k
        /\ PatternAt(lines, s) <= k + 1 <=> PatternAt(lines, s) <= k
        /\ RetentionsAt(lines, s) <= k + 1 <=> RetentionsAt(lines, s) <= k
  <2> SUFFICES ASSUME NEW s \in SectionAt(lines)
               PROVE  /\ s <= k + 1 <=> s <= k
                      /\ PatternAt(lines, s) <= k + 1 <=> PatternAt(lines, s) <= k
                      /\ RetentionsAt(lines, s) <= k + 1 <=> RetentionsAt(lines, s) <= k
    OBVIOUS
  <2>1. /\ PatternAt(lines, s) \in Nat /\ RetentionsAt(lines, s) \in Nat /\ s \in Nat
        /\ lines[PatternAt(lines, s)][1] = "pattern"
        /\ lines[RetentionsAt(lines, s)][1] = "retentions"
    BY SchemaPlaces
  <2>2. s # k + 1 /\ PatternAt(lines, s) # k + 1 /\ RetentionsAt(lines, s) # k + 1
    BY <1>1, <2>1
  <2> QED
    BY <2>1, <2>2
<1>5. \A s : Last(lines, k, s) => s \in SectionAt(lines)
  BY DEF Last
<1> QED
  BY <1>2, <1>3, <1>4, <1>5 DEF SchemaAfter

(* A pattern begins the rule of its section.                                *)
LEMMA SchemaPattern ==
  ASSUME NEW lines, Len(lines) \in Nat, WellFormed(lines, SchemaKeys), NEW k \in Nat,
         k + 1 <= Len(lines), NEW st, SchemaState(st), SchemaAfter(lines, k, st), st.status = "ok",
         lines[k + 1][1] = "pattern"
  PROVE  ~st.found /\ SchemaAfter(lines, k + 1, Begun(st, lines[k + 1][2]))
<1>1. \A i \in Positions(lines, "pattern") : \E s \in SectionAt(lines) : s < i
  BY FormOfSchema
<1>2. PICK s : Last(lines, k, s)
  BY <1>1, KeyInSection
<1>3. s \in SectionAt(lines) /\ s <= k
  BY <1>2 DEF Last
<1>4. /\ PatternAt(lines, s) < RetentionsAt(lines, s) /\ Single(InSection(lines, s, "pattern"))
      /\ RetentionsAt(lines, s) \in Nat
  BY <1>3, SchemaPlaces
<1>5. PatternAt(lines, s) = k + 1
  BY <1>2, <1>4, PlaceReached DEF PatternAt
<1>6. k + 1 \notin SectionAt(lines)
  BY SectionLines
<1>7. /\ \A u : Last(lines, k + 1, u) <=> Last(lines, k, u)
      /\ Count(lines, k + 1) = Count(lines, k) /\ Count(lines, k) \in Nat
      /\ Rank(lines, s) = Count(lines, k)
  BY <1>2, <1>6, LastStep, CountStep, SectionLines, RankOrder
<1>8. \A u : Last(lines, k, u) => u = s
  BY <1>2, SectionLines DEF Last
<1>9. ~st.found /\ Len(st.rules) = Count(lines, k) - 1
  BY <1>2, <1>5 DEF SchemaAfter
<1> DEFINE x == Rule(lines[k + 1][2], <<>>)
           r == Append(st.rules, x)
           t == Begun(st, lines[k + 1][2])
<1>10. t.found = TRUE /\ t.rules = r /\ t.status = "ok"
  BY DEF Begun
<1>11. /\ Len(st.rules) \in Nat /\ Len(r) = Len(st.rules) + 1 /\ r[Len(st.rules) + 1] = x
       /\ \A i \in 1 .. Len(st.rules) : r[i] = st.rules[i]
  BY ListAppend DEF SchemaState
<1>12. x = Rule(lines[PatternAt(lines, s)][2], <<>>)
  BY <1>5
<1> HIDE DEF x, r, t
<1>13. Len(r) = Count(lines, k) /\ r[Count(lines, k)] = x
  BY <1>7, <1>9, <1>11
<1>14. ASSUME NEW u \in SectionAt(lines), RetentionsAt(lines, u) <= k + 1
       PROVE  r[Rank(lines, u)] = SchemaOf(lines, u)
  <2>1. lines[RetentionsAt(lines, u)][1] = "retentions" /\ RetentionsAt(lines, u) \in Nat
    BY SchemaPlaces
  <2>2. RetentionsAt(lines, u) <= k
    BY <1>14, <2>1
  <2>3. u # s
    BY <1>4, <1>5, <2>2
  <2>4. Rank(lines, u) \in Nat /\ Rank(lines, u) >= 1 /\ Rank(lines, u) < Rank(lines, s)
    BY <1>2, <2>2, <2>3, SchemaEarlier
  <2>5. Rank(lines, u) \in 1 .. Len(st.rules)
    BY <1>7, <1>9, <2>4
  <2>6. st.rules[Rank(lines, u)] = SchemaOf(lines, u)
    BY <2>2 DEF SchemaAfter
  <2> QED
    BY <1>11, <2>5, <2>6
<1>15. k + 1 <= k + 1 /\ ~(RetentionsAt(lines, s) <= k + 1)
  BY <1>4, <1>5
<1>16. ASSUME NEW u, Last(lines, k + 1, u)
       PROVE  /\ Len(t.rules) = IF PatternAt(lines, u) <= k + 1 THEN Count(lines, k + 1)
                                                                ELSE Count(lines, k + 1) - 1
              /\ t.found <=> PatternAt(lines, u) <= k + 1 /\ ~(RetentionsAt(lines, u) <= k + 1)
              /\ t.found => t.rules[Rank(lines, u)] = Rule(lines[PatternAt(lines, u)][2], <<>>)
  <2>1. u = s
    BY <1>7, <1>8, <1>16
  <2> QED
    BY <1>5, <1>7, <1>10, <1>12, <1>13, <1>15, <2>1
<1>17. ~(\A h \in SectionAt(lines) : ~(h <= k + 1))
  BY <1>3, SectionLines
<1>18. SchemaAfter(lines, k + 1, t)
  BY <1>10, <1>14, <1>16, <1>17 DEF SchemaAfter
<1> QED
  BY <1>9, <1>18 DEF t

(* The retentions complete it.                                              *)
LEMMA SchemaRetentions ==
  ASSUME NEW lines, Len(lines) \in Nat, WellFormed(lines, SchemaKeys), NEW k \in Nat,
         k + 1 <= Len(lines), NEW st, SchemaState(st), SchemaAfter(lines, k, st), st.status = "ok",
         lines[k + 1][1] = "retentions"
  PROVE  st.found /\ SchemaAfter(lines, k + 1, Completed(st, lines[k + 1][2]))
<1>1. \A i \in Positions(lines, "retentions") : \E s \in SectionAt(lines) : s < i
  BY FormOfSchema
<1>2. PICK s : Last(lines, k, s)
  BY <1>1, KeyInSection
<1>3. s \in SectionAt(lines) /\ s <= k
  BY <1>2 DEF Last
<1>4. /\ PatternAt(lines, s) < RetentionsAt(lines, s) /\ Single(InSection(lines, s, "retentions"))
      /\ PatternAt(lines, s) \in Nat
  BY <1>3, SchemaPlaces
<1>5. RetentionsAt(lines, s) = k + 1
  BY <1>2, <1>4, PlaceReached DEF RetentionsAt
<1>6. k + 1 \notin SectionAt(lines)
  BY SectionLines
<1>7. /\ \A u : Last(lines, k + 1, u) <=> Last(lines, k, u)
      /\ Count(lines, k + 1) = Count(lines, k) /\ Count(lines, k) \in Nat
      /\ Rank(lines, s) = Count(lines, k) /\ Rank(lines, s) >= 1
  BY <1>2, <1>3, <1>6, LastStep, CountStep, SectionLines, RankOrder
<1>8. \A u : Last(lines, k, u) => u = s
  BY <1>2, SectionLines DEF Last
<1>9. PatternAt(lines, s) <= k /\ ~(RetentionsAt(lines, s) <= k)
  BY <1>4, <1>5
<1>10. st.found /\ Len(st.rules) = Count(lines, k)
       /\ st.rules[Rank(lines, s)] = Rule(lines[PatternAt(lines, s)][2], <<>>)
  BY <1>2, <1>9 DEF SchemaAfter
<1> DEFINE n == Len(st.rules)
           x == Rule(st.rules[n].pattern, parse_retention_list_str(lines[k + 1][2]))
           r == [st.rules EXCEPT ![n] = x]
           t == Completed(st, lines[k + 1][2])
<1>11. t.found = FALSE /\ t.rules = r /\ t.status = "ok"
  BY DEF Completed
<1>12. n \in 1 .. Len(st.rules)
  BY <1>7, <1>10
<1>13. Len(r) = n /\ r[n] = x /\ \A i \in 1 .. n : i # n => r[i] = st.rules[i]
  BY <1>12, ListUpdate DEF SchemaState
<1>14. x = SchemaOf(lines, s) /\ n = Rank(lines, s)
  <2>1. st.rules[n].pattern = lines[PatternAt(lines, s)][2]
    BY <1>7, <1>10 DEF Rule
  <2> QED
    BY <1>5, <1>7, <1>10, <2>1 DEF SchemaOf
<1> HIDE DEF n, x, r, t
<1>15. ASSUME NEW u \in SectionAt(lines), RetentionsAt(lines, u) <= k + 1
       PROVE  r[Rank(lines, u)] = SchemaOf(lines, u)
  <2>1. CASE u = s
    BY <1>13, <1>14, <2>1
  <2>2. CASE u # s
    <3>1. Last(lines, k + 1, s)
      BY <1>2, <1>7
    <3>2. Rank(lines, u) \in Nat /\ Rank(lines, u) >= 1 /\ Rank(lines, u) < Rank(lines, s) /\ u < s
      BY <1>15, <2>2, <3>1, SchemaEarlier
    <3>3. RetentionsAt(lines, u) <= k
      <4>1. RetentionsAt(lines, u) \in Nat /\ \A h \in SectionAt(lines) : h > u => h > RetentionsAt(lines, u)
        BY SchemaPlaces
      <4>2. s \in Nat /\ u \in Nat
        BY <1>3, SectionLines
      <4>3. s > RetentionsAt(lines, u)
        BY <1>3, <3>2, <4>1, <4>2
      <4> QED
        BY <1>3, <4>1, <4>2, <4>3
    <3>4. st.rules[Rank(lines, u)] = SchemaOf(lines, u)
      BY <3>3 DEF SchemaAfter
    <3>5. Rank(lines, u) \in 1 .. n /\ Rank(lines, u) # n
      BY <1>7, <1>14, <3>2
    <3> QED
      BY <1>13, <3>4, <3>5
  <2> QED
    BY <2>1, <2>2
<1>16. PatternAt(lines, s) <= k + 1 /\ RetentionsAt(lines, s) <= k + 1
  BY <1>4, <1>5
<1>17. ASSUME NEW u, Last(lines, k + 1, u)
       PROVE  /\ Len(t.rules) = IF PatternAt(lines, u) <= k + 1 THEN Count(lines, k + 1)
                                                                ELSE Count(lines, k + 1) - 1
              /\ t.found <=> PatternAt(lines, u) <= k + 1 /\ ~(RetentionsAt(lines, u) <= k + 1)
              /\ ~t.found
  <2>1. u = s
    BY <1>7, <1>8, <1>17
  <2> QED
    BY <1>7, <1>10, <1>11, <1>13, <1>16, <2>1 DEF n
<1>18. ~(\A h \in SectionAt(lines) : ~(h <= k + 1))
  BY <1>3, SectionLines
<1>19. SchemaAfter(lines, k + 1, t)
  BY <1>11, <1>15, <1>17, <1>18 DEF SchemaAfter
<1> QED
  BY <1>10, <1>19 DEF t

(* After any number of lines of a file of the documented form.              *)
LEMMA SchemaLoop ==
  ASSUME NEW lines, Len(lines) \in Nat, WellFormed(lines, SchemaKeys)
  PROVE  \A k \in Nat : k <= Len(lines) =>
           SchemaAfter(lines, k, Loop("schema", NoSchema, lines)[k])
<1> DEFINE l == Loop("schema", NoSchema, lines)
           Good == {k \in Nat : k <= Len(lines) => SchemaAfter(lines, k, l[k])}
<1>1. 0 \in Good
  <2>1. l[0] = NoSchema
    BY LoopLine
  <2>2. \A s \in SectionAt(lines) : s \in Nat /\ s >= 1
    BY SectionLines
  <2>3. \A s \in SectionAt(lines) : RetentionsAt(lines, s) \in Nat /\ s < RetentionsAt(lines, s)
    BY SchemaPlaces
  <2>4. NoSchema.rules = <<>> /\ ~NoSchema.found
    BY DEF NoSchema
  <2>5. \A s : ~Last(lines, 0, s)
    BY <2>2 DEF Last
  <2>6. \A s \in SectionAt(lines) : ~(RetentionsAt(lines, s) <= 0)
    BY <2>2, <2>3
  <2>7. SchemaAfter(lines, 0, NoSchema)
    BY <2>4, <2>5, <2>6 DEF SchemaAfter
  <2> QED
    BY <2>1, <2>7
<1>2. ASSUME NEW k \in Nat, k \in Good PROVE k + 1 \in Good
  <2> SUFFICES ASSUME k + 1 <= Len(lines) PROVE SchemaAfter(lines, k + 1, l[k + 1])
    OBVIOUS
  <2> DEFINE st == l[k]
             t  == l[k + 1]
             line == lines[k + 1]
  <2>1. SchemaAfter(lines, k, st) /\ SchemaState(st)
    BY <1>2, SchemaStates
  <2>2. t = parse_line("schema", st, line)
    BY LoopLine
  <2> SUFFICES SchemaAfter(lines, k + 1, t)
    OBVIOUS
  <2> HIDE DEF st, t, l
  <2>3. IF st.status = "ok" /\ ~st.found /\ line[1] = "pattern" THEN t = Begun(st, line[2])
        ELSE IF st.status = "ok" /\ st.found /\ line[1] = "retentions"
          THEN IF HasNullItem(line[2]) THEN t = Crashed(st) ELSE t = Completed(st, line[2])
        ELSE t = st
    BY <2>1, <2>2, SchemaLine
  <2>4. CASE st.status # "ok"
    BY <2>3, <2>4 DEF SchemaAfter
  <2>5. CASE st.status = "ok" /\ line[1] = "section"
    <3>1. k + 1 \in SectionAt(lines)
      BY <2>5 DEF SectionAt, Positions
    <3>2. t = st
      BY <2>3, <2>5
    <3> QED
      BY <2>1, <3>1, <3>2, SchemaSection
  <2>6. CASE st.status = "ok" /\ line[1] = "pattern"
    <3>1. ~st.found /\ SchemaAfter(lines, k + 1, Begun(st, line[2]))
      BY <2>1, <2>6, SchemaPattern
    <3> QED
      BY <2>3, <2>6, <3>1
  <2>7. CASE st.status = "ok" /\ line[1] = "retentions"
    <3>1. st.found /\ SchemaAfter(lines, k + 1, Completed(st, line[2]))
      BY <2>1, <2>7, SchemaRetentions
    <3>2. SchemaAfter(lines, k + 1, Crashed(st))
      BY DEF SchemaAfter, Crashed
    <3> QED
      BY <2>3, <2>7, <3>1, <3>2
  <2>8. CASE line[1] \notin {"section", "pattern", "retentions"}
    <3>1. t = st
      BY <2>3, <2>8
    <3> QED
      BY <2>1, <2>8, <3>1, SchemaOther
  <2> QED
    BY <2>4, <2>5, <2>6, <2>7, <2>8
<1>3. Nat \subseteq Good
  <2> HIDE DEF Good
  <2> QED
    BY <1>1, <1>2, NatSet
<1> QED
  BY <1>3

(* The last section after the last line, and how many there are.            *)
LEMMA AllSections ==
  ASSUME NEW lines, Len(lines) \in Nat
  PROVE  /\ Count(lines, Len(lines)) = Cardinality(SectionAt(lines))
         /\ Cardinality(SectionAt(lines)) \in Nat
         /\ SectionAt(lines) # {} => \E s : Last(lines, Len(lines), s)
         /\ SectionAt(lines) = {} => Cardinality(SectionAt(lines)) = 0
<1>1. Upto(lines, Len(lines)) = SectionAt(lines)
  BY SectionLines DEF Upto
<1>2. SectionAt(lines) # {} => \E s : Last(lines, Len(lines), s)
  BY SectionLines, LastSection
<1> QED
  BY <1>1, <1>2, SectionLines, FS_CardinalityType, FS_EmptySet DEF Count

(* conf_parse_storage_schema_file(), on a file of the documented form of    *)
(* any length, makes one rule per section, in the order of the sections,    *)
(* each from the lines of its own section.                                  *)
THEOREM SchemaParsed ==
  ASSUME NEW lines, Len(lines) \in Nat, WellFormed(lines, SchemaKeys),
         schema_file(lines).status = "ok"
  PROVE  schema_file(lines).rules = SchemaAsWritten(lines)
<1> DEFINE st == schema_file(lines)
           c  == Cardinality(SectionAt(lines))
           w  == SchemaAsWritten(lines)
<1>1. SchemaState(st) /\ SchemaAfter(lines, Len(lines), st)
  BY SchemaStates, SchemaLoop DEF schema_file
<1>2. IsList(st.rules)
  BY <1>1 DEF SchemaState
<1>3. Len(st.rules) = c /\ c \in Nat
  <2>1. CASE SectionAt(lines) = {}
    BY <1>1, <2>1, AllSections DEF SchemaAfter
  <2>2. CASE SectionAt(lines) # {}
    <3>1. PICK s : Last(lines, Len(lines), s)
      BY <2>2, AllSections
    <3>2. s \in SectionAt(lines)
      BY <3>1 DEF Last
    <3>3. PatternAt(lines, s) <= Len(lines)
      BY <3>2, SchemaPlaces
    <3> QED
      BY <1>1, <3>1, <3>3, AllSections DEF SchemaAfter
  <2> QED
    BY <2>1, <2>2
<1>4. w = [n \in 1 .. c |-> w[n]]
  BY DEF SchemaAsWritten, SectionAt
<1>5. ASSUME NEW n \in 1 .. c PROVE st.rules[n] = w[n]
  <2>1. PICK s \in SectionAt(lines) : Rank(lines, s) = n
    BY RankOnto
  <2>2. Section(lines, n) = s
    BY <2>1, SectionRank
  <2>3. w[n] = SchemaOf(lines, s)
    BY <2>2 DEF SchemaAsWritten, SectionAt, SchemaOf, Rule, Entry, PatternAt, RetentionsAt, Place
  <2>4. RetentionsAt(lines, s) <= Len(lines)
    BY SchemaPlaces
  <2> QED
    BY <1>1, <2>1, <2>3, <2>4 DEF SchemaAfter
<1> HIDE DEF st, c, w
<1>6. st.rules = w
  BY <1>2, <1>3, <1>4, <1>5, ListEqual
<1> QED
  BY <1>6 DEF st, w

-----------------------------------------------------------------------------
(* storage-aggregation.conf                                                 *)

Methods == {"average", "sum", "last", "max", "min", "undef"}
Aggregation(p, x, m) == [pattern |-> p, xff |-> x, method |-> m]

(* The form of what the loop keeps.                                         *)
AggregationState(st) ==
  /\ st = [found |-> st.found, pattern |-> st.pattern, xff |-> st.xff, method |-> st.method,
           rules |-> st.rules]
  /\ st.found \in BOOLEAN /\ IsList(st.rules)
  /\ \A i \in 1 .. Len(st.rules) :
       /\ st.rules[i] = Aggregation(st.rules[i].pattern, st.rules[i].xff, st.rules[i].method)
       /\ st.rules[i].method \in Methods

(* What a line does to it.                                                  *)
Matched(st, p) ==
  [found |-> TRUE, pattern |-> p, xff |-> st.xff, method |-> st.method, rules |-> st.rules]
Factored(st, x) ==
  [found |-> TRUE, pattern |-> st.pattern, xff |-> Number(x), method |-> st.method,
   rules |-> st.rules]
Added(st, m) ==
  [found |-> FALSE, pattern |-> st.pattern, xff |-> st.xff,
   method |-> conf_get_aggregation_method(m),
   rules |-> Append(st.rules, Aggregation(st.pattern, st.xff, conf_get_aggregation_method(m)))]

(* The cases of the loop's body.                                            *)
LEMMA AggregationLine ==
  ASSUME NEW st, AggregationState(st), NEW line, NEW t, t = parse_line("aggregation", st, line)
  PROVE  IF ~st.found /\ line[1] = "pattern" THEN t = Matched(st, line[2])
         ELSE IF st.found /\ line[1] = "xFilesFactor" THEN t = Factored(st, line[2])
         ELSE IF st.found /\ line[1] = "aggregationMethod" THEN t = Added(st, line[2])
         ELSE t = st
<1>1. t = aggregation_line(st, line)
  BY DEF parse_line
<1>2. CASE ~st.found /\ line[1] = "pattern"
  <2>1. t = [st EXCEPT !.found = TRUE, !.pattern = line[2]]
    BY <1>1, <1>2 DEF aggregation_line
  <2> QED
    BY <1>2, <2>1 DEF AggregationState, Matched
<1>3. CASE st.found /\ line[1] = "xFilesFactor"
  <2>1. t = [st EXCEPT !.xff = Number(line[2])]
    BY <1>1, <1>3 DEF aggregation_line
  <2> QED
    BY <1>3, <2>1 DEF AggregationState, Factored
<1>4. CASE st.found /\ line[1] = "aggregationMethod"
  <2> DEFINE m == conf_get_aggregation_method(line[2])
  <2>1. t = [st EXCEPT !.found = FALSE, !.method = m,
                       !.rules = Append(st.rules, [pattern |-> st.pattern, xff |-> st.xff,
                                                   method |-> m])]
    BY <1>1, <1>4 DEF aggregation_line, AggregationState
  <2> HIDE DEF m
  <2>2. t = [found |-> FALSE, pattern |-> st.pattern, xff |-> st.xff, method |-> m,
             rules |-> Append(st.rules, Aggregation(st.pattern, st.xff, m))]
    BY <2>1 DEF AggregationState, Aggregation
  <2> QED
    BY <1>4, <2>2 DEF Added, m
<1>5. CASE ~(\/ ~st.found /\ line[1] = "pattern"
             \/ st.found /\ line[1] = "xFilesFactor"
             \/ st.found /\ line[1] = "aggregationMethod")
  BY <1>1, <1>5 DEF aggregation_line
<1> QED
  BY <1>2, <1>3, <1>4, <1>5

(* The form is kept.                                                        *)
LEMMA AggregationStateKept ==
  ASSUME NEW st, AggregationState(st), NEW line
  PROVE  AggregationState(parse_line("aggregation", st, line))
<1> DEFINE t == parse_line("aggregation", st, line)
<1>1. IF ~st.found /\ line[1] = "pattern" THEN t = Matched(st, line[2])
      ELSE IF st.found /\ line[1] = "xFilesFactor" THEN t = Factored(st, line[2])
      ELSE IF st.found /\ line[1] = "aggregationMethod" THEN t = Added(st, line[2])
      ELSE t = st
  BY AggregationLine
<1> HIDE DEF t
<1>2. AggregationState(Matched(st, line[2]))
  BY DEF AggregationState, Matched
<1>3. AggregationState(Factored(st, line[2]))
  BY DEF AggregationState, Factored
<1>4. AggregationState(Added(st, line[2]))
  <2> DEFINE m == conf_get_aggregation_method(line[2])
             x == Aggregation(st.pattern, st.xff, m)
             r == Append(st.rules, x)
  <2>1. /\ IsList(r) /\ Len(st.rules) \in Nat /\ Len(r) = Len(st.rules) + 1
        /\ r[Len(st.rules) + 1] = x /\ \A i \in 1 .. Len(st.rules) : r[i] = st.rules[i]
    BY ListAppend DEF AggregationState
  <2>2. m \in Methods
    BY DEF conf_get_aggregation_method, Methods
  <2> HIDE DEF m
  <2>3. x = Aggregation(x.pattern, x.xff, x.method) /\ x.method \in Methods
    BY <2>2 DEF Aggregation
  <2>4. Added(st, line[2]) = [found |-> FALSE, pattern |-> st.pattern, xff |-> st.xff,
                              method |-> m, rules |-> r]
    BY DEF Added, m
  <2> HIDE DEF r, x
  <2>5. ASSUME NEW i \in 1 .. Len(r)
        PROVE  r[i] = Aggregation(r[i].pattern, r[i].xff, r[i].method) /\ r[i].method \in Methods
    <3>1. CASE i = Len(st.rules) + 1
      BY <2>1, <2>3, <3>1
    <3>2. CASE i \in 1 .. Len(st.rules)
      BY <2>1, <3>2 DEF AggregationState
    <3> QED
      BY <2>1, <3>1, <3>2
  <2> QED
    BY <2>1, <2>4, <2>5 DEF AggregationState
<1>5. AggregationState(t)
  BY <1>1, <1>2, <1>3, <1>4
<1> QED
  BY <1>5 DEF t

(* It holds after any number of lines.                                      *)
LEMMA AggregationStates ==
  ASSUME NEW lines, Len(lines) \in Nat
  PROVE  \A k \in Nat : k <= Len(lines) =>
           AggregationState(Loop("aggregation", NoAggregation, lines)[k])
<1> DEFINE l == Loop("aggregation", NoAggregation, lines)
           Good == {k \in Nat : k <= Len(lines) => AggregationState(l[k])}
<1>1. 0 \in Good
  <2>1. IsList(<<>>)
    BY DEF IsList
  <2>2. AggregationState(NoAggregation)
    BY <2>1 DEF AggregationState, NoAggregation
  <2> QED
    BY <2>2, LoopLine
<1>2. ASSUME NEW k \in Nat, k \in Good PROVE k + 1 \in Good
  <2> SUFFICES ASSUME k + 1 <= Len(lines) PROVE AggregationState(l[k + 1])
    OBVIOUS
  <2>1. AggregationState(l[k])
    BY <1>2
  <2>2. l[k + 1] = parse_line("aggregation", l[k], lines[k + 1])
    BY LoopLine
  <2> QED
    BY <2>1, <2>2, AggregationStateKept
<1>3. Nat \subseteq Good
  <2> HIDE DEF Good
  <2> QED
    BY <1>1, <1>2, NatSet
<1> QED
  BY <1>3

XffAt(lines, s)    == Place(lines, s, "xFilesFactor")
MethodAt(lines, s) == Place(lines, s, "aggregationMethod")
AggregationOf(lines, s) ==
  Aggregation(lines[PatternAt(lines, s)][2], Number(lines[XffAt(lines, s)][2]),
              conf_get_aggregation_method(lines[MethodAt(lines, s)][2]))

(* What the loop has after the first k lines: a rule for each section whose *)
(* method was read, and what was read of the section it is in.              *)
AggregationAfter(lines, k, st) ==
  /\ (\A h \in SectionAt(lines) : ~(h <= k)) => Len(st.rules) = 0 /\ ~st.found
  /\ \A s : Last(lines, k, s) =>
       /\ Len(st.rules) = IF MethodAt(lines, s) <= k THEN Count(lines, k) ELSE Count(lines, k) - 1
       /\ st.found <=> PatternAt(lines, s) <= k /\ ~(MethodAt(lines, s) <= k)
       /\ st.found => st.pattern = lines[PatternAt(lines, s)][2]
       /\ st.found /\ XffAt(lines, s) <= k => st.xff = Number(lines[XffAt(lines, s)][2])
  /\ \A t \in SectionAt(lines) :
       MethodAt(lines, t) <= k => st.rules[Rank(lines, t)] = AggregationOf(lines, t)

(* Where the keys of a section stand.                                       *)
LEMMA AggregationPlaces ==
  ASSUME NEW lines, Len(lines) \in Nat, WellFormed(lines, AggregationKeys), NEW s \in SectionAt(lines)
  PROVE  /\ PatternAt(lines, s) \in Nat /\ XffAt(lines, s) \in Nat /\ MethodAt(lines, s) \in Nat
         /\ s \in Nat /\ s < PatternAt(lines, s) /\ PatternAt(lines, s) < XffAt(lines, s)
         /\ XffAt(lines, s) < MethodAt(lines, s) /\ MethodAt(lines, s) <= Len(lines)
         /\ lines[PatternAt(lines, s)][1] = "pattern"
         /\ lines[XffAt(lines, s)][1] = "xFilesFactor"
         /\ lines[MethodAt(lines, s)][1] = "aggregationMethod"
         /\ \A h \in SectionAt(lines) : h > s => h > MethodAt(lines, s)
         /\ Single(InSection(lines, s, "pattern")) /\ Single(InSection(lines, s, "xFilesFactor"))
         /\ Single(InSection(lines, s, "aggregationMethod"))
<1>1. /\ Single(InSection(lines, s, "pattern")) /\ Single(InSection(lines, s, "xFilesFactor"))
      /\ Single(InSection(lines, s, "aggregationMethod"))
      /\ Place(lines, s, "pattern") < Place(lines, s, "xFilesFactor")
      /\ Place(lines, s, "xFilesFactor") < Place(lines, s, "aggregationMethod")
  BY FormOfAggregation
<1>2. /\ Place(lines, s, "pattern") \in 1 .. Len(lines)
      /\ lines[Place(lines, s, "pattern")][1] = "pattern" /\ s < Place(lines, s, "pattern")
  BY <1>1, PlaceOfKey
<1>3. /\ Place(lines, s, "xFilesFactor") \in 1 .. Len(lines)
      /\ lines[Place(lines, s, "xFilesFactor")][1] = "xFilesFactor"
  BY <1>1, PlaceOfKey
<1>4. /\ Place(lines, s, "aggregationMethod") \in 1 .. Len(lines)
      /\ lines[Place(lines, s, "aggregationMethod")][1] = "aggregationMethod"
      /\ \A h \in SectionAt(lines) : h > s => h > Place(lines, s, "aggregationMethod")
  BY <1>1, PlaceOfKey
<1> QED
  BY <1>1, <1>2, <1>3, <1>4, SectionLines DEF PatternAt, XffAt, MethodAt

(* A section whose method was read before is an earlier rule.               *)
LEMMA AggregationEarlier ==
  ASSUME NEW lines, Len(lines) \in Nat, WellFormed(lines, AggregationKeys), NEW k \in Nat,
         NEW s, Last(lines, k, s), NEW t \in SectionAt(lines), MethodAt(lines, t) <= k
  PROVE  /\ t = s \/ t < s
         /\ t # s => Rank(lines, t) < Rank(lines, s)
         /\ Rank(lines, t) \in Nat /\ Rank(lines, t) >= 1 /\ Rank(lines, s) \in Nat
         /\ Rank(lines, s) = Count(lines, k)
<1>1. t = s \/ t < s
  BY AggregationPlaces, PlacedBefore DEF MethodAt
<1>2. s \in SectionAt(lines)
  BY DEF Last
<1> QED
  BY <1>1, <1>2, RankOrder

(* A line that begins no section moves nothing but what it is the place of. *)
LEMMA AggregationFrame ==
  ASSUME NEW lines, Len(lines) \in Nat, WellFormed(lines, AggregationKeys), NEW k \in Nat,
         k + 1 \notin SectionAt(lines)
  PROVE  /\ \A s : Last(lines, k + 1, s) <=> Last(lines, k, s)
         /\ \A s, t : Last(lines, k, s) /\ Last(lines, k, t) => s = t
         /\ Count(lines, k + 1) = Count(lines, k) /\ Count(lines, k) \in Nat
         /\ \A s \in SectionAt(lines) :
              /\ s <= k + 1 <=> s <= k
              /\ lines[k + 1][1] # "pattern" =>
                   (PatternAt(lines, s) <= k + 1 <=> PatternAt(lines, s) <= k)
              /\ lines[k + 1][1] # "xFilesFactor" =>
                   (XffAt(lines, s) <= k + 1 <=> XffAt(lines, s) <= k)
              /\ lines[k + 1][1] # "aggregationMethod" =>
                   (MethodAt(lines, s) <= k + 1 <=> MethodAt(lines, s) <= k)
<1>1. \A s : Last(lines, k + 1, s) <=> Last(lines, k, s)
  BY LastStep
<1>2. \A s, t : Last(lines, k, s) /\ Last(lines, k, t) => s = t
  BY SectionLines DEF Last
<1>3. Count(lines, k + 1) = Count(lines, k) /\ Count(lines, k) \in Nat
  BY CountStep, SectionLines
<1>4. ASSUME NEW s \in SectionAt(lines)
      PROVE  /\ s <= k + 1 <=> s <= k
             /\ lines[k + 1][1] # "pattern" =>
                  (PatternAt(lines, s) <= k + 1 <=> PatternAt(lines, s) <= k)
             /\ lines[k + 1][1] # "xFilesFactor" =>
                  (XffAt(lines, s) <= k + 1 <=> XffAt(lines, s) <= k)
             /\ lines[k + 1][1] # "aggregationMethod" =>
                  (MethodAt(lines, s) <= k + 1 <=> MethodAt(lines, s) <= k)
  <2>1. /\ PatternAt(lines, s) \in Nat /\ XffAt(lines, s) \in Nat /\ MethodAt(lines, s) \in Nat
        /\ s \in Nat /\ lines[PatternAt(lines, s)][1] = "pattern"
        /\ lines[XffAt(lines, s)][1] = "xFilesFactor"
        /\ lines[MethodAt(lines, s)][1] = "aggregationMethod"
    BY AggregationPlaces
  <2>2. /\ s # k + 1
        /\ lines[k + 1][1] # "pattern" => PatternAt(lines, s) # k + 1
        /\ lines[k + 1][1] # "xFilesFactor" => XffAt(lines, s) # k + 1
        /\ lines[k + 1][1] # "aggregationMethod" => MethodAt(lines, s) # k + 1
    BY <2>1
  <2> QED
    BY <2>1, <2>2
<1> QED
  BY <1>1, <1>2, <1>3, <1>4

(* A [section] line: the section before it has its rule.                    *)
LEMMA AggregationSection ==
  ASSUME NEW lines, Len(lines) \in Nat, WellFormed(lines, AggregationKeys), NEW k \in Nat,
         NEW st, AggregationAfter(lines, k, st), k + 1 \in SectionAt(lines)
  PROVE  AggregationAfter(lines, k + 1, st)
<1>1. ~(\A h \in SectionAt(lines) : ~(h <= k + 1))
  OBVIOUS
<1>2. \A s : Last(lines, k + 1, s) <=> s = k + 1
  BY LastStep
<1>3. Count(lines, k + 1) = Count(lines, k) + 1 /\ Count(lines, k) \in Nat
  BY CountStep, SectionLines
<1>4. /\ k + 1 < PatternAt(lines, k + 1) /\ PatternAt(lines, k + 1) \in Nat
      /\ k + 1 < MethodAt(lines, k + 1) /\ MethodAt(lines, k + 1) \in Nat
  BY AggregationPlaces
<1>5. Len(st.rules) = Count(lines, k) /\ ~st.found
  <2>1. CASE \A h \in SectionAt(lines) : ~(h <= k)
    <3>1. Upto(lines, k) = {}
      BY <2>1 DEF Upto
    <3>2. Count(lines, k) = 0
      BY <3>1, FS_EmptySet DEF Count
    <3> QED
      BY <2>1, <3>2 DEF AggregationAfter
  <2>2. CASE \E s : Last(lines, k, s)
    <3>1. PICK s : Last(lines, k, s)
      BY <2>2
    <3>2. s \in SectionAt(lines) /\ s <= k
      BY <3>1 DEF Last
    <3>3. /\ s \in Nat /\ MethodAt(lines, s) \in Nat
          /\ \A h \in SectionAt(lines) : h > s => h > MethodAt(lines, s)
      BY <3>2, AggregationPlaces
    <3>4. k + 1 > MethodAt(lines, s)
      BY <3>2, <3>3
    <3>5. MethodAt(lines, s) <= k
      BY <3>3, <3>4
    <3> QED
      BY <3>1, <3>5 DEF AggregationAfter
  <2> QED
    BY <2>1, <2>2, LastSection
<1>6. ASSUME NEW t \in SectionAt(lines), MethodAt(lines, t) <= k + 1
      PROVE  st.rules[Rank(lines, t)] = AggregationOf(lines, t)
  <2>1. MethodAt(lines, t) # k + 1
    <3>1. lines[k + 1][1] = "section" /\ lines[MethodAt(lines, t)][1] = "aggregationMethod"
      BY SectionLines, AggregationPlaces
    <3> QED
      BY <3>1
  <2>2. MethodAt(lines, t) <= k
    BY <1>6, <2>1, AggregationPlaces
  <2> QED
    BY <2>2 DEF AggregationAfter
<1>7. /\ ~(PatternAt(lines, k + 1) <= k + 1) /\ ~(MethodAt(lines, k + 1) <= k + 1)
      /\ Len(st.rules) = Count(lines, k + 1) - 1
  BY <1>3, <1>4, <1>5
<1> QED
  BY <1>1, <1>2, <1>5, <1>6, <1>7 DEF AggregationAfter

(* A line of no interest.                                                   *)
LEMMA AggregationOther ==
  ASSUME NEW lines, Len(lines) \in Nat, WellFormed(lines, AggregationKeys), NEW k \in Nat,
         NEW st, AggregationAfter(lines, k, st), k + 1 \notin SectionAt(lines),
         lines[k + 1][1] \notin {"pattern", "xFilesFactor", "aggregationMethod"}
  PROVE  AggregationAfter(lines, k + 1, st)
<1>1. /\ \A s : Last(lines, k + 1, s) <=> Last(lines, k, s)
      /\ Count(lines, k + 1) = Count(lines, k)
      /\ \A s \in SectionAt(lines) :
           /\ s <= k + 1 <=> s <= k
           /\ PatternAt(lines, s) <= k + 1 <=> PatternAt(lines, s) <= k
           /\ XffAt(lines, s) <= k + 1 <=> XffAt(lines, s) <= k
           /\ MethodAt(lines, s) <= k + 1 <=> MethodAt(lines, s) <= k
  BY AggregationFrame
<1>2. \A s : Last(lines, k, s) => s \in SectionAt(lines)
  BY DEF Last
<1> QED
  BY <1>1, <1>2 DEF AggregationAfter

(* The section in which a key is read, and what was read of it.             *)
LEMMA AggregationKey ==
  ASSUME NEW lines, Len(lines) \in Nat, WellFormed(lines, AggregationKeys), NEW k \in Nat,
         k + 1 <= Len(lines),
         NEW key \in {"pattern", "xFilesFactor", "aggregationMethod"}, lines[k + 1][1] = key
  PROVE  /\ k + 1 \notin SectionAt(lines)
         /\ \E s \in SectionAt(lines) : Last(lines, k, s) /\ s <= k /\ Place(lines, s, key) = k + 1
<1>1. \A i \in Positions(lines, key) : \E s \in SectionAt(lines) : s < i
  BY FormOfAggregation
<1>2. PICK s : Last(lines, k, s)
  BY <1>1, KeyInSection
<1>3. s \in SectionAt(lines) /\ s <= k
  BY <1>2 DEF Last
<1>4. Single(InSection(lines, s, key))
  BY <1>3, FormOfAggregation
<1>5. Place(lines, s, key) = k + 1
  BY <1>2, <1>4, PlaceReached
<1>6. k + 1 \notin SectionAt(lines)
  BY SectionLines
<1> QED
  BY <1>2, <1>3, <1>5, <1>6

(* A pattern begins the rule of its section.                                *)
LEMMA AggregationPattern ==
  ASSUME NEW lines, Len(lines) \in Nat, WellFormed(lines, AggregationKeys), NEW k \in Nat,
         k + 1 <= Len(lines), NEW st, AggregationAfter(lines, k, st), lines[k + 1][1] = "pattern"
  PROVE  ~st.found /\ AggregationAfter(lines, k + 1, Matched(st, lines[k + 1][2]))
<1>1. PICK s \in SectionAt(lines) : Last(lines, k, s) /\ s <= k /\ Place(lines, s, "pattern") = k + 1
  BY AggregationKey
<1>2. PatternAt(lines, s) = k + 1 /\ k + 1 \notin SectionAt(lines)
  BY <1>1, AggregationKey DEF PatternAt
<1>3. /\ \A u : Last(lines, k + 1, u) <=> Last(lines, k, u)
      /\ \A u, v : Last(lines, k, u) /\ Last(lines, k, v) => u = v
      /\ Count(lines, k + 1) = Count(lines, k)
      /\ \A u \in SectionAt(lines) :
           /\ u <= k + 1 <=> u <= k
           /\ XffAt(lines, u) <= k + 1 <=> XffAt(lines, u) <= k
           /\ MethodAt(lines, u) <= k + 1 <=> MethodAt(lines, u) <= k
  BY <1>2, AggregationFrame
<1>4. ~(XffAt(lines, s) <= k + 1) /\ ~(MethodAt(lines, s) <= k + 1)
  BY <1>2, AggregationPlaces
<1>5. k + 1 <= k + 1 /\ ~(k + 1 <= k)
  OBVIOUS
<1>6. ~st.found
  BY <1>1, <1>2, <1>5 DEF AggregationAfter
<1> DEFINE t == Matched(st, lines[k + 1][2])
<1>7. t.found = TRUE /\ t.pattern = lines[k + 1][2] /\ t.rules = st.rules
  BY DEF Matched
<1> HIDE DEF t
<1>8. ASSUME NEW u, Last(lines, k + 1, u)
      PROVE  /\ Len(t.rules) = IF MethodAt(lines, u) <= k + 1 THEN Count(lines, k + 1)
                                                              ELSE Count(lines, k + 1) - 1
             /\ t.found <=> PatternAt(lines, u) <= k + 1 /\ ~(MethodAt(lines, u) <= k + 1)
             /\ t.found => t.pattern = lines[PatternAt(lines, u)][2]
             /\ ~(XffAt(lines, u) <= k + 1)
  <2>1. u = s
    BY <1>1, <1>3, <1>8
  <2> QED
    BY <1>1, <1>2, <1>3, <1>4, <1>5, <1>7, <2>1 DEF AggregationAfter
<1>9. AggregationAfter(lines, k + 1, t)
  BY <1>1, <1>3, <1>7, <1>8 DEF AggregationAfter
<1> QED
  BY <1>6, <1>9 DEF t

(* The factor is kept for the rule of the same section.                     *)
LEMMA AggregationFactor ==
  ASSUME NEW lines, Len(lines) \in Nat, WellFormed(lines, AggregationKeys), NEW k \in Nat,
         k + 1 <= Len(lines), NEW st, AggregationAfter(lines, k, st),
         lines[k + 1][1] = "xFilesFactor"
  PROVE  st.found /\ AggregationAfter(lines, k + 1, Factored(st, lines[k + 1][2]))
<1>1. PICK s \in SectionAt(lines) :
        Last(lines, k, s) /\ s <= k /\ Place(lines, s, "xFilesFactor") = k + 1
  BY AggregationKey
<1>2. XffAt(lines, s) = k + 1 /\ k + 1 \notin SectionAt(lines)
  BY <1>1, AggregationKey DEF XffAt
<1>3. /\ \A u : Last(lines, k + 1, u) <=> Last(lines, k, u)
      /\ \A u, v : Last(lines, k, u) /\ Last(lines, k, v) => u = v
      /\ Count(lines, k + 1) = Count(lines, k)
      /\ \A u \in SectionAt(lines) :
           /\ u <= k + 1 <=> u <= k
           /\ PatternAt(lines, u) <= k + 1 <=> PatternAt(lines, u) <= k
           /\ MethodAt(lines, u) <= k + 1 <=> MethodAt(lines, u) <= k
  BY <1>2, AggregationFrame
<1>4. ~(MethodAt(lines, s) <= k + 1) /\ PatternAt(lines, s) <= k
  BY <1>2, AggregationPlaces
<1>5. st.found /\ st.pattern = lines[PatternAt(lines, s)][2]
  BY <1>1, <1>3, <1>4 DEF AggregationAfter
<1> DEFINE t == Factored(st, lines[k + 1][2])
<1>6. /\ t.found = TRUE /\ t.pattern = st.pattern /\ t.xff = Number(lines[k + 1][2])
      /\ t.rules = st.rules
  BY DEF Factored
<1> HIDE DEF t
<1>7. ASSUME NEW u, Last(lines, k + 1, u)
      PROVE  /\ Len(t.rules) = IF MethodAt(lines, u) <= k + 1 THEN Count(lines, k + 1)
                                                              ELSE Count(lines, k + 1) - 1
             /\ t.found <=> PatternAt(lines, u) <= k + 1 /\ ~(MethodAt(lines, u) <= k + 1)
             /\ t.found => t.pattern = lines[PatternAt(lines, u)][2]
             /\ t.xff = Number(lines[XffAt(lines, u)][2])
  <2>1. u = s
    BY <1>1, <1>3, <1>7
  <2> QED
    BY <1>1, <1>2, <1>3, <1>4, <1>5, <1>6, <2>1 DEF AggregationAfter
<1>8. AggregationAfter(lines, k + 1, t)
  BY <1>1, <1>3, <1>6, <1>7 DEF AggregationAfter
<1> QED
  BY <1>5, <1>8 DEF t

(* The method makes the rule, of what was read in the section.              *)
LEMMA AggregationMethod ==
  ASSUME NEW lines, Len(lines) \in Nat, WellFormed(lines, AggregationKeys), NEW k \in Nat,
         k + 1 <= Len(lines), NEW st, AggregationState(st), AggregationAfter(lines, k, st),
         lines[k + 1][1] = "aggregationMethod"
  PROVE  st.found /\ AggregationAfter(lines, k + 1, Added(st, lines[k + 1][2]))
<1>1. PICK s \in SectionAt(lines) :
        Last(lines, k, s) /\ s <= k /\ Place(lines, s, "aggregationMethod") = k + 1
  BY AggregationKey
<1>2. MethodAt(lines, s) = k + 1 /\ k + 1 \notin SectionAt(lines)
  BY <1>1, AggregationKey DEF MethodAt
<1>3. /\ \A u : Last(lines, k + 1, u) <=> Last(lines, k, u)
      /\ \A u, v : Last(lines, k, u) /\ Last(lines, k, v) => u = v
      /\ Count(lines, k + 1) = Count(lines, k) /\ Count(lines, k) \in Nat
  BY <1>2, AggregationFrame
<1>4. PatternAt(lines, s) <= k /\ XffAt(lines, s) <= k /\ ~(MethodAt(lines, s) <= k)
  BY <1>2, AggregationPlaces
<1>5. /\ st.found /\ st.pattern = lines[PatternAt(lines, s)][2]
      /\ st.xff = Number(lines[XffAt(lines, s)][2]) /\ Len(st.rules) = Count(lines, k) - 1
  BY <1>1, <1>4 DEF AggregationAfter
<1> DEFINE x == Aggregation(st.pattern, st.xff, conf_get_aggregation_method(lines[k + 1][2]))
           r == Append(st.rules, x)
           t == Added(st, lines[k + 1][2])
<1>6. t.found = FALSE /\ t.rules = r
  BY DEF Added
<1>7. /\ Len(st.rules) \in Nat /\ Len(r) = Len(st.rules) + 1 /\ r[Len(st.rules) + 1] = x
      /\ \A i \in 1 .. Len(st.rules) : r[i] = st.rules[i]
  BY ListAppend DEF AggregationState
<1>8. x = AggregationOf(lines, s)
  BY <1>2, <1>5 DEF AggregationOf
<1> HIDE DEF x, r, t
<1>9. Rank(lines, s) = Count(lines, k)
  BY <1>1, RankOrder
<1>10. Len(r) = Count(lines, k) /\ r[Rank(lines, s)] = x
  BY <1>3, <1>5, <1>7, <1>9
<1>11. ASSUME NEW u \in SectionAt(lines), MethodAt(lines, u) <= k + 1
       PROVE  r[Rank(lines, u)] = AggregationOf(lines, u)
  <2>1. CASE u = s
    BY <1>8, <1>10, <2>1
  <2>2. CASE u # s
    <3>1. Last(lines, k + 1, s)
      BY <1>1, <1>3
    <3>2. Rank(lines, u) \in Nat /\ Rank(lines, u) >= 1 /\ Rank(lines, u) < Rank(lines, s) /\ u < s
      BY <1>11, <2>2, <3>1, AggregationEarlier
    <3>3. MethodAt(lines, u) <= k
      <4>1. MethodAt(lines, u) \in Nat /\ \A h \in SectionAt(lines) : h > u => h > MethodAt(lines, u)
        BY AggregationPlaces
      <4>2. s \in Nat /\ u \in Nat
        BY SectionLines
      <4>3. s > MethodAt(lines, u)
        BY <3>2, <4>1, <4>2
      <4> QED
        BY <1>1, <4>1, <4>2, <4>3
    <3>4. st.rules[Rank(lines, u)] = AggregationOf(lines, u)
      BY <3>3 DEF AggregationAfter
    <3>5. Rank(lines, u) \in 1 .. Len(st.rules)
      BY <1>3, <1>5, <1>9, <3>2
    <3> QED
      BY <1>7, <3>4, <3>5
  <2> QED
    BY <2>1, <2>2
<1>12. k + 1 <= k + 1 /\ s <= k + 1
  BY <1>1, SectionLines
<1>13. ASSUME NEW u, Last(lines, k + 1, u)
       PROVE  /\ Len(t.rules) = Count(lines, k + 1) /\ MethodAt(lines, u) <= k + 1 /\ ~t.found
  <2>1. u = s
    BY <1>1, <1>3, <1>13
  <2> QED
    BY <1>2, <1>3, <1>6, <1>10, <1>12, <2>1
<1>14. AggregationAfter(lines, k + 1, t)
  BY <1>1, <1>6, <1>11, <1>12, <1>13 DEF AggregationAfter
<1> QED
  BY <1>5, <1>14 DEF t

(* After any number of lines of a file of the documented form.              *)
LEMMA AggregationLoop ==
  ASSUME NEW lines, Len(lines) \in Nat, WellFormed(lines, AggregationKeys)
  PROVE  \A k \in Nat : k <= Len(lines) =>
           AggregationAfter(lines, k, Loop("aggregation", NoAggregation, lines)[k])
<1> DEFINE l == Loop("aggregation", NoAggregation, lines)
           Good == {k \in Nat : k <= Len(lines) => AggregationAfter(lines, k, l[k])}
<1>1. 0 \in Good
  <2>1. l[0] = NoAggregation
    BY LoopLine
  <2>2. \A s \in SectionAt(lines) : s \in Nat /\ s >= 1
    BY SectionLines
  <2>3. \A s \in SectionAt(lines) : MethodAt(lines, s) \in Nat /\ s < MethodAt(lines, s)
    BY AggregationPlaces
  <2>4. NoAggregation.rules = <<>> /\ ~NoAggregation.found
    BY DEF NoAggregation
  <2>5. \A s : ~Last(lines, 0, s)
    BY <2>2 DEF Last
  <2>6. \A s \in SectionAt(lines) : ~(MethodAt(lines, s) <= 0)
    BY <2>2, <2>3
  <2>7. AggregationAfter(lines, 0, NoAggregation)
    BY <2>4, <2>5, <2>6 DEF AggregationAfter
  <2> QED
    BY <2>1, <2>7
<1>2. ASSUME NEW k \in Nat, k \in Good PROVE k + 1 \in Good
  <2> SUFFICES ASSUME k + 1 <= Len(lines) PROVE AggregationAfter(lines, k + 1, l[k + 1])
    OBVIOUS
  <2> DEFINE st == l[k]
             t  == l[k + 1]
             line == lines[k + 1]
  <2>1. AggregationAfter(lines, k, st) /\ AggregationState(st)
    BY <1>2, AggregationStates
  <2>2. t = parse_line("aggregation", st, line)
    BY LoopLine
  <2> SUFFICES AggregationAfter(lines, k + 1, t)
    OBVIOUS
  <2> HIDE DEF st, t, l
  <2>3. IF ~st.found /\ line[1] = "pattern" THEN t = Matched(st, line[2])
        ELSE IF st.found /\ line[1] = "xFilesFactor" THEN t = Factored(st, line[2])
        ELSE IF st.found /\ line[1] = "aggregationMethod" THEN t = Added(st, line[2])
        ELSE t = st
    BY <2>1, <2>2, AggregationLine
  <2>4. CASE line[1] = "section"
    <3>1. k + 1 \in SectionAt(lines)
      BY <2>4 DEF SectionAt, Positions
    <3>2. t = st
      BY <2>3, <2>4
    <3> QED
      BY <2>1, <3>1, <3>2, AggregationSection
  <2>5. CASE line[1] = "pattern"
    <3>1. ~st.found /\ AggregationAfter(lines, k + 1, Matched(st, line[2]))
      BY <2>1, <2>5, AggregationPattern
    <3> QED
      BY <2>3, <2>5, <3>1
  <2>6. CASE line[1] = "xFilesFactor"
    <3>1. st.found /\ AggregationAfter(lines, k + 1, Factored(st, line[2]))
      BY <2>1, <2>6, AggregationFactor
    <3> QED
      BY <2>3, <2>6, <3>1
  <2>7. CASE line[1] = "aggregationMethod"
    <3>1. st.found /\ AggregationAfter(lines, k + 1, Added(st, line[2]))
      BY <2>1, <2>7, AggregationMethod
    <3> QED
      BY <2>3, <2>7, <3>1
  <2>8. CASE line[1] \notin {"section", "pattern", "xFilesFactor", "aggregationMethod"}
    <3>1. t = st /\ k + 1 \notin SectionAt(lines)
      BY <2>3, <2>8, SectionLines
    <3> QED
      BY <2>1, <2>8, <3>1, AggregationOther
  <2> QED
    BY <2>4, <2>5, <2>6, <2>7, <2>8
<1>3. Nat \subseteq Good
  <2> HIDE DEF Good
  <2> QED
    BY <1>1, <1>2, NatSet
<1> QED
  BY <1>3

(* conf_parse_storage_aggregation_file(), on a file of the documented form  *)
(* of any length, makes one rule per section, in the order of the sections, *)
(* each from the lines of its own section: no xFilesFactor is carried over. *)
THEOREM AggregationParsed ==
  ASSUME NEW lines, Len(lines) \in Nat, WellFormed(lines, AggregationKeys)
  PROVE  aggregation_file(lines) = AggregationAsWritten(lines)
<1> DEFINE st == Loop("aggregation", NoAggregation, lines)[Len(lines)]
           c  == Cardinality(SectionAt(lines))
           w  == AggregationAsWritten(lines)
<1>1. AggregationState(st) /\ AggregationAfter(lines, Len(lines), st)
  BY AggregationStates, AggregationLoop
<1>2. IsList(st.rules)
  BY <1>1 DEF AggregationState
<1>3. Len(st.rules) = c /\ c \in Nat
  <2>1. CASE SectionAt(lines) = {}
    BY <1>1, <2>1, AllSections DEF AggregationAfter
  <2>2. CASE SectionAt(lines) # {}
    <3>1. PICK s : Last(lines, Len(lines), s)
      BY <2>2, AllSections
    <3>2. s \in SectionAt(lines)
      BY <3>1 DEF Last
    <3>3. MethodAt(lines, s) <= Len(lines)
      BY <3>2, AggregationPlaces
    <3> QED
      BY <1>1, <3>1, <3>3, AllSections DEF AggregationAfter
  <2> QED
    BY <2>1, <2>2
<1>4. w = [n \in 1 .. c |-> w[n]]
  BY DEF AggregationAsWritten, SectionAt
<1>5. ASSUME NEW n \in 1 .. c PROVE st.rules[n] = w[n]
  <2>1. PICK s \in SectionAt(lines) : Rank(lines, s) = n
    BY RankOnto
  <2>2. Section(lines, n) = s
    BY <2>1, SectionRank
  <2>3. w[n] = AggregationOf(lines, s)
    BY <2>2 DEF AggregationAsWritten, SectionAt, AggregationOf, Aggregation, Entry, PatternAt,
                XffAt, MethodAt, Place
  <2>4. MethodAt(lines, s) <= Len(lines)
    BY AggregationPlaces
  <2> QED
    BY <1>1, <2>1, <2>3, <2>4 DEF AggregationAfter
<1>6. aggregation_file(lines) = st.rules
  BY DEF aggregation_file
<1> HIDE DEF st, c, w
<1>7. st.rules = w
  BY <1>2, <1>3, <1>4, <1>5, ListEqual
<1> QED
  BY <1>6, <1>7 DEF w

-----------------------------------------------------------------------------
(* carbon.conf                                                              *)

CarbonField == {"conf_dir", "storage_dir", "line_receiver_port", "udp_receiver_port"}
Field(key)  == IF key \in DOMAIN DirKey THEN DirKey[key] ELSE PortKey[key]
Value(line) == IF line[1] \in DOMAIN DirKey THEN line[2] ELSE Number(line[2]) % Wrap

(* The form of what the loop keeps.                                         *)
CarbonState(st) ==
  /\ st = [conf |-> st.conf, status |-> st.status]
  /\ st.conf = [x \in DOMAIN st.conf |-> st.conf[x]]

(* The keys and the members they set.                                       *)
LEMMA CarbonKeys ==
  /\ DOMAIN DirKey = {"CONF_DIR", "STORAGE_DIR"}
  /\ DOMAIN PortKey = {"LINE_RECEIVER_PORT", "UDP_RECEIVER_PORT"}
  /\ KnownKey = {"CONF_DIR", "STORAGE_DIR", "LINE_RECEIVER_PORT", "UDP_RECEIVER_PORT"}
  /\ Field("CONF_DIR") = "conf_dir" /\ Field("STORAGE_DIR") = "storage_dir"
  /\ Field("LINE_RECEIVER_PORT") = "line_receiver_port"
  /\ Field("UDP_RECEIVER_PORT") = "udp_receiver_port"
  /\ \A key \in KnownKey : Field(key) \in CarbonField
<1>1. /\ DOMAIN DirKey = {"CONF_DIR", "STORAGE_DIR"}
      /\ DOMAIN PortKey = {"LINE_RECEIVER_PORT", "UDP_RECEIVER_PORT"}
  BY DEF DirKey, PortKey
<1>2. KnownKey = {"CONF_DIR", "STORAGE_DIR", "LINE_RECEIVER_PORT", "UDP_RECEIVER_PORT"}
  BY <1>1 DEF KnownKey
<1>3. /\ DirKey["CONF_DIR"] = "conf_dir" /\ DirKey["STORAGE_DIR"] = "storage_dir"
      /\ PortKey["LINE_RECEIVER_PORT"] = "line_receiver_port"
      /\ PortKey["UDP_RECEIVER_PORT"] = "udp_receiver_port"
  BY DEF DirKey, PortKey
<1>4. /\ Field("CONF_DIR") = "conf_dir" /\ Field("STORAGE_DIR") = "storage_dir"
      /\ Field("LINE_RECEIVER_PORT") = "line_receiver_port"
      /\ Field("UDP_RECEIVER_PORT") = "udp_receiver_port"
  BY <1>1, <1>3 DEF Field
<1> QED
  BY <1>1, <1>2, <1>4 DEF CarbonField

(* A line sets one member, ends the parsing or does nothing.                *)
Sets(st, line) == st.status = "ok" /\ line[1] \in KnownKey
                  /\ (line[1] \in DOMAIN PortKey => Number(line[2]) <= LongMax)
Ignores(st, line) == st.status # "ok" \/ line[1] \in {"section", "other"}

(* The cases of the loop's body.                                            *)
LEMMA CarbonLine ==
  ASSUME NEW st, CarbonState(st), NEW line, NEW t, t = parse_line("carbon", st, line)
  PROVE  /\ CarbonState(t) /\ DOMAIN t.conf = DOMAIN st.conf
         /\ Sets(st, line) => t.status = "ok" /\ t.conf = [st.conf EXCEPT ![Field(line[1])] = Value(line)]
         /\ Ignores(st, line) => t = st
         /\ ~Sets(st, line) /\ ~Ignores(st, line) => t.conf = st.conf /\ t.status = "error"
<1>1. t = carbon_line(st, line)
  BY DEF parse_line
<1>2. CASE Sets(st, line)
  <2>1. t = [st EXCEPT !.conf[Field(line[1])] = Value(line)]
    <3>1. CASE line[1] \in DOMAIN DirKey
      <4>1. t = [st EXCEPT !.conf[DirKey[line[1]]] = line[2]]
        BY <1>1, <1>2, <3>1, CarbonKeys DEF carbon_line, Sets
      <4> QED
        BY <3>1, <4>1 DEF Field, Value
    <3>2. CASE line[1] \in DOMAIN PortKey
      <4>1. line[1] \notin DOMAIN DirKey
        BY <3>2, CarbonKeys
      <4>2. t = [st EXCEPT !.conf[PortKey[line[1]]] = Number(line[2]) % Wrap]
        BY <1>1, <1>2, <3>2, <4>1, CarbonKeys DEF carbon_line, Sets
      <4> QED
        BY <4>1, <4>2 DEF Field, Value
    <3> QED
      BY <1>2, <3>1, <3>2, CarbonKeys DEF Sets
  <2> DEFINE d == [st.conf EXCEPT ![Field(line[1])] = Value(line)]
  <2>2. t = [conf |-> d, status |-> st.status]
    BY <2>1 DEF CarbonState
  <2>3. DOMAIN d = DOMAIN st.conf /\ d = [x \in DOMAIN d |-> d[x]]
    OBVIOUS
  <2> HIDE DEF d
  <2>4. CarbonState(t) /\ t.conf = d /\ t.status = st.status
    BY <2>2, <2>3 DEF CarbonState
  <2>5. ~Ignores(st, line)
    BY <1>2, CarbonKeys DEF Sets, Ignores
  <2> QED
    BY <1>2, <2>3, <2>4, <2>5 DEF d, Sets
<1>3. CASE Ignores(st, line)
  <2>1. t = st
    BY <1>1, <1>3, CarbonKeys DEF carbon_line, Ignores
  <2>2. ~Sets(st, line)
    BY <1>3, CarbonKeys DEF Sets, Ignores
  <2> QED
    BY <1>3, <2>1, <2>2
<1>4. CASE ~Sets(st, line) /\ ~Ignores(st, line)
  <2>1. t = [st EXCEPT !.status = "error"]
    BY <1>1, <1>4, CarbonKeys DEF carbon_line, Sets, Ignores
  <2>2. t = [conf |-> st.conf, status |-> "error"]
    BY <2>1 DEF CarbonState
  <2> QED
    BY <1>4, <2>2 DEF CarbonState
<1> QED
  BY <1>2, <1>3, <1>4

(* The values in a file: a directory of Dirs for CONF_DIR, numbers for the  *)
(* ports.                                                                   *)
CarbonValues(lines, Dirs) ==
  \A i \in 1 .. Len(lines) :
    /\ lines[i][1] = "CONF_DIR" => lines[i][2] \in Dirs
    /\ lines[i][1] \in DOMAIN PortKey => lines[i][2] \in Int

(* d is what c may have become: other members are as they were.             *)
CarbonFit(c, d, Dirs) ==
  /\ DOMAIN d = DOMAIN c /\ \A x \in DOMAIN c : x \notin CarbonField => d[x] = c[x]
  /\ d["conf_dir"] \in Dirs /\ d["line_receiver_port"] \in 0 .. Wrap - 1
  /\ d["udp_receiver_port"] \in 0 .. Wrap - 1

(* A line keeps it.                                                         *)
LEMMA CarbonFitKept ==
  ASSUME NEW c, CarbonField \subseteq DOMAIN c, NEW Dirs, NEW st, CarbonState(st),
         CarbonFit(c, st.conf, Dirs), NEW line,
         line[1] = "CONF_DIR" => line[2] \in Dirs,
         line[1] \in DOMAIN PortKey => line[2] \in Int
  PROVE  CarbonFit(c, parse_line("carbon", st, line).conf, Dirs)
<1> DEFINE t == parse_line("carbon", st, line)
<1>1. /\ CarbonState(t) /\ DOMAIN t.conf = DOMAIN st.conf
      /\ Sets(st, line) => t.conf = [st.conf EXCEPT ![Field(line[1])] = Value(line)]
      /\ ~Sets(st, line) => t.conf = st.conf
  BY CarbonLine
<1> HIDE DEF t
<1>2. CASE ~Sets(st, line)
  BY <1>1, <1>2 DEF t
<1>3. CASE Sets(st, line)
  <2> DEFINE f == Field(line[1])
             v == Value(line)
  <2>1. line[1] \in KnownKey /\ f \in CarbonField
    BY <1>3, CarbonKeys DEF Sets
  <2>2. f = "conf_dir" => v \in Dirs
    BY <2>1, CarbonKeys DEF Value
  <2>3. f \in {"line_receiver_port", "udp_receiver_port"} => v \in 0 .. Wrap - 1
    <3> SUFFICES ASSUME f \in {"line_receiver_port", "udp_receiver_port"} PROVE v \in 0 .. Wrap - 1
      OBVIOUS
    <3>1. line[1] \in DOMAIN PortKey /\ line[1] \notin DOMAIN DirKey
      BY <2>1, CarbonKeys
    <3>2. Number(line[2]) \in Int /\ v = Number(line[2]) % Wrap
      BY <3>1 DEF Number, NotANumber, Value
    <3> HIDE DEF v
    <3> QED
      BY <3>2, ParserAssumption
  <2> HIDE DEF f, v
  <2>4. t.conf = [st.conf EXCEPT ![f] = v]
    BY <1>1, <1>3 DEF f, v
  <2>5. \A x \in DOMAIN st.conf : t.conf[x] = IF x = f THEN v ELSE st.conf[x]
    BY <2>4
  <2>6. {"conf_dir", "line_receiver_port", "udp_receiver_port"} \subseteq DOMAIN st.conf
    BY DEF CarbonFit, CarbonField
  <2>7. CarbonFit(c, t.conf, Dirs)
    BY <1>1, <2>1, <2>2, <2>3, <2>5, <2>6 DEF CarbonFit
  <2> QED
    BY <2>7 DEF t
<1> QED
  BY <1>2, <1>3

(* conf_parse_carbon_file() leaves the other members of the configuration,  *)
(* the lists of rules among them, alone.                                    *)
LEMMA CarbonKeepsRest ==
  ASSUME NEW c, c = [x \in DOMAIN c |-> c[x]], CarbonField \subseteq DOMAIN c,
         NEW Dirs, CarbonFit(c, c, Dirs),
         NEW lines, Len(lines) \in Nat, CarbonValues(lines, Dirs)
  PROVE  CarbonFit(c, carbon_file(c, lines).conf, Dirs) /\ CarbonState(carbon_file(c, lines))
<1> DEFINE l == Loop("carbon", [conf |-> c, status |-> "ok"], lines)
           Good == {k \in Nat : k <= Len(lines) => CarbonState(l[k]) /\ CarbonFit(c, l[k].conf, Dirs)}
<1>1. 0 \in Good
  <2>1. l[0] = [conf |-> c, status |-> "ok"]
    BY LoopLine
  <2> QED
    BY <2>1 DEF CarbonState
<1>2. ASSUME NEW k \in Nat, k \in Good PROVE k + 1 \in Good
  <2> SUFFICES ASSUME k + 1 <= Len(lines)
               PROVE  CarbonState(l[k + 1]) /\ CarbonFit(c, l[k + 1].conf, Dirs)
    OBVIOUS
  <2>1. CarbonState(l[k]) /\ CarbonFit(c, l[k].conf, Dirs)
    BY <1>2
  <2>2. l[k + 1] = parse_line("carbon", l[k], lines[k + 1])
    BY LoopLine
  <2>3. k + 1 \in 1 .. Len(lines)
    OBVIOUS
  <2>4. /\ lines[k + 1][1] = "CONF_DIR" => lines[k + 1][2] \in Dirs
        /\ lines[k + 1][1] \in DOMAIN PortKey => lines[k + 1][2] \in Int
    BY <2>3 DEF CarbonValues
  <2> HIDE DEF l
  <2>5. CarbonState(parse_line("carbon", l[k], lines[k + 1]))
    BY <2>1, CarbonLine
  <2>6. CarbonFit(c, l[k + 1].conf, Dirs)
    BY <2>1, <2>2, <2>4, CarbonFitKept
  <2> QED
    BY <2>2, <2>5, <2>6
<1>3. Nat \subseteq Good
  <2> HIDE DEF Good
  <2> QED
    BY <1>1, <1>2, NatSet
<1> QED
  BY <1>3 DEF carbon_file

(* A line among the first k sets member x.                                  *)
Seen(lines, k, x) ==
  \E i \in 1 .. k : lines[i][1] \in KnownKey /\ Field(lines[i][1]) = x

(* After k lines two parsings, begun with c and with d, have ended or not   *)
(* alike, and agree on every member that c and d agree on or a line set.    *)
CarbonAgree(c, d, st, tt, lines, k) ==
  /\ CarbonState(st) /\ CarbonState(tt)
  /\ DOMAIN st.conf = DOMAIN c /\ DOMAIN tt.conf = DOMAIN c
  /\ st.status = tt.status
  /\ st.status = "ok" =>
       \A x \in DOMAIN c : c[x] = d[x] \/ Seen(lines, k, x) => st.conf[x] = tt.conf[x]
  /\ \A x \in DOMAIN c : st.conf[x] = c[x] \/ Seen(lines, k, x)

(* The next line keeps that.                                                *)
LEMMA CarbonAgreeKept ==
  ASSUME NEW c, NEW d, NEW st, NEW tt, NEW lines, NEW k \in Nat,
         CarbonField \subseteq DOMAIN c, CarbonAgree(c, d, st, tt, lines, k)
  PROVE  CarbonAgree(c, d, parse_line("carbon", st, lines[k + 1]),
                     parse_line("carbon", tt, lines[k + 1]), lines, k + 1)
<1> DEFINE line == lines[k + 1]
           s1 == parse_line("carbon", st, line)
           t1 == parse_line("carbon", tt, line)
           f  == Field(line[1])
           v  == Value(line)
<1>1. /\ CarbonState(st) /\ CarbonState(tt)
      /\ DOMAIN st.conf = DOMAIN c /\ DOMAIN tt.conf = DOMAIN c /\ st.status = tt.status
  BY DEF CarbonAgree
<1>2. /\ CarbonState(s1) /\ DOMAIN s1.conf = DOMAIN st.conf
      /\ Sets(st, line) => s1.status = "ok" /\ s1.conf = [st.conf EXCEPT ![f] = v]
      /\ Ignores(st, line) => s1 = st
      /\ ~Sets(st, line) /\ ~Ignores(st, line) => s1.conf = st.conf /\ s1.status = "error"
  <2>1. CarbonState(st)
    BY <1>1
  <2> HIDE DEF line
  <2> QED
    BY <2>1, CarbonLine
<1>3. /\ CarbonState(t1) /\ DOMAIN t1.conf = DOMAIN tt.conf
      /\ Sets(tt, line) => t1.status = "ok" /\ t1.conf = [tt.conf EXCEPT ![f] = v]
      /\ Ignores(tt, line) => t1 = tt
      /\ ~Sets(tt, line) /\ ~Ignores(tt, line) => t1.conf = tt.conf /\ t1.status = "error"
  <2>1. CarbonState(tt)
    BY <1>1
  <2> HIDE DEF line
  <2> QED
    BY <2>1, CarbonLine
<1>4. (Sets(tt, line) <=> Sets(st, line)) /\ (Ignores(tt, line) <=> Ignores(st, line))
  BY <1>1 DEF Sets, Ignores
<1>5. \A x : Seen(lines, k + 1, x)
               <=> Seen(lines, k, x) \/ (line[1] \in KnownKey /\ f = x)
  <2>1. 1 .. k + 1 = (1 .. k) \cup {k + 1}
    OBVIOUS
  <2> QED
    BY <2>1 DEF Seen
<1>6. Sets(st, line) => line[1] \in KnownKey /\ f \in DOMAIN c /\ st.status = "ok"
  BY CarbonKeys DEF Sets
<1>7. ~Sets(st, line) /\ st.status = "ok" /\ s1.status = "ok" => line[1] \notin KnownKey
  <2> SUFFICES ASSUME ~Sets(st, line), st.status = "ok", s1.status = "ok", line[1] \in KnownKey
               PROVE  FALSE
    OBVIOUS
  <2>1. ~Ignores(st, line)
    BY CarbonKeys DEF Ignores
  <2> QED
    BY <1>2, <2>1
<1>8. /\ st.status = "ok" =>
           \A x \in DOMAIN c : c[x] = d[x] \/ Seen(lines, k, x) => st.conf[x] = tt.conf[x]
      /\ \A x \in DOMAIN c : st.conf[x] = c[x] \/ Seen(lines, k, x)
  BY DEF CarbonAgree
<1> SUFFICES CarbonAgree(c, d, s1, t1, lines, k + 1)
  OBVIOUS
<1> HIDE DEF line, s1, t1, f, v
<1>9. CASE Sets(st, line)
  <2>1. /\ \A x \in DOMAIN c : s1.conf[x] = IF x = f THEN v ELSE st.conf[x]
        /\ \A x \in DOMAIN c : t1.conf[x] = IF x = f THEN v ELSE tt.conf[x]
        /\ s1.status = "ok" /\ t1.status = "ok" /\ st.status = "ok"
    BY <1>1, <1>2, <1>3, <1>4, <1>6, <1>9
  <2>2. \A x \in DOMAIN c : c[x] = d[x] \/ Seen(lines, k + 1, x) => s1.conf[x] = t1.conf[x]
    BY <1>5, <1>8, <2>1
  <2>3. \A x \in DOMAIN c : s1.conf[x] = c[x] \/ Seen(lines, k + 1, x)
    BY <1>5, <1>6, <1>8, <1>9, <2>1
  <2> QED
    BY <1>1, <1>2, <1>3, <2>1, <2>2, <2>3 DEF CarbonAgree
<1>10. CASE ~Sets(st, line)
  <2>1. s1.conf = st.conf /\ t1.conf = tt.conf /\ s1.status = t1.status
    BY <1>1, <1>2, <1>3, <1>4, <1>10
  <2>2. s1.status = "ok" => st.status = "ok"
    BY <1>2, <1>10
  <2>3. s1.status = "ok" =>
          \A x \in DOMAIN c : c[x] = d[x] \/ Seen(lines, k + 1, x) => s1.conf[x] = t1.conf[x]
    BY <1>5, <1>7, <1>8, <1>10, <2>1, <2>2
  <2>4. \A x \in DOMAIN c : s1.conf[x] = c[x] \/ Seen(lines, k + 1, x)
    BY <1>5, <1>8, <2>1
  <2> QED
    BY <1>1, <1>2, <1>3, <2>1, <2>3, <2>4 DEF CarbonAgree
<1> QED
  BY <1>9, <1>10

(* A key of carbon.conf stands in the file.                                 *)
HasKey(lines, x) == \E key \in KnownKey : Field(key) = x /\ Positions(lines, key) # {}

(* What conf_parse_carbon_file() makes of two configurations: it fails for  *)
(* both or for none, and a member ends the same where it began the same or  *)
(* the file sets it; a member that no line sets keeps its value.            *)
THEOREM CarbonAgrees ==
  ASSUME NEW c, c = [x \in DOMAIN c |-> c[x]], CarbonField \subseteq DOMAIN c,
         NEW d, d = [x \in DOMAIN d |-> d[x]], DOMAIN d = DOMAIN c,
         NEW lines, Len(lines) \in Nat
  PROVE  /\ carbon_file(c, lines).status = carbon_file(d, lines).status
         /\ DOMAIN carbon_file(c, lines).conf = DOMAIN c
         /\ DOMAIN carbon_file(d, lines).conf = DOMAIN c
         /\ CarbonState(carbon_file(c, lines)) /\ CarbonState(carbon_file(d, lines))
         /\ carbon_file(c, lines).status = "ok" =>
              \A x \in DOMAIN c : c[x] = d[x] \/ HasKey(lines, x)
                 => carbon_file(c, lines).conf[x] = carbon_file(d, lines).conf[x]
         /\ \A x \in DOMAIN c : carbon_file(c, lines).conf[x] = c[x] \/ HasKey(lines, x)
<1> DEFINE l == Loop("carbon", [conf |-> c, status |-> "ok"], lines)
           m == Loop("carbon", [conf |-> d, status |-> "ok"], lines)
           Good == {k \in Nat : k <= Len(lines) => CarbonAgree(c, d, l[k], m[k], lines, k)}
<1>1. 0 \in Good
  <2>1. l[0] = [conf |-> c, status |-> "ok"] /\ m[0] = [conf |-> d, status |-> "ok"]
    BY LoopLine
  <2>2. \A x : ~Seen(lines, 0, x)
    BY DEF Seen
  <2> QED
    BY <2>1, <2>2 DEF CarbonState, CarbonAgree
<1>2. ASSUME NEW k \in Nat, k \in Good PROVE k + 1 \in Good
  <2> SUFFICES ASSUME k + 1 <= Len(lines)
               PROVE  CarbonAgree(c, d, l[k + 1], m[k + 1], lines, k + 1)
    OBVIOUS
  <2>1. CarbonAgree(c, d, l[k], m[k], lines, k)
    BY <1>2
  <2>2. /\ l[k + 1] = parse_line("carbon", l[k], lines[k + 1])
        /\ m[k + 1] = parse_line("carbon", m[k], lines[k + 1])
    BY LoopLine
  <2> HIDE DEF l, m
  <2>3. CarbonAgree(c, d, parse_line("carbon", l[k], lines[k + 1]),
                    parse_line("carbon", m[k], lines[k + 1]), lines, k + 1)
    BY <2>1, CarbonAgreeKept
  <2> QED
    BY <2>2, <2>3
<1>3. Nat \subseteq Good
  <2> HIDE DEF Good
  <2> QED
    BY <1>1, <1>2, NatSet
<1>4. CarbonAgree(c, d, carbon_file(c, lines), carbon_file(d, lines), lines, Len(lines))
  BY <1>3 DEF carbon_file
<1>5. \A x : Seen(lines, Len(lines), x) <=> HasKey(lines, x)
  BY DEF Seen, HasKey, Positions
<1> QED
  BY <1>4, <1>5 DEF CarbonAgree
=============================================================================
