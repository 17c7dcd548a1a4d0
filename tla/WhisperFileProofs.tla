------------------------- MODULE WhisperFileProofs -------------------------
(***************************************************************************)
(* Proofs about WhisperFile, for any retentions, timestamps, values and    *)
(* failures.  Only the types are kept whatever the constants are: the rest *)
(* holds where no product or sum overflows (NoOverflow), and in part only  *)
(* where timestamps arrive in order.                                       *)
(***************************************************************************)
EXTENDS WhisperFile, NatSets, FiniteSetTheorems, SequenceTheorems, TLAPS

(* A product with a positive factor is no smaller than the other factor.    *)
LEMMA Product ==
  ASSUME NEW m \in Nat, NEW a \in Int, a >= 1
  PROVE  m * a >= m
<1>1. m * a = m + m * (a - 1)
  OBVIOUS
<1>2. a - 1 >= 0
  OBVIOUS
<1>3. m * (a - 1) >= 0
  BY <1>2
<1> QED
  BY <1>1, <1>3

(* Quotient and remainder by a positive number.                             *)
LEMMA Division ==
  ASSUME NEW x \in Int, NEW m \in Nat, m > 0
  PROVE  /\ x \div m \in Int /\ x % m \in 0 .. m - 1
         /\ x = m * (x \div m) + (x % m)
  OBVIOUS

(* They are the only numbers of that kind.                                  *)
LEMMA DivisionUnique ==
  ASSUME NEW m \in Nat, m > 0, NEW q \in Int, NEW r \in 0 .. m - 1, NEW x \in Int, x = m * q + r
  PROVE  x \div m = q /\ x % m = r
<1> DEFINE p == x \div m
           s == x % m
<1>1. p \in Int /\ s \in 0 .. m - 1 /\ x = m * p + s
  BY Division
<1> HIDE DEF p, s
<1>2. m * (p - q) = r - s
  <2>1. m * (p - q) = m * p - m * q
    BY <1>1
  <2>2. m * p \in Int /\ m * q \in Int
    BY <1>1
  <2> QED
    BY <1>1, <2>1, <2>2
<1>3. ~ (p - q >= 1)
  <2> SUFFICES ASSUME p - q >= 1 PROVE FALSE
    OBVIOUS
  <2>1. m * (p - q) >= m
    BY <1>1, Product
  <2> QED
    BY <1>1, <1>2, <2>1
<1>4. ~ (q - p >= 1)
  <2> SUFFICES ASSUME q - p >= 1 PROVE FALSE
    OBVIOUS
  <2>1. m * (q - p) >= m
    BY <1>1, Product
  <2>2. m * (q - p) = - (m * (p - q))
    BY <1>1
  <2> QED
    BY <1>1, <1>2, <2>1, <2>2
<1>5. p = q
  BY <1>1, <1>3, <1>4
<1>6. s = r
  <2>1. m * p = m * q /\ m * p \in Int
    BY <1>1, <1>5
  <2> QED
    BY <1>1, <2>1
<1> QED
  BY <1>5, <1>6 DEF p, s

(* What fits in a uint32_t is kept.                                         *)
LEMMA UKeeps ==
  ASSUME NEW x \in Int
  PROVE  U(x) \in 0 .. W - 1 /\ (x \in 0 .. W - 1 => U(x) = x)
<1>1. W \in Nat /\ W > 0
  BY WhisperAssumption
<1>2. U(x) \in 0 .. W - 1
  BY <1>1, Division DEF U
<1>3. ASSUME x \in 0 .. W - 1 PROVE U(x) = x
  <2>1. x = W * 0 + x
    BY <1>1
  <2> QED
    BY <1>1, <1>3, <2>1, DivisionUnique DEF U
<1> QED
  BY <1>2, <1>3

-----------------------------------------------------------------------------
(* The archives                                                             *)

(* Every retention gives an archive.                                        *)
LEMMA Archives ==
  /\ W \in Nat /\ W > 12
  /\ NbArch \in Nat
  /\ \A i \in Archive : i \in Nat /\ i + 1 \in 1 .. NbArch
                        /\ Spp(i) \in Nat /\ Spp(i) > 0 /\ NbPoints(i) \in Nat
<1>1. Retentions \in Seq([tpp : Nat \ {0}, store : Nat])
  BY WhisperAssumption
<1>2. NbArch \in Nat
  BY <1>1 DEF NbArch
<1>3. ASSUME NEW i \in Archive PROVE i \in Nat /\ i + 1 \in 1 .. NbArch
                        /\ Spp(i) \in Nat /\ Spp(i) > 0 /\ NbPoints(i) \in Nat
  <2>1. i \in Nat /\ i + 1 \in 1 .. NbArch
    BY <1>2 DEF Archive
  <2>2. Retentions[i + 1] \in [tpp : Nat \ {0}, store : Nat]
    BY <1>1, <2>1, ElementOfSeq DEF NbArch
  <2>3. Spp(i) \in Nat /\ Spp(i) > 0 /\ Retentions[i + 1].store \in Nat
    BY <2>2 DEF Spp
  <2>4. ASSUME NEW s \in Nat, NEW m \in Nat, m > 0 PROVE s \div m \in Nat
    <3>1. s \div m \in Int /\ s % m \in 0 .. m - 1 /\ s = m * (s \div m) + (s % m)
      BY <2>4, Division
    <3>2. ASSUME NEW q \in Int, s = m * q + (s % m), q < 0 PROVE FALSE
      <4>1. m * (-q) >= m
        BY <3>2, Product
      <4>2. m * (-q) = -(m * q) /\ m * q \in Int
        OBVIOUS
      <4> QED
        BY <3>1, <3>2, <4>1, <4>2
    <3> QED
      BY <3>1, <3>2
  <2>5. NbPoints(i) \in Nat
    BY <2>3, <2>4 DEF NbPoints
  <2> QED
    BY <2>1, <2>3, <2>5
<1> QED
  BY <1>2, <1>3, WhisperAssumption

Place(f, i) == IF i = 0 THEN U(WHISPER_HEADER_SIZE + NbArch * WHISPER_ARCHIVE_SIZE)
                        ELSE U(f[i - 1] + NbPoints(i - 1) * WHISPER_POINT_SIZE)

(* The recursive definition of Offset has a solution, built one archive at  *)
(* a time, so that Offset satisfies it.                                     *)
LEMMA OffsetPlaces == Offset = [i \in 0 .. NbArch |-> Place(Offset, i)]
<1> DEFINE Far == {n \in Nat : \E f : f = [k \in 0 .. n |-> Place(f, k)]}
<1>0. NbArch \in Nat
  BY Archives
<1>1. 0 \in Far
  <2> DEFINE f == [k \in 0 .. 0 |-> U(WHISPER_HEADER_SIZE + NbArch * WHISPER_ARCHIVE_SIZE)]
  <2>1. f = [k \in 0 .. 0 |-> Place(f, k)]
    BY DEF Place
  <2> QED
    BY <2>1
<1>2. ASSUME NEW n \in Nat, n \in Far PROVE n + 1 \in Far
  <2>1. PICK f : f = [k \in 0 .. n |-> Place(f, k)]
    BY <1>2
  <2> DEFINE g == [k \in 0 .. n + 1 |-> IF k = n + 1 THEN Place(f, k) ELSE f[k]]
  <2>2. ASSUME NEW k \in 0 .. n + 1 PROVE g[k] = Place(g, k)
    <3>1. CASE k = n + 1
      <4>1. (n + 1) - 1 = n /\ n + 1 # 0 /\ n \in 0 .. n + 1 /\ n # n + 1
        OBVIOUS
      <4>2. g[n] = f[n] /\ g[k] = Place(f, k)
        BY <3>1, <4>1
      <4> QED
        BY <3>1, <4>1, <4>2 DEF Place
    <3>2. CASE k # n + 1
      <4>1. k \in 0 .. n /\ (k # 0 => k - 1 \in 0 .. n)
        BY <3>2
      <4>2. g[k] = f[k] /\ f[k] = Place(f, k) /\ (k # 0 => g[k - 1] = f[k - 1])
        BY <2>1, <3>2, <4>1
      <4> QED
        BY <4>2 DEF Place
    <3> QED
      BY <3>1, <3>2
  <2>3. g = [k \in 0 .. n + 1 |-> Place(g, k)]
    BY <2>2
  <2>4. n + 1 \in Nat
    OBVIOUS
  <2> HIDE DEF g
  <2> QED
    BY <2>3, <2>4
<1>3. NbArch \in Far
  BY <1>0, <1>1, <1>2, NatSet
<1>4. PICK f : f = [k \in 0 .. NbArch |-> Place(f, k)]
  BY <1>3
<1> QED
  BY <1>4, Zenon DEF Offset, Place

(* Offsets fit in a uint32_t.                                               *)
LEMMA OffsetType == \A i \in 0 .. NbArch : Offset[i] \in 0 .. W - 1
<1>1. NbArch \in Nat
  BY Archives
<1> DEFINE Fit == {n \in Nat : n <= NbArch => Offset[n] \in 0 .. W - 1}
<1>2. 0 \in Fit
  <2>1. Offset[0] = U(WHISPER_HEADER_SIZE + NbArch * WHISPER_ARCHIVE_SIZE)
    BY <1>1, OffsetPlaces DEF Place
  <2>2. WHISPER_HEADER_SIZE + NbArch * WHISPER_ARCHIVE_SIZE \in Int
    BY <1>1 DEF WHISPER_HEADER_SIZE, WHISPER_ARCHIVE_SIZE
  <2> QED
    BY <2>1, <2>2, UKeeps
<1>3. ASSUME NEW n \in Nat, n \in Fit PROVE n + 1 \in Fit
  <2> SUFFICES ASSUME n + 1 <= NbArch PROVE Offset[n + 1] \in 0 .. W - 1
    OBVIOUS
  <2>1. Offset[n + 1] = U(Offset[n] + NbPoints(n) * WHISPER_POINT_SIZE)
    <3>1. n + 1 \in 0 .. NbArch /\ n + 1 # 0 /\ (n + 1) - 1 = n
      BY <1>1
    <3> QED
      BY <3>1, OffsetPlaces DEF Place
  <2>2. Offset[n] \in Int /\ NbPoints(n) \in Nat
    BY <1>1, <1>3, Archives DEF Archive
  <2>3. Offset[n] + NbPoints(n) * WHISPER_POINT_SIZE \in Int
    BY <2>2 DEF WHISPER_POINT_SIZE
  <2> QED
    BY <2>1, <2>3, UKeeps
<1>4. Nat \subseteq Fit
  BY <1>2, <1>3, NatSet
<1> QED
  BY <1>1, <1>4

-----------------------------------------------------------------------------
(* Types                                                                    *)

Header == [offset : 0 .. W - 1, spp : Nat, points : Nat]
File   == [exists : BOOLEAN, count : 0 .. NbArch, info : [Archive -> Header],
           points : [Grid -> Point], torn : BOOLEAN]
Status == {"ok", "sigfpe", "abort", "overrun"}

(* Header h of archive i was written at creation, up to some field.         *)
Written(i, h) == h \in {Cut(ArchInfo(i), n) : n \in 0 .. 3}
(* A header has a time step only if the ones before it do.                  *)
InTurn(info)  == \A i, j \in Archive : j < i /\ info[i].spp # 0 => info[j].spp # 0
FileOK(f)     == f \in File /\ InTurn(f.info) /\ \A i \in Archive : Written(i, f.info[i])
SameHead(f, g) == g.exists = f.exists /\ g.count = f.count /\ g.info = f.info

(* A header with a time step has its offset too, and its number of points   *)
(* if creation came that far.                                               *)
LEMMA Headers ==
  ASSUME NEW i \in Archive, NEW h, Written(i, h)
  PROVE  /\ h \in Header
         /\ h.spp # 0 => h.offset = Offset[i] /\ h.spp = Spp(i) /\ h.points \in {0, NbPoints(i)}
<1>1. Offset[i] \in 0 .. W - 1 /\ Spp(i) \in Nat /\ NbPoints(i) \in Nat /\ W \in Nat /\ W > 12
  BY Archives, OffsetType DEF Archive
<1>2. PICK n \in 0 .. 3 : h = Cut(ArchInfo(i), n)
  BY DEF Written
<1>3. h = [offset |-> IF n >= 1 THEN Offset[i] ELSE 0,
           spp    |-> IF n >= 2 THEN Spp(i) ELSE 0,
           points |-> IF n >= 3 THEN NbPoints(i) ELSE 0]
  BY <1>2 DEF Cut, ArchInfo
<1> QED
  BY <1>1, <1>3 DEF Header

(* A header that was read is one of the file's, or all 0.                   *)
LEMMA ReadHeader ==
  ASSUME NEW f, FileOK(f), NEW i \in Int
  PROVE  /\ ReadInfo(f, i) \in Header
         /\ i \in Archive => Written(i, ReadInfo(f, i))
         /\ ReadInfo(f, i).spp # 0 => i \in Archive
<1>1. CASE i \in Archive
  BY <1>1, Headers DEF FileOK, ReadInfo
<1>2. CASE i \notin Archive
  BY <1>2, Archives DEF ReadInfo, NoInfo, Header
<1> QED
  BY <1>1, <1>2

(* A point that was never written is all 0.                                 *)
LEMMA NoPointType == NoPoint \in Point
  BY Archives DEF NoPoint, Zero, Point

(* Whatever is read is a point.                                             *)
LEMMA ReadType ==
  ASSUME NEW f \in File, NEW off
  PROVE  ReadPoint(f, off) \in Point
<1>1. f.points \in [Grid -> Point]
  BY DEF File
<1>2. OnGrid(off) => Cell(off) \in Grid
  BY Zenon DEF OnGrid, Cell
<1> QED
  BY <1>1, <1>2, NoPointType DEF ReadPoint

(* A write changes one point, or tears the file.                            *)
LEMMA WriteType ==
  ASSUME NEW f \in File, NEW off, NEW pt \in Point
  PROVE  WritePoint(f, off, pt) \in File /\ SameHead(f, WritePoint(f, off, pt))
<1>1. f.points \in [Grid -> Point]
  BY DEF File
<1>2. CASE OnGrid(off)
  <2>1. [f.points EXCEPT ![Cell(off)] = pt] \in [Grid -> Point]
    BY <1>1
  <2>2. WritePoint(f, off, pt) = [f EXCEPT !.points = [f.points EXCEPT ![Cell(off)] = pt]]
    BY <1>2 DEF WritePoint
  <2> QED
    BY <2>1, <2>2 DEF File, SameHead
<1>3. CASE ~OnGrid(off)
  <2>1. WritePoint(f, off, pt) = [f EXCEPT !.torn = TRUE]
    BY <1>3 DEF WritePoint
  <2> QED
    BY <2>1 DEF File, SameHead
<1> QED
  BY <1>2, <1>3

(* So does whisper_write_point(), or it leaves the file alone.              *)
LEMMA WritePointType ==
  ASSUME NEW f \in File, NEW a, NEW ts, NEW pt \in Point
  PROVE  LET r == whisper_write_point(f, a, ts, pt) IN
           r.f \in File /\ r.st \in Status /\ SameHead(f, r.f)
<1>1. SameHead(f, f)
  BY DEF SameHead
<1>2. \A off : WritePoint(f, off, pt) \in File /\ SameHead(f, WritePoint(f, off, pt))
  BY WriteType
<1> QED
  BY <1>1, <1>2 DEF whisper_write_point, Status

(* What is aggregated of points is the value of a point.                    *)
LEMMA AggregateType ==
  ASSUME NEW pts \in SUBSET Point, NEW ts \in 0 .. W - 1
  PROVE  [ts |-> ts, val |-> whisper_aggregate_values(pts)] \in Point
<1>1. UNION {p.val.of : p \in pts} \in SUBSET ((0 .. W - 1) \X Values)
  <2>1. \A p \in pts : p.val.of \subseteq (0 .. W - 1) \X Values
    BY DEF Point
  <2> QED
    BY <2>1
<1> QED
  BY <1>1 DEF whisper_aggregate_values, Zero, Point

(* And so does whisper_write_propagate().                                   *)
LEMMA PropagateType ==
  ASSUME NEW f \in File, NEW ts \in 0 .. W - 1, NEW hi, NEW lo, NEW fails
  PROVE  LET r == whisper_write_propagate(f, ts, hi, lo, fails) IN
           r.f \in File /\ r.st \in Status /\ SameHead(f, r.f)
<1>1. SameHead(f, f)
  BY DEF SameHead
<1>2. \A start, end, n, from : Known(f, hi, start, end, n, from) \in SUBSET Point
  BY ReadType DEF Known
<1>3. \A pts \in SUBSET Point :
        LET r == whisper_write_point(f, lo, ts, [ts |-> ts, val |-> whisper_aggregate_values(pts)]) IN
          r.f \in File /\ r.st \in Status /\ SameHead(f, r.f)
  BY AggregateType, WritePointType
<1> QED
  BY <1>1, <1>2, <1>3 DEF whisper_write_propagate, Status

-----------------------------------------------------------------------------
(* The loop over the lower archives                                         *)

Turn(f, aligned, failing, first, u, k) ==
  IF k = 0 THEN [f |-> first.f, st |-> first.st, go |-> TRUE]
  ELSE IF k = f.count THEN u[k - 1] ELSE Lower(f, aligned, failing, k, u[k - 1])

(* The recursive definition of Turns has a solution, built one turn at a    *)
(* time, so that Turns satisfies it.                                        *)
LEMMA TurnsTaken ==
  ASSUME NEW f, NEW aligned, NEW failing, NEW first, f.count \in Nat
  PROVE  LET t == Turns(f, aligned, failing, first) IN
           t = [k \in 0 .. f.count |-> Turn(f, aligned, failing, first, t, k)]
<1> DEFINE T(u, k) == Turn(f, aligned, failing, first, u, k)
           Far == {n \in Nat : \E u : u = [k \in 0 .. n |-> T(u, k)]}
<1>1. 0 \in Far
  <2> DEFINE u == [k \in 0 .. 0 |-> [f |-> first.f, st |-> first.st, go |-> TRUE]]
  <2>1. u = [k \in 0 .. 0 |-> T(u, k)]
    BY DEF Turn
  <2> QED
    BY <2>1
<1>2. ASSUME NEW n \in Nat, n \in Far PROVE n + 1 \in Far
  <2>1. PICK u : u = [k \in 0 .. n |-> T(u, k)]
    BY <1>2
  <2> DEFINE v == [k \in 0 .. n + 1 |-> IF k = n + 1 THEN T(u, k) ELSE u[k]]
  <2>2. ASSUME NEW k \in 0 .. n + 1 PROVE v[k] = T(v, k)
    <3>1. CASE k = n + 1
      <4>1. (n + 1) - 1 = n /\ n + 1 # 0 /\ n \in 0 .. n + 1 /\ n # n + 1
        OBVIOUS
      <4>2. v[n] = u[n] /\ v[k] = T(u, k)
        BY <3>1, <4>1
      <4> QED
        BY <3>1, <4>1, <4>2 DEF Turn
    <3>2. CASE k # n + 1
      <4>1. k \in 0 .. n /\ (k # 0 => k - 1 \in 0 .. n)
        BY <3>2
      <4>2. v[k] = u[k] /\ u[k] = T(u, k) /\ (k # 0 => v[k - 1] = u[k - 1])
        BY <2>1, <3>2, <4>1
      <4> QED
        BY <4>2 DEF Turn
    <3> QED
      BY <3>1, <3>2
  <2>3. v = [k \in 0 .. n + 1 |-> T(v, k)]
    BY <2>2
  <2>4. n + 1 \in Nat
    OBVIOUS
  <2> HIDE DEF v
  <2> QED
    BY <2>3, <2>4
<1>3. f.count \in Far
  BY <1>1, <1>2, NatSet
<1>4. PICK u : u = [k \in 0 .. f.count |-> T(u, k)]
  BY <1>3
<1> QED
  BY <1>4, Zenon DEF Turns, Turn

(* What the write to the first archive left is in S, and every turn leaves  *)
(* S: so does the loop.                                                     *)
LEMMA TurnsIn ==
  ASSUME NEW f, NEW aligned, NEW failing, NEW first, f.count \in Nat, NEW S,
         [f |-> first.f, st |-> first.st, go |-> TRUE] \in S,
         \A k \in 1 .. f.count - 1 : \A s \in S : Lower(f, aligned, failing, k, s) \in S
  PROVE  Turns(f, aligned, failing, first)[f.count] \in S
<1> DEFINE t == Turns(f, aligned, failing, first)
           Far == {n \in Nat : n <= f.count => t[n] \in S}
<1>1. t = [k \in 0 .. f.count |-> Turn(f, aligned, failing, first, t, k)]
  BY TurnsTaken
<1> HIDE DEF t
<1>2. 0 \in Far
  BY <1>1 DEF Turn
<1>3. ASSUME NEW n \in Nat, n \in Far PROVE n + 1 \in Far
  <2> SUFFICES ASSUME n + 1 <= f.count PROVE t[n + 1] \in S
    OBVIOUS
  <2>1. n + 1 \in 0 .. f.count /\ n + 1 # 0 /\ (n + 1) - 1 = n /\ n <= f.count
    OBVIOUS
  <2>2. t[n] \in S
    BY <1>3, <2>1
  <2>3. t[n + 1] = Turn(f, aligned, failing, first, t, n + 1)
    BY <1>1, <2>1
  <2>4. CASE n + 1 = f.count
    BY <2>1, <2>2, <2>3, <2>4 DEF Turn
  <2>5. CASE n + 1 # f.count
    <3>1. n + 1 \in 1 .. f.count - 1
      BY <2>5
    <3>2. t[n + 1] = Lower(f, aligned, failing, n + 1, t[n])
      BY <2>1, <2>3, <2>5 DEF Turn
    <3> QED
      BY <2>2, <3>1, <3>2
  <2> QED
    BY <2>4, <2>5
<1>4. Nat \subseteq Far
  BY <1>2, <1>3, NatSet
<1> QED
  BY <1>4 DEF t

(* The state of the loop: the file it works on has the headers of f.        *)
Loop(f) == {s \in [f : File, st : Status, go : BOOLEAN] : SameHead(f, s.f)}

(* A turn changes the file in whisper_write_propagate() alone.              *)
LEMMA LowerType ==
  ASSUME NEW f, NEW aligned \in 0 .. W - 1, NEW failing, NEW k, NEW s \in Loop(f)
  PROVE  Lower(f, aligned, failing, k, s) \in Loop(f)
<1>0. s.f \in File /\ s.st \in Status /\ s.go \in BOOLEAN /\ SameHead(f, s.f)
      /\ s \in [f : File, st : Status, go : BOOLEAN]
  BY DEF Loop
<1> DEFINE r == whisper_write_propagate(s.f, aligned, ReadInfo(f, k - 1), ReadInfo(f, k), k \in failing)
<1>1. r.f \in File /\ r.st \in Status /\ SameHead(s.f, r.f)
  BY <1>0, PropagateType
<1>2. SameHead(f, r.f)
  BY <1>0, <1>1 DEF SameHead
<1>3. Lower(f, aligned, failing, k, s) \in
        {s, [s EXCEPT !.st = "abort"], [s EXCEPT !.go = FALSE], [f |-> r.f, st |-> r.st, go |-> TRUE]}
  BY Zenon DEF Lower
<1> HIDE DEF r
<1>4. [s EXCEPT !.st = "abort"] \in Loop(f) /\ [s EXCEPT !.go = FALSE] \in Loop(f)
  <2>1. "abort" \in Status
    BY DEF Status
  <2> HIDE DEF File, Status, SameHead
  <2> QED
    BY <1>0, <2>1 DEF Loop
<1>5. [f |-> r.f, st |-> r.st, go |-> TRUE] \in Loop(f)
  BY <1>1, <1>2 DEF Loop
<1> QED
  BY <1>3, <1>4, <1>5

(* A timestamp, aligned to a step, still fits.                              *)
LEMMA Aligned ==
  ASSUME NEW t \in 0 .. W - 1, NEW m \in Nat, m > 0
  PROVE  t - (t % m) \in 0 .. W - 1 /\ t - (t % m) <= t
<1>0. W \in Nat
  BY Archives
<1>1. t \div m \in Int /\ t % m \in 0 .. m - 1 /\ t = m * (t \div m) + (t % m)
  BY <1>0, Division
<1>2. ASSUME NEW q \in Int, t = m * q + (t % m), q < 0 PROVE FALSE
  <2>1. m * (-q) >= m
    BY <1>2, Product
  <2>2. m * (-q) = -(m * q) /\ m * q \in Int
    OBVIOUS
  <2> QED
    BY <1>0, <1>1, <1>2, <2>1, <2>2
<1>3. m * (t \div m) >= 0
  BY <1>1, <1>2
<1> QED
  BY <1>0, <1>1, <1>3

(* The headers of creation, whole or cut short.                             *)
LEMMA HeadWritten ==
  ASSUME NEW i \in Archive
  PROVE  Written(i, NoInfo) /\ Written(i, ArchInfo(i)) /\ \A n \in 0 .. 3 : Written(i, Cut(ArchInfo(i), n))
<1>1. Cut(ArchInfo(i), 0) = NoInfo
  BY DEF Cut, NoInfo
<1>2. Cut(ArchInfo(i), 3) = ArchInfo(i)
  BY DEF Cut, ArchInfo
<1>3. \A n \in 0 .. 3 : Written(i, Cut(ArchInfo(i), n))
  BY DEF Written
<1> QED
  BY <1>1, <1>2, <1>3

(* No file, a new one and one whose creation was cut short.                 *)
LEMMA CreatedType ==
  /\ FileOK(NoFile) /\ FileOK(Created) /\ \A g \in CutShort : FileOK(g)
  /\ \A g \in {NoFile, Created} \cup CutShort : g.points = [c \in Grid |-> NoPoint] /\ g.torn = FALSE
  /\ NoFile.exists = FALSE /\ Created.exists = TRUE /\ \A g \in CutShort : g.exists = TRUE
<1>0. NbArch \in Nat /\ 0 \in 0 .. NbArch /\ NbArch \in 0 .. NbArch
  BY Archives
<1> DEFINE none == [c \in Grid |-> NoPoint]
           made(e, n, info) == [exists |-> e, count |-> n, info |-> info, points |-> none, torn |-> FALSE]
<1>1. none \in [Grid -> Point]
  BY NoPointType
<1>2. ASSUME NEW e \in BOOLEAN, NEW n \in 0 .. NbArch, NEW info,
             info = [i \in Archive |-> info[i]], \A i \in Archive : Written(i, info[i]), InTurn(info)
      PROVE  FileOK(made(e, n, info)) /\ made(e, n, info).points = none
             /\ made(e, n, info).torn = FALSE /\ made(e, n, info).exists = e
  <2>1. \A i \in Archive : info[i] \in Header
    BY <1>2, Headers
  <2>2. info \in [Archive -> Header]
    BY <1>2, <2>1
  <2> HIDE DEF none
  <2>3. made(e, n, info) \in File /\ made(e, n, info).info = info
    BY <1>1, <2>2 DEF File
  <2> QED
    BY <1>2, <2>3 DEF FileOK
<1>3. NoFile = made(FALSE, 0, [i \in Archive |-> NoInfo])
  BY DEF NoFile
<1>4. Created = made(TRUE, NbArch, [i \in Archive |-> ArchInfo(i)])
  <2> DEFINE none_info == [i \in Archive |-> NoInfo]
             all_info  == [i \in Archive |-> ArchInfo(i)]
  <2>1. NoFile = made(FALSE, 0, none_info) /\ Created = [NoFile EXCEPT !.exists = TRUE, !.count = NbArch, !.info = all_info]
    BY <1>3 DEF Created
  <2> HIDE DEF none, none_info, all_info, NoFile
  <2>2. Created = made(TRUE, NbArch, all_info)
    BY <2>1
  <2> QED
    BY <2>2 DEF all_info
<1> DEFINE cut(i, n) == [j \in Archive |-> IF j < i THEN ArchInfo(j) ELSE IF j = i THEN Cut(ArchInfo(i), n) ELSE NoInfo]
<1>5. ASSUME NEW g \in CutShort
      PROVE  \/ g = made(TRUE, 0, [i \in Archive |-> NoInfo])
             \/ \E i \in Archive, n \in 0 .. 3 : g = made(TRUE, NbArch, cut(i, n))
  <2>1. CASE g = Emptied
    BY <1>3, <2>1 DEF Emptied
  <2>2. ASSUME NEW i \in Archive, NEW n \in 0 .. 3, g = [Created EXCEPT !.info = cut(i, n)]
        PROVE  g = made(TRUE, NbArch, cut(i, n))
    <3> HIDE DEF none, cut
    <3> QED
      BY <1>4, <2>2
  <2>3. g = Emptied \/ \E i \in Archive, n \in 0 .. 3 : g = CutAt(i, n)
    BY <1>5 DEF CutShort
  <2>4. \A i, n : CutAt(i, n) = [Created EXCEPT !.info = cut(i, n)]
    BY DEF CutAt
  <2> HIDE DEF cut, made
  <2> QED
    BY <2>1, <2>2, <2>3, <2>4
<1>6. \A i \in Archive, n \in 0 .. 3 : \A j \in Archive : Written(j, cut(i, n)[j])
  BY HeadWritten
<1>7. \A i \in Archive, n \in 0 .. 3 : cut(i, n) = [j \in Archive |-> cut(i, n)[j]]
  OBVIOUS
<1>8. \A i \in Archive : Written(i, [j \in Archive |-> NoInfo][i]) /\ Written(i, [j \in Archive |-> ArchInfo(j)][i])
  BY HeadWritten
<1>a. InTurn([i \in Archive |-> NoInfo])
  BY DEF InTurn, NoInfo
<1>b. InTurn([i \in Archive |-> ArchInfo(i)])
  BY Archives DEF InTurn, ArchInfo
<1>c. ASSUME NEW i \in Archive, NEW n \in 0 .. 3 PROVE InTurn(cut(i, n))
  <2>1. \A j \in Archive : j \in Nat /\ ArchInfo(j).spp # 0
    BY Archives DEF ArchInfo
  <2>2. \A j \in Archive : (j < i => cut(i, n)[j].spp # 0) /\ (j > i => cut(i, n)[j].spp = 0)
    BY <2>1 DEF NoInfo
  <2> HIDE DEF cut
  <2> QED
    BY <2>1, <2>2 DEF InTurn
<1> HIDE DEF made, cut, none
<1>9. \A e \in BOOLEAN, n \in 0 .. NbArch : \A info \in {[i \in Archive |-> NoInfo], [i \in Archive |-> ArchInfo(i)]} :
        FileOK(made(e, n, info)) /\ made(e, n, info).points = none
             /\ made(e, n, info).torn = FALSE /\ made(e, n, info).exists = e
  BY <1>2, <1>8, <1>a, <1>b
<1>10. \A g \in CutShort : FileOK(g) /\ g.points = none /\ g.torn = FALSE /\ g.exists = TRUE
  <2> SUFFICES ASSUME NEW g \in CutShort PROVE FileOK(g) /\ g.points = none /\ g.torn = FALSE /\ g.exists = TRUE
    OBVIOUS
  <2>1. CASE g = made(TRUE, 0, [i \in Archive |-> NoInfo])
    BY <1>0, <1>9, <2>1
  <2>2. ASSUME NEW i \in Archive, NEW n \in 0 .. 3, g = made(TRUE, NbArch, cut(i, n))
        PROVE  FileOK(g) /\ g.points = none /\ g.torn = FALSE /\ g.exists = TRUE
    BY <1>0, <1>2, <1>6, <1>7, <1>c, <2>2
  <2> QED
    BY <1>5, <2>1, <2>2
<1> QED
  BY <1>0, <1>3, <1>4, <1>9, <1>10 DEF none

(* The point archive 0 is given.                                            *)
NewPoint(aligned, v) == [ts |-> aligned, val |-> Raw(aligned, v)]

(* whisper_write_value() on an open file.                                   *)
LEMMA WriteOpenType ==
  ASSUME NEW f, FileOK(f), NEW timestamp \in Timestamps, NEW v \in Values, NEW failing, kept \in 0 .. W - 1
  PROVE  LET r == WriteOpen(f, timestamp, v, failing) IN
           FileOK(r.f) /\ SameHead(f, r.f) /\ r.st \in Status /\ r.kept \in 0 .. W - 1
<1> DEFINE arch    == ReadInfo(f, 0)
           aligned == timestamp - (timestamp % arch.spp)
           first   == IF 0 \in failing THEN [f |-> f, st |-> "ok"]
                      ELSE whisper_write_point(f, arch, aligned, NewPoint(aligned, v))
           last    == Turns(f, aligned, failing, first)[f.count]
           r       == WriteOpen(f, timestamp, v, failing)
<1>0. f \in File /\ f.count \in Nat
  BY Archives DEF FileOK, File
<1>1. SameHead(f, f) /\ "ok" \in Status /\ "sigfpe" \in Status
  BY DEF SameHead, Status
<1>2. ASSUME NEW g \in File, SameHead(f, g) PROVE FileOK(g)
  BY <1>2 DEF FileOK, SameHead
<1>3. CASE arch.spp = 0
  <2>1. r = [f |-> f, st |-> "sigfpe", kept |-> kept]
    BY <1>3 DEF WriteOpen
  <2> QED
    BY <1>1, <2>1
<1>4. CASE arch.spp # 0
  <2>1. arch.spp \in Nat /\ arch.spp > 0
    BY <1>4, ReadHeader DEF Header
  <2>2. timestamp \in 0 .. W - 1
    BY WhisperAssumption
  <2>3. aligned \in 0 .. W - 1
    BY <2>1, <2>2, Aligned
  <2>4. NewPoint(aligned, v) \in Point
    <3> HIDE DEF aligned
    <3> QED
      BY <2>3 DEF NewPoint, Raw, Point
  <2>5. r = [f |-> last.f, st |-> last.st, kept |-> IF 0 \notin failing /\ first.st = "ok" THEN aligned ELSE kept]
    BY <1>4, Zenon DEF WriteOpen, NewPoint
  <2> HIDE DEF arch, aligned, r
  <2>6. first.f \in File /\ first.st \in Status /\ SameHead(f, first.f)
    BY <1>0, <1>1, <2>4, WritePointType
  <2> HIDE DEF first
  <2>7. [f |-> first.f, st |-> first.st, go |-> TRUE] \in Loop(f)
    BY <2>6 DEF Loop
  <2>8. last \in Loop(f)
    BY <1>0, <2>3, <2>7, LowerType, TurnsIn
  <2> HIDE DEF last
  <2>9. last.f \in File /\ last.st \in Status /\ SameHead(f, last.f)
    BY <2>8 DEF Loop
  <2> QED
    BY <1>2, <2>3, <2>5, <2>9 DEF r
<1> QED
  BY <1>3, <1>4

-----------------------------------------------------------------------------
(* Type correctness                                                         *)

TypeInv ==
  /\ FileOK(file) /\ status \in Status
  /\ newest \in 0 .. W - 1 /\ kept \in 0 .. W - 1
  /\ base \in [Archive -> 0 .. W - 1]

(* The types hold before the file is there.                                 *)
LEMMA TypeInit == Init => TypeInv
  BY CreatedType, Archives DEF Init, TypeInv, Status

(* Storing what whisper_write_value() left keeps the types.                 *)
LEMMA StoredType ==
  ASSUME TypeInv, NEW f, FileOK(f), NEW timestamp \in Timestamps, NEW v \in Values, NEW failing,
         Accept(timestamp), Stored(WriteOpen(f, timestamp, v, failing))
  PROVE  TypeInv'
<1> DEFINE r == WriteOpen(f, timestamp, v, failing)
<1>1. kept \in 0 .. W - 1 /\ newest \in 0 .. W - 1 /\ base \in [Archive -> 0 .. W - 1]
  BY DEF TypeInv
<1>2. FileOK(r.f) /\ r.st \in Status /\ r.kept \in 0 .. W - 1
  BY <1>1, WriteOpenType
<1>3. file' = r.f /\ status' = r.st /\ kept' = r.kept
      /\ base' = [i \in Archive |-> IF base[i] # 0 THEN base[i] ELSE ReadPoint(r.f, Offset[i]).ts]
  BY DEF Stored
<1> HIDE DEF r
<1>4. \A i \in Archive : ReadPoint(r.f, Offset[i]).ts \in 0 .. W - 1
  <2>1. r.f \in File
    BY <1>2 DEF FileOK
  <2>2. \A i : ReadPoint(r.f, Offset[i]) \in Point
    BY <2>1, ReadType
  <2> QED
    BY <2>2 DEF Point
<1>5. base' \in [Archive -> 0 .. W - 1]
  BY <1>1, <1>3, <1>4
<1>6. newest' \in 0 .. W - 1
  BY <1>1, WhisperAssumption DEF Accept
<1>7. FileOK(file')
  BY <1>2, <1>3
<1> QED
  BY <1>2, <1>3, <1>5, <1>6, <1>7 DEF TypeInv, FileOK, File, Written, InTurn

(* Every value keeps the types, stored or not.                              *)
LEMMA TypeNext == TypeInv /\ [Next]_vars => TypeInv'
<1> SUFFICES ASSUME TypeInv, [Next]_vars PROVE TypeInv'
  OBVIOUS
<1>1. ASSUME NEW timestamp \in Timestamps, NEW v \in Values, whisper_write_value(timestamp, v) PROVE TypeInv'
  <2>1. FileOK(file)
    BY DEF TypeInv
  <2> QED
    BY <1>1, <2>1, StoredType DEF whisper_write_value
<1>2. ASSUME NEW timestamp \in Timestamps, NEW v \in Values, whisper_create_file(timestamp, v) PROVE TypeInv'
  BY <1>2, CreatedType, StoredType DEF whisper_create_file
<1>3. ASSUME NEW timestamp \in Timestamps, create_fails(timestamp) PROVE TypeInv'
  <2>1. FileOK(file')
    BY <1>3, CreatedType DEF create_fails
  <2>2. newest' \in 0 .. W - 1
    BY <1>3, WhisperAssumption DEF create_fails, Accept, TypeInv
  <2> QED
    BY <1>3, <2>1, <2>2 DEF create_fails, TypeInv, FileOK, File, Written, InTurn
<1>4. ASSUME NEW timestamp \in Timestamps, open_fails(timestamp) PROVE TypeInv'
  <2>1. newest' \in 0 .. W - 1
    BY <1>4, WhisperAssumption DEF open_fails, Accept, TypeInv
  <2> QED
    BY <1>4, <2>1 DEF open_fails, TypeInv, FileOK, File, Written, InTurn
<1>5. CASE UNCHANGED vars
  BY <1>5 DEF vars, TypeInv, FileOK, File, Written, InTurn
<1> QED
  BY <1>1, <1>2, <1>3, <1>4, <1>5 DEF Next

(* The types of the run follow.                                             *)
LEMMA TypeImplied == TypeInv => TypeOK
  BY DEF TypeInv, TypeOK, FileOK, File, Written, Status

(* The variables keep their types, and every header of the file is one that *)
(* whisper_create_file() wrote, up to some field: for any retentions,       *)
(* timestamps and failures.                                                 *)
THEOREM WhisperTypeCorrect == Spec => []TypeOK
<1>1. Init => TypeInv
  BY TypeInit
<1>2. TypeInv /\ [Next]_vars => TypeInv'
  BY TypeNext
<1>3. TypeInv => TypeOK
  BY TypeImplied
<1> QED
  BY <1>1, <1>2, <1>3, PTL DEF Spec

-----------------------------------------------------------------------------
(* Where the rings lie, if nothing overflows                                *)

RingStart(i) == Cell(Offset[i])
RingCell(i, s) == RingStart(i) + s

(* Rings follow each other on the grid and fill it.                         *)
LEMMA Layout ==
  ASSUME NoOverflow
  PROVE  /\ \A i \in 0 .. NbArch : RingStart(i) \in Nat /\ Offset[i] = Offset[0] + 12 * RingStart(i)
         /\ \A i \in Archive : RingStart(i + 1) = RingStart(i) + NbPoints(i) /\ NbPoints(i) >= 1
         /\ RingStart(NbArch) = GridSize
<1>0. NbArch \in Nat
  BY Archives
<1>1. ASSUME NEW n \in Nat, NEW off \in Int, off = Offset[0] + 12 * n PROVE Cell(off) = n
  <2>1. Offset[0] \in Int
    BY <1>0, OffsetType, Archives
  <2>2. off - Offset[0] = 12 * n + 0
    BY <1>1, <2>1
  <2>3. (off - Offset[0]) \div 12 = n
    BY <2>1, <2>2, DivisionUnique
  <2> QED
    BY <2>3 DEF Cell, WHISPER_POINT_SIZE
<1>2. ASSUME NEW i \in Archive
      PROVE  Offset[i + 1] = Offset[i] + 12 * NbPoints(i) /\ NbPoints(i) >= 1 /\ NbPoints(i) \in Nat
  BY Archives DEF NoOverflow, WHISPER_POINT_SIZE
<1> DEFINE Far == {k \in Nat : k <= NbArch => RingStart(k) \in Nat /\ Offset[k] = Offset[0] + 12 * RingStart(k)}
<1>3. \A k \in 0 .. NbArch : Offset[k] \in Int
  BY OffsetType, Archives
<1>4. 0 \in Far
  <2>1. RingStart(0) = 0
    BY <1>0, <1>1, <1>3 DEF RingStart
  <2> QED
    BY <1>0, <1>3, <2>1
<1>5. ASSUME NEW k \in Nat, RingStart(k) \in Nat, Offset[k] = Offset[0] + 12 * RingStart(k), k + 1 <= NbArch
      PROVE  /\ RingStart(k + 1) = RingStart(k) + NbPoints(k) /\ RingStart(k + 1) \in Nat
             /\ Offset[k + 1] = Offset[0] + 12 * RingStart(k + 1)
  <2>1. k \in Archive
    BY <1>0, <1>5 DEF Archive
  <2>2. Offset[k + 1] = Offset[0] + 12 * (RingStart(k) + NbPoints(k)) /\ RingStart(k) + NbPoints(k) \in Nat
    BY <1>0, <1>2, <1>3, <1>5, <2>1
  <2>3. Offset[k + 1] \in Int
    BY <1>0, <1>3, <1>5
  <2>4. Cell(Offset[k + 1]) = RingStart(k) + NbPoints(k)
    BY <1>1, <2>2, <2>3
  <2> QED
    BY <2>2, <2>4 DEF RingStart
<1>6. \A k \in Nat : k \in Far => k + 1 \in Far
  BY <1>0, <1>5
<1>7. Nat \subseteq Far
  <2> HIDE DEF Far
  <2> QED
    BY <1>4, <1>6, NatSet
<1>8. \A k \in 0 .. NbArch : RingStart(k) \in Nat /\ Offset[k] = Offset[0] + 12 * RingStart(k)
  BY <1>0, <1>7
<1>9. \A i \in Archive : RingStart(i + 1) = RingStart(i) + NbPoints(i) /\ NbPoints(i) >= 1
  BY <1>0, <1>2, <1>5, <1>8 DEF Archive
<1>10. RingStart(NbArch) = GridSize
  BY DEF RingStart, GridSize, Cell
<1> QED
  BY <1>8, <1>9, <1>10

(* A later ring starts after an earlier one ends.                           *)
LEMMA RingsInOrder ==
  ASSUME NoOverflow, NEW i \in Archive, NEW j \in 0 .. NbArch, i < j
  PROVE  RingStart(i) + NbPoints(i) <= RingStart(j)
<1>0. NbArch \in Nat /\ i \in Nat /\ i + 1 \in 1 .. NbArch /\ NbPoints(i) \in Nat
  BY Archives
<1>1. \A k \in 0 .. NbArch : RingStart(k) \in Nat
  BY Layout
<1>2. \A k \in Archive : RingStart(k + 1) = RingStart(k) + NbPoints(k) /\ NbPoints(k) \in Nat
  BY Layout, Archives
<1> DEFINE Far == {d \in Nat : i + 1 + d <= NbArch => RingStart(i + 1) <= RingStart(i + 1 + d)}
<1>3. 0 \in Far
  BY <1>0, <1>1
<1>4. ASSUME NEW d \in Nat, d \in Far PROVE d + 1 \in Far
  <2> SUFFICES ASSUME i + 1 + (d + 1) <= NbArch PROVE RingStart(i + 1) <= RingStart(i + 1 + (d + 1))
    OBVIOUS
  <2>1. i + 1 + d \in Archive /\ i + 1 + d <= NbArch /\ (i + 1 + d) + 1 = i + 1 + (d + 1)
    BY <1>0 DEF Archive
  <2>2. RingStart(i + 1) <= RingStart(i + 1 + d)
    BY <1>4, <2>1
  <2>3. RingStart(i + 1 + (d + 1)) = RingStart(i + 1 + d) + NbPoints(i + 1 + d) /\ NbPoints(i + 1 + d) \in Nat
    BY <1>2, <2>1
  <2>4. RingStart(i + 1) \in Nat /\ RingStart(i + 1 + d) \in Nat
    BY <1>0, <1>1, <2>1
  <2> QED
    BY <2>2, <2>3, <2>4
<1>5. Nat \subseteq Far
  <2> HIDE DEF Far
  <2> QED
    BY <1>3, <1>4, NatSet
<1>6. j - (i + 1) \in Nat /\ i + 1 + (j - (i + 1)) = j
  BY <1>0
<1>7. RingStart(i + 1) <= RingStart(j)
  BY <1>0, <1>5, <1>6
<1> QED
  BY <1>2, <1>7

(* A slot is a cell of the grid, found at its offset, and of one ring only. *)
LEMMA SlotCell ==
  ASSUME NoOverflow, NEW i \in Archive, NEW s \in Slots(i)
  PROVE  /\ s \in Nat /\ RingStart(i) \in Nat
         /\ RingCell(i, s) \in Grid
         /\ OnGrid(Offset[i] + 12 * s) /\ Cell(Offset[i] + 12 * s) = RingCell(i, s)
         /\ \A j \in Archive : \A z \in Slots(j) : RingCell(i, s) = RingCell(j, z) => i = j /\ s = z
<1>0. NbArch \in Nat /\ i \in Nat /\ i \in 0 .. NbArch /\ i < NbArch /\ NbPoints(i) \in Nat
      /\ 0 \in 0 .. NbArch /\ NbArch \in 0 .. NbArch
  BY Archives DEF Archive
<1>1. s \in Nat /\ s < NbPoints(i)
  BY <1>0 DEF Slots
<1>2. \A k \in 0 .. NbArch : RingStart(k) \in Nat /\ Offset[k] = Offset[0] + 12 * RingStart(k) /\ Offset[k] \in Int
  BY Layout, OffsetType, Archives
<1>3. RingStart(i) + NbPoints(i) <= GridSize /\ GridSize \in Nat
  BY <1>0, <1>2, RingsInOrder, Layout
<1>4. RingCell(i, s) \in Grid
  BY <1>0, <1>1, <1>2, <1>3 DEF RingCell, Grid
<1>5. /\ ((Offset[i] + 12 * s) - Offset[0]) \div 12 = RingCell(i, s)
      /\ ((Offset[i] + 12 * s) - Offset[0]) % 12 = 0
  <2>1. (Offset[i] + 12 * s) - Offset[0] = 12 * RingCell(i, s) + 0 /\ RingCell(i, s) \in Int
        /\ (Offset[i] + 12 * s) - Offset[0] \in Int
    BY <1>0, <1>1, <1>2 DEF RingCell
  <2> QED
    BY <2>1, DivisionUnique
<1>6. OnGrid(Offset[i] + 12 * s) /\ Cell(Offset[i] + 12 * s) = RingCell(i, s)
  BY <1>4, <1>5, Zenon DEF OnGrid, Cell, WHISPER_POINT_SIZE
<1>7. ASSUME NEW j \in Archive, NEW z \in Slots(j), RingCell(i, s) = RingCell(j, z) PROVE i = j /\ s = z
  <2>0. j \in Nat /\ j \in 0 .. NbArch /\ NbPoints(j) \in Nat /\ RingStart(j) \in Nat
    BY <1>0, <1>2, Archives DEF Archive
  <2>1. z \in Nat /\ z < NbPoints(j)
    BY <2>0 DEF Slots
  <2>2. CASE i < j
    <3>1. RingStart(i) + NbPoints(i) <= RingStart(j)
      BY <2>0, <2>2, RingsInOrder
    <3> QED
      BY <1>0, <1>1, <1>2, <1>7, <2>0, <2>1, <3>1 DEF RingCell
  <2>3. CASE j < i
    <3>1. RingStart(j) + NbPoints(j) <= RingStart(i)
      BY <1>0, <2>3, RingsInOrder
    <3> QED
      BY <1>0, <1>1, <1>2, <1>7, <2>0, <2>1, <3>1 DEF RingCell
  <2>4. CASE i = j
    BY <1>0, <1>1, <1>2, <1>7, <2>1, <2>4 DEF RingCell
  <2> QED
    BY <1>0, <2>0, <2>2, <2>3, <2>4
<1> QED
  BY <1>0, <1>1, <1>2, <1>4, <1>6, <1>7

-----------------------------------------------------------------------------
(* Where a point is written, if nothing overflows                           *)

(* Twelve times the remainder is the remainder of twelve times.             *)
LEMMA Scale ==
  ASSUME NEW d \in Nat, NEW p \in Nat, p > 0
  PROVE  (12 * d) % (12 * p) = 12 * (d % p) /\ d % p \in 0 .. p - 1
<1> DEFINE q == d \div p
           r == d % p
<1>1. q \in Int /\ r \in 0 .. p - 1 /\ d = p * q + r
  BY Division
<1> HIDE DEF q, r
<1>2. 12 * d = (12 * p) * q + 12 * r
  <2>1. p * q \in Int /\ 12 * (p * q) = (12 * p) * q
    BY <1>1
  <2> QED
    BY <1>1, <2>1
<1>3. 12 * r \in 0 .. (12 * p) - 1 /\ 12 * p \in Nat /\ 12 * p > 0 /\ 12 * d \in Int
  BY <1>1
<1>4. (12 * d) % (12 * p) = 12 * r
  BY <1>1, <1>2, <1>3, DivisionUnique
<1> QED
  BY <1>1, <1>4 DEF r

(* A distance in time gives a distance in slots whose bytes do not overflow.*)
LEMMA Distance ==
  ASSUME NoOverflow, NEW i \in Archive, NEW x \in 0 .. W - 1
  PROVE  x \div Spp(i) \in Nat /\ 12 * (x \div Spp(i)) < W
<1> DEFINE q == x \div Spp(i)
           r == x % Spp(i)
<1>0. W \in Nat /\ Spp(i) \in Nat /\ Spp(i) > 0 /\ Spp(i) >= 12
  BY Archives DEF NoOverflow, WHISPER_POINT_SIZE
<1>1. q \in Int /\ r \in 0 .. Spp(i) - 1 /\ x = Spp(i) * q + r
  BY <1>0, Division
<1> HIDE DEF q, r
<1>2. ~ (q < 0)
  <2> SUFFICES ASSUME q < 0 PROVE FALSE
    OBVIOUS
  <2>1. Spp(i) * (-q) >= Spp(i)
    BY <1>0, <1>1, Product
  <2>2. Spp(i) * (-q) = -(Spp(i) * q) /\ Spp(i) * q \in Int
    BY <1>0, <1>1
  <2> QED
    BY <1>0, <1>1, <2>1, <2>2
<1>3. q \in Nat
  BY <1>1, <1>2
<1>4. Spp(i) * q = 12 * q + (Spp(i) - 12) * q /\ (Spp(i) - 12) * q >= 0 /\ (Spp(i) - 12) * q \in Int
  BY <1>0, <1>3
<1>5. 12 * q < W
  BY <1>0, <1>1, <1>3, <1>4
<1> QED
  BY <1>3, <1>5 DEF q

(* The size of a ring whose header is whole.                                *)
LEMMA RingSize ==
  ASSUME NoOverflow, NEW i \in Archive, NEW h, Written(i, h), h.spp # 0
  PROVE  /\ h.offset = Offset[i] /\ h.spp = Spp(i) /\ Offset[i] \in Nat
         /\ archive_size(h) # 0 =>
              /\ h.points = NbPoints(i) /\ archive_size(h) = 12 * NbPoints(i)
              /\ archive_offset_end(h) = Offset[i] + 12 * NbPoints(i)
              /\ Offset[i] + 12 * NbPoints(i) < W
<1>0. h.offset = Offset[i] /\ h.spp = Spp(i) /\ h.points \in {0, NbPoints(i)}
  BY Headers
<1>1. i \in 0 .. NbArch /\ i + 1 \in 0 .. NbArch /\ NbPoints(i) \in Nat /\ W \in Nat /\ W > 0
  BY Archives DEF Archive
<1>2. Offset[i] \in 0 .. W - 1 /\ Offset[i + 1] \in 0 .. W - 1
  BY <1>1, OffsetType
<1>3. Offset[i + 1] = Offset[i] + 12 * NbPoints(i)
  BY <1>1, <1>2 DEF NoOverflow, WHISPER_POINT_SIZE
<1>4. U(0) = 0
  BY <1>1, UKeeps
<1>5. ASSUME archive_size(h) # 0 PROVE h.points = NbPoints(i)
  BY <1>0, <1>4, <1>5 DEF archive_size, WHISPER_POINT_SIZE
<1>6. 12 * NbPoints(i) \in 0 .. W - 1 /\ Offset[i] + 12 * NbPoints(i) \in 0 .. W - 1 /\ Offset[i] \in Nat
      /\ NbPoints(i) * 12 = 12 * NbPoints(i)
  BY <1>1, <1>2, <1>3
<1>7. U(12 * NbPoints(i)) = 12 * NbPoints(i)
      /\ U(Offset[i] + 12 * NbPoints(i)) = Offset[i] + 12 * NbPoints(i)
  BY <1>1, <1>6, UKeeps
<1>8. ASSUME archive_size(h) # 0
      PROVE  archive_size(h) = 12 * NbPoints(i) /\ archive_offset_end(h) = Offset[i] + 12 * NbPoints(i)
  BY <1>0, <1>5, <1>6, <1>7, <1>8, Zenon DEF archive_size, archive_offset_end, WHISPER_POINT_SIZE
<1> QED
  BY <1>0, <1>1, <1>5, <1>6, <1>8

(* SlotOffset is the offset of a slot of the ring.                          *)
LEMMA SlotPlace ==
  ASSUME NoOverflow, NEW i \in Archive, NEW h, Written(i, h), h.spp # 0, archive_size(h) # 0,
         NEW x \in 0 .. W - 1
  PROVE  LET s == (x \div Spp(i)) % NbPoints(i) IN
           s \in Slots(i) /\ SlotOffset(h, x \div h.spp) = Offset[i] + 12 * s
<1> DEFINE d == x \div Spp(i)
           s == d % NbPoints(i)
<1>0. /\ h.offset = Offset[i] /\ h.spp = Spp(i) /\ Offset[i] \in Nat /\ archive_size(h) = 12 * NbPoints(i)
      /\ Offset[i] + 12 * NbPoints(i) < W
  BY RingSize
<1>1. d \in Nat /\ 12 * d < W /\ W \in Nat
  BY Distance, Archives
<1>2. NbPoints(i) \in Nat /\ NbPoints(i) > 0
  BY Archives DEF NoOverflow
<1>a. SlotOffset(h, x \div h.spp) = U(h.offset + (U(d * WHISPER_POINT_SIZE) % archive_size(h)))
  BY <1>0 DEF SlotOffset
<1> HIDE DEF d
<1>3. U(d * 12) = 12 * d
  BY <1>1, UKeeps
<1>4. (12 * d) % (12 * NbPoints(i)) = 12 * s /\ s \in 0 .. NbPoints(i) - 1
  BY <1>1, <1>2, Scale
<1> HIDE DEF s
<1>5. Offset[i] + 12 * s \in 0 .. W - 1
  BY <1>0, <1>1, <1>2, <1>4
<1>6. U(Offset[i] + 12 * s) = Offset[i] + 12 * s
  BY <1>1, <1>5, UKeeps
<1>7. SlotOffset(h, x \div h.spp) = Offset[i] + 12 * s
  BY <1>a, <1>0, <1>3, <1>4, <1>6, Zenon DEF WHISPER_POINT_SIZE
<1> QED
  BY <1>4, <1>7 DEF d, s, Slots

RingPoint(f, i, s) == f.points[RingCell(i, s)]
Put(f, c, pt) == [f EXCEPT !.points = [f.points EXCEPT ![c] = pt]]

(* The slot whisper_write_point() chooses.                                  *)
SlotFor(f, i, ts) ==
  LET first == RingPoint(f, i, 0).ts
  IN  IF first = 0 THEN 0 ELSE (U(ts - first) \div Spp(i)) % NbPoints(i)

(* What a write to one cell changes.                                        *)
LEMMA PutFacts ==
  ASSUME NEW f \in File, NEW c \in Grid, NEW pt \in Point
  PROVE  /\ Put(f, c, pt) \in File /\ SameHead(f, Put(f, c, pt)) /\ Put(f, c, pt).torn = f.torn
         /\ Put(f, c, pt).points[c] = pt
         /\ \A d \in Grid : d # c => Put(f, c, pt).points[d] = f.points[d]
<1>1. f.points \in [Grid -> Point]
  BY DEF File
<1> DEFINE P == [f.points EXCEPT ![c] = pt]
<1>2. P \in [Grid -> Point] /\ P[c] = pt /\ \A d \in Grid : d # c => P[d] = f.points[d]
  BY <1>1
<1>3. Put(f, c, pt) = [f EXCEPT !.points = P]
  BY DEF Put
<1> HIDE DEF P
<1> QED
  BY <1>2, <1>3 DEF File, SameHead

(* Reading at the offset of a slot gives the point in it.                   *)
LEMMA ReadSlot ==
  ASSUME NoOverflow, NEW i \in Archive, NEW s \in Slots(i), NEW f
  PROVE  ReadPoint(f, Offset[i] + 12 * s) = RingPoint(f, i, s)
  BY SlotCell, Zenon DEF ReadPoint, RingPoint

(* The first slot of a ring lies at the offset of the archive.              *)
LEMMA ReadFirst ==
  ASSUME NoOverflow, NEW i \in Archive, NEW f
  PROVE  0 \in Slots(i) /\ ReadPoint(f, Offset[i]) = RingPoint(f, i, 0) /\ Offset[i] = Offset[i] + 12 * 0
<1>1. i \in 0 .. NbArch /\ NbPoints(i) \in Nat /\ NbPoints(i) >= 1
  BY Archives DEF NoOverflow, Archive
<1>2. Offset[i] \in Int
  BY <1>1, OffsetType, Archives
<1>3. 0 \in Slots(i) /\ Offset[i] + 12 * 0 = Offset[i]
  BY <1>1, <1>2 DEF Slots
<1>4. ReadPoint(f, Offset[i] + 12 * 0) = RingPoint(f, i, 0)
  BY <1>3, ReadSlot
<1> QED
  BY <1>3, <1>4

(* whisper_write_point() writes one slot of its ring, or divides by zero    *)
(* and writes nothing.                                                      *)
LEMMA WritesSlot ==
  ASSUME NoOverflow, NEW f \in File, NEW i \in Archive, NEW h, Written(i, h), h.spp # 0,
         NEW ts \in 0 .. W - 1, NEW pt \in Point
  PROVE  LET r == whisper_write_point(f, h, ts, pt) IN
           /\ SlotFor(f, i, ts) \in Slots(i)
           /\ \/ r.f = f /\ r.st = "sigfpe"
              \/ r.f = Put(f, RingCell(i, SlotFor(f, i, ts)), pt) /\ r.st = "ok"
<1> DEFINE first == RingPoint(f, i, 0).ts
           s == SlotFor(f, i, ts)
           x == U(ts - first)
<1>1. h.offset = Offset[i] /\ h.spp = Spp(i)
  BY RingSize
<1>2. 0 \in Slots(i) /\ Offset[i] + 12 * 0 = Offset[i] /\ ReadPoint(f, h.offset).ts = first
  BY <1>1, ReadFirst
<1>3. first \in 0 .. W - 1 /\ W \in Nat
  <2>1. ReadPoint(f, h.offset) \in Point
    BY ReadType
  <2>2. ReadPoint(f, h.offset).ts \in 0 .. W - 1
    BY <2>1 DEF Point
  <2> QED
    BY <1>2, <2>2, Archives
<1>4. \A z \in Slots(i) : WritePoint(f, Offset[i] + 12 * z, pt) = Put(f, RingCell(i, z), pt)
  <2> SUFFICES ASSUME NEW z \in Slots(i) PROVE WritePoint(f, Offset[i] + 12 * z, pt) = Put(f, RingCell(i, z), pt)
    OBVIOUS
  <2>1. OnGrid(Offset[i] + 12 * z) /\ Cell(Offset[i] + 12 * z) = RingCell(i, z)
    BY SlotCell
  <2>2. WritePoint(f, Offset[i] + 12 * z, pt) = [f EXCEPT !.points[RingCell(i, z)] = pt]
    BY <2>1, Zenon DEF WritePoint
  <2> QED
    BY <2>2 DEF Put
<1>5. x \in 0 .. W - 1
  BY <1>3, UKeeps
<1>6. s = IF first = 0 THEN 0 ELSE (x \div Spp(i)) % NbPoints(i)
  BY Zenon DEF SlotFor
<1>7. whisper_write_point(f, h, ts, pt) =
        IF first = 0 THEN [f |-> WritePoint(f, Offset[i], pt), st |-> "ok"]
        ELSE IF archive_size(h) = 0 THEN [f |-> f, st |-> "sigfpe"]
        ELSE [f |-> WritePoint(f, SlotOffset(h, x \div h.spp), pt), st |-> "ok"]
  BY <1>1, <1>2, Zenon DEF whisper_write_point
<1>8. NbPoints(i) \in Nat /\ NbPoints(i) > 0
  BY Archives DEF NoOverflow
<1>9. (x \div Spp(i)) % NbPoints(i) \in Slots(i)
  <2>1. x \div Spp(i) \in Nat
    BY <1>5, Distance
  <2>2. (x \div Spp(i)) % NbPoints(i) \in 0 .. NbPoints(i) - 1
    BY <1>8, <2>1, Division
  <2> QED
    BY <2>2 DEF Slots
<1> DEFINE d == x \div h.spp
           z == (x \div Spp(i)) % NbPoints(i)
<1>10. archive_size(h) # 0 => SlotOffset(h, d) = Offset[i] + 12 * z
  BY <1>5, SlotPlace
<1>11. s = IF first = 0 THEN 0 ELSE z
  BY <1>6
<1>12. z \in Slots(i)
  BY <1>9
<1>13. s \in Slots(i)
  BY <1>2, <1>11, <1>12
<1> HIDE DEF s, first, z, x, d
<1>14. CASE first = 0
  <2>1. s = 0 /\ WritePoint(f, Offset[i], pt) = Put(f, RingCell(i, 0), pt)
    BY <1>2, <1>4, <1>11, <1>14
  <2> QED
    BY <1>7, <1>13, <1>14, <2>1 DEF s
<1>15. CASE first # 0 /\ archive_size(h) = 0
  BY <1>7, <1>13, <1>15 DEF s
<1>16. CASE first # 0 /\ archive_size(h) # 0
  <2>1. s = z /\ WritePoint(f, SlotOffset(h, d), pt) = Put(f, RingCell(i, z), pt)
    BY <1>4, <1>10, <1>11, <1>12, <1>16
  <2>2. whisper_write_point(f, h, ts, pt) = [f |-> WritePoint(f, SlotOffset(h, d), pt), st |-> "ok"]
    BY <1>7, <1>16 DEF d
  <2> QED
    BY <1>13, <2>1, <2>2 DEF s
<1> QED
  BY <1>14, <1>15, <1>16

-----------------------------------------------------------------------------
(* What is read to be aggregated, if nothing overflows                      *)

ReadsOnly(f, i, h, start, end, n) ==
  \A j \in 0 .. n - 1 : LET p == ReadPoint(f, ReadOffset(h, start, end, j))
                        IN  p = NoPoint \/ \E s \in Slots(i) : p = RingPoint(f, i, s)

(* Every read of whisper_write_propagate() is of a slot of the ring, or of  *)
(* nothing.                                                                 *)
LEMMA ReadsRing ==
  ASSUME NoOverflow, NEW f, NEW i \in Archive, NEW h, Written(i, h), h.spp # 0, archive_size(h) # 0,
         NEW z \in Slots(i), NEW start, start = Offset[i] + 12 * z,
         NEW end \in 0 .. (12 * NbPoints(i)) - 1, NEW n \in Nat, n <= h.points
  PROVE  ReadsOnly(f, i, h, start, end, n)
<1> SUFFICES ASSUME NEW j \in 0 .. n - 1
             PROVE  LET p == ReadPoint(f, ReadOffset(h, start, end, j)) IN
                      p = NoPoint \/ \E s \in Slots(i) : p = RingPoint(f, i, s)
  BY Zenon DEF ReadsOnly
<1> DEFINE off   == ReadOffset(h, start, end, j)
           N     == NbPoints(i)
<1>0. /\ h.offset = Offset[i] /\ Offset[i] \in Nat /\ h.points = N
      /\ archive_offset_end(h) = Offset[i] + 12 * N
  BY RingSize
<1>1. N \in Nat /\ z \in Nat /\ z < N /\ j \in Nat /\ j < n /\ n <= N /\ end \in Nat /\ end < 12 * N
  BY <1>0, Archives DEF Slots
<1>2. ASSUME NEW s \in Nat, s < N, off = Offset[i] + 12 * s
      PROVE  \E y \in Slots(i) : ReadPoint(f, off) = RingPoint(f, i, y)
  <2>1. s \in Slots(i)
    BY <1>1, <1>2 DEF Slots
  <2> QED
    BY <1>2, <2>1, ReadSlot
<1> DEFINE at   == j * 12
           len  == IF start < end THEN end - start ELSE (Offset[i] + 12 * N) - start
           len2 == IF start < end THEN 0 ELSE Offset[i] - end
<1>3. off = IF at + 12 <= len THEN start + at
            ELSE IF at >= len /\ at + 12 <= len + len2 THEN (Offset[i] + at) - len
            ELSE -1
  <2>1. Offset[i] \in Int /\ at \in Int /\ len \in Int /\ (Offset[i] + at) - len = Offset[i] + (at - len)
    BY <1>0, <1>1
  <2> QED
    BY <1>0, <2>1, Zenon DEF ReadOffset, WHISPER_POINT_SIZE
<1>4. CASE at + 12 <= len
  <2>1. z + j \in Nat /\ z + j < N /\ start + at = Offset[i] + 12 * (z + j)
    BY <1>0, <1>1, <1>4
  <2> QED
    BY <1>2, <1>3, <1>4, <2>1
<1>5. CASE ~ (at + 12 <= len) /\ at >= len /\ at + 12 <= len + len2
  <2>1. ~ (start < end)
    BY <1>0, <1>1, <1>5
  <2>2. z + j - N \in Nat /\ z + j - N < N /\ (Offset[i] + at) - len = Offset[i] + 12 * (z + j - N)
    BY <1>0, <1>1, <1>5, <2>1
  <2> QED
    BY <1>2, <1>3, <1>5, <2>2
<1>6. CASE ~ (at + 12 <= len) /\ ~ (at >= len /\ at + 12 <= len + len2)
  <2>1. off = -1
    BY <1>3, <1>6
  <2>2. Offset[0] \in Nat /\ NbArch \in Nat
    BY OffsetType, Archives
  <2>3. ~ OnGrid(-1)
    <3>1. ASSUME NEW x \in Int, x < 0 PROVE ~ (x \div 12 \in Grid)
      <4>1. x \div 12 < 0
        BY <3>1
      <4>2. GridSize \in Int
        BY <2>2, OffsetType, Archives DEF GridSize, WHISPER_POINT_SIZE
      <4> QED
        BY <4>1, <4>2 DEF Grid
    <3>2. -1 - Offset[0] \in Int /\ -1 - Offset[0] < 0
      BY <2>2
    <3> QED
      BY <3>1, <3>2 DEF OnGrid, WHISPER_POINT_SIZE
  <2> QED
    BY <2>1, <2>3 DEF ReadPoint
<1> QED
  BY <1>4, <1>5, <1>6

(* The point was made of points received in the step it stands for, at most *)
(* one at each timestamp.                                                   *)
OwnPoint(i, p) ==
  \A q \in p.val.of : /\ p.ts - Spp(i) < q[1] /\ q[1] <= p.ts
                      /\ \A r \in p.val.of : q[1] = r[1] => q = r

(* A timestamp is not so late that a step of an archive overflows.          *)
EarlyEnough(t) == t = 0 \/ \A i \in Archive : t + Spp(i) < W

(* No write was torn and no point is of a foreign window.                   *)
Whole(f) ==
  /\ ~ f.torn
  /\ \A i \in Archive : \A s \in Slots(i) : OwnPoint(i, RingPoint(f, i, s))
  /\ \A g \in Grid : EarlyEnough(f.points[g].ts)

(* A point that was never written is of its own window.                     *)
LEMMA NoPointOwn == EarlyEnough(NoPoint.ts) /\ \A i : OwnPoint(i, NoPoint)
  BY DEF NoPoint, Zero, OwnPoint, EarlyEnough

(* Writing a good point to a slot keeps the file whole.                     *)
LEMMA PutWhole ==
  ASSUME NoOverflow, NEW f \in File, Whole(f), NEW i \in Archive, NEW s \in Slots(i),
         NEW pt \in Point, OwnPoint(i, pt), EarlyEnough(pt.ts)
  PROVE  Whole(Put(f, RingCell(i, s), pt))
<1> DEFINE c == RingCell(i, s)
           g == Put(f, c, pt)
<1>1. c \in Grid
  BY SlotCell
<1>2. g.torn = f.torn /\ g.points[c] = pt /\ \A d \in Grid : d # c => g.points[d] = f.points[d]
  BY <1>1, PutFacts
<1>3. \A j \in Archive : \A z \in Slots(j) : RingCell(j, z) \in Grid /\ (RingCell(j, z) = c => j = i)
  BY SlotCell
<1> HIDE DEF g, c
<1>4. ~ g.torn /\ \A d \in Grid : EarlyEnough(g.points[d].ts)
  BY <1>2 DEF Whole
<1>5. ASSUME NEW j \in Archive, NEW z \in Slots(j) PROVE OwnPoint(j, RingPoint(g, j, z))
  <2>1. CASE RingCell(j, z) = c
    BY <1>2, <1>3, <2>1 DEF RingPoint
  <2>2. CASE RingCell(j, z) # c
    <3>1. RingPoint(g, j, z) = RingPoint(f, j, z)
      BY <1>2, <1>3, <2>2 DEF RingPoint
    <3> QED
      BY <3>1 DEF Whole
  <2> QED
    BY <2>1, <2>2
<1>6. Whole(g)
  BY <1>4, <1>5 DEF Whole
<1> QED
  BY <1>6 DEF g, c

(* A multiple of a step is 0, or no smaller than the step.                  *)
LEMMA Multiple ==
  ASSUME NEW t \in Nat, NEW m \in Nat, m > 0, t % m = 0
  PROVE  t = 0 \/ t >= m
<1> DEFINE q == t \div m
<1>1. q \in Int /\ t = m * q + 0
  BY Division
<1> HIDE DEF q
<1>2. CASE q >= 1
  BY <1>1, <1>2, Product
<1>3. CASE q = 0
  BY <1>1, <1>3
<1>4. CASE q < 0
  <2>1. m * (-q) >= m /\ m * (-q) = -(m * q) /\ m * q \in Int
    BY <1>1, <1>4, Product
  <2> QED
    BY <1>1, <2>1
<1> QED
  BY <1>1, <1>2, <1>3, <1>4

(* The timestamp t is the one expected at place j of a window of L, read in *)
(* steps of H.                                                              *)
Expected(H, L, ts, j, t) ==
  /\ H \in Nat /\ H > 0 /\ L \in Nat /\ L > 0 /\ L < W /\ L \div H # 0
  /\ ts \in 0 .. W - 1 /\ ts % L = 0 /\ j \in 0 .. (L \div H) - 1
  /\ t \in 0 .. W - 1 /\ (t = 0 \/ t + L < W) /\ t = U(U(ts - L + H) + j * H)

(* Such a timestamp has not wrapped: it is j steps into the window.         *)
LEMMA KnownExact ==
  ASSUME NEW H, NEW L, NEW ts, NEW j, NEW t, Expected(H, L, ts, j, t)
  PROVE  /\ t = ts - L + (j + 1) * H /\ (j + 1) * H <= L /\ (j + 1) * H >= H
         /\ ts - L < t /\ t <= ts
<1> USE DEF Expected
<1> DEFINE n == L \div H
           e == (j + 1) * H
<1>0. W \in Nat /\ W > 12
  BY Archives
<1>1. n \in Int /\ L = H * n + (L % H) /\ L % H \in 0 .. H - 1
  BY Division
<1>2. j \in Nat /\ j + 1 <= n
  BY <1>1
<1> HIDE DEF n
<1>3. e \in Nat /\ e >= H /\ e = H + j * H /\ j * H \in Nat
  BY <1>2
<1>4. H * n = e + H * (n - (j + 1)) /\ H * (n - (j + 1)) >= 0 /\ H * (n - (j + 1)) \in Int
  BY <1>1, <1>2
<1>5. e <= L
  BY <1>1, <1>3, <1>4
<1> HIDE DEF e
<1>6. ASSUME ts >= L PROVE t = ts - L + e
  <2>1. ts - L + H \in 0 .. W - 1 /\ ts - L + H + j * H \in 0 .. W - 1 /\ ts - L + H + j * H = ts - L + e
    BY <1>0, <1>3, <1>5, <1>6
  <2>2. U(ts - L + H) = ts - L + H /\ U(ts - L + H + j * H) = ts - L + H + j * H
    BY <1>0, <2>1, UKeeps
  <2> QED
    BY <2>1, <2>2
<1>7. ASSUME ts = 0, H = L PROVE t = ts - L + e
  <2>1. j * H = 0 /\ e = H
    BY <1>3, <1>5, <1>7
  <2>2. ts - L + H = 0 /\ U(0) = 0
    BY <1>0, <1>7, UKeeps
  <2>3. U(ts - L + H) + j * H = 0
    BY <2>1, <2>2
  <2> QED
    BY <1>7, <2>1, <2>2, <2>3
<1>8. ASSUME ts = 0, H # L PROVE t = ts - L + e
  <2>1. H < L
    BY <1>3, <1>5, <1>8
  <2>2. U(ts - L + H) = W - L + H
    <3>1. ts - L + H \in Int /\ W - L + H \in 0 .. W - 1 /\ ts - L + H = W * (-1) + (W - L + H)
      BY <1>0, <1>8, <2>1
    <3> QED
      BY <1>0, <3>1, DivisionUnique DEF U
  <2>3. t = U(W - L + e)
    <3>1. W - L + H + j * H = W - L + e
      BY <1>0, <1>3
    <3> QED
      BY <2>2, <3>1
  <2>4. CASE e = L
    <3>1. W = W * 1 + 0 /\ W - L + e = W
      BY <1>0, <2>4
    <3>2. U(W) = 0
      BY <1>0, <3>1, DivisionUnique DEF U
    <3> QED
      BY <1>8, <2>3, <2>4, <3>1, <3>2
  <2>5. CASE e < L
    <3>1. W - L + e \in 0 .. W - 1 /\ W - L + e > W - L
      BY <1>0, <1>3, <2>1, <2>5
    <3>2. t = W - L + e
      BY <2>3, <3>1, UKeeps
    <3> QED
      BY <1>0, <3>1, <3>2
  <2> QED
    BY <1>3, <1>5, <2>4, <2>5
<1>9. t = ts - L + e
  <2>1. ts = 0 \/ ts >= L
    BY <1>0, Multiple
  <2> QED
    BY <1>6, <1>7, <1>8, <2>1
<1>10. ts - L < t /\ t <= ts
  BY <1>0, <1>3, <1>5, <1>9
<1> QED
  BY <1>3, <1>5, <1>9, <1>10 DEF e

(* What is aggregated of a higher archive is of the window of the lower.    *)
LEMMA AggregateOwn ==
  ASSUME NEW i \in Archive, NEW k \in Archive, Spp(i) < W, Spp(i) \div Spp(k) # 0,
         NEW ts \in 0 .. W - 1, ts % Spp(i) = 0,
         NEW read, \A j \in 0 .. (Spp(i) \div Spp(k)) - 1 :
                        read[j] \in Point /\ OwnPoint(k, read[j]) /\ EarlyEnough(read[j].ts),
         NEW pts, pts = {read[j] : j \in {l \in 0 .. (Spp(i) \div Spp(k)) - 1 :
                                            read[l].ts = U(U(ts - Spp(i) + Spp(k)) + l * Spp(k))}}
  PROVE  OwnPoint(i, [ts |-> ts, val |-> whisper_aggregate_values(pts)])
<1> DEFINE H == Spp(k)
           L == Spp(i)
           n == L \div H
           J == {l \in 0 .. n - 1 : read[l].ts = U(U(ts - L + H) + l * H)}
           of == whisper_aggregate_values(pts).of
<1>0. W \in Nat /\ H \in Nat /\ H > 0 /\ L \in Nat /\ L > 0
  BY Archives
<1>1. of = UNION {p.val.of : p \in pts} \/ of = {}
  BY DEF whisper_aggregate_values, Zero
<1>2. ASSUME NEW q \in of
      PROVE  \E j \in J : q \in read[j].val.of
  BY <1>1, <1>2
<1>3. ASSUME NEW j \in J
      PROVE  /\ read[j].ts = ts - L + (j + 1) * H /\ j \in Nat
             /\ (j + 1) * H <= L /\ (j + 1) * H >= H /\ (j + 1) * H \in Nat
             /\ OwnPoint(k, read[j])
  <2>1. n \in Int
    BY <1>0, Division
  <2>2. j \in 0 .. n - 1 /\ read[j] \in Point /\ OwnPoint(k, read[j]) /\ EarlyEnough(read[j].ts)
        /\ read[j].ts = U(U(ts - L + H) + j * H)
    OBVIOUS
  <2>3. read[j].ts \in 0 .. W - 1 /\ (read[j].ts = 0 \/ read[j].ts + L < W)
    BY <2>2 DEF Point, EarlyEnough
  <2> HIDE DEF H, L
  <2>4. n # 0 /\ L < W /\ ts % L = 0
    BY DEF H, L
  <2>5. Expected(H, L, ts, j, read[j].ts)
    BY <1>0, <2>2, <2>3, <2>4 DEF Expected
  <2>6. read[j].ts = ts - L + (j + 1) * H /\ (j + 1) * H <= L /\ (j + 1) * H >= H
    BY <2>5, KnownExact
  <2>7. j \in Nat /\ (j + 1) * H \in Nat
    BY <1>0, <2>1, <2>2
  <2> QED
    BY <2>2, <2>6, <2>7
<1>4. \A q \in of : q[1] \in Int
  <2>1. \A j \in J : read[j] \in Point
    OBVIOUS
  <2>2. \A j \in J : \A q \in read[j].val.of : q[1] \in Int
    BY <1>0, <2>1 DEF Point
  <2> QED
    BY <1>2, <2>2
<1> HIDE DEF J, of, n, H, L
<1>5. ASSUME NEW q \in of, NEW j \in J, q \in read[j].val.of
      PROVE  ts - L + (j + 1) * H - H < q[1] /\ q[1] <= ts - L + (j + 1) * H
  <2>1. OwnPoint(k, read[j]) /\ read[j].ts = ts - L + (j + 1) * H
    BY <1>3
  <2>2. read[j].ts - H < q[1] /\ q[1] <= read[j].ts
    BY <1>5, <2>1 DEF OwnPoint, H
  <2> QED
    BY <1>0, <1>3, <1>4, <2>1, <2>2
<1>6. ASSUME NEW q \in of PROVE ts - L < q[1] /\ q[1] <= ts
  <2>1. PICK j \in J : q \in read[j].val.of
    BY <1>2
  <2>2. (j + 1) * H <= L /\ (j + 1) * H >= H /\ (j + 1) * H \in Nat
    BY <1>3
  <2>3. ts - L + (j + 1) * H - H < q[1] /\ q[1] <= ts - L + (j + 1) * H
    BY <1>5, <2>1
  <2> QED
    BY <1>0, <1>4, <2>2, <2>3
<1>7. ASSUME NEW q \in of, NEW r \in of, NEW j \in J, NEW l \in J,
             q \in read[j].val.of, r \in read[l].val.of, j < l
      PROVE  q[1] < r[1]
  <2>1. j \in Nat /\ l \in Nat /\ (j + 1) * H \in Nat /\ (l + 1) * H \in Nat
    BY <1>3
  <2>2. q[1] <= ts - L + (j + 1) * H
    BY <1>5, <1>7
  <2>3. ts - L + (l + 1) * H - H < r[1]
    BY <1>5, <1>7
  <2>4. H * (l - j) >= H /\ H * (l - j) = (l + 1) * H - (j + 1) * H
    BY <1>0, <1>7, <2>1, Product
  <2> QED
    BY <1>0, <1>4, <2>1, <2>2, <2>3, <2>4
<1>8. ASSUME NEW q \in of, NEW r \in of, q[1] = r[1] PROVE q = r
  <2>1. PICK j \in J : q \in read[j].val.of
    BY <1>2
  <2>2. PICK l \in J : r \in read[l].val.of
    BY <1>2
  <2>3. j \in Nat /\ l \in Nat /\ q[1] \in Int /\ r[1] \in Int
    BY <1>3, <1>4
  <2>4. ~ (j < l) /\ ~ (l < j)
    BY <1>7, <1>8, <2>1, <2>2, <2>3
  <2>5. j = l
    BY <2>3, <2>4
  <2> QED
    BY <1>3, <1>8, <2>1, <2>2, <2>5 DEF OwnPoint
<1> QED
  BY <1>6, <1>8 DEF OwnPoint, L, of

(* The interval that whisper_write_propagate() reads, and what it finds.    *)
ReadStart(f, ts, hi, lo) ==
  SlotOffset(hi, U(whisper_higher_archive_timestamp_start(ts, hi, lo) - ReadPoint(f, hi.offset).ts) \div hi.spp)
ReadEnd(f, ts, hi, lo) ==
  U(ReadStart(f, ts, hi, lo) + (lo.spp \div hi.spp) * WHISPER_POINT_SIZE) % archive_size(hi)
KnownOf(f, ts, hi, lo) ==
  Known(f, hi, ReadStart(f, ts, hi, lo), ReadEnd(f, ts, hi, lo), lo.spp \div hi.spp,
        whisper_higher_archive_timestamp_start(ts, hi, lo))

(* Points of archive k, with timestamps in the window of i that ends at ts. *)
FromWindow(f, k, i, ts, pts) ==
  \A p \in pts : /\ ts - Spp(i) < p.ts /\ p.ts <= ts
                 /\ p = NoPoint \/ \E s \in Slots(k) : p = RingPoint(f, k, s)

(* whisper_write_propagate() writes an aggregate of its own window to one   *)
(* slot of the lower ring, or nothing.                                      *)
LEMMA PropagatesSlot ==
  ASSUME NoOverflow, NEW f \in File, Whole(f), NEW i \in Archive, NEW k \in Archive,
         NEW hi, Written(k, hi), hi.spp # 0, NEW lo, Written(i, lo), lo.spp # 0,
         NEW ts \in 0 .. W - 1, ts % lo.spp = 0, Spp(i) < W, NEW fails
  PROVE  LET r == whisper_write_propagate(f, ts, hi, lo, fails) IN
           \/ r.f = f
           \/ \E pt \in Point : /\ pt.ts = ts /\ OwnPoint(i, pt) /\ SlotFor(f, i, ts) \in Slots(i)
                                /\ r.f = Put(f, RingCell(i, SlotFor(f, i, ts)), pt)
                                /\ pt.val = whisper_aggregate_values(KnownOf(f, ts, hi, lo))
                                /\ FromWindow(f, k, i, ts, KnownOf(f, ts, hi, lo)) /\ archive_size(hi) # 0
<1> DEFINE r     == whisper_write_propagate(f, ts, hi, lo, fails)
           from  == whisper_higher_archive_timestamp_start(ts, hi, lo)
           first == ReadPoint(f, hi.offset).ts
           n     == lo.spp \div hi.spp
           start == SlotOffset(hi, U(from - first) \div hi.spp)
           end   == U(start + n * WHISPER_POINT_SIZE) % archive_size(hi)
           known == Known(f, hi, start, end, n, from)
           pt    == [ts |-> ts, val |-> whisper_aggregate_values(known)]
<1>0. /\ hi.spp = Spp(k) /\ lo.spp = Spp(i) /\ hi.offset = Offset[k] /\ Offset[k] \in Nat
  BY RingSize
<1>1. W \in Nat /\ Spp(k) \in Nat /\ Spp(k) > 0 /\ Spp(i) \in Nat /\ Spp(i) > 0
      /\ NbPoints(k) \in Nat /\ NbPoints(k) >= 1
  BY Archives DEF NoOverflow
<1>2. \/ r.f = f
      \/ /\ archive_size(hi) # 0 /\ n # 0 /\ ~ Overruns(hi, start, end, n)
         /\ r = whisper_write_point(f, lo, ts, pt)
  BY Zenon DEF whisper_write_propagate
<1>3. CASE r.f = f
  BY <1>3
<1>4. CASE /\ archive_size(hi) # 0 /\ n # 0 /\ ~ Overruns(hi, start, end, n)
           /\ r = whisper_write_point(f, lo, ts, pt)
  <2> HIDE DEF r
  <2>1. /\ hi.points = NbPoints(k) /\ archive_size(hi) = 12 * NbPoints(k)
        /\ Offset[k] + 12 * NbPoints(k) < W
    BY <1>4, RingSize
  <2>2. n \in Nat /\ n <= hi.points
    <3>1. ~ (n > hi.points)
      <4> HIDE DEF n, start, end
      <4> QED
        BY <1>4, Zenon DEF Overruns
    <3>2. Spp(i) \div Spp(k) \in Int /\ Spp(i) % Spp(k) \in 0 .. Spp(k) - 1
          /\ Spp(i) = Spp(k) * (Spp(i) \div Spp(k)) + (Spp(i) % Spp(k))
      BY <1>1, Division
    <3>3. ASSUME NEW q \in Int, Spp(i) = Spp(k) * q + (Spp(i) % Spp(k)), q < 0 PROVE FALSE
      <4>1. Spp(k) * (-q) >= Spp(k) /\ Spp(k) * (-q) = -(Spp(k) * q) /\ Spp(k) * q \in Int
        BY <1>1, <3>3, Product
      <4> QED
        BY <1>1, <3>2, <3>3, <4>1
    <3>4. Spp(i) \div Spp(k) \in Nat
      BY <3>2, <3>3
    <3> QED
      BY <1>0, <1>1, <2>1, <3>1, <3>4
  <2>3. from = U(ts - Spp(i) + Spp(k)) /\ from \in 0 .. W - 1
    <3>1. from = U(ts - Spp(i) + Spp(k))
      BY <1>0 DEF whisper_higher_archive_timestamp_start
    <3>2. ts - Spp(i) + Spp(k) \in Int
      BY <1>1
    <3> QED
      BY <3>1, <3>2, UKeeps
  <2>4. first \in 0 .. W - 1
    <3>1. ReadPoint(f, hi.offset) \in Point
      BY ReadType
    <3> QED
      BY <3>1 DEF Point
  <2> DEFINE x == U(from - first)
             z == (x \div Spp(k)) % NbPoints(k)
  <2>5. x \in 0 .. W - 1
    <3> HIDE DEF from, first
    <3> QED
      BY <1>1, <2>3, <2>4, UKeeps
  <2>6. z \in Slots(k) /\ start = Offset[k] + 12 * z
    <3>1. start = SlotOffset(hi, x \div hi.spp)
      OBVIOUS
    <3> HIDE DEF x, start
    <3> QED
      BY <1>4, <2>5, <3>1, SlotPlace
  <2>7. end \in 0 .. (12 * NbPoints(k)) - 1
    <3>1. z \in Nat
      BY <1>1, <2>6 DEF Slots
    <3> HIDE DEF z, start, n
    <3>2. start + n * WHISPER_POINT_SIZE \in Int
      BY <1>0, <2>2, <2>6, <3>1 DEF WHISPER_POINT_SIZE
    <3>3. U(start + n * WHISPER_POINT_SIZE) \in Int
      BY <1>1, <3>2, UKeeps
    <3> QED
      BY <1>1, <2>1, <3>3, Division
  <2> DEFINE read == [j \in 0 .. n - 1 |-> ReadPoint(f, ReadOffset(hi, start, end, j))]
  <2>8. known = {read[j] : j \in {l \in 0 .. n - 1 : read[l].ts = U(from + l * hi.spp)}}
    BY DEF Known
  <2> HIDE DEF from, first, x, z, end, start, known
  <2>9. ASSUME NEW j \in 0 .. n - 1
        PROVE  /\ read[j] \in Point /\ OwnPoint(k, read[j]) /\ EarlyEnough(read[j].ts)
               /\ read[j] = NoPoint \/ \E s \in Slots(k) : read[j] = RingPoint(f, k, s)
    <3> DEFINE p == ReadPoint(f, ReadOffset(hi, start, end, j))
    <3>1. p \in Point /\ read[j] = p
      BY ReadType
    <3> HIDE DEF n
    <3>2. p = NoPoint \/ \E s \in Slots(k) : p = RingPoint(f, k, s)
      <4>1. archive_size(hi) # 0
        BY <1>4
      <4>2. ReadsOnly(f, k, hi, start, end, n)
        BY <4>1, <2>2, <2>6, <2>7, ReadsRing
      <4> QED
        BY <4>2, Zenon DEF ReadsOnly
    <3> HIDE DEF read, p
    <3>3. \A s \in Slots(k) : OwnPoint(k, RingPoint(f, k, s)) /\ EarlyEnough(RingPoint(f, k, s).ts)
      BY SlotCell DEF Whole, RingPoint
    <3> QED
      BY <3>1, <3>2, <3>3, NoPointOwn
  <2> HIDE DEF read
  <2>10. OwnPoint(i, pt)
    <3>1. n = Spp(i) \div Spp(k) /\ hi.spp = Spp(k)
      BY <1>0
    <3>2. known = {read[j] : j \in {l \in 0 .. (Spp(i) \div Spp(k)) - 1 :
                                      read[l].ts = U(U(ts - Spp(i) + Spp(k)) + l * Spp(k))}}
      BY <2>3, <2>8, <3>1
    <3>3. \A j \in 0 .. (Spp(i) \div Spp(k)) - 1 :
            read[j] \in Point /\ OwnPoint(k, read[j]) /\ EarlyEnough(read[j].ts)
      BY <2>9, <3>1
    <3>4. Spp(i) \div Spp(k) # 0 /\ ts % Spp(i) = 0
      BY <1>0, <1>4, <3>1
    <3> QED
      BY <3>2, <3>3, <3>4, AggregateOwn
  <2>11. pt \in Point
    <3>1. known \in SUBSET Point
      BY <2>8, <2>9
    <3> QED
      BY <3>1, AggregateType
  <2>12. pt.ts = ts /\ pt.val = whisper_aggregate_values(KnownOf(f, ts, hi, lo))
    BY Zenon DEF KnownOf, ReadStart, ReadEnd, known, start, end, from, first
  <2>13. FromWindow(f, k, i, ts, KnownOf(f, ts, hi, lo))
    <3>1. ASSUME NEW j \in 0 .. n - 1, read[j].ts = U(from + j * hi.spp)
          PROVE  ts - Spp(i) < read[j].ts /\ read[j].ts <= ts
      <4> DEFINE H == Spp(k)
                 L == Spp(i)
                 t == read[j].ts
      <4>1. H \in Nat /\ H > 0 /\ L \in Nat /\ L > 0 /\ L < W /\ ts % L = 0 /\ n = L \div H
        BY <1>0, <1>1
      <4>2. t \in 0 .. W - 1 /\ (t = 0 \/ t + L < W)
        BY <2>9 DEF Point, EarlyEnough
      <4>3. t = U(U(ts - L + H) + j * H)
        BY <1>0, <2>3, <3>1
      <4> HIDE DEF H, L, t, n
      <4>4. L \div H # 0 /\ j \in 0 .. (L \div H) - 1
        BY <1>4, <4>1
      <4>5. Expected(H, L, ts, j, t)
        BY <4>1, <4>2, <4>3, <4>4 DEF Expected
      <4>6. ts - L < t /\ t <= ts
        BY <4>5, KnownExact
      <4> QED
        BY <4>6 DEF t, L
    <3>2. KnownOf(f, ts, hi, lo) = known
      BY Zenon DEF KnownOf, ReadStart, ReadEnd, known, start, end, from, first
    <3> HIDE DEF n
    <3> QED
      BY <2>8, <2>9, <3>1, <3>2 DEF FromWindow
  <2> HIDE DEF pt, n
  <2>14. /\ SlotFor(f, i, ts) \in Slots(i)
         /\ r.f = f \/ r.f = Put(f, RingCell(i, SlotFor(f, i, ts)), pt)
    BY <1>4, <2>11, WritesSlot
  <2> QED
    BY <1>4, <2>10, <2>11, <2>12, <2>13, <2>14 DEF r
<1> QED
  BY <1>2, <1>3, <1>4

-----------------------------------------------------------------------------
(* Points in the slots their timestamps give, if they arrive in order       *)

(* t in slot s and u in slot z are as far apart in time as their slots, up  *)
(* to turns of the ring.                                                    *)
Apart(i, t, s, u, z) == \E q \in Int : t - u = Spp(i) * (NbPoints(i) * q + (s - z))

(* Apart is an equivalence.                                                 *)
LEMMA ApartEquivalence ==
  ASSUME NEW i \in Archive, NEW t \in Int, NEW u \in Int, NEW v \in Int,
         NEW s \in Int, NEW z \in Int, NEW y \in Int
  PROVE  /\ Apart(i, t, s, t, s)
         /\ Apart(i, t, s, u, z) => Apart(i, u, z, t, s)
         /\ Apart(i, t, s, u, z) /\ Apart(i, u, z, v, y) => Apart(i, t, s, v, y)
<1> DEFINE S == Spp(i)
           N == NbPoints(i)
<1>0. S \in Nat /\ N \in Nat
  BY Archives
<1> HIDE DEF S, N
<1>1. Apart(i, t, s, t, s)
  <2>1. t - t = S * (N * 0 + (s - s))
    BY <1>0
  <2> QED
    BY <2>1 DEF Apart, S, N
<1>2. ASSUME Apart(i, t, s, u, z) PROVE Apart(i, u, z, t, s)
  <2>1. PICK q \in Int : t - u = S * (N * q + (s - z))
    BY <1>2 DEF Apart, S, N
  <2>2. N * (-q) = -(N * q) /\ N * q \in Int
    BY <1>0
  <2>3. N * (-q) + (z - s) = -(N * q + (s - z)) /\ N * q + (s - z) \in Int
    BY <2>2
  <2>4. S * (N * (-q) + (z - s)) = -(S * (N * q + (s - z)))
    BY <1>0, <2>3
  <2>5. u - t = S * (N * (-q) + (z - s)) /\ -q \in Int
    BY <2>1, <2>4
  <2> QED
    BY <2>5 DEF Apart, S, N
<1>3. ASSUME Apart(i, t, s, u, z), Apart(i, u, z, v, y) PROVE Apart(i, t, s, v, y)
  <2>1. PICK q \in Int : t - u = S * (N * q + (s - z))
    BY <1>3 DEF Apart, S, N
  <2>2. PICK r \in Int : u - v = S * (N * r + (z - y))
    BY <1>3 DEF Apart, S, N
  <2>3. N * (q + r) = N * q + N * r /\ N * q \in Int /\ N * r \in Int
    BY <1>0
  <2> DEFINE a == N * q + (s - z)
             b == N * r + (z - y)
  <2>4. N * (q + r) + (s - y) = a + b /\ a \in Int /\ b \in Int
    BY <2>3
  <2> HIDE DEF a, b
  <2>5. S * (a + b) = S * a + S * b /\ S * a \in Int /\ S * b \in Int
    BY <1>0, <2>4
  <2>6. t - u = S * a /\ u - v = S * b
    BY <2>1, <2>2 DEF a, b
  <2>7. t - v = S * (a + b)
    BY <2>5, <2>6
  <2>8. t - v = S * (N * (q + r) + (s - y)) /\ q + r \in Int
    BY <2>4, <2>7
  <2> QED
    BY <2>8 DEF Apart, S, N
<1> QED
  BY <1>1, <1>2, <1>3

(* Ring i when points arrive in order: b is the first timestamp stored in   *)
(* it, if any is, and top no earlier than the last.                         *)
RingOK(f, i, b, top) ==
  /\ \A s \in Slots(i) : RingPoint(f, i, s).ts <= top /\ RingPoint(f, i, s).ts % Spp(i) = 0
  /\ RingPoint(f, i, 0).ts = 0 => b = 0 /\ \A s \in Slots(i) : RingPoint(f, i, s).ts = 0
  /\ \A s, z \in Slots(i) : RingPoint(f, i, s).ts # 0 /\ RingPoint(f, i, z).ts # 0
                              => Apart(i, RingPoint(f, i, s).ts, s, RingPoint(f, i, z).ts, z)
  /\ b # 0 => \A s \in Slots(i) : RingPoint(f, i, s).ts # 0 => Apart(i, RingPoint(f, i, s).ts, s, b, 0)

(* Timestamps in a file fit.                                                *)
LEMMA RingPointType ==
  ASSUME NoOverflow, NEW f \in File, NEW i \in Archive, NEW s \in Slots(i)
  PROVE  RingPoint(f, i, s) \in Point /\ RingPoint(f, i, s).ts \in 0 .. W - 1 /\ RingPoint(f, i, s).ts \in Nat
<1>1. RingPoint(f, i, s) \in Point
  BY SlotCell DEF RingPoint, File
<1>2. RingPoint(f, i, s).ts \in 0 .. W - 1
  BY <1>1 DEF Point
<1> QED
  BY <1>1, <1>2, Archives

(* A point no older than the ring's first is put where its timestamp says.  *)
LEMMA SlotApart ==
  ASSUME NoOverflow, NEW f \in File, NEW i \in Archive, NEW ts \in 0 .. W - 1, ts % Spp(i) = 0,
         RingPoint(f, i, 0).ts # 0, RingPoint(f, i, 0).ts <= ts, RingPoint(f, i, 0).ts % Spp(i) = 0
  PROVE  SlotFor(f, i, ts) \in Slots(i) /\ Apart(i, ts, SlotFor(f, i, ts), RingPoint(f, i, 0).ts, 0)
<1> DEFINE S == Spp(i)
           N == NbPoints(i)
           first == RingPoint(f, i, 0).ts
           s == SlotFor(f, i, ts)
<1>0. S \in Nat /\ S > 0 /\ N \in Nat /\ N > 0 /\ W \in Nat
  BY Archives DEF NoOverflow
<1>1. first \in Nat /\ first <= ts
  BY ReadFirst, RingPointType
<1>2. U(ts - first) = ts - first
  <2>1. ts - first \in 0 .. W - 1
    BY <1>0, <1>1
  <2> QED
    BY <2>1, UKeeps
<1>3. s = ((ts - first) \div S) % N
  BY <1>2, Zenon DEF SlotFor
<1>4. ts % S = 0 /\ first % S = 0
  OBVIOUS
<1> HIDE DEF S, N, first, s
<1>5. PICK m \in Int : ts = S * m
  <2> DEFINE q == ts \div S
             r == ts % S
  <2>1. q \in Int /\ ts = S * q + r /\ r = 0
    BY <1>0, <1>4, Division
  <2> HIDE DEF q, r
  <2>2. ts = S * q
    BY <1>0, <2>1
  <2> QED
    BY <2>1, <2>2
<1>6. PICK l \in Int : first = S * l
  <2> DEFINE q == first \div S
             r == first % S
  <2>1. q \in Int /\ first = S * q + r /\ r = 0
    BY <1>0, <1>1, <1>4, Division
  <2> HIDE DEF q, r
  <2>2. first = S * q
    BY <1>0, <2>1
  <2> QED
    BY <2>1, <2>2
<1>7. ts - first = S * (m - l) + 0 /\ m - l \in Int /\ ts - first \in Int
  BY <1>0, <1>5, <1>6
<1>8. (ts - first) \div S = m - l
  BY <1>0, <1>7, DivisionUnique
<1>9. s \in 0 .. N - 1 /\ (m - l) \div N \in Int /\ m - l = N * ((m - l) \div N) + s
  BY <1>0, <1>3, <1>8, Division
<1>10. ts - first = S * (N * ((m - l) \div N) + (s - 0))
  <2>1. s - 0 = s
    BY <1>0, <1>9
  <2>2. ts - first = S * (m - l)
    BY <1>0, <1>5, <1>6
  <2> QED
    BY <1>9, <2>1, <2>2
<1>11. s \in Slots(i)
  BY <1>9 DEF Slots, N
<1> QED
  BY <1>9, <1>10, <1>11 DEF Apart, S, N, first, s

(* The point of the slot that was written, and of the others.               *)
LEMMA PutPoints ==
  ASSUME NoOverflow, NEW f \in File, NEW i \in Archive, NEW s \in Slots(i), NEW pt \in Point
  PROVE  LET g == Put(f, RingCell(i, s), pt) IN
           /\ g \in File /\ SameHead(f, g) /\ RingPoint(g, i, s) = pt
           /\ \A j \in Archive : \A z \in Slots(j) : j # i \/ z # s => RingPoint(g, j, z) = RingPoint(f, j, z)
<1> DEFINE c == RingCell(i, s)
           g == Put(f, c, pt)
<1>1. c \in Grid /\ \A j \in Archive : \A z \in Slots(j) :
        RingCell(j, z) \in Grid /\ (RingCell(j, z) = c => j = i /\ z = s)
  BY SlotCell
<1>2. g \in File /\ SameHead(f, g) /\ g.points[c] = pt /\ \A d \in Grid : d # c => g.points[d] = f.points[d]
  BY <1>1, PutFacts
<1>3. RingPoint(g, i, s) = pt
  BY <1>2 DEF RingPoint
<1>4. ASSUME NEW j \in Archive, NEW z \in Slots(j), j # i \/ z # s PROVE RingPoint(g, j, z) = RingPoint(f, j, z)
  <2>1. RingCell(j, z) \in Grid /\ RingCell(j, z) # c
    BY <1>1, <1>4
  <2> QED
    BY <1>2, <2>1 DEF RingPoint
<1> QED
  BY <1>2, <1>3, <1>4

(* A write to another ring, or one that changes no timestamp of this one,   *)
(* leaves it as it is.                                                      *)
LEMMA RingSame ==
  ASSUME NEW i, NEW f, NEW g, NEW b, NEW top, RingOK(f, i, b, top), 0 \in Slots(i),
         \A s \in Slots(i) : RingPoint(g, i, s) = RingPoint(f, i, s)
  PROVE  RingOK(g, i, b, top)
  BY DEF RingOK

(* Time goes on.                                                            *)
LEMMA RingLater ==
  ASSUME NoOverflow, NEW f \in File, NEW i \in Archive, NEW b, NEW top \in Int, NEW later \in Int,
         RingOK(f, i, b, top), top <= later
  PROVE  RingOK(f, i, b, later)
<1>1. \A s \in Slots(i) : RingPoint(f, i, s).ts \in Nat /\ RingPoint(f, i, s).ts <= top
  BY RingPointType DEF RingOK
<1>2. \A s \in Slots(i) : RingPoint(f, i, s).ts <= later
  BY <1>1
<1> QED
  BY <1>2 DEF RingOK

(* The first timestamp stored in a ring is that of its first slot.          *)
LEMMA RingBase ==
  ASSUME NoOverflow, NEW f, NEW i \in Archive, NEW b, NEW top, RingOK(f, i, b, top), NEW c,
         c = IF b # 0 THEN b ELSE RingPoint(f, i, 0).ts
  PROVE  RingOK(f, i, c, top) /\ (RingPoint(f, i, 0).ts # 0 => c # 0)
<1>1. 0 \in Slots(i)
  BY ReadFirst
<1>2. CASE b # 0
  BY <1>2 DEF RingOK
<1>3. CASE b = 0
  <2>1. c = RingPoint(f, i, 0).ts
    BY <1>3
  <2> QED
    BY <1>1, <2>1 DEF RingOK
<1> QED
  BY <1>2, <1>3

(* A point no older than the ring's points is put in its slot.              *)
LEMMA PutRing ==
  ASSUME NoOverflow, NEW f \in File, NEW i \in Archive, NEW b \in Nat, NEW ts \in 0 .. W - 1,
         RingOK(f, i, b, ts), ts % Spp(i) = 0, NEW pt \in Point, pt.ts = ts, SlotFor(f, i, ts) \in Slots(i)
  PROVE  RingOK(Put(f, RingCell(i, SlotFor(f, i, ts)), pt), i, b, ts)
<1> DEFINE s == SlotFor(f, i, ts)
           g == Put(f, RingCell(i, s), pt)
           F(z) == RingPoint(f, i, z).ts
           G(z) == RingPoint(g, i, z).ts
<1>0. W \in Nat /\ ts \in Nat /\ 0 \in Slots(i) /\ \A z \in Slots(i) : z \in Int
  BY Archives, ReadFirst DEF Slots
<1>1. \A z \in Slots(i) : F(z) \in Nat
  BY RingPointType
<1>2. G(s) = ts /\ \A z \in Slots(i) : z # s => G(z) = F(z)
  BY PutPoints
<1>3. \A z \in Slots(i) : F(z) <= ts /\ F(z) % Spp(i) = 0
  BY DEF RingOK
<1>4. F(0) = 0 => s = 0 /\ b = 0 /\ \A z \in Slots(i) : F(z) = 0
  BY DEF RingOK, SlotFor
<1>5. \A y, z \in Slots(i) : F(y) # 0 /\ F(z) # 0 => Apart(i, F(y), y, F(z), z)
  BY DEF RingOK
<1>6. b # 0 => \A z \in Slots(i) : F(z) # 0 => Apart(i, F(z), z, b, 0)
  BY DEF RingOK
<1>7. F(0) # 0 => Apart(i, ts, s, F(0), 0) /\ ts # 0
  <2>1. F(0) # 0 => Apart(i, ts, s, F(0), 0)
    BY <1>0, <1>3, SlotApart
  <2>2. F(0) # 0 => ts # 0
    BY <1>0, <1>1, <1>3
  <2> QED
    BY <2>1, <2>2
<1>8. s \in Slots(i)
  OBVIOUS
<1> DEFINE A(t, y, u, z) == Apart(i, t, y, u, z)
<1>9. /\ \A t, x \in Int : A(t, x, t, x)
      /\ \A t, x, u, y \in Int : A(t, x, u, y) => A(u, y, t, x)
      /\ \A t, x, u, y \in Int : A(t, x, u, y) => \A v, z \in Int : A(u, y, v, z) => A(t, x, v, z)
  BY ApartEquivalence
<1> HIDE DEF s, F, G, A
<1>10. \A z \in Slots(i) : G(z) <= ts /\ G(z) % Spp(i) = 0
  BY <1>0, <1>2, <1>3
<1>11. G(0) = 0 => b = 0 /\ \A z \in Slots(i) : G(z) = 0
  BY <1>0, <1>2, <1>4, <1>7
<1>12. ASSUME NEW z \in Slots(i), F(z) # 0 PROVE A(ts, s, F(z), z) /\ A(F(z), z, ts, s)
  <2>1. F(0) # 0
    BY <1>4, <1>12
  <2>2. A(ts, s, F(0), 0) /\ A(F(0), 0, F(z), z)
    BY <1>0, <1>5, <1>7, <1>12, <2>1 DEF A
  <2>3. F(0) \in Int /\ F(z) \in Int /\ ts \in Int /\ s \in Int /\ z \in Int /\ 0 \in Int
    BY <1>0, <1>1, <1>8
  <2>4. A(ts, s, F(z), z)
    BY <1>9, <2>2, <2>3
  <2> QED
    BY <1>9, <2>3, <2>4
<1>13. ASSUME NEW y \in Slots(i), NEW z \in Slots(i), G(y) # 0, G(z) # 0 PROVE A(G(y), y, G(z), z)
  <2>1. CASE y = s /\ z = s
    <3>1. A(ts, s, ts, s)
      BY <1>0, <1>8, <1>9
    <3> QED
      BY <1>2, <2>1, <3>1
  <2>2. CASE y = s /\ z # s
    BY <1>2, <1>12, <1>13, <2>2
  <2>3. CASE y # s /\ z = s
    BY <1>2, <1>12, <1>13, <2>3
  <2>4. CASE y # s /\ z # s
    BY <1>2, <1>5, <1>13, <2>4 DEF A
  <2> QED
    BY <2>1, <2>2, <2>3, <2>4
<1>14. ASSUME b # 0, NEW z \in Slots(i), G(z) # 0 PROVE A(G(z), z, b, 0)
  <2>1. CASE z = s
    <3>1. F(0) # 0
      BY <1>4, <1>14
    <3>2. A(ts, s, F(0), 0) /\ A(F(0), 0, b, 0)
      BY <1>0, <1>6, <1>7, <1>14, <3>1 DEF A
    <3>3. F(0) \in Int /\ b \in Int /\ ts \in Int /\ s \in Int /\ 0 \in Int
      BY <1>0, <1>1, <1>8
    <3>4. A(ts, s, b, 0)
      BY <1>9, <3>2, <3>3
    <3> QED
      BY <1>2, <2>1, <3>4
  <2>2. CASE z # s
    BY <1>2, <1>6, <1>14, <2>2 DEF A
  <2> QED
    BY <2>1, <2>2
<1> HIDE DEF g
<1>15. RingOK(g, i, b, ts)
  BY <1>10, <1>11, <1>13, <1>14 DEF RingOK, G, A
<1> QED
  BY <1>15 DEF g, s

-----------------------------------------------------------------------------
(* The second archive is made of all that the first holds, where windows    *)
(* fill the ring                                                            *)

InWindowOf(f, t) == {z \in Slots(0) : RingPoint(f, 0, z).ts > t - Spp(1) /\ RingPoint(f, 0, z).ts <= t}
AllOf(f, t) == UNION {RingPoint(f, 0, z).val.of : z \in InWindowOf(f, t)}

(* The base of the first ring, once f is stored, begins a window.           *)
Begins(f, b) == (IF b # 0 THEN b ELSE RingPoint(f, 0, 0).ts) % Spp(1) = Spp(0) % Spp(1)

(* Steps of the first archive and of the second, in whole numbers.          *)
LEMMA Windows ==
  ASSUME NoOverflow, WholeWindows
  PROVE  /\ 0 \in Archive /\ 1 \in Archive
         /\ \E n, m \in Nat : /\ n > 0 /\ m > 0 /\ Spp(1) = Spp(0) * n /\ NbPoints(0) = n * m
                              /\ Spp(1) \div Spp(0) = n
<1> DEFINE H == Spp(0)
           L == Spp(1)
           N == NbPoints(0)
           n == L \div H
           m == N \div n
<1>0. 0 \in Archive /\ 1 \in Archive /\ L % H = 0 /\ N % n = 0
  BY DEF WholeWindows
<1>1. H \in Nat /\ H > 0 /\ L \in Nat /\ L > 0 /\ N \in Nat /\ N > 0
  BY <1>0, Archives DEF NoOverflow
<1> HIDE DEF H, L, N
<1>2. n \in Int /\ L = H * n + (L % H)
  BY <1>1, Division
<1> HIDE DEF n
<1>3. L = H * n
  BY <1>0, <1>1, <1>2
<1>4. n > 0
  <2> SUFFICES ASSUME -n >= 0 PROVE FALSE
    BY <1>2
  <2>1. H * (-n) >= 0 /\ H * (-n) = -(H * n) /\ H * n \in Int
    BY <1>1, <1>2
  <2> QED
    BY <1>1, <1>3, <2>1
<1>5. n \in Nat
  BY <1>2, <1>4
<1>6. m \in Int /\ N = n * m + (N % n)
  BY <1>1, <1>4, <1>5, Division
<1> HIDE DEF m
<1>7. N = n * m
  BY <1>0, <1>1, <1>5, <1>6
<1>8. m > 0
  <2> SUFFICES ASSUME -m >= 0 PROVE FALSE
    BY <1>6
  <2>1. n * (-m) >= 0 /\ n * (-m) = -(n * m) /\ n * m \in Int
    BY <1>5, <1>6
  <2> QED
    BY <1>1, <1>7, <2>1
<1>9. m \in Nat
  BY <1>6, <1>8
<1> QED
  BY <1>0, <1>3, <1>4, <1>5, <1>7, <1>8, <1>9 DEF H, L, N, n

(* Two numbers with the same remainder are a multiple apart.                *)
LEMMA Congruent ==
  ASSUME NEW x \in Int, NEW y \in Int, NEW m \in Nat, m > 0, x % m = y % m
  PROVE  \E q \in Int : x - y = m * q
<1> DEFINE a == x \div m
           b == y \div m
           r == x % m
<1>1. a \in Int /\ b \in Int /\ r \in 0 .. m - 1 /\ x = m * a + r /\ y = m * b + r
  BY Division
<1> HIDE DEF a, b, r
<1>2. m * (a - b) = m * a - m * b /\ m * a \in Int /\ m * b \in Int
  BY <1>1
<1>3. x - y = m * (a - b) /\ a - b \in Int
  BY <1>1, <1>2
<1> QED
  BY <1>3

(* A product tells its second factor.                                       *)
LEMMA Cancel ==
  ASSUME NEW m \in Nat, m > 0, NEW x \in Int, NEW y \in Int, m * x = m * y
  PROVE  x = y
<1>1. m * x = m * x + 0 /\ m * x = m * y + 0 /\ m * x \in Int /\ 0 \in 0 .. m - 1
  OBVIOUS
<1>2. (m * x) \div m = x /\ (m * x) \div m = y
  BY <1>1, DivisionUnique
<1> QED
  BY <1>2

(* What leaves no remainder is a multiple.                                  *)
LEMMA Multiples ==
  ASSUME NEW x \in Int, NEW m \in Nat, m > 0, x % m = 0
  PROVE  \E a \in Int : x = m * a
<1> DEFINE a == x \div m
           r == x % m
<1>1. a \in Int /\ x = m * a + r /\ r = 0
  BY Division
<1> HIDE DEF a, r
<1>2. x = m * a
  BY <1>1
<1> QED
  BY <1>1, <1>2

(* The window that ends at ts begins a multiple of the lower step after the *)
(* first point of the ring, and not before it.                              *)
LEMMA WindowBegins ==
  ASSUME NoOverflow, WholeWindows, NEW f \in File, NEW b \in Nat, NEW ts \in 0 .. W - 1, ts # 0,
         ts % Spp(1) = 0, RingOK(f, 0, b, ts), Begins(f, b), RingPoint(f, 0, 0).ts # 0
  PROVE  /\ ts >= Spp(1)
         /\ \E l \in Nat : ts - Spp(1) + Spp(0) - RingPoint(f, 0, 0).ts = Spp(1) * l
<1> DEFINE H == Spp(0)
           L == Spp(1)
           first == RingPoint(f, 0, 0).ts
           B == IF b # 0 THEN b ELSE first
           from == ts - L + H
<1>0. 0 \in Archive /\ 1 \in Archive /\ 0 \in Slots(0)
  BY Windows, ReadFirst
<1>1. PICK n, m \in Nat : n > 0 /\ m > 0 /\ L = H * n /\ NbPoints(0) = n * m
  BY Windows
<1>2. H \in Nat /\ H > 0 /\ L \in Nat /\ L > 0 /\ W \in Nat /\ first \in Nat /\ first <= ts /\ first # 0 /\ B \in Int
  BY <1>0, Archives, RingPointType DEF RingOK
<1>3. \E q \in Int : first - B = L * q
  <2>1. CASE b = 0
    <3>1. first - B = L * 0
      BY <1>2, <2>1
    <3> QED
      BY <3>1
  <2>2. CASE b # 0
    <3>1. Apart(0, first, 0, b, 0)
      BY <1>0, <2>2 DEF RingOK
    <3>2. PICK q \in Int : first - b = H * (NbPoints(0) * q + (0 - 0))
      BY <3>1 DEF Apart
    <3>3. NbPoints(0) * q + (0 - 0) = n * (m * q)
      BY <1>1
    <3>4. H * (n * (m * q)) = L * (m * q) /\ m * q \in Int
      BY <1>1, <1>2
    <3>5. first - B = L * (m * q)
      BY <2>2, <3>2, <3>3, <3>4
    <3> QED
      BY <3>4, <3>5
  <2> QED
    BY <2>1, <2>2
<1>4. B % L = H % L
  BY DEF Begins
<1> HIDE DEF H, L, first, B
<1>5. PICK q \in Int : first - B = L * q
  BY <1>3
<1>6. PICK p \in Int : B - H = L * p
  BY <1>2, <1>4, Congruent
<1>7. PICK a \in Int : ts = L * a
  <2>1. ts % L = 0
    BY DEF L
  <2>2. ts \in Int /\ L \in Nat /\ L > 0
    BY <1>2
  <2> QED
    BY <2>1, <2>2, Multiples
<1>8. ts >= L
  <2>1. ts % L = 0
    BY DEF L
  <2> QED
    BY <1>2, <2>1, Multiple
<1> DEFINE l == a - 1 - p - q
<1>9. L * l = L * a - L - L * p - L * q /\ L * a \in Int /\ L * p \in Int /\ L * q \in Int /\ l \in Int
  BY <1>2
<1>10. from - first = L * l
  BY <1>2, <1>5, <1>6, <1>7, <1>9
<1> HIDE DEF l
<1>11. l \in Nat
  <2> SUFFICES ASSUME -l >= 1 PROVE FALSE
    BY <1>9
  <2>1. L * (-l) >= L /\ L * (-l) = -(L * l) /\ L * l \in Int
    BY <1>2, <1>9, Product
  <2> QED
    BY <1>2, <1>10, <2>1
<1>12. ts - L + H - first = L * l
  BY <1>2, <1>9, <1>10, <1>11
<1> HIDE DEF from
<1> QED
  BY <1>8, <1>11, <1>12 DEF H, L, first

(* A window is n steps, a ring m windows, and the window that ends at ts    *)
(* begins l windows after the first point of the ring.                      *)
WindowAt(f, ts, n, m, l) ==
  /\ ts >= Spp(1) /\ n \in Nat /\ n > 0 /\ m \in Nat /\ m > 0 /\ l \in Nat
  /\ Spp(1) = Spp(0) * n /\ NbPoints(0) = n * m
  /\ ts - Spp(1) + Spp(0) - RingPoint(f, 0, 0).ts = Spp(1) * l

(* The read starts at a slot with the whole window before the ring's end.   *)
LEMMA StartSlot ==
  ASSUME NoOverflow, WholeWindows, NEW f \in File, NEW ts \in 0 .. W - 1,
         NEW n, NEW m, NEW l, WindowAt(f, ts, n, m, l),
         NEW hi, Written(0, hi), hi.spp # 0, archive_size(hi) # 0, NEW lo, Written(1, lo), lo.spp # 0
  PROVE  \E y \in Nat : \E q \in Int :
           /\ y + n <= NbPoints(0) /\ ReadStart(f, ts, hi, lo) = Offset[0] + 12 * y
           /\ n * l = NbPoints(0) * q + y
           /\ whisper_higher_archive_timestamp_start(ts, hi, lo) = ts - Spp(1) + Spp(0)
<1> USE DEF WindowAt
<1> DEFINE H == Spp(0)
           L == Spp(1)
           N == NbPoints(0)
           first == RingPoint(f, 0, 0).ts
           from == ts - L + H
           x == U(from - first)
           y == (x \div H) % N
<1>0. 0 \in Archive /\ 1 \in Archive /\ 0 \in Slots(0)
  BY Windows, ReadFirst
<1>1. H \in Nat /\ H > 0 /\ L \in Nat /\ L > 0 /\ N \in Nat /\ N > 0 /\ W \in Nat /\ first \in Nat
  BY <1>0, Archives, RingPointType DEF NoOverflow
<1>2. hi.spp = H /\ lo.spp = L /\ hi.offset = Offset[0]
  BY <1>0, RingSize
<1>3. L = H * n /\ N = n * m /\ ts >= L
  OBVIOUS
<1>4. H <= L
  <2>1. H * n >= H
    BY <1>1, Product
  <2> QED
    BY <1>3, <2>1
<1>5. from \in 0 .. W - 1 /\ whisper_higher_archive_timestamp_start(ts, hi, lo) = from
  <2>1. from \in 0 .. W - 1
    BY <1>1, <1>3, <1>4
  <2>2. U(from) = from
    BY <1>1, <2>1, UKeeps
  <2> QED
    BY <1>2, <2>1, <2>2 DEF whisper_higher_archive_timestamp_start
<1>6. from - first = L * l /\ L * l \in Nat
  <2>1. L * l \in Nat
    BY <1>1
  <2>2. ts - L + H - first = L * l
    OBVIOUS
  <2> HIDE DEF H, L, first
  <2> QED
    BY <1>1, <2>1, <2>2
<1>7. x = L * l /\ x \in 0 .. W - 1
  <2>1. from - first \in 0 .. W - 1
    BY <1>1, <1>5, <1>6
  <2>2. U(from - first) = from - first
    BY <1>1, <2>1, UKeeps
  <2> QED
    BY <1>6, <2>1, <2>2
<1>8. y \in Slots(0) /\ SlotOffset(hi, x \div hi.spp) = Offset[0] + 12 * y
  <2> HIDE DEF x
  <2> QED
    BY <1>0, <1>7, SlotPlace
<1>9. ReadStart(f, ts, hi, lo) = SlotOffset(hi, x \div hi.spp)
  <2>1. ReadPoint(f, hi.offset).ts = first
    BY <1>0, <1>2, ReadFirst
  <2> QED
    BY <1>5, <2>1, Zenon DEF ReadStart
<1> HIDE DEF H, L, N, first, from, x
<1>10. x \div H = n * l
  <2>1. L * l = H * (n * l) + 0 /\ n * l \in Int /\ x \in Int /\ 0 \in 0 .. H - 1
    BY <1>1, <1>3, <1>7
  <2> QED
    BY <1>1, <1>7, <2>1, DivisionUnique
<1> DEFINE q == (n * l) \div N
<1>11. q \in Int /\ y \in 0 .. N - 1 /\ n * l = N * q + y
  <2>1. n * l \in Int
    OBVIOUS
  <2> QED
    BY <1>1, <1>10, <2>1, Division
<1> HIDE DEF q, y
<1>12. y + n <= N
  <2> DEFINE w == l - m * q
  <2>1. w \in Int /\ y = n * w
    <3>1. n * (l - m * q) = n * l - n * (m * q) /\ n * (m * q) = (n * m) * q /\ m * q \in Int /\ n * (m * q) \in Int
      BY <1>11
    <3> QED
      BY <1>1, <1>3, <1>11, <3>1
  <2> HIDE DEF w
  <2>2. m - w >= 1
    <3> SUFFICES ASSUME w - m >= 0 PROVE FALSE
      BY <2>1
    <3>1. n * (w - m) >= 0 /\ n * (w - m) = n * w - n * m /\ n * w \in Int
      BY <2>1
    <3> QED
      BY <1>1, <1>3, <1>11, <2>1, <3>1
  <2>3. n * (m - w) >= n /\ n * (m - w) = n * m - n * w /\ n * w \in Int /\ n * m \in Int
    BY <2>1, <2>2, Product
  <2> QED
    BY <1>1, <1>3, <1>11, <2>1, <2>3
<1>13. y \in Nat
  BY <1>1, <1>11
<1> QED
  BY <1>5, <1>8, <1>9, <1>11, <1>12, <1>13 DEF H, L, N, from

(* The first read covers the window.                                        *)
LEMMA FirstRead ==
  ASSUME NoOverflow, 0 \in Archive, NEW hi, Written(0, hi), hi.spp # 0, archive_size(hi) # 0,
         NEW n \in Nat, n > 0, NEW y \in Nat, y + n <= NbPoints(0), NEW start, start = Offset[0] + 12 * y,
         NEW end, end = U(start + n * WHISPER_POINT_SIZE) % archive_size(hi), NEW j \in 0 .. n - 1
  PROVE  ReadOffset(hi, start, end, j) = Offset[0] + 12 * (y + j)
<1> DEFINE N == NbPoints(0)
           x == start + n * 12
<1>0. /\ hi.offset = Offset[0] /\ Offset[0] \in Nat /\ archive_size(hi) = 12 * N
      /\ archive_offset_end(hi) = Offset[0] + 12 * N /\ Offset[0] + 12 * N < W
      /\ N \in Nat /\ N > 0 /\ W \in Nat
  BY RingSize, Archives DEF NoOverflow
<1> HIDE DEF N
<1>1. x \in 0 .. W - 1 /\ y + n <= N
  BY <1>0 DEF N
<1>2. end = x % (12 * N)
  <2>1. U(x) = x
    BY <1>0, <1>1, UKeeps
  <2> QED
    BY <1>0, <2>1, Zenon DEF WHISPER_POINT_SIZE
<1> DEFINE k == x \div (12 * N)
<1>3. k \in Int /\ end \in 0 .. (12 * N) - 1 /\ x = (12 * N) * k + end
  <2>1. 12 * N \in Nat /\ 12 * N > 0 /\ x \in Int
    BY <1>0, <1>1
  <2> QED
    BY <1>2, <2>1, Division
<1> HIDE DEF k
<1>4. start < end => end = x
  <2> SUFFICES ASSUME start < end PROVE end = x
    OBVIOUS
  <2>1. ~ (k >= 1)
    <3> SUFFICES ASSUME k >= 1 PROVE FALSE
      OBVIOUS
    <3>1. (12 * N) * k >= 12 * N /\ (12 * N) * k \in Int
      BY <1>0, <1>3, Product
    <3> QED
      BY <1>0, <1>1, <1>3, <3>1
  <2>2. ~ (-k >= 1)
    <3> SUFFICES ASSUME -k >= 1 PROVE FALSE
      OBVIOUS
    <3>1. (12 * N) * (-k) >= 12 * N /\ (12 * N) * (-k) = -((12 * N) * k) /\ (12 * N) * k \in Int
      BY <1>0, <1>3, Product
    <3> QED
      BY <1>0, <1>1, <1>3, <3>1
  <2>3. k = 0
    BY <1>3, <2>1, <2>2
  <2> QED
    BY <1>0, <1>3, <2>3
<1> DEFINE at  == j * 12
           len == IF start < end THEN end - start ELSE archive_offset_end(hi) - start
<1>5. at + 12 <= len
  BY <1>0, <1>1, <1>3, <1>4
<1>6. ReadOffset(hi, start, end, j) = start + at
  BY <1>5, Zenon DEF ReadOffset, WHISPER_POINT_SIZE
<1> QED
  BY <1>0, <1>6

(* A point of the window that the first ring holds is found: it lies as far *)
(* from the slot the read starts at as its timestamp from the window's.     *)
LEMMA KnownAll ==
  ASSUME NoOverflow, WholeWindows, NEW f \in File, NEW b \in Nat, NEW ts \in 0 .. W - 1, ts # 0,
         ts % Spp(1) = 0, RingOK(f, 0, b, ts), Begins(f, b),
         NEW hi, Written(0, hi), hi.spp # 0, archive_size(hi) # 0, NEW lo, Written(1, lo), lo.spp # 0,
         NEW z \in InWindowOf(f, ts)
  PROVE  RingPoint(f, 0, z) \in KnownOf(f, ts, hi, lo)
<1> DEFINE H == Spp(0)
           L == Spp(1)
           N == NbPoints(0)
           first == RingPoint(f, 0, 0).ts
           t == RingPoint(f, 0, z).ts
           from == ts - L + H
           start == ReadStart(f, ts, hi, lo)
           end == ReadEnd(f, ts, hi, lo)
<1>0. 0 \in Archive /\ 1 \in Archive /\ 0 \in Slots(0) /\ z \in Slots(0)
  BY Windows, ReadFirst DEF InWindowOf
<1>1. PICK n, m \in Nat : n > 0 /\ m > 0 /\ L = H * n /\ N = n * m /\ L \div H = n
  BY Windows
<1>2. /\ H \in Nat /\ H > 0 /\ L \in Nat /\ L > 0 /\ N \in Nat /\ N > 0 /\ W \in Nat
      /\ first \in Nat /\ t \in Nat /\ t \in 0 .. W - 1 /\ t > ts - L /\ t <= ts /\ z \in 0 .. N - 1
  BY <1>0, Archives, RingPointType DEF NoOverflow, InWindowOf, Slots
<1>3. ts >= L
  BY <1>2, Multiple
<1>4. t # 0 /\ first # 0
  <2>1. t # 0
    BY <1>2, <1>3
  <2> QED
    BY <1>0, <2>1 DEF RingOK
<1>5. t % H = 0 /\ Apart(0, t, z, first, 0)
  BY <1>0, <1>4 DEF RingOK
<1>6. PICK l \in Nat : ts - L + H - first = L * l
  BY <1>4, WindowBegins
<1>7. PICK y \in Nat : \E q \in Int :
        /\ y + n <= N /\ start = Offset[0] + 12 * y /\ n * l = N * q + y
        /\ whisper_higher_archive_timestamp_start(ts, hi, lo) = from
  <2>1. WindowAt(f, ts, n, m, l)
    BY <1>1, <1>3, <1>6 DEF WindowAt
  <2> QED
    BY <2>1, StartSlot
<1>8. PICK q \in Int : n * l = N * q + y
  BY <1>7
<1>9. hi.spp = H /\ lo.spp = L
  BY <1>0, RingSize
<1>10. PICK p \in Int : t - first = H * (N * p + (z - 0))
  BY <1>5 DEF Apart
<1> HIDE DEF H, L, N, first, t, start, end
<1>11. PICK c \in Int : ts = L * c
  <2>1. ts % L = 0
    BY DEF L
  <2> QED
    BY <1>2, <2>1, Multiples
<1>12. PICK a \in Int : t = H * a
  BY <1>2, <1>5, Multiples
<1> DEFINE j == a - n * c + n - 1
<1>13. j \in Int /\ t - from = H * j
  <2>1. H * (a - n * c + n - 1) = H * a - H * (n * c) + H * n - H /\ H * (n * c) = (H * n) * c
    BY <1>2
  <2>2. (H * n) * c = ts /\ H * n = L
    BY <1>1, <1>11
  <2>3. H * j = t - ts + L - H /\ j \in Int
    BY <1>2, <1>12, <2>1, <2>2
  <2> HIDE DEF j
  <2> QED
    BY <1>2, <2>3
<1> HIDE DEF j
<1>14. j >= 0
  <2> SUFFICES ASSUME -j >= 1 PROVE FALSE
    BY <1>13
  <2>1. H * (-j) >= H /\ H * (-j) = -(H * j) /\ H * j \in Int
    BY <1>2, <1>13, Product
  <2> QED
    BY <1>2, <1>13, <2>1
<1>15. j <= n - 1
  <2> SUFFICES ASSUME j - n + 1 >= 1 PROVE FALSE
    BY <1>13
  <2>1. H * (j - n + 1) >= H /\ H * (j - n + 1) = H * j - H * n + H /\ H * j \in Int /\ H * n \in Int
    BY <1>2, <1>13, Product
  <2> QED
    BY <1>1, <1>2, <1>13, <2>1
<1>16. z = y + j
  <2>1. H * (n * l) = L * l /\ n * l \in Int /\ L * l \in Int
    BY <1>1, <1>2
  <2>2. H * (j + n * l) = H * j + H * (n * l)
    BY <1>2, <1>13, <2>1
  <2>3. H * (N * p + z) = H * (j + n * l)
    <3>1. N * p + (z - 0) = N * p + z /\ N * p \in Int /\ z \in Int
      BY <1>2
    <3>2. t - first = H * (N * p + z)
      BY <1>10, <3>1
    <3>3. t - first = H * j + L * l /\ H * j \in Int
      BY <1>2, <1>6, <1>13, <2>1
    <3> QED
      BY <2>1, <2>2, <3>2, <3>3
  <2>4. N * p + z = N * q + (y + j)
    <3>1. N * p + z \in Int /\ j + n * l \in Int
      BY <1>2, <1>13, <2>1
    <3>2. N * p + z = j + n * l
      BY <1>2, <2>3, <3>1, Cancel
    <3>3. N * q \in Int
      BY <1>2
    <3> QED
      BY <1>8, <1>13, <3>2, <3>3
  <2> DEFINE x == N * p + z
             e == y + j
  <2>5. x \in Int /\ x = N * p + z
    BY <1>2
  <2>6. e \in 0 .. N - 1 /\ x = N * q + e
    BY <1>2, <1>7, <1>13, <1>14, <1>15, <2>4
  <2> HIDE DEF x, e
  <2>7. x % N = z
    BY <1>2, <2>5, DivisionUnique
  <2>8. N \in Nat /\ N > 0 /\ x \in Int
    BY <1>2, <2>5
  <2>9. x % N = e
    BY <2>6, <2>8, DivisionUnique
  <2> QED
    BY <2>7, <2>9 DEF e
<1>17. j \in 0 .. n - 1
  BY <1>13, <1>14, <1>15
<1>18. end = U(start + n * WHISPER_POINT_SIZE) % archive_size(hi)
  BY <1>1, <1>9 DEF ReadEnd, end, start
<1>19. ReadOffset(hi, start, end, j) = Offset[0] + 12 * (y + j)
  <2>1. y + n <= NbPoints(0) /\ start = Offset[0] + 12 * y
    BY <1>7 DEF N
  <2> QED
    BY <1>0, <1>1, <1>17, <1>18, <2>1, FirstRead
<1>20. ReadPoint(f, ReadOffset(hi, start, end, j)) = RingPoint(f, 0, z)
  BY <1>0, <1>16, <1>19, ReadSlot
<1>21. t = U(from + j * hi.spp)
  <2>1. from + j * H = t
    BY <1>2, <1>13
  <2> QED
    BY <1>2, <1>9, <2>1, UKeeps
<1>22. KnownOf(f, ts, hi, lo) = Known(f, hi, start, end, n, from)
  BY <1>1, <1>7, <1>9 DEF KnownOf, start, end
<1> QED
  BY <1>17, <1>20, <1>21, <1>22 DEF Known, t

(* So the aggregate of a window is of all of it.                            *)
LEMMA KnownComplete ==
  ASSUME NoOverflow, WholeWindows, NEW f \in File, NEW b \in Nat, NEW ts \in 0 .. W - 1, ts # 0,
         ts % Spp(1) = 0, RingOK(f, 0, b, ts), Begins(f, b),
         NEW hi, Written(0, hi), hi.spp # 0, archive_size(hi) # 0, NEW lo, Written(1, lo), lo.spp # 0,
         FromWindow(f, 0, 1, ts, KnownOf(f, ts, hi, lo))
  PROVE  UNION {p.val.of : p \in KnownOf(f, ts, hi, lo)} = AllOf(f, ts)
<1> DEFINE K == KnownOf(f, ts, hi, lo)
<1>0. 0 \in Archive /\ 1 \in Archive
  BY Windows
<1>1. Spp(1) \in Nat /\ Spp(1) > 0 /\ W \in Nat
  BY <1>0, Archives
<1>2. ts >= Spp(1)
  BY <1>1, Multiple
<1>3. \A z \in InWindowOf(f, ts) : RingPoint(f, 0, z) \in K
  BY KnownAll
<1> HIDE DEF K
<1>4. ASSUME NEW p \in K PROVE \E z \in InWindowOf(f, ts) : p = RingPoint(f, 0, z)
  <2>1. ts - Spp(1) < p.ts /\ p.ts <= ts /\ (p = NoPoint \/ \E z \in Slots(0) : p = RingPoint(f, 0, z))
    BY DEF FromWindow, K
  <2>2. p # NoPoint
    <3> SUFFICES ASSUME p = NoPoint PROVE FALSE
      OBVIOUS
    <3>1. p.ts = 0
      BY DEF NoPoint
    <3> QED
      BY <1>1, <1>2, <2>1, <3>1
  <2>3. PICK z \in Slots(0) : p = RingPoint(f, 0, z)
    BY <2>1, <2>2
  <2>4. RingPoint(f, 0, z).ts \in Nat
    BY <1>0, RingPointType
  <2> QED
    BY <1>1, <2>1, <2>3, <2>4 DEF InWindowOf
<1> QED
  BY <1>3, <1>4 DEF AllOf, K

-----------------------------------------------------------------------------
(* What one value leaves, if nothing overflows                              *)

Rings(f, b, top) == \A i \in Archive : RingOK(f, i, b[i], top)
Good(f, b, top)  == Whole(f) /\ (InOrder => Rings(f, b, top))
RingZeroSame(f, g) == 0 \in Archive => \A z \in Slots(0) : RingPoint(g, 0, z) = RingPoint(f, 0, z)

(* A point written to its slot in one ring keeps all of them good.          *)
LEMMA PutGood ==
  ASSUME NoOverflow, NEW f \in File, NEW b \in [Archive -> 0 .. W - 1], NEW ts \in 0 .. W - 1, Good(f, b, ts),
         NEW i \in Archive, ts % Spp(i) = 0, SlotFor(f, i, ts) \in Slots(i),
         NEW pt \in Point, pt.ts = ts, OwnPoint(i, pt), EarlyEnough(ts)
  PROVE  Good(Put(f, RingCell(i, SlotFor(f, i, ts)), pt), b, ts)
<1> DEFINE g == Put(f, RingCell(i, SlotFor(f, i, ts)), pt)
<1>1. Whole(g)
  BY PutWhole DEF Good
<1>2. ASSUME InOrder, NEW j \in Archive PROVE RingOK(g, j, b[j], ts)
  <2>0. RingOK(f, j, b[j], ts) /\ b[j] \in Nat
    BY <1>2, Archives DEF Good, Rings
  <2>1. CASE j = i
    BY <2>0, <2>1, PutRing
  <2>2. CASE j # i
    <3>1. 0 \in Slots(j) /\ \A z \in Slots(j) : RingPoint(g, j, z) = RingPoint(f, j, z)
      BY <2>2, PutPoints, ReadFirst
    <3> HIDE DEF g
    <3> QED
      BY <2>0, <3>1, RingSame
  <2> QED
    BY <2>1, <2>2
<1> HIDE DEF g
<1>3. Good(g, b, ts)
  BY <1>1, <1>2 DEF Good, Rings
<1> QED
  BY <1>3 DEF g

(* What one turn of the loop writes, if anything.                           *)
Propagated(f, g, k, ts, hi, lo) ==
  /\ k \in Archive /\ k - 1 \in Archive /\ k # 0 /\ ts % Spp(k) = 0
  /\ Written(k - 1, hi) /\ hi.spp # 0 /\ archive_size(hi) # 0 /\ Written(k, lo) /\ lo.spp # 0
  /\ FromWindow(f, k - 1, k, ts, KnownOf(f, ts, hi, lo))
  /\ SlotFor(f, k, ts) \in Slots(k)
  /\ \E pt \in Point : /\ pt.ts = ts /\ OwnPoint(k, pt)
                       /\ pt.val = whisper_aggregate_values(KnownOf(f, ts, hi, lo))
                       /\ g = Put(f, RingCell(k, SlotFor(f, k, ts)), pt)

(* A turn of the loop writes one point to its own ring, or nothing.         *)
LEMMA LowerSlot ==
  ASSUME NoOverflow, NEW f, FileOK(f),
         NEW aligned \in 0 .. W - 1, \A i \in Archive : Spp(i) < W,
         NEW failing, NEW k \in 1 .. f.count - 1, NEW s \in Loop(f), Whole(s.f)
  PROVE  LET t == Lower(f, aligned, failing, k, s) IN
           t.f = s.f \/ Propagated(s.f, t.f, k, aligned, ReadInfo(f, k - 1), ReadInfo(f, k))
<1> DEFINE t  == Lower(f, aligned, failing, k, s)
           hi == ReadInfo(f, k - 1)
           lo == ReadInfo(f, k)
           r  == whisper_write_propagate(s.f, aligned, hi, lo, k \in failing)
<1>0. s.f \in File /\ s \in [f : File, st : Status, go : BOOLEAN]
  BY DEF Loop
<1>1. t \in {s, [s EXCEPT !.st = "abort"], [s EXCEPT !.go = FALSE]}
      \/ (t = [f |-> r.f, st |-> r.st, go |-> TRUE] /\ lo.spp # 0 /\ aligned % lo.spp = 0)
  BY Zenon DEF Lower
<1>2. [s EXCEPT !.st = "abort"].f = s.f /\ [s EXCEPT !.go = FALSE].f = s.f
  BY <1>0
<1> HIDE DEF t, r
<1>3. CASE t.f = r.f /\ lo.spp # 0 /\ aligned % lo.spp = 0
  <2>1. k \in Int /\ k - 1 \in Int /\ k \in Archive /\ k - 1 \in Archive /\ k - 1 < k /\ k # 0
    BY Archives DEF FileOK, File, Archive
  <2>2. Written(k, lo) /\ Written(k - 1, hi) /\ hi.spp # 0
    <3>1. Written(k, lo) /\ Written(k - 1, hi)
      BY <2>1, ReadHeader
    <3>2. lo = f.info[k] /\ hi = f.info[k - 1]
      BY <2>1 DEF ReadInfo
    <3>3. f.info[k - 1].spp # 0
      BY <1>3, <2>1, <3>2 DEF FileOK, InTurn
    <3> QED
      BY <3>1, <3>2, <3>3
  <2>3. lo.spp = Spp(k) /\ Spp(k) < W /\ lo.spp # 0
    BY <1>3, <2>1, <2>2, Headers
  <2> HIDE DEF hi, lo
  <2>4. \/ r.f = s.f
        \/ \E pt \in Point : /\ pt.ts = aligned /\ OwnPoint(k, pt) /\ SlotFor(s.f, k, aligned) \in Slots(k)
                             /\ r.f = Put(s.f, RingCell(k, SlotFor(s.f, k, aligned)), pt)
                             /\ pt.val = whisper_aggregate_values(KnownOf(s.f, aligned, hi, lo))
                             /\ FromWindow(s.f, k - 1, k, aligned, KnownOf(s.f, aligned, hi, lo))
                             /\ archive_size(hi) # 0
    BY <1>0, <1>3, <2>1, <2>2, <2>3, PropagatesSlot DEF r
  <2>5. aligned % Spp(k) = 0
    BY <1>3, <2>3
  <2>6. t.f = s.f \/ Propagated(s.f, t.f, k, aligned, hi, lo)
    BY <1>3, <2>1, <2>2, <2>3, <2>4, <2>5 DEF Propagated
  <2> QED
    BY <2>6 DEF t, hi, lo
<1>4. t.f = s.f \/ (t.f = r.f /\ lo.spp # 0 /\ aligned % lo.spp = 0)
  <2> HIDE DEF lo
  <2>1. CASE t = [f |-> r.f, st |-> r.st, go |-> TRUE] /\ lo.spp # 0 /\ aligned % lo.spp = 0
    BY <2>1
  <2>2. CASE t \in {s, [s EXCEPT !.st = "abort"], [s EXCEPT !.go = FALSE]}
    BY <1>2, <2>2, Zenon
  <2> QED
    BY <1>1, <2>1, <2>2, Zenon
<1> QED
  BY <1>3, <1>4 DEF t

(* A turn of the loop keeps the rings good, and the first one as it is.     *)
LEMMA LowerGood ==
  ASSUME NoOverflow, NEW f, FileOK(f), NEW b \in [Archive -> 0 .. W - 1],
         NEW aligned \in 0 .. W - 1, EarlyEnough(aligned), \A i \in Archive : Spp(i) < W,
         NEW failing, NEW k \in 1 .. f.count - 1, NEW s \in Loop(f), Good(s.f, b, aligned)
  PROVE  LET t == Lower(f, aligned, failing, k, s) IN
           Good(t.f, b, aligned) /\ RingZeroSame(s.f, t.f)
<1> DEFINE t  == Lower(f, aligned, failing, k, s)
           hi == ReadInfo(f, k - 1)
           lo == ReadInfo(f, k)
<1>0. s.f \in File /\ Whole(s.f)
  BY DEF Loop, Good
<1>1. t.f = s.f \/ Propagated(s.f, t.f, k, aligned, hi, lo)
  BY <1>0, LowerSlot
<1> HIDE DEF t, hi, lo
<1>2. CASE t.f = s.f
  <2>1. RingZeroSame(s.f, s.f)
    BY DEF RingZeroSame
  <2> QED
    BY <1>2, <2>1 DEF t
<1>3. CASE Propagated(s.f, t.f, k, aligned, hi, lo)
  <2>1. k \in Archive /\ k # 0 /\ aligned % Spp(k) = 0 /\ SlotFor(s.f, k, aligned) \in Slots(k)
    BY <1>3 DEF Propagated
  <2>2. PICK pt \in Point : /\ pt.ts = aligned /\ OwnPoint(k, pt)
                            /\ t.f = Put(s.f, RingCell(k, SlotFor(s.f, k, aligned)), pt)
    BY <1>3 DEF Propagated
  <2>3. Good(t.f, b, aligned)
    BY <1>0, <2>1, <2>2, PutGood
  <2>4. ASSUME 0 \in Archive, NEW z \in Slots(0) PROVE RingPoint(t.f, 0, z) = RingPoint(s.f, 0, z)
    BY <1>0, <2>1, <2>2, <2>4, PutPoints
  <2>5. RingZeroSame(s.f, t.f)
    BY <2>4 DEF RingZeroSame
  <2> QED
    BY <2>3, <2>5 DEF t
<1> QED
  BY <1>1, <1>2, <1>3

(* What the second archive is made of: where windows fill the first ring    *)
(* and its first point began one, what a turn writes there is complete.     *)
Aligning(f, b) == InOrder /\ WholeWindows /\ Method \in {"average", "sum"} /\ Begins(f, b[0])
CompleteOne(f, s) == RingPoint(f, 1, s).ts # 0 => RingPoint(f, 1, s).val.of = AllOf(f, RingPoint(f, 1, s).ts)
RingOne(f, g) == \A s \in Slots(1) : RingPoint(g, 1, s) = RingPoint(f, 1, s) \/ CompleteOne(g, s)

(* All of this depends only on the first ring.                              *)
LEMMA SameWindows ==
  ASSUME 0 \in Archive, NEW f, NEW g, RingZeroSame(f, g), 0 \in Slots(0)
  PROVE  /\ \A t : AllOf(g, t) = AllOf(f, t)
         /\ \A b : Aligning(f, b) <=> Aligning(g, b)
<1>1. \A z \in Slots(0) : RingPoint(g, 0, z) = RingPoint(f, 0, z)
  BY DEF RingZeroSame
<1>2. ASSUME NEW t PROVE AllOf(g, t) = AllOf(f, t)
  <2>1. InWindowOf(g, t) = InWindowOf(f, t)
    BY <1>1 DEF InWindowOf
  <2>2. \A z \in InWindowOf(f, t) : RingPoint(g, 0, z) = RingPoint(f, 0, z)
    BY <1>1 DEF InWindowOf
  <2> QED
    BY <2>1, <2>2 DEF AllOf
<1>3. \A b : Begins(f, b) <=> Begins(g, b)
  BY <1>1 DEF Begins
<1> QED
  BY <1>2, <1>3 DEF Aligning

(* A turn of the loop writes only complete points to the second archive.    *)
LEMMA LowerOne ==
  ASSUME NoOverflow, NEW f, FileOK(f), NEW b \in [Archive -> 0 .. W - 1],
         NEW aligned \in 0 .. W - 1, EarlyEnough(aligned), \A i \in Archive : Spp(i) < W,
         NEW failing, NEW k \in 1 .. f.count - 1, NEW s \in Loop(f), Good(s.f, b, aligned),
         Aligning(s.f, b)
  PROVE  RingOne(s.f, Lower(f, aligned, failing, k, s).f)
<1> DEFINE t  == Lower(f, aligned, failing, k, s)
           hi == ReadInfo(f, k - 1)
           lo == ReadInfo(f, k)
<1>0. s.f \in File /\ Whole(s.f) /\ 0 \in Archive /\ 1 \in Archive /\ 0 \in Slots(0)
  BY Windows, ReadFirst DEF Loop, Good, Aligning
<1>1. t.f = s.f \/ Propagated(s.f, t.f, k, aligned, hi, lo)
  BY <1>0, LowerSlot
<1>2. RingZeroSame(s.f, t.f)
  BY LowerGood
<1> HIDE DEF t, hi, lo
<1>3. CASE t.f = s.f
  BY <1>3 DEF RingOne, t
<1>4. CASE Propagated(s.f, t.f, k, aligned, hi, lo)
  <2>1. k \in Archive /\ SlotFor(s.f, k, aligned) \in Slots(k)
    BY <1>4 DEF Propagated
  <2> DEFINE K == KnownOf(s.f, aligned, hi, lo)
             y == SlotFor(s.f, k, aligned)
  <2>2. PICK pt \in Point : /\ pt.ts = aligned /\ pt.val = whisper_aggregate_values(K)
                            /\ t.f = Put(s.f, RingCell(k, y), pt)
    BY <1>4 DEF Propagated
  <2>3. /\ RingPoint(t.f, k, y) = pt
        /\ \A j \in Archive : \A z \in Slots(j) : j # k \/ z # y => RingPoint(t.f, j, z) = RingPoint(s.f, j, z)
    BY <1>0, <2>1, <2>2, PutPoints
  <2>4. ASSUME k = 1, aligned # 0 PROVE pt.val.of = AllOf(t.f, aligned)
    <3>1. /\ Written(0, hi) /\ hi.spp # 0 /\ archive_size(hi) # 0 /\ Written(1, lo) /\ lo.spp # 0
          /\ FromWindow(s.f, 0, 1, aligned, K) /\ aligned % Spp(1) = 0
      <4>1. k - 1 = 0
        BY <2>4
      <4> QED
        BY <1>4, <2>4, <4>1 DEF Propagated
    <3>2. RingOK(s.f, 0, b[0], aligned) /\ b[0] \in Nat /\ WholeWindows /\ Begins(s.f, b[0])
      BY <1>0, Archives DEF Good, Rings, Aligning
    <3>3. UNION {p.val.of : p \in K} = AllOf(s.f, aligned)
      BY <1>0, <2>4, <3>1, <3>2, KnownComplete
    <3> HIDE DEF K
    <3>4. pt.val.of = UNION {p.val.of : p \in K}
      BY <2>2 DEF whisper_aggregate_values, Aligning
    <3>5. AllOf(t.f, aligned) = AllOf(s.f, aligned)
      BY <1>0, <1>2, SameWindows
    <3> QED
      BY <3>3, <3>4, <3>5
  <2> HIDE DEF y
  <2>5. ASSUME NEW z \in Slots(1) PROVE RingPoint(t.f, 1, z) = RingPoint(s.f, 1, z) \/ CompleteOne(t.f, z)
    <3>1. CASE k = 1 /\ z = y
      BY <2>2, <2>3, <2>4, <3>1 DEF CompleteOne
    <3>2. CASE ~ (k = 1 /\ z = y)
      BY <1>0, <2>3, <3>2
    <3> QED
      BY <3>1, <3>2
  <2> QED
    BY <2>5 DEF RingOne, t
<1> QED
  BY <1>1, <1>3, <1>4

(* A timestamp, aligned to the step of the first archive.                   *)
Floor(t) == t - (t % Spp(0))

(* Alignment keeps the order, and gives a multiple of the step.             *)
LEMMA FloorFacts ==
  ASSUME 0 \in Archive, NEW t \in 0 .. W - 1
  PROVE  /\ Floor(t) \in 0 .. W - 1 /\ Floor(t) <= t /\ Floor(t) % Spp(0) = 0
         /\ \A u \in 0 .. W - 1 : t <= u => Floor(t) <= Floor(u)
<1> DEFINE S == Spp(0)
<1>0. S \in Nat /\ S > 0 /\ W \in Nat
  BY Archives
<1>1. Floor(t) \in 0 .. W - 1 /\ Floor(t) <= t
  BY <1>0, Aligned DEF Floor
<1> HIDE DEF S
<1>2. \A x \in 0 .. W - 1 : x \div S \in Int /\ x % S \in 0 .. S - 1 /\ x = S * (x \div S) + (x % S)
  BY <1>0, Division
<1>3. Floor(t) % S = 0
  <2> DEFINE q == t \div S
             r == t % S
  <2>1. q \in Int /\ r \in 0 .. S - 1 /\ t = S * q + r /\ S * q \in Int
    BY <1>0, <1>2
  <2> HIDE DEF q, r
  <2>2. t - r = S * q + 0 /\ t - r \in Int /\ 0 \in 0 .. S - 1
    BY <1>0, <2>1
  <2>3. (t - r) % S = 0
    BY <1>0, <2>1, <2>2, DivisionUnique
  <2> QED
    BY <2>3 DEF Floor, r, S
<1>4. ASSUME NEW u \in 0 .. W - 1, t <= u PROVE Floor(t) <= Floor(u)
  <2> DEFINE q == t \div S
             r == t % S
             p == u \div S
             o == u % S
  <2>1. /\ q \in Int /\ r \in 0 .. S - 1 /\ t = S * q + r /\ S * q \in Int
        /\ p \in Int /\ o \in 0 .. S - 1 /\ u = S * p + o /\ S * p \in Int
    BY <1>0, <1>2
  <2>2. Floor(t) = t - r /\ Floor(u) = u - o
    BY DEF Floor, S
  <2> HIDE DEF q, r, p, o
  <2>3. q <= p
    <3> SUFFICES ASSUME q - p >= 1 PROVE FALSE
      BY <2>1
    <3>1. S * (q - p) >= S /\ S * (q - p) = S * q - S * p
      BY <1>0, <2>1, Product
    <3> QED
      BY <1>0, <1>4, <2>1, <3>1
  <2>4. S * (p - q) >= 0 /\ S * (p - q) = S * p - S * q
    BY <1>0, <2>1, <2>3
  <2> QED
    BY <1>0, <2>1, <2>2, <2>4
<1> QED
  BY <1>1, <1>3, <1>4 DEF S

(* What whisper_write_value() does to the first ring: nothing, or it puts   *)
(* the value in its slot and keeps its timestamp.                           *)
RingZero(f, r, timestamp, v) ==
  \/ r.kept = kept /\ RingZeroSame(f, r.f)
  \/ /\ r.kept = Floor(timestamp) /\ 0 \in Archive
     /\ SlotFor(f, 0, Floor(timestamp)) \in Slots(0)
     /\ \A z \in Slots(0) :
          RingPoint(r.f, 0, z) = IF z = SlotFor(f, 0, Floor(timestamp)) THEN NewPoint(Floor(timestamp), v)
                                                                        ELSE RingPoint(f, 0, z)

(* A value keeps the rings good, and adds only complete points to the       *)
(* second one.                                                              *)
LEMMA WriteOpenGood ==
  ASSUME NoOverflow, NEW f, FileOK(f), NEW timestamp \in Timestamps, NEW v \in Values, NEW failing,
         NEW b \in [Archive -> 0 .. W - 1], Good(f, b, Floor(timestamp))
  PROVE  LET r == WriteOpen(f, timestamp, v, failing) IN
           /\ Good(r.f, b, Floor(timestamp)) /\ RingZero(f, r, timestamp, v)
           /\ Aligning(r.f, b) => RingOne(f, r.f)
<1> DEFINE arch    == ReadInfo(f, 0)
           aligned == timestamp - (timestamp % arch.spp)
           pt      == NewPoint(aligned, v)
           first   == IF 0 \in failing THEN [f |-> f, st |-> "ok"]
                      ELSE whisper_write_point(f, arch, aligned, pt)
           last    == Turns(f, aligned, failing, first)[f.count]
           r       == WriteOpen(f, timestamp, v, failing)
<1>0. f \in File /\ f.count \in Nat
  BY Archives DEF FileOK, File
<1>1. RingZeroSame(f, f) /\ RingOne(f, f)
  BY DEF RingZeroSame, RingOne
<1>2. CASE arch.spp = 0
  <2>1. r = [f |-> f, st |-> "sigfpe", kept |-> kept]
    BY <1>2 DEF WriteOpen
  <2> QED
    BY <1>1, <2>1 DEF RingZero
<1>3. CASE arch.spp # 0
  <2>0. 0 \in Archive /\ Written(0, arch)
    BY <1>3, ReadHeader
  <2>1. arch.spp = Spp(0) /\ Spp(0) \in Nat /\ Spp(0) > 0 /\ W \in Nat
    BY <1>3, <2>0, Headers, Archives
  <2>2. timestamp \in 0 .. W - 1 /\ \A i \in Archive : timestamp + Spp(i) < W
    BY WhisperAssumption DEF NoOverflow
  <2>3. aligned = Floor(timestamp)
    BY <2>1 DEF Floor
  <2>4. r = [f |-> last.f, st |-> last.st, kept |-> IF 0 \notin failing /\ first.st = "ok" THEN aligned ELSE kept]
    BY <1>3, Zenon DEF WriteOpen, NewPoint
  <2>5. first = IF 0 \in failing THEN [f |-> f, st |-> "ok"] ELSE whisper_write_point(f, arch, aligned, pt)
    OBVIOUS
  <2> HIDE DEF arch, aligned, r, first, last
  <2>6. aligned \in 0 .. W - 1 /\ aligned <= timestamp /\ aligned % Spp(0) = 0
    BY <2>0, <2>2, <2>3, FloorFacts
  <2>7. EarlyEnough(aligned) /\ \A i \in Archive : Spp(i) < W
    BY <2>1, <2>2, <2>6, Archives DEF EarlyEnough
  <2>8. pt \in Point /\ pt.ts = aligned /\ OwnPoint(0, pt)
    <3>1. pt.ts = aligned /\ pt.val.of = {<<aligned, v>>} /\ pt \in Point
      BY <2>6 DEF NewPoint, Raw, Point
    <3>2. aligned - Spp(0) < aligned /\ aligned <= aligned
      BY <2>1, <2>6
    <3> QED
      BY <3>1, <3>2 DEF OwnPoint
  <2> HIDE DEF pt
  <2> DEFINE z0 == SlotFor(f, 0, aligned)
  <2>9. /\ first.f \in File /\ first.st \in Status /\ SameHead(f, first.f) /\ Good(first.f, b, aligned)
        /\ \/ first.f = f /\ (0 \in failing \/ first.st # "ok")
           \/ /\ first.f = Put(f, RingCell(0, z0), pt) /\ z0 \in Slots(0)
              /\ 0 \notin failing /\ first.st = "ok"
    <3>1. Good(f, b, aligned) /\ SameHead(f, f) /\ "ok" \in Status /\ "sigfpe" \in Status /\ "sigfpe" # "ok"
      BY <2>3 DEF SameHead, Status
    <3>2. CASE 0 \in failing
      BY <1>0, <2>5, <3>1, <3>2
    <3>3. CASE 0 \notin failing
      <4>1. first = whisper_write_point(f, arch, aligned, pt)
        BY <2>5, <3>3
      <4>2. /\ z0 \in Slots(0)
            /\ \/ first.f = f /\ first.st = "sigfpe"
               \/ first.f = Put(f, RingCell(0, z0), pt) /\ first.st = "ok"
        BY <1>0, <1>3, <2>0, <2>6, <2>8, <4>1, WritesSlot DEF arch
      <4>3. CASE first.f = f /\ first.st = "sigfpe"
        BY <1>0, <3>1, <4>3
      <4>4. CASE first.f = Put(f, RingCell(0, z0), pt) /\ first.st = "ok"
        <5>1. Good(first.f, b, aligned)
          BY <1>0, <2>0, <2>6, <2>7, <2>8, <3>1, <4>2, <4>4, PutGood
        <5>2. first.f \in File /\ SameHead(f, first.f)
          BY <1>0, <2>0, <2>8, <4>2, <4>4, PutPoints
        <5> QED
          BY <3>1, <3>3, <4>2, <4>4, <5>1, <5>2
      <4> QED
        BY <4>2, <4>3, <4>4
    <3> QED
      BY <3>2, <3>3
  <2> DEFINE S == {s \in Loop(f) : /\ Good(s.f, b, aligned) /\ RingZeroSame(first.f, s.f)
                                   /\ Aligning(first.f, b) => RingOne(first.f, s.f)}
  <2>10. [f |-> first.f, st |-> first.st, go |-> TRUE] \in S
    BY <2>9 DEF Loop, RingZeroSame, RingOne
  <2>11. ASSUME NEW k \in 1 .. f.count - 1, NEW s \in S PROVE Lower(f, aligned, failing, k, s) \in S
    <3> DEFINE t == Lower(f, aligned, failing, k, s)
    <3>1. t \in Loop(f)
      BY <2>6, LowerType
    <3>2. Good(t.f, b, aligned) /\ RingZeroSame(s.f, t.f)
      BY <2>6, <2>7, LowerGood
    <3>3. Aligning(s.f, b) => RingOne(s.f, t.f)
      BY <2>6, <2>7, LowerOne
    <3> HIDE DEF t
    <3>4. RingZeroSame(first.f, t.f)
      BY <3>2 DEF RingZeroSame
    <3>5. ASSUME Aligning(first.f, b) PROVE RingOne(first.f, t.f)
      <4>1. 0 \in Slots(0) /\ RingZeroSame(first.f, s.f) /\ RingOne(first.f, s.f)
        BY <2>0, <3>5, ReadFirst
      <4>2. RingOne(s.f, t.f)
        BY <2>0, <3>3, <3>5, <4>1, SameWindows
      <4>3. \A u : AllOf(t.f, u) = AllOf(s.f, u)
        BY <2>0, <3>2, <4>1, SameWindows
      <4> QED
        BY <4>1, <4>2, <4>3 DEF RingOne, CompleteOne
    <3>6. t \in S
      BY <3>1, <3>2, <3>4, <3>5
    <3> QED
      BY <3>6 DEF t
  <2>12. last \in S
    <3> HIDE DEF S
    <3> QED
      BY <1>0, <2>10, <2>11, TurnsIn DEF last
  <2>13. /\ Good(last.f, b, aligned) /\ RingZeroSame(first.f, last.f)
         /\ Aligning(first.f, b) => RingOne(first.f, last.f)
    BY <2>12
  <2>14. r.f = last.f /\ r.kept = IF 0 \notin failing /\ first.st = "ok" THEN aligned ELSE kept
    BY <2>4
  <2>15. RingZero(f, r, timestamp, v)
    <3>1. CASE first.f = f /\ (0 \in failing \/ first.st # "ok")
      BY <2>13, <2>14, <3>1 DEF RingZero
    <3>2. CASE first.f = Put(f, RingCell(0, z0), pt) /\ z0 \in Slots(0) /\ 0 \notin failing /\ first.st = "ok"
      <4>1. \A z \in Slots(0) : RingPoint(first.f, 0, z) = IF z = z0 THEN pt ELSE RingPoint(f, 0, z)
        BY <1>0, <2>0, <2>8, <3>2, PutPoints
      <4>2. \A z \in Slots(0) : RingPoint(r.f, 0, z) = IF z = z0 THEN pt ELSE RingPoint(f, 0, z)
        BY <2>0, <2>13, <2>14, <4>1 DEF RingZeroSame
      <4>3. r.kept = aligned
        BY <2>14, <3>2
      <4> QED
        BY <2>0, <2>3, <3>2, <4>2, <4>3 DEF RingZero, pt
    <3> QED
      BY <2>9, <3>1, <3>2
  <2>16. ASSUME Aligning(r.f, b) PROVE RingOne(f, r.f)
    <3>1. 0 \in Slots(0) /\ 1 \in Archive
      BY <2>0, <2>16, ReadFirst, Windows DEF Aligning
    <3>2. RingOne(first.f, r.f)
      BY <2>0, <2>13, <2>14, <2>16, <3>1, SameWindows
    <3>3. \A z \in Slots(1) : RingPoint(first.f, 1, z) = RingPoint(f, 1, z)
      BY <1>0, <2>0, <2>8, <2>9, <3>1, PutPoints
    <3> QED
      BY <3>2, <3>3 DEF RingOne
  <2> QED
    BY <2>3, <2>13, <2>14, <2>15, <2>16 DEF r
<1> QED
  BY <1>2, <1>3

-----------------------------------------------------------------------------
(* The inductive invariant                                                  *)

(* The rings are good, and once a ring has a first point its timestamp is   *)
(* the ring's base.                                                         *)
StoredWell ==
  /\ Good(file, base, Floor(newest))
  /\ InOrder => \A i \in Archive : RingPoint(file, i, 0).ts # 0 => base[i] # 0

Inv ==
  /\ TypeInv
  /\ ~ file.exists => file = NoFile
  /\ NoOverflow => StoredWell

(* Good looks at the points alone.                                          *)
LEMMA GoodPoints ==
  ASSUME NoOverflow, NEW f, NEW g, NEW b, NEW top, Good(f, b, top), g.points = f.points, g.torn = f.torn
  PROVE  Good(g, b, top) /\ \A i, s : RingPoint(g, i, s) = RingPoint(f, i, s)
<1>1. \A i, s : RingPoint(g, i, s) = RingPoint(f, i, s)
  BY DEF RingPoint
<1>2. Whole(g)
  BY <1>1 DEF Good, Whole
<1>3. ASSUME InOrder, NEW i \in Archive PROVE RingOK(g, i, b[i], top)
  <2>1. RingOK(f, i, b[i], top) /\ 0 \in Slots(i)
    BY <1>3, ReadFirst DEF Good, Rings
  <2> QED
    BY <1>1, <2>1, RingSame
<1> QED
  BY <1>1, <1>2, <1>3 DEF Good, Rings

(* Time goes on, in order or not.                                           *)
LEMMA GoodLater ==
  ASSUME NoOverflow, NEW f \in File, NEW b, NEW t \in 0 .. W - 1, NEW u \in 0 .. W - 1,
         InOrder => t <= u, Good(f, b, Floor(t))
  PROVE  Good(f, b, Floor(u))
<1>1. ASSUME InOrder, NEW i \in Archive PROVE RingOK(f, i, b[i], Floor(u))
  <2>1. 0 \in Archive /\ RingOK(f, i, b[i], Floor(t)) /\ W \in Nat
    BY <1>1, Archives DEF Good, Rings, Archive
  <2>2. Floor(t) \in Int /\ Floor(u) \in Int /\ Floor(t) <= Floor(u)
    BY <1>1, <2>1, FloorFacts
  <2> QED
    BY <2>1, <2>2, RingLater
<1> QED
  BY <1>1 DEF Good, Rings

(* Nothing is stored at first.                                              *)
LEMMA NoFileGood ==
  ASSUME NoOverflow, NEW top \in Nat
  PROVE  Good(NoFile, [i \in Archive |-> 0], top) /\ \A i \in Archive : RingPoint(NoFile, i, 0).ts = 0
<1>1. NoFile.points = [c \in Grid |-> NoPoint] /\ NoFile.torn = FALSE
  BY CreatedType
<1>2. \A i \in Archive : \A s \in Slots(i) : RingPoint(NoFile, i, s) = NoPoint
  BY <1>1, SlotCell DEF RingPoint
<1>3. NoPoint.ts = 0
  BY DEF NoPoint
<1>4. Whole(NoFile)
  BY <1>1, <1>2, NoPointOwn DEF Whole
<1>5. ASSUME NEW i \in Archive PROVE RingOK(NoFile, i, 0, top) /\ 0 \in Slots(i)
  <2>1. 0 % Spp(i) = 0
    BY Archives
  <2> QED
    BY <1>2, <1>3, <2>1, ReadFirst DEF RingOK
<1> QED
  BY <1>2, <1>3, <1>4, <1>5 DEF Good, Rings

(* The invariant holds at first.                                            *)
LEMMA InvInit == Init => Inv
<1> SUFFICES ASSUME Init PROVE Inv
  OBVIOUS
<1>1. TypeInv
  BY TypeInit
<1>2. ASSUME NoOverflow PROVE StoredWell
  <2>1. file = NoFile /\ newest = 0 /\ base = [i \in Archive |-> 0]
    BY DEF Init
  <2>2. CASE 0 \in Archive
    <3>1. Floor(0) \in Nat
      BY <2>2, FloorFacts, Archives
    <3> QED
      BY <1>2, <2>1, <3>1, NoFileGood DEF StoredWell
  <2>3. CASE 0 \notin Archive
    <3>1. Archive = {}
      BY <2>3, Archives DEF Archive
    <3>2. Good(NoFile, base, 0)
      BY <1>2, <2>1, NoFileGood
    <3> QED
      BY <2>1, <3>1, <3>2 DEF StoredWell, Good, Rings
  <2> QED
    BY <2>2, <2>3
<1> QED
  BY <1>1, <1>2 DEF Inv, Init

(* Accept keeps the latest timestamp.                                       *)
LEMMA Accepted ==
  ASSUME TypeInv, NEW timestamp \in Timestamps, Accept(timestamp)
  PROVE  /\ timestamp \in 0 .. W - 1 /\ newest \in 0 .. W - 1 /\ newest' \in 0 .. W - 1
         /\ newest <= newest'
         /\ InOrder => newest <= timestamp /\ newest' = timestamp
  BY WhisperAssumption, Archives DEF Accept, TypeInv

(* A value stored in good rings leaves good rings.                          *)
LEMMA StoredGood ==
  ASSUME NoOverflow, TypeInv, NEW f, FileOK(f), NEW timestamp \in Timestamps, NEW v \in Values, NEW failing,
         Good(f, base, Floor(newest)),
         Accept(timestamp), Stored(WriteOpen(f, timestamp, v, failing))
  PROVE  StoredWell'
<1> DEFINE r == WriteOpen(f, timestamp, v, failing)
<1>0. base \in [Archive -> 0 .. W - 1] /\ f \in File
  BY DEF TypeInv, FileOK
<1>1. /\ timestamp \in 0 .. W - 1 /\ newest \in 0 .. W - 1
      /\ InOrder => newest <= timestamp /\ newest' = timestamp
  BY Accepted
<1>2. Good(f, base, Floor(timestamp))
  BY <1>0, <1>1, GoodLater
<1>3. Good(r.f, base, Floor(timestamp))
  BY <1>0, <1>2, WriteOpenGood
<1>4. file' = r.f /\ base' = [i \in Archive |-> IF base[i] # 0 THEN base[i] ELSE ReadPoint(r.f, Offset[i]).ts]
  BY DEF Stored
<1> HIDE DEF r
<1>5. Whole(file')
  BY <1>3, <1>4 DEF Good
<1>6. ASSUME InOrder, NEW i \in Archive
      PROVE  RingOK(file', i, base'[i], Floor(newest')) /\ (RingPoint(file', i, 0).ts # 0 => base'[i] # 0)
  <2>1. RingOK(r.f, i, base[i], Floor(timestamp))
    BY <1>3, <1>6 DEF Good, Rings
  <2>2. base'[i] = IF base[i] # 0 THEN base[i] ELSE RingPoint(r.f, i, 0).ts
    BY <1>4, ReadFirst
  <2>3. RingOK(r.f, i, base'[i], Floor(timestamp)) /\ (RingPoint(r.f, i, 0).ts # 0 => base'[i] # 0)
    BY <2>1, <2>2, RingBase
  <2> QED
    BY <1>1, <1>4, <1>6, <2>3
<1>7. Good(file', base', Floor(newest'))
  BY <1>5, <1>6 DEF Good, Rings
<1>8. InOrder => \A i \in Archive : RingPoint(file', i, 0).ts # 0 => base'[i] # 0
  BY <1>6
<1>9. StoredWell' = (/\ Good(file', base', Floor(newest'))
                     /\ InOrder => \A i \in Archive : RingPoint(file', i, 0).ts # 0 => base'[i] # 0)
  BY DEF StoredWell, Good, Whole, Rings, RingOK, RingPoint, RingCell, RingStart, OwnPoint, EarlyEnough, Apart, Floor
<1> QED
  BY <1>7, <1>8, <1>9

(* A step that leaves the points and the bases alone.                       *)
LEMMA IdleGood ==
  ASSUME NoOverflow, TypeInv, StoredWell, file'.points = file.points, file'.torn = file.torn,
         base' = base, newest' \in 0 .. W - 1, newest <= newest'
  PROVE  StoredWell'
<1>0. newest \in 0 .. W - 1 /\ file \in File
  BY DEF TypeInv, FileOK
<1>1. Good(file, base, Floor(newest'))
  BY <1>0, GoodLater DEF StoredWell
<1>2. Good(file', base, Floor(newest')) /\ \A i, s : RingPoint(file', i, s) = RingPoint(file, i, s)
  BY <1>1, GoodPoints
<1>3. InOrder => \A i \in Archive : RingPoint(file', i, 0).ts # 0 => base'[i] # 0
  BY <1>2 DEF StoredWell
<1>4. Good(file', base', Floor(newest'))
  BY <1>2
<1>5. StoredWell' = (/\ Good(file', base', Floor(newest'))
                     /\ InOrder => \A i \in Archive : RingPoint(file', i, 0).ts # 0 => base'[i] # 0)
  BY DEF StoredWell, Good, Whole, Rings, RingOK, RingPoint, RingCell, RingStart, OwnPoint, EarlyEnough, Apart, Floor
<1> QED
  BY <1>3, <1>4, <1>5

(* Every value keeps the invariant, stored or not.                          *)
LEMMA InvNext == Inv /\ [Next]_vars => Inv'
<1> SUFFICES ASSUME Inv, [Next]_vars PROVE Inv'
  OBVIOUS
<1>0. TypeInv /\ FileOK(file) /\ kept \in 0 .. W - 1
  BY DEF Inv, TypeInv
<1>1. TypeInv'
  BY <1>0, TypeNext
<1>2. ASSUME NEW timestamp \in Timestamps, NEW v \in Values, whisper_write_value(timestamp, v) PROVE Inv'
  <2>1. PICK failing \in Failing : Stored(WriteOpen(file, timestamp, v, failing))
    BY <1>2 DEF whisper_write_value
  <2>2. file.exists /\ Accept(timestamp)
    BY <1>2 DEF whisper_write_value
  <2>3. file'.exists
    <3>1. SameHead(file, WriteOpen(file, timestamp, v, failing).f)
      BY <1>0, WriteOpenType
    <3> QED
      BY <2>1, <2>2, <3>1 DEF Stored, SameHead
  <2>4. NoOverflow => StoredWell'
    BY <1>0, <2>1, <2>2, StoredGood DEF Inv, StoredWell
  <2> QED
    BY <1>1, <2>3, <2>4 DEF Inv, NoOverflow
<1>3. ASSUME NEW timestamp \in Timestamps, NEW v \in Values, whisper_create_file(timestamp, v) PROVE Inv'
  <2>1. PICK failing \in Failing : Stored(WriteOpen(Created, timestamp, v, failing))
    BY <1>3 DEF whisper_create_file
  <2>2. file = NoFile /\ Accept(timestamp)
    BY <1>3 DEF whisper_create_file, Inv
  <2>3. FileOK(Created) /\ Created.exists /\ Created.points = NoFile.points /\ Created.torn = NoFile.torn
    BY CreatedType
  <2>4. file'.exists
    <3>1. SameHead(Created, WriteOpen(Created, timestamp, v, failing).f)
      BY <1>0, <2>3, WriteOpenType
    <3> QED
      BY <2>1, <2>3, <3>1 DEF Stored, SameHead
  <2>5. ASSUME NoOverflow PROVE StoredWell'
    <3>1. Good(NoFile, base, Floor(newest))
      BY <2>2, <2>5 DEF Inv, StoredWell
    <3>2. Good(Created, base, Floor(newest))
      BY <2>3, <2>5, <3>1, GoodPoints
    <3> QED
      BY <1>0, <2>1, <2>2, <2>3, <2>5, <3>2, StoredGood
  <2> QED
    BY <1>1, <2>4, <2>5 DEF Inv, NoOverflow
<1>4. ASSUME NEW timestamp \in Timestamps, create_fails(timestamp) PROVE Inv'
  <2>1. file = NoFile /\ Accept(timestamp) /\ base' = base /\ file' \in {NoFile} \cup CutShort
    BY <1>4 DEF create_fails, Inv
  <2>2. ~ file'.exists => file' = NoFile
    BY <2>1, CreatedType
  <2>3. file'.points = file.points /\ file'.torn = file.torn
    BY <2>1, CreatedType
  <2>4. newest' \in 0 .. W - 1 /\ newest <= newest'
    BY <1>0, <2>1, Accepted
  <2>5. ASSUME NoOverflow PROVE StoredWell'
    BY <1>0, <2>1, <2>3, <2>4, <2>5, IdleGood DEF Inv
  <2> QED
    BY <1>1, <2>2, <2>5 DEF Inv, NoOverflow, NoFile
<1>5. ASSUME NEW timestamp \in Timestamps, open_fails(timestamp) PROVE Inv'
  <2>1. Accept(timestamp) /\ base' = base /\ file' = file
    BY <1>5 DEF open_fails
  <2>2. newest' \in 0 .. W - 1 /\ newest <= newest'
    BY <1>0, <2>1, Accepted
  <2>3. ASSUME NoOverflow PROVE StoredWell'
    BY <1>0, <2>1, <2>2, <2>3, IdleGood DEF Inv
  <2> QED
    BY <1>1, <2>1, <2>3 DEF Inv, NoOverflow, NoFile
<1>6. CASE UNCHANGED vars
  <2>1. newest' \in 0 .. W - 1 /\ newest <= newest' /\ base' = base /\ file' = file
    BY <1>0, <1>6, Archives DEF vars, TypeInv
  <2>2. ASSUME NoOverflow PROVE StoredWell'
    BY <1>0, <2>1, <2>2, IdleGood DEF Inv
  <2> QED
    BY <1>1, <2>1, <2>2 DEF Inv, NoOverflow, NoFile
<1> QED
  BY <1>2, <1>3, <1>4, <1>5, <1>6 DEF Next

(* The invariant holds for good.                                            *)
LEMMA Invariant == Spec => []Inv
<1>1. Init => Inv
  BY InvInit
<1>2. Inv /\ [Next]_vars => Inv'
  BY InvNext
<1> QED
  BY <1>1, <1>2, PTL DEF Spec

-----------------------------------------------------------------------------
(* The theorems                                                             *)

(* No write crosses a slot boundary, whatever the order of the timestamps   *)
(* and the failures: whisper_write_point() stays on the slots of its ring.  *)
THEOREM NeverTorn ==
  ASSUME NoOverflow
  PROVE  Spec => []NotTorn
<1>1. Inv => NotTorn
  BY DEF Inv, StoredWell, Good, Whole, NotTorn
<1> QED
  BY <1>1, Invariant, PTL

(* A value that whisper_write_propagate() stores is made of points of its   *)
(* own window alone, in however many archives, in whatever order the        *)
(* timestamps arrive and although the read may be of the wrong slots.       *)
THEOREM OwnWindows ==
  ASSUME NoOverflow
  PROVE  Spec => []AggregatesOwnWindow
<1>1. Inv => AggregatesOwnWindow
  <2> SUFFICES ASSUME Inv, NEW i \in Archive \ {0}, NEW s \in Slots(i)
               PROVE  OwnPoint(i, PointOf(i, s))
    BY DEF AggregatesOwnWindow, OwnPoint
  <2>1. PointOf(i, s) = RingPoint(file, i, s)
    BY DEF PointOf, RingPoint, RingCell, RingStart
  <2> QED
    BY <2>1 DEF Inv, StoredWell, Good, Whole
<1> QED
  BY <1>1, Invariant, PTL

(* When timestamps arrive in order, every point of every archive is in the  *)
(* slot its distance from the archive's first point gives, after any number *)
(* of turns of the ring and any failures.                                   *)
THEOREM SlotsProper ==
  ASSUME NoOverflow, InOrder
  PROVE  Spec => []ProperOffset
<1>1. Inv => ProperOffset
  <2> SUFFICES ASSUME Inv, NEW i \in Archive, NEW s \in Slots(i), PointOf(i, s).ts # 0
               PROVE  ((PointOf(i, s).ts - base[i]) \div Spp(i)) % NbPoints(i) = s
    BY DEF ProperOffset
  <2> DEFINE t == PointOf(i, s).ts
             S == Spp(i)
             N == NbPoints(i)
  <2>0. S \in Nat /\ S > 0 /\ N \in Nat /\ N > 0 /\ s \in 0 .. N - 1
    BY Archives DEF NoOverflow, Slots
  <2>1. t = RingPoint(file, i, s).ts
    BY DEF PointOf, RingPoint, RingCell, RingStart
  <2>2. RingOK(file, i, base[i], Floor(newest)) /\ (RingPoint(file, i, 0).ts # 0 => base[i] # 0)
    BY DEF Inv, StoredWell, Good, Rings
  <2>3. t # 0 /\ t \in Int /\ base[i] \in Int
    BY <2>1, RingPointType, Archives DEF Inv, TypeInv, FileOK
  <2>4. base[i] # 0
    BY <2>1, <2>2, <2>3 DEF RingOK
  <2>5. Apart(i, t, s, base[i], 0)
    BY <2>1, <2>2, <2>3, <2>4 DEF RingOK
  <2>6. PICK q \in Int : t - base[i] = S * (N * q + (s - 0))
    BY <2>5 DEF Apart
  <2> HIDE DEF t, S, N
  <2> DEFINE d == N * q + s
  <2>7. d \in Int /\ N * q + (s - 0) = d
    BY <2>0
  <2>8. d % N = s
    BY <2>0, <2>7, DivisionUnique
  <2>9. t - base[i] = S * d + 0 /\ t - base[i] \in Int /\ 0 \in 0 .. S - 1
    <3> HIDE DEF d
    <3>1. S * d \in Int
      BY <2>0, <2>7
    <3> QED
      BY <2>0, <2>3, <2>6, <2>7, <3>1
  <2>10. (t - base[i]) \div S = d
    <3> HIDE DEF d
    <3> QED
      BY <2>0, <2>7, <2>9, DivisionUnique
  <2> QED
    BY <2>8, <2>10 DEF t, S, N
<1> QED
  BY <1>1, Invariant, PTL

-----------------------------------------------------------------------------
(* The first archive implements the retention window                        *)

(* Points of the first ring are as they were received.                      *)
Received(p) == p = NoPoint \/ \E v \in Values : p = NewPoint(p.ts, v)

(* What a step does to the first ring.                                      *)
RingZeroPut(timestamp, v) ==
  /\ kept' = Floor(timestamp) /\ newest <= timestamp /\ newest' = timestamp
  /\ SlotFor(file, 0, Floor(timestamp)) \in Slots(0)
  /\ \A z \in Slots(0) :
       RingPoint(file', 0, z) = IF z = SlotFor(file, 0, Floor(timestamp)) THEN NewPoint(Floor(timestamp), v)
                                                                          ELSE RingPoint(file, 0, z)
RingZeroStep ==
  \/ kept' = kept /\ RingZeroSame(file, file')
  \/ \E timestamp \in Timestamps, v \in Values : RingZeroPut(timestamp, v)

(* Stored changes the first ring as WriteOpen says.                         *)
LEMMA StoredStep ==
  ASSUME NoOverflow, InOrder, TypeInv, NEW f, FileOK(f), NEW timestamp \in Timestamps, NEW v \in Values,
         NEW failing, Good(f, base, Floor(newest)), \A i, s : RingPoint(f, i, s) = RingPoint(file, i, s),
         Accept(timestamp), Stored(WriteOpen(f, timestamp, v, failing))
  PROVE  RingZeroStep
<1> DEFINE r == WriteOpen(f, timestamp, v, failing)
<1>0. base \in [Archive -> 0 .. W - 1] /\ f \in File
  BY DEF TypeInv, FileOK
<1>1. timestamp \in 0 .. W - 1 /\ newest \in 0 .. W - 1 /\ newest <= timestamp /\ newest' = timestamp
  BY Accepted
<1>2. Good(f, base, Floor(timestamp))
  BY <1>0, <1>1, GoodLater
<1>3. RingZero(f, r, timestamp, v)
  BY <1>0, <1>2, WriteOpenGood
<1>4. file' = r.f /\ kept' = r.kept
  BY DEF Stored
<1> HIDE DEF r
<1>5. SlotFor(f, 0, Floor(timestamp)) = SlotFor(file, 0, Floor(timestamp))
  BY DEF SlotFor
<1>6. CASE r.kept = kept /\ RingZeroSame(f, r.f)
  BY <1>4, <1>6 DEF RingZeroStep, RingZeroSame
<1>7. CASE ~ (r.kept = kept /\ RingZeroSame(f, r.f))
  <2>1. RingZeroPut(timestamp, v)
    BY <1>1, <1>3, <1>4, <1>5, <1>7 DEF RingZero, RingZeroPut
  <2> QED
    BY <2>1 DEF RingZeroStep
<1> QED
  BY <1>6, <1>7

(* So every step changes the first ring that way.                           *)
LEMMA StepZero ==
  ASSUME NoOverflow, InOrder, Inv, [Next]_vars
  PROVE  RingZeroStep /\ newest <= newest'
<1>0. TypeInv /\ FileOK(file) /\ Good(file, base, Floor(newest))
  BY DEF Inv, TypeInv, StoredWell
<1>1. ASSUME NEW timestamp \in Timestamps, NEW v \in Values, whisper_write_value(timestamp, v)
      PROVE  RingZeroStep /\ newest <= newest'
  <2>1. PICK failing \in Failing : Stored(WriteOpen(file, timestamp, v, failing))
    BY <1>1 DEF whisper_write_value
  <2>2. Accept(timestamp)
    BY <1>1 DEF whisper_write_value
  <2> QED
    BY <1>0, <2>1, <2>2, StoredStep, Accepted
<1>2. ASSUME NEW timestamp \in Timestamps, NEW v \in Values, whisper_create_file(timestamp, v)
      PROVE  RingZeroStep /\ newest <= newest'
  <2>1. PICK failing \in Failing : Stored(WriteOpen(Created, timestamp, v, failing))
    BY <1>2 DEF whisper_create_file
  <2>2. file = NoFile /\ Accept(timestamp)
    BY <1>2 DEF whisper_create_file, Inv
  <2>3. FileOK(Created) /\ Created.points = file.points /\ Created.torn = file.torn
    BY <2>2, CreatedType
  <2>4. Good(Created, base, Floor(newest)) /\ \A i, s : RingPoint(Created, i, s) = RingPoint(file, i, s)
    BY <1>0, <2>3, GoodPoints
  <2> QED
    BY <1>0, <2>1, <2>2, <2>3, <2>4, StoredStep, Accepted
<1>3. ASSUME NEW timestamp \in Timestamps, create_fails(timestamp)
      PROVE  RingZeroStep /\ newest <= newest'
  <2>1. file = NoFile /\ Accept(timestamp) /\ kept' = kept /\ file' \in {NoFile} \cup CutShort
    BY <1>3 DEF create_fails, Inv
  <2>2. file'.points = file.points
    BY <2>1, CreatedType
  <2> QED
    BY <1>0, <2>1, <2>2, Accepted DEF RingZeroStep, RingZeroSame, RingPoint
<1>4. ASSUME NEW timestamp \in Timestamps, open_fails(timestamp)
      PROVE  RingZeroStep /\ newest <= newest'
  <2>1. Accept(timestamp) /\ kept' = kept /\ file' = file
    BY <1>4 DEF open_fails
  <2> QED
    BY <1>0, <2>1, Accepted DEF RingZeroStep, RingZeroSame
<1>5. CASE UNCHANGED vars
  BY <1>0, <1>5, Archives DEF vars, TypeInv, RingZeroStep, RingZeroSame
<1> QED
  BY <1>1, <1>2, <1>3, <1>4, <1>5 DEF Next

(* A new point is not in another slot's turn: it is in the slot of every    *)
(* point of its ring that is a whole number of turns older.                 *)
LEMMA NewApart ==
  ASSUME NoOverflow, NEW f \in File, NEW i \in Archive, NEW b, NEW ts \in 0 .. W - 1,
         RingOK(f, i, b, ts), ts % Spp(i) = 0, NEW z \in Slots(i), RingPoint(f, i, z).ts # 0
  PROVE  SlotFor(f, i, ts) \in Slots(i) /\ Apart(i, ts, SlotFor(f, i, ts), RingPoint(f, i, z).ts, z)
<1> DEFINE first == RingPoint(f, i, 0).ts
           t == RingPoint(f, i, z).ts
           s == SlotFor(f, i, ts)
<1>0. 0 \in Slots(i) /\ W \in Nat /\ \A y \in Slots(i) : y \in Int
  BY ReadFirst, Archives DEF Slots
<1>1. first # 0 /\ first <= ts /\ first % Spp(i) = 0 /\ Apart(i, first, 0, t, z)
  BY <1>0 DEF RingOK
<1>2. s \in Slots(i) /\ Apart(i, ts, s, first, 0)
  BY <1>1, SlotApart
<1>3. first \in Int /\ t \in Int /\ ts \in Int /\ s \in Int /\ z \in Int /\ 0 \in Int
  BY <1>0, <1>2, RingPointType
<1> HIDE DEF first, t, s
<1>4. \A x, a, y, c \in Int : Apart(i, x, a, y, c) =>
        \A w, e \in Int : Apart(i, y, c, w, e) => Apart(i, x, a, w, e)
  BY ApartEquivalence
<1>5. Apart(i, ts, s, t, z)
  BY <1>1, <1>2, <1>3, <1>4
<1> QED
  BY <1>2, <1>5 DEF t, s

(* Two points of a ring that are less than a turn apart are in one slot     *)
(* only if they are the same.                                               *)
LEMMA SameTurn ==
  ASSUME NoOverflow, NEW i \in Archive, NEW s \in Slots(i), NEW z \in Slots(i), NEW t \in Int, NEW u \in Int,
         Apart(i, t, s, u, z)
  PROVE  /\ t = u => s = z
         /\ s = z /\ u <= t /\ t - u < NbPoints(i) * Spp(i) => t = u
<1> DEFINE S == Spp(i)
           N == NbPoints(i)
<1>0. S \in Nat /\ S > 0 /\ N \in Nat /\ N > 0 /\ s \in 0 .. N - 1 /\ z \in 0 .. N - 1 /\ s \in Int /\ z \in Int
  BY Archives DEF NoOverflow, Slots
<1>1. PICK q \in Int : t - u = S * (N * q + (s - z))
  BY DEF Apart
<1> HIDE DEF S, N
<1> DEFINE d == N * q + (s - z)
<1>2. d \in Int /\ N * q \in Int /\ t - u = S * d
  BY <1>0, <1>1
<1>3. ASSUME t = u PROVE s = z
  <2> HIDE DEF d
  <2>1. d = 0
    <3>1. ~ (d >= 1)
      <4> SUFFICES ASSUME d >= 1 PROVE FALSE
        OBVIOUS
      <4>1. S * d >= S
        BY <1>0, <1>2, Product
      <4> QED
        BY <1>0, <1>2, <1>3, <4>1
    <3>2. ~ (-d >= 1)
      <4> SUFFICES ASSUME -d >= 1 PROVE FALSE
        OBVIOUS
      <4>1. S * (-d) >= S /\ S * (-d) = -(S * d) /\ S * d \in Int
        BY <1>0, <1>2, Product
      <4> QED
        BY <1>0, <1>2, <1>3, <4>1
    <3> QED
      BY <1>2, <3>1, <3>2
  <2>2. z = N * q + s
    BY <1>0, <1>2, <2>1 DEF d
  <2>3. z % N = s
    BY <1>0, <2>2, DivisionUnique
  <2>4. z = N * 0 + z
    BY <1>0
  <2>5. z % N = z
    BY <1>0, <2>4, DivisionUnique
  <2> QED
    BY <2>3, <2>5
<1>4. ASSUME s = z, u <= t, t - u < N * S PROVE t = u
  <2>1. t - u = S * (N * q)
    <3>1. s - z = 0 /\ d = N * q
      BY <1>0, <1>2, <1>4
    <3> QED
      BY <1>2, <3>1
  <2>2. S * (N * q) = (N * S) * q
    BY <1>0
  <2>3. N * S \in Nat /\ N * S > 0
    BY <1>0
  <2> DEFINE M == N * S
  <2>4. M \in Nat /\ M > 0 /\ t - u = M * q /\ t - u < M /\ t - u >= 0
    BY <1>4, <2>1, <2>2, <2>3
  <2> HIDE DEF M
  <2>5. ~ (q >= 1)
    <3> SUFFICES ASSUME q >= 1 PROVE FALSE
      OBVIOUS
    <3>1. M * q >= M
      BY <2>4, Product
    <3> QED
      BY <2>4, <3>1
  <2>6. ~ (-q >= 1)
    <3> SUFFICES ASSUME -q >= 1 PROVE FALSE
      OBVIOUS
    <3>1. M * (-q) >= M /\ M * (-q) = -(M * q) /\ M * q \in Int
      BY <2>4, Product
    <3> QED
      BY <2>4, <3>1
  <2>7. q = 0
    BY <2>5, <2>6
  <2> QED
    BY <2>4, <2>7
<1> QED
  BY <1>3, <1>4 DEF S, N

(* The second invariant: the first ring holds points as they were received, *)
(* none after kept was.                                                     *)
InvZero ==
  /\ Inv
  /\ \A z \in Slots(0) : Received(RingPoint(file, 0, z))
  /\ kept <= Floor(newest)

(* It holds at first.                                                       *)
LEMMA ZeroInit ==
  ASSUME NoOverflow, 0 \in Archive
  PROVE  Init => InvZero
<1> SUFFICES ASSUME Init PROVE InvZero
  OBVIOUS
<1>1. Inv
  BY InvInit
<1>2. file = NoFile /\ kept = 0 /\ newest = 0
  BY DEF Init
<1>3. \A z \in Slots(0) : RingPoint(NoFile, 0, z) = NoPoint
  BY CreatedType, SlotCell DEF RingPoint
<1>4. Floor(0) \in Nat
  BY FloorFacts, Archives
<1> QED
  BY <1>1, <1>2, <1>3, <1>4 DEF InvZero, Received

(* And every step keeps it.                                                 *)
LEMMA ZeroNext ==
  ASSUME NoOverflow, InOrder, 0 \in Archive
  PROVE  InvZero /\ [Next]_vars => InvZero'
<1> SUFFICES ASSUME InvZero, [Next]_vars PROVE InvZero'
  OBVIOUS
<1>0. Inv /\ newest \in 0 .. W - 1 /\ kept \in 0 .. W - 1 /\ W \in Nat
  BY Archives DEF InvZero, Inv, TypeInv
<1>1. Inv'
  BY <1>0, InvNext
<1>2. newest' \in 0 .. W - 1
  BY <1>1 DEF Inv, TypeInv
<1>3. RingZeroStep /\ newest <= newest'
  BY <1>0, StepZero
<1>4. Floor(newest) <= Floor(newest') /\ Floor(newest) \in Int /\ Floor(newest') \in Int
  BY <1>0, <1>2, <1>3, FloorFacts
<1>5. CASE kept' = kept /\ RingZeroSame(file, file')
  <2>1. \A z \in Slots(0) : Received(RingPoint(file', 0, z))
    BY <1>5 DEF InvZero, RingZeroSame
  <2>2. kept' <= Floor(newest')
    BY <1>0, <1>4, <1>5 DEF InvZero
  <2> QED
    BY <1>1, <2>1, <2>2 DEF InvZero, Received, RingPoint, RingCell, RingStart, Floor
<1>6. ASSUME NEW timestamp \in Timestamps, NEW v \in Values, RingZeroPut(timestamp, v) PROVE InvZero'
  <2>1. Received(NewPoint(Floor(timestamp), v))
    BY DEF Received, NewPoint
  <2>2. \A z \in Slots(0) : Received(RingPoint(file', 0, z))
    BY <1>6, <2>1 DEF InvZero, RingZeroPut
  <2>3. kept' <= Floor(newest')
    BY <1>4, <1>6 DEF RingZeroPut
  <2> QED
    BY <1>1, <2>2, <2>3 DEF InvZero, Received, RingPoint, RingCell, RingStart, Floor
<1> QED
  BY <1>3, <1>5, <1>6 DEF RingZeroStep

(* The window of the first ring, of a file.                                 *)
Turn0 == NbPoints(0) * Spp(0)
Latest(f, z) == /\ RingPoint(f, 0, z).ts # 0
                /\ \A y \in Slots(0) : RingPoint(f, 0, z).ts > RingPoint(f, 0, y).ts - Turn0
WindowOf(f) == UNION {RingPoint(f, 0, z).val.of : z \in {y \in Slots(0) : Latest(f, y)}}

(* Window0 is the window of the file.                                       *)
LEMMA WindowIs == Window0 = WindowOf(file) /\ Window0' = WindowOf(file')
<1>1. \A z : PointOf(0, z) = RingPoint(file, 0, z) /\ PointOf(0, z)' = RingPoint(file', 0, z)
  BY DEF PointOf, RingPoint, RingCell, RingStart
<1>2. Held0 = {RingPoint(file, 0, z) : z \in Slots(0)} /\ Held0' = {RingPoint(file', 0, z) : z \in Slots(0)}
  BY <1>1 DEF Held0, Slots
<1>3. Window0 = UNION {p.val.of : p \in {p \in Held0 : p.ts # 0 /\ \A q \in Held0 : p.ts > q.ts - Turn0}}
  BY DEF Window0, Turn0
<1>4. Window0' = UNION {p.val.of : p \in {p \in Held0' : p.ts # 0 /\ \A q \in Held0' : p.ts > q.ts - Turn0}}
  BY DEF Window0, Turn0
<1>5. Window0 = WindowOf(file)
  BY <1>2, <1>3 DEF WindowOf, Latest
<1>6. Window0' = WindowOf(file')
  BY <1>2, <1>4 DEF WindowOf, Latest
<1> QED
  BY <1>5, <1>6

(* The new point and the points of the last turn, less the one it replaces, *)
(* are the new window.                                                      *)
LEMMA WindowStore ==
  ASSUME NoOverflow, 0 \in Archive, NEW f \in File, NEW g \in File, NEW b, NEW t \in 0 .. W - 1, t # 0,
         t % Spp(0) = 0, RingOK(f, 0, b, t), \A z \in Slots(0) : Received(RingPoint(f, 0, z)),
         NEW v \in Values, SlotFor(f, 0, t) \in Slots(0),
         \A z \in Slots(0) : RingPoint(g, 0, z) = IF z = SlotFor(f, 0, t) THEN NewPoint(t, v) ELSE RingPoint(f, 0, z)
  PROVE  WindowOf(g) = {p \in WindowOf(f) : p[1] # t /\ p[1] > t - Turn0} \cup {<<t, v>>}
<1> DEFINE s == SlotFor(f, 0, t)
           F(z) == RingPoint(f, 0, z).ts
           G(z) == RingPoint(g, 0, z).ts
           FV(z) == RingPoint(f, 0, z).val.of
           GV(z) == RingPoint(g, 0, z).val.of
<1>0. W \in Nat /\ t \in Int /\ Turn0 \in Nat /\ Turn0 > 0 /\ s \in Slots(0)
  <2>1. Spp(0) \in Nat /\ Spp(0) > 0 /\ NbPoints(0) \in Nat /\ NbPoints(0) > 0 /\ W \in Nat
    BY Archives DEF NoOverflow
  <2> QED
    BY <2>1 DEF Turn0
<1>1. \A z \in Slots(0) : F(z) \in Nat /\ F(z) <= t
  BY RingPointType DEF RingOK
<1>2. \A z \in Slots(0) : (z # s => G(z) = F(z) /\ GV(z) = FV(z))
  OBVIOUS
<1>3. G(s) = t /\ GV(s) = {<<t, v>>}
  BY DEF NewPoint, Raw
<1>4. \A z \in Slots(0) : F(z) # 0 => \A e \in FV(z) : e[1] = F(z)
  BY DEF Received, NewPoint, Raw, NoPoint, Zero
<1>5. \A z \in Slots(0) : F(z) # 0 => Apart(0, t, s, F(z), z)
  BY NewApart
<1>6. ASSUME NEW z \in Slots(0), F(z) # 0, z # s PROVE F(z) # t
  BY <1>0, <1>1, <1>5, <1>6, SameTurn
<1>7. ASSUME F(s) # 0, F(s) > t - Turn0 PROVE F(s) = t
  <2>1. Apart(0, t, s, F(s), s) /\ F(s) \in Int /\ F(s) <= t /\ t - F(s) < NbPoints(0) * Spp(0)
    BY <1>0, <1>1, <1>5, <1>7 DEF Turn0
  <2> HIDE DEF F, s
  <2> QED
    BY <1>0, <2>1, SameTurn
<1> HIDE DEF F, G, FV, GV, s
<1>8. ASSUME NEW e
      PROVE  /\ e \in WindowOf(f) <=> \E z \in Slots(0) : /\ e \in FV(z) /\ F(z) # 0
                                                        /\ \A y \in Slots(0) : F(z) > F(y) - Turn0
             /\ e \in WindowOf(g) <=> \E z \in Slots(0) : /\ e \in GV(z) /\ G(z) # 0
                                                        /\ \A y \in Slots(0) : G(z) > G(y) - Turn0
  BY DEF WindowOf, Latest, F, G, FV, GV
<1>9. \A z \in Slots(0) : G(z) \in Nat /\ G(z) <= t
  BY <1>0, <1>1, <1>2, <1>3
<1>10. ASSUME NEW z \in Slots(0) PROVE (\A y \in Slots(0) : G(z) > G(y) - Turn0) <=> G(z) > t - Turn0
  <2>1. ASSUME \A y \in Slots(0) : G(z) > G(y) - Turn0 PROVE G(z) > t - Turn0
    BY <1>0, <1>3, <2>1
  <2>2. ASSUME G(z) > t - Turn0, NEW y \in Slots(0) PROVE G(z) > G(y) - Turn0
    BY <1>0, <1>9, <2>2
  <2> QED
    BY <2>1, <2>2
<1>11. ASSUME NEW e \in WindowOf(g)
       PROVE  e = <<t, v>> \/ (e \in WindowOf(f) /\ e[1] # t /\ e[1] > t - Turn0)
  <2>1. PICK z \in Slots(0) : e \in GV(z) /\ G(z) # 0 /\ \A y \in Slots(0) : G(z) > G(y) - Turn0
    BY <1>8, <1>11
  <2>2. CASE z = s
    BY <1>3, <2>1, <2>2
  <2>3. CASE z # s
    <3>1. e \in FV(z) /\ F(z) # 0 /\ F(z) > t - Turn0
      BY <1>2, <1>10, <2>1, <2>3
    <3>2. \A y \in Slots(0) : F(z) > F(y) - Turn0
      BY <1>0, <1>1, <3>1
    <3>3. e[1] = F(z) /\ F(z) # t
      BY <1>4, <1>6, <2>3, <3>1
    <3> QED
      BY <1>8, <3>1, <3>2, <3>3
  <2> QED
    BY <2>2, <2>3
<1>12. ASSUME NEW e \in WindowOf(f), e[1] # t, e[1] > t - Turn0 PROVE e \in WindowOf(g)
  <2>1. PICK z \in Slots(0) : e \in FV(z) /\ F(z) # 0 /\ \A y \in Slots(0) : F(z) > F(y) - Turn0
    BY <1>8, <1>12
  <2>2. e[1] = F(z)
    BY <1>4, <2>1
  <2>3. z # s
    BY <1>7, <1>12, <2>1, <2>2
  <2>4. G(z) = F(z) /\ GV(z) = FV(z)
    BY <1>2, <2>3
  <2>5. \A y \in Slots(0) : G(z) > G(y) - Turn0
    BY <1>10, <1>12, <2>2, <2>4
  <2> QED
    BY <1>8, <2>1, <2>4, <2>5
<1>13. <<t, v>> \in WindowOf(g)
  <2>1. G(s) > t - Turn0
    BY <1>0, <1>3
  <2>2. \A y \in Slots(0) : G(s) > G(y) - Turn0
    BY <1>0, <1>10, <2>1
  <2> QED
    BY <1>0, <1>3, <1>8, <2>2
<1> QED
  BY <1>11, <1>12, <1>13

(* A ring that never had a point has an empty window.                       *)
LEMMA WindowEmpty ==
  ASSUME NEW f, \A z \in Slots(0) : RingPoint(f, 0, z).ts = 0
  PROVE  WindowOf(f) = {}
  BY DEF WindowOf, Latest

(* A step of the file is a step of the window, or changes nothing of it.    *)
LEMMA WindowStep ==
  ASSUME NoOverflow, InOrder, 0 \in Archive, InvZero, [Next]_vars
  PROVE  [Ring!Next]_<<Window0, kept>>
<1>0. /\ Inv /\ TypeInv /\ file \in File /\ newest \in 0 .. W - 1 /\ kept \in 0 .. W - 1 /\ W \in Nat
      /\ Good(file, base, Floor(newest)) /\ kept <= Floor(newest)
  BY Archives DEF InvZero, Inv, TypeInv, FileOK, StoredWell
<1>1. file' \in File
  <2>1. Inv'
    BY <1>0, InvNext
  <2> QED
    BY <2>1 DEF Inv, TypeInv, FileOK, File
<1>2. RingZeroStep
  BY <1>0, StepZero
<1>3. Window0 = WindowOf(file) /\ Window0' = WindowOf(file')
  BY WindowIs
<1>4. CASE kept' = kept /\ RingZeroSame(file, file')
  <2>1. WindowOf(file') = WindowOf(file)
    BY <1>4 DEF WindowOf, Latest, RingZeroSame
  <2> QED
    BY <1>3, <1>4, <2>1
<1>5. ASSUME NEW timestamp \in Timestamps, NEW v \in Values, RingZeroPut(timestamp, v)
      PROVE  [Ring!Next]_<<Window0, kept>>
  <2> DEFINE t == Floor(timestamp)
             s == SlotFor(file, 0, t)
  <2>1. timestamp \in 0 .. W - 1 /\ newest <= timestamp /\ kept' = t
    BY <1>5, WhisperAssumption DEF RingZeroPut
  <2>2. t \in 0 .. W - 1 /\ t % Spp(0) = 0 /\ Floor(newest) <= t /\ Floor(newest) \in Int
    BY <1>0, <2>1, FloorFacts
  <2>3. RingOK(file, 0, base[0], t)
    <3>1. Good(file, base, t)
      BY <1>0, <2>1, GoodLater
    <3> QED
      BY <3>1 DEF Good, Rings
  <2>4. /\ s \in Slots(0)
        /\ \A z \in Slots(0) : RingPoint(file', 0, z) = IF z = s THEN NewPoint(t, v) ELSE RingPoint(file, 0, z)
    BY <1>5 DEF RingZeroPut
  <2>5. t = timestamp - (timestamp % Spp(0))
    BY DEF Floor
  <2> HIDE DEF t
  <2>6. CASE t = 0
    <3>1. \A z \in Slots(0) : RingPoint(file, 0, z).ts \in Nat /\ RingPoint(file, 0, z).ts <= 0
      BY <1>0, <2>3, <2>6, RingPointType DEF RingOK
    <3>2. \A z \in Slots(0) : RingPoint(file, 0, z).ts = 0
      BY <3>1
    <3>3. \A z \in Slots(0) : RingPoint(file', 0, z).ts = 0
      BY <2>4, <2>6, <3>2 DEF NewPoint
    <3>4. WindowOf(file) = {} /\ WindowOf(file') = {}
      BY <3>2, <3>3, WindowEmpty
    <3>5. kept' = kept
      BY <1>0, <2>1, <2>2, <2>6
    <3> QED
      BY <1>3, <3>4, <3>5
  <2>7. CASE t # 0
    <3>1. WindowOf(file') = {p \in WindowOf(file) : p[1] # t /\ p[1] > t - Turn0} \cup {<<t, v>>}
      BY <1>0, <1>1, <2>2, <2>3, <2>4, <2>7, WindowStore DEF InvZero
    <3>2. Window0' = {p \in Window0 : p[1] # t /\ p[1] > t - NbPoints(0) * Spp(0)} \cup {<<t, v>>}
      BY <1>3, <3>1 DEF Turn0
    <3>3. kept <= t
      BY <1>0, <2>2
    <3>4. Ring!Store(t, v)
      BY <2>1, <3>2, <3>3 DEF Ring!Store
    <3>5. t \in {u - (u % Spp(0)) : u \in Timestamps}
      BY <2>5
    <3> QED
      BY <3>4, <3>5 DEF Ring!Next
  <2> QED
    BY <2>6, <2>7
<1> QED
  BY <1>2, <1>4, <1>5 DEF RingZeroStep

(* The first archive implements a retention window: when timestamps arrive  *)
(* in order, each value whose write does not fail is held, until a later    *)
(* one at its timestamp replaces it or it is a turn of the ring old.        *)
THEOREM RetentionKept ==
  ASSUME NoOverflow, InOrder, Archive # {}
  PROVE  Spec => KeepsRetention
<1>0. 0 \in Archive
  BY Archives DEF Archive
<1>1. Init => InvZero
  BY <1>0, ZeroInit
<1>2. InvZero /\ [Next]_vars => InvZero'
  BY <1>0, ZeroNext
<1>3. Init => Ring!Init
  <2> SUFFICES ASSUME Init PROVE Ring!Init
    OBVIOUS
  <2>1. file = NoFile /\ kept = 0
    BY DEF Init
  <2>2. \A z \in Slots(0) : RingPoint(NoFile, 0, z).ts = 0
    <3>1. \A z \in Slots(0) : RingPoint(NoFile, 0, z) = NoPoint
      BY <1>0, CreatedType, SlotCell DEF RingPoint
    <3> QED
      BY <3>1 DEF NoPoint
  <2>3. WindowOf(file) = {}
    BY <2>1, <2>2, WindowEmpty
  <2> QED
    BY <2>1, <2>3, WindowIs DEF Ring!Init
<1>4. InvZero /\ [Next]_vars => [Ring!Next]_<<Window0, kept>>
  BY <1>0, WindowStep
<1> QED
  BY <1>1, <1>2, <1>3, <1>4, PTL DEF Spec, KeepsRetention, Ring!Spec

(* A value stored adds only complete points to the second archive.          *)
LEMMA StoredComplete ==
  ASSUME NoOverflow, InOrder, WholeWindows, Method \in {"average", "sum"},
         TypeInv, NEW f, FileOK(f), NEW timestamp \in Timestamps, NEW v \in Values, NEW failing,
         Good(f, base, Floor(newest)), \A i, s : RingPoint(f, i, s) = RingPoint(file, i, s),
         Accept(timestamp), Stored(WriteOpen(f, timestamp, v, failing)), BaseBeginsWindow
  PROVE  NewAreComplete
<1> DEFINE r == WriteOpen(f, timestamp, v, failing)
<1>0. /\ base \in [Archive -> 0 .. W - 1] /\ f \in File /\ 0 \in Archive /\ 1 \in Archive
      /\ 0 \in Slots(0)
  BY Windows, ReadFirst DEF TypeInv, FileOK
<1>1. timestamp \in 0 .. W - 1 /\ newest \in 0 .. W - 1 /\ newest <= timestamp
  BY Accepted
<1>2. Good(f, base, Floor(timestamp))
  BY <1>0, <1>1, GoodLater
<1>3. Aligning(r.f, base) => RingOne(f, r.f)
  BY <1>0, <1>2, WriteOpenGood
<1>4. file' = r.f /\ base' = [i \in Archive |-> IF base[i] # 0 THEN base[i] ELSE ReadPoint(r.f, Offset[i]).ts]
  BY DEF Stored
<1> HIDE DEF r
<1>5. Aligning(r.f, base)
  <2>1. ReadPoint(r.f, Offset[0]).ts = RingPoint(r.f, 0, 0).ts
    BY <1>0, ReadFirst
  <2>2. base'[0] = IF base[0] # 0 THEN base[0] ELSE RingPoint(r.f, 0, 0).ts
    BY <1>0, <1>4, <2>1
  <2> QED
    BY <2>2 DEF Aligning, Begins, BaseBeginsWindow
<1>6. ASSUME NEW s \in Slots(1), PointOf(1, s)' # PointOf(1, s) PROVE Complete(s)'
  <2>1. PointOf(1, s) = RingPoint(file, 1, s) /\ \A i, z : PointOf(i, z)' = RingPoint(r.f, i, z)
    BY <1>4 DEF PointOf, RingPoint, RingCell, RingStart
  <2>2. CompleteOne(r.f, s)
    BY <1>3, <1>5, <1>6, <2>1 DEF RingOne
  <2>3. \A t : InWindow(t)' = InWindowOf(r.f, t)
    BY <2>1 DEF InWindow, InWindowOf
  <2> QED
    BY <2>1, <2>2, <2>3 DEF Complete, CompleteOne, AllOf
<1> QED
  BY <1>6 DEF NewAreComplete

(* A step that changes no point adds none.                                  *)
LEMMA IdleComplete ==
  ASSUME file'.points = file.points
  PROVE  NewAreComplete
<1>1. \A s : PointOf(1, s)' = PointOf(1, s)
  BY DEF PointOf
<1> QED
  BY <1>1 DEF NewAreComplete

(* One value, stored, dropped or lost to a failure.                         *)
LEMMA StepComplete ==
  ASSUME NoOverflow, InOrder, WholeWindows, Method \in {"average", "sum"}, Inv, [Next]_vars, BaseBeginsWindow
  PROVE  NewAreComplete
<1>0. TypeInv /\ FileOK(file) /\ Good(file, base, Floor(newest))
  BY DEF Inv, TypeInv, StoredWell
<1>1. ASSUME NEW timestamp \in Timestamps, NEW v \in Values, whisper_write_value(timestamp, v)
      PROVE  NewAreComplete
  <2>1. PICK failing \in Failing : Stored(WriteOpen(file, timestamp, v, failing))
    BY <1>1 DEF whisper_write_value
  <2>2. Accept(timestamp)
    BY <1>1 DEF whisper_write_value
  <2> QED
    BY <1>0, <2>1, <2>2, StoredComplete
<1>2. ASSUME NEW timestamp \in Timestamps, NEW v \in Values, whisper_create_file(timestamp, v)
      PROVE  NewAreComplete
  <2>1. PICK failing \in Failing : Stored(WriteOpen(Created, timestamp, v, failing))
    BY <1>2 DEF whisper_create_file
  <2>2. file = NoFile /\ Accept(timestamp)
    BY <1>2 DEF whisper_create_file, Inv
  <2>3. FileOK(Created) /\ Created.points = file.points /\ Created.torn = file.torn
    BY <2>2, CreatedType
  <2>4. Good(Created, base, Floor(newest)) /\ \A i, s : RingPoint(Created, i, s) = RingPoint(file, i, s)
    BY <1>0, <2>3, GoodPoints
  <2> QED
    BY <1>0, <2>1, <2>2, <2>3, <2>4, StoredComplete
<1>3. ASSUME NEW timestamp \in Timestamps, create_fails(timestamp)
      PROVE  NewAreComplete
  <2>1. file = NoFile /\ file' \in {NoFile} \cup CutShort
    BY <1>3 DEF create_fails, Inv
  <2>2. file'.points = file.points
    BY <2>1, CreatedType
  <2> QED
    BY <2>2, IdleComplete
<1>4. ASSUME NEW timestamp \in Timestamps, open_fails(timestamp)
      PROVE  NewAreComplete
  BY <1>4, IdleComplete DEF open_fails
<1>5. CASE UNCHANGED vars
  BY <1>5, IdleComplete DEF vars
<1> QED
  BY <1>1, <1>2, <1>3, <1>4, <1>5 DEF Next

(* A point propagated from the first archive is made of all the points of   *)
(* its window that the first archive holds, for any rings of whole windows, *)
(* any gaps and turns of the rings and any failures, where values arrive in *)
(* order, the method is one that is implemented and the first point ever    *)
(* stored began a window (whisper_write_propagate).                         *)
THEOREM AlignedComplete ==
  ASSUME NoOverflow, InOrder, WholeWindows, Method \in {"average", "sum"}
  PROVE  Spec => AggregatesAllAligned
<1>1. Inv /\ [Next]_vars => [BaseBeginsWindow => NewAreComplete]_vars
  BY StepComplete
<1> QED
  BY <1>1, Invariant, PTL DEF Spec, AggregatesAllAligned
=============================================================================
