---------------------------- MODULE WhisperFile ----------------------------
(***************************************************************************)
(* One whisper file: its creation, and whisper_write_value(), which stores *)
(* a point in the first archive and propagates it to the others.           *)
(*                                                                         *)
(* An archive is a ring of points.  The slot of a timestamp is found from  *)
(* the timestamp in the archive's first slot, in unsigned arithmetic; W    *)
(* stands for 2^32 and, like it, is 4 modulo the size of a point.  Only    *)
(* the writer thread opens the file, so one value is one step.             *)
(*                                                                         *)
(* The value of a point is abstracted to how it was made and of which      *)
(* received points.                                                        *)
(***************************************************************************)
EXTENDS Integers, FiniteSets, Sequences

CONSTANTS
  W,            \* modulus of uint32_t
  Retentions,   \* whisper_find_retention(): sequence of [tpp, store], <<>> if none matches
  AggFound,     \* whether an aggregation pattern matches
  Method,       \* its method
  XffNum, XffDen,   \* its xff, as a fraction
  Timestamps,   \* timestamps received
  Values,       \* values received
  InOrder,      \* whether timestamps arrive in order
  IOFails       \* whether system calls may fail

ASSUME WhisperAssumption ==
  /\ W \in Nat /\ W > 12 /\ W % 12 = 4
  /\ Retentions \in Seq([tpp : Nat \ {0}, store : Nat])
  /\ Timestamps \subseteq 0 .. W - 1
  /\ XffNum \in Nat /\ XffDen \in Nat \ {0}
  /\ {AggFound, InOrder, IOFails} \subseteq BOOLEAN

U(x) == x % W                     \* what fits in a uint32_t

WHISPER_HEADER_SIZE  == 16
WHISPER_ARCHIVE_SIZE == 12
WHISPER_POINT_SIZE   == 12

NbArch  == Len(Retentions)
Archive == 0 .. NbArch - 1

(* Header of archive i as whisper_create_file() computes it.                *)
Spp(i)      == Retentions[i + 1].tpp
NbPoints(i) == Retentions[i + 1].store \div Spp(i)
Offset[i \in 0 .. NbArch] ==      \* whisper_get_archive_offset()
  IF i = 0 THEN U(WHISPER_HEADER_SIZE + NbArch * WHISPER_ARCHIVE_SIZE)
           ELSE U(Offset[i - 1] + NbPoints(i - 1) * WHISPER_POINT_SIZE)
ArchInfo(i) == [offset |-> Offset[i], spp |-> Spp(i), points |-> NbPoints(i)]
NoInfo == [offset |-> 0, spp |-> 0, points |-> 0]

(* All points of the file lie on one grid, from the first archive on.       *)
GridSize == (Offset[NbArch] - Offset[0]) \div WHISPER_POINT_SIZE
Grid     == 0 .. GridSize - 1
OnGrid(off) == (off - Offset[0]) % WHISPER_POINT_SIZE = 0
                 /\ (off - Offset[0]) \div WHISPER_POINT_SIZE \in Grid
Cell(off) == (off - Offset[0]) \div WHISPER_POINT_SIZE

Raw(t, v) == [how |-> "raw", of |-> {<<t, v>>}]
Zero      == [how |-> "zero", of |-> {}]
NoPoint   == [ts |-> 0, val |-> Zero]

VARIABLES
  file,      \* [exists, count, info, points, torn], what open() and read() find
  status,    \* of the process: "ok", or what ended it
  newest,    \* latest timestamp received
  kept,      \* and the latest, aligned, that archive 0 was to keep
  base       \* first timestamp stored in each archive (0 before)

vars == <<file, status, newest, kept, base>>

NoFile == [exists |-> FALSE, count |-> 0, info |-> [i \in Archive |-> NoInfo],
           points |-> [g \in Grid |-> NoPoint], torn |-> FALSE]

Init ==
  /\ file = NoFile /\ status = "ok" /\ newest = 0 /\ kept = 0
  /\ base = [i \in Archive |-> 0]

-----------------------------------------------------------------------------
(* Reading and writing.  Past the end of the file, and at headers that were *)
(* never written, read() returns short and the calloc()ed buffer stays 0.   *)
(* A read() that fails with an error (its NULL is dereferenced) and a       *)
(* write() that stores part of a point are left out.                        *)

ReadPoint(f, off) == IF OnGrid(off) THEN f.points[Cell(off)] ELSE NoPoint
ReadInfo(f, i) == IF i \in Archive THEN f.info[i] ELSE NoInfo
WritePoint(f, off, pt) ==
  IF OnGrid(off) THEN [f EXCEPT !.points[Cell(off)] = pt] ELSE [f EXCEPT !.torn = TRUE]

archive_size(a)       == U(a.points * WHISPER_POINT_SIZE)
archive_offset_end(a) == U(a.offset + archive_size(a))

(* Mutant: the distance is taken in bytes.                                  *)
SlotOffset_bytes(a, distance) == U(a.offset + (distance % archive_size(a)))

(* Mutant: the ring is taken to be one slot longer than it is.              *)
SlotOffset_long(a, distance) ==
  U(a.offset + (U(distance * WHISPER_POINT_SIZE) % (archive_size(a) + WHISPER_POINT_SIZE)))

(* Where the point `distance' slots after the first one of a ring lies.     *)
SlotOffset(a, distance) ==
  U(a.offset + (U(distance * WHISPER_POINT_SIZE) % archive_size(a)))

(* whisper_write_point(): [f, st].  A ring of size 0 divides by zero.       *)
whisper_write_point(f, a, ts, pt) ==
  LET first == ReadPoint(f, a.offset).ts
  IN  IF first = 0 THEN [f |-> WritePoint(f, a.offset, pt), st |-> "ok"]
      ELSE IF archive_size(a) = 0 THEN [f |-> f, st |-> "sigfpe"]
      ELSE [f |-> WritePoint(f, SlotOffset(a, U(ts - first) \div a.spp), pt), st |-> "ok"]

(* Mutant: the window starts one step of the lower archive back.            *)
window_start_early(ts, hi, lo) == U(ts - lo.spp)

whisper_higher_archive_timestamp_start(ts, hi, lo) == U(ts - lo.spp + hi.spp)

(* whisper_aggregate_values(): only two of the methods are there.           *)
whisper_aggregate_values(pts) ==
  IF Method \in {"average", "sum"} THEN [how |-> Method, of |-> UNION {p.val.of : p \in pts}]
                                   ELSE Zero

(* The read interval of whisper_write_propagate(): the file offset buffer   *)
(* point j was read from, or -1.  A negative length makes read() fail.      *)
ReadOffset(hi, start, end, j) ==
  LET at   == j * WHISPER_POINT_SIZE
      len  == IF start < end THEN end - start ELSE archive_offset_end(hi) - start
      len2 == IF start < end THEN 0 ELSE hi.offset - end
  IN  IF at + WHISPER_POINT_SIZE <= len THEN start + at
      ELSE IF at >= len /\ at + WHISPER_POINT_SIZE <= len + len2 THEN hi.offset + at - len
      ELSE -1

(* The buffer has the ring's size: both reads together may exceed it, and   *)
(* so may the n points looked up in it.                                     *)
Overruns(hi, start, end, n) ==
  \/ n > hi.points
  \/ /\ start >= end /\ hi.offset > end
     /\ archive_offset_end(hi) - start + hi.offset - end > archive_size(hi)

(* Mutant: the timestamps of the points read are not compared.              *)
Known_any(f, hi, start, end, n, from) ==
  LET read(j) == ReadPoint(f, ReadOffset(hi, start, end, j))
  IN  {read(j) : j \in {k \in 0 .. n - 1 : read(k).ts # 0}}

(* Of the n points read, those with the timestamp expected at their place.  *)
Known(f, hi, start, end, n, from) ==
  LET read(j) == ReadPoint(f, ReadOffset(hi, start, end, j))
  IN  {read(j) : j \in {k \in 0 .. n - 1 : read(k).ts = U(from + k * hi.spp)}}

(* whisper_write_propagate(): [f, st].  xff is compared with the quotient   *)
(* of two integers.                                                         *)
whisper_write_propagate(f, ts, hi, lo, fails) ==
  LET from  == whisper_higher_archive_timestamp_start(ts, hi, lo)
      first == ReadPoint(f, hi.offset).ts
      n     == lo.spp \div hi.spp
      start == SlotOffset(hi, U(from - first) \div hi.spp)
      end   == U(start + n * WHISPER_POINT_SIZE) % archive_size(hi)
      known == Known(f, hi, start, end, n, from)
  IN  IF archive_size(hi) = 0 \/ n = 0 THEN [f |-> f, st |-> "sigfpe"]
      ELSE IF Overruns(hi, start, end, n) THEN [f |-> f, st |-> "overrun"]
      ELSE IF (Cardinality(known) \div n) * XffDen >= XffNum /\ ~fails
        THEN whisper_write_point(f, lo, ts, [ts |-> ts, val |-> whisper_aggregate_values(known)])
        ELSE [f |-> f, st |-> "ok"]

(* The loop over the lower archives: one turn, and what all of them leave   *)
(* of what the write to the first archive left.  The headers are those of f.*)
Lower(f, aligned, failing, k, s) ==
  LET lo == ReadInfo(f, k)
      r  == whisper_write_propagate(s.f, aligned, ReadInfo(f, k - 1), lo, k \in failing)
  IN  IF ~s.go \/ s.st # "ok" THEN s
      ELSE IF lo.spp = 0 THEN [s EXCEPT !.st = "abort"]
      ELSE IF aligned % lo.spp # 0 THEN [s EXCEPT !.go = FALSE]
      ELSE [f |-> r.f, st |-> r.st, go |-> TRUE]
Turns(f, aligned, failing, first) ==
  LET upto[k \in 0 .. f.count] ==
        IF k = 0 THEN [f |-> first.f, st |-> first.st, go |-> TRUE]
        ELSE IF k = f.count THEN upto[k - 1] ELSE Lower(f, aligned, failing, k, upto[k - 1])
  IN  upto

(* whisper_write_value() on a file that is open: [f, st, kept].  The        *)
(* archives in `failing' are the ones whose point cannot be written.        *)
WriteOpen(f, timestamp, v, failing) ==
  LET arch    == ReadInfo(f, 0)
      aligned == timestamp - (timestamp % arch.spp)
      first   == IF 0 \in failing THEN [f |-> f, st |-> "ok"]
                 ELSE whisper_write_point(f, arch, aligned, [ts |-> aligned, val |-> Raw(aligned, v)])
      last    == Turns(f, aligned, failing, first)[f.count]
  IN  IF arch.spp = 0 THEN [f |-> f, st |-> "sigfpe", kept |-> kept]
      ELSE [f |-> last.f, st |-> last.st,
            kept |-> IF 0 \notin failing /\ first.st = "ok" THEN aligned ELSE kept]

(* whisper_create_file() up to its last write(): the header and the archive *)
(* headers, each written in field order.                                    *)
Cut(a, fields) == [offset |-> IF fields >= 1 THEN a.offset ELSE 0,
                   spp    |-> IF fields >= 2 THEN a.spp ELSE 0,
                   points |-> IF fields >= 3 THEN a.points ELSE 0]
(* Mutant: the archives are counted one too many.                           *)
Created_more == [NoFile EXCEPT !.exists = TRUE, !.count = NbArch + 1,
                               !.info = [i \in Archive |-> ArchInfo(i)]]

Created == [NoFile EXCEPT !.exists = TRUE, !.count = NbArch,
                          !.info = [i \in Archive |-> ArchInfo(i)]]
Emptied == [NoFile EXCEPT !.exists = TRUE]
CutAt(i, n) ==     \* up to field n of the header of archive i
  [Created EXCEPT !.info = [j \in Archive |->
     IF j < i THEN ArchInfo(j) ELSE IF j = i THEN Cut(ArchInfo(i), n) ELSE NoInfo]]
CutShort ==        \* what a write() that fails half way leaves behind
  {Emptied} \cup {CutAt(i, n) : i \in Archive, n \in 0 .. 3}

-----------------------------------------------------------------------------
Accept(timestamp) ==
  /\ status = "ok"
  /\ InOrder => timestamp >= newest
  /\ newest' = IF timestamp > newest THEN timestamp ELSE newest

Stored(r) ==
  /\ file' = r.f /\ status' = r.st /\ kept' = r.kept
  /\ base' = [i \in Archive |-> IF base[i] # 0 THEN base[i] ELSE ReadPoint(r.f, Offset[i]).ts]

Failing == IF IOFails THEN SUBSET Archive ELSE {{}}

(* whisper_write_value(): the file is there.                                *)
whisper_write_value(timestamp, v) ==
  /\ Accept(timestamp)
  /\ file.exists
  /\ \E failing \in Failing : Stored(WriteOpen(file, timestamp, v, failing))

(* whisper_write_value() by way of whisper_create_file()                    *)
whisper_create_file(timestamp, v) ==
  /\ Accept(timestamp)
  /\ ~file.exists /\ AggFound
  /\ \E failing \in Failing : Stored(WriteOpen(Created, timestamp, v, failing))

(* whisper_create_file() returns -1 and the value is dropped: no pattern    *)
(* matches, or a system call fails and leaves what it had written.          *)
create_fails(timestamp) ==
  /\ Accept(timestamp)
  /\ ~file.exists
  /\ AggFound => IOFails
  /\ file' \in {NoFile} \cup (IF AggFound THEN CutShort ELSE {})
  /\ UNCHANGED <<status, kept, base>>

(* open() fails for another reason than a missing file, or the headers      *)
(* cannot be read.                                                          *)
open_fails(timestamp) ==
  /\ Accept(timestamp)
  /\ IOFails
  /\ UNCHANGED <<file, status, kept, base>>

Next ==
  \E timestamp \in Timestamps :
    \/ \E v \in Values : whisper_write_value(timestamp, v) \/ whisper_create_file(timestamp, v)
    \/ create_fails(timestamp)
    \/ open_fails(timestamp)

Spec == Init /\ [][Next]_vars

-----------------------------------------------------------------------------
(* Properties                                                               *)

Slots(i) == 0 .. NbPoints(i) - 1
PointOf(i, s) == file.points[Cell(Offset[i]) + s]

Point == [ts : 0 .. W - 1,
          val : [how : {"raw", "zero", "average", "sum"},
                 of : SUBSET ((0 .. W - 1) \X Values)]]
(* Types of the variables; headers are the ones written at creation.        *)
TypeOK ==
  /\ file.exists \in BOOLEAN /\ file.torn \in BOOLEAN /\ file.count \in 0 .. NbArch
  /\ \A i \in Archive : file.info[i] \in {Cut(ArchInfo(i), n) : n \in 0 .. 3}
  /\ file.points \in [Grid -> Point]
  /\ status \in {"ok", "sigfpe", "abort", "overrun"}
  /\ newest \in 0 .. W - 1 /\ kept \in 0 .. W - 1
  /\ base \in [Archive -> 0 .. W - 1]

(* No product or sum of whisper_write_value() overflows: a point takes      *)
(* longer than the bytes it occupies, the file is smaller than W, and no    *)
(* timestamp is within a step of its end.                                   *)
NoOverflow ==
  \A i \in Archive :
    /\ Spp(i) >= WHISPER_POINT_SIZE /\ NbPoints(i) >= 1
    /\ Offset[i + 1] = Offset[i] + NbPoints(i) * WHISPER_POINT_SIZE
    /\ \A t \in Timestamps : t + Spp(i) < W

(* "Write point in archive of whisper_fd at proper offset according to      *)
(* timestamp": every stored point is in the slot its distance in time from  *)
(* the archive's first point gives, in each archive and however often the   *)
(* ring has gone round (whisper_write_point).                               *)
ProperOffset ==
  \A i \in Archive : \A s \in Slots(i) :
    LET p == PointOf(i, s) IN
      p.ts # 0 => ((p.ts - base[i]) \div Spp(i)) % NbPoints(i) = s

(* A write never crosses a slot boundary, so none touches two points or     *)
(* leaves its archive.                                                      *)
NotTorn == ~file.torn

(* A propagated value is made only of points of its own window, at most one *)
(* per step of the archive it was read from (whisper_write_propagate).      *)
AggregatesOwnWindow ==
  \A i \in Archive \ {0} : \A s \in Slots(i) :
    LET p == PointOf(i, s) IN
      \A q \in p.val.of : /\ p.ts - Spp(i) < q[1] /\ q[1] <= p.ts
                          /\ \A r \in p.val.of : q[1] = r[1] => q = r

(* What of archive 0 is within its retention, as an abstract window.        *)
Held0   == {PointOf(0, s) : s \in Slots(0)}
Newest0 == LET T == {p.ts : p \in Held0} IN CHOOSE t \in T : \A u \in T : u <= t
Window0 ==
  UNION {p.val.of : p \in {p \in Held0 : p.ts # 0
                             /\ \A q \in Held0 : p.ts > q.ts - NbPoints(0) * Spp(0)}}

(* The first archive implements a window over the latest points: every      *)
(* point whose write does not fail is stored, and none within the retention *)
(* is lost or outlived by an older one, whatever gaps, turns of the ring    *)
(* and failures came before (whisper_write_point).                          *)
Ring == INSTANCE RetentionWindow WITH window <- Window0,
          clock <- kept,
          Span <- NbPoints(0) * Spp(0),
          Timestamps <- {t - (t % Spp(0)) : t \in Timestamps}
KeepsRetention == Ring!Spec

(* Points of archive 0 in the window of archive 1 that ends at t.           *)
InWindow(t) == {z \in Slots(0) : PointOf(0, z).ts > t - Spp(1) /\ PointOf(0, z).ts <= t}

(* The point in slot s of archive 1 is made of all of its window.  A window *)
(* that had begun before the first point ever stored is left aside.         *)
Complete(s) ==
  LET p == PointOf(1, s) IN
    p.ts # 0 /\ p.ts - Spp(1) + Spp(0) >= base[0] =>
      p.val.of = UNION {PointOf(0, z).val.of : z \in InWindow(p.ts)}
NewAreComplete == \A s \in Slots(1) : PointOf(1, s)' # PointOf(1, s) => Complete(s)'

(* "the list of point in the higher precision archive to aggregate": a      *)
(* point propagated from archive 0 is made of all the points of its window  *)
(* that archive 0 holds.                                                    *)
AggregatesAll == [][NewAreComplete]_vars

(* The first ring holds a whole number of windows of the second archive.    *)
WholeWindows ==
  /\ {0, 1} \subseteq Archive /\ Spp(1) % Spp(0) = 0
  /\ NbPoints(0) % (Spp(1) \div Spp(0)) = 0

(* The same where the first point ever stored began a window: no window     *)
(* then spans the end of the ring (whisper_write_propagate).                *)
BaseBeginsWindow == base'[0] % Spp(1) = Spp(0) % Spp(1)
AggregatesAllAligned == [][BaseBeginsWindow => NewAreComplete]_vars
=============================================================================
