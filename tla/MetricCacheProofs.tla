------------------------- MODULE MetricCacheProofs -------------------------
(***************************************************************************)
(* Proofs about MetricCache, for any number of producers, names, addresses *)
(* and lines.                                                              *)
(***************************************************************************)
EXTENDS MetricCache, NatSets, FiniteSetTheorems, TLAPS

-----------------------------------------------------------------------------
(* The inductive invariant                                                  *)

Created == 1 .. created
CreatedOrNull == 0 .. created

(* What a producer's locals hold at each place of the program.              *)
ProducerAt(p) ==
  LET s == prod[p] IN
    /\ s.pc = "recv" <=> s.line = NULL
    /\ s.pc # "recv" => s.line \in 1 .. lines
    /\ s.cur \in CreatedOrNull
    /\ s.pc \notin {"recv", "get"} => s.m \in Created
    /\ s.pc \in {"first", "last"} => s.tail = NULL \/ (s.tail \in Metric /\ s.tail < s.m)
    /\ s.pc \in {"load", "link", "mlast"} => s.pt \in Addr
    /\ s.pc = "link" => s.tail \in Addr \cup {NULL}

(* The same for the writer.                                                 *)
WriterAt ==
  /\ {writer.cur, writer.max} \subseteq CreatedOrNull
  /\ writer.pc = "hop" => writer.cur # NULL
  /\ writer.pc \in {"lock", "read", "write", "unlock"} => writer.max # NULL
  /\ writer.pc = "write" => writer.pt # NULL
  /\ writer.pc \notin {"lock", "read", "write"} => writer.pt = NULL
  /\ writer.pc # "write" => writer.nx = NULL
  /\ writer.step # 1 => writer.pc \in {"read", "unlock"} /\ writer.pt = NULL

(* Lines have names; metrics that were created have one, and each comes     *)
(* after its predecessor in the list.                                       *)
Ordered ==
  /\ \A l \in 1 .. lines : named[l] \in Name
  /\ \A m \in Created : name[m] \in Name
  /\ {first, last} \subseteq CreatedOrNull
  /\ \A m \in Metric : next[m] # NULL => m < next[m] /\ next[m] <= created

(* No two producers have the same line.                                     *)
OwnLine ==
  \A p, q \in Producer : prod[p].line = prod[q].line /\ prod[p].line # NULL => p = q

(* Lines whose metric has been found or created, and lines in the cache.    *)
Placed == {l \in 1 .. lines : \A p \in Producer : prod[p].line = l => prod[p].pc # "get"}
Added  == {l \in 1 .. lines : \A p \in Producer : prod[p].line # l}

(* Each line creates one metric at most and is counted once at most.        *)
Counts ==
  /\ created <= Cardinality(Placed)
  /\ \A m \in Metric : nb_points[m] <= Cardinality(Added)
  /\ \A p \in Producer : prod[p].nb <= Cardinality(Added)

OnDisk(l) == \E n \in Name : <<n, l>> \in disk

(* A line is in one place: with a producer, in one point, or on disk.       *)
OnePlace ==
  /\ \A a \in heap : pline[a] \in 1 .. lines /\ ~OnDisk(pline[a])
  /\ \A a, b \in heap : pline[a] = pline[b] => a = b
  /\ \A l \in Line : OnDisk(l) => l <= lines
  /\ \A p \in Producer : prod[p].pc \in {"get", "first", "last", "calloc"} =>
       ~OnDisk(prod[p].line) /\ \A a \in heap : pline[a] # prod[p].line

(* The pointers that can lead to a point: a producer's, until it has linked *)
(* the point; `next' of a point in use, until the writer has read it;       *)
(* `points' of a metric, but not while the writer walks the list it has     *)
(* loaded and has yet to reset; the writer's own two.                       *)
ProducerRef(p) == IF prod[p].pc \in {"load", "link"} THEN prod[p].pt ELSE NULL
NextRef(a) == IF a \in heap /\ ~(writer.pc = "write" /\ writer.pt = a) THEN pnext[a] ELSE NULL
Walking(m) ==
  writer.max = m /\ (writer.pc \in {"lock", "write"} \/ (writer.pc = "read" /\ writer.step < 3))
PointsRef(m) == IF Walking(m) THEN NULL ELSE points[m]

InUse(a) == a # NULL => a \in heap

(* They lead to points in use.                                              *)
Live ==
  /\ \A p \in Producer : InUse(ProducerRef(p))
  /\ \A a \in Addr : InUse(NextRef(a))
  /\ \A m \in Metric : InUse(PointsRef(m))
  /\ InUse(writer.pt) /\ InUse(writer.nx)

Apart(a, b) == a # NULL => a # b

(* No two of them lead to the same point.                                   *)
Unique ==
  /\ \A p, q \in Producer : p # q => Apart(ProducerRef(p), ProducerRef(q))
  /\ \A p \in Producer, a \in Addr : Apart(ProducerRef(p), NextRef(a))
  /\ \A p \in Producer, m \in Metric : Apart(ProducerRef(p), PointsRef(m))
  /\ \A p \in Producer : Apart(ProducerRef(p), writer.pt) /\ Apart(ProducerRef(p), writer.nx)
  /\ \A a, b \in Addr : a # b => Apart(NextRef(a), NextRef(b))
  /\ \A a \in Addr, m \in Metric : Apart(NextRef(a), PointsRef(m))
  /\ \A a \in Addr : Apart(NextRef(a), writer.pt) /\ Apart(NextRef(a), writer.nx)
  /\ \A m, k \in Metric : m # k => Apart(PointsRef(m), PointsRef(k))
  /\ \A m \in Metric : Apart(PointsRef(m), writer.pt) /\ Apart(PointsRef(m), writer.nx)
  /\ Apart(writer.pt, writer.nx)

(* CountedIfCached, but for the writer only between its first two resets.   *)
Counted ==
  \A m \in Metric : points[m] # NULL /\ nb_points[m] = 0 =>
    \/ \E p \in Producer : Inserting(p) /\ prod[p].m = m
    \/ writer.max = m /\ writer.pc = "read" /\ writer.step = 2

IInv ==
  /\ TypeOK /\ (\A p \in Producer : ProducerAt(p)) /\ WriterAt /\ Ordered /\ OwnLine /\ Counts
  /\ OnePlace /\ Live /\ Unique /\ Counted

-----------------------------------------------------------------------------
(* Counting                                                                 *)

(* Cardinalities of intervals and of their subsets.                         *)
LEMMA Counting ==
  ASSUME NEW n \in Nat, NEW A, A \subseteq 1 .. n
  PROVE  /\ IsFiniteSet(A) /\ Cardinality(A) \in Nat /\ Cardinality(A) <= n
         /\ \A x \in 1 .. n : x \notin A => Cardinality(A) + 1 <= n
<1>1. IsFiniteSet(1 .. n) /\ Cardinality(1 .. n) = n
  <2>1. 1 .. n = {} => n = 0
    OBVIOUS
  <2> QED
    BY <2>1, FS_Interval
<1>2. IsFiniteSet(A) /\ Cardinality(A) <= n /\ Cardinality(A) \in Nat
  BY <1>1, FS_Subset, FS_CardinalityType
<1>3. ASSUME NEW x \in 1 .. n, x \notin A PROVE Cardinality(A) + 1 <= n
  <2>1. Cardinality(A \cup {x}) = Cardinality(A) + 1
    BY <1>2, <1>3, FS_AddElement
  <2>2. A \cup {x} \subseteq 1 .. n
    BY <1>3
  <2> QED
    BY <1>1, <2>1, <2>2, FS_Subset
<1> QED
  BY <1>2, <1>3

(* A set of lines counts more when it gets a line.                          *)
LEMMA Growing ==
  ASSUME NEW n \in Nat, NEW A, NEW B, A \subseteq B, B \subseteq 1 .. n
  PROVE  /\ Cardinality(A) <= Cardinality(B)
         /\ \A x \in B : x \notin A => Cardinality(A) + 1 <= Cardinality(B)
<1>1. IsFiniteSet(B) /\ IsFiniteSet(A) /\ Cardinality(A) <= Cardinality(B)
  BY Counting, FS_Subset
<1>2. ASSUME NEW x \in B, x \notin A PROVE Cardinality(A) + 1 <= Cardinality(B)
  <2>1. Cardinality(A \cup {x}) = Cardinality(A) + 1
    BY <1>1, <1>2, FS_AddElement
  <2>2. A \cup {x} \subseteq B
    BY <1>2
  <2> QED
    BY <1>1, <2>1, <2>2, FS_Subset
<1> QED
  BY <1>1, <1>2

(* A line that has not found its metric leaves room for one more metric,    *)
(* and a line that is not in the cache for one more point.                  *)
LEMMA Room ==
  ASSUME TypeOK, Counts, NEW p \in Producer, ProducerAt(p)
  PROVE  /\ AtP(p, "get") => created + 1 \in 0 .. MaxLines
         /\ \A n \in 0 .. MaxLines :
              n <= Cardinality(Added) /\ ~AtP(p, "recv") => n + 1 \in 0 .. MaxLines
<1>1. lines \in Nat /\ MaxLines \in Nat /\ created \in Nat /\ lines <= MaxLines
  BY CacheAssumption DEF TypeOK
<1>2. Placed \subseteq 1 .. lines /\ Added \subseteq 1 .. lines
  BY DEF Placed, Added
<1>3. ASSUME AtP(p, "get") PROVE created + 1 \in 0 .. MaxLines
  <2>1. prod[p].line \in 1 .. lines /\ prod[p].line \notin Placed
    BY <1>3 DEF Placed, ProducerAt, AtP
  <2>2. Cardinality(Placed) + 1 <= lines /\ Cardinality(Placed) \in Nat
    BY <1>1, <1>2, <2>1, Counting
  <2> QED
    BY <1>1, <2>2 DEF Counts
<1>4. ASSUME NEW n \in 0 .. MaxLines, n <= Cardinality(Added), ~AtP(p, "recv")
      PROVE  n + 1 \in 0 .. MaxLines
  <2>1. prod[p].line \in 1 .. lines /\ prod[p].line \notin Added
    BY <1>4 DEF Added, ProducerAt, AtP
  <2>2. Cardinality(Added) + 1 <= lines /\ Cardinality(Added) \in Nat
    BY <1>1, <1>2, <2>1, Counting
  <2> QED
    BY <1>1, <1>4, <2>2
<1> QED
  BY <1>3, <1>4

-----------------------------------------------------------------------------
(* Types                                                                    *)

(* Every step of a producer leaves the variables typed.                     *)
LEMMA ProducerTypes ==
  ASSUME IInv, NEW p \in Producer, Produce(p) \/ \E n \in Sends[p] : receive(p, n)
  PROVE  TypeOK'
<1> USE DEF NULL, Line, Metric
<1>1. TypeOK /\ ProducerAt(p) /\ Counts /\ Ordered
  BY DEF IInv
<1>2. /\ MaxLines \in Nat /\ Sends[p] \subseteq Name
      /\ prod \in [Producer -> ProducerState] /\ prod[p] \in ProducerState
      /\ first \in Metric \cup {NULL} /\ last \in Metric \cup {NULL}
      /\ ~AtP(p, "recv") /\ ~AtP(p, "get") => prod[p].m \in Metric
  BY <1>1, CacheAssumption DEF TypeOK, ProducerAt, AtP, Created
<1>3. ASSUME NEW n \in Sends[p], receive(p, n) PROVE TypeOK'
  <2>1. lines + 1 \in Line /\ lines + 1 \in 0 .. MaxLines
    BY <1>1, <1>2, <1>3 DEF TypeOK, receive
  <2>2. [IdleProducer EXCEPT !.pc = "get", !.line = lines + 1, !.cur = first] \in ProducerState
    <3> HIDE DEF NULL, Line, Metric
    <3>1. 0 \in 0 .. MaxLines
      BY <1>2
    <3> QED
      BY <1>2, <2>1, <3>1 DEF IdleProducer, ProducerState, ProducerPc
  <2>3. prod' \in [Producer -> ProducerState]
    BY <1>2, <1>3, <2>2 DEF receive
  <2>4. named' \in [Line -> Name \cup {NULL}] /\ lines' \in 0 .. MaxLines
    BY <1>1, <1>2, <1>3, <2>1 DEF TypeOK, receive
  <2> QED
    BY <1>1, <1>3, <2>3, <2>4 DEF TypeOK, receive, dbVars, metricVars, pointVars
<1>4. CASE get_metric(p)
  <2>1. prod[p].cur \in Metric /\ next[prod[p].cur] \in Metric \cup {NULL}
    BY <1>1, <1>2, <1>4 DEF TypeOK, get_metric, ProducerState
  <2>2. prod'[p] \in ProducerState
    BY <1>2, <1>4, <2>1 DEF get_metric, ProducerState, ProducerPc
  <2>3. prod' \in [Producer -> ProducerState]
    BY <1>2, <1>4, <2>2 DEF get_metric
  <2> QED
    BY <1>1, <1>4, <2>3 DEF TypeOK, get_metric, dbVars, metricVars, pointVars
<1>5. CASE create_new_metric(p)
  <2>1. created + 1 \in Metric /\ prod[p].line \in 1 .. lines /\ named[prod[p].line] \in Name
    <3>1. created + 1 \in 0 .. MaxLines
      BY <1>1, <1>5, Room DEF create_new_metric
    <3>2. prod[p].line \in 1 .. lines
      BY <1>1, <1>5 DEF create_new_metric, ProducerAt, AtP
    <3> QED
      BY <1>1, <3>1, <3>2 DEF TypeOK, Ordered
  <2>2. prod'[p] \in ProducerState
    <3> HIDE DEF NULL, Line, Metric
    <3>1. prod'[p] = [prod[p] EXCEPT !.pc = "first", !.m = created + 1, !.tail = last]
      BY <1>2, <1>5 DEF create_new_metric
    <3> QED
      BY <1>2, <2>1, <3>1 DEF ProducerState, ProducerPc
  <2>3. prod' \in [Producer -> ProducerState]
    BY <1>2, <1>5, <2>2 DEF create_new_metric
  <2>4. name' \in [Metric -> Name \cup {NULL}] /\ created' \in 0 .. MaxLines
    BY <1>1, <1>2, <1>5, <2>1 DEF TypeOK, create_new_metric
  <2> QED
    BY <1>1, <1>5, <2>3, <2>4 DEF TypeOK, create_new_metric, metricVars, pointVars
<1>6. CASE add_database_metric(p)
  <2>1. prod[p].m \in Metric /\ prod[p].tail \in Metric \cup {NULL}
    BY <1>1, <1>2, <1>6 DEF TypeOK, add_database_metric, ProducerAt, AtP, Created
  <2>2. prod' \in [Producer -> ProducerState]
    BY <1>2, <1>6 DEF add_database_metric, ProducerState, ProducerPc
  <2>3. first' \in Metric \cup {NULL} /\ next' \in [Metric -> Metric \cup {NULL}]
    BY <1>1, <1>6, <2>1 DEF TypeOK, add_database_metric
  <2> QED
    BY <1>1, <1>6, <2>2, <2>3 DEF TypeOK, add_database_metric, metricVars, pointVars
<1>7. CASE set_db_last(p)
  <2>1. prod[p].m \in Metric
    BY <1>2, <1>7 DEF set_db_last, AtP
  <2>2. prod' \in [Producer -> ProducerState]
    BY <1>2, <1>7 DEF set_db_last, ProducerState, ProducerPc
  <2> QED
    BY <1>1, <1>7, <2>1, <2>2 DEF TypeOK, set_db_last, metricVars, pointVars
<1>8. CASE create_new_metric_point(p)
  <2>1. PICK a \in Addr \ heap :
          /\ heap' = heap \cup {a}
          /\ pline' = [pline EXCEPT ![a] = prod[p].line]
          /\ pnext' = [pnext EXCEPT ![a] = NULL]
          /\ prod' = [prod EXCEPT ![p].pc = "load", ![p].pt = a]
    BY <1>8 DEF create_new_metric_point
  <2>2. prod' \in [Producer -> ProducerState]
    BY <1>2, <2>1 DEF ProducerState, ProducerPc
  <2>3. /\ heap' \subseteq Addr
        /\ pline' \in [Addr -> Line \cup {NULL}] /\ pnext' \in [Addr -> Addr \cup {NULL}]
    BY <1>1, <1>2, <2>1 DEF TypeOK, ProducerState
  <2> QED
    BY <1>1, <1>8, <2>2, <2>3 DEF TypeOK, create_new_metric_point, dbVars, metricVars
<1>9. CASE load_metric_last(p)
  <2>1. mlast[prod[p].m] \in Addr \cup {NULL}
    BY <1>1, <1>2, <1>9 DEF TypeOK, load_metric_last, AtP
  <2>2. prod' \in [Producer -> ProducerState]
    BY <1>2, <1>9, <2>1 DEF load_metric_last, ProducerState, ProducerPc
  <2> QED
    BY <1>1, <1>9, <2>2 DEF TypeOK, load_metric_last, dbVars, metricVars, pointVars
<1>10. CASE add_database_metric_point(p)
  <2>1. /\ prod[p].m \in Metric /\ prod[p].pt \in Addr \cup {NULL}
        /\ prod[p].tail \in Addr \cup {NULL}
    BY <1>1, <1>2, <1>10
       DEF TypeOK, add_database_metric_point, ProducerAt, AtP, Created, ProducerState
  <2>2. prod' \in [Producer -> ProducerState]
    BY <1>2, <1>10 DEF add_database_metric_point, ProducerState, ProducerPc
  <2>3. points' \in [Metric -> Addr \cup {NULL}] /\ pnext' \in [Addr -> Addr \cup {NULL}]
    BY <1>1, <1>10, <2>1 DEF TypeOK, add_database_metric_point
  <2> QED
    BY <1>1, <1>10, <2>2, <2>3 DEF TypeOK, add_database_metric_point, dbVars
<1>11. CASE set_metric_last(p)
  <2>1. prod' \in [Producer -> ProducerState]
    BY <1>2, <1>11 DEF set_metric_last, ProducerState, ProducerPc
  <2>2. mlast' \in [Metric -> Addr \cup {NULL}]
    BY <1>1, <1>2, <1>11 DEF TypeOK, set_metric_last, ProducerState
  <2> QED
    BY <1>1, <1>11, <2>1, <2>2 DEF TypeOK, set_metric_last, dbVars, pointVars
<1>12. CASE load_nb_points(p)
  <2>1. nb_points[prod[p].m] \in 0 .. MaxLines
    BY <1>1, <1>2, <1>12 DEF TypeOK, load_nb_points, AtP
  <2>2. prod' \in [Producer -> ProducerState]
    BY <1>2, <1>12, <2>1 DEF load_nb_points, ProducerState, ProducerPc
  <2> QED
    BY <1>1, <1>12, <2>2 DEF TypeOK, load_nb_points, dbVars, metricVars, pointVars
<1>13. CASE store_nb_points(p)
  <2>1. prod[p].nb + 1 \in 0 .. MaxLines
    <3>1. prod[p].nb \in 0 .. MaxLines /\ prod[p].nb <= Cardinality(Added)
      BY <1>1, <1>2 DEF Counts, ProducerState
    <3>2. ~AtP(p, "recv")
      BY <1>13 DEF store_nb_points, AtP
    <3> QED
      BY <1>1, <3>1, <3>2, Room
  <2>2. IdleProducer \in ProducerState
    BY <1>2 DEF IdleProducer, ProducerState, ProducerPc
  <2>3. prod' \in [Producer -> ProducerState]
    BY <1>2, <1>13, <2>2 DEF store_nb_points
  <2>4. nb_points' \in [Metric -> 0 .. MaxLines]
    BY <1>1, <1>13, <2>1 DEF TypeOK, store_nb_points
  <2> QED
    BY <1>1, <1>13, <2>3, <2>4 DEF TypeOK, store_nb_points, dbVars, pointVars
<1> QED
  BY <1>3, <1>4, <1>5, <1>6, <1>7, <1>8, <1>9, <1>10, <1>11, <1>12, <1>13 DEF Produce

(* Every step of the writer leaves the variables typed.                     *)
LEMMA WriterTypes ==
  ASSUME IInv, Write
  PROVE  TypeOK'
<1>1. TypeOK /\ WriterAt /\ Ordered
  BY DEF IInv
<1>2. /\ writer \in WriterState /\ MaxLines \in Nat /\ 0 \in 0 .. MaxLines
      /\ first \in Metric \cup {NULL}
      /\ writer.pc \in {"lock", "read", "write", "unlock"} => writer.max \in Metric
      /\ writer.pc = "hop" => writer.cur \in Metric
  BY <1>1, CacheAssumption DEF TypeOK, WriterAt, WriterState
<1>3. IdleWriter \in WriterState
  BY <1>2 DEF IdleWriter, WriterState, WriterPc
<1>4. CASE find_largest_metric
  <2>1. writer' \in WriterState
    BY <1>2, <1>3, <1>4 DEF find_largest_metric, IdleWriter, WriterState, WriterPc
  <2> QED
    BY <1>1, <1>4, <2>1
       DEF TypeOK, find_largest_metric, WriterOnly, dbVars, metricVars, pointVars
<1>5. CASE compare_nb_points
  <2>1. writer.cur \in Metric /\ nb_points[writer.cur] \in 0 .. MaxLines
    BY <1>1, <1>2, <1>5 DEF TypeOK, compare_nb_points, WriterState
  <2>2. writer' \in WriterState
    BY <1>2, <1>5, <2>1 DEF compare_nb_points, WriterState, WriterPc
  <2> QED
    BY <1>1, <1>5, <2>2
       DEF TypeOK, compare_nb_points, WriterOnly, dbVars, metricVars, pointVars
<1>6. CASE next_metric
  <2>1. next[writer.cur] \in Metric \cup {NULL}
    BY <1>1, <1>2, <1>6 DEF TypeOK, next_metric, AtW
  <2>2. writer' \in WriterState
    BY <1>2, <1>6, <2>1 DEF next_metric, WriterState, WriterPc
  <2> QED
    BY <1>1, <1>6, <2>2 DEF TypeOK, next_metric, WriterOnly, dbVars, metricVars, pointVars
<1>7. CASE empty_database
  BY <1>1, <1>3, <1>7 DEF TypeOK, empty_database, WriterOnly, dbVars, metricVars, pointVars
<1>8. CASE write_metric
  <2>1. points[writer.max] \in Addr \cup {NULL}
    BY <1>1, <1>2, <1>8 DEF TypeOK, write_metric, WriterState
  <2>2. writer' \in WriterState
    BY <1>2, <1>8, <2>1 DEF write_metric, WriterState, WriterPc
  <2> QED
    BY <1>1, <1>8, <2>2 DEF TypeOK, write_metric, WriterOnly, dbVars, metricVars, pointVars
<1>9. CASE lock_metric
  <2>1. writer' \in WriterState
    BY <1>2, <1>9 DEF lock_metric, WriterState, WriterPc
  <2>2. lock' \in [Metric -> BOOLEAN]
    BY <1>1, <1>9, Zenon DEF TypeOK, lock_metric
  <2> QED
    BY <1>1, <1>9, <2>1, <2>2 DEF TypeOK, lock_metric, WriterOnly, dbVars, pointVars
<1>10. CASE read_next
  <2>1. pnext[writer.pt] \in Addr \cup {NULL}
    BY <1>1, <1>2, <1>10 DEF TypeOK, read_next, WriterState
  <2>2. writer' \in WriterState
    BY <1>2, <1>10, <2>1 DEF read_next, WriterState, WriterPc
  <2> QED
    BY <1>1, <1>10, <2>2 DEF TypeOK, read_next, WriterOnly, dbVars, metricVars, pointVars
<1>11. CASE write_and_free
  <2>1. writer' \in WriterState
    BY <1>2, <1>11 DEF write_and_free, WriterState, WriterPc
  <2>2. disk' \subseteq Name \X Line /\ heap' \subseteq Addr
    <3>1. writer.max \in Created
      BY <1>1, <1>2, <1>11
         DEF TypeOK, WriterAt, Created, CreatedOrNull, write_and_free, AtW, Metric, NULL
    <3>2. writer.pt \in heap
      BY <1>11 DEF IInv, Live, InUse, WriterAt, write_and_free, AtW
    <3>3. name[writer.max] \in Name
      BY <1>1, <3>1 DEF Ordered
    <3>4. pline[writer.pt] \in 1 .. lines
      BY <3>2 DEF IInv, OnePlace
    <3>5. pline[writer.pt] \in Line
      BY <1>1, <1>2, <3>4 DEF TypeOK, Line
    <3> QED
      BY <1>1, <1>11, <3>3, <3>5 DEF TypeOK, write_and_free
  <2> QED
    BY <1>1, <1>11, <2>1, <2>2 DEF TypeOK, write_and_free, WriterOnly, dbVars, metricVars
<1>12. CASE empty_metric
  <2>1. writer.max \in Metric
    BY <1>2, <1>12 DEF empty_metric, AtW
  <2>2. writer' \in WriterState
    BY <1>2, <1>12 DEF empty_metric, WriterState, WriterPc
  <2>3. /\ nb_points' \in [Metric -> 0 .. MaxLines]
        /\ points' \in [Metric -> Addr \cup {NULL}] /\ mlast' \in [Metric -> Addr \cup {NULL}]
    BY <1>1, <1>2, <1>12, <2>1 DEF TypeOK, empty_metric
  <2> QED
    BY <1>1, <1>12, <2>2, <2>3 DEF TypeOK, empty_metric, WriterOnly, dbVars, pointVars
<1>13. CASE unlock_metric
  <2>1. lock' \in [Metric -> BOOLEAN]
    BY <1>1, <1>13, Zenon DEF TypeOK, unlock_metric
  <2> QED
    BY <1>1, <1>3, <1>13, <2>1 DEF TypeOK, unlock_metric, WriterOnly, dbVars, pointVars
<1> QED
  BY <1>4, <1>5, <1>6, <1>7, <1>8, <1>9, <1>10, <1>11, <1>12, <1>13 DEF Write

-----------------------------------------------------------------------------
(* The steps seen from outside                                              *)

ProducerStep(p) == Produce(p) \/ \E n \in Sends[p] : receive(p, n)

(* A step of one producer is none of another, nor of the writer.            *)
LEMMA ProducerFrame ==
  ASSUME TypeOK, NEW p \in Producer, ProducerStep(p)
  PROVE  /\ UNCHANGED <<writer, lock, disk>>
         /\ \A q \in Producer : q # p => prod'[q] = prod[q]
         /\ lines <= lines' /\ created <= created'
<1>1. lines \in Nat /\ created \in Nat /\ prod \in [Producer -> ProducerState]
  BY DEF TypeOK
<1>2. ASSUME NEW n \in Sends[p], receive(p, n)
      PROVE  /\ UNCHANGED <<writer, lock, disk>>
             /\ \A q \in Producer : q # p => prod'[q] = prod[q]
             /\ lines <= lines' /\ created <= created'
  BY <1>1, <1>2 DEF receive, dbVars, metricVars
<1>3. ASSUME Produce(p)
      PROVE  UNCHANGED <<writer, lock, disk, lines>> /\ (created' = created \/ created' = created + 1)
  BY <1>3, Zenon
     DEF Produce, get_metric, create_new_metric, add_database_metric, set_db_last,
         create_new_metric_point, load_metric_last, add_database_metric_point,
         set_metric_last, load_nb_points, store_nb_points, dbVars, metricVars
<1>4. ASSUME Produce(p), NEW q \in Producer, q # p PROVE prod'[q] = prod[q]
  BY <1>1, <1>4
     DEF Produce, get_metric, create_new_metric, add_database_metric, set_db_last,
         create_new_metric_point, load_metric_last, add_database_metric_point,
         set_metric_last, load_nb_points, store_nb_points
<1> QED
  BY <1>1, <1>2, <1>3, <1>4 DEF ProducerStep

(* The writer leaves the producers and the list of metrics alone.           *)
LEMMA WriterFrame ==
  ASSUME Write
  PROVE  UNCHANGED <<lines, named, first, last, created, name, next, prod, pline, pnext>>
BY Zenon
   DEF Write, find_largest_metric, compare_nb_points, next_metric, empty_database,
       write_metric, lock_metric, read_next, write_and_free, empty_metric, unlock_metric,
       WriterOnly, dbVars, pointVars

-----------------------------------------------------------------------------
(* The producers' locals                                                    *)

Locals(p, pc, line, cur, m, pt, tail, nb) ==
  /\ prod'[p].pc = pc /\ prod'[p].line = line /\ prod'[p].cur = cur /\ prod'[p].m = m
  /\ prod'[p].pt = pt /\ prod'[p].tail = tail /\ prod'[p].nb = nb

(* receive() starts with a new line at the head of the list of metrics.     *)
LEMMA ReceiveLocals ==
  ASSUME TypeOK, NEW p \in Producer, NEW n, receive(p, n)
  PROVE  Locals(p, "get", lines + 1, first, NULL, NULL, NULL, 0)
BY DEF TypeOK, receive, Locals, IdleProducer

(* get_metric() has found the metric or goes to the next one.               *)
LEMMA GetLocals ==
  ASSUME TypeOK, NEW p \in Producer, get_metric(p)
  PROVE  LET s == prod[p] IN
           \/ Locals(p, "get", s.line, next[s.cur], s.m, s.pt, s.tail, s.nb)
           \/ Locals(p, "calloc", s.line, NULL, s.cur, s.pt, s.tail, s.nb)
<1>1. prod \in [Producer -> ProducerState] /\ prod[p] \in ProducerState
  BY DEF TypeOK
<1>2. CASE name[prod[p].cur] = named[prod[p].line]
  <2>1. prod'[p] = [prod[p] EXCEPT !.pc = "calloc", !.m = prod[p].cur, !.cur = NULL]
    BY <1>1, <1>2 DEF get_metric
  <2> QED
    BY <1>1, <2>1 DEF Locals, ProducerState
<1>3. CASE name[prod[p].cur] # named[prod[p].line]
  <2>1. prod'[p] = [prod[p] EXCEPT !.cur = next[prod[p].cur]] /\ prod[p].pc = "get"
    BY <1>1, <1>3 DEF get_metric, AtP
  <2> QED
    BY <1>1, <2>1 DEF Locals, ProducerState
<1> QED
  BY <1>2, <1>3

(* create_new_metric() knows the last metric it is to come after.           *)
LEMMA CreateLocals ==
  ASSUME TypeOK, NEW p \in Producer, create_new_metric(p)
  PROVE  LET s == prod[p] IN Locals(p, "first", s.line, s.cur, created + 1, s.pt, last, s.nb)
BY DEF TypeOK, create_new_metric, Locals, ProducerState

(* add_database_metric() has one more store to do.                          *)
LEMMA AddLocals ==
  ASSUME TypeOK, NEW p \in Producer, add_database_metric(p)
  PROVE  LET s == prod[p] IN Locals(p, "last", s.line, s.cur, s.m, s.pt, s.tail, s.nb)
BY DEF TypeOK, add_database_metric, Locals, ProducerState

(* The metric is in the list.                                               *)
LEMMA SetLastLocals ==
  ASSUME TypeOK, NEW p \in Producer, set_db_last(p)
  PROVE  LET s == prod[p] IN Locals(p, "calloc", s.line, s.cur, s.m, s.pt, NULL, s.nb)
BY DEF TypeOK, set_db_last, Locals, ProducerState

(* create_new_metric_point() has a point that was not in use.               *)
LEMMA CallocLocals ==
  ASSUME TypeOK, NEW p \in Producer, create_new_metric_point(p)
  PROVE  \E a \in Addr \ heap :
           /\ LET s == prod[p] IN Locals(p, "load", s.line, s.cur, s.m, a, s.tail, s.nb)
           /\ heap' = heap \cup {a}
           /\ pline' = [pline EXCEPT ![a] = prod[p].line]
           /\ pnext' = [pnext EXCEPT ![a] = NULL]
<1>1. prod \in [Producer -> ProducerState] /\ prod[p] \in ProducerState
  BY DEF TypeOK
<1>2. PICK a \in Addr \ heap :
        /\ heap' = heap \cup {a}
        /\ pline' = [pline EXCEPT ![a] = prod[p].line]
        /\ pnext' = [pnext EXCEPT ![a] = NULL]
        /\ prod' = [prod EXCEPT ![p].pc = "load", ![p].pt = a]
  BY DEF create_new_metric_point
<1>3. LET s == prod[p] IN Locals(p, "load", s.line, s.cur, s.m, a, s.tail, s.nb)
  BY <1>1, <1>2 DEF Locals, ProducerState
<1> QED
  BY <1>2, <1>3

(* add_database_metric_point() knows the point it is to come after.         *)
LEMMA LoadLastLocals ==
  ASSUME TypeOK, NEW p \in Producer, load_metric_last(p)
  PROVE  LET s == prod[p] IN Locals(p, "link", s.line, s.cur, s.m, s.pt, mlast[s.m], s.nb)
BY DEF TypeOK, load_metric_last, Locals, ProducerState

(* The point is linked.                                                     *)
LEMMA LinkLocals ==
  ASSUME TypeOK, NEW p \in Producer, add_database_metric_point(p)
  PROVE  LET s == prod[p] IN Locals(p, "mlast", s.line, s.cur, s.m, s.pt, NULL, s.nb)
BY DEF TypeOK, add_database_metric_point, Locals, ProducerState

(* The point is done with.                                                  *)
LEMMA MetricLastLocals ==
  ASSUME TypeOK, NEW p \in Producer, set_metric_last(p)
  PROVE  LET s == prod[p] IN Locals(p, "nb_load", s.line, s.cur, s.m, NULL, s.tail, s.nb)
BY DEF TypeOK, set_metric_last, Locals, ProducerState

(* nb_points is loaded.                                                     *)
LEMMA LoadNbLocals ==
  ASSUME TypeOK, NEW p \in Producer, load_nb_points(p)
  PROVE  LET s == prod[p] IN Locals(p, "nb_store", s.line, s.cur, s.m, s.pt, s.tail, nb_points[s.m])
BY DEF TypeOK, load_nb_points, Locals, ProducerState

(* The producer is ready for the next line.                                 *)
LEMMA StoreNbLocals ==
  ASSUME TypeOK, NEW p \in Producer, store_nb_points(p)
  PROVE  Locals(p, "recv", NULL, NULL, NULL, NULL, NULL, 0)
BY DEF TypeOK, store_nb_points, Locals, IdleProducer

(* What the producers' locals hold is kept by every step.                   *)
LEMMA ProducersKept ==
  ASSUME IInv, Next
  PROVE  \A q \in Producer : ProducerAt(q)'
<1>1. TypeOK /\ Ordered /\ \A q \in Producer : ProducerAt(q)
  BY DEF IInv
<1>2. /\ lines \in 0 .. MaxLines /\ created \in 0 .. MaxLines /\ MaxLines \in Nat
      /\ first \in 0 .. created /\ last \in 0 .. created
  BY <1>1, CacheAssumption DEF TypeOK, Ordered, CreatedOrNull
<1>3. ASSUME Write PROVE \A q \in Producer : ProducerAt(q)'
  BY <1>1, <1>3, WriterFrame DEF ProducerAt, Created, CreatedOrNull
<1>4. ASSUME NEW p \in Producer, ProducerStep(p), NEW q \in Producer PROVE ProducerAt(q)'
  <2>1. CASE q # p
    <3>1. prod'[q] = prod[q] /\ lines <= lines' /\ created <= created'
      BY <1>1, <1>4, <2>1, ProducerFrame
    <3>2. lines' \in Nat /\ created' \in Nat
      BY <1>4, ProducerTypes DEF ProducerStep, TypeOK
    <3> QED
      BY <1>1, <1>2, <3>1, <3>2 DEF ProducerAt, Created, CreatedOrNull
  <2>2. CASE q = p
    <3> SUFFICES ProducerAt(p)'
      BY <2>2
    <3> USE DEF AtP, NULL, CreatedOrNull, Created
    <3>1. prod \in [Producer -> ProducerState] /\ prod[p] \in ProducerState /\ ProducerAt(p)
      BY <1>1 DEF TypeOK
    <3>2. prod[p].pc # "recv" => prod[p].line \in 1 .. lines
      BY <3>1 DEF ProducerAt
    <3>3. ASSUME NEW n \in Sends[p], receive(p, n) PROVE ProducerAt(p)'
      BY <1>1, <1>2, <3>1, <3>3, ReceiveLocals DEF ProducerAt, receive, Locals, dbVars
    <3>4. CASE get_metric(p)
      <4>1. /\ prod[p].cur \in Metric /\ prod[p].cur \in 1 .. created
            /\ next[prod[p].cur] \in 0 .. created
        BY <1>1, <1>2, <3>1, <3>4 DEF ProducerAt, get_metric, Ordered, TypeOK, Metric
      <4>2. prod[p].pc = "get" /\ lines' = lines /\ created' = created
        BY <3>4 DEF get_metric, dbVars
      <4>3. LET s == prod[p] IN
              \/ Locals(p, "get", s.line, next[s.cur], s.m, s.pt, s.tail, s.nb)
              \/ Locals(p, "calloc", s.line, NULL, s.cur, s.pt, s.tail, s.nb)
        BY <1>1, <3>4, GetLocals
      <4> QED
        BY <1>2, <3>1, <3>2, <4>1, <4>2, <4>3 DEF ProducerAt, Locals
    <3>5. CASE create_new_metric(p)
      <4>1. prod[p].pc = "get" /\ lines' = lines /\ created' = created + 1
        BY <3>5 DEF create_new_metric
      <4>2. LET s == prod[p] IN
              Locals(p, "first", s.line, s.cur, created + 1, s.pt, last, s.nb)
        BY <1>1, <3>5, CreateLocals
      <4>3. last = NULL \/ (last \in Metric /\ last < created + 1)
        BY <1>2 DEF Metric
      <4> QED
        BY <1>2, <3>1, <3>2, <4>1, <4>2, <4>3 DEF ProducerAt, Locals
    <3>6. CASE add_database_metric(p)
      BY <1>1, <3>1, <3>2, <3>6, AddLocals DEF ProducerAt, add_database_metric, Locals
    <3>7. CASE set_db_last(p)
      BY <1>1, <3>1, <3>2, <3>7, SetLastLocals DEF ProducerAt, set_db_last, Locals
    <3>8. CASE create_new_metric_point(p)
      <4>1. prod[p].pc = "calloc" /\ lines' = lines /\ created' = created
        BY <3>8 DEF create_new_metric_point, dbVars
      <4>2. PICK a \in Addr :
              LET s == prod[p] IN Locals(p, "load", s.line, s.cur, s.m, a, s.tail, s.nb)
        BY <1>1, <3>8, CallocLocals
      <4> QED
        BY <3>1, <3>2, <4>1, <4>2 DEF ProducerAt, Locals
    <3>9. CASE load_metric_last(p)
      <4>1. mlast[prod[p].m] \in Addr \cup {NULL}
        BY <1>1, <1>2, <3>1, <3>9 DEF ProducerAt, load_metric_last, TypeOK, Metric
      <4> QED
        BY <1>1, <3>1, <3>2, <3>9, <4>1, LoadLastLocals DEF ProducerAt, load_metric_last, Locals, dbVars
    <3>10. CASE add_database_metric_point(p)
      BY <1>1, <3>1, <3>2, <3>10, LinkLocals DEF ProducerAt, add_database_metric_point, Locals, dbVars
    <3>11. CASE set_metric_last(p)
      BY <1>1, <3>1, <3>2, <3>11, MetricLastLocals DEF ProducerAt, set_metric_last, Locals, dbVars
    <3>12. CASE load_nb_points(p)
      BY <1>1, <3>1, <3>2, <3>12, LoadNbLocals DEF ProducerAt, load_nb_points, Locals, dbVars
    <3>13. CASE store_nb_points(p)
      <4>1. Locals(p, "recv", NULL, NULL, NULL, NULL, NULL, 0) /\ created' = created
        BY <1>1, <3>13, StoreNbLocals DEF store_nb_points, dbVars
      <4> QED
        BY <1>2, <4>1 DEF ProducerAt, Locals
    <3> QED
      BY <1>4, <3>3, <3>4, <3>5, <3>6, <3>7, <3>8, <3>9, <3>10, <3>11, <3>12, <3>13
         DEF ProducerStep, Produce
  <2> QED
    BY <2>1, <2>2
<1> QED
  BY <1>3, <1>4 DEF Next, ProducerStep

-----------------------------------------------------------------------------
(* The writer's locals                                                      *)

(* What the writer's locals hold is kept by every step.                     *)
LEMMA WriterKept ==
  ASSUME IInv, Next
  PROVE  WriterAt'
<1> USE DEF NULL, AtW, CreatedOrNull
<1>1. TypeOK /\ Ordered /\ WriterAt
  BY DEF IInv
<1>2. /\ writer \in WriterState /\ MaxLines \in Nat
      /\ created \in 0 .. MaxLines /\ first \in 0 .. created
      /\ writer.cur \in 0 .. created /\ writer.max \in 0 .. created
  BY <1>1, CacheAssumption DEF TypeOK, Ordered, WriterAt
<1>3. ASSUME NEW p \in Producer, ProducerStep(p) PROVE WriterAt'
  <2>1. writer' = writer /\ created <= created'
    BY <1>1, <1>3, ProducerFrame
  <2>2. created' \in Nat
    BY <1>3, ProducerTypes DEF ProducerStep, TypeOK
  <2> QED
    BY <1>1, <1>2, <2>1, <2>2 DEF WriterAt
<1>4. CASE Write
  <2>1. created' = created
    BY <1>4, WriterFrame
  <2>2. CASE find_largest_metric
    BY <1>2, <2>1, <2>2 DEF WriterAt, find_largest_metric, IdleWriter
  <2>3. CASE compare_nb_points
    BY <1>1, <1>2, <2>1, <2>3 DEF WriterAt, compare_nb_points, WriterState
  <2>4. CASE next_metric
    <3>1. writer.cur \in Metric /\ next[writer.cur] \in 0 .. created
      BY <1>1, <1>2, <2>4 DEF WriterAt, next_metric, Ordered, TypeOK, Metric
    <3> QED
      BY <1>1, <1>2, <2>1, <2>4, <3>1 DEF WriterAt, next_metric, WriterState
  <2>5. CASE empty_database
    BY <1>2, <2>1, <2>5 DEF WriterAt, empty_database, IdleWriter
  <2>6. CASE write_metric
    BY <1>1, <1>2, <2>1, <2>6 DEF WriterAt, write_metric, WriterState
  <2>7. CASE lock_metric
    BY <1>1, <1>2, <2>1, <2>7 DEF WriterAt, lock_metric, WriterState
  <2>8. CASE read_next
    BY <1>1, <1>2, <2>1, <2>8 DEF WriterAt, read_next, WriterState
  <2>9. CASE write_and_free
    BY <1>1, <1>2, <2>1, <2>9 DEF WriterAt, write_and_free, WriterState
  <2>10. CASE empty_metric
    BY <1>1, <1>2, <2>1, <2>10 DEF WriterAt, empty_metric, WriterState
  <2>11. CASE unlock_metric
    BY <1>2, <2>1, <2>11 DEF WriterAt, unlock_metric, IdleWriter
  <2> QED
    BY <1>4, <2>2, <2>3, <2>4, <2>5, <2>6, <2>7, <2>8, <2>9, <2>10, <2>11 DEF Write
<1> QED
  BY <1>3, <1>4 DEF Next, ProducerStep

-----------------------------------------------------------------------------
(* The list of metrics                                                      *)

(* Only four steps touch the list of metrics.                               *)
LEMMA ListFrame ==
  ASSUME NEW p \in Producer, Produce(p),
         ~create_new_metric(p), ~add_database_metric(p), ~set_db_last(p)
  PROVE  UNCHANGED <<lines, named, first, last, created, name, next>>
BY Zenon
   DEF Produce, get_metric, create_new_metric_point, load_metric_last,
       add_database_metric_point, set_metric_last, load_nb_points, store_nb_points, dbVars

(* Each metric of the list comes after its predecessor, whatever the order  *)
(* in which producers read db->last and link their metrics.                 *)
LEMMA ListKept ==
  ASSUME IInv, Next
  PROVE  Ordered'
<1> USE DEF NULL, CreatedOrNull, Created
<1>1. TypeOK /\ Ordered
  BY DEF IInv
<1>2. /\ lines \in 0 .. MaxLines /\ created \in 0 .. MaxLines /\ MaxLines \in Nat
      /\ named \in [Line -> Name \cup {NULL}] /\ name \in [Metric -> Name \cup {NULL}]
      /\ next \in [Metric -> Metric \cup {NULL}]
      /\ first \in 0 .. created /\ last \in 0 .. created
  BY <1>1, CacheAssumption DEF TypeOK, Ordered
<1>3. ASSUME UNCHANGED <<lines, named, first, last, created, name, next>> PROVE Ordered'
  BY <1>1, <1>3 DEF Ordered
<1>4. ASSUME NEW p \in Producer, NEW n \in Sends[p], receive(p, n) PROVE Ordered'
  <2>1. n \in Name /\ lines' = lines + 1 /\ lines + 1 \in Line
    BY <1>2, <1>4, CacheAssumption DEF receive, Line
  <2>2. \A l \in 1 .. lines' : named'[l] \in Name
    BY <1>1, <1>2, <1>4, <2>1 DEF receive, Line, Ordered
  <2> QED
    BY <1>1, <1>4, <2>2 DEF Ordered, receive, dbVars
<1>5. ASSUME NEW p \in Producer, create_new_metric(p) PROVE Ordered'
  <2>1. created + 1 \in Metric /\ named[prod[p].line] \in Name
    <3>1. created + 1 \in 0 .. MaxLines
      BY <1>5, Room DEF IInv, create_new_metric
    <3>2. prod[p].line \in 1 .. lines
      BY <1>5 DEF IInv, create_new_metric, ProducerAt, AtP
    <3> QED
      BY <1>1, <1>2, <3>1, <3>2 DEF Ordered, Metric
  <2>2. \A m \in 1 .. created' : name'[m] \in Name
    BY <1>1, <1>2, <1>5, <2>1 DEF create_new_metric, Metric, Ordered
  <2>3. \A m \in Metric : next'[m] # NULL => m < next'[m] /\ next'[m] <= created'
    BY <1>1, <1>2, <1>5 DEF create_new_metric, Ordered, Metric
  <2>4. /\ UNCHANGED <<first, last, lines, named>>
        /\ first \in 0 .. created' /\ last \in 0 .. created'
    BY <1>2, <1>5 DEF create_new_metric
  <2> QED
    BY <1>1, <2>2, <2>3, <2>4 DEF Ordered
<1>6. ASSUME NEW p \in Producer, add_database_metric(p) PROVE Ordered'
  <2>1. /\ prod[p].m \in 1 .. created
        /\ prod[p].tail = NULL \/ (prod[p].tail \in Metric /\ prod[p].tail < prod[p].m)
    BY <1>6 DEF IInv, ProducerAt, add_database_metric, AtP
  <2>2. UNCHANGED <<lines, named, last, created, name>>
    BY <1>6 DEF add_database_metric
  <2>3. first' \in 0 .. created
    BY <1>2, <1>6, <2>1 DEF add_database_metric
  <2>4. \A m \in Metric : next'[m] # NULL => m < next'[m] /\ next'[m] <= created
    <3>1. \A m \in Metric : next'[m] = next[m] \/ (m = prod[p].tail /\ m # NULL /\ next'[m] = prod[p].m)
      BY <1>2, <1>6 DEF add_database_metric
    <3> QED
      BY <1>1, <1>2, <2>1, <3>1 DEF Ordered
  <2> QED
    BY <1>1, <1>2, <2>2, <2>3, <2>4 DEF Ordered
<1>7. ASSUME NEW p \in Producer, set_db_last(p) PROVE Ordered'
  <2>1. prod[p].m \in 1 .. created
    BY <1>7 DEF IInv, ProducerAt, set_db_last, AtP
  <2> QED
    BY <1>1, <1>2, <1>7, <2>1 DEF Ordered, set_db_last
<1>8. ASSUME NEW p \in Producer, Produce(p) PROVE Ordered'
  BY <1>3, <1>5, <1>6, <1>7, <1>8, ListFrame
<1>9. ASSUME Write PROVE Ordered'
  BY <1>3, <1>9, WriterFrame
<1> QED
  BY <1>4, <1>8, <1>9 DEF Next

-----------------------------------------------------------------------------
(* Lines                                                                    *)

(* A producer that has found its metric has one.                            *)
LEMMA MetricFound ==
  ASSUME IInv, NEW p \in Producer, prod[p].pc \notin {"recv", "get"}
  PROVE  prod[p].m \in Metric /\ prod[p].m \in Created
<1>1. prod[p].m \in Created /\ created \in 0 .. MaxLines /\ MaxLines \in Nat
  BY CacheAssumption DEF IInv, TypeOK, ProducerAt
<1> QED
  BY <1>1 DEF Created, Metric

(* A producer keeps its line until the point is counted, and once its       *)
(* metric is found does not look for it again.                              *)
LEMMA LineKept ==
  ASSUME TypeOK, NEW p \in Producer, Produce(p)
  PROVE  /\ prod'[p].line = prod[p].line \/ (store_nb_points(p) /\ prod'[p].line = NULL)
         /\ prod'[p].pc = "get" => prod[p].pc = "get"
         /\ \/ prod'[p].nb \in {prod[p].nb, 0}
            \/ load_nb_points(p) /\ prod'[p].nb = nb_points[prod[p].m]
         /\ lines' = lines
<1>1. CASE get_metric(p)
  BY <1>1, GetLocals DEF Locals, get_metric, AtP
<1>2. CASE create_new_metric(p)
  BY <1>2, CreateLocals DEF Locals, create_new_metric
<1>3. CASE add_database_metric(p)
  BY <1>3, AddLocals DEF Locals, add_database_metric
<1>4. CASE set_db_last(p)
  BY <1>4, SetLastLocals DEF Locals, set_db_last
<1>5. CASE create_new_metric_point(p)
  BY <1>5, CallocLocals DEF Locals, create_new_metric_point
<1>6. CASE load_metric_last(p)
  BY <1>6, LoadLastLocals DEF Locals, load_metric_last
<1>7. CASE add_database_metric_point(p)
  BY <1>7, LinkLocals DEF Locals, add_database_metric_point
<1>8. CASE set_metric_last(p)
  BY <1>8, MetricLastLocals DEF Locals, set_metric_last
<1>9. CASE load_nb_points(p)
  <2>1. lines' = lines
    BY <1>9 DEF load_nb_points
  <2> QED
    BY <1>9, <2>1, LoadNbLocals DEF Locals
<1>10. CASE store_nb_points(p)
  <2>1. lines' = lines
    BY <1>10 DEF store_nb_points
  <2> QED
    BY <1>10, <2>1, StoreNbLocals DEF Locals
<1> QED
  BY <1>1, <1>2, <1>3, <1>4, <1>5, <1>6, <1>7, <1>8, <1>9, <1>10 DEF Produce

(* No step gives two producers the same line.                               *)
LEMMA OwnLineKept ==
  ASSUME IInv, Next
  PROVE  OwnLine'
<1>1. TypeOK /\ OwnLine /\ lines \in Nat /\ \A q \in Producer : ProducerAt(q)
  BY DEF IInv, TypeOK
<1>2. CASE Write
  BY <1>1, <1>2, WriterFrame DEF OwnLine
<1>3. ASSUME NEW p \in Producer, NEW n \in Sends[p], receive(p, n) PROVE OwnLine'
  <2>1. prod'[p].line = lines + 1
    BY <1>1, <1>3, ReceiveLocals DEF Locals
  <2>2. \A q \in Producer : q # p => prod'[q].line = prod[q].line
    BY <1>1, <1>3, ProducerFrame DEF ProducerStep
  <2>3. \A q \in Producer : prod[q].line # lines + 1
    BY <1>1 DEF ProducerAt, NULL
  <2> QED
    BY <1>1, <2>1, <2>2, <2>3 DEF OwnLine
<1>4. ASSUME NEW p \in Producer, Produce(p) PROVE OwnLine'
  <2>1. prod'[p].line \in {prod[p].line, NULL}
    BY <1>1, <1>4, LineKept
  <2>2. \A q \in Producer : q # p => prod'[q].line = prod[q].line
    BY <1>1, <1>4, ProducerFrame DEF ProducerStep
  <2> QED
    BY <1>1, <2>1, <2>2 DEF OwnLine
<1> QED
  BY <1>2, <1>3, <1>4 DEF Next

(* The lines that have their metric, and those in the cache, only get more. *)
LEMMA LinesGrow ==
  ASSUME IInv, NEW p \in Producer, ProducerStep(p)
  PROVE  /\ Placed \subseteq Placed' /\ Added \subseteq Added'
         /\ lines' \in Nat /\ Placed' \subseteq 1 .. lines' /\ Added' \subseteq 1 .. lines'
<1>1. TypeOK /\ lines \in Nat /\ lines' \in Nat /\ lines <= lines'
  BY ProducerFrame, ProducerTypes DEF IInv, TypeOK, ProducerStep
<1>2. \A q \in Producer : q # p => prod'[q] = prod[q]
  BY <1>1, ProducerFrame
<1>3. Placed' \subseteq 1 .. lines' /\ Added' \subseteq 1 .. lines'
  BY DEF Placed, Added
<1>4. ASSUME NEW n \in Sends[p], receive(p, n) PROVE Placed \subseteq Placed' /\ Added \subseteq Added'
  <2>1. prod'[p].line = lines + 1
    BY <1>1, <1>4, ReceiveLocals DEF Locals
  <2> QED
    BY <1>1, <1>2, <2>1 DEF Placed, Added
<1>5. ASSUME Produce(p) PROVE Placed \subseteq Placed' /\ Added \subseteq Added'
  <2>1. /\ prod'[p].line \in {prod[p].line, NULL}
        /\ prod'[p].pc = "get" => prod[p].pc = "get"
    BY <1>1, <1>5, LineKept
  <2> QED
    BY <1>1, <1>2, <2>1 DEF Placed, Added, NULL
<1> QED
  BY <1>1, <1>3, <1>4, <1>5 DEF ProducerStep

(* create_new_metric() and store_nb_points() count one line each.           *)
LEMMA LinesCounted ==
  ASSUME IInv, NEW p \in Producer
  PROVE  /\ create_new_metric(p) => Cardinality(Placed) + 1 <= Cardinality(Placed')
         /\ store_nb_points(p) => Cardinality(Added) + 1 <= Cardinality(Added')
<1>1. TypeOK /\ OwnLine /\ ProducerAt(p) /\ \A q \in Producer : ProducerAt(q)
  BY DEF IInv
<1>2. ASSUME create_new_metric(p) PROVE Cardinality(Placed) + 1 <= Cardinality(Placed')
  <2>1. ProducerStep(p)
    BY <1>2 DEF ProducerStep, Produce
  <2>2. prod[p].line \in 1 .. lines /\ prod[p].line \notin Placed /\ prod[p].line # NULL
    BY <1>1, <1>2 DEF create_new_metric, AtP, ProducerAt, Placed, NULL
  <2>3. prod'[p].pc = "first" /\ \A q \in Producer : q # p => prod'[q].line # prod[p].line
    BY <1>1, <1>2, <2>1, <2>2, CreateLocals, ProducerFrame DEF Locals, OwnLine
  <2>4. prod[p].line \in Placed'
    BY <1>2, <2>2, <2>3 DEF Placed, create_new_metric
  <2> QED
    BY <2>1, <2>2, <2>4, LinesGrow, Growing
<1>3. ASSUME store_nb_points(p) PROVE Cardinality(Added) + 1 <= Cardinality(Added')
  <2>1. ProducerStep(p)
    BY <1>3 DEF ProducerStep, Produce
  <2>2. prod[p].line \in 1 .. lines /\ prod[p].line \notin Added /\ prod[p].line # NULL
    BY <1>1, <1>3 DEF store_nb_points, AtP, ProducerAt, Added, NULL
  <2>3. /\ prod'[p].line = NULL
        /\ \A q \in Producer : q # p => prod'[q].line # prod[p].line
    BY <1>1, <1>3, <2>1, <2>2, StoreNbLocals, ProducerFrame DEF Locals, OwnLine
  <2>4. prod[p].line \in Added'
    BY <1>3, <2>2, <2>3 DEF Added, store_nb_points
  <2> QED
    BY <2>1, <2>2, <2>4, LinesGrow, Growing
<1> QED
  BY <1>2, <1>3

(* No more metrics than lines that have one, and no nb_points above the     *)
(* number of lines in the cache.                                            *)
LEMMA CountsKept ==
  ASSUME IInv, Next
  PROVE  Counts'
<1>1. TypeOK /\ Counts /\ \A q \in Producer : ProducerAt(q)
  BY DEF IInv
<1>2. /\ lines \in Nat /\ created \in Nat /\ MaxLines \in Nat
      /\ nb_points \in [Metric -> 0 .. MaxLines]
      /\ \A q \in Producer : prod[q] \in ProducerState
  BY <1>1, CacheAssumption DEF TypeOK
<1>3. Cardinality(Placed) \in Nat /\ Cardinality(Added) \in Nat
  BY <1>2, Counting DEF Placed, Added
<1>4. CASE Write
  <2>1. UNCHANGED <<Placed, Added, created, prod>>
    BY <1>4, WriterFrame DEF Placed, Added
  <2>2. \A m \in Metric : nb_points'[m] = nb_points[m] \/ nb_points'[m] = 0
    <3>1. CASE empty_metric
      BY <1>2, <3>1 DEF empty_metric
    <3>2. CASE ~empty_metric
      <4>1. nb_points' = nb_points
        BY <1>4, <3>2, Zenon
           DEF Write, find_largest_metric, compare_nb_points, next_metric, empty_database,
               write_metric, lock_metric, read_next, write_and_free, unlock_metric, metricVars
      <4> QED
        BY <4>1
    <3> QED
      BY <3>1, <3>2
  <2> QED
    BY <1>1, <1>3, <2>1, <2>2 DEF Counts
<1>5. ASSUME NEW p \in Producer, ProducerStep(p) PROVE Counts'
  <2>1. /\ Cardinality(Placed) <= Cardinality(Placed') /\ Cardinality(Placed') \in Nat
        /\ Cardinality(Added) <= Cardinality(Added') /\ Cardinality(Added') \in Nat
    BY <1>5, LinesGrow, Growing, Counting
  <2>2. created' <= Cardinality(Placed')
    <3>1. CASE create_new_metric(p)
      <4>1. created' = created + 1 /\ Cardinality(Placed) + 1 <= Cardinality(Placed')
        BY <3>1, LinesCounted DEF create_new_metric
      <4> QED
        BY <1>1, <1>2, <1>3, <2>1, <4>1 DEF Counts
    <3>2. CASE ~create_new_metric(p)
      <4>1. created' = created
        BY <1>5, <3>2, Zenon
           DEF ProducerStep, Produce, receive, get_metric, add_database_metric, set_db_last,
               create_new_metric_point, load_metric_last, add_database_metric_point,
               set_metric_last, load_nb_points, store_nb_points, dbVars
      <4> QED
        BY <1>1, <1>2, <1>3, <2>1, <4>1 DEF Counts
    <3> QED
      BY <3>1, <3>2
  <2>3. ASSUME NEW m \in Metric PROVE nb_points'[m] <= Cardinality(Added')
    <3>1. nb_points[m] \in Nat /\ nb_points[m] <= Cardinality(Added)
      BY <1>1, <1>2 DEF Counts
    <3>2. CASE store_nb_points(p)
      <4>1. Cardinality(Added) + 1 <= Cardinality(Added')
        BY <3>2, LinesCounted
      <4>2. prod[p].nb \in Nat /\ prod[p].nb <= Cardinality(Added)
        BY <1>1, <1>2 DEF Counts, ProducerState
      <4>3. nb_points'[m] = nb_points[m] \/ nb_points'[m] = prod[p].nb + 1
        BY <1>2, <3>2 DEF store_nb_points
      <4> QED
        BY <1>3, <2>1, <3>1, <4>1, <4>2, <4>3
    <3>3. CASE ~store_nb_points(p)
      <4>1. nb_points' = nb_points
        BY <1>5, <3>3, Zenon
           DEF ProducerStep, Produce, receive, get_metric, create_new_metric,
               add_database_metric, set_db_last, create_new_metric_point, load_metric_last,
               add_database_metric_point, set_metric_last, load_nb_points, metricVars
      <4> QED
        BY <1>3, <2>1, <3>1, <4>1
    <3> QED
      BY <3>2, <3>3
  <2>4. ASSUME NEW q \in Producer PROVE prod'[q].nb <= Cardinality(Added')
    <3>1. prod[q].nb \in Nat /\ prod[q].nb <= Cardinality(Added)
      BY <1>1, <1>2 DEF Counts, ProducerState
    <3>2. CASE q # p
      BY <1>1, <1>3, <1>5, <2>1, <3>1, <3>2, ProducerFrame
    <3>3. CASE q = p /\ Produce(p)
      <4>1. \/ prod'[p].nb \in {prod[p].nb, 0}
            \/ load_nb_points(p) /\ prod'[p].nb = nb_points[prod[p].m]
        BY <1>1, <3>3, LineKept
      <4>2. load_nb_points(p) => prod[p].m \in Metric
        BY MetricFound DEF load_nb_points, AtP
      <4>3. load_nb_points(p) => nb_points[prod[p].m] \in Nat /\ nb_points[prod[p].m] <= Cardinality(Added)
        BY <1>1, <1>2, <4>2 DEF Counts
      <4> QED
        BY <1>3, <2>1, <3>1, <3>3, <4>1, <4>3
    <3>4. ASSUME q = p, NEW n \in Sends[p], receive(p, n) PROVE prod'[q].nb <= Cardinality(Added')
      <4>1. prod'[p].nb = 0
        BY <1>1, <3>4, ReceiveLocals DEF Locals
      <4> QED
        BY <2>1, <3>4, <4>1
    <3> QED
      BY <1>5, <3>2, <3>3, <3>4 DEF ProducerStep
  <2> QED
    BY <2>2, <2>3, <2>4 DEF Counts
<1> QED
  BY <1>4, <1>5 DEF Next, ProducerStep

(* A producer that has no point yet had none before, and the same line.     *)
LEMMA NoPointYet ==
  ASSUME TypeOK, NEW p \in Producer, Produce(p),
         prod'[p].pc \in {"get", "first", "last", "calloc"}
  PROVE  /\ prod[p].pc \in {"get", "first", "last"} /\ prod'[p].line = prod[p].line
         /\ ~create_new_metric_point(p)
<1>1. CASE get_metric(p)
  BY <1>1, GetLocals DEF Locals, get_metric, create_new_metric_point, AtP
<1>2. CASE create_new_metric(p)
  BY <1>2, CreateLocals DEF Locals, create_new_metric, create_new_metric_point, AtP
<1>3. CASE add_database_metric(p)
  BY <1>3, AddLocals DEF Locals, add_database_metric, create_new_metric_point, AtP
<1>4. CASE set_db_last(p)
  BY <1>4, SetLastLocals DEF Locals, set_db_last, create_new_metric_point, AtP
<1>5. CASE create_new_metric_point(p)
  BY <1>5, CallocLocals DEF Locals
<1>6. CASE load_metric_last(p)
  BY <1>6, LoadLastLocals DEF Locals
<1>7. CASE add_database_metric_point(p)
  BY <1>7, LinkLocals DEF Locals
<1>8. CASE set_metric_last(p)
  BY <1>8, MetricLastLocals DEF Locals
<1>9. CASE load_nb_points(p)
  BY <1>9, LoadNbLocals DEF Locals
<1>10. CASE store_nb_points(p)
  BY <1>10, StoreNbLocals DEF Locals
<1> QED
  BY <1>1, <1>2, <1>3, <1>4, <1>5, <1>6, <1>7, <1>8, <1>9, <1>10 DEF Produce

(* Producers allocate points in one step only, and write nothing.           *)
LEMMA HeapFrame ==
  ASSUME NEW p \in Producer, Produce(p), ~create_new_metric_point(p)
  PROVE  UNCHANGED <<lines, heap, pline, disk>>
BY Zenon
   DEF Produce, get_metric, create_new_metric, add_database_metric, set_db_last,
       load_metric_last, add_database_metric_point, set_metric_last, load_nb_points,
       store_nb_points, pointVars

(* The writer frees and writes in one step only.                            *)
LEMMA DiskFrame ==
  ASSUME Write, ~write_and_free
  PROVE  UNCHANGED <<heap, disk>>
BY Zenon
   DEF Write, find_largest_metric, compare_nb_points, next_metric, empty_database,
       write_metric, lock_metric, read_next, empty_metric, unlock_metric, pointVars

(* A line stays in one place: it moves from the producer to its point and   *)
(* from the point to the disk.                                              *)
LEMMA OnePlaceKept ==
  ASSUME IInv, Next
  PROVE  OnePlace'
<1>1. /\ TypeOK /\ OnePlace /\ OwnLine /\ lines \in Nat /\ NULL \notin 1 .. lines
      /\ \A q \in Producer : ProducerAt(q)
  BY DEF IInv, TypeOK, NULL
<1>2. ASSUME Write, ~write_and_free PROVE OnePlace'
  BY <1>1, <1>2, WriterFrame, DiskFrame DEF OnePlace, OnDisk
<1>3. ASSUME write_and_free PROVE OnePlace'
  <2>1. writer.pt \in heap
    BY <1>3 DEF IInv, Live, InUse, WriterAt, write_and_free, AtW
  <2>2. UNCHANGED <<lines, prod, pline>> /\ heap' = heap \ {writer.pt}
    BY <1>3, WriterFrame DEF Write, write_and_free
  <2>3. \A l : OnDisk(l)' => OnDisk(l) \/ l = pline[writer.pt]
    BY <1>3 DEF OnDisk, write_and_free
  <2>4. \A a \in heap' : ~OnDisk(pline[a])'
    BY <1>1, <2>1, <2>2, <2>3 DEF OnePlace
  <2>5. \A l \in Line : OnDisk(l)' => l <= lines
    BY <1>1, <2>1, <2>3 DEF OnePlace
  <2>6. \A q \in Producer : prod[q].pc \in {"get", "first", "last", "calloc"} =>
           ~OnDisk(prod[q].line)'
    BY <1>1, <2>1, <2>2, <2>3 DEF OnePlace
  <2> QED
    BY <1>1, <2>2, <2>4, <2>5, <2>6 DEF OnePlace
<1>4. ASSUME NEW p \in Producer, NEW n \in Sends[p], receive(p, n) PROVE OnePlace'
  <2>1. lines' = lines + 1 /\ prod'[p].line = lines + 1 /\ UNCHANGED <<heap, pline, disk>>
    BY <1>1, <1>4, ReceiveLocals DEF Locals, receive, pointVars
  <2>2. \A q \in Producer : q # p => prod'[q] = prod[q]
    BY <1>1, <1>4, ProducerFrame DEF ProducerStep
  <2>3. \A l : OnDisk(l)' <=> OnDisk(l)
    BY <2>1 DEF OnDisk
  <2>4. ~OnDisk(lines + 1) /\ \A a \in heap : pline[a] # lines + 1
    <3>1. lines + 1 \in Line
      BY <1>1, <1>4, CacheAssumption DEF receive, Line
    <3> QED
      BY <1>1, <3>1 DEF OnePlace
  <2>5. /\ \A a \in heap : pline[a] \in 1 .. lines' /\ ~OnDisk(pline[a])
        /\ \A l \in Line : OnDisk(l) => l <= lines'
    BY <1>1, <2>1 DEF OnePlace, Line
  <2>6. \A q \in Producer : prod'[q].pc \in {"get", "first", "last", "calloc"} =>
          ~OnDisk(prod'[q].line) /\ \A a \in heap : pline[a] # prod'[q].line
    BY <1>1, <2>1, <2>2, <2>4 DEF OnePlace
  <2> QED
    BY <1>1, <2>1, <2>3, <2>5, <2>6 DEF OnePlace
<1>5. ASSUME NEW p \in Producer, create_new_metric_point(p) PROVE OnePlace'
  <2>1. PICK a \in Addr \ heap :
          /\ heap' = heap \cup {a}
          /\ pline' = [pline EXCEPT ![a] = prod[p].line]
    BY <1>1, <1>5, CallocLocals
  <2>2. /\ UNCHANGED <<lines, disk>> /\ prod[p].line \in 1 .. lines
        /\ ~OnDisk(prod[p].line) /\ \A b \in heap : pline[b] # prod[p].line
    BY <1>1, <1>5 DEF create_new_metric_point, AtP, ProducerAt, OnePlace
  <2>3. \A l : OnDisk(l)' <=> OnDisk(l)
    BY <2>2 DEF OnDisk
  <2>4. /\ \A b \in heap : b # a /\ pline'[b] = pline[b]
        /\ pline'[a] = prod[p].line
    BY <1>1, <2>1 DEF TypeOK
  <2>5. ASSUME NEW q \in Producer, prod'[q].pc \in {"get", "first", "last", "calloc"}
        PROVE  /\ ~OnDisk(prod'[q].line)
               /\ \A b \in heap' : pline'[b] # prod'[q].line
    <3>1. q # p
      BY <1>1, <1>5, <2>5, CallocLocals DEF Locals
    <3>2. prod'[q] = prod[q]
      BY <1>1, <1>5, <3>1, ProducerFrame DEF ProducerStep, Produce
    <3>3. prod[q].line # prod[p].line
      BY <1>1, <2>2, <3>1 DEF OwnLine
    <3> QED
      BY <1>1, <2>1, <2>4, <2>5, <3>2, <3>3 DEF OnePlace
  <2>6. /\ \A b \in heap' : pline'[b] \in 1 .. lines /\ ~OnDisk(pline'[b])
        /\ \A b, c \in heap' : pline'[b] = pline'[c] => b = c
    BY <1>1, <2>1, <2>2, <2>4 DEF OnePlace
  <2> QED
    BY <1>1, <2>2, <2>3, <2>5, <2>6 DEF OnePlace
<1>6. ASSUME NEW p \in Producer, Produce(p), ~create_new_metric_point(p) PROVE OnePlace'
  <2>1. UNCHANGED <<lines, heap, pline, disk>>
    BY <1>6, HeapFrame
  <2>2. \A q \in Producer : prod'[q].pc \in {"get", "first", "last", "calloc"} =>
          /\ prod[q].pc \in {"get", "first", "last", "calloc"}
          /\ prod'[q].line = prod[q].line
    BY <1>1, <1>6, NoPointYet, ProducerFrame DEF ProducerStep
  <2>3. \A l : OnDisk(l)' <=> OnDisk(l)
    BY <2>1 DEF OnDisk
  <2> QED
    BY <1>1, <2>1, <2>2, <2>3 DEF OnePlace
<1> QED
  BY <1>2, <1>3, <1>4, <1>5, <1>6 DEF Next, Write

-----------------------------------------------------------------------------
(* Points                                                                   *)

(* A step that moves no reference leaves them live and apart.               *)
LEMMA RefsKept ==
  ASSUME Live, Unique, heap' = heap,
         \A q \in Producer : ProducerRef(q)' \in {ProducerRef(q), NULL},
         \A a \in Addr : NextRef(a)' \in {NextRef(a), NULL},
         \A m \in Metric : PointsRef(m)' \in {PointsRef(m), NULL},
         writer'.pt \in {writer.pt, NULL}, writer'.nx \in {writer.nx, NULL}
  PROVE  Live' /\ Unique'
<1>1. Live'
  BY DEF Live, InUse
<1>2. Unique'
  BY DEF Unique, Apart
<1> QED
  BY <1>1, <1>2

(* A producer's step leaves the references of the others as they were.      *)
LEMMA OtherRefs ==
  ASSUME TypeOK, NEW p \in Producer, ProducerStep(p)
  PROVE  /\ \A q \in Producer : q # p => ProducerRef(q)' = ProducerRef(q)
         /\ writer' = writer /\ \A m \in Metric : Walking(m)' <=> Walking(m)
         /\ \A a \in Addr : pnext'[a] = pnext[a] /\ (a \in heap' <=> a \in heap) =>
              NextRef(a)' = NextRef(a)
         /\ \A m \in Metric : points'[m] = points[m] => PointsRef(m)' = PointsRef(m)
BY ProducerFrame DEF ProducerRef, NextRef, PointsRef, Walking

(* A point just allocated is the producer's alone.                          *)
LEMMA CallocRefs ==
  ASSUME IInv, NEW p \in Producer, create_new_metric_point(p)
  PROVE  Live' /\ Unique'
<1>1. TypeOK /\ Live /\ Unique /\ ProducerStep(p)
  BY DEF IInv, ProducerStep, Produce
<1>2. PICK a \in Addr \ heap :
        /\ prod'[p].pc = "load" /\ prod'[p].pt = a
        /\ heap' = heap \cup {a} /\ pnext' = [pnext EXCEPT ![a] = NULL]
  BY <1>1, CallocLocals DEF Locals
<1>3. ProducerRef(p)' = a
  BY <1>2 DEF ProducerRef
<1>4. NextRef(a)' = NULL /\ \A b \in Addr : b # a => NextRef(b)' = NextRef(b)
  <2>1. pnext'[a] = NULL /\ \A b \in Addr : b # a => pnext'[b] = pnext[b] /\ (b \in heap' <=> b \in heap)
    BY <1>1, <1>2 DEF TypeOK
  <2> QED
    BY <1>1, <2>1, OtherRefs DEF NextRef
<1>5. \A m \in Metric : PointsRef(m)' = PointsRef(m)
  BY <1>1, OtherRefs DEF create_new_metric_point, metricVars
<1>6. writer' = writer /\ \A q \in Producer : q # p => ProducerRef(q)' = ProducerRef(q)
  BY <1>1, OtherRefs
<1>7. a # NULL
  BY CacheAssumption
<1>8. Live'
  BY <1>1, <1>2, <1>3, <1>4, <1>5, <1>6 DEF Live, InUse
<1>9. Unique'
  BY <1>1, <1>2, <1>3, <1>4, <1>5, <1>6, <1>7 DEF Live, InUse, Unique, Apart
<1> QED
  BY <1>8, <1>9

(* A point being added goes from its producer to the metric or to the point *)
(* it comes after; to none, if that one is being written or freed.          *)
LEMMA LinkRefs ==
  ASSUME IInv, NEW p \in Producer, add_database_metric_point(p)
  PROVE  Live' /\ Unique'
<1>1. TypeOK /\ Live /\ Unique /\ ProducerStep(p)
  BY DEF IInv, ProducerStep, Produce
<1>2. prod[p].m \in Metric /\ ProducerRef(p) = prod[p].pt /\ heap' = heap
  BY MetricFound DEF add_database_metric_point, AtP, ProducerRef
<1>3. ProducerRef(p)' = NULL
  BY <1>1, LinkLocals DEF Locals, ProducerRef
<1>4. writer' = writer /\ \A q \in Producer : q # p => ProducerRef(q)' = ProducerRef(q)
  BY <1>1, OtherRefs
<1>5. CASE prod[p].tail = NULL
  <2>1. \A a \in Addr : NextRef(a)' = NextRef(a)
    BY <1>1, <1>5, OtherRefs DEF add_database_metric_point
  <2>2. \A m \in Metric : m # prod[p].m => PointsRef(m)' = PointsRef(m)
    BY <1>1, <1>5, OtherRefs DEF add_database_metric_point, TypeOK
  <2>3. PointsRef(prod[p].m)' \in {ProducerRef(p), NULL}
    <3>1. points'[prod[p].m] = prod[p].pt /\ UNCHANGED prod[p].m
      BY <1>1, <1>2, <1>5, LinkLocals DEF add_database_metric_point, TypeOK, Locals
    <3> QED
      BY <1>2, <3>1 DEF PointsRef
  <2>4. UNCHANGED prod[p].m
    BY <1>1, LinkLocals DEF Locals
  <2>5. Live'
    BY <1>1, <1>2, <1>3, <1>4, <2>1, <2>2, <2>3, <2>4 DEF Live, InUse
  <2>6. Unique'
    BY <1>1, <1>2, <1>3, <1>4, <2>1, <2>2, <2>3, <2>4 DEF Unique, Apart
  <2> QED
    BY <2>5, <2>6
<1>6. CASE prod[p].tail # NULL
  <2> DEFINE t == prod[p].tail
  <2>1. t \in Addr /\ prod[p].pt \in Addr
    BY <1>6 DEF IInv, ProducerAt, add_database_metric_point, AtP
  <2>2. \A m \in Metric : PointsRef(m)' = PointsRef(m)
    BY <1>1, <1>6, OtherRefs DEF add_database_metric_point
  <2>3. pnext' = [pnext EXCEPT ![t] = prod[p].pt]
    BY <1>6 DEF add_database_metric_point
  <2>4. ASSUME NEW a \in Addr
        PROVE  IF a = t THEN NextRef(a)' \in {ProducerRef(p), NULL} ELSE NextRef(a)' = NextRef(a)
    <3>1. CASE a = t
      <4>1. pnext'[a] = prod[p].pt
        BY <1>1, <2>1, <2>3, <3>1 DEF TypeOK
      <4> QED
        BY <1>2, <3>1, <4>1 DEF NextRef
    <3>2. CASE a # t
      <4>1. pnext'[a] = pnext[a]
        BY <1>1, <2>1, <2>3, <3>2 DEF TypeOK
      <4> QED
        BY <1>1, <1>2, <3>2, <4>1, OtherRefs
    <3> QED
      BY <3>1, <3>2
  <2> HIDE DEF t
  <2>5. Live'
    BY <1>1, <1>2, <1>3, <1>4, <2>1, <2>2, <2>4 DEF Live, InUse
  <2>6. Unique'
    BY <1>1, <1>2, <1>3, <1>4, <2>1, <2>2, <2>4 DEF Unique, Apart
  <2> QED
    BY <2>5, <2>6
<1> QED
  BY <1>5, <1>6

(* The other steps of a producer move no reference.                         *)
LEMMA ProducerRefs ==
  ASSUME IInv, NEW p \in Producer, ProducerStep(p)
  PROVE  Live' /\ Unique'
<1>1. TypeOK /\ Live /\ Unique
  BY DEF IInv
<1>2. ASSUME UNCHANGED <<heap, points, pnext>>, ProducerRef(p)' \in {ProducerRef(p), NULL}
      PROVE  Live' /\ Unique'
  <2>1. /\ writer' = writer /\ \A a \in Addr : NextRef(a)' = NextRef(a)
        /\ \A m \in Metric : PointsRef(m)' = PointsRef(m)
        /\ \A q \in Producer : q # p => ProducerRef(q)' = ProducerRef(q)
    BY <1>1, <1>2, OtherRefs
  <2> QED
    BY <1>1, <1>2, <2>1, RefsKept
<1>3. ASSUME NEW n \in Sends[p], receive(p, n) PROVE Live' /\ Unique'
  <2>1. ProducerRef(p)' = NULL
    BY <1>1, <1>3, ReceiveLocals DEF Locals, ProducerRef
  <2> QED
    BY <1>2, <1>3, <2>1 DEF receive, metricVars, pointVars
<1>4. CASE get_metric(p)
  <2>1. ProducerRef(p)' = NULL
    BY <1>1, <1>4, GetLocals DEF Locals, ProducerRef
  <2> QED
    BY <1>2, <1>4, <2>1 DEF get_metric, metricVars, pointVars
<1>5. CASE create_new_metric(p)
  <2>1. ProducerRef(p)' = NULL
    BY <1>1, <1>5, CreateLocals DEF Locals, ProducerRef
  <2> QED
    BY <1>2, <1>5, <2>1 DEF create_new_metric, metricVars, pointVars
<1>6. CASE add_database_metric(p)
  <2>1. ProducerRef(p)' = NULL
    BY <1>1, <1>6, AddLocals DEF Locals, ProducerRef
  <2> QED
    BY <1>2, <1>6, <2>1 DEF add_database_metric, metricVars, pointVars
<1>7. CASE set_db_last(p)
  <2>1. ProducerRef(p)' = NULL
    BY <1>1, <1>7, SetLastLocals DEF Locals, ProducerRef
  <2> QED
    BY <1>2, <1>7, <2>1 DEF set_db_last, metricVars, pointVars
<1>8. CASE load_metric_last(p)
  <2>1. ProducerRef(p)' = ProducerRef(p)
    BY <1>1, <1>8, LoadLastLocals DEF Locals, ProducerRef, load_metric_last, AtP
  <2> QED
    BY <1>2, <1>8, <2>1 DEF load_metric_last, metricVars, pointVars
<1>9. CASE set_metric_last(p)
  <2>1. ProducerRef(p)' = NULL
    BY <1>1, <1>9, MetricLastLocals DEF Locals, ProducerRef
  <2> QED
    BY <1>2, <1>9, <2>1 DEF set_metric_last, pointVars
<1>10. CASE load_nb_points(p)
  <2>1. ProducerRef(p)' = NULL
    BY <1>1, <1>10, LoadNbLocals DEF Locals, ProducerRef
  <2> QED
    BY <1>2, <1>10, <2>1 DEF load_nb_points, metricVars, pointVars
<1>11. CASE store_nb_points(p)
  <2>1. ProducerRef(p)' = NULL
    BY <1>1, <1>11, StoreNbLocals DEF Locals, ProducerRef
  <2> QED
    BY <1>2, <1>11, <2>1 DEF store_nb_points, pointVars
<1> QED
  BY <1>3, <1>4, <1>5, <1>6, <1>7, <1>8, <1>9, <1>10, <1>11, CallocRefs, LinkRefs
     DEF ProducerStep, Produce

(* What the writer takes over: the list of the metric, then each point's    *)
(* `next'.  The point it frees is known to nobody else.                     *)
LEMMA WriterRefs ==
  ASSUME IInv, Write
  PROVE  Live' /\ Unique'
<1>1. TypeOK /\ Live /\ Unique /\ WriterAt /\ writer \in WriterState
  BY DEF IInv, TypeOK
<1>2. UNCHANGED <<prod, pnext>> /\ \A q \in Producer : ProducerRef(q)' = ProducerRef(q)
  BY WriterFrame DEF ProducerRef
<1>3. ASSUME UNCHANGED <<heap, points>>, writer.pc # "write", writer'.pc # "write",
             \A m \in Metric : Walking(m) => Walking(m)',
             writer'.pt \in {writer.pt, NULL}, writer'.nx \in {writer.nx, NULL}
      PROVE  Live' /\ Unique'
  <2>1. \A a \in Addr : NextRef(a)' = NextRef(a)
    BY <1>2, <1>3 DEF NextRef
  <2>2. \A m \in Metric : PointsRef(m)' \in {PointsRef(m), NULL}
    BY <1>3 DEF PointsRef
  <2> QED
    BY <1>1, <1>2, <1>3, <2>1, <2>2, RefsKept
<1>4. CASE find_largest_metric
  <2>1. writer.pc = "find" /\ writer'.pc = "scan" /\ writer'.pt = NULL /\ writer'.nx = NULL
    BY <1>4 DEF find_largest_metric, AtW, IdleWriter
  <2> QED
    BY <1>3, <1>4, <2>1 DEF Walking, find_largest_metric, metricVars, pointVars
<1>5. CASE compare_nb_points
  <2>1. writer.pc = "scan" /\ writer'.pc = "hop" /\ writer'.pt = writer.pt /\ writer'.nx = writer.nx
    BY <1>1, <1>5 DEF compare_nb_points, AtW, WriterState
  <2> QED
    BY <1>3, <1>5, <2>1 DEF Walking, compare_nb_points, metricVars, pointVars
<1>6. CASE next_metric
  <2>1. writer.pc = "hop" /\ writer'.pc = "scan" /\ writer'.pt = writer.pt /\ writer'.nx = writer.nx
    BY <1>1, <1>6 DEF next_metric, AtW, WriterState
  <2> QED
    BY <1>3, <1>6, <2>1 DEF Walking, next_metric, metricVars, pointVars
<1>7. CASE empty_database
  <2>1. writer.pc = "scan" /\ writer'.pc = "find" /\ writer'.pt = NULL /\ writer'.nx = NULL
    BY <1>7 DEF empty_database, AtW, IdleWriter
  <2> QED
    BY <1>3, <1>7, <2>1 DEF Walking, empty_database, metricVars, pointVars
<1>8. CASE write_metric
  <2>1. /\ writer.pc = "scan" /\ writer'.pc = "lock" /\ writer.max \in Metric
        /\ writer'.max = writer.max /\ writer'.pt = points[writer.max] /\ writer'.nx = writer.nx
        /\ writer.nx = NULL /\ writer.pt = NULL /\ UNCHANGED <<heap, points>>
    BY <1>1, <1>8 DEF write_metric, AtW, WriterState, WriterAt, metricVars, pointVars
  <2>2. PointsRef(writer.max) = writer'.pt
    BY <2>1 DEF PointsRef, Walking
  <2>3. \A m \in Metric : PointsRef(m)' = IF m = writer.max THEN NULL ELSE PointsRef(m)
    BY <2>1 DEF PointsRef, Walking
  <2>4. \A a \in Addr : NextRef(a)' = NextRef(a)
    BY <1>2, <2>1 DEF NextRef
  <2>5. Live'
    BY <1>1, <1>2, <2>1, <2>2, <2>3, <2>4 DEF Live, InUse
  <2>6. Unique'
    BY <1>1, <1>2, <2>1, <2>2, <2>3, <2>4 DEF Unique, Apart
  <2> QED
    BY <2>5, <2>6
<1>9. CASE lock_metric
  <2>1. /\ writer.pc = "lock" /\ writer'.pc = "read" /\ writer'.pt = writer.pt
        /\ writer'.nx = writer.nx /\ writer'.max = writer.max /\ writer'.step = 1
    BY <1>1, <1>9 DEF lock_metric, AtW, WriterState, WriterAt
  <2> QED
    BY <1>3, <1>9, <2>1 DEF Walking, lock_metric, pointVars
<1>10. CASE read_next
  <2>1. /\ writer.pc = "read" /\ writer'.pc = "write" /\ writer'.pt = writer.pt
        /\ writer'.nx = pnext[writer.pt] /\ writer'.max = writer.max /\ writer.step = 1
        /\ writer.nx = NULL /\ UNCHANGED <<heap, points>> /\ writer.pt # NULL
    BY <1>1, <1>10 DEF read_next, AtW, WriterState, WriterAt, metricVars, pointVars
  <2>2. writer.pt \in heap /\ writer.pt \in Addr
    BY <1>1, <2>1 DEF Live, InUse, TypeOK
  <2>3. NextRef(writer.pt) = writer'.nx
    BY <2>1, <2>2 DEF NextRef
  <2>4. \A a \in Addr : NextRef(a)' = IF a = writer.pt THEN NULL ELSE NextRef(a)
    BY <1>2, <2>1 DEF NextRef
  <2>5. \A m \in Metric : PointsRef(m)' = PointsRef(m)
    BY <2>1 DEF PointsRef, Walking
  <2>6. Live'
    BY <1>1, <1>2, <2>1, <2>2, <2>3, <2>4, <2>5 DEF Live, InUse
  <2>7. Unique'
    BY <1>1, <1>2, <2>1, <2>2, <2>3, <2>4, <2>5 DEF Unique, Apart
  <2> QED
    BY <2>6, <2>7
<1>11. CASE write_and_free
  <2>1. /\ writer.pc = "write" /\ writer'.pc = "read" /\ writer'.pt = writer.nx
        /\ writer'.nx = NULL /\ writer'.max = writer.max /\ writer.step = 1 /\ writer'.step = 1
        /\ heap' = heap \ {writer.pt} /\ points' = points /\ writer.pt # NULL
    BY <1>1, <1>11 DEF write_and_free, AtW, WriterState, WriterAt, metricVars
  <2>2. \A a \in Addr : NextRef(a)' = NextRef(a)
    BY <1>2, <2>1 DEF NextRef
  <2>3. \A m \in Metric : PointsRef(m)' = PointsRef(m)
    BY <2>1 DEF PointsRef, Walking
  <2>4. Live'
    BY <1>1, <1>2, <2>1, <2>2, <2>3 DEF Live, InUse, Unique, Apart
  <2>5. Unique'
    BY <1>1, <1>2, <2>1, <2>2, <2>3 DEF Unique, Apart
  <2> QED
    BY <2>4, <2>5
<1>12. CASE empty_metric
  <2>1. /\ writer.pc = "read" /\ writer'.pt = writer.pt /\ writer'.nx = writer.nx
        /\ writer'.max = writer.max /\ writer.max \in Metric /\ heap' = heap
        /\ writer.step \in 1 .. 3
    BY <1>1, <1>12 DEF empty_metric, AtW, WriterState, WriterAt, pointVars
  <2>2. CASE writer.step = 1
    <3>1. writer'.pc = "read" /\ writer'.step = 2 /\ points' = points
      BY <1>1, <1>12, <2>1, <2>2 DEF empty_metric, WriterState, ClearOrder
    <3> QED
      BY <1>3, <2>1, <3>1 DEF Walking
  <2>3. CASE writer.step = 2
    <3>1. writer'.pc = "read" /\ writer'.step = 3 /\ points' = [points EXCEPT ![writer.max] = NULL]
      BY <1>1, <1>12, <2>1, <2>3 DEF empty_metric, WriterState, ClearOrder
    <3>2. \A m \in Metric : PointsRef(m)' \in {PointsRef(m), NULL}
      BY <1>1, <2>1, <2>3, <3>1 DEF PointsRef, Walking, TypeOK
    <3>3. \A a \in Addr : NextRef(a)' = NextRef(a)
      BY <1>2, <2>1, <3>1 DEF NextRef
    <3> QED
      BY <1>1, <1>2, <2>1, <3>2, <3>3, RefsKept
  <2>4. CASE writer.step = 3
    <3>1. writer'.pc = "unlock" /\ points' = points
      BY <1>1, <1>12, <2>1, <2>4 DEF empty_metric, WriterState, ClearOrder
    <3> QED
      BY <1>3, <2>1, <2>4, <3>1 DEF Walking
  <2> QED
    BY <2>1, <2>2, <2>3, <2>4
<1>13. CASE unlock_metric
  <2>1. writer.pc = "unlock" /\ writer'.pc = "find" /\ writer'.pt = NULL /\ writer'.nx = NULL
    BY <1>13 DEF unlock_metric, AtW, IdleWriter
  <2> QED
    BY <1>3, <1>13, <2>1 DEF Walking, unlock_metric, pointVars
<1> QED
  BY <1>4, <1>5, <1>6, <1>7, <1>8, <1>9, <1>10, <1>11, <1>12, <1>13 DEF Write

-----------------------------------------------------------------------------
(* Counters                                                                 *)

(* A producer that is adding its point keeps at it until it is counted.     *)
LEMMA InsertingKept ==
  ASSUME IInv, NEW p \in Producer, Produce(p), Inserting(p), ~store_nb_points(p)
  PROVE  Inserting(p)' /\ prod'[p].m = prod[p].m /\ nb_points' = nb_points
<1>1. TypeOK /\ prod[p].pc \in {"link", "mlast", "nb_load", "nb_store"}
  BY DEF IInv, Inserting
<1>2. CASE add_database_metric_point(p)
  BY <1>1, <1>2, LinkLocals DEF Locals, Inserting, add_database_metric_point
<1>3. CASE set_metric_last(p)
  BY <1>1, <1>3, MetricLastLocals DEF Locals, Inserting, set_metric_last
<1>4. CASE load_nb_points(p)
  <2>1. nb_points' = nb_points
    BY <1>4 DEF load_nb_points, metricVars
  <2> QED
    BY <1>1, <1>4, <2>1, LoadNbLocals DEF Locals, Inserting
<1> QED
  BY <1>1, <1>2, <1>3, <1>4
     DEF Produce, get_metric, create_new_metric, add_database_metric, set_db_last,
         create_new_metric_point, load_metric_last, AtP

(* A metric with points and nb_points = 0 is being worked on.               *)
LEMMA CountedKept ==
  ASSUME IInv, Next
  PROVE  Counted'
<1>1. /\ TypeOK /\ Counted /\ WriterAt /\ writer \in WriterState
      /\ nb_points \in [Metric -> 0 .. MaxLines] /\ points \in [Metric -> Addr \cup {NULL}]
  BY DEF IInv, TypeOK
<1>2. SUFFICES ASSUME NEW m \in Metric, points'[m] # NULL, nb_points'[m] = 0
               PROVE  \/ \E q \in Producer : Inserting(q)' /\ prod'[q].m = m
                      \/ writer'.max = m /\ writer'.pc = "read" /\ writer'.step = 2
  BY DEF Counted, Inserting
<1>3. ASSUME NEW p \in Producer, ProducerStep(p)
      PROVE  \/ \E q \in Producer : Inserting(q)' /\ prod'[q].m = m
             \/ writer'.max = m /\ writer'.pc = "read" /\ writer'.step = 2
  <2>1. writer' = writer /\ \A q \in Producer : q # p => prod'[q] = prod[q]
    BY <1>1, <1>3, ProducerFrame
  <2>2. \A q \in Producer : q # p /\ Inserting(q) => Inserting(q)'
    BY <2>1 DEF Inserting
  <2>3. CASE store_nb_points(p)
    <3>1. points' = points /\ prod[p].m \in Metric /\ prod[p].nb \in Nat
      BY <1>1, <2>3, MetricFound
         DEF store_nb_points, AtP, TypeOK, ProducerState
    <3>2. prod[p].m # m /\ nb_points[m] = 0
      BY <1>1, <1>2, <2>3, <3>1 DEF store_nb_points
    <3> QED
      BY <1>1, <1>2, <2>1, <2>2, <3>1, <3>2 DEF Counted
  <2>4. CASE add_database_metric_point(p)
    <3>1. /\ Inserting(p)' /\ prod'[p].m = prod[p].m /\ nb_points' = nb_points
          /\ prod[p].m \in Metric
      BY <2>4, InsertingKept, MetricFound
         DEF add_database_metric_point, Inserting, AtP, Produce, store_nb_points
    <3>2. m # prod[p].m => points'[m] = points[m]
      BY <1>1, <2>4, <3>1 DEF add_database_metric_point
    <3> QED
      BY <1>1, <1>2, <2>1, <2>2, <3>1, <3>2 DEF Counted
  <2>5. CASE ~store_nb_points(p) /\ ~add_database_metric_point(p)
    <3>1. points' = points /\ nb_points' = nb_points
      BY <1>3, <2>5, Zenon
         DEF ProducerStep, Produce, receive, get_metric, create_new_metric,
             add_database_metric, set_db_last, create_new_metric_point, load_metric_last,
             set_metric_last, load_nb_points, metricVars
    <3>2. Inserting(p) => Inserting(p)' /\ prod'[p].m = prod[p].m
      BY <1>3, <2>5, InsertingKept DEF ProducerStep, receive, AtP, Inserting
    <3> QED
      BY <1>1, <1>2, <2>1, <2>2, <3>1, <3>2 DEF Counted
  <2> QED
    BY <2>3, <2>4, <2>5
<1>4. ASSUME Write
      PROVE  \/ \E q \in Producer : Inserting(q)' /\ prod'[q].m = m
             \/ writer'.max = m /\ writer'.pc = "read" /\ writer'.step = 2
  <2>1. prod' = prod /\ \A q \in Producer : Inserting(q)' <=> Inserting(q)
    BY <1>4, WriterFrame DEF Inserting
  <2>2. CASE empty_metric
    <3>1. /\ writer.pc = "read" /\ writer'.max = writer.max /\ writer.max \in Metric
          /\ writer.step \in 1 .. 3
      BY <1>1, <2>2 DEF empty_metric, AtW, WriterState, WriterAt
    <3>2. CASE writer.step = 1
      <4>1. /\ writer'.pc = "read" /\ writer'.step = 2 /\ points' = points
            /\ nb_points' = [nb_points EXCEPT ![writer.max] = 0]
        BY <1>1, <2>2, <3>1, <3>2 DEF empty_metric, WriterState, ClearOrder
      <4> QED
        BY <1>1, <1>2, <2>1, <3>1, <3>2, <4>1 DEF Counted
    <3>3. CASE writer.step = 2
      <4>1. /\ points' = [points EXCEPT ![writer.max] = NULL]
            /\ nb_points' = nb_points
        BY <1>1, <2>2, <3>1, <3>3 DEF empty_metric, WriterState, ClearOrder
      <4> QED
        BY <1>1, <1>2, <2>1, <3>1, <3>3, <4>1 DEF Counted
    <3>4. CASE writer.step = 3
      <4>1. points' = points /\ nb_points' = nb_points
        BY <1>1, <2>2, <3>1, <3>4 DEF empty_metric, WriterState, ClearOrder
      <4> QED
        BY <1>1, <1>2, <2>1, <3>1, <3>4, <4>1 DEF Counted
    <3> QED
      BY <3>1, <3>2, <3>3, <3>4
  <2>3. CASE ~empty_metric
    <3>1. points' = points /\ nb_points' = nb_points
      BY <1>4, <2>3, Zenon
         DEF Write, find_largest_metric, compare_nb_points, next_metric, empty_database,
             write_metric, lock_metric, read_next, write_and_free, unlock_metric, metricVars
    <3>2. ~(writer.pc = "read" /\ writer.step = 2)
      BY <1>1, <1>4, <2>3
         DEF Write, find_largest_metric, compare_nb_points, next_metric, empty_database,
             write_metric, lock_metric, read_next, write_and_free, unlock_metric, AtW, WriterAt
    <3> QED
      BY <1>1, <1>2, <2>1, <3>1, <3>2 DEF Counted
  <2> QED
    BY <2>2, <2>3
<1> QED
  BY <1>3, <1>4 DEF Next, ProducerStep

-----------------------------------------------------------------------------
(* The invariant                                                            *)

(* The empty cache satisfies the invariant.                                 *)
LEMMA InitInvariant == Init => IInv
<1> SUFFICES ASSUME Init PROVE IInv
  OBVIOUS
<1> USE DEF Init
<1>1. /\ lines = 0 /\ created = 0 /\ MaxLines \in Nat /\ NULL = 0 /\ NULL \notin Addr
      /\ \A p \in Producer : prod[p] = IdleProducer
      /\ \A m \in Metric : points[m] = NULL /\ nb_points[m] = 0 /\ next[m] = NULL
  BY CacheAssumption DEF NULL
<1>2. IdleProducer \in ProducerState /\ IdleWriter \in WriterState
  BY <1>1 DEF IdleProducer, IdleWriter, ProducerState, WriterState, ProducerPc, WriterPc
<1>3. TypeOK
  <2>1. lock \in [Metric -> BOOLEAN]
    BY Zenon
  <2>2. prod \in [Producer -> ProducerState] /\ writer \in WriterState
    BY <1>2
  <2> QED
    BY <1>1, <2>1, <2>2 DEF TypeOK
<1>4. \A p \in Producer : ProducerAt(p)
  BY <1>1 DEF ProducerAt, IdleProducer, CreatedOrNull
<1>5. WriterAt
  BY <1>1 DEF WriterAt, IdleWriter, CreatedOrNull
<1>6. Ordered
  BY <1>1 DEF Ordered, Created, CreatedOrNull
<1>7. OwnLine
  BY <1>1 DEF OwnLine, IdleProducer
<1>8. Counts
  <2>1. Cardinality(Placed) \in Nat /\ Cardinality(Added) \in Nat
    BY <1>1, Counting DEF Placed, Added
  <2> QED
    BY <1>1, <2>1 DEF Counts, IdleProducer
<1>9. OnePlace
  BY <1>1 DEF OnePlace, OnDisk, IdleProducer
<1>10. /\ \A p \in Producer : ProducerRef(p) = NULL
       /\ \A a \in Addr : NextRef(a) = NULL
       /\ \A m \in Metric : PointsRef(m) = NULL
       /\ writer.pt = NULL /\ writer.nx = NULL
  BY <1>1 DEF ProducerRef, NextRef, PointsRef, IdleProducer, IdleWriter
<1>11. Live /\ Unique
  BY <1>10 DEF Live, InUse, Unique, Apart
<1>12. Counted
  BY <1>1 DEF Counted
<1> QED
  BY <1>3, <1>4, <1>5, <1>6, <1>7, <1>8, <1>9, <1>11, <1>12 DEF IInv

(* Every step keeps the invariant.                                          *)
LEMMA StepInvariant == IInv /\ [Next]_vars => IInv'
<1> SUFFICES ASSUME IInv, [Next]_vars PROVE IInv'
  OBVIOUS
<1>1. CASE Next
  <2>1. TypeOK'
    BY <1>1, ProducerTypes, WriterTypes DEF Next
  <2>2. Live' /\ Unique'
    BY <1>1, ProducerRefs, WriterRefs DEF Next, ProducerStep
  <2> QED
    BY <1>1, <2>1, <2>2, ProducersKept, WriterKept, ListKept, OwnLineKept, CountsKept,
       OnePlaceKept, CountedKept DEF IInv
<1>2. CASE UNCHANGED vars
  <2> USE DEF vars, dbVars, metricVars, pointVars
  <2>1. TypeOK' /\ WriterAt' /\ Ordered' /\ OwnLine' /\ Counted'
    BY <1>2 DEF IInv, TypeOK, WriterAt, Ordered, OwnLine, Counted, Created, CreatedOrNull,
                Inserting
  <2>2. \A p \in Producer : ProducerAt(p)'
    BY <1>2 DEF IInv, ProducerAt, Created, CreatedOrNull
  <2>3. Counts' /\ OnePlace'
    BY <1>2 DEF IInv, Counts, OnePlace, OnDisk, Placed, Added
  <2>4. Live' /\ Unique'
    <3>1. /\ \A p \in Producer : ProducerRef(p)' = ProducerRef(p)
          /\ \A a \in Addr : NextRef(a)' = NextRef(a)
          /\ \A m \in Metric : PointsRef(m)' = PointsRef(m)
          /\ UNCHANGED <<heap, writer>>
      BY <1>2 DEF ProducerRef, NextRef, PointsRef, Walking
    <3> QED
      BY <3>1, RefsKept DEF IInv
  <2> QED
    BY <2>1, <2>2, <2>3, <2>4 DEF IInv
<1> QED
  BY <1>1, <1>2

(* The invariant holds in every reachable state of the cache.               *)
THEOREM CacheInvariant == Spec => []IInv
  BY InitInvariant, StepInvariant, PTL DEF Spec

(* The counters of metrics, lines and points stay within their bounds and   *)
(* every variable has its type.                                             *)
THEOREM CacheTypes == Spec => []TypeOK
<1>1. IInv => TypeOK
  BY DEF IInv
<1> QED
  BY <1>1, CacheInvariant, PTL

(* write_metric() never reads, writes out or frees a freed point.           *)
THEOREM WriterSafe == Spec => []WriterOnLivePoint
<1>1. IInv => WriterOnLivePoint
  BY DEF IInv, Live, InUse, WriterOnLivePoint
<1> QED
  BY <1>1, CacheInvariant, PTL

(* No point goes to disk twice: once written it is freed, and nothing leads *)
(* to it any more.                                                          *)
THEOREM OnceOnDisk == Spec => []WrittenOnce
<1>1. IInv => WrittenOnce
  <2> SUFFICES ASSUME IInv, writer.pc = "write"
               PROVE  \A n \in Name : <<n, pline[writer.pt]>> \notin disk
    BY DEF WrittenOnce
  <2>1. writer.pt \in heap
    BY DEF IInv, Live, InUse, WriterAt
  <2> QED
    BY <2>1 DEF IInv, OnePlace, OnDisk
<1> QED
  BY <1>1, CacheInvariant, PTL

(* A metric with points has a counter the writer sees, unless somebody is   *)
(* still busy with it.                                                      *)
THEOREM CachedIsCounted == Spec => []CountedIfCached
<1>1. IInv => CountedIfCached
  BY DEF IInv, Counted, CountedIfCached
<1> QED
  BY <1>1, CacheInvariant, PTL

-----------------------------------------------------------------------------
(* The walk along the list                                                  *)

Hop(w, k) == IF k = 0 THEN first ELSE IF w[k - 1] = NULL THEN NULL ELSE next[w[k - 1]]

(* The recursive definition of Walk has a solution, built one hop at a      *)
(* time, so that Walk satisfies it.                                         *)
LEMMA WalkHops == \A k \in 0 .. MaxLines : Walk[k] = Hop(Walk, k)
<1> DEFINE Long == {n \in Nat : \E w : w = [k \in 0 .. n |-> Hop(w, k)]}
<1>1. 0 \in Long
  <2> DEFINE w == [k \in 0 .. 0 |-> first]
  <2>1. w = [k \in 0 .. 0 |-> Hop(w, k)]
    BY DEF Hop
  <2> QED
    BY <2>1
<1>2. ASSUME NEW n \in Nat, n \in Long PROVE n + 1 \in Long
  <2>1. PICK w : w = [k \in 0 .. n |-> Hop(w, k)]
    BY <1>2
  <2> DEFINE v == [k \in 0 .. n + 1 |-> IF k = n + 1 THEN Hop(w, k) ELSE w[k]]
  <2>2. ASSUME NEW k \in 0 .. n + 1 PROVE v[k] = Hop(v, k)
    <3>1. CASE k = n + 1
      <4>1. (n + 1) - 1 = n /\ n + 1 # 0 /\ n \in 0 .. n + 1 /\ n # n + 1
        OBVIOUS
      <4>2. v[n] = w[n] /\ v[k] = Hop(w, k)
        BY <3>1, <4>1
      <4> QED
        BY <3>1, <4>1, <4>2 DEF Hop
    <3>2. CASE k # n + 1
      <4>1. k \in 0 .. n /\ (k # 0 => k - 1 \in 0 .. n)
        BY <3>2
      <4>2. v[k] = w[k] /\ w[k] = Hop(w, k) /\ (k # 0 => v[k - 1] = w[k - 1])
        BY <2>1, <3>2, <4>1
      <4> QED
        BY <4>2 DEF Hop
    <3> QED
      BY <3>1, <3>2
  <2>3. v = [k \in 0 .. n + 1 |-> Hop(v, k)]
    BY <2>2
  <2>4. n + 1 \in Nat
    OBVIOUS
  <2> HIDE DEF v
  <2> QED
    BY <2>3, <2>4
<1>3. MaxLines \in Long
  BY <1>1, <1>2, NatSet, CacheAssumption
<1>4. PICK w : w = [k \in 0 .. MaxLines |-> Hop(w, k)]
  BY <1>3
<1>5. Walk = [k \in 0 .. MaxLines |-> Hop(Walk, k)]
  BY <1>4, Zenon DEF Walk, Hop
<1> QED
  BY <1>5

(* After k hops the walk is over or past the metric number k.               *)
LEMMA WalkAdvances ==
  ASSUME IInv
  PROVE  \A k \in 0 .. MaxLines : Walk[k] = NULL \/ (Walk[k] \in Metric /\ k < Walk[k])
<1> DEFINE Past == {n \in Nat : n <= MaxLines =>
                      Walk[n] = NULL \/ (Walk[n] \in Metric /\ n < Walk[n])}
<1>1. /\ MaxLines \in Nat /\ first \in Metric \cup {NULL} /\ next \in [Metric -> Metric \cup {NULL}]
      /\ \A m \in Metric : next[m] # NULL => m < next[m]
  BY CacheAssumption DEF IInv, TypeOK, Ordered
<1>2. 0 \in Past
  <2>1. Walk[0] = first
    BY <1>1, WalkHops DEF Hop
  <2> QED
    BY <1>1, <2>1 DEF Metric
<1>3. ASSUME NEW n \in Nat, n \in Past PROVE n + 1 \in Past
  <2> SUFFICES ASSUME n + 1 <= MaxLines
               PROVE  Walk[n + 1] = NULL \/ (Walk[n + 1] \in Metric /\ n + 1 < Walk[n + 1])
    OBVIOUS
  <2>1. /\ n + 1 \in 0 .. MaxLines /\ n <= MaxLines /\ n + 1 # 0 /\ (n + 1) - 1 = n
    BY <1>1
  <2>2. Walk[n + 1] = IF Walk[n] = NULL THEN NULL ELSE next[Walk[n]]
    BY <2>1, WalkHops DEF Hop
  <2>3. Walk[n] = NULL \/ (Walk[n] \in Metric /\ n < Walk[n])
    BY <1>3, <2>1
  <2> QED
    BY <1>1, <2>2, <2>3 DEF Metric, NULL
<1>4. Nat \subseteq Past
  <2> HIDE DEF Past
  <2> QED
    BY <1>2, <1>3, NatSet
<1> QED
  BY <1>1, <1>4

(* The list of metrics ends, so the loops over it terminate.                *)
THEOREM ListEnds == Spec => []MetricListEnds
<1>1. IInv => MetricListEnds
  <2> SUFFICES ASSUME IInv PROVE Walk[MaxLines] = NULL
    BY DEF MetricListEnds
  <2>1. MaxLines \in Nat /\ MaxLines \in 0 .. MaxLines
    BY CacheAssumption
  <2>2. Walk[MaxLines] = NULL \/ (Walk[MaxLines] \in Metric /\ MaxLines < Walk[MaxLines])
    BY <2>1, WalkAdvances
  <2> QED
    BY <2>1, <2>2 DEF Metric
<1> QED
  BY <1>1, CacheInvariant, PTL
=============================================================================
