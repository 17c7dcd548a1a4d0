---------------------------- MODULE MetricCache ----------------------------
(***************************************************************************)
(* The metrics cache: the global list of metrics, each with its list of    *)
(* points, that the receivers and the monitoring thread append to and the  *)
(* writer empties into the whisper files.                                  *)
(*                                                                         *)
(* The producers take no lock.  Each access to a shared field is a step of *)
(* its own, in program order; a field that is tested and then used is      *)
(* loaded once, as the optimised build does.  Metrics are never freed and  *)
(* are numbered as they are created.  Points are allocated and freed:      *)
(* calloc() returns any free address, and waits when Addr is used up.  A   *)
(* store to a freed point only changes that memory, since `next' lies past *)
(* what the allocator uses.  Locals are reset to NULL once they are dead.  *)
(***************************************************************************)
EXTENDS Integers, FiniteSets

CONSTANTS
  Producer,    \* udp receiver, tcp receiver, monitoring
  Name,        \* metric names
  Sends,       \* the names each producer may get
  Addr,        \* bound: addresses of points
  MaxLines,    \* bound: metric lines received
  DiskFails    \* whether whisper_write_value() may fail

NULL   == 0
Line   == 1 .. MaxLines           \* a line is also its own timestamp and value
Metric == 1 .. MaxLines           \* each line creates at most one metric

ASSUME CacheAssumption ==
  /\ MaxLines \in Nat /\ DiskFails \in BOOLEAN
  /\ Sends \in [Producer -> SUBSET Name]
  /\ IsFiniteSet(Addr) /\ NULL \notin Addr

VARIABLES
  lines,      \* lines received so far
  named,      \* the metric name of each
  first, last,                      \* db->first, db->last
  created, name, next,              \* metrics: how many, name, next
  points, mlast, nb_points, lock,   \* metrics: points, last, nb_points, lock
  heap,       \* addresses of points in use
  pline, pnext,                     \* points: the line stored, next
  prod,       \* each producer: pc and locals
  writer,     \* the writer: pc and locals
  disk        \* lines written, as <<name of the file, line>>

dbVars     == <<first, last, created, name, next>>
metricVars == <<points, mlast, nb_points, lock>>
pointVars  == <<heap, pline, pnext>>
vars == <<lines, named, dbVars, metricVars, pointVars, prod, writer, disk>>

ProducerPc == {"recv", "get", "first", "last", "calloc", "load", "link",
               "mlast", "nb_load", "nb_store"}
ProducerState ==
  [pc : ProducerPc, line : Line \cup {NULL}, cur : Metric \cup {NULL},
   m : Metric \cup {NULL}, pt : Addr \cup {NULL},
   tail : Metric \cup Addr \cup {NULL}, nb : 0 .. MaxLines]
IdleProducer == [pc |-> "recv", line |-> NULL, cur |-> NULL, m |-> NULL,
                 pt |-> NULL, tail |-> NULL, nb |-> 0]
WriterPc == {"find", "scan", "hop", "lock", "read", "write", "unlock"}
WriterState ==
  [pc : WriterPc, cur : Metric \cup {NULL}, max : Metric \cup {NULL}, nb : 0 .. MaxLines,
   pt : Addr \cup {NULL}, nx : Addr \cup {NULL}, step : 1 .. 3]
IdleWriter == [pc |-> "find", cur |-> NULL, max |-> NULL, nb |-> 0,
               pt |-> NULL, nx |-> NULL, step |-> 1]

Init ==
  /\ lines = 0 /\ named = [l \in Line |-> NULL]
  /\ first = NULL /\ last = NULL
  /\ created = 0
  /\ name = [m \in Metric |-> NULL] /\ next = [m \in Metric |-> NULL]
  /\ points = [m \in Metric |-> NULL] /\ mlast = [m \in Metric |-> NULL]
  /\ nb_points = [m \in Metric |-> 0] /\ lock = [m \in Metric |-> FALSE]
  /\ heap = {}
  /\ pline = [a \in Addr |-> NULL] /\ pnext = [a \in Addr |-> NULL]
  /\ prod = [p \in Producer |-> IdleProducer]
  /\ writer = IdleWriter
  /\ disk = {}

-----------------------------------------------------------------------------
(* The producers: process_metric_line() and update_monitoring_metric()      *)

AtP(p, pc) == prod[p].pc = pc

(* One line, and get_metric()'s load of db->first.                          *)
receive(p, n) ==
  /\ AtP(p, "recv") /\ lines < MaxLines
  /\ lines' = lines + 1
  /\ named' = [named EXCEPT ![lines + 1] = n]
  /\ prod' = [prod EXCEPT ![p] =
                [IdleProducer EXCEPT !.pc = "get", !.line = lines + 1, !.cur = first]]
  /\ UNCHANGED <<dbVars, metricVars, pointVars, writer, disk>>

(* Mutant: a metric that is found is added to the list again.               *)
get_metric_readd(p) ==
  /\ AtP(p, "get") /\ prod[p].cur # NULL
  /\ LET c == prod[p].cur IN
       prod' = [prod EXCEPT ![p] =
                  IF name[c] = named[@.line] THEN [@ EXCEPT !.pc = "first", !.m = c, !.tail = last]
                                             ELSE [@ EXCEPT !.cur = next[c]]]
  /\ UNCHANGED <<lines, named, dbVars, metricVars, pointVars, writer, disk>>

(* get_metric(): the metric looked at is the one, or the next is loaded.    *)
get_metric(p) ==
  /\ AtP(p, "get") /\ prod[p].cur # NULL
  /\ LET c == prod[p].cur IN
       prod' = [prod EXCEPT ![p] =
                  IF name[c] = named[@.line] THEN [@ EXCEPT !.pc = "calloc", !.m = c, !.cur = NULL]
                                             ELSE [@ EXCEPT !.cur = next[c]]]
  /\ UNCHANGED <<lines, named, dbVars, metricVars, pointVars, writer, disk>>

(* get_metric() has returned NULL: create_new_metric(), and the load of     *)
(* db->last in add_database_metric().                                       *)
create_new_metric(p) ==
  /\ AtP(p, "get") /\ prod[p].cur = NULL
  /\ created' = created + 1
  /\ name' = [name EXCEPT ![created + 1] = named[prod[p].line]]
  /\ prod' = [prod EXCEPT ![p].pc = "first", ![p].m = created + 1, ![p].tail = last]
  /\ UNCHANGED <<lines, named, first, last, next, metricVars, pointVars, writer, disk>>

(* db->first = new_metric, or db->last->next = new_metric                   *)
add_database_metric(p) ==
  /\ AtP(p, "first")
  /\ LET t == prod[p].tail IN
       IF t = NULL THEN first' = prod[p].m /\ UNCHANGED next
                   ELSE next' = [next EXCEPT ![t] = prod[p].m] /\ UNCHANGED first
  /\ prod' = [prod EXCEPT ![p].pc = "last"]
  /\ UNCHANGED <<lines, named, last, created, name, metricVars, pointVars, writer, disk>>

set_db_last(p) ==
  /\ AtP(p, "last")
  /\ last' = prod[p].m
  /\ prod' = [prod EXCEPT ![p].pc = "calloc", ![p].tail = NULL]
  /\ UNCHANGED <<lines, named, first, created, name, next, metricVars, pointVars,
                 writer, disk>>

create_new_metric_point(p) ==
  /\ AtP(p, "calloc")
  /\ \E a \in Addr \ heap :
       /\ heap' = heap \cup {a}
       /\ pline' = [pline EXCEPT ![a] = prod[p].line]
       /\ pnext' = [pnext EXCEPT ![a] = NULL]
       /\ prod' = [prod EXCEPT ![p].pc = "load", ![p].pt = a]
  /\ UNCHANGED <<lines, named, dbVars, metricVars, writer, disk>>

(* add_database_metric_point(): the load of m->last                         *)
load_metric_last(p) ==
  /\ AtP(p, "load")
  /\ prod' = [prod EXCEPT ![p].pc = "link", ![p].tail = mlast[prod[p].m]]
  /\ UNCHANGED <<lines, named, dbVars, metricVars, pointVars, writer, disk>>

(* m->points = new_point, or m->last->next = new_point, freed or not        *)
add_database_metric_point(p) ==
  /\ AtP(p, "link")
  /\ LET t == prod[p].tail IN
       IF t = NULL
         THEN points' = [points EXCEPT ![prod[p].m] = prod[p].pt] /\ UNCHANGED pnext
         ELSE pnext' = [pnext EXCEPT ![t] = prod[p].pt] /\ UNCHANGED points
  /\ prod' = [prod EXCEPT ![p].pc = "mlast", ![p].tail = NULL]
  /\ UNCHANGED <<lines, named, dbVars, mlast, nb_points, lock, heap, pline, writer, disk>>

set_metric_last(p) ==
  /\ AtP(p, "mlast")
  /\ mlast' = [mlast EXCEPT ![prod[p].m] = prod[p].pt]
  /\ prod' = [prod EXCEPT ![p].pc = "nb_load", ![p].pt = NULL]
  /\ UNCHANGED <<lines, named, dbVars, points, nb_points, lock, pointVars, writer, disk>>

(* m->nb_points += 1                                                        *)
load_nb_points(p) ==
  /\ AtP(p, "nb_load")
  /\ prod' = [prod EXCEPT ![p].pc = "nb_store", ![p].nb = nb_points[prod[p].m]]
  /\ UNCHANGED <<lines, named, dbVars, metricVars, pointVars, writer, disk>>

(* Mutant: the point is counted twice.                                      *)
store_nb_points_twice(p) ==
  /\ AtP(p, "nb_store")
  /\ nb_points' = [nb_points EXCEPT ![prod[p].m] = prod[p].nb + 2]
  /\ prod' = [prod EXCEPT ![p] = IdleProducer]
  /\ UNCHANGED <<lines, named, dbVars, points, mlast, lock, pointVars, writer, disk>>

store_nb_points(p) ==
  /\ AtP(p, "nb_store")
  /\ nb_points' = [nb_points EXCEPT ![prod[p].m] = prod[p].nb + 1]
  /\ prod' = [prod EXCEPT ![p] = IdleProducer]
  /\ UNCHANGED <<lines, named, dbVars, points, mlast, lock, pointVars, writer, disk>>

-----------------------------------------------------------------------------
(* The writer                                                               *)

AtW(pc) == writer.pc = pc
WriterOnly == UNCHANGED <<lines, named, dbVars, prod>>

(* find_largest_metric(): db->first, then nb_points and next of each metric *)
find_largest_metric ==
  /\ AtW("find")
  /\ writer' = [IdleWriter EXCEPT !.pc = "scan", !.cur = first]
  /\ WriterOnly /\ UNCHANGED <<metricVars, pointVars, disk>>

(* Mutant: a metric with one point is not worth writing.                    *)
compare_nb_points_many ==
  /\ AtW("scan") /\ writer.cur # NULL
  /\ LET n == nb_points[writer.cur] IN
       writer' = IF n > 1 /\ n > writer.nb
                   THEN [writer EXCEPT !.pc = "hop", !.max = writer.cur, !.nb = n]
                   ELSE [writer EXCEPT !.pc = "hop"]
  /\ WriterOnly /\ UNCHANGED <<metricVars, pointVars, disk>>

compare_nb_points ==
  /\ AtW("scan") /\ writer.cur # NULL
  /\ LET n == nb_points[writer.cur] IN
       writer' = IF n > writer.nb
                   THEN [writer EXCEPT !.pc = "hop", !.max = writer.cur, !.nb = n]
                   ELSE [writer EXCEPT !.pc = "hop"]
  /\ WriterOnly /\ UNCHANGED <<metricVars, pointVars, disk>>

next_metric ==
  /\ AtW("hop")
  /\ writer' = [writer EXCEPT !.pc = "scan", !.cur = next[writer.cur]]
  /\ WriterOnly /\ UNCHANGED <<metricVars, pointVars, disk>>

(* Nothing in cache: sleep and look again.                                  *)
empty_database ==
  /\ AtW("scan") /\ writer.cur = NULL /\ writer.max = NULL
  /\ writer' = IdleWriter
  /\ WriterOnly /\ UNCHANGED <<metricVars, pointVars, disk>>

(* write_metric(): m->points is loaded before the lock is taken.            *)
write_metric ==
  /\ AtW("scan") /\ writer.cur = NULL /\ writer.max # NULL
  /\ writer' = [writer EXCEPT !.pc = "lock", !.nb = 0, !.pt = points[writer.max]]
  /\ WriterOnly /\ UNCHANGED <<metricVars, pointVars, disk>>

lock_metric ==
  /\ AtW("lock") /\ ~lock[writer.max]
  /\ lock' = [lock EXCEPT ![writer.max] = TRUE]
  /\ writer' = [writer EXCEPT !.pc = "read"]
  /\ WriterOnly /\ UNCHANGED <<points, mlast, nb_points, pointVars, disk>>

read_next ==
  /\ AtW("read") /\ writer.pt # NULL
  /\ writer' = [writer EXCEPT !.pc = "write", !.nx = pnext[writer.pt]]
  /\ WriterOnly /\ UNCHANGED <<metricVars, pointVars, disk>>

(* whisper_write_value(), whose result is ignored, and free()               *)
write_and_free ==
  /\ AtW("write")
  /\ \/ disk' = disk \cup {<<name[writer.max], pline[writer.pt]>>}
     \/ DiskFails /\ UNCHANGED disk
  /\ heap' = heap \ {writer.pt}
  /\ writer' = [writer EXCEPT !.pc = "read", !.pt = writer.nx, !.nx = NULL]
  /\ WriterOnly /\ UNCHANGED <<metricVars, pline, pnext>>

(* Mutants: the list is not reset; the counter is reset last.               *)
ClearOrder_keep == <<"nb_points", "last", "none">>
ClearOrder_late == <<"points", "last", "nb_points">>

(* The order in which write_metric() resets the metric's fields             *)
ClearOrder == <<"nb_points", "points", "last">>

(* The loop is over: one of m->nb_points = 0, m->points = NULL, m->last = NULL *)
empty_metric ==
  /\ AtW("read") /\ writer.pt = NULL
  /\ LET m == writer.max
         f == ClearOrder[writer.step]
     IN  /\ nb_points' = IF f = "nb_points" THEN [nb_points EXCEPT ![m] = 0] ELSE nb_points
         /\ points' = IF f = "points" THEN [points EXCEPT ![m] = NULL] ELSE points
         /\ mlast' = IF f = "last" THEN [mlast EXCEPT ![m] = NULL] ELSE mlast
  /\ writer' = IF writer.step < 3 THEN [writer EXCEPT !.step = writer.step + 1]
                                  ELSE [writer EXCEPT !.pc = "unlock"]
  /\ WriterOnly /\ UNCHANGED <<lock, pointVars, disk>>

unlock_metric ==
  /\ AtW("unlock")
  /\ lock' = [lock EXCEPT ![writer.max] = FALSE]
  /\ writer' = IdleWriter
  /\ WriterOnly /\ UNCHANGED <<points, mlast, nb_points, pointVars, disk>>

-----------------------------------------------------------------------------
Produce(p) ==
  \/ get_metric(p) \/ create_new_metric(p) \/ add_database_metric(p) \/ set_db_last(p)
  \/ create_new_metric_point(p) \/ load_metric_last(p) \/ add_database_metric_point(p)
  \/ set_metric_last(p) \/ load_nb_points(p) \/ store_nb_points(p)

Write ==
  \/ find_largest_metric \/ compare_nb_points \/ next_metric \/ empty_database
  \/ write_metric \/ lock_metric \/ read_next \/ write_and_free
  \/ empty_metric \/ unlock_metric

Next ==
  \/ \E p \in Producer : Produce(p) \/ \E n \in Sends[p] : receive(p, n)
  \/ Write

Spec == Init /\ [][Next]_vars

(***************************************************************************)
(* Every thread is scheduled; lines need not arrive.                       *)
(***************************************************************************)
FairSpec == Spec /\ WF_vars(Write) /\ \A p \in Producer : WF_vars(Produce(p))

-----------------------------------------------------------------------------
(* Properties                                                               *)

(* The metrics a walk from db->first meets in at most MaxLines hops, and    *)
(* the points a walk from m->points meets.                                  *)
Walk[k \in 0 .. MaxLines] ==
  IF k = 0 THEN first ELSE IF Walk[k - 1] = NULL THEN NULL ELSE next[Walk[k - 1]]
Listed == {Walk[k] : k \in 0 .. MaxLines} \ {NULL}

(* the points a walk from address a meets                                   *)
ChainFrom(a) ==
  LET walk[k \in 0 .. Cardinality(Addr)] ==
        IF k = 0 THEN a ELSE IF walk[k - 1] = NULL THEN NULL ELSE pnext[walk[k - 1]]
  IN  {walk[k] : k \in 0 .. Cardinality(Addr)} \ {NULL}

(* Producer p is in the middle of adding its point.                         *)
Inserting(p) == prod[p].pc \in {"link", "mlast", "nb_load", "nb_store"}

(* Types of the variables.                                                  *)
TypeOK ==
  /\ lines \in 0 .. MaxLines /\ created \in 0 .. MaxLines
  /\ named \in [Line -> Name \cup {NULL}] /\ name \in [Metric -> Name \cup {NULL}]
  /\ {first, last} \subseteq Metric \cup {NULL}
  /\ next \in [Metric -> Metric \cup {NULL}]
  /\ points \in [Metric -> Addr \cup {NULL}] /\ mlast \in [Metric -> Addr \cup {NULL}]
  /\ nb_points \in [Metric -> 0 .. MaxLines] /\ lock \in [Metric -> BOOLEAN]
  /\ heap \subseteq Addr
  /\ pline \in [Addr -> Line \cup {NULL}] /\ pnext \in [Addr -> Addr \cup {NULL}]
  /\ prod \in [Producer -> ProducerState] /\ writer \in WriterState
  /\ disk \subseteq Name \X Line

(* The list of metrics has an end, however the additions interleave: the    *)
(* loops of get_metric() and find_largest_metric() terminate.               *)
MetricListEnds == Walk[MaxLines] = NULL

(* The writer never reads, writes out or frees a point that is already      *)
(* freed (write_metric), although producers append through freed points.    *)
WriterOnLivePoint == {writer.pt, writer.nx} \ {NULL} \subseteq heap

(* No line is written to disk twice: a point the writer is about to write   *)
(* has not been written before, in its own file or in another.              *)
WrittenOnce ==
  writer.pc = "write" => \A n \in Name : <<n, pline[writer.pt]>> \notin disk

(* Cached points are seen by the writer: a metric whose nb_points is 0 has  *)
(* no point, unless a producer or the writer is still busy with it.         *)
CountedIfCached ==
  \A m \in Metric : points[m] # NULL /\ nb_points[m] = 0 =>
    \/ \E p \in Producer : Inserting(p) /\ prod[p].m = m
    \/ writer.max = m /\ writer.pc = "read" /\ writer.step > 1

(* When lines stop arriving the cache gets empty: the writer, which takes   *)
(* the largest metric first and goes by nb_points alone, leaves no listed   *)
(* metric with points behind.                                               *)
CacheDrains ==
  (\E m \in Listed : points[m] # NULL) ~> (\A m \in Listed : points[m] = NULL)

(* A line whose point has been added is in the cache or on disk.            *)
NoPointLost ==
  \A l \in 1 .. lines :
    (\A p \in Producer : prod[p].line # l) =>
      \/ <<named[l], l>> \in disk
      \/ writer.pt # NULL /\ \E a \in ChainFrom(writer.pt) : pline[a] = l
      \/ \E m \in Metric : \E a \in ChainFrom(points[m]) : pline[a] = l

(* What is written in a metric's file was received for that metric.         *)
OwnFile == \A e \in disk : named[e[2]] = e[1]
=============================================================================
