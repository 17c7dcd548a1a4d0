---------------------------- MODULE Monitoring -----------------------------
(***************************************************************************)
(* The counter of written points: the writer increments it in              *)
(* whisper_write_point(), the monitoring thread reports it once a second   *)
(* as the metric carbond.points and resets it.  Both do so under           *)
(* mutex_points.                                                           *)
(*                                                                         *)
(* The clock of clock_gettime() is assumed not to be stepped back.         *)
(***************************************************************************)
EXTENDS Integers, Sequences

CONSTANTS
  Second,       \* clock ticks in a second
  MaxWrites,    \* bound: points written
  MaxReports,   \* bound: reports begun with no point counted since the last
  MaxLag        \* bound: seconds by which the monitoring thread falls behind

ASSUME MonitoringAssumption ==
  /\ Second \in Nat /\ Second >= 2
  /\ MaxWrites \in Nat /\ MaxReports \in Nat /\ MaxLag \in Nat \ {0}

VARIABLES
  run,        \* conf->run
  now,        \* the clock, in ticks
  wr,         \* the writer: [pc, tmp]
  mon,        \* the monitoring thread: [pc, began, wait]
  mutex,      \* who has locked mutex_points, or "free"
  points,     \* monitoring->points
  counted,    \* history: points written
  reports,    \* history: seconds in which the reports were begun
  reported,   \* history: sum of the values reported
  raced,      \* history: mutex_points was initialised while the writer held it
  onset       \* history: seconds at whose very start clock_gettime() was called

vars == <<run, now, wr, mon, mutex, points, counted, reports, reported, raced, onset>>

Init ==
  /\ run = TRUE /\ now = 0
  /\ wr = [pc |-> "head", tmp |-> 0]
  /\ mon = [pc |-> "init", began |-> 0, wait |-> 0]
  /\ mutex = "free" /\ points = 0 /\ counted = 0
  /\ reports = <<>> /\ reported = 0 /\ raced = FALSE /\ onset = {}

-----------------------------------------------------------------------------
(* The environment: time and SIGINT                                         *)

tick ==
  /\ \/ now < Second * (Len(reports) + MaxLag)
     \/ mon.pc = "asleep" /\ now < mon.wait
  /\ now' = now + 1
  /\ UNCHANGED <<run, wr, mon, mutex, points, counted, reports, reported, raced, onset>>

sigint ==
  /\ run /\ run' = FALSE
  /\ UNCHANGED <<now, wr, mon, mutex, points, counted, reports, reported, raced, onset>>

-----------------------------------------------------------------------------
(* The writer                                                               *)

MoveW(pc) == wr' = [wr EXCEPT !.pc = pc]
OthersOfW == UNCHANGED <<run, now, mon, reports, reported, raced, onset>>

writer_exit ==
  /\ wr.pc = "head" /\ ~run
  /\ MoveW("exited")
  /\ OthersOfW /\ UNCHANGED <<mutex, points, counted>>

(* whisper_write_point(), once per archive: the point is in the file.       *)
whisper_write_point ==
  /\ wr.pc = "head" /\ counted < MaxWrites
  /\ counted' = counted + 1
  /\ MoveW("lock")
  /\ OthersOfW /\ UNCHANGED <<mutex, points>>

lock_points ==
  /\ wr.pc = "lock" /\ mutex = "free"
  /\ mutex' = "writer" /\ MoveW("load")
  /\ OthersOfW /\ UNCHANGED <<points, counted>>

(* monitoring->points++ is a load and a store.                              *)
load_points ==
  /\ wr.pc = "load"
  /\ wr' = [pc |-> "store", tmp |-> points]
  /\ OthersOfW /\ UNCHANGED <<mutex, points, counted>>

(* Mutant: the counter is incremented twice.                                *)
store_points_twice ==
  /\ wr.pc = "store"
  /\ points' = wr.tmp + 2
  /\ wr' = [pc |-> "unlock", tmp |-> 0]
  /\ OthersOfW /\ UNCHANGED <<mutex, counted>>

store_points ==
  /\ wr.pc = "store"
  /\ points' = wr.tmp + 1
  /\ wr' = [pc |-> "unlock", tmp |-> 0]
  /\ OthersOfW /\ UNCHANGED <<mutex, counted>>

unlock_points ==
  /\ wr.pc = "unlock"
  /\ mutex' = "free" /\ MoveW("head")
  /\ OthersOfW /\ UNCHANGED <<points, counted>>

-----------------------------------------------------------------------------
(* The monitoring thread                                                    *)

MoveM(pc) == mon' = [mon EXCEPT !.pc = pc]
OthersOfM == UNCHANGED <<run, now, wr, counted>>

(* pthread_mutex_init(), on a mutex that calloc() made usable before.       *)
mutex_init ==
  /\ mon.pc = "init"
  /\ mutex' = "free"
  /\ raced' = (mutex = "writer")
  /\ MoveM("head")
  /\ OthersOfM /\ UNCHANGED <<points, reports, reported, onset>>

(* The loop condition, and update_monitoring_metrics() up to time(NULL).    *)
(* The bound stops the reports of no point only.                            *)
monitoring_head ==
  /\ mon.pc = "head" /\ (run => Len(reports) < MaxReports \/ points > 0)
  /\ mon' = IF run THEN [mon EXCEPT !.pc = "lock", !.began = now \div Second]
                   ELSE [mon EXCEPT !.pc = "exited"]
  /\ OthersOfM /\ UNCHANGED <<mutex, points, reports, reported, raced, onset>>

monitoring_lock ==
  /\ mon.pc = "lock" /\ mutex = "free"
  /\ mutex' = "monitoring" /\ MoveM("report")
  /\ OthersOfM /\ UNCHANGED <<points, reports, reported, raced, onset>>

(* update_monitoring_metric("carbond.points", timestamp, points)            *)
update_monitoring_metric ==
  /\ mon.pc = "report"
  /\ reports' = Append(reports, mon.began) /\ reported' = reported + points
  /\ MoveM("reset")
  /\ OthersOfM /\ UNCHANGED <<mutex, points, raced, onset>>

(* Mutant: the mutex is unlocked before the counter is reset.               *)
reset_points_late ==
  /\ mon.pc = "reset"
  /\ \/ mutex = "monitoring" /\ mutex' = "free" /\ UNCHANGED <<points, mon>>
     \/ mutex # "monitoring" /\ points' = 0 /\ MoveM("clock") /\ UNCHANGED mutex
  /\ OthersOfM /\ UNCHANGED <<reports, reported, raced, onset>>

reset_points ==
  /\ mon.pc = "reset"
  /\ points' = 0 /\ MoveM("unlock")
  /\ OthersOfM /\ UNCHANGED <<mutex, reports, reported, raced, onset>>

(* Mutant: the mutex is not unlocked.                                       *)
monitoring_unlock_forgotten ==
  /\ mon.pc = "unlock"
  /\ MoveM("clock")
  /\ OthersOfM /\ UNCHANGED <<mutex, points, reports, reported, raced, onset>>

monitoring_unlock ==
  /\ mon.pc = "unlock"
  /\ mutex' = "free" /\ MoveM("clock")
  /\ OthersOfM /\ UNCHANGED <<points, reports, reported, raced, onset>>

(* Mutant: the wait is what has passed of the second, not what is left.     *)
TimeLeft_passed == now % Second

(* "wait until the end of current second"                                   *)
TimeLeft == Second - (now % Second)

read_clock ==
  /\ mon.pc = "clock"
  /\ mon' = [mon EXCEPT !.pc = "sleep", !.wait = TimeLeft]
  /\ onset' = IF now % Second = 0 THEN onset \cup {now \div Second} ELSE onset
  /\ OthersOfM /\ UNCHANGED <<mutex, points, reports, reported, raced>>

(* nanosleep() refuses a whole second of nanoseconds and returns at once;   *)
(* otherwise it returns when the time has passed.                           *)
monitoring_nanosleep ==
  /\ mon.pc = "sleep"
  /\ mon' = IF mon.wait >= Second THEN [mon EXCEPT !.pc = "head", !.wait = 0]
                                  ELSE [mon EXCEPT !.pc = "asleep", !.wait = now + mon.wait]
  /\ OthersOfM /\ UNCHANGED <<mutex, points, reports, reported, raced, onset>>

wake_up ==
  /\ mon.pc = "asleep" /\ now >= mon.wait
  /\ mon' = [mon EXCEPT !.pc = "head", !.wait = 0]
  /\ OthersOfM /\ UNCHANGED <<mutex, points, reports, reported, raced, onset>>

-----------------------------------------------------------------------------
Write ==
  \/ writer_exit \/ whisper_write_point \/ lock_points \/ load_points \/ store_points
  \/ unlock_points

Monitor ==
  \/ mutex_init \/ monitoring_head \/ monitoring_lock \/ update_monitoring_metric
  \/ reset_points \/ monitoring_unlock \/ read_clock \/ monitoring_nanosleep \/ wake_up

Next == Write \/ Monitor \/ tick \/ sigint

Spec == Init /\ [][Next]_vars

(***************************************************************************)
(* Both threads are scheduled and time passes; the writer gets the mutex   *)
(* in the end, which the monitoring thread holds for a moment of a second. *)
(***************************************************************************)
FairSpec ==
  /\ Spec
  /\ WF_vars(Write) /\ WF_vars(Monitor) /\ WF_vars(tick) /\ SF_vars(lock_points)

-----------------------------------------------------------------------------
(* Properties                                                               *)

(* Types of the variables; the counter never runs ahead of the points       *)
(* written.                                                                 *)
TypeOK ==
  /\ run \in BOOLEAN /\ raced \in BOOLEAN
  /\ now \in Nat
  /\ wr \in [pc : {"head", "lock", "load", "store", "unlock", "exited"}, tmp : Nat]
  /\ mon \in [pc : {"init", "head", "lock", "report", "reset", "unlock", "clock", "sleep",
                    "asleep", "exited"},
              began : Nat, wait : Nat]
  /\ mutex \in {"free", "writer", "monitoring"}
  /\ counted \in 0 .. MaxWrites /\ points \in 0 .. counted
  /\ reports \in Seq(Nat) /\ reported \in Nat
  /\ onset \subseteq Nat

(* Every point written is in exactly one value of carbond.points, or is     *)
(* still to be: none is lost or reported twice between                      *)
(* whisper_write_point() and update_monitoring_metrics(), unless the mutex  *)
(* was initialised under the writer's hands.                                *)
PointsReportedOnce ==
  ~raced =>
    counted = reported + (IF mon.pc = "reset" THEN 0 ELSE points)
                       + (IF wr.pc \in {"lock", "load", "store"} THEN 1 ELSE 0)

(* The monitoring thread makes at most one round in a second, except in a   *)
(* second at whose very start it read the clock (monitoring_worker).        *)
OncePerSecond ==
  \A i, j \in 1 .. Len(reports) :
    reports[i] = reports[j] => i = j \/ reports[i] \in onset

(* However many points were written, as many are reported in the end,       *)
(* unless the program is stopped or the mutex was initialised under the     *)
(* writer's hands: neither thread keeps mutex_points, and the monitoring    *)
(* thread always wakes up again (monitoring_worker,                         *)
(* update_monitoring_metrics).                                              *)
PointsGetReported ==
  \A n \in 1 .. MaxWrites : counted >= n ~> reported >= n \/ ~run \/ raced
=============================================================================
