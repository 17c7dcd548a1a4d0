------------------------- MODULE MonitoringProofs -------------------------
(***************************************************************************)
(* Proofs about Monitoring, for every number of points, reports and        *)
(* seconds.                                                                *)
(***************************************************************************)
EXTENDS Monitoring, TLAPS

Counting == {"load", "store", "unlock"}       \* the writer's section
Reporting == {"report", "reset", "unlock"}    \* the monitoring thread's section

(* The mutex belongs to the thread that is in its section, unless it was    *)
(* initialised while the writer was.                                        *)
Owner ==
  ~raced => /\ mutex = "writer" <=> wr.pc \in Counting
            /\ mutex = "monitoring" <=> mon.pc \in Reporting

(* A point that is written and not yet in the counter leaves room for it.   *)
Room ==
  /\ wr.pc \in {"lock", "load", "store"} => points < counted
  /\ wr.pc = "store" => wr.tmp < counted

(* What the writer has loaded is still the counter's value.                 *)
Loaded == ~raced /\ wr.pc = "store" => wr.tmp = points

(* Before the monitoring thread has initialised the mutex nothing raced.    *)
Before == mon.pc = "init" => ~raced

IInv == TypeOK /\ Owner /\ Room /\ Loaded /\ Before /\ PointsReportedOnce

(* The invariant holds at the start.                                        *)
LEMMA InitIInv == Init => IInv
<1> SUFFICES ASSUME Init PROVE IInv
  OBVIOUS
<1>1. run \in BOOLEAN /\ raced \in BOOLEAN /\ ~raced
  BY Zenon DEF Init
<1>2. TypeOK
  <2>1. reports \in Seq(Nat)
    BY DEF Init
  <2> QED
    BY <1>1, <2>1, MonitoringAssumption DEF Init, TypeOK
<1>3. Owner /\ Room /\ Loaded /\ PointsReportedOnce
  BY DEF Init, Owner, Room, Loaded, PointsReportedOnce, Counting, Reporting
<1> QED
  BY <1>1, <1>2, <1>3 DEF IInv, Before

(* Seconds and what is left of one are natural numbers.                     *)
LEMMA ClockNat ==
  ASSUME now \in Nat
  PROVE  now \div Second \in Nat /\ TimeLeft \in Nat
  BY MonitoringAssumption, SMT DEF TimeLeft

(* Every step of the writer keeps it.                                       *)
LEMMA WriteIInv == IInv /\ Write => IInv'
<1> SUFFICES ASSUME IInv, Write PROVE IInv'
  OBVIOUS
<1> USE MonitoringAssumption
        DEF IInv, TypeOK, Owner, Room, Loaded, Before, PointsReportedOnce, Counting, Reporting,
            MoveW, OthersOfW
<1>1. CASE writer_exit
  BY <1>1 DEF writer_exit
<1>2. CASE whisper_write_point
  <2>1. TypeOK'
    <3>1. counted' \in 0 .. MaxWrites /\ points' \in 0 .. counted'
      BY <1>2 DEF whisper_write_point
    <3>2. wr' \in [pc : {"head", "lock", "load", "store", "unlock", "exited"}, tmp : Nat]
      BY <1>2 DEF whisper_write_point
    <3> QED
      BY <1>2, <3>1, <3>2 DEF whisper_write_point
  <2>2. Owner' /\ Before'
    BY <1>2 DEF whisper_write_point
  <2>3. Room' /\ Loaded'
    BY <1>2 DEF whisper_write_point
  <2>4. PointsReportedOnce'
    BY <1>2 DEF whisper_write_point
  <2> QED
    BY <2>1, <2>2, <2>3, <2>4
<1>3. CASE lock_points
  BY <1>3 DEF lock_points
<1>4. CASE load_points
  BY <1>4 DEF load_points
<1>5. CASE store_points
  <2>1. TypeOK'
    <3>1. wr' \in [pc : {"head", "lock", "load", "store", "unlock", "exited"}, tmp : Nat]
      BY <1>5 DEF store_points
    <3>2. points' \in 0 .. counted' /\ counted' \in 0 .. MaxWrites
      BY <1>5 DEF store_points
    <3> QED
      BY <1>5, <3>1, <3>2 DEF store_points
  <2>2. Owner' /\ Before'
    BY <1>5 DEF store_points
  <2>3. Room' /\ Loaded'
    BY <1>5 DEF store_points
  <2>4. PointsReportedOnce'
    <3>1. ~raced => mon.pc # "reset" /\ wr.tmp = points
      BY <1>5 DEF store_points
    <3>2. points' = wr.tmp + 1 /\ wr'.pc = "unlock" /\ UNCHANGED <<mon, raced, counted, reported>>
      BY <1>5 DEF store_points
    <3>3. wr.pc = "store"
      BY <1>5 DEF store_points
    <3> QED
      BY <3>1, <3>2, <3>3
  <2> QED
    BY <2>1, <2>2, <2>3, <2>4
<1>6. CASE unlock_points
  BY <1>6 DEF unlock_points
<1> QED
  BY <1>1, <1>2, <1>3, <1>4, <1>5, <1>6 DEF Write

(* Every step of the monitoring thread keeps it.                            *)
LEMMA MonitorIInv == IInv /\ Monitor => IInv'
<1> SUFFICES ASSUME IInv, Monitor PROVE IInv'
  OBVIOUS
<1>0. now \div Second \in Nat /\ TimeLeft \in Nat
  BY ClockNat DEF IInv, TypeOK
<1> USE MonitoringAssumption
        DEF IInv, TypeOK, Owner, Room, Loaded, Before, PointsReportedOnce, Counting, Reporting,
            MoveM, OthersOfM
<1>1. CASE mutex_init
  <2>1. CASE mutex = "writer"
    <3>1. raced' /\ raced' \in BOOLEAN
      BY <1>1, <2>1, Zenon DEF mutex_init
    <3> QED
      BY <1>1, <3>1 DEF mutex_init
  <2>2. CASE mutex # "writer"
    <3>1. ~raced' /\ raced' \in BOOLEAN
      BY <1>1, <2>2, Zenon DEF mutex_init
    <3> QED
      BY <1>1, <2>2, <3>1 DEF mutex_init
  <2> QED
    BY <2>1, <2>2
<1>2. CASE monitoring_head
  BY <1>0, <1>2 DEF monitoring_head
<1>3. CASE monitoring_lock
  BY <1>3 DEF monitoring_lock
<1>4. CASE update_monitoring_metric
  <2>1. TypeOK'
    <3>1. reports' \in Seq(Nat)
      BY <1>4 DEF update_monitoring_metric
    <3>2. reported' \in Nat
      BY <1>4 DEF update_monitoring_metric
    <3> QED
      BY <1>4, <3>1, <3>2 DEF update_monitoring_metric
  <2>2. Owner' /\ Before'
    BY <1>4 DEF update_monitoring_metric
  <2>3. Room' /\ Loaded'
    BY <1>4 DEF update_monitoring_metric
  <2>4. PointsReportedOnce'
    BY <1>4 DEF update_monitoring_metric
  <2> QED
    BY <2>1, <2>2, <2>3, <2>4
<1>5. CASE reset_points
  <2>1. TypeOK'
    <3>1. mon' \in [pc : {"init", "head", "lock", "report", "reset", "unlock", "clock", "sleep",
                         "asleep", "exited"},
                   began : Nat, wait : Nat]
      BY <1>5 DEF reset_points
    <3>2. points' \in 0 .. counted' /\ counted' \in 0 .. MaxWrites
      BY <1>5 DEF reset_points
    <3> QED
      BY <1>5, <3>1, <3>2 DEF reset_points
  <2>2. Owner' /\ Before'
    BY <1>5 DEF reset_points
  <2>3. Room' /\ Loaded'
    BY <1>5 DEF reset_points
  <2>4. PointsReportedOnce'
    BY <1>5 DEF reset_points
  <2> QED
    BY <2>1, <2>2, <2>3, <2>4
<1>6. CASE monitoring_unlock
  BY <1>6 DEF monitoring_unlock
<1>7. CASE read_clock
  BY <1>0, <1>7 DEF read_clock
<1>8. CASE monitoring_nanosleep
  <2>1. TypeOK'
    <3>1. now + mon.wait \in Nat
      OBVIOUS
    <3>2. CASE mon.wait >= Second
      BY <1>8, <3>2 DEF monitoring_nanosleep
    <3>3. CASE ~(mon.wait >= Second)
      BY <1>8, <3>1, <3>3 DEF monitoring_nanosleep
    <3> QED
      BY <3>2, <3>3
  <2>2. Owner' /\ Before'
    BY <1>8 DEF monitoring_nanosleep
  <2>3. Room' /\ Loaded'
    BY <1>8 DEF monitoring_nanosleep
  <2>4. PointsReportedOnce'
    BY <1>8 DEF monitoring_nanosleep
  <2> QED
    BY <2>1, <2>2, <2>3, <2>4
<1>9. CASE wake_up
  BY <1>9 DEF wake_up
<1> QED
  BY <1>1, <1>2, <1>3, <1>4, <1>5, <1>6, <1>7, <1>8, <1>9 DEF Monitor

(* Time, signals and stuttering keep it.                                    *)
LEMMA RestIInv == IInv /\ (tick \/ sigint \/ UNCHANGED vars) => IInv'
<1> SUFFICES ASSUME IInv, tick \/ sigint \/ UNCHANGED vars PROVE IInv'
  OBVIOUS
<1> USE DEF IInv, TypeOK, Owner, Room, Loaded, Before, PointsReportedOnce, Counting, Reporting
<1>1. CASE tick
  BY <1>1 DEF tick
<1>2. CASE sigint
  BY <1>2 DEF sigint
<1>3. CASE UNCHANGED vars
  BY <1>3 DEF vars
<1> QED
  BY <1>1, <1>2, <1>3

(* The invariant holds in every state.                                      *)
THEOREM IInvCorrect == Spec => []IInv
<1>1. IInv /\ [Next]_vars => IInv'
  BY WriteIInv, MonitorIInv, RestIInv DEF Next
<1> QED
  BY InitIInv, <1>1, PTL DEF Spec

(* The variables keep their types and the counter never runs ahead of the   *)
(* points written, even when the mutex was initialised too late.            *)
THEOREM TypeCorrect == Spec => []TypeOK
<1>1. IInv => TypeOK
  BY DEF IInv
<1> QED
  BY IInvCorrect, <1>1, PTL

(* Every point written is reported once, or still to be                     *)
(* (whisper_write_point against update_monitoring_metrics).                 *)
THEOREM PointsReportedOnceCorrect == Spec => []PointsReportedOnce
<1>1. IInv => PointsReportedOnce
  BY DEF IInv
<1> QED
  BY IInvCorrect, <1>1, PTL

-----------------------------------------------------------------------------
(* One report a second                                                      *)

SecondOf(t) == t \div Second

(* A report made in second r lies in the past, and the thread begins no     *)
(* other one in r unless r is one of the excepted seconds.                  *)
Settled(r) ==
  /\ r <= SecondOf(now)
  /\ r \notin onset =>
       /\ mon.pc = "head" => r < SecondOf(now)
       /\ mon.pc \in {"lock", "report"} => r < mon.began
       /\ mon.pc = "sleep" =>
            r < (IF mon.wait >= Second THEN SecondOf(now) ELSE SecondOf(now + mon.wait))
       /\ mon.pc = "asleep" => r < SecondOf(mon.wait)

AllSettled == \A i \in 1 .. Len(reports) : Settled(reports[i])

(* The round under way began in the present second or before.               *)
Began ==
  /\ mon.pc \in {"lock", "report"} => mon.began <= SecondOf(now)
  /\ mon.pc = "init" => reports = <<>>

RhythmInv == AllSettled /\ Began /\ OncePerSecond

(* Seconds follow the order of the ticks.                                   *)
LEMMA SecondMonotone ==
  ASSUME NEW a \in Nat, NEW b \in Nat, a <= b
  PROVE  SecondOf(a) \in Nat /\ SecondOf(a) <= SecondOf(b)
  BY MonitoringAssumption, SMT DEF SecondOf

(* What is left of a second leads to the next one, and is a whole second    *)
(* only at its start.                                                       *)
LEMMA SecondLeft ==
  ASSUME now \in Nat
  PROVE  /\ TimeLeft \in 1 .. Second
         /\ TimeLeft >= Second => now % Second = 0
         /\ SecondOf(now + TimeLeft) = SecondOf(now) + 1
  BY MonitoringAssumption, SMT DEF SecondOf, TimeLeft

(* A step that changes neither the reports nor the excepted seconds only    *)
(* has to keep each report settled.                                         *)
LEMMA RhythmStep ==
  ASSUME RhythmInv, reports' = reports, onset \subseteq onset', Began',
         \A i \in 1 .. Len(reports) : Settled(reports[i])'
  PROVE  RhythmInv'
  BY DEF RhythmInv, AllSettled, OncePerSecond

(* Steps of the monitoring thread keep the rhythm.                          *)
LEMMA MonitorRhythm == IInv /\ RhythmInv /\ Monitor => RhythmInv'
<1> SUFFICES ASSUME IInv, RhythmInv, Monitor PROVE RhythmInv'
  OBVIOUS
<1>0. /\ now \in Nat /\ mon.wait \in Nat /\ mon.began \in Nat
      /\ reports \in Seq(Nat)
      /\ mon \in [pc : {"init", "head", "lock", "report", "reset", "unlock", "clock", "sleep",
                        "asleep", "exited"},
                  began : Nat, wait : Nat]
  BY DEF IInv, TypeOK
<1>a. SecondOf(now) \in Nat /\ SecondOf(mon.wait) \in Nat
  BY <1>0, SecondMonotone
<1>b. \A i \in 1 .. Len(reports) : reports[i] \in Nat /\ Settled(reports[i])
  BY <1>0 DEF RhythmInv, AllSettled
<1>c. Began
  BY DEF RhythmInv
<1>1. CASE mutex_init
  <2>1. reports = <<>> /\ Len(reports) = 0
    BY <1>1, <1>c DEF mutex_init, Began
  <2>2. reports' = reports /\ mon'.pc = "head"
    BY <1>0, <1>1 DEF mutex_init, MoveM
  <2> QED
    BY <2>1, <2>2 DEF RhythmInv, AllSettled, Began, OncePerSecond
<1>2. CASE monitoring_head
  <2>1. reports' = reports /\ onset' = onset /\ now' = now
    BY <1>2 DEF monitoring_head, OthersOfM
  <2>2. \/ mon'.pc = "lock" /\ mon'.began = SecondOf(now)
        \/ mon'.pc = "exited"
    BY <1>0, <1>2 DEF monitoring_head, SecondOf
  <2>3. mon.pc = "head"
    BY <1>2 DEF monitoring_head
  <2>4. Began'
    BY <1>a, <2>1, <2>2 DEF Began
  <2>5. \A i \in 1 .. Len(reports) : Settled(reports[i])'
    BY <1>b, <2>1, <2>2, <2>3 DEF Settled
  <2> QED
    BY <2>1, <2>4, <2>5, RhythmStep
<1>3. CASE monitoring_lock
  <2>1. reports' = reports /\ onset' = onset /\ now' = now
    BY <1>3 DEF monitoring_lock, OthersOfM
  <2>2. mon.pc = "lock" /\ mon'.pc = "report" /\ mon'.began = mon.began
    BY <1>0, <1>3 DEF monitoring_lock, MoveM
  <2>3. Began'
    BY <1>c, <2>1, <2>2 DEF Began
  <2>4. \A i \in 1 .. Len(reports) : Settled(reports[i])'
    BY <1>b, <2>1, <2>2 DEF Settled
  <2> QED
    BY <2>1, <2>3, <2>4, RhythmStep
<1>4. CASE update_monitoring_metric
  <2>1. onset' = onset /\ now' = now /\ reports' = Append(reports, mon.began)
    BY <1>4 DEF update_monitoring_metric, OthersOfM
  <2>2. mon.pc = "report" /\ mon'.pc = "reset"
    BY <1>0, <1>4 DEF update_monitoring_metric, MoveM
  <2>3. /\ Len(reports') = Len(reports) + 1 /\ Len(reports) \in Nat
        /\ reports'[Len(reports) + 1] = mon.began
        /\ \A i \in 1 .. Len(reports) : reports'[i] = reports[i]
    BY <1>0, <2>1
  <2>4. Began'
    BY <2>2 DEF Began
  <2>5. AllSettled'
    <3> SUFFICES ASSUME NEW i \in 1 .. Len(reports') PROVE Settled(reports[i])'
      BY DEF AllSettled
    <3>1. reports'[i] <= SecondOf(now)
      BY <1>a, <1>b, <1>c, <2>2, <2>3 DEF Began, Settled
    <3> QED
      BY <2>1, <2>2, <3>1 DEF Settled
  <2>6. OncePerSecond'
    <3>1. \A i \in 1 .. Len(reports) : reports[i] \in onset \/ reports[i] < mon.began
      BY <1>b, <2>2 DEF Settled
    <3>2. OncePerSecond
      BY DEF RhythmInv
    <3> SUFFICES ASSUME NEW i \in 1 .. Len(reports'), NEW j \in 1 .. Len(reports'),
                        reports'[i] = reports'[j]
                 PROVE  i = j \/ reports'[i] \in onset
      BY <2>1 DEF OncePerSecond
    <3>3. CASE i \in 1 .. Len(reports) /\ j \in 1 .. Len(reports)
      BY <2>3, <3>2, <3>3 DEF OncePerSecond
    <3>4. CASE i = Len(reports) + 1 /\ j \in 1 .. Len(reports)
      BY <1>0, <1>b, <2>3, <3>1, <3>4
    <3>5. CASE j = Len(reports) + 1 /\ i \in 1 .. Len(reports)
      BY <1>0, <1>b, <2>3, <3>1, <3>5
    <3> QED
      BY <2>3, <3>3, <3>4, <3>5
  <2> QED
    BY <2>4, <2>5, <2>6 DEF RhythmInv
<1>5. CASE reset_points \/ monitoring_unlock
  <2>1. reports' = reports /\ onset' = onset /\ now' = now
    BY <1>5 DEF reset_points, monitoring_unlock, OthersOfM
  <2>2. mon'.pc \in {"unlock", "clock"}
    BY <1>0, <1>5 DEF reset_points, monitoring_unlock, MoveM
  <2>3. Began'
    BY <2>2 DEF Began
  <2>4. \A i \in 1 .. Len(reports) : Settled(reports[i])'
    BY <1>b, <2>1, <2>2 DEF Settled
  <2> QED
    BY <2>1, <2>3, <2>4, RhythmStep
<1>6. CASE read_clock
  <2>1. reports' = reports /\ now' = now
    BY <1>6 DEF read_clock, OthersOfM
  <2>2. onset \subseteq onset' /\ (now % Second = 0 => SecondOf(now) \in onset')
    BY <1>6 DEF read_clock, SecondOf
  <2>3. mon'.pc = "sleep" /\ mon'.wait = TimeLeft
    BY <1>0, <1>6 DEF read_clock
  <2>4. Began'
    BY <2>3 DEF Began
  <2>5. \A i \in 1 .. Len(reports) : Settled(reports[i])'
    <3> SUFFICES ASSUME NEW i \in 1 .. Len(reports) PROVE Settled(reports[i])'
      OBVIOUS
    <3>1. reports[i] \in Nat /\ reports[i] <= SecondOf(now)
      BY <1>b DEF Settled
    <3>2. CASE TimeLeft >= Second
      <4>1. reports[i] \notin onset' => reports[i] < SecondOf(now)
        BY <1>0, <1>a, <2>2, <3>1, <3>2, SecondLeft
      <4> QED
        BY <2>1, <2>3, <3>1, <3>2, <4>1 DEF Settled
    <3>3. CASE ~(TimeLeft >= Second)
      <4>1. reports[i] < SecondOf(now + TimeLeft)
        BY <1>0, <1>a, <3>1, SecondLeft
      <4> QED
        BY <2>1, <2>3, <3>1, <3>3, <4>1 DEF Settled
    <3> QED
      BY <3>2, <3>3
  <2> QED
    BY <2>1, <2>2, <2>4, <2>5, RhythmStep
<1>7. CASE monitoring_nanosleep
  <2>1. reports' = reports /\ onset' = onset /\ now' = now /\ mon.pc = "sleep"
    BY <1>7 DEF monitoring_nanosleep, OthersOfM
  <2>2. \/ mon.wait >= Second /\ mon'.pc = "head"
        \/ ~(mon.wait >= Second) /\ mon'.pc = "asleep" /\ mon'.wait = now + mon.wait
    BY <1>0, <1>7 DEF monitoring_nanosleep
  <2>3. Began'
    BY <2>2 DEF Began
  <2>4. \A i \in 1 .. Len(reports) : Settled(reports[i])'
    BY <1>b, <2>1, <2>2 DEF Settled
  <2> QED
    BY <2>1, <2>3, <2>4, RhythmStep
<1>8. CASE wake_up
  <2>1. reports' = reports /\ onset' = onset /\ now' = now
    BY <1>8 DEF wake_up, OthersOfM
  <2>2. mon.pc = "asleep" /\ mon.wait <= now /\ mon'.pc = "head"
    BY <1>0, <1>8 DEF wake_up
  <2>3. Began'
    BY <2>2 DEF Began
  <2>4. SecondOf(mon.wait) <= SecondOf(now)
    BY <1>0, <2>2, SecondMonotone
  <2>5. \A i \in 1 .. Len(reports) : Settled(reports[i])'
    BY <1>a, <1>b, <2>1, <2>2, <2>4 DEF Settled
  <2> QED
    BY <2>1, <2>3, <2>5, RhythmStep
<1> QED
  BY <1>1, <1>2, <1>3, <1>4, <1>5, <1>6, <1>7, <1>8 DEF Monitor

(* So does the passing of time.                                             *)
LEMMA TickRhythm == IInv /\ RhythmInv /\ tick => RhythmInv'
<1> SUFFICES ASSUME IInv, RhythmInv, tick PROVE RhythmInv'
  OBVIOUS
<1>1. now \in Nat /\ mon.wait \in Nat /\ mon.began \in Nat /\ reports \in Seq(Nat)
  BY DEF IInv, TypeOK
<1>2. now' = now + 1 /\ mon' = mon /\ reports' = reports /\ onset' = onset
  BY DEF tick
<1>3. /\ SecondOf(now) \in Nat /\ SecondOf(now') \in Nat /\ SecondOf(now) <= SecondOf(now')
      /\ SecondOf(now + mon.wait) \in Nat /\ SecondOf(now' + mon.wait) \in Nat
      /\ SecondOf(now + mon.wait) <= SecondOf(now' + mon.wait)
  <2>1. now' \in Nat /\ now <= now' /\ now + mon.wait \in Nat /\ now' + mon.wait \in Nat
        /\ now + mon.wait <= now' + mon.wait
    BY <1>1, <1>2
  <2>2. SecondOf(now) \in Nat /\ SecondOf(now) <= SecondOf(now')
    BY <1>1, <2>1, SecondMonotone
  <2>3. SecondOf(now + mon.wait) \in Nat /\ SecondOf(now + mon.wait) <= SecondOf(now' + mon.wait)
    BY <2>1, SecondMonotone
  <2>4. SecondOf(now') \in Nat /\ SecondOf(now' + mon.wait) \in Nat
    BY <2>1, SecondMonotone
  <2> QED
    BY <2>2, <2>3, <2>4
<1>4. Began'
  BY <1>1, <1>2, <1>3 DEF RhythmInv, Began
<1>5. \A i \in 1 .. Len(reports) : Settled(reports[i])'
  <2> SUFFICES ASSUME NEW i \in 1 .. Len(reports) PROVE Settled(reports[i])'
    OBVIOUS
  <2>1. reports[i] \in Nat /\ Settled(reports[i])
    BY <1>1 DEF RhythmInv, AllSettled
  <2> QED
    BY <1>2, <1>3, <2>1 DEF Settled
<1> QED
  BY <1>2, <1>4, <1>5, RhythmStep

(* Other steps leave what it speaks of alone.                               *)
LEMMA RestRhythm == RhythmInv /\ (Write \/ sigint \/ UNCHANGED vars) => RhythmInv'
<1> SUFFICES ASSUME RhythmInv, Write \/ sigint \/ UNCHANGED vars PROVE RhythmInv'
  OBVIOUS
<1>1. now' = now /\ mon' = mon /\ reports' = reports /\ onset' = onset
  BY DEF Write, writer_exit, whisper_write_point, lock_points, load_points, store_points,
         unlock_points, OthersOfW, sigint, vars
<1> QED
  BY <1>1 DEF RhythmInv, AllSettled, Settled, Began, OncePerSecond

(* The monitoring thread makes at most one report a second, except in a     *)
(* second at whose very start it read the clock: the wait that              *)
(* monitoring_worker() computes always leads into the next second.          *)
THEOREM OncePerSecondCorrect == Spec => []OncePerSecond
<1>1. Init => RhythmInv
  BY DEF Init, RhythmInv, AllSettled, Began, OncePerSecond
<1>2. IInv /\ RhythmInv /\ [Next]_vars => RhythmInv'
  BY MonitorRhythm, TickRhythm, RestRhythm DEF Next
<1>3. RhythmInv => OncePerSecond
  BY DEF RhythmInv
<1> QED
  BY IInvCorrect, <1>1, <1>2, <1>3, PTL DEF Spec
=============================================================================
