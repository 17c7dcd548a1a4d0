--------------------------- MODULE CarbonThreads ---------------------------
(***************************************************************************)
(* The thread control of carbond: main() launching and joining the worker  *)
(* threads, the workers' common loop, and the two signal handlers, of      *)
(* which SIGHUP pauses every worker, replaces the runtime configuration    *)
(* and resumes the workers, and SIGINT asks the workers to stop.           *)
(*                                                                         *)
(* A worker holds its run_lock for as long as it is inside its loop and    *)
(* gives it up only inside pthread_cond_wait().  What it does with the     *)
(* configuration between two tests of conf->run is the state "body".       *)
(*                                                                         *)
(* Signals are delivered to the main thread, so a handler is a frame on    *)
(* top of whatever main() was doing; only the top frame takes steps.       *)
(***************************************************************************)
EXTENDS Integers

CONSTANTS
  N,             \* number of worker threads, numbered as threads_pause_all() visits them
  LaunchOrder,   \* the order in which main() launches them
  EarlyReaders,  \* workers that log (and so read conf) before they take run_lock
  MayFail,       \* workers whose pthread_create() may fail
  FatalFail,     \* workers whose launcher calls exit() when it does
  SaHup,         \* what the stack garbage in main()'s sa_hup may say
  SaInt,         \* what the stack garbage in main()'s sa_int may say
  MaxHup,        \* bound: SIGHUPs delivered
  MaxInt,        \* bound: SIGINTs delivered
  MaxNest,       \* bound: handler frames on main's stack
  MaxSpurious    \* bound: spurious wakeups of pthread_cond_wait()

Thread == 1 .. N
ConfId == 0 .. MaxHup            \* one configuration object per reload, 0 the first
Depth  == 0 .. MaxNest

(***************************************************************************)
(* sa_hup and sa_int are never cleared, so sa_mask and sa_flags hold       *)
(* whatever the stack held: SIGINT may or may not be blocked in the SIGHUP *)
(* handler, SA_NODEFER and SA_RESETHAND may or may not be set.             *)
(***************************************************************************)
SaHupRecord == [maskint : BOOLEAN, nodefer : BOOLEAN, resethand : BOOLEAN]
SaIntRecord == [resethand : BOOLEAN]

ASSUME ConstantsAssumption ==
  /\ N \in Nat \ {0}
  /\ MaxHup \in Nat
  /\ MaxInt \in Nat
  /\ MaxNest \in Nat \ {0}
  /\ MaxSpurious \in Nat
  /\ LaunchOrder \in [Thread -> Thread]
  /\ \A j, k \in Thread : LaunchOrder[j] = LaunchOrder[k] => j = k
  /\ SaHup \subseteq SaHupRecord
  /\ SaInt \subseteq SaIntRecord

VARIABLES
  status,      \* of the process
  mpc, mi,     \* where main() is, and the thread it is at
  frame,       \* main's signal handler frames; frame[depth] is running
  depth,       \* number of handler frames
  sa_hup, sa_int, hups, ints,   \* installed actions and signals delivered
  conf,        \* the global conf pointer
  live,        \* configuration objects allocated and not freed
  run,         \* their run member
  nalloc,      \* configuration objects allocated by reloads so far
  known,       \* threads->..._thread has been assigned
  wpc,         \* where each worker is
  run_lock,    \* owner of each worker's run_lock
  must_pause,  \* each worker's must_pause
  spurious     \* spurious wakeups so far

mainVars   == <<mpc, mi, known>>
sigVars    == <<sa_hup, sa_int, hups, ints>>
confVars   == <<conf, live, run, nalloc>>
workerVars == <<wpc, run_lock, must_pause, spurious>>
vars == <<status, mainVars, frame, depth, sigVars, confVars, workerVars>>

WorkerPc == {"unborn", "failed", "debug", "lock", "head", "check", "wait",
             "woken", "body", "exited"}
Looping  == {"head", "check", "body"}   \* inside the loop, reading conf
FramePc  == {"idle", "copy", "parse", "order", "wait_paused", "free",
             "install", "resume"}
Frame    == [pc : FramePc, i : Thread, new : ConfId]
IdleFrame == [pc |-> "idle", i |-> 1, new |-> 0]

Init ==
  /\ status = "running"
  /\ mpc = "create" /\ mi = 1
  /\ frame = [d \in 1 .. MaxNest |-> IdleFrame]
  /\ depth = 0
  /\ sa_hup \in SaHup /\ sa_int \in SaInt
  /\ hups = 0 /\ ints = 0
  /\ conf = 0 /\ live = {0} /\ nalloc = 0
  /\ run = [c \in ConfId |-> TRUE]
  /\ known = [t \in Thread |-> FALSE]
  /\ wpc = [t \in Thread |-> "unborn"]
  /\ run_lock = [t \in Thread |-> "none"]
  /\ must_pause = [t \in Thread |-> FALSE]
  /\ spurious = 0

-----------------------------------------------------------------------------
(* main()                                                                  *)

InMain(pc) == status = "running" /\ depth = 0 /\ mpc = pc

(* pthread_create() in the launcher; the thread may run before the launcher *)
(* returns and main() stores its pointer.                                   *)
launch_thread ==
  /\ InMain("create")
  /\ wpc' = [wpc EXCEPT ![LaunchOrder[mi]] =
                IF LaunchOrder[mi] \in EarlyReaders THEN "debug" ELSE "lock"]
  /\ mpc' = "publish"
  /\ UNCHANGED <<status, mi, known, frame, depth, sigVars, confVars,
                 run_lock, must_pause, spurious>>

(* pthread_create() fails: some launchers exit, the others only log.        *)
launch_thread_fails ==
  /\ InMain("create")
  /\ LaunchOrder[mi] \in MayFail
  /\ IF LaunchOrder[mi] \in FatalFail
       THEN status' = "exit" /\ UNCHANGED <<wpc, mpc>>
       ELSE /\ wpc' = [wpc EXCEPT ![LaunchOrder[mi]] = "failed"]
            /\ mpc' = "publish"
            /\ UNCHANGED status
  /\ UNCHANGED <<mi, known, frame, depth, sigVars, confVars,
                 run_lock, must_pause, spurious>>

(* threads->..._thread = launch_..._thread()                                *)
publish_thread ==
  /\ InMain("publish")
  /\ known' = [known EXCEPT ![LaunchOrder[mi]] = TRUE]
  /\ IF mi < N THEN mpc' = "create" /\ mi' = mi + 1
               ELSE mpc' = "join"   /\ mi' = 1
  /\ UNCHANGED <<status, frame, depth, sigVars, confVars, workerVars>>

(* threads_wait_all_stopped(): pthread_join() of one thread after another;  *)
(* joining a thread that was never created crashes.                         *)
thread_wait_stopped ==
  /\ InMain("join")
  /\ \/ /\ wpc[mi] = "exited"
        /\ IF mi < N THEN mi' = mi + 1 /\ UNCHANGED mpc
                     ELSE mpc' = "stopped" /\ UNCHANGED mi
        /\ UNCHANGED status
     \/ /\ wpc[mi] = "failed"
        /\ status' = "segv"
        /\ UNCHANGED <<mpc, mi>>
  /\ UNCHANGED <<known, frame, depth, sigVars, confVars, workerVars>>

(* free(conf), then return EXIT_SUCCESS                                     *)
main_free_conf ==
  /\ InMain("stopped")
  /\ live' = live \ {conf}
  /\ mpc' = "return"
  /\ UNCHANGED <<status, mi, known, frame, depth, sigVars, conf, run, nalloc,
                 workerVars>>

main_return ==
  /\ InMain("return")
  /\ status' = "exit"
  /\ UNCHANGED <<mainVars, frame, depth, sigVars, confVars, workerVars>>

-----------------------------------------------------------------------------
(* Signals.  A blocked signal stays pending and is delivered later, which   *)
(* is a later delivery here.                                                *)

sighup_handler ==
  /\ status = "running" /\ hups < MaxHup
  /\ depth = 0 \/ (sa_hup.nodefer /\ depth < MaxNest)
  /\ hups' = hups + 1
  /\ IF sa_hup.resethand /\ hups > 0
       THEN status' = "killed" /\ UNCHANGED <<frame, depth>>
       ELSE /\ depth' = depth + 1
            /\ frame' = [frame EXCEPT ![depth + 1] =
                           [pc |-> "copy", i |-> 1, new |-> 0]]
            /\ UNCHANGED status
  /\ UNCHANGED <<mainVars, sa_hup, sa_int, ints, confVars, workerVars>>

(* conf->run = false, whatever conf points to at that moment.  The handler  *)
(* is one step: no SIGHUP comes between its two statements.                 *)
sigint_handler ==
  /\ status = "running" /\ ints < MaxInt
  /\ depth = 0 \/ ~sa_hup.maskint
  /\ ints' = ints + 1
  /\ IF sa_int.resethand /\ ints > 0
       THEN status' = "killed" /\ UNCHANGED run
       ELSE run' = [run EXCEPT ![conf] = FALSE] /\ UNCHANGED status
  /\ UNCHANGED <<mainVars, frame, depth, sa_hup, sa_int, hups,
                 conf, live, nalloc, workerVars>>

-----------------------------------------------------------------------------
(* conf_reload(), run by the SIGHUP handler                                 *)

Top       == frame[depth]
InTop(pc) == status = "running" /\ depth > 0 /\ Top.pc = pc
SetTop(f) == frame' = [frame EXCEPT ![depth] = f] /\ UNCHANGED depth
GoTo(pc)  == SetTop([Top EXCEPT !.pc = pc])
LeaveHandler ==
  /\ frame' = [frame EXCEPT ![depth] = IdleFrame]
  /\ depth' = depth - 1

(* Mutant: the pass goes one thread too far.                                *)
NextThread_past(phase) ==
  SetTop(IF Top.i <= N THEN [Top EXCEPT !.i = Top.i + 1]
                       ELSE [Top EXCEPT !.pc = phase, !.i = 1])

(* One pass over the threads: the next one, or the next phase at the first. *)
NextThread(phase) ==
  SetTop(IF Top.i < N THEN [Top EXCEPT !.i = Top.i + 1]
                      ELSE [Top EXCEPT !.pc = phase, !.i = 1])

(* new_conf = calloc(); conf_copy(conf, new_conf).  The copy takes run with *)
(* it; when conf has been freed it reads whatever is there.                 *)
conf_copy ==
  /\ InTop("copy")
  /\ nalloc < MaxHup
  /\ nalloc' = nalloc + 1
  /\ live' = live \cup {nalloc + 1}
  /\ \E r \in (IF conf \in live THEN {run[conf]} ELSE BOOLEAN) :
        run' = [run EXCEPT ![nalloc + 1] = r]
  /\ SetTop([Top EXCEPT !.pc = "parse", !.new = nalloc + 1])
  /\ UNCHANGED <<status, mainVars, sigVars, conf, workerVars>>

(* conf_parse(new_conf): on error the old configuration stays (the new one  *)
(* is not freed), else the threads are paused.                              *)
conf_parse ==
  /\ InTop("parse")
  /\ LeaveHandler \/ GoTo("order")
  /\ UNCHANGED <<status, mainVars, sigVars, confVars, workerVars>>

(* thread->must_pause = true; a thread main() has not launched yet is a     *)
(* NULL pointer.                                                            *)
thread_order_pause ==
  /\ InTop("order")
  /\ IF known[Top.i]
       THEN /\ must_pause' = [must_pause EXCEPT ![Top.i] = TRUE]
            /\ NextThread("wait_paused")
            /\ UNCHANGED status
       ELSE status' = "segv" /\ UNCHANGED <<must_pause, frame, depth>>
  /\ UNCHANGED <<mainVars, sigVars, confVars, wpc, run_lock, spurious>>

(* Mutant: the last thread is not waited for.                               *)
thread_wait_paused_short ==
  /\ InTop("wait_paused")
  /\ IF Top.i < N
       THEN run_lock[Top.i] = "none" /\ run_lock' = [run_lock EXCEPT ![Top.i] = "main"]
       ELSE UNCHANGED run_lock
  /\ NextThread("free")
  /\ UNCHANGED <<status, mainVars, sigVars, confVars, wpc, must_pause, spurious>>

(* Mutant: pthread_mutex_trylock() whose result nobody looks at.            *)
thread_wait_paused_try ==
  /\ InTop("wait_paused")
  /\ run_lock' = [run_lock EXCEPT ![Top.i] = IF @ = "none" THEN "main" ELSE @]
  /\ NextThread("free")
  /\ UNCHANGED <<status, mainVars, sigVars, confVars, wpc, must_pause, spurious>>

(* pthread_mutex_lock(&thread->run_lock)                                    *)
thread_wait_paused ==
  /\ InTop("wait_paused")
  /\ run_lock[Top.i] = "none"
  /\ run_lock' = [run_lock EXCEPT ![Top.i] = "main"]
  /\ NextThread("free")
  /\ UNCHANGED <<status, mainVars, sigVars, confVars, wpc, must_pause, spurious>>

conf_free ==
  /\ InTop("free")
  /\ live' = live \ {conf}
  /\ GoTo("install")
  /\ UNCHANGED <<status, mainVars, sigVars, conf, run, nalloc, workerVars>>

(* Mutant: the assignment of the new configuration is forgotten.            *)
conf_install_forgotten ==
  /\ InTop("install")
  /\ GoTo("resume")
  /\ UNCHANGED <<status, mainVars, sigVars, confVars, workerVars>>

(* conf = new_conf                                                          *)
conf_install ==
  /\ InTop("install")
  /\ conf' = Top.new
  /\ GoTo("resume")
  /\ UNCHANGED <<status, mainVars, sigVars, live, run, nalloc, workerVars>>

(* Mutant: the pause order is not taken back.                               *)
Resume_ordered(signalled) ==
  /\ InTop("resume")
  /\ wpc' = IF signalled /\ wpc[Top.i] = "wait" THEN [wpc EXCEPT ![Top.i] = "woken"] ELSE wpc
  /\ run_lock' = [run_lock EXCEPT ![Top.i] = "none"]
  /\ IF Top.i < N THEN NextThread("resume") ELSE LeaveHandler
  /\ UNCHANGED <<status, mainVars, sigVars, confVars, must_pause, spurious>>

(* must_pause = false, pthread_cond_signal(), pthread_mutex_unlock(): the   *)
(* worker looks at none of these while main holds its run_lock.             *)
Resume(signalled) ==
  /\ InTop("resume")
  /\ must_pause' = [must_pause EXCEPT ![Top.i] = FALSE]
  /\ wpc' = IF signalled /\ wpc[Top.i] = "wait" THEN [wpc EXCEPT ![Top.i] = "woken"] ELSE wpc
  /\ run_lock' = [run_lock EXCEPT ![Top.i] = "none"]
  /\ IF Top.i < N THEN NextThread("resume") ELSE LeaveHandler
  /\ UNCHANGED <<status, mainVars, sigVars, confVars, spurious>>

(* Mutant: pthread_cond_signal() is forgotten.                              *)
thread_resume_silent == Resume(FALSE)

thread_resume == Resume(TRUE)

-----------------------------------------------------------------------------
(* The worker threads                                                       *)

At(t, pc) == status = "running" /\ wpc[t] = pc
Move(t, pc) == wpc' = [wpc EXCEPT ![t] = pc]

(* writer_thread() logs before it takes its run_lock.                       *)
early_debug(t) ==
  /\ At(t, "debug")
  /\ Move(t, "lock")
  /\ UNCHANGED <<status, mainVars, frame, depth, sigVars, confVars,
                 run_lock, must_pause, spurious>>

thread_run_lock(t) ==
  /\ At(t, "lock")
  /\ run_lock[t] = "none"
  /\ run_lock' = [run_lock EXCEPT ![t] = "worker"]
  /\ Move(t, "head")
  /\ UNCHANGED <<status, mainVars, frame, depth, sigVars, confVars,
                 must_pause, spurious>>

(* Mutant: the loop does not test conf->run.                                *)
loop_head_forever(t) ==
  /\ At(t, "head")
  /\ Move(t, "check")
  /\ UNCHANGED <<status, mainVars, frame, depth, sigVars, confVars,
                 run_lock, must_pause, spurious>>

(* The loop condition.  A worker that leaves its loop returns from its      *)
(* start routine with run_lock still locked.                                *)
loop_head(t) ==
  /\ At(t, "head")
  /\ Move(t, IF run[conf] THEN "check" ELSE "exited")
  /\ UNCHANGED <<status, mainVars, frame, depth, sigVars, confVars,
                 run_lock, must_pause, spurious>>

(* Mutant: the worker does not look at must_pause.                          *)
pause_ignored(t) ==
  /\ At(t, "check")
  /\ Move(t, "body")
  /\ UNCHANGED <<status, mainVars, frame, depth, sigVars, confVars,
                 run_lock, must_pause, spurious>>

(* if (thread_must_pause(me)) pthread_cond_wait(can_run, run_lock)          *)
thread_pause_and_wait_run_signal(t) ==
  /\ At(t, "check")
  /\ IF must_pause[t]
       THEN Move(t, "wait") /\ run_lock' = [run_lock EXCEPT ![t] = "none"]
       ELSE Move(t, "body") /\ UNCHANGED run_lock
  /\ UNCHANGED <<status, mainVars, frame, depth, sigVars, confVars,
                 must_pause, spurious>>

(* POSIX lets pthread_cond_wait() return without a signal.                  *)
spurious_wakeup(t) ==
  /\ At(t, "wait")
  /\ spurious < MaxSpurious
  /\ spurious' = spurious + 1
  /\ Move(t, "woken")
  /\ UNCHANGED <<status, mainVars, frame, depth, sigVars, confVars,
                 run_lock, must_pause>>

(* A woken worker owns run_lock again before pthread_cond_wait() returns,   *)
(* and goes on to its work without looking at must_pause again.             *)
wait_returns(t) ==
  /\ At(t, "woken")
  /\ run_lock[t] = "none"
  /\ run_lock' = [run_lock EXCEPT ![t] = "worker"]
  /\ Move(t, "body")
  /\ UNCHANGED <<status, mainVars, frame, depth, sigVars, confVars,
                 must_pause, spurious>>

(* One round of receiving, writing or monitoring.                           *)
loop_body(t) ==
  /\ At(t, "body")
  /\ Move(t, "head")
  /\ UNCHANGED <<status, mainVars, frame, depth, sigVars, confVars,
                 run_lock, must_pause, spurious>>

Worker(t) ==
  \/ early_debug(t) \/ thread_run_lock(t) \/ loop_head(t)
  \/ thread_pause_and_wait_run_signal(t) \/ wait_returns(t) \/ loop_body(t)

Main ==
  \/ launch_thread \/ publish_thread \/ thread_wait_stopped
  \/ main_free_conf \/ main_return

Handler ==
  \/ conf_copy \/ conf_parse \/ thread_order_pause \/ thread_wait_paused
  \/ conf_free \/ conf_install \/ thread_resume

Next ==
  \/ Main \/ launch_thread_fails \/ Handler
  \/ sighup_handler \/ sigint_handler
  \/ \E t \in Thread : Worker(t) \/ spurious_wakeup(t)

Spec == Init /\ [][Next]_vars

(***************************************************************************)
(* Every thread is scheduled, and main() runs on once it can.  Each round  *)
(* of a worker ends: the receivers' sockets time out after half a second,  *)
(* the writer and the monitoring thread do a bounded amount of work and    *)
(* sleep at most a second.  Signals, failures and spurious wakeups need    *)
(* not happen.                                                             *)
(***************************************************************************)
Fairness == WF_vars(Main) /\ WF_vars(Handler) /\ \A t \in Thread : WF_vars(Worker(t))

FairSpec == Spec /\ Fairness

-----------------------------------------------------------------------------
(* Properties                                                               *)

(* Types of the variables.                                                  *)
TypeOK ==
  /\ status \in {"running", "exit", "killed", "segv"}
  /\ mpc \in {"create", "publish", "join", "stopped", "return"}
  /\ mi \in Thread
  /\ frame \in [1 .. MaxNest -> Frame]
  /\ depth \in Depth
  /\ sa_hup \in SaHupRecord /\ sa_int \in SaIntRecord
  /\ hups \in 0 .. MaxHup /\ ints \in 0 .. MaxInt
  /\ conf \in ConfId /\ live \in SUBSET ConfId
  /\ run \in [ConfId -> BOOLEAN] /\ nalloc \in 0 .. MaxHup
  /\ known \in [Thread -> BOOLEAN]
  /\ wpc \in [Thread -> WorkerPc]
  /\ run_lock \in [Thread -> {"none", "worker", "main"}]
  /\ must_pause \in [Thread -> BOOLEAN]
  /\ spurious \in 0 .. MaxSpurious

(* A worker inside its loop never sees a freed configuration: conf_reload() *)
(* frees and replaces conf only while every worker that has entered its     *)
(* loop is parked in pthread_cond_wait() (conf_reload, main.c).             *)
ConfSafe == \A t \in Thread : wpc[t] \in Looping => conf \in live

(* conf_free() and the final free(conf) are never given an object that has  *)
(* already been freed, and what conf_reload() installs is allocated.        *)
FreedOnce ==
  /\ \A d \in 1 .. depth : /\ frame[d].pc = "free" => conf \in live
                           /\ frame[d].pc = "install" => frame[d].new \in live
  /\ mpc = "stopped" /\ depth = 0 => conf \in live

(* A reload that is over leaves no worker ordered to pause and no run_lock  *)
(* with the main thread, whatever the handler was interrupted by            *)
(* (threads_pause_all against threads_resume_all).                          *)
ReloadLeavesNothing ==
  depth = 0 => \A t \in Thread : ~must_pause[t] /\ run_lock[t] # "main"

(* A reload always ends, unless the process is gone: the workers come to    *)
(* their pause points and no wakeup of theirs is missed (threads_pause_all, *)
(* "Returns once all threads are paused").  Not so when SIGINT arrives too: *)
(* a worker that leaves its loop keeps its run_lock, and the handler waits  *)
(* for it for ever.                                                         *)
ReloadCompletes == depth > 0 ~> (depth = 0 \/ ints > 0 \/ status # "running")

(* A paused worker goes back to work (thread_resume wakes every thread that *)
(* threads_pause_all put to sleep), unless SIGINT arrives too.              *)
WorkersResume ==
  \A t \in Thread : wpc[t] = "wait" ~> (wpc[t] = "body" \/ ints > 0 \/ status # "running")

(* A delivered SIGINT ends the program, unless SIGHUP arrives too: every    *)
(* worker leaves its loop, main() joins them all and returns                *)
(* (sigint_handler).                                                        *)
StopCompletes == ~run[conf] ~> (hups > 0 \/ status # "running")

(* A stop request is final: conf->run never becomes true again.             *)
StopIsFinal == [][~run[conf] => ~run'[conf']]_vars

-----------------------------------------------------------------------------
(* The inductive invariant behind ConfSafe, FreedOnce and                   *)
(* ReloadLeavesNothing.                                                     *)

(* The run_locks and the pause orders a handler frame accounts for.         *)
Holds(f, t) ==
  \/ f.pc = "wait_paused" /\ t < f.i
  \/ f.pc \in {"free", "install"}
  \/ f.pc = "resume" /\ t >= f.i
Ordered(f, t) == Holds(f, t) \/ f.pc = "wait_paused" \/ (f.pc = "order" /\ t < f.i)

Frames == 1 .. depth

(* A worker owns its run_lock exactly while it is in its loop or has left it. *)
WorkerLock ==
  \A t \in Thread : run_lock[t] = "worker" <=> wpc[t] \in Looping \cup {"exited"}

(* The main thread owns exactly the run_locks its frames account for, and   *)
(* no two frames account for the same one.                                  *)
MainLock ==
  \A t \in Thread : run_lock[t] = "main" <=> \E d \in Frames : Holds(frame[d], t)
Exclusive ==
  \A t \in Thread : \A d, e \in Frames :
    Holds(frame[d], t) /\ Holds(frame[e], t) => d = e

(* A worker is ordered to pause only on account of a frame.                 *)
Pausing == \A t \in Thread : must_pause[t] => \E d \in Frames : Ordered(frame[d], t)

(* conf dangles only between conf_free() and the assignment that follows,   *)
(* or when main() is about to return.                                       *)
Dangling ==
  conf \in live \/ mpc = "return" \/ \E d \in Frames : frame[d].pc = "install"

(* main() has joined the threads it has gone past.                          *)
Joined ==
  /\ mpc = "join" => \A t \in Thread : t < mi => wpc[t] = "exited"
  /\ mpc \in {"stopped", "return"} => \A t \in Thread : wpc[t] = "exited"

(* A thread main() has yet to launch does not run.                          *)
Unlaunched ==
  \A k \in Thread :
    (mpc = "create" /\ k >= mi) \/ (mpc = "publish" /\ k > mi)
      => wpc[LaunchOrder[k]] = "unborn"

(* Each pass of a handler frame over the threads starts at the first.       *)
AtFirst == \A d \in Frames : frame[d].pc \in {"free", "install"} => frame[d].i = 1

(* A configuration being loaded is allocated, is not the current one and    *)
(* belongs to one frame.                                                    *)
Loading(f) == f.pc \in {"parse", "order", "wait_paused", "free", "install"}
Fresh ==
  /\ conf <= nalloc /\ \A c \in live : c <= nalloc
  /\ \A d \in Frames : Loading(frame[d]) =>
       /\ frame[d].new \in live /\ frame[d].new # conf
       /\ \A e \in Frames : Loading(frame[e]) /\ frame[e].new = frame[d].new => e = d

(* All of the above: the invariant every step preserves.                    *)
IInv ==
  /\ TypeOK /\ WorkerLock /\ MainLock /\ Exclusive /\ Pausing
  /\ Dangling /\ Joined /\ Unlaunched /\ AtFirst /\ Fresh
=============================================================================
