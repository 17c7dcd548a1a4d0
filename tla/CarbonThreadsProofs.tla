------------------------ MODULE CarbonThreadsProofs ------------------------
(***************************************************************************)
(* Proofs about CarbonThreads, for any number of threads, any launch       *)
(* order, any content of the sigaction structures and any bounds.          *)
(***************************************************************************)
EXTENDS CarbonThreads, TLAPS

USE DEF Thread, ConfId, Depth

(* What most steps need of the constants.  The range of LaunchOrder is kept *)
(* apart: it is cited only where main() launches a thread.                  *)
LEMMA Constants ==
  /\ N \in Nat /\ N >= 1
  /\ MaxHup \in Nat /\ MaxInt \in Nat /\ MaxSpurious \in Nat
  /\ MaxNest \in Nat /\ MaxNest >= 1
BY ConstantsAssumption DEF ConstantsAssumption

(* The thread main() is about to launch or publish is one of the workers.   *)
LEMMA Launched == TypeOK => LaunchOrder[mi] \in Thread
BY ConstantsAssumption DEF ConstantsAssumption, TypeOK

-----------------------------------------------------------------------------
(* What the operations on the handler frames do to them.                    *)

(* The running handler frame is a frame, at one of the nesting levels.      *)
LEMMA TopFrame ==
  ASSUME TypeOK, depth > 0
  PROVE  /\ depth \in 1 .. MaxNest
         /\ Top \in Frame
         /\ Top.i \in Thread
BY Constants DEF TypeOK, Top, Frame

(* SetTop replaces the running frame and no other.                          *)
LEMMA SetTopFrame ==
  ASSUME TypeOK, depth > 0, NEW f \in Frame, SetTop(f)
  PROVE  /\ depth' = depth
         /\ frame'[depth] = f
         /\ \A d \in 1 .. MaxNest : d # depth => frame'[d] = frame[d]
         /\ frame' \in [1 .. MaxNest -> Frame]
BY Constants DEF TypeOK, SetTop

(* GoTo moves the running frame to another phase of conf_reload() and keeps *)
(* its thread and its new configuration.                                    *)
LEMMA GoToFrame ==
  ASSUME TypeOK, depth > 0, NEW pc \in FramePc, GoTo(pc)
  PROVE  /\ depth' = depth
         /\ frame'[depth].pc = pc
         /\ frame'[depth].i = Top.i
         /\ frame'[depth].new = Top.new
         /\ \A d \in 1 .. MaxNest : d # depth => frame'[d] = frame[d]
         /\ frame' \in [1 .. MaxNest -> Frame]
<1> DEFINE f == [Top EXCEPT !.pc = pc]
<1>1. f \in Frame /\ f.pc = pc /\ f.i = Top.i /\ f.new = Top.new
    BY TopFrame DEF Frame
<1>2. SetTop(f)
    BY DEF GoTo
<1> HIDE DEF f
<1> QED
    BY <1>1, <1>2, SetTopFrame

(* NextThread goes on to the next thread, or to the next phase at thread 1: *)
(* the bounds of the passes in threads_pause_all() and threads_resume_all(). *)
LEMMA NextThreadFrame ==
  ASSUME TypeOK, depth > 0, NEW pc \in FramePc, NextThread(pc)
  PROVE  /\ depth' = depth
         /\ \/ /\ Top.i < N
               /\ frame'[depth].pc = Top.pc
               /\ frame'[depth].i = Top.i + 1
            \/ /\ Top.i = N
               /\ frame'[depth].pc = pc
               /\ frame'[depth].i = 1
         /\ frame'[depth].new = Top.new
         /\ \A d \in 1 .. MaxNest : d # depth => frame'[d] = frame[d]
         /\ frame' \in [1 .. MaxNest -> Frame]
<1> DEFINE f == IF Top.i < N THEN [Top EXCEPT !.i = Top.i + 1]
                             ELSE [Top EXCEPT !.pc = pc, !.i = 1]
<1>1. SetTop(f)
    BY DEF NextThread
<1>2. CASE Top.i < N
  <2>1. Top.i + 1 \in Thread
      BY <1>2, Constants, TopFrame
  <2>2. f \in Frame /\ f.pc = Top.pc /\ f.i = Top.i + 1 /\ f.new = Top.new
      BY <1>2, <2>1, TopFrame DEF Frame
  <2> HIDE DEF f
  <2> QED
      BY <1>1, <1>2, <2>2, SetTopFrame
<1>3. CASE ~(Top.i < N)
  <2>1. Top.i = N /\ 1 \in Thread
      BY <1>3, Constants, TopFrame
  <2>2. f \in Frame /\ f.pc = pc /\ f.i = 1 /\ f.new = Top.new
      BY <1>3, <2>1, TopFrame DEF Frame
  <2> HIDE DEF f
  <2> QED
      BY <1>1, <2>1, <2>2, SetTopFrame
<1> QED
    BY <1>2, <1>3

(* Returning from the handler clears its frame and no other.                *)
LEMMA LeaveFrame ==
  ASSUME TypeOK, depth > 0, LeaveHandler
  PROVE  /\ depth' = depth - 1 /\ depth' \in Depth
         /\ \A d \in 1 .. MaxNest : d # depth => frame'[d] = frame[d]
         /\ frame' \in [1 .. MaxNest -> Frame]
<1>1. IdleFrame \in Frame
    BY Constants DEF IdleFrame, Frame, FramePc
<1> QED
    BY <1>1, Constants DEF TypeOK, LeaveHandler

(* Delivering SIGHUP adds one frame, at the start of conf_reload().         *)
LEMMA PushFrame ==
  ASSUME TypeOK, sighup_handler
  PROVE  /\ frame' \in [1 .. MaxNest -> Frame]
         /\ \A d \in 1 .. depth : frame'[d] = frame[d]
         /\ \/ status' = "killed" /\ depth' = depth /\ frame' = frame
            \/ /\ depth' = depth + 1 /\ depth' \in Depth
               /\ frame'[depth'].pc = "copy"
               /\ UNCHANGED status
         /\ hups' \in 0 .. MaxHup
<1> DEFINE f == [pc |-> "copy", i |-> 1, new |-> 0]
<1>1. f \in Frame /\ f.pc = "copy"
    BY Constants DEF Frame, FramePc
<1>2. \/ status' = "killed" /\ UNCHANGED <<frame, depth>>
      \/ depth' = depth + 1 /\ frame' = [frame EXCEPT ![depth + 1] = f] /\ UNCHANGED status
    BY DEF sighup_handler
<1>3. depth + 1 \in 1 .. MaxNest
    BY Constants DEF TypeOK, sighup_handler
<1>4. hups' \in 0 .. MaxHup
    BY Constants DEF TypeOK, sighup_handler
<1>5. frame \in [1 .. MaxNest -> Frame] /\ depth \in Depth
    BY DEF TypeOK
<1> HIDE DEF f
<1>6. CASE UNCHANGED <<frame, depth>>
    BY <1>2, <1>4, <1>5, <1>6
<1>7. CASE frame' = [frame EXCEPT ![depth + 1] = f] /\ depth' = depth + 1
  <2>1. frame' \in [1 .. MaxNest -> Frame] /\ frame'[depth'] = f
      BY <1>1, <1>3, <1>5, <1>7
  <2>2. \A d \in 1 .. depth : frame'[d] = frame[d]
      BY <1>3, <1>5, <1>7, Constants
  <2> QED
      BY <1>1, <1>2, <1>3, <1>4, <1>5, <1>7, <2>1, <2>2, Constants
<1> QED
    BY <1>2, <1>6, <1>7

-----------------------------------------------------------------------------
(* Type correctness is inductive on its own.                                *)

(* The variables have their types when main() starts to launch threads.     *)
LEMMA TypeInit == Init => TypeOK
BY ConstantsAssumption
DEF ConstantsAssumption, Init, TypeOK, IdleFrame, Frame, FramePc, WorkerPc

(* Every step of main(), of a handler or of a worker keeps the types.       *)
LEMMA TypeNext == TypeOK /\ [Next]_vars => TypeOK'
<1> SUFFICES ASSUME TypeOK, [Next]_vars PROVE TypeOK'
    OBVIOUS
<1> USE Constants
<1> USE DEF mainVars, sigVars, confVars, workerVars
<1>0. LaunchOrder[mi] \in Thread
    BY Launched
<1>1. CASE launch_thread
    BY <1>0, <1>1 DEF TypeOK, launch_thread, WorkerPc
<1>2. CASE launch_thread_fails
    BY <1>0, <1>2 DEF TypeOK, launch_thread_fails, WorkerPc
<1>3. CASE publish_thread
    BY <1>0, <1>3 DEF TypeOK, publish_thread
<1>4. CASE thread_wait_stopped
    BY <1>4 DEF TypeOK, thread_wait_stopped
<1>5. CASE main_free_conf
    BY <1>5 DEF TypeOK, main_free_conf
<1>6. CASE main_return
    BY <1>6 DEF TypeOK, main_return
<1>7. CASE sighup_handler
    BY <1>7, PushFrame DEF TypeOK, sighup_handler
<1>8. CASE sigint_handler
  <2>1. run' \in [ConfId -> BOOLEAN]
      BY <1>8 DEF TypeOK, sigint_handler
  <2>2. ints' \in 0 .. MaxInt
      BY <1>8 DEF TypeOK, sigint_handler
  <2> QED
      BY <1>8, <2>1, <2>2 DEF TypeOK, sigint_handler
<1>9. CASE conf_copy
  <2> DEFINE f == [Top EXCEPT !.pc = "parse", !.new = nalloc + 1]
  <2>1. nalloc + 1 \in ConfId /\ nalloc' = nalloc + 1
      BY <1>9 DEF TypeOK, conf_copy
  <2>2. f \in Frame
      BY <1>9, <2>1, TopFrame DEF conf_copy, InTop, Frame, FramePc
  <2>3. SetTop(f) /\ depth > 0
      BY <1>9 DEF conf_copy, InTop
  <2>4. run' \in [ConfId -> BOOLEAN]
      BY <1>9, <2>1 DEF TypeOK, conf_copy
  <2>5. live' \in SUBSET ConfId
      BY <1>9, <2>1 DEF TypeOK, conf_copy
  <2> HIDE DEF f
  <2> QED
      BY <1>9, <2>1, <2>2, <2>3, <2>4, <2>5, SetTopFrame DEF TypeOK, conf_copy
<1>10. CASE conf_parse
  <2>1. CASE GoTo("order")
      BY <1>10, <2>1, GoToFrame DEF TypeOK, conf_parse, InTop, FramePc
  <2>2. CASE LeaveHandler
      BY <1>10, <2>2, LeaveFrame DEF TypeOK, conf_parse, InTop
  <2> QED
      BY <1>10, <2>1, <2>2 DEF conf_parse
<1>11. CASE thread_order_pause
  <2>1. CASE status' = "segv"
      BY <1>11, <2>1 DEF TypeOK, thread_order_pause, InTop
  <2>2. CASE NextThread("wait_paused")
      BY <1>11, <2>2, NextThreadFrame DEF TypeOK, thread_order_pause, InTop, FramePc
  <2> QED
      BY <1>11, <2>1, <2>2 DEF thread_order_pause
<1>12. CASE thread_wait_paused
    BY <1>12, NextThreadFrame DEF TypeOK, thread_wait_paused, InTop, FramePc
<1>13. CASE conf_free
    BY <1>13, GoToFrame DEF TypeOK, conf_free, InTop, FramePc
<1>14. CASE conf_install
    BY <1>14, TopFrame, GoToFrame DEF TypeOK, conf_install, InTop, FramePc, Frame
<1>15. CASE thread_resume
  <2>1. depth > 0 /\ wpc' \in [Thread -> WorkerPc] /\ run_lock' \in [Thread -> {"none", "worker", "main"}]
                  /\ must_pause' \in [Thread -> BOOLEAN]
      BY <1>15 DEF TypeOK, thread_resume, Resume, InTop, WorkerPc
  <2>2. CASE NextThread("resume")
      BY <1>15, <2>1, <2>2, NextThreadFrame DEF TypeOK, thread_resume, Resume, FramePc
  <2>3. CASE LeaveHandler
      BY <1>15, <2>1, <2>3, LeaveFrame DEF TypeOK, thread_resume, Resume
  <2> QED
      BY <1>15, <2>2, <2>3 DEF thread_resume, Resume
<1>16. ASSUME NEW t \in Thread, Worker(t) PROVE TypeOK'
    BY <1>16 DEF TypeOK, Worker, early_debug, thread_run_lock, loop_head,
       thread_pause_and_wait_run_signal, wait_returns, loop_body, Move, WorkerPc
<1>17. ASSUME NEW t \in Thread, spurious_wakeup(t) PROVE TypeOK'
    BY <1>17 DEF TypeOK, spurious_wakeup, Move, WorkerPc
<1>18. CASE UNCHANGED vars
    BY <1>18 DEF TypeOK, vars
<1> QED
    BY <1>1, <1>2, <1>3, <1>4, <1>5, <1>6, <1>7, <1>8, <1>9, <1>10, <1>11,
       <1>12, <1>13, <1>14, <1>15, <1>16, <1>17, <1>18
    DEF Next, Main, Handler

(* Every variable of the thread control keeps its type, for every value of  *)
(* the constants.                                                           *)
THEOREM TypeCorrect == Spec => []TypeOK
<1>1. Init => TypeOK
    BY TypeInit
<1>2. TypeOK /\ [Next]_vars => TypeOK'
    BY TypeNext
<1> QED
    BY <1>1, <1>2, PTL DEF Spec

-----------------------------------------------------------------------------
(* The inductive invariant.                                                 *)

(* It holds when main() starts to launch the threads: no frame, no lock.    *)
LEMMA IInvInit == Init => IInv
<1> SUFFICES ASSUME Init PROVE IInv
    OBVIOUS
<1>1. TypeOK
    BY TypeInit
<1>2. Frames = {}
    BY DEF Init, Frames
<1>3. WorkerLock /\ MainLock /\ Exclusive /\ Pausing
    BY <1>2 DEF Init, WorkerLock, MainLock, Exclusive, Pausing, Looping
<1>4. Dangling /\ Joined /\ AtFirst /\ Fresh
    BY <1>2 DEF Init, Dangling, Joined, AtFirst, Fresh
<1>5. Unlaunched
    BY ConstantsAssumption DEF ConstantsAssumption, Init, Unlaunched
<1> QED
    BY <1>1, <1>3, <1>4, <1>5 DEF IInv

(* What a frame accounts for depends on its pc and i alone, so steps that   *)
(* leave the frames alone keep the parts about frames when they keep the    *)
(* locks the main thread has.                                               *)
LEMMA FramesKept ==
  ASSUME IInv, TypeOK', UNCHANGED <<frame, depth>>
  PROVE  /\ Exclusive' /\ AtFirst'
         /\ UNCHANGED must_pause => Pausing'
         /\ (\A t \in Thread : run_lock'[t] = "main" <=> run_lock[t] = "main") => MainLock'
         /\ UNCHANGED <<conf, live, nalloc>> => Fresh'
         /\ UNCHANGED <<conf, live, mpc>> => Dangling'
<1> USE DEF Frames
<1>1. Exclusive' /\ AtFirst'
    BY DEF IInv, Exclusive, AtFirst, Holds
<1>2. UNCHANGED must_pause => Pausing'
    BY DEF IInv, Pausing, Ordered, Holds
<1>3. (\A t \in Thread : run_lock'[t] = "main" <=> run_lock[t] = "main") => MainLock'
    BY DEF IInv, MainLock, Holds
<1>4. UNCHANGED <<conf, live, nalloc>> => Fresh'
    BY DEF IInv, Fresh, Loading
<1>5. UNCHANGED <<conf, live, mpc>> => Dangling'
    BY DEF IInv, Dangling
<1> QED
    BY <1>1, <1>2, <1>3, <1>4, <1>5

(* Main thread steps outside the handlers.                                  *)
LEMMA IInvMain ==
  ASSUME IInv, TypeOK', Main \/ launch_thread_fails
  PROVE  IInv'
<1> USE Constants
<1> USE DEF mainVars, sigVars, confVars, workerVars
<1>1. CASE launch_thread \/ launch_thread_fails
  <2>1. LaunchOrder[mi] \in Thread /\ mi \in Thread
      BY Launched DEF IInv, TypeOK
  <2>2. /\ UNCHANGED <<frame, depth, must_pause, run_lock, conf, live, nalloc, mi>>
        /\ mpc = "create" /\ mpc' \in {"create", "publish"}
        /\ \/ wpc' = wpc /\ mpc' = mpc
           \/ /\ mpc' = "publish"
              /\ \E pc \in {"debug", "lock", "failed"} :
                    wpc' = [wpc EXCEPT ![LaunchOrder[mi]] = pc]
      BY <1>1 DEF launch_thread, launch_thread_fails, InMain
  <2>3. wpc[LaunchOrder[mi]] = "unborn"
      BY <2>1, <2>2 DEF IInv, Unlaunched
  <2>4. WorkerLock'
      BY <2>1, <2>2, <2>3 DEF IInv, TypeOK, WorkerLock, Looping
  <2>5. Unlaunched'
    <3> SUFFICES ASSUME NEW k \in Thread,
                        (mpc' = "create" /\ k >= mi) \/ (mpc' = "publish" /\ k > mi)
                 PROVE  wpc'[LaunchOrder[k]] = "unborn"
        BY <2>2 DEF Unlaunched
    <3>1. wpc[LaunchOrder[k]] = "unborn" /\ LaunchOrder[k] \in Thread
        BY <2>1, <2>2, ConstantsAssumption DEF IInv, Unlaunched, ConstantsAssumption
    <3>2. CASE wpc' = wpc
        BY <3>1, <3>2
    <3>3. CASE wpc' # wpc
      <4>1. k # mi
          BY <2>1, <2>2, <3>3
      <4>2. LaunchOrder[k] # LaunchOrder[mi]
          BY <2>1, <4>1, ConstantsAssumption DEF ConstantsAssumption
      <4> QED
          BY <2>2, <3>1, <3>3, <4>2 DEF IInv, TypeOK
    <3> QED
        BY <3>2, <3>3
  <2>6. Joined' /\ Dangling'
      BY <2>2 DEF IInv, Joined, Dangling, Frames
  <2>7. MainLock' /\ Exclusive' /\ Pausing' /\ AtFirst' /\ Fresh'
      BY <2>2, FramesKept
  <2> QED
      BY <2>4, <2>5, <2>6, <2>7 DEF IInv
<1>2. CASE publish_thread
  <2>1. /\ UNCHANGED <<frame, depth, must_pause, run_lock, conf, live, nalloc, wpc>>
        /\ mpc = "publish"
        /\ \/ mi < N /\ mpc' = "create" /\ mi' = mi + 1
           \/ mpc' = "join" /\ mi' = 1
      BY <1>2 DEF publish_thread, InMain
  <2>2. Unlaunched' /\ Joined'
      BY <2>1 DEF IInv, TypeOK, Unlaunched, Joined
  <2>3. WorkerLock' /\ Dangling'
      BY <2>1 DEF IInv, WorkerLock, Dangling, Frames
  <2>4. MainLock' /\ Exclusive' /\ Pausing' /\ AtFirst' /\ Fresh'
      BY <2>1, FramesKept
  <2> QED
      BY <2>2, <2>3, <2>4 DEF IInv
<1>3. CASE thread_wait_stopped
  <2>1. /\ UNCHANGED <<frame, depth, must_pause, run_lock, conf, live, nalloc, wpc>>
        /\ mpc = "join"
        /\ \/ wpc[mi] = "exited" /\ mi < N /\ mpc' = mpc /\ mi' = mi + 1
           \/ wpc[mi] = "exited" /\ ~(mi < N) /\ mpc' = "stopped" /\ mi' = mi
           \/ mpc' = mpc /\ mi' = mi
      BY <1>3 DEF thread_wait_stopped, InMain
  <2>2. Joined'
      BY <2>1 DEF IInv, TypeOK, Joined
  <2>3. WorkerLock' /\ Dangling' /\ Unlaunched'
      BY <2>1 DEF IInv, WorkerLock, Dangling, Frames, Unlaunched
  <2>4. MainLock' /\ Exclusive' /\ Pausing' /\ AtFirst' /\ Fresh'
      BY <2>1, FramesKept
  <2> QED
      BY <2>2, <2>3, <2>4 DEF IInv
<1>4. CASE main_free_conf
  <2>1. /\ UNCHANGED <<frame, depth, must_pause, run_lock, conf, nalloc, wpc, mi>>
        /\ depth = 0 /\ mpc = "stopped" /\ mpc' = "return" /\ live' = live \ {conf}
      BY <1>4 DEF main_free_conf, InMain
  <2>2. Joined' /\ Unlaunched' /\ Dangling' /\ WorkerLock'
      BY <2>1 DEF IInv, Joined, Unlaunched, Dangling, WorkerLock
  <2>3. Fresh'
      BY <2>1 DEF IInv, Fresh, Frames
  <2>4. MainLock' /\ Exclusive' /\ Pausing' /\ AtFirst'
      BY <2>1, FramesKept
  <2> QED
      BY <2>2, <2>3, <2>4 DEF IInv
<1>5. CASE main_return
  <2>1. UNCHANGED <<frame, depth, must_pause, run_lock, conf, live, nalloc, wpc, mi, mpc>>
      BY <1>5 DEF main_return
  <2>2. Joined' /\ Unlaunched' /\ WorkerLock'
      BY <2>1 DEF IInv, Joined, Unlaunched, WorkerLock
  <2> QED
      BY <2>1, <2>2, FramesKept DEF IInv
<1> QED
    BY <1>1, <1>2, <1>3, <1>4, <1>5 DEF Main

(* A signal that is delivered adds a frame that accounts for nothing yet.   *)
LEMMA IInvSignal ==
  ASSUME IInv, TypeOK', sighup_handler \/ sigint_handler
  PROVE  IInv'
<1> USE Constants
<1> USE DEF mainVars, sigVars, confVars, workerVars
<1>1. UNCHANGED <<must_pause, run_lock, conf, live, nalloc, wpc, mi, mpc>>
    BY DEF sighup_handler, sigint_handler
<1>2. Joined' /\ Unlaunched' /\ WorkerLock'
    BY <1>1 DEF IInv, Joined, Unlaunched, WorkerLock
<1>3. CASE UNCHANGED <<frame, depth>>
    BY <1>1, <1>2, <1>3, FramesKept DEF IInv
<1>4. CASE ~UNCHANGED <<frame, depth>>
  <2>a. sighup_handler
      BY <1>4 DEF sigint_handler
  <2>b. TypeOK /\ depth \in Nat
      BY DEF IInv, TypeOK
  <2>1. /\ \A d \in 1 .. depth : frame'[d] = frame[d]
        /\ depth' = depth + 1 /\ depth \in Nat
        /\ frame'[depth'].pc = "copy"
      BY <1>4, <2>a, <2>b, PushFrame
  <2>2. /\ \A d \in Frames' : \/ d \in Frames /\ frame'[d] = frame[d]
                              \/ d = depth' /\ frame'[d].pc = "copy"
        /\ \A d \in Frames : d \in Frames'
      BY <2>1 DEF Frames
  <2>3. ASSUME NEW t \in Thread, NEW d \in Frames'
        PROVE  /\ Holds(frame'[d], t) => d \in Frames /\ Holds(frame[d], t)
               /\ Loading(frame'[d]) => d \in Frames /\ frame'[d] = frame[d]
      BY <2>2 DEF Holds, Loading
  <2>4. Exclusive'
      BY <2>3 DEF IInv, Exclusive
  <2>5. MainLock'
      BY <1>1, <2>1, <2>2, <2>3 DEF IInv, MainLock, Frames
  <2>6. Pausing'
    <3> SUFFICES ASSUME NEW t \in Thread, must_pause[t]
                 PROVE  \E d \in Frames' : Ordered(frame'[d], t)
        BY <1>1 DEF Pausing
    <3>1. PICK d \in Frames : Ordered(frame[d], t)
        BY DEF IInv, Pausing
    <3> QED
        BY <2>1, <2>2, <3>1 DEF Frames
  <2>7. Dangling' /\ AtFirst'
      BY <1>1, <2>1, <2>2 DEF IInv, Dangling, AtFirst, Frames
  <2>8. Fresh'
      BY <1>1, <2>3 DEF IInv, Fresh
  <2> QED
      BY <1>2, <2>4, <2>5, <2>6, <2>7, <2>8 DEF IInv
<1> QED
    BY <1>3, <1>4

(* A worker's step: it takes a free run_lock, or gives its own up.          *)
LEMMA IInvWorker ==
  ASSUME IInv, TypeOK', NEW t \in Thread, Worker(t) \/ spurious_wakeup(t)
  PROVE  IInv'
<1> USE DEF mainVars, sigVars, confVars, workerVars
<1>1. /\ UNCHANGED <<frame, depth, must_pause, conf, live, nalloc, mi, mpc>>
      /\ \A u \in Thread : u # t => wpc'[u] = wpc[u] /\ run_lock'[u] = run_lock[u]
      /\ wpc[t] \notin {"unborn", "exited"}
      /\ \/ run_lock'[t] = run_lock[t]
            /\ (wpc'[t] \in Looping \cup {"exited"} <=> wpc[t] \in Looping \cup {"exited"})
         \/ run_lock[t] = "none" /\ run_lock'[t] = "worker" /\ wpc'[t] \in Looping
         \/ wpc[t] = "check" /\ run_lock'[t] = "none" /\ wpc'[t] = "wait"
    BY DEF IInv, TypeOK, Worker, early_debug, thread_run_lock, loop_head,
       thread_pause_and_wait_run_signal, wait_returns, loop_body, spurious_wakeup,
       At, Move, Looping
<1>2. WorkerLock'
    BY <1>1 DEF IInv, WorkerLock, Looping
<1>3. \A u \in Thread : run_lock'[u] = "main" <=> run_lock[u] = "main"
    BY <1>1 DEF IInv, WorkerLock, Looping
<1>4. Joined'
    BY <1>1 DEF IInv, Joined
<1>5. Unlaunched'
  <2> SUFFICES ASSUME NEW k \in Thread, wpc[LaunchOrder[k]] = "unborn"
               PROVE  wpc'[LaunchOrder[k]] = "unborn"
      BY <1>1 DEF IInv, Unlaunched
  <2>1. LaunchOrder[k] \in Thread
      BY ConstantsAssumption DEF ConstantsAssumption
  <2> QED
      BY <1>1, <2>1
<1> QED
    BY <1>1, <1>2, <1>3, <1>4, <1>5, FramesKept DEF IInv

(* A step of the running handler frame that keeps the number of frames, the *)
(* frames below it, and what the workers, main() and the locks are at.      *)
LEMMA TopStep ==
  ASSUME IInv, TypeOK', depth > 0, depth' = depth,
         \A d \in 1 .. MaxNest : d # depth => frame'[d] = frame[d]
  PROVE  /\ depth \in Frames /\ Frames' = Frames
         /\ \A d \in Frames : d = depth \/ frame'[d] = frame[d]
         /\ UNCHANGED <<wpc, mpc, mi>> => Joined' /\ Unlaunched'
         /\ UNCHANGED <<wpc, run_lock>> => WorkerLock'
<1> USE Constants
<1>1. depth \in Frames /\ Frames' = Frames /\ Frames \subseteq 1 .. MaxNest
    BY DEF IInv, TypeOK, Frames
<1>2. UNCHANGED <<wpc, mpc, mi>> => Joined' /\ Unlaunched'
    BY DEF IInv, Joined, Unlaunched
<1>3. UNCHANGED <<wpc, run_lock>> => WorkerLock'
    BY DEF IInv, WorkerLock
<1> QED
    BY <1>1, <1>2, <1>3

(* Steps of the running frame that neither take nor give back a run_lock or *)
(* a pause order.                                                           *)
LEMMA SameAccount ==
  ASSUME IInv, TypeOK', depth > 0, depth' = depth,
         \A d \in 1 .. MaxNest : d # depth => frame'[d] = frame[d],
         \A t \in Thread : /\ Holds(frame'[depth], t) <=> Holds(Top, t)
                           /\ Ordered(Top, t) => Ordered(frame'[depth], t),
         UNCHANGED <<run_lock, must_pause>>
  PROVE  MainLock' /\ Exclusive' /\ Pausing'
<1>1. /\ Frames' = Frames /\ depth \in Frames
      /\ \A d \in Frames : d = depth \/ frame'[d] = frame[d]
    BY TopStep
<1>2. ASSUME NEW d \in Frames, NEW t \in Thread
      PROVE  /\ Holds(frame'[d], t) <=> Holds(frame[d], t)
             /\ Ordered(frame[d], t) => Ordered(frame'[d], t)
    BY <1>1 DEF Top
<1>3. MainLock'
    BY <1>1, <1>2 DEF IInv, MainLock
<1>4. Exclusive'
    BY <1>1, <1>2 DEF IInv, Exclusive
<1>5. Pausing'
    BY <1>1, <1>2 DEF IInv, Pausing
<1> QED
    BY <1>3, <1>4, <1>5

(* The running frame returns; it accounts for nothing any more.             *)
LEMMA LeaveStep ==
  ASSUME IInv, TypeOK', depth > 0, LeaveHandler
  PROVE  /\ depth \in Frames /\ Frames' = Frames \ {depth}
         /\ \A d \in Frames' : d # depth /\ d \in Frames /\ frame'[d] = frame[d]
         /\ Exclusive' /\ AtFirst'
         /\ UNCHANGED <<conf, live, nalloc>> => Fresh'
         /\ UNCHANGED <<conf, live, mpc>> /\ Top.pc # "install" => Dangling'
<1> USE Constants
<1>1. TypeOK
    BY DEF IInv
<1>2. /\ depth \in Frames /\ Frames' = Frames \ {depth} /\ Frames \subseteq 1 .. MaxNest
  <2>1. depth \in 1 .. MaxNest /\ depth' = depth - 1
      BY <1>1, TopFrame, LeaveFrame
  <2> QED
      BY <2>1 DEF Frames
<1>3. \A d \in Frames' : d # depth /\ d \in Frames /\ frame'[d] = frame[d]
    BY <1>1, <1>2, LeaveFrame
<1>4. Exclusive'
    BY <1>3 DEF IInv, Exclusive
<1>5. AtFirst'
    BY <1>3 DEF IInv, AtFirst
<1>6. UNCHANGED <<conf, live, nalloc>> => Fresh'
    BY <1>3 DEF IInv, Fresh
<1>7. UNCHANGED <<conf, live, mpc>> /\ Top.pc # "install" => Dangling'
  <2> SUFFICES ASSUME UNCHANGED <<conf, live, mpc>>, Top.pc # "install",
                      NEW d \in Frames, frame[d].pc = "install"
               PROVE  d \in Frames' /\ frame'[d].pc = "install"
      BY DEF IInv, Dangling
  <2> QED
      BY <1>2, <1>3 DEF Top
<1> QED
    BY <1>2, <1>3, <1>4, <1>5, <1>6, <1>7

(* A step of conf_reload().                                                 *)
LEMMA IInvHandler ==
  ASSUME IInv, TypeOK', Handler
  PROVE  IInv'
<1> USE Constants
<1> USE DEF mainVars, sigVars, confVars, workerVars
<1>t. TypeOK /\ depth > 0
    BY DEF IInv, Handler, conf_copy, conf_parse, thread_order_pause, thread_wait_paused,
       conf_free, conf_install, thread_resume, Resume, InTop
<1>f. depth \in 1 .. MaxNest /\ Top \in Frame /\ Top.i \in Thread
    BY <1>t, TopFrame
<1>1. CASE conf_copy
  <2> DEFINE f == [Top EXCEPT !.pc = "parse", !.new = nalloc + 1]
  <2>1. /\ Top.pc = "copy" /\ SetTop(f)
        /\ nalloc' = nalloc + 1 /\ live' = live \cup {nalloc + 1}
        /\ UNCHANGED <<must_pause, run_lock, conf, wpc, mi, mpc>>
        /\ nalloc \in Nat /\ nalloc + 1 \in ConfId
      BY <1>1 DEF IInv, TypeOK, conf_copy, InTop
  <2>2. f \in Frame /\ f.pc = "parse" /\ f.new = nalloc + 1
      BY <1>f, <2>1 DEF Frame, FramePc
  <2> HIDE DEF f
  <2>3. /\ depth' = depth /\ frame'[depth].pc = "parse" /\ frame'[depth].new = nalloc + 1
        /\ \A d \in 1 .. MaxNest : d # depth => frame'[d] = frame[d]
      BY <1>t, <2>1, <2>2, SetTopFrame
  <2>4. /\ depth \in Frames /\ Frames' = Frames
        /\ \A d \in Frames : d = depth \/ frame'[d] = frame[d]
        /\ Joined' /\ Unlaunched' /\ WorkerLock'
      BY <1>t, <2>1, <2>3, TopStep
  <2>5. MainLock' /\ Exclusive' /\ Pausing'
    <3>1. \A t \in Thread : /\ ~Holds(frame'[depth], t) /\ ~Holds(Top, t)
                            /\ ~Ordered(Top, t)
        BY <2>1, <2>3 DEF Holds, Ordered
    <3> QED
        BY <1>t, <2>1, <2>3, <3>1, SameAccount
  <2>6. Dangling' /\ AtFirst'
      BY <2>1, <2>3, <2>4 DEF IInv, Dangling, AtFirst, Top
  <2>7. Fresh'
    <3>1. conf' <= nalloc' /\ \A c \in live' : c <= nalloc'
        BY <2>1 DEF IInv, TypeOK, Fresh
    <3>2. ASSUME NEW d \in Frames, Loading(frame'[d])
          PROVE  /\ frame'[d].new \in live' /\ frame'[d].new # conf'
                 /\ d # depth => Loading(frame[d]) /\ frame'[d].new = frame[d].new
                                 /\ frame[d].new \in live /\ frame[d].new <= nalloc
      <4>1. conf <= nalloc /\ conf \in Int /\ conf' = conf
          BY <2>1 DEF IInv, TypeOK, Fresh
      <4>2. CASE d = depth
          BY <2>1, <2>3, <4>1, <4>2
      <4>3. CASE d # depth
        <5>1. frame'[d] = frame[d] /\ Loading(frame[d])
            BY <2>4, <3>2, <4>3
        <5> QED
            BY <2>1, <4>1, <4>3, <5>1 DEF IInv, Fresh
      <4> QED
          BY <4>2, <4>3
    <3>3. ASSUME NEW d \in Frames, NEW e \in Frames, Loading(frame'[d]), Loading(frame'[e]),
                 frame'[e].new = frame'[d].new
          PROVE  e = d
        BY <2>1, <2>3, <3>2, <3>3 DEF IInv, Fresh
    <3> QED
        BY <2>4, <3>1, <3>2, <3>3 DEF Fresh
  <2> QED
      BY <2>4, <2>5, <2>6, <2>7 DEF IInv
<1>2. CASE conf_parse
  <2>1. /\ Top.pc = "parse"
        /\ UNCHANGED <<must_pause, run_lock, conf, live, nalloc, wpc, mi, mpc>>
      BY <1>2 DEF conf_parse, InTop
  <2>2. Joined' /\ Unlaunched' /\ WorkerLock'
      BY <2>1 DEF IInv, Joined, Unlaunched, WorkerLock
  <2>3. CASE LeaveHandler
    <3>1. \A t \in Thread : ~Holds(frame[depth], t) /\ ~Ordered(frame[depth], t)
        BY <2>1 DEF Holds, Ordered, Top
    <3>2. /\ depth \in Frames /\ Frames' = Frames \ {depth}
          /\ \A d \in Frames' : d # depth /\ d \in Frames /\ frame'[d] = frame[d]
          /\ Exclusive' /\ AtFirst' /\ Fresh' /\ Dangling'
        BY <1>t, <2>1, <2>3, LeaveStep
    <3>3. MainLock'
        BY <2>1, <3>1, <3>2 DEF IInv, MainLock
    <3>4. Pausing'
        BY <2>1, <3>1, <3>2 DEF IInv, Pausing
    <3> QED
        BY <2>2, <3>2, <3>3, <3>4 DEF IInv
  <2>4. CASE GoTo("order")
    <3>1. /\ depth' = depth /\ frame'[depth].pc = "order" /\ frame'[depth].new = Top.new
          /\ \A d \in 1 .. MaxNest : d # depth => frame'[d] = frame[d]
        BY <1>t, <2>4, GoToFrame DEF FramePc
    <3>2. /\ depth \in Frames /\ Frames' = Frames
          /\ \A d \in Frames : d = depth \/ frame'[d] = frame[d]
        BY <1>t, <3>1, TopStep
    <3>3. \A t \in Thread : /\ ~Holds(frame'[depth], t) /\ ~Holds(Top, t)
                            /\ ~Ordered(Top, t)
        BY <2>1, <3>1 DEF Holds, Ordered
    <3>4. MainLock' /\ Exclusive' /\ Pausing'
        BY <1>t, <2>1, <3>1, <3>3, SameAccount
    <3>5. Dangling' /\ AtFirst'
        BY <2>1, <3>1, <3>2 DEF IInv, Dangling, AtFirst, Top
    <3>6. Fresh'
        BY <2>1, <3>1, <3>2 DEF IInv, Fresh, Loading, Top
    <3> QED
        BY <2>2, <3>4, <3>5, <3>6 DEF IInv
  <2> QED
      BY <1>2, <2>3, <2>4 DEF conf_parse
<1>3. CASE thread_order_pause
  <2>1. /\ Top.pc = "order"
        /\ UNCHANGED <<run_lock, conf, live, nalloc, wpc, mi, mpc>>
      BY <1>3 DEF thread_order_pause, InTop
  <2>2. Joined' /\ Unlaunched' /\ WorkerLock'
      BY <2>1 DEF IInv, Joined, Unlaunched, WorkerLock
  <2>3. CASE UNCHANGED <<must_pause, frame, depth>>
      BY <2>1, <2>2, <2>3, FramesKept DEF IInv
  <2>4. CASE /\ must_pause' = [must_pause EXCEPT ![Top.i] = TRUE]
             /\ NextThread("wait_paused")
    <3>1. /\ depth' = depth
          /\ \/ Top.i < N /\ frame'[depth].pc = "order" /\ frame'[depth].i = Top.i + 1
             \/ Top.i = N /\ frame'[depth].pc = "wait_paused" /\ frame'[depth].i = 1
          /\ frame'[depth].new = Top.new
          /\ \A d \in 1 .. MaxNest : d # depth => frame'[d] = frame[d]
        BY <1>t, <2>1, <2>4, NextThreadFrame DEF FramePc
    <3>2. /\ depth \in Frames /\ Frames' = Frames
          /\ \A d \in Frames : d = depth \/ frame'[d] = frame[d]
        BY <1>t, <3>1, TopStep
    <3>3. \A t \in Thread : /\ ~Holds(frame'[depth], t) /\ ~Holds(Top, t)
                            /\ (Ordered(Top, t) \/ t = Top.i) => Ordered(frame'[depth], t)
        BY <1>f, <2>1, <3>1 DEF Holds, Ordered
    <3>4. ASSUME NEW d \in Frames, NEW t \in Thread
          PROVE  /\ Holds(frame'[d], t) <=> Holds(frame[d], t)
                 /\ Ordered(frame[d], t) => Ordered(frame'[d], t)
        BY <3>2, <3>3 DEF Top
    <3>5. MainLock'
        BY <2>1, <3>2, <3>4 DEF IInv, MainLock
    <3>6. Exclusive'
        BY <3>2, <3>4 DEF IInv, Exclusive
    <3>7. Pausing'
      <4> SUFFICES ASSUME NEW t \in Thread, must_pause'[t]
                   PROVE  \E d \in Frames : Ordered(frame'[d], t)
          BY <3>2 DEF Pausing
      <4>1. CASE t = Top.i
          BY <3>2, <3>3, <4>1
      <4>2. CASE t # Top.i
        <5>1. must_pause[t]
            BY <2>4, <4>2 DEF IInv, TypeOK
        <5> QED
            BY <3>4, <5>1 DEF IInv, Pausing
      <4> QED
          BY <4>1, <4>2
    <3>8. Dangling' /\ AtFirst'
        BY <2>1, <3>1, <3>2 DEF IInv, Dangling, AtFirst, Top
    <3>9. Fresh'
        BY <2>1, <3>1, <3>2 DEF IInv, Fresh, Loading, Top
    <3> QED
        BY <2>2, <3>5, <3>6, <3>7, <3>8, <3>9 DEF IInv
  <2> QED
      BY <1>3, <2>3, <2>4 DEF thread_order_pause
<1>4. CASE thread_wait_paused
  <2>1. /\ Top.pc = "wait_paused"
        /\ run_lock[Top.i] = "none" /\ run_lock' = [run_lock EXCEPT ![Top.i] = "main"]
        /\ UNCHANGED <<must_pause, conf, live, nalloc, wpc, mi, mpc>>
        /\ NextThread("free")
      BY <1>4 DEF thread_wait_paused, InTop
  <2>2. /\ depth' = depth
        /\ \/ Top.i < N /\ frame'[depth].pc = "wait_paused" /\ frame'[depth].i = Top.i + 1
           \/ Top.i = N /\ frame'[depth].pc = "free" /\ frame'[depth].i = 1
        /\ frame'[depth].new = Top.new
        /\ \A d \in 1 .. MaxNest : d # depth => frame'[d] = frame[d]
      BY <1>t, <2>1, NextThreadFrame DEF FramePc
  <2>3. /\ depth \in Frames /\ Frames' = Frames
        /\ \A d \in Frames : d = depth \/ frame'[d] = frame[d]
        /\ Joined' /\ Unlaunched'
      BY <1>t, <2>1, <2>2, TopStep
  <2>4. \A t \in Thread : /\ Holds(frame'[depth], t) <=> Holds(Top, t) \/ t = Top.i
                          /\ Ordered(frame'[depth], t)
      BY <1>f, <2>1, <2>2 DEF Holds, Ordered
  <2>5. \A d \in Frames : ~Holds(frame[d], Top.i)
      BY <1>f, <2>1 DEF IInv, MainLock
  <2>6. \A t \in Thread : run_lock'[t] = IF t = Top.i THEN "main" ELSE run_lock[t]
      BY <1>f, <2>1 DEF IInv, TypeOK
  <2>7. WorkerLock'
      BY <1>f, <2>1, <2>6 DEF IInv, WorkerLock
  <2>8. MainLock'
    <3> SUFFICES ASSUME NEW t \in Thread
                 PROVE  run_lock'[t] = "main" <=> \E d \in Frames : Holds(frame'[d], t)
        BY <2>3 DEF MainLock
    <3>1. CASE t = Top.i
        BY <2>3, <2>4, <2>6, <3>1
    <3>2. CASE t # Top.i
      <4>1. \A d \in Frames : Holds(frame'[d], t) <=> Holds(frame[d], t)
          BY <2>3, <2>4, <3>2 DEF Top
      <4> QED
          BY <2>6, <3>2, <4>1 DEF IInv, MainLock
    <3> QED
        BY <3>1, <3>2
  <2>9. Exclusive'
    <3> SUFFICES ASSUME NEW t \in Thread, NEW d \in Frames, NEW e \in Frames,
                        Holds(frame'[d], t), Holds(frame'[e], t)
                 PROVE  d = e
        BY <2>3 DEF Exclusive
    <3>1. CASE t = Top.i
        BY <2>3, <2>5, <3>1
    <3>2. CASE t # Top.i
      <4>1. Holds(frame[d], t) /\ Holds(frame[e], t)
          BY <2>3, <2>4, <3>2 DEF Top
      <4> QED
          BY <4>1 DEF IInv, Exclusive
    <3> QED
        BY <3>1, <3>2
  <2>10. Pausing'
      BY <2>1, <2>3, <2>4 DEF IInv, Pausing
  <2>11. Dangling' /\ AtFirst'
      BY <2>1, <2>2, <2>3 DEF IInv, Dangling, AtFirst, Top
  <2>12. Fresh'
      BY <2>1, <2>2, <2>3 DEF IInv, Fresh, Loading, Top
  <2> QED
      BY <2>3, <2>7, <2>8, <2>9, <2>10, <2>11, <2>12 DEF IInv
<1>5. CASE conf_free
  <2>1. /\ Top.pc = "free" /\ live' = live \ {conf} /\ GoTo("install")
        /\ UNCHANGED <<must_pause, run_lock, conf, nalloc, wpc, mi, mpc>>
      BY <1>5 DEF conf_free, InTop
  <2>2. /\ depth' = depth /\ frame'[depth].pc = "install"
        /\ frame'[depth].i = Top.i /\ frame'[depth].new = Top.new
        /\ \A d \in 1 .. MaxNest : d # depth => frame'[d] = frame[d]
      BY <1>t, <2>1, GoToFrame DEF FramePc
  <2>3. /\ depth \in Frames /\ Frames' = Frames
        /\ \A d \in Frames : d = depth \/ frame'[d] = frame[d]
        /\ Joined' /\ Unlaunched' /\ WorkerLock'
      BY <1>t, <2>1, <2>2, TopStep
  <2>4. \A t \in Thread : /\ Holds(frame'[depth], t) /\ Holds(Top, t)
                          /\ Ordered(frame'[depth], t)
      BY <2>1, <2>2 DEF Holds, Ordered
  <2>5. MainLock' /\ Exclusive' /\ Pausing'
      BY <1>t, <2>1, <2>2, <2>4, SameAccount
  <2>6. Dangling'
      BY <2>2, <2>3 DEF Dangling
  <2>7. AtFirst'
      BY <2>1, <2>2, <2>3 DEF IInv, AtFirst, Top
  <2>8. Fresh'
      BY <2>1, <2>2, <2>3 DEF IInv, Fresh, Loading, Top
  <2> QED
      BY <2>3, <2>5, <2>6, <2>7, <2>8 DEF IInv
<1>6. CASE conf_install
  <2>1. /\ Top.pc = "install" /\ conf' = Top.new /\ GoTo("resume")
        /\ UNCHANGED <<must_pause, run_lock, live, nalloc, wpc, mi, mpc>>
      BY <1>6 DEF conf_install, InTop
  <2>2. /\ depth' = depth /\ frame'[depth].pc = "resume"
        /\ frame'[depth].i = Top.i /\ frame'[depth].new = Top.new
        /\ \A d \in 1 .. MaxNest : d # depth => frame'[d] = frame[d]
      BY <1>t, <2>1, GoToFrame DEF FramePc
  <2>3. /\ depth \in Frames /\ Frames' = Frames
        /\ \A d \in Frames : d = depth \/ frame'[d] = frame[d]
        /\ Joined' /\ Unlaunched' /\ WorkerLock'
      BY <1>t, <2>1, <2>2, TopStep
  <2>4. Top.i = 1
      BY <2>1, <2>3 DEF IInv, AtFirst, Top
  <2>5. \A t \in Thread : /\ Holds(frame'[depth], t) /\ Holds(Top, t)
                          /\ Ordered(frame'[depth], t)
      BY <2>1, <2>2, <2>4 DEF Holds, Ordered
  <2>6. MainLock' /\ Exclusive' /\ Pausing'
      BY <1>t, <2>1, <2>2, <2>5, SameAccount
  <2>7. /\ Top.new \in live /\ Top.new <= nalloc
        /\ \A e \in Frames : Loading(frame[e]) /\ frame[e].new = Top.new => e = depth
      BY <2>1, <2>3 DEF IInv, Fresh, Loading, Top
  <2>8. Dangling'
      BY <2>1, <2>7 DEF Dangling
  <2>9. AtFirst'
      BY <2>2, <2>3 DEF IInv, AtFirst
  <2>10. Fresh'
      BY <2>1, <2>2, <2>3, <2>7 DEF IInv, Fresh, Loading
  <2> QED
      BY <2>3, <2>6, <2>8, <2>9, <2>10 DEF IInv
<1>7. CASE thread_resume
  <2>1. /\ Top.pc = "resume"
        /\ must_pause' = [must_pause EXCEPT ![Top.i] = FALSE]
        /\ run_lock' = [run_lock EXCEPT ![Top.i] = "none"]
        /\ wpc' = IF wpc[Top.i] = "wait" THEN [wpc EXCEPT ![Top.i] = "woken"] ELSE wpc
        /\ UNCHANGED <<conf, live, nalloc, mi, mpc>>
        /\ IF Top.i < N THEN NextThread("resume") ELSE LeaveHandler
      BY <1>7 DEF thread_resume, Resume, InTop
  <2>2. /\ \A t \in Thread : run_lock'[t] = IF t = Top.i THEN "none" ELSE run_lock[t]
        /\ \A t \in Thread : must_pause'[t] = IF t = Top.i THEN FALSE ELSE must_pause[t]
        /\ \A t \in Thread : \/ wpc'[t] = wpc[t]
                             \/ wpc[t] = "wait" /\ wpc'[t] = "woken"
      BY <1>f, <2>1 DEF IInv, TypeOK
  <2>3. depth \in Frames /\ Holds(Top, Top.i)
      BY <1>f, <2>1 DEF Frames, Holds
  <2>4. run_lock[Top.i] = "main" /\ \A d \in Frames : d # depth => ~Holds(frame[d], Top.i)
      BY <1>f, <2>3 DEF IInv, MainLock, Exclusive, Top
  <2>5. WorkerLock'
    <3> SUFFICES ASSUME NEW t \in Thread
                 PROVE  run_lock'[t] = "worker" <=> wpc'[t] \in Looping \cup {"exited"}
        BY DEF WorkerLock
    <3>1. wpc'[t] \in Looping \cup {"exited"} <=> wpc[t] \in Looping \cup {"exited"}
        BY <2>2 DEF Looping
    <3>2. run_lock'[t] = "worker" <=> run_lock[t] = "worker"
        BY <2>2, <2>4
    <3> QED
        BY <3>1, <3>2 DEF IInv, WorkerLock
  <2>6. Joined'
      BY <2>1, <2>2 DEF IInv, Joined
  <2>7. Unlaunched'
    <3> SUFFICES ASSUME NEW k \in Thread, wpc[LaunchOrder[k]] = "unborn"
                 PROVE  wpc'[LaunchOrder[k]] = "unborn"
        BY <2>1 DEF IInv, Unlaunched
    <3>1. LaunchOrder[k] \in Thread
        BY ConstantsAssumption DEF ConstantsAssumption
    <3> QED
        BY <2>2, <3>1
  <2>8. CASE Top.i < N
    <3>1. /\ depth' = depth
          /\ frame'[depth].pc = "resume" /\ frame'[depth].i = Top.i + 1
          /\ frame'[depth].new = Top.new
          /\ \A d \in 1 .. MaxNest : d # depth => frame'[d] = frame[d]
        BY <1>t, <2>1, <2>8, NextThreadFrame DEF FramePc
    <3>2. /\ Frames' = Frames
          /\ \A d \in Frames : d = depth \/ frame'[d] = frame[d]
        BY <1>t, <3>1, TopStep
    <3>3. \A t \in Thread : /\ Holds(frame'[depth], t) <=> Holds(Top, t) /\ t # Top.i
                            /\ Ordered(Top, t) /\ t # Top.i => Ordered(frame'[depth], t)
        BY <1>f, <2>1, <3>1 DEF Holds, Ordered
    <3>4. ASSUME NEW t \in Thread, NEW d \in Frames
          PROVE  /\ Holds(frame'[d], t) <=> Holds(frame[d], t) /\ t # Top.i
                 /\ Ordered(frame[d], t) /\ t # Top.i => Ordered(frame'[d], t)
        BY <2>4, <3>2, <3>3 DEF Top
    <3>5. MainLock'
        BY <2>2, <3>2, <3>4 DEF IInv, MainLock
    <3>6. Exclusive'
        BY <3>2, <3>4 DEF IInv, Exclusive
    <3>7. Pausing'
        BY <2>2, <3>2, <3>4 DEF IInv, Pausing
    <3>8. Dangling' /\ AtFirst'
        BY <2>1, <3>1, <3>2 DEF IInv, Dangling, AtFirst, Top
    <3>9. Fresh'
        BY <2>1, <3>1, <3>2 DEF IInv, Fresh, Loading, Top
    <3> QED
        BY <2>5, <2>6, <2>7, <3>5, <3>6, <3>7, <3>8, <3>9 DEF IInv
  <2>9. CASE ~(Top.i < N)
    <3>1. Top.i = N /\ LeaveHandler
        BY <1>f, <2>1, <2>9
    <3>2. /\ Frames' = Frames \ {depth}
          /\ \A d \in Frames' : d # depth /\ d \in Frames /\ frame'[d] = frame[d]
          /\ Exclusive' /\ AtFirst' /\ Fresh' /\ Dangling'
        BY <1>t, <2>1, <3>1, LeaveStep
    <3>3. \A t \in Thread : t # Top.i => ~Holds(frame[depth], t) /\ ~Ordered(frame[depth], t)
        BY <2>1, <3>1 DEF Holds, Ordered, Top
    <3>4. MainLock'
      <4> SUFFICES ASSUME NEW t \in Thread
                   PROVE  run_lock'[t] = "main" <=> \E d \in Frames' : Holds(frame'[d], t)
          BY DEF MainLock
      <4>1. CASE t = Top.i
          BY <2>2, <2>4, <3>2, <4>1
      <4>2. CASE t # Top.i
          BY <2>2, <3>2, <3>3, <4>2 DEF IInv, MainLock
      <4> QED
          BY <4>1, <4>2
    <3>5. Pausing'
        BY <2>2, <3>2, <3>3 DEF IInv, Pausing
    <3> QED
        BY <2>5, <2>6, <2>7, <3>2, <3>4, <3>5 DEF IInv
  <2> QED
      BY <2>8, <2>9
<1> QED
    BY <1>1, <1>2, <1>3, <1>4, <1>5, <1>6, <1>7 DEF Handler

(* Every step of the program preserves the invariant.                       *)
LEMMA IInvNext == IInv /\ [Next]_vars => IInv'
<1> SUFFICES ASSUME IInv, [Next]_vars PROVE IInv'
    OBVIOUS
<1>1. TypeOK'
    BY TypeNext DEF IInv
<1>2. CASE Main \/ launch_thread_fails
    BY <1>1, <1>2, IInvMain
<1>3. CASE Handler
    BY <1>1, <1>3, IInvHandler
<1>4. CASE sighup_handler \/ sigint_handler
    BY <1>1, <1>4, IInvSignal
<1>5. ASSUME NEW t \in Thread, Worker(t) \/ spurious_wakeup(t) PROVE IInv'
    BY <1>1, <1>5, IInvWorker
<1>6. CASE UNCHANGED vars
  <2>1. UNCHANGED <<frame, depth, must_pause, run_lock, conf, live, nalloc, wpc, mi, mpc>>
      BY <1>6 DEF vars, mainVars, confVars, workerVars
  <2>2. Joined' /\ Unlaunched' /\ WorkerLock'
      BY <2>1 DEF IInv, Joined, Unlaunched, WorkerLock
  <2> QED
      BY <1>1, <2>1, <2>2, FramesKept DEF IInv
<1> QED
    BY <1>2, <1>3, <1>4, <1>5, <1>6 DEF Next

(* The strengthened invariant holds in every reachable state.               *)
THEOREM IInvCorrect == Spec => []IInv
<1>1. Init => IInv
    BY IInvInit
<1>2. IInv /\ [Next]_vars => IInv'
    BY IInvNext
<1> QED
    BY <1>1, <1>2, PTL DEF Spec

-----------------------------------------------------------------------------
(* What the invariant is for.                                               *)

(* A frame between conf_free() and the assignment of conf holds every       *)
(* run_lock, so no worker is in its loop or has left it.                    *)
LEMMA InstallExcludes ==
  ASSUME IInv, NEW d \in Frames, frame[d].pc \in {"free", "install"}, NEW t \in Thread
  PROVE  /\ wpc[t] \notin Looping \cup {"exited"}
         /\ \A e \in Frames : frame[e].pc \in {"free", "install"} => e = d
<1>1. Holds(frame[d], t) /\ \A e \in Frames : frame[e].pc \in {"free", "install"} => Holds(frame[e], t)
    BY DEF Holds
<1>2. run_lock[t] = "main"
    BY <1>1 DEF IInv, MainLock
<1> QED
    BY <1>1, <1>2 DEF IInv, WorkerLock, Exclusive

(* A worker inside its loop never reads a configuration conf_reload() or    *)
(* main() has freed, for any number of workers and any nesting of SIGHUP    *)
(* handlers.                                                                *)
THEOREM ConfSafeCorrect == Spec => []ConfSafe
<1>1. IInv => ConfSafe
  <2> SUFFICES ASSUME IInv, NEW t \in Thread, wpc[t] \in Looping PROVE conf \in live
      BY DEF ConfSafe
  <2>1. mpc # "return"
      BY DEF IInv, Joined, Looping
  <2>2. ~ \E d \in Frames : frame[d].pc = "install"
      BY InstallExcludes
  <2> QED
      BY <2>1, <2>2 DEF IInv, Dangling
<1> QED
    BY <1>1, IInvCorrect, PTL

(* No configuration is freed twice, neither by nested reloads nor by        *)
(* main()'s last free(), and what is installed has not been freed.          *)
THEOREM FreedOnceCorrect == Spec => []FreedOnce
<1>1. IInv => FreedOnce
  <2> SUFFICES ASSUME IInv PROVE FreedOnce
      OBVIOUS
  <2>1. ASSUME NEW d \in Frames, frame[d].pc = "free" PROVE conf \in live
    <3>1. 1 \in Thread
        BY Constants
    <3>2. mpc # "return"
        BY <2>1, <3>1, InstallExcludes DEF IInv, Joined
    <3>3. ~ \E e \in Frames : frame[e].pc = "install"
        BY <2>1, <3>1, InstallExcludes
    <3> QED
        BY <3>2, <3>3 DEF IInv, Dangling
  <2>2. ASSUME NEW d \in Frames, frame[d].pc = "install" PROVE frame[d].new \in live
      BY <2>2 DEF IInv, Fresh, Loading
  <2>3. mpc = "stopped" /\ depth = 0 => conf \in live
      BY DEF IInv, Dangling, Frames
  <2> QED
      BY <2>1, <2>2, <2>3 DEF FreedOnce, Frames
<1> QED
    BY <1>1, IInvCorrect, PTL

(* When no SIGHUP handler is running no worker is left paused or locked out *)
(* by one.                                                                  *)
THEOREM ReloadLeavesNothingCorrect == Spec => []ReloadLeavesNothing
<1>1. IInv => ReloadLeavesNothing
  <2>1. depth = 0 => Frames = {}
      BY DEF Frames
  <2> QED
      BY <2>1 DEF IInv, Pausing, MainLock, ReloadLeavesNothing
<1> QED
    BY <1>1, IInvCorrect, PTL
=============================================================================
