----------------------------- MODULE Scheduler ------------------------------
(***************************************************************************)
(* The class scheduler (src/scheduler.cpp, include/scheduler.hpp): which   *)
(* of the tracees, all stopped, the tracer lets run next.                  *)
(*                                                                         *)
(* The two priority queues are sets of pids: a pid is pushed only when the *)
(* kernel has just created the task, so that no queue ever holds it twice, *)
(* and top() is the largest element.  runtimeError() throws out of the     *)
(* event loop and ends the run; "thrown" records that it was called.       *)
(* Statistics and logging are left out.                                    *)
(*                                                                         *)
(* f_Mistake, here and in Execution, is a mutant of the definition f that  *)
(* follows it: f with a plausible mistake that a property must catch.      *)
(***************************************************************************)
EXTENDS Integers, Kernel

VARIABLES nextPid,            \* the process ptrace should run next
          runnableHeap,
          blockedHeap,
          finishedProcesses,  \* at their exit stop, waiting for children
          thrown              \* "none", or what runtimeError() was called for

schedVars == <<nextPid, runnableHeap, blockedHeap, finishedProcesses, thrown>>

Errors == {"none", "remove", "mark finished", "schedule parent",
           "no process left", "thread group existed", "thread group entry",
           "exec from threads", "unexpected event", "exit with children",
           "lost tracee"}

SchedulerInit ==
  /\ nextPid = startingPid
  /\ runnableHeap = {startingPid}
  /\ blockedHeap = {}
  /\ finishedProcesses = {}
  /\ thrown = "none"

SchedulerTypeOK ==
  /\ nextPid \in Pid
  /\ runnableHeap \subseteq Pid
  /\ blockedHeap \subseteq Pid
  /\ finishedProcesses \subseteq Pid
  /\ thrown \in Errors
-----------------------------------------------------------------------------
top_Lowest(heap) == CHOOSE p \in heap : \A q \in heap : p <= q

\* priority_queue<pid_t>::top()
top(heap) == CHOOSE p \in heap : \A q \in heap : q <= p

inHeaps(p) == p \in runnableHeap \cup blockedHeap

isFinished(p) == p \in finishedProcesses

runtimeError(what) ==
  /\ thrown' = what
  /\ UNCHANGED <<nextPid, runnableHeap, blockedHeap, finishedProcesses>>

(* scheduleNextProcess() on heaps that the caller has just changed: the    *)
(* runnable process with the highest pid; when none is left the heaps are  *)
(* swapped, which retries everything that blocked.                         *)
scheduleNextProcess(runnable, blocked) ==
  IF runnable # {}
  THEN /\ nextPid' = top(runnable)
       /\ runnableHeap' = runnable
       /\ blockedHeap' = blocked
       /\ UNCHANGED thrown
  ELSE IF blocked # {}
  THEN /\ nextPid' = top(blocked)
       /\ runnableHeap' = blocked
       /\ blockedHeap' = {}
       /\ UNCHANGED thrown
  ELSE /\ runnableHeap' = runnable
       /\ blockedHeap' = blocked
       /\ thrown' = "no process left"
       /\ UNCHANGED nextPid

addAndScheduleNext_NotPushed(newProcess) ==
  /\ nextPid' = newProcess
  /\ UNCHANGED <<runnableHeap, blockedHeap, finishedProcesses, thrown>>

addAndScheduleNext_ParentGoesOn(newProcess) ==
  /\ runnableHeap' = runnableHeap \cup {newProcess}
  /\ UNCHANGED <<nextPid, blockedHeap, finishedProcesses, thrown>>

addAndScheduleNext(newProcess) ==
  /\ runnableHeap' = runnableHeap \cup {newProcess}
  /\ nextPid' = newProcess
  /\ UNCHANGED <<blockedHeap, finishedProcesses, thrown>>

preemptAndScheduleNext_LastGoesOn ==
  LET curr == top(runnableHeap) IN
  /\ IF runnableHeap = {curr}
     THEN UNCHANGED <<nextPid, runnableHeap, blockedHeap, thrown>>
     ELSE scheduleNextProcess(runnableHeap \ {curr}, blockedHeap \cup {curr})
  /\ UNCHANGED finishedProcesses

preemptAndScheduleNext ==
  LET curr == top(runnableHeap) IN
  /\ scheduleNextProcess(runnableHeap \ {curr}, blockedHeap \cup {curr})
  /\ UNCHANGED finishedProcesses

markFinishedAndScheduleNext(process) ==
  IF inHeaps(process)
  THEN /\ finishedProcesses' = finishedProcesses \cup {process}
       /\ scheduleNextProcess(runnableHeap \ {process}, blockedHeap \ {process})
  ELSE runtimeError("mark finished")

(* The caller has checked that the parent is finished; the process itself  *)
(* is looked for in the heaps only.                                        *)
removeAndScheduleParent(child, parent) ==
  IF isFinished(parent) /\ inHeaps(child)
  THEN /\ runnableHeap' = runnableHeap \ {child}
       /\ blockedHeap' = blockedHeap \ {child}
       /\ nextPid' = parent
       /\ UNCHANGED <<finishedProcesses, thrown>>
  ELSE runtimeError("schedule parent")

\* Its result, "we're all done", is that both heaps are empty afterwards.
removeAndScheduleNext(process) ==
  LET leaving  == IF isFinished(process) THEN {} ELSE {process}
      runnable == runnableHeap \ leaving
      blocked  == blockedHeap \ leaving IN
  IF ~isFinished(process) /\ ~inHeaps(process)
  THEN runtimeError("remove")
  ELSE /\ finishedProcesses' = finishedProcesses \ {process}
       /\ IF runnable \cup blocked = {}
          THEN /\ runnableHeap' = {}
               /\ blockedHeap' = {}
               /\ UNCHANGED <<nextPid, thrown>>
          ELSE scheduleNextProcess(runnable, blocked)
=============================================================================
