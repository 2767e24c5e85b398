-------------------------- MODULE ExecutionProofs ---------------------------
(***************************************************************************)
(* The safety properties of Execution, for every size of the pid namespace *)
(* and for all behaviours of the tracees, as long as pids are not reused.  *)
(*                                                                         *)
(* First, what the methods of scheduler do to its heaps; then the          *)
(* inductive invariant Inv and what follows from it; last, which tracee    *)
(* the loop resumes and then waits for.                                    *)
(***************************************************************************)
EXTENDS Execution, WellFoundedInduction, FiniteSetTheorems, TLAPS

-----------------------------------------------------------------------------
(* The methods of scheduler. *)

(* A set of pids that is not empty has a largest element: the differences  *)
(* to MaxPid have a smallest one.                                          *)
LEMMA LargestPid ==
  ASSUME NEW S \in SUBSET Pid, S # {}
  PROVE  \E p \in S : \A q \in S : q <= p
<1> DEFINE D == {MaxPid - p : p \in S}
<1>1. D \subseteq Nat /\ D # {}
  BY PidAssumption DEF Pid
<1>2. PICK d \in D : \A e \in D : ~(<<e, d>> \in OpToRel(<, Nat))
  BY <1>1, NatLessThanWellFounded, WFMin, Zenon
<1>3. \A e \in D : ~(e < d)
  BY <1>1, <1>2, Zenon DEF OpToRel
<1>4. PICK p \in S : d = MaxPid - p
  OBVIOUS
<1>5. ASSUME NEW q \in S PROVE q <= p
  <2>1. MaxPid - q \in D
    OBVIOUS
  <2>2. ~(MaxPid - q < MaxPid - p)
    BY <1>3, <1>4, <2>1
  <2> QED BY <2>2, PidAssumption DEF Pid
<1> QED BY <1>5

(* priority_queue::top() returns the highest pid of the heap.              *)
LEMMA TopIsHighest ==
  ASSUME NEW heap \in SUBSET Pid, heap # {}
  PROVE  top(heap) \in heap /\ \A q \in heap : q <= top(heap)
BY LargestPid DEF top

(* scheduleNextProcess() keeps the processes it is given, and picks the    *)
(* highest of the heap that is now runnable; it throws when there is none. *)
LEMMA ScheduleNext ==
  ASSUME NEW runnable \in SUBSET Pid, NEW blocked \in SUBSET Pid,
         scheduleNextProcess(runnable, blocked), thrown = "none"
  PROVE  /\ runnableHeap' \cup blockedHeap' = runnable \cup blocked
         /\ runnableHeap' \cap blockedHeap' \subseteq runnable \cap blocked
         /\ \/ /\ thrown' = "none"
               /\ nextPid' \in runnableHeap'
               /\ \A p \in runnableHeap' : p <= nextPid'
            \/ /\ thrown' = "no process left"
               /\ runnable \cup blocked = {}
               /\ nextPid' = nextPid
<1>1. CASE runnable # {}
  BY <1>1, TopIsHighest DEF scheduleNextProcess
<1>2. CASE runnable = {} /\ blocked # {}
  BY <1>2, TopIsHighest DEF scheduleNextProcess
<1>3. CASE runnable = {} /\ blocked = {}
  BY <1>3, Zenon DEF scheduleNextProcess
<1> QED BY <1>1, <1>2, <1>3, Zenon
-----------------------------------------------------------------------------
(* What every method leaves behind when it has chosen from the heaps.      *)
Picked == nextPid \in runnableHeap /\ \A p \in runnableHeap : p <= nextPid

Disjoint == runnableHeap \cap blockedHeap = {}

(* runtimeError() leaves the heaps alone, and the run has ended.           *)
LEMMA ErrorEnds ==
  ASSUME SchedulerTypeOK, NEW what \in Errors \ {"none"}, runtimeError(what)
  PROVE  SchedulerTypeOK' /\ thrown' # "none"
BY DEF SchedulerTypeOK, runtimeError

(* markFinishedAndScheduleNext moves the process from the heaps to the     *)
(* finished set.                                                           *)
LEMMA MarkFinished ==
  ASSUME SchedulerTypeOK, Disjoint, thrown = "none", NEW process \in Pid,
         markFinishedAndScheduleNext(process)
  PROVE  /\ SchedulerTypeOK'
         /\ thrown' = "none" =>
              /\ inHeaps(process)
              /\ finishedProcesses' = finishedProcesses \cup {process}
              /\ runnableHeap' \cup blockedHeap' = (runnableHeap \cup blockedHeap) \ {process}
              /\ Disjoint' /\ Picked'
<1>1. CASE inHeaps(process)
  <2>1. scheduleNextProcess(runnableHeap \ {process}, blockedHeap \ {process})
    BY <1>1 DEF markFinishedAndScheduleNext
  <2>2. /\ runnableHeap' \cup blockedHeap' = (runnableHeap \cup blockedHeap) \ {process}
        /\ Disjoint'
        /\ \/ thrown' = "none" /\ Picked'
           \/ thrown' = "no process left" /\ nextPid' = nextPid
    <3> DEFINE R == runnableHeap \ {process}
               B == blockedHeap \ {process}
    <3>1. R \in SUBSET Pid /\ B \in SUBSET Pid /\ scheduleNextProcess(R, B)
      BY <2>1 DEF SchedulerTypeOK
    <3>2. R \cap B = {} /\ R \cup B = (runnableHeap \cup blockedHeap) \ {process}
      BY DEF Disjoint
    <3> HIDE DEF R, B
    <3>3. /\ runnableHeap' \cup blockedHeap' = R \cup B
          /\ runnableHeap' \cap blockedHeap' \subseteq R \cap B
          /\ \/ /\ thrown' = "none"
                /\ nextPid' \in runnableHeap'
                /\ \A q \in runnableHeap' : q <= nextPid'
             \/ thrown' = "no process left" /\ R \cup B = {} /\ nextPid' = nextPid
      BY <3>1, ScheduleNext, Zenon
    <3>4. runnableHeap' \cap blockedHeap' = {}
      BY <3>2, <3>3, Zenon
    <3> QED BY <3>2, <3>3, <3>4, Zenon DEF Disjoint, Picked
  <2>3. finishedProcesses' = finishedProcesses \cup {process}
    BY <1>1 DEF markFinishedAndScheduleNext
  <2>4. SchedulerTypeOK'
    BY <2>2, <2>3, Zenon DEF SchedulerTypeOK, Picked, Errors
  <2> QED BY <1>1, <2>2, <2>3, <2>4, Zenon
<1>2. CASE ~inHeaps(process)
  BY <1>2, ErrorEnds, Zenon DEF markFinishedAndScheduleNext, Errors
<1> QED BY <1>1, <1>2

(* preemptAndScheduleNext keeps every process, and moves to the blocked    *)
(* heap none but the top of the runnable heap.                             *)
LEMMA Preempt ==
  ASSUME SchedulerTypeOK, Disjoint, thrown = "none", runnableHeap # {},
         preemptAndScheduleNext
  PROVE  /\ SchedulerTypeOK'
         /\ thrown' = "none"
         /\ finishedProcesses' = finishedProcesses
         /\ runnableHeap' \cup blockedHeap' = runnableHeap \cup blockedHeap
         /\ Disjoint' /\ Picked'
         /\ runnableHeap \cap blockedHeap' \subseteq {top(runnableHeap)}
<1> DEFINE curr == top(runnableHeap)
<1>1. curr \in runnableHeap
  BY TopIsHighest DEF SchedulerTypeOK
<1>2. scheduleNextProcess(runnableHeap \ {curr}, blockedHeap \cup {curr})
  BY DEF preemptAndScheduleNext
<1>3. runnableHeap \cap blockedHeap' \subseteq {curr}
  BY <1>2, Zenon DEF scheduleNextProcess, Disjoint
<1> HIDE DEF curr
<1>4. /\ runnableHeap' \cup blockedHeap' = runnableHeap \cup blockedHeap
      /\ Disjoint'
      /\ thrown' = "none" /\ Picked'
  <2> DEFINE R == runnableHeap \ {curr}
             B == blockedHeap \cup {curr}
  <2>1. R \in SUBSET Pid /\ B \in SUBSET Pid /\ scheduleNextProcess(R, B)
    BY <1>1, <1>2 DEF SchedulerTypeOK
  <2>2. R \cap B = {} /\ R \cup B = runnableHeap \cup blockedHeap /\ R \cup B # {}
    BY <1>1 DEF Disjoint
  <2> HIDE DEF R, B
  <2>3. /\ runnableHeap' \cup blockedHeap' = R \cup B
        /\ runnableHeap' \cap blockedHeap' \subseteq R \cap B
        /\ \/ /\ thrown' = "none"
              /\ nextPid' \in runnableHeap'
              /\ \A q \in runnableHeap' : q <= nextPid'
           \/ thrown' = "no process left" /\ R \cup B = {} /\ nextPid' = nextPid
    BY <2>1, ScheduleNext, Zenon
  <2>4. runnableHeap' \cap blockedHeap' = {}
    BY <2>2, <2>3, Zenon
  <2> QED BY <2>2, <2>3, <2>4, Zenon DEF Disjoint, Picked
<1>5. finishedProcesses' = finishedProcesses
  BY DEF preemptAndScheduleNext
<1>6. SchedulerTypeOK'
  BY <1>4, <1>5 DEF SchedulerTypeOK, Picked, Errors
<1> QED BY <1>3, <1>4, <1>5, <1>6 DEF curr

(* removeAndScheduleNext forgets the process, wherever it was.             *)
LEMMA RemoveNext ==
  ASSUME SchedulerTypeOK, Disjoint, thrown = "none", NEW process \in Pid,
         finishedProcesses \cap (runnableHeap \cup blockedHeap) = {},
         removeAndScheduleNext(process)
  PROVE  /\ SchedulerTypeOK'
         /\ thrown' = "none" =>
              /\ finishedProcesses' = finishedProcesses \ {process}
              /\ runnableHeap' \cup blockedHeap' = (runnableHeap \cup blockedHeap) \ {process}
              /\ Disjoint'
              /\ Picked' \/ runnableHeap' \cup blockedHeap' = {}
<1> DEFINE leaving  == IF isFinished(process) THEN {} ELSE {process}
           runnable == runnableHeap \ leaving
           blocked  == blockedHeap \ leaving
<1>1. CASE ~isFinished(process) /\ ~inHeaps(process)
  BY <1>1, ErrorEnds, Zenon DEF removeAndScheduleNext, Errors
<1>2. CASE isFinished(process) \/ inHeaps(process)
  <2>1. /\ runnable \in SUBSET Pid /\ blocked \in SUBSET Pid
        /\ runnable \cup blocked = (runnableHeap \cup blockedHeap) \ {process}
        /\ runnable \cap blocked = {}
    BY DEF SchedulerTypeOK, Disjoint, isFinished
  <2>2. finishedProcesses' = finishedProcesses \ {process}
    BY <1>2 DEF removeAndScheduleNext
  <2>3. CASE runnable \cup blocked = {}
    BY <1>2, <2>1, <2>2, <2>3 DEF removeAndScheduleNext, SchedulerTypeOK, Disjoint
  <2>4. CASE runnable \cup blocked # {}
    <3>1. scheduleNextProcess(runnable, blocked)
      BY <1>2, <2>4 DEF removeAndScheduleNext
    <3> HIDE DEF runnable, blocked
    <3> QED BY <2>1, <2>2, <2>4, <3>1, ScheduleNext, Zenon DEF SchedulerTypeOK, Disjoint, Picked, Errors
  <2> QED BY <2>3, <2>4
<1> QED BY <1>1, <1>2

(* removeAndScheduleParent forgets the child and lets the parent run.      *)
LEMMA RemoveParent ==
  ASSUME SchedulerTypeOK, Disjoint, thrown = "none", NEW child \in Pid, NEW parent \in Pid,
         removeAndScheduleParent(child, parent)
  PROVE  /\ SchedulerTypeOK'
         /\ thrown' = "none" =>
              /\ inHeaps(child)
              /\ parent \in finishedProcesses
              /\ nextPid' = parent
              /\ finishedProcesses' = finishedProcesses
              /\ runnableHeap' \cup blockedHeap' = (runnableHeap \cup blockedHeap) \ {child}
              /\ Disjoint'
<1>1. CASE isFinished(parent) /\ inHeaps(child)
  BY <1>1 DEF removeAndScheduleParent, SchedulerTypeOK, Disjoint, isFinished
<1>2. CASE ~(isFinished(parent) /\ inHeaps(child))
  BY <1>2, ErrorEnds, Zenon DEF removeAndScheduleParent, Errors
<1> QED BY <1>1, <1>2

-----------------------------------------------------------------------------
(* The inductive invariant. *)

Tables == PidsGrow /\ TablesMatchKernel /\ TreeIsForest

(* The parts of Inv about the scheduler and the finished processes, for a  *)
(* loop that goes on.                                                      *)
Schedule ==
  /\ states = runnableHeap \cup blockedHeap \cup finishedProcesses
  /\ Disjoint
  /\ finishedProcesses \cap (runnableHeap \cup blockedHeap) = {}
  /\ nextPid \in finishedProcesses \/ Picked

Finished ==
  /\ FinishedAreExiting
  /\ \A p \in finishedProcesses : p = nextPid \/ children(p) # {}

(* Inv, taken apart into what the proofs below show one by one.            *)
LEMMA InvParts ==
  Inv <=> /\ TypeOK
          /\ InLoop => Tables /\ ExitLoopInv /\ Schedule /\ Finished
          /\ NothingLeftBehind
<1>1. ASSUME InLoop, SchedulerTypeOK
      PROVE  Schedule <=> SchedulerKnowsTracees /\ RunsHighestPid
  BY <1>1 DEF Schedule, SchedulerKnowsTracees, RunsHighestPid, Disjoint, Picked
<1>2. ASSUME ~InLoop
      PROVE  SchedulerKnowsTracees /\ RunsHighestPid /\ FinishedAwaitChildren
  BY <1>2 DEF SchedulerKnowsTracees, RunsHighestPid, FinishedAwaitChildren
<1>3. ASSUME InLoop
      PROVE  Finished <=> FinishedAreExiting /\ FinishedAwaitChildren
  BY <1>3 DEF Finished, FinishedAwaitChildren
<1> QED BY <1>1, <1>2, <1>3 DEF Inv, Tables, TypeOK

THEOREM InitInv == Init => Inv
<1> SUFFICES ASSUME Init PROVE Inv
  OBVIOUS
<1> USE DEF Init, KernelInit, SchedulerInit, startingPid
<1>1. 2 \in Pid
  BY PidAssumption DEF Pid
<1>2. TypeOK
  <2>1. KernelTypeOK
    BY <1>1 DEF KernelTypeOK
  <2>2. SchedulerTypeOK
    BY <1>1 DEF SchedulerTypeOK, Errors
  <2>3. exitLoop \in BOOLEAN
    BY Zenon
  <2>4. threadGroups \subseteq (Pid \cup {0}) \X Pid /\ processTree \subseteq Pid \X Pid
    BY <1>1
  <2>5. threadGroupNumber \in [Pid -> Pid \cup {0}]
    BY <1>1
  <2> QED BY <1>1, <2>1, <2>2, <2>3, <2>4, <2>5 DEF TypeOK
<1>3. PidsGrow
  BY <1>1 DEF PidsGrow, Pid
<1>4. TablesMatchKernel
  BY <1>1 DEF TablesMatchKernel, Free, Pid
<1>5. TreeIsForest /\ ExitLoopInv /\ Finished /\ NothingLeftBehind
  BY DEF TreeIsForest, ExitLoopInv, Finished, FinishedAreExiting, NothingLeftBehind
<1>6. Schedule
  BY <1>1 DEF Schedule, Disjoint, Picked, Pid
<1> QED BY <1>2, <1>3, <1>4, <1>5, <1>6, InvParts DEF Tables
-----------------------------------------------------------------------------
(* After an exception only the types matter.                               *)
LEMMA ThrownInv ==
  ASSUME TypeOK', thrown' # "none", exitLoop' = FALSE
  PROVE  Inv'
BY DEF Inv, InLoop, SchedulerKnowsTracees, RunsHighestPid, FinishedAwaitChildren,
       NothingLeftBehind

(* The same decomposition for the state after a step in which the loop     *)
(* goes on.                                                                *)
LEMMA LoopInv ==
  ASSUME TypeOK', exitLoop' = FALSE, Tables', ExitLoopInv', Schedule', Finished'
  PROVE  Inv'
<1>1. (Inv <=> /\ TypeOK
               /\ InLoop => Tables /\ ExitLoopInv /\ Schedule /\ Finished
               /\ NothingLeftBehind)'
  BY InvParts, PTL
<1>2. NothingLeftBehind'
  BY DEF NothingLeftBehind
<1> QED BY <1>1, <1>2
-----------------------------------------------------------------------------
(* Steps that create and end no task leave the tables in order.            *)
LEMMA SameTables ==
  ASSUME Tables,
         UNCHANGED <<states, treeVars, tgid, lastPid>>,
         \A p \in Pid : task'[p] = "free" <=> task[p] = "free"
  PROVE  Tables'
<1>1. PidsGrow'
  BY DEF Tables, PidsGrow, treeVars
<1>2. TablesMatchKernel'
  <2>1. Free' = Free
    BY DEF Free
  <2> QED BY <2>1 DEF Tables, TablesMatchKernel, treeVars
<1>3. TreeIsForest'
  BY DEF Tables, TreeIsForest, treeVars
<1> QED BY <1>1, <1>2, <1>3 DEF Tables

(* A step in which the scheduler is not called and every exiting task goes *)
(* on exiting.                                                             *)
LEMMA QuietInv ==
  ASSUME Inv, InLoop, TypeOK',
         UNCHANGED <<schedVars, states, treeVars, threadsToExit, exitLoop, tgid, lastPid>>,
         \A p \in Pid : /\ task'[p] = "free" <=> task[p] = "free"
                        /\ task[p] \in {"dying", "exiting"} => task'[p] \in {"dying", "exiting"}
  PROVE  Inv'
<1>1. Tables /\ ExitLoopInv /\ Schedule /\ Finished /\ TypeOK
  BY InvParts
<1>2. Tables'
  BY <1>1, SameTables
<1>3. ExitLoopInv' /\ Schedule'
  BY <1>1 DEF ExitLoopInv, Schedule, Disjoint, Picked, schedVars, treeVars
<1>4. Finished'
  BY <1>1, Zenon DEF Finished, FinishedAreExiting, children, schedVars, treeVars, TypeOK, SchedulerTypeOK
<1>5. exitLoop' = FALSE
  BY <1>1 DEF InLoop, TypeOK
<1> QED BY <1>2, <1>3, <1>4, <1>5, LoopInv, Zenon

(* Pre-hooks, signals and exec events: no call of the scheduler, or an     *)
(* exception.                                                              *)
LEMMA QuietSteps ==
  ASSUME Inv, NEW p \in Pid,
         \/ handleSeccomp(p) \/ exit_groupPreHook(p) \/ execvePreHook(p)
         \/ handleExecEvent(p) \/ handleSignal(p) \/ TraceeLost(p)
  PROVE  Inv'
<1> USE DEF Resumes, InUserMode, InLoop
<1>0. TypeOK /\ KernelTypeOK /\ SchedulerTypeOK
  BY DEF Inv, TypeOK
<1>1. CASE handleSeccomp(p)
  <2>1. TypeOK'
    BY <1>0, <1>1 DEF handleSeccomp, TypeOK, KernelTypeOK, SchedulerTypeOK,
                      kernelVars, schedVars, treeVars
  <2> QED BY <1>1, <2>1, QuietInv DEF handleSeccomp, kernelVars
<1>2. CASE exit_groupPreHook(p)
  <2>1. TypeOK'
    BY <1>0, <1>2 DEF exit_groupPreHook, TypeOK, KernelTypeOK, SchedulerTypeOK,
                      kernelVars, schedVars, treeVars
  <2> QED BY <1>2, <2>1, QuietInv DEF exit_groupPreHook, kernelVars
<1>3. CASE handleSignal(p)
  <2>1. TypeOK'
    BY <1>0, <1>3, Zenon DEF handleSignal, TypeOK, KernelTypeOK, SchedulerTypeOK,
                      kernelVars, schedVars, treeVars
  <2> QED BY <1>3, <2>1, QuietInv, Zenon DEF handleSignal, kernelVars
<1>4. CASE handleExecEvent(p)
  <2>1. KernelTypeOK'
    BY <1>0, <1>4 DEF handleExecEvent, LeaveExecve, KernelTypeOK
  <2>2. TypeOK'
    BY <1>0, <1>4, <2>1 DEF handleExecEvent, TypeOK, SchedulerTypeOK,
                            schedVars, stateVars, treeVars
  <2> QED BY <1>4, <2>2, QuietInv DEF handleExecEvent, LeaveExecve, stateVars
<1>5. CASE execvePreHook(p)
  <2>1. CASE EnterExecve(p) /\ UNCHANGED schedVars
    <3>1. KernelTypeOK'
      BY <1>0, <2>1 DEF EnterExecve, KernelTypeOK
    <3>2. TypeOK'
      BY <1>0, <1>5, <2>1, <3>1, Zenon DEF execvePreHook, TypeOK, SchedulerTypeOK,
                                    schedVars, stateVars, treeVars
    <3> QED BY <1>5, <2>1, <3>2, QuietInv, Zenon DEF execvePreHook, EnterExecve, stateVars
  <2>2. CASE runtimeError("exec from threads") /\ UNCHANGED kernelVars
    <3>1. SchedulerTypeOK' /\ thrown' # "none"
      BY <1>0, <2>2, ErrorEnds, Zenon DEF Errors
    <3>2. TypeOK'
      BY <1>0, <1>5, <2>2, <3>1, Zenon DEF execvePreHook, TypeOK, KernelTypeOK,
                                    kernelVars, stateVars, treeVars
    <3>3. exitLoop' = FALSE
      BY <1>0, <1>5, Zenon DEF execvePreHook, TypeOK
    <3> QED BY <3>1, <3>2, <3>3, ThrownInv, Zenon
  <2> QED BY <1>5, <2>1, <2>2, Zenon DEF execvePreHook
<1>6. CASE TraceeLost(p)
  <2>1. SchedulerTypeOK' /\ thrown' # "none"
    BY <1>0, <1>6, ErrorEnds, Zenon DEF TraceeLost, Errors
  <2>2. TypeOK'
    BY <1>0, <1>6, <2>1, Zenon DEF TraceeLost, TypeOK, KernelTypeOK, kernelVars, stateVars, treeVars
  <2>3. exitLoop' = FALSE
    BY <1>0, <1>6, Zenon DEF TraceeLost, TypeOK
  <2> QED BY <2>1, <2>2, <2>3, ThrownInv, Zenon
<1> QED BY <1>1, <1>2, <1>3, <1>4, <1>5, <1>6

(* SIGKILL for another process: its group starts to die.                   *)
LEMMA KillStep ==
  ASSUME Inv, NEW p \in Pid, NEW q \in Pid, killPreHook(p, q)
  PROVE  Inv'
<1>0. TypeOK /\ KernelTypeOK /\ SchedulerTypeOK
  BY DEF Inv, TypeOK
<1>1. KernelTypeOK'
  BY <1>0 DEF killPreHook, Kill, KernelTypeOK, Group
<1>2. TypeOK'
  BY <1>0, <1>1 DEF killPreHook, TypeOK, SchedulerTypeOK, schedVars, treeVars
<1>3. \A r \in Pid : /\ task'[r] = "free" <=> task[r] = "free"
                     /\ task[r] \in {"dying", "exiting"} => task'[r] \in {"dying", "exiting"}
  BY <1>0 DEF killPreHook, Kill, KernelTypeOK, Group
<1> QED BY <1>2, <1>3, QuietInv DEF killPreHook, Kill, InUserMode, Resumes, InLoop

(* A tracee that is alive and runs is in the runnable heap, at its top.    *)
LEMMA RunningIsTop ==
  ASSUME Inv, InLoop, task[nextPid] = "live"
  PROVE  nextPid \in runnableHeap /\ nextPid = top(runnableHeap)
<1>1. TypeOK /\ SchedulerTypeOK /\ Schedule /\ Finished
  BY InvParts DEF TypeOK
<1>2. Picked
  BY <1>1 DEF Schedule, Finished, FinishedAreExiting
<1>3. nextPid \in runnableHeap /\ nextPid <= top(runnableHeap) /\ top(runnableHeap) <= nextPid
  BY <1>1, <1>2, TopIsHighest DEF SchedulerTypeOK, Picked
<1>4. nextPid \in Pid /\ top(runnableHeap) \in Pid
  BY <1>1, <1>3, TopIsHighest DEF SchedulerTypeOK
<1> QED BY <1>3, <1>4 DEF Pid

(* The post-hook: nothing, or a preemption of the caller.                  *)
LEMMA PostHookStep ==
  ASSUME Inv, NEW p \in Pid, NEW blocks \in BOOLEAN, handlePostSystemCall(p, blocks)
  PROVE  Inv'
<1>0. TypeOK /\ KernelTypeOK /\ SchedulerTypeOK /\ InLoop
  BY DEF Inv, TypeOK, handlePostSystemCall, Resumes, InLoop
<1>1. CASE blocks
  <2>1. /\ Tables /\ ExitLoopInv /\ Schedule /\ Finished
        /\ threadsToExit = {} /\ thrown = "none" /\ p = nextPid
    BY <1>0, InvParts DEF handlePostSystemCall, Resumes
  <2>2. nextPid \in runnableHeap
    BY <1>0, <2>1, RunningIsTop DEF handlePostSystemCall
  <2>3. preemptAndScheduleNext
    BY <1>1 DEF handlePostSystemCall
  <2>4. Disjoint
    BY <2>1 DEF Schedule
  <2>5. /\ SchedulerTypeOK'
        /\ finishedProcesses' = finishedProcesses
        /\ runnableHeap' \cup blockedHeap' = runnableHeap \cup blockedHeap
        /\ Disjoint' /\ Picked'
    BY <1>0, <2>1, <2>2, <2>3, <2>4, Preempt
  <2>6. TypeOK'
    BY <1>0, <2>5 DEF handlePostSystemCall, TypeOK, KernelTypeOK, kernelVars, treeVars
  <2>7. Tables'
    BY <2>1, SameTables DEF handlePostSystemCall, kernelVars
  <2>8. ExitLoopInv'
    BY <2>1 DEF handlePostSystemCall, ExitLoopInv
  <2>9. Schedule'
    BY <2>1, <2>5 DEF handlePostSystemCall, Schedule
  <2>10. Finished'
    <3>1. \A f \in finishedProcesses : f # nextPid
      BY <2>1, <2>2 DEF Schedule
    <3> QED BY <2>1, <2>5, <3>1
            DEF Finished, FinishedAreExiting, children, handlePostSystemCall, kernelVars, treeVars
  <2>11. exitLoop' = FALSE
    BY <1>0 DEF handlePostSystemCall, InLoop, TypeOK
  <2> QED BY <2>6, <2>7, <2>8, <2>9, <2>10, <2>11, LoopInv, Zenon
<1>2. CASE ~blocks
  <2>1. TypeOK'
    BY <1>0, <1>2 DEF handlePostSystemCall, TypeOK, KernelTypeOK, SchedulerTypeOK,
                      kernelVars, schedVars, treeVars
  <2> QED BY <1>0, <1>2, <2>1, QuietInv DEF handlePostSystemCall, kernelVars
<1> QED BY <1>1, <1>2
-----------------------------------------------------------------------------
(* fork, vfork and clone.  The new pid is above all others, so the child   *)
(* is the highest runnable process, its entries are new, and its parent is *)
(* below it.                                                               *)
LEMMA ForkStep ==
  ASSUME PidReuse = FALSE, Inv, NEW p \in Pid, NEW q \in Pid,
         NEW how \in {"fork", "vfork", "thread"}, handleForkEvent(p, q, how)
  PROVE  Inv'
<1>0. /\ TypeOK /\ KernelTypeOK /\ SchedulerTypeOK /\ InLoop
      /\ task[p] = "live" /\ p = nextPid /\ threadsToExit = {}
      /\ Spawn(p, q, how)
  BY Zenon DEF Inv, TypeOK, handleForkEvent, InUserMode, Resumes, InLoop
<1>1. Tables /\ ExitLoopInv /\ Schedule /\ Finished
  BY <1>0, InvParts
<1>2. q > lastPid /\ task[q] = "free" /\ lastPid \in Pid
  BY <1>0 DEF Spawn, FreshPid, Free, KernelTypeOK
<1>3. KernelTypeOK'
  BY <1>0 DEF Spawn, KernelTypeOK
<1>4. exitLoop' = FALSE /\ threadsToExit' = {}
  BY <1>0, Zenon DEF handleForkEvent, InLoop, TypeOK
<1>5. CASE how # "thread" /\ members(q) # {}
  <2>1. SchedulerTypeOK' /\ thrown' # "none"
    BY <1>0, <1>5, ErrorEnds, Zenon DEF handleForkEvent, Errors
  <2>2. TypeOK'
    BY <1>0, <1>3, <1>5, <2>1, Zenon DEF handleForkEvent, TypeOK, stateVars, treeVars
  <2> QED BY <1>4, <2>1, <2>2, ThrownInv, Zenon
<1>6. CASE ~(how # "thread" /\ members(q) # {})
  <2> DEFINE g == tgid[p]
             cg == IF how = "thread" THEN g ELSE q
  <2>1. /\ p \in states /\ g \in states /\ g \in Pid /\ tgid[g] = g
        /\ threadGroupNumber[p] = g
        /\ q \notin states /\ threadGroupNumber[q] = 0
        /\ states \subseteq Pid
    <3>1. states = Pid \ Free /\ p \in states /\ q \notin states
      BY <1>0, <1>1, <1>2 DEF Tables, TablesMatchKernel, Free
    <3>2. g \in states /\ tgid[g] = g /\ threadGroupNumber[p] = g
      BY <1>1, <3>1, Zenon DEF Tables, TablesMatchKernel
    <3>3. threadGroupNumber[q] = 0
      BY <1>1, <1>2 DEF Tables, PidsGrow
    <3> QED BY <3>1, <3>2, <3>3
  <2>2. g < q /\ g # q /\ \A r \in states : r < q
    BY <1>1, <1>2, <2>1 DEF Tables, TablesMatchKernel, PidsGrow, Free, Pid
  <2>3. /\ liveThreads' = IF how = "thread" THEN liveThreads \cup {q} ELSE liveThreads
        /\ threadGroups' = threadGroups \cup {<<cg, q>>}
        /\ threadGroupNumber' = [threadGroupNumber EXCEPT ![q] = cg]
        /\ processTree' = processTree \cup {<<g, q>>}
        /\ states' = states \cup {q}
        /\ addAndScheduleNext(q)
        /\ UNCHANGED <<callPostHook, isExitGroup, signalToDeliver>>
    BY <1>6, <2>1, Zenon DEF handleForkEvent, groupOfChild, childEntry
  <2>4. /\ task' = [task EXCEPT ![q] = "live"]
        /\ tgid' = [tgid EXCEPT ![q] = cg]
        /\ lastPid' = q
    BY <1>0 DEF Spawn
  <2>5. /\ SchedulerTypeOK'
        /\ runnableHeap' = runnableHeap \cup {q} /\ nextPid' = q
        /\ UNCHANGED <<blockedHeap, finishedProcesses, thrown>>
    BY <1>0, <2>3 DEF addAndScheduleNext, SchedulerTypeOK
  <2> HIDE DEF g
  <2>6. TypeOK'
    <3>1. threadGroupNumber' \in [Pid -> Pid \cup {0}]
      BY <1>0, <2>1, <2>3 DEF TypeOK
    <3>2. threadGroups' \subseteq (Pid \cup {0}) \X Pid /\ processTree' \subseteq Pid \X Pid
      BY <1>0, <2>1, <2>3 DEF TypeOK
    <3>3. states' \subseteq Pid /\ liveThreads' \subseteq Pid
      BY <1>0, <2>3 DEF TypeOK
    <3>4. exitLoop' \in BOOLEAN
      BY <1>4, Zenon
    <3> QED BY <1>0, <1>3, <1>4, <2>3, <2>5, <3>1, <3>2, <3>3, <3>4 DEF TypeOK
  <2>7. PidsGrow'
    BY <1>0, <1>1, <1>2, <2>1, <2>2, <2>3, <2>4 DEF Tables, PidsGrow, Pid, KernelTypeOK, TypeOK
  <2>8. TablesMatchKernel'
    <3>0. \A r \in states : /\ r \in Pid /\ r # q
                            /\ threadGroupNumber[r] = tgid[r]
                            /\ tgid[r] \in states /\ tgid[r] \in Pid /\ tgid[r] # q
                            /\ tgid[tgid[r]] = tgid[r]
                            /\ tgid[r] # r => <<tgid[r], r>> \in processTree
      BY <1>1, <2>1 DEF Tables, TablesMatchKernel
    <3> USE <1>0, <1>1, <2>1, <2>2, <2>3, <2>4 DEF Tables, TypeOK, KernelTypeOK
    <3>1. states' = Pid \ Free'
      BY DEF TablesMatchKernel, Free
    <3>2. \A r \in Pid : tgid'[r] = 0 <=> task'[r] = "free"
      BY DEF TablesMatchKernel, Pid
    <3>3. cg \in states' /\ tgid'[cg] = cg
      OBVIOUS
    <3>4. ASSUME NEW r \in states'
          PROVE  /\ threadGroupNumber'[r] = tgid'[r]
                 /\ tgid'[r] \in states'
                 /\ tgid'[tgid'[r]] = tgid'[r]
                 /\ tgid'[r] # r => <<tgid'[r], r>> \in processTree'
      <4>1. CASE r = q
        <5>1. tgid'[r] = cg /\ threadGroupNumber'[r] = cg
          BY <4>1
        <5>2. cg # q => <<cg, q>> \in processTree'
          OBVIOUS
        <5> QED BY <3>3, <4>1, <5>1, <5>2
      <4>2. CASE r # q
        <5>1. r \in states
          BY <4>2
        <5>2. tgid'[r] = tgid[r] /\ threadGroupNumber'[r] = threadGroupNumber[r]
          BY <3>0, <4>2, <5>1
        <5>3. tgid'[tgid[r]] = tgid[tgid[r]]
          BY <3>0, <5>1, Zenon
        <5> QED BY <3>0, <5>1, <5>2, <5>3
      <4> QED BY <4>1, <4>2
    <3>5. ASSUME NEW h \in Pid \cup {0}, NEW r \in Pid
          PROVE  <<h, r>> \in threadGroups' <=> r \in states' /\ h = tgid'[r]
      <4>1. <<h, r>> \in threadGroups <=> r \in states /\ h = tgid[r]
        BY DEF TablesMatchKernel
      <4>2. CASE r = q
        BY <4>1, <4>2
      <4>3. CASE r # q
        BY <4>1, <4>3
      <4> QED BY <4>2, <4>3
    <3>6. ASSUME NEW r \in Pid
          PROVE  r \in liveThreads' <=> r \in states' /\ tgid'[r] # r
      <4>1. r \in liveThreads <=> r \in states /\ tgid[r] # r
        BY DEF TablesMatchKernel
      <4>2. CASE r = q
        BY <4>1, <4>2
      <4>3. CASE r # q
        BY <4>1, <4>3
      <4> QED BY <4>2, <4>3
    <3> QED BY <3>1, <3>2, <3>4, <3>5, <3>6 DEF TablesMatchKernel
  <2>9. TreeIsForest'
    BY <1>1, <2>1, <2>3 DEF Tables, TreeIsForest
  <2>10. Schedule'
    BY <1>1, <2>1, <2>2, <2>3, <2>5 DEF Schedule, Disjoint, Picked, Pid
  <2>11. Finished'
    <3>1. \A f \in finishedProcesses : f # nextPid /\ f # q /\ f \in Pid
      BY <1>0, <1>1, <2>1 DEF Schedule, Finished, FinishedAreExiting
    <3> QED BY <1>0, <1>1, <2>3, <2>4, <2>5, <3>1, Zenon
            DEF Finished, FinishedAreExiting, children, KernelTypeOK
  <2>12. ExitLoopInv'
    BY <1>4 DEF ExitLoopInv
  <2> QED BY <1>4, <2>6, <2>7, <2>8, <2>9, <2>10, <2>11, <2>12, LoopInv, Zenon DEF Tables
<1> QED BY <1>5, <1>6
-----------------------------------------------------------------------------
(* A process that is marked as finished when it has children, in a step    *)
(* that makes it exit: it leaves the heaps and waits for the children.     *)
LEMMA MarkedInv ==
  ASSUME Inv, InLoop, threadsToExit = {}, task[nextPid] = "live",
         NEW f \in Pid, markFinishedAndScheduleNext(f),
         children(f) # {}, task'[f] \in {"dying", "exiting"},
         TypeOK' \/ ~SchedulerTypeOK',
         UNCHANGED <<states, treeVars, tgid, lastPid, exitLoop>>,
         threadsToExit' # {} =>
           f \in states /\ \A t \in threadsToExit' : tgid[t] = f /\ t # f,
         \A p \in Pid : /\ task'[p] = "free" <=> task[p] = "free"
                        /\ task[p] \in {"dying", "exiting"} => task'[p] \in {"dying", "exiting"}
  PROVE  Inv'
<1>1. /\ TypeOK /\ SchedulerTypeOK /\ Tables /\ Schedule /\ Finished
      /\ thrown = "none" /\ Disjoint
  BY InvParts DEF TypeOK, InLoop, Schedule
<1>2. /\ SchedulerTypeOK'
      /\ thrown' = "none" =>
           /\ inHeaps(f)
           /\ finishedProcesses' = finishedProcesses \cup {f}
           /\ runnableHeap' \cup blockedHeap' = (runnableHeap \cup blockedHeap) \ {f}
           /\ Disjoint' /\ Picked'
  BY <1>1, MarkFinished
<1>3. exitLoop' = FALSE
  BY <1>1 DEF InLoop, TypeOK
<1>4. CASE thrown' # "none"
  BY <1>2, <1>3, <1>4, ThrownInv, Zenon
<1>5. CASE thrown' = "none"
  <2>1. Tables'
    BY <1>1, SameTables
  <2>2. Schedule'
    BY <1>1, <1>2, <1>5 DEF Schedule, inHeaps
  <2>3. ExitLoopInv'
    BY <1>2, <1>5 DEF ExitLoopInv, Picked, treeVars
  <2>4. Finished'
    <3>1. \A r \in finishedProcesses : r # nextPid /\ r \in Pid
      BY <1>1 DEF Finished, FinishedAreExiting, SchedulerTypeOK
    <3>2. processTree' = processTree
      BY DEF treeVars
    <3> QED BY <1>1, <1>2, <1>5, <3>1, <3>2 DEF Finished, FinishedAreExiting, children
  <2> QED BY <1>2, <1>3, <2>1, <2>2, <2>3, <2>4, LoopInv, Zenon
<1> QED BY <1>4, <1>5

(* PTRACE_EVENT_EXIT of a live task, when the kernel lets only tasks of    *)
(* its group start to die, and all of them in an exit_group.               *)
LEMMA EventExitInv ==
  ASSUME Inv, NEW p \in Pid, Resumes(p), task[p] = "live", EventExit(p),
         KernelTypeOK', UNCHANGED <<tgid, lastPid>>, task'[p] = "exiting",
         p \in isExitGroup => \A q \in Group(p) : task'[q] \in {"dying", "exiting"},
         \A q \in Pid : /\ task'[q] = "free" <=> task[q] = "free"
                        /\ task[q] \in {"dying", "exiting"} => task'[q] \in {"dying", "exiting"}
  PROVE  Inv'
<1>0. /\ TypeOK /\ KernelTypeOK /\ SchedulerTypeOK /\ InLoop
      /\ p = nextPid /\ threadsToExit = {}
  BY DEF Inv, TypeOK, Resumes, InLoop
<1>1. Tables
  BY <1>0, InvParts
<1> DEFINE g == threadGroupNumber[p]
<1>2. /\ g = tgid[p] /\ g \in Pid /\ g \in states /\ tgid[g] = g
  <2>1. p \in states /\ states \subseteq Pid
    BY <1>1 DEF Tables, TablesMatchKernel, Free
  <2>2. threadGroupNumber[p] = tgid[p] /\ tgid[p] \in states /\ tgid[tgid[p]] = tgid[p]
    BY <1>1, <2>1, Zenon DEF Tables, TablesMatchKernel
  <2> QED BY <2>1, <2>2
<1>3. \A q \in members(g) \ {g} : q \in Pid /\ tgid[q] = g /\ <<g, q>> \in processTree
  BY <1>1, <1>2 DEF Tables, TablesMatchKernel, members
<1>4. SchedulerTypeOK' /\ threadsToExit' \subseteq Pid => TypeOK'
  BY <1>0 DEF EventExit, TypeOK, treeVars
<1>5. UNCHANGED <<states, treeVars, exitLoop>>
  BY Zenon DEF EventExit
<1>6. CASE p \in isExitGroup /\ Cardinality(members(g)) # 1
  <2>1. markFinishedAndScheduleNext(g) /\ threadsToExit' = members(g) \ {g}
    BY <1>6, Zenon DEF EventExit
  <2>2. g \in members(g)
    BY <1>1, <1>2 DEF Tables, TablesMatchKernel, members
  <2>3. members(g) # {g}
    BY <1>6, FS_Singleton
  <2>4. children(g) # {}
    BY <1>3, <2>2, <2>3, Zenon DEF children
  <2>5. task'[g] \in {"dying", "exiting"}
    BY <1>2, <1>6 DEF Group
  <2>6. /\ threadsToExit' \subseteq Pid
        /\ g \in states /\ \A t \in threadsToExit' : tgid[t] = g /\ t # g
    BY <1>2, <1>3, <2>1, Zenon
  <2> HIDE DEF g
  <2> QED BY <1>0, <1>2, <1>4, <1>5, <2>1, <2>4, <2>5, <2>6, MarkedInv, Zenon
<1>7. CASE ~(p \in isExitGroup /\ Cardinality(members(g)) # 1)
  <2>1. threadsToExit' = {}
    BY <1>0, <1>7 DEF EventExit
  <2>2. CASE children(p) # {}
    <3>1. markFinishedAndScheduleNext(p)
      BY <1>7, <2>2 DEF EventExit
    <3>2. /\ threadsToExit' \subseteq Pid
          /\ task'[p] \in {"dying", "exiting"} /\ task[nextPid] = "live"
      BY <1>0, <2>1
    <3>3. TypeOK' \/ ~SchedulerTypeOK'
      BY <1>4, <3>2
    <3> QED BY <1>0, <1>5, <2>1, <2>2, <3>1, <3>2, <3>3, MarkedInv
  <2>3. CASE children(p) = {}
    <3>1. UNCHANGED schedVars
      BY <1>7, <2>3 DEF EventExit
    <3>2. TypeOK'
      BY <1>0, <1>4, <2>1, <3>1 DEF schedVars, SchedulerTypeOK
    <3> QED BY <1>0, <1>5, <2>1, <3>1, <3>2, QuietInv
  <2> QED BY <2>2, <2>3
<1> QED BY <1>6, <1>7

(* exit, exit_group and the delivery of a fatal signal.                    *)
LEMMA ExitSteps ==
  ASSUME Inv, NEW p \in Pid, exit(p) \/ exit_group(p) \/ deliverSignal(p)
  PROVE  Inv'
<1>0. KernelTypeOK /\ Resumes(p) /\ task[p] = "live"
  BY DEF Inv, TypeOK, exit, exit_group, deliverSignal, InUserMode
<1>1. CASE exit(p)
  <2>1. /\ task' = [task EXCEPT ![p] = "exiting"] /\ EventExit(p)
        /\ UNCHANGED <<tgid, lastPid, signaled, inExecve, vforking>>
        /\ p \notin isExitGroup
    BY <1>1 DEF exit, ExitThread, InUserMode
  <2>2. KernelTypeOK'
    BY <1>0, <2>1 DEF KernelTypeOK
  <2>3. \A q \in Pid : task'[q] = IF q = p THEN "exiting" ELSE task[q]
    BY <1>0, <2>1 DEF KernelTypeOK
  <2> QED BY <1>0, <2>1, <2>2, <2>3, EventExitInv
<1>2. CASE exit_group(p) \/ deliverSignal(p)
  <2>1. GroupDeath(p) /\ EventExit(p) /\ UNCHANGED <<tgid, lastPid, inExecve, vforking>>
    BY <1>2 DEF exit_group, deliverSignal, ExitGroup, FatalSignal
  <2>2. signaled' \subseteq Pid
    BY <1>0, <1>2 DEF exit_group, deliverSignal, ExitGroup, FatalSignal, Group, KernelTypeOK
  <2>3. /\ task' \in [Pid -> {"free", "live", "dying", "exiting"}]
        /\ \A q \in Pid : task'[q] = CASE q = p -> "exiting"
                                       [] q \in Group(p) \ {p} /\ task[q] = "live" -> "dying"
                                       [] OTHER -> task[q]
    BY <1>0, <2>1 DEF GroupDeath, KernelTypeOK
  <2>4. KernelTypeOK'
    BY <1>0, <2>1, <2>2, <2>3 DEF KernelTypeOK
  <2>5. \A q \in Group(p) : q \in Pid /\ task[q] # "free"
    <3>1. Tables
      BY <1>0, InvParts DEF Resumes, InLoop
    <3> QED BY <1>0, <3>1 DEF Tables, TablesMatchKernel, Group
  <2>6. \A q \in Group(p) : task'[q] \in {"dying", "exiting"}
    BY <1>0, <2>3, <2>5 DEF KernelTypeOK
  <2>7. \A q \in Pid : /\ task'[q] = "free" <=> task[q] = "free"
                       /\ task[q] \in {"dying", "exiting"} => task'[q] \in {"dying", "exiting"}
    BY <1>0, <2>3
  <2>8. task'[p] = "exiting"
    BY <2>3
  <2> QED BY <1>0, <2>1, <2>4, <2>6, <2>7, <2>8, EventExitInv
<1> QED BY <1>1, <1>2
-----------------------------------------------------------------------------
(* The end of a task that leads no other: its entries go, the others stay. *)
LEMMA EndTables ==
  ASSUME TypeOK, Tables, NEW p \in states, Reap(p),
         \A q \in states : q # p => tgid[q] # p,
         processTree' = {e \in processTree : e[2] # p},
         states' = states \ {p},
         liveThreads' = liveThreads \ {p},
         threadGroupNumber' = IF p \in liveThreads
                              THEN [threadGroupNumber EXCEPT ![p] = 0]
                              ELSE threadGroupNumber,
         threadGroups' = threadGroups \ {<<threadGroupNumber[p], p>>}
  PROVE  Tables'
<1>0. /\ p \in Pid /\ states \subseteq Pid
      /\ task \in [Pid -> {"free", "live", "dying", "exiting"}]
      /\ tgid \in [Pid -> Pid \cup {0}]
      /\ threadGroupNumber \in [Pid -> Pid \cup {0}]
      /\ processTree \subseteq Pid \X Pid
  BY DEF TypeOK, KernelTypeOK
<1>1. /\ task' = [task EXCEPT ![p] = "free"]
      /\ tgid' = [tgid EXCEPT ![p] = 0]
      /\ lastPid' = lastPid
  BY DEF Reap
<1>2. \A q, r \in Pid : <<q, r>> \in processTree' <=> <<q, r>> \in processTree /\ r # p
  OBVIOUS
<1>3. \A q \in Pid : q # p => threadGroupNumber'[q] = threadGroupNumber[q]
  BY <1>0
<1>4. PidsGrow'
  <2>1. \A q \in Pid : q > lastPid' => task'[q] = "free" /\ threadGroupNumber'[q] = 0
    BY <1>0, <1>1 DEF Tables, PidsGrow
  <2> QED BY <1>2, <2>1 DEF Tables, PidsGrow
<1>5. TreeIsForest'
  BY <1>2 DEF Tables, TreeIsForest
<1>6. TablesMatchKernel'
  <2>0. \A r \in states : /\ threadGroupNumber[r] = tgid[r]
                          /\ tgid[r] \in states
                          /\ tgid[tgid[r]] = tgid[r]
                          /\ tgid[r] # r => <<tgid[r], r>> \in processTree
    BY DEF Tables, TablesMatchKernel
  <2>1. states' = Pid \ Free'
    BY <1>0, <1>1 DEF Tables, TablesMatchKernel, Free
  <2>2. \A r \in Pid : tgid'[r] = 0 <=> task'[r] = "free"
    BY <1>0, <1>1 DEF Tables, TablesMatchKernel
  <2>3. ASSUME NEW r \in states'
        PROVE  /\ threadGroupNumber'[r] = tgid'[r]
               /\ tgid'[r] \in states'
               /\ tgid'[tgid'[r]] = tgid'[r]
               /\ tgid'[r] # r => <<tgid'[r], r>> \in processTree'
    <3>1. r \in states /\ r # p /\ r \in Pid /\ tgid[r] # p /\ tgid[r] \in Pid
      BY <1>0, <2>0, Zenon
    <3>2. tgid'[r] = tgid[r] /\ tgid'[tgid[r]] = tgid[tgid[r]]
      BY <1>0, <1>1, <3>1
    <3> QED BY <1>2, <1>3, <2>0, <3>1, <3>2
  <2>4. ASSUME NEW h \in Pid \cup {0}, NEW r \in Pid
        PROVE  <<h, r>> \in threadGroups' <=> r \in states' /\ h = tgid'[r]
    <3>1. <<h, r>> \in threadGroups <=> r \in states /\ h = tgid[r]
      BY DEF Tables, TablesMatchKernel
    <3>2. threadGroupNumber[p] = tgid[p]
      BY <2>0, Zenon
    <3> QED BY <1>0, <1>1, <3>1, <3>2
  <2>5. ASSUME NEW r \in Pid
        PROVE  r \in liveThreads' <=> r \in states' /\ tgid'[r] # r
    BY <1>0, <1>1 DEF Tables, TablesMatchKernel
  <2> QED BY <2>1, <2>2, <2>3, <2>4, <2>5 DEF TablesMatchKernel
<1> QED BY <1>4, <1>5, <1>6 DEF Tables

(* If finished processes all wait for a child, the heaps are empty only    *)
(* when nothing is left: the highest finished process would have a child,  *)
(* which is higher, so it is not finished and is in a heap.                *)
LEMMA EmptyHeaps ==
  ASSUME Tables, finishedProcesses \subseteq Pid, states = finishedProcesses,
         \A f \in finishedProcesses : children(f) # {}
  PROVE  states = {}
<1> SUFFICES ASSUME states # {} PROVE FALSE
  OBVIOUS
<1>1. PICK f \in finishedProcesses : \A q \in finishedProcesses : q <= f
  BY LargestPid
<1>2. PICK c \in Pid : <<f, c>> \in processTree
  BY DEF children
<1>3. c \in states /\ f < c
  BY <1>2 DEF Tables, TreeIsForest, PidsGrow
<1> QED BY <1>1, <1>3 DEF Pid

(* What handleNonEventExit leaves when it does not throw: the tables       *)
(* without the task, and either the next process of the heaps, or its      *)
(* finished parent, to run next; only when nothing is left, neither.       *)
LEMMA EndTask ==
  ASSUME Inv, InLoop, NEW p \in Pid, task[p] # "free", Reap(p), handleNonEventExit(p),
         \A q \in states : q # p => tgid[q] # p,
         p = nextPid \/ nextPid \in runnableHeap
  PROVE  /\ SchedulerTypeOK'
         /\ thrown' = "none" =>
              /\ Tables' /\ Finished'
              /\ states' = states \ {p}
              /\ states' = runnableHeap' \cup blockedHeap' \cup finishedProcesses'
              /\ Disjoint'
              /\ finishedProcesses' \cap (runnableHeap' \cup blockedHeap') = {}
              /\ \/ /\ waitingParent(p) = {}
                    /\ \/ Picked'
                       \/ states' = {} /\ runnableHeap' = {} /\ blockedHeap' = {}
                 \/ /\ waitingParent(p) # {}
                    /\ nextPid' \in finishedProcesses'
                    /\ children(nextPid') = {p}
<1>0. /\ TypeOK /\ SchedulerTypeOK /\ Tables /\ Schedule /\ Finished /\ thrown = "none"
      /\ finishedProcesses \subseteq Pid /\ processTree \subseteq Pid \X Pid
      /\ task \in [Pid -> {"free", "live", "dying", "exiting"}]
  BY InvParts DEF TypeOK, SchedulerTypeOK, KernelTypeOK, InLoop
<1>1. p \in states /\ <<threadGroupNumber[p], p>> \in threadGroups
  <2>1. p \in states
    BY <1>0 DEF Tables, TablesMatchKernel, Free
  <2>2. threadGroupNumber[p] \in Pid \cup {0} /\ threadGroupNumber[p] = tgid[p]
    BY <1>0, <2>1, Zenon DEF TypeOK, Tables, TablesMatchKernel
  <2> QED BY <1>0, <2>1, <2>2 DEF Tables, TablesMatchKernel
<1>2. /\ processTree' = {e \in processTree : e[2] # p}
      /\ states' = states \ {p}
      /\ liveThreads' = liveThreads \ {p}
      /\ threadGroupNumber' = IF p \in liveThreads
                              THEN [threadGroupNumber EXCEPT ![p] = 0]
                              ELSE threadGroupNumber
      /\ threadGroups' = threadGroups \ {<<threadGroupNumber[p], p>>}
      /\ \/ waitingParent(p) = {} /\ removeAndScheduleNext(p)
         \/ \E parent \in waitingParent(p) : removeAndScheduleParent(p, parent)
  BY <1>1, Zenon DEF handleNonEventExit
<1>3. Tables'
  BY <1>0, <1>1, <1>2, EndTables
<1>4. \A q \in finishedProcesses : q # p => task'[q] \in {"dying", "exiting"}
  BY <1>0 DEF Finished, FinishedAreExiting, Reap
<1>5. \A q \in finishedProcesses : q # p => children(q) # {}
  BY <1>0 DEF Finished, Schedule
<1>6. \A q, r \in Pid : <<q, r>> \in processTree' <=> <<q, r>> \in processTree /\ r # p
  BY <1>2
<1>7. CASE waitingParent(p) = {} /\ removeAndScheduleNext(p)
  <2>1. /\ SchedulerTypeOK'
        /\ thrown' = "none" =>
             /\ finishedProcesses' = finishedProcesses \ {p}
             /\ runnableHeap' \cup blockedHeap' = (runnableHeap \cup blockedHeap) \ {p}
             /\ Disjoint'
             /\ Picked' \/ runnableHeap' \cup blockedHeap' = {}
    BY <1>0, <1>7, RemoveNext DEF Schedule
  <2> SUFFICES ASSUME thrown' = "none"
               PROVE  /\ Finished'
                      /\ states' = runnableHeap' \cup blockedHeap' \cup finishedProcesses'
                      /\ finishedProcesses' \cap (runnableHeap' \cup blockedHeap') = {}
                      /\ Picked' \/ states' = {}
    BY <1>2, <1>3, <1>7, <2>1
  <2>2. /\ states' = runnableHeap' \cup blockedHeap' \cup finishedProcesses'
        /\ finishedProcesses' \cap (runnableHeap' \cup blockedHeap') = {}
    BY <1>0, <1>2, <2>1 DEF Schedule
  <2>3. ASSUME NEW f \in finishedProcesses' PROVE children(f)' # {}
    <3>1. f \in finishedProcesses /\ f # p /\ f \in Pid
      BY <1>0, <2>1
    <3>2. children(f) # {} /\ children(f) # {p}
      BY <1>5, <1>7, <3>1 DEF waitingParent, isFinished
    <3>3. PICK c \in children(f) : c # p
      BY <3>2
    <3> QED BY <1>6, <3>1, <3>3 DEF children
  <2>4. Finished'
    BY <1>4, <2>1, <2>3 DEF Finished, FinishedAreExiting
  <2>5. ASSUME runnableHeap' \cup blockedHeap' = {} PROVE states' = {}
    <3>1. finishedProcesses' \subseteq Pid /\ states' = finishedProcesses'
      BY <1>0, <2>1, <2>2, <2>5
    <3>2. (/\ Tables
           /\ finishedProcesses \subseteq Pid
           /\ states = finishedProcesses
           /\ \A f \in finishedProcesses : children(f) # {}
           => states = {})'
      BY EmptyHeaps, PTL
    <3> QED BY <1>3, <2>3, <3>1, <3>2
  <2> QED BY <2>1, <2>2, <2>4, <2>5
<1>8. CASE \E parent \in waitingParent(p) : removeAndScheduleParent(p, parent)
  <2>1. PICK parent \in waitingParent(p) : removeAndScheduleParent(p, parent)
    BY <1>8
  <2>2. parent \in Pid /\ children(parent) = {p} /\ <<parent, p>> \in processTree
    BY DEF waitingParent, children
  <2>3. /\ SchedulerTypeOK'
        /\ thrown' = "none" =>
             /\ inHeaps(p)
             /\ parent \in finishedProcesses
             /\ nextPid' = parent
             /\ finishedProcesses' = finishedProcesses
             /\ runnableHeap' \cup blockedHeap' = (runnableHeap \cup blockedHeap) \ {p}
             /\ Disjoint'
    BY <1>0, <2>1, <2>2, RemoveParent DEF Schedule
  <2> SUFFICES ASSUME thrown' = "none"
               PROVE  /\ Finished'
                      /\ states' = runnableHeap' \cup blockedHeap' \cup finishedProcesses'
                      /\ finishedProcesses' \cap (runnableHeap' \cup blockedHeap') = {}
    BY <1>2, <1>3, <2>1, <2>2, <2>3
  <2>4. p \notin finishedProcesses
    BY <1>0, <2>3 DEF Schedule, inHeaps
  <2>5. /\ states' = runnableHeap' \cup blockedHeap' \cup finishedProcesses'
        /\ finishedProcesses' \cap (runnableHeap' \cup blockedHeap') = {}
    BY <1>0, <1>2, <2>3, <2>4 DEF Schedule
  <2>6. ASSUME NEW f \in finishedProcesses', f # nextPid' PROVE children(f)' # {}
    <3>1. f \in finishedProcesses /\ f # p /\ f \in Pid /\ f # parent
      <4>1. finishedProcesses \subseteq Pid
        BY <1>0
      <4>2. finishedProcesses' = finishedProcesses /\ nextPid' = parent
        BY <2>3
      <4> QED BY <2>4, <2>6, <4>1, <4>2
    <3>2. PICK c \in children(f) : TRUE
      BY <1>5, <3>1
    <3>3. c \in Pid /\ <<f, c>> \in processTree
      BY <3>2 DEF children
    <3>4. c # p
      BY <1>0, <2>2, <3>1, <3>3 DEF Tables, TreeIsForest
    <3> QED BY <1>6, <3>1, <3>3, <3>4 DEF children
  <2> QED BY <1>4, <2>3, <2>4, <2>5, <2>6 DEF Finished, FinishedAreExiting
<1> QED BY <1>2, <1>7, <1>8, Zenon

LEMMA EndTypeOK ==
  ASSUME TypeOK, NEW p \in Pid, Reap(p),
         handleNonEventExit(p) \/ UNCHANGED <<stateVars, treeVars>>,
         SchedulerTypeOK', threadsToExit' \subseteq threadsToExit, exitLoop' \in BOOLEAN
  PROVE  TypeOK'
<1>0. /\ KernelTypeOK /\ states \subseteq Pid /\ callPostHook \subseteq Pid
      /\ isExitGroup \subseteq Pid /\ signalToDeliver \subseteq Pid
      /\ processTree \subseteq Pid \X Pid /\ threadGroups \subseteq (Pid \cup {0}) \X Pid
      /\ threadGroupNumber \in [Pid -> Pid \cup {0}]
      /\ liveThreads \subseteq Pid /\ threadsToExit \subseteq Pid
  BY DEF TypeOK
<1>1. KernelTypeOK'
  <2>1. vforking' \subseteq vforking /\ signaled' \subseteq signaled
    BY DEF Reap
  <2> QED BY <1>0, <2>1 DEF KernelTypeOK, Reap
<1>2. /\ states' \subseteq Pid /\ callPostHook' \subseteq Pid
      /\ isExitGroup' \subseteq Pid /\ signalToDeliver' \subseteq Pid
      /\ processTree' \subseteq Pid \X Pid /\ threadGroups' \subseteq (Pid \cup {0}) \X Pid
      /\ threadGroupNumber' \in [Pid -> Pid \cup {0}]
      /\ liveThreads' \subseteq Pid
  <2>1. CASE UNCHANGED <<stateVars, treeVars>>
    BY <1>0, <2>1 DEF stateVars, treeVars
  <2>2. CASE handleNonEventExit(p) /\ ~UNCHANGED <<stateVars, treeVars>>
    <3>1. /\ states' \subseteq states /\ callPostHook' \subseteq callPostHook
          /\ isExitGroup' \subseteq isExitGroup /\ signalToDeliver' \subseteq signalToDeliver
          /\ processTree' \subseteq processTree /\ threadGroups' \subseteq threadGroups
          /\ liveThreads' \subseteq liveThreads
          /\ \/ threadGroupNumber' = threadGroupNumber
             \/ threadGroupNumber' = [threadGroupNumber EXCEPT ![p] = 0]
      BY <2>2, Zenon DEF handleNonEventExit
    <3> QED BY <1>0, <3>1
  <2> QED BY <2>1, <2>2
<1> QED BY <1>0, <1>1, <1>2 DEF TypeOK

(* The end of the process the loop waits for; the loop ends with the last. *)
LEMMA TraceeEndsStep ==
  ASSUME Inv, NEW p \in Pid, TraceeEnds(p)
  PROVE  Inv'
<1>0. /\ InLoop /\ thrown = "none" /\ exitLoop = FALSE
      /\ p = nextPid /\ threadsToExit = {} /\ threadsToExit' = {}
      /\ task[p] # "free" /\ CanReap(p) /\ Reap(p)
      /\ TypeOK /\ SchedulerTypeOK /\ Tables /\ Schedule
  BY InvParts, Zenon DEF TraceeEnds, Resumes, InLoop, TypeOK
<1>1. CASE runtimeError("exit with children") /\ UNCHANGED <<stateVars, treeVars, exitLoop>>
  <2>1. SchedulerTypeOK' /\ thrown' # "none"
    BY <1>0, <1>1, ErrorEnds, Zenon DEF Errors
  <2>2. exitLoop' = FALSE
    BY <1>0, <1>1, Zenon
  <2>3. TypeOK'
    BY <1>0, <1>1, <2>1, <2>2, EndTypeOK, Zenon
  <2> QED BY <2>1, <2>2, <2>3, ThrownInv, Zenon
<1>2. CASE handleNonEventExit(p) /\ exitLoop' = allProcessesFinished(p)
  <2>1. \A q \in states : q # p => tgid[q] # p
    <3>1. SUFFICES ASSUME NEW q \in states, q # p, tgid[q] = p PROVE FALSE
      OBVIOUS
    <3>2. q \in Pid /\ tgid[p] = p
      BY <1>0, <3>1, Zenon DEF Tables, TablesMatchKernel
    <3> QED BY <1>0, <3>1, <3>2 DEF CanReap, Group
  <2>2. /\ SchedulerTypeOK'
        /\ thrown' = "none" =>
             /\ Tables' /\ Finished'
             /\ states' = runnableHeap' \cup blockedHeap' \cup finishedProcesses'
             /\ Disjoint'
             /\ finishedProcesses' \cap (runnableHeap' \cup blockedHeap') = {}
             /\ \/ /\ waitingParent(p) = {}
                   /\ \/ Picked'
                      \/ states' = {} /\ runnableHeap' = {} /\ blockedHeap' = {}
                \/ /\ waitingParent(p) # {}
                   /\ nextPid' \in finishedProcesses'
    BY <1>0, <1>2, <2>1, EndTask
  <2>3. exitLoop' \in BOOLEAN
    BY <1>2 DEF allProcessesFinished
  <2>4. TypeOK'
    BY <1>0, <1>2, <2>2, <2>3, EndTypeOK
  <2>5. CASE thrown' # "none"
    <3>1. exitLoop' = FALSE
      BY <1>2, <2>5 DEF allProcessesFinished
    <3> QED BY <2>4, <2>5, <3>1, ThrownInv, Zenon
  <2>6. CASE thrown' = "none" /\ exitLoop' = FALSE
    <3>1. nextPid' \in finishedProcesses' \/ Picked'
      BY <1>2, <2>2, <2>6 DEF allProcessesFinished
    <3>2. Schedule'
      BY <2>2, <2>6, <3>1 DEF Schedule
    <3>3. ExitLoopInv'
      BY <1>0 DEF ExitLoopInv
    <3> QED BY <2>2, <2>4, <2>6, <3>2, <3>3, LoopInv, Zenon
  <2>7. CASE thrown' = "none" /\ exitLoop' = TRUE
    <3>1. waitingParent(p) = {} /\ runnableHeap' = {} /\ blockedHeap' = {}
      BY <1>2, <2>7 DEF allProcessesFinished
    <3>2. states' = {} /\ finishedProcesses' = {}
      BY <2>2, <2>7, <3>1 DEF Picked
    <3>3. Free' = Pid
      BY <2>2, <2>7, <3>2 DEF Tables, TablesMatchKernel, Free
    <3>4. threadGroups' = {} /\ liveThreads' = {}
      <4>1. /\ \A g \in Pid \cup {0}, r \in Pid : <<g, r>> \notin threadGroups'
            /\ \A r \in Pid : r \notin liveThreads'
        BY <2>2, <2>7, <3>2 DEF Tables, TablesMatchKernel
      <4>2. threadGroups' \subseteq (Pid \cup {0}) \X Pid /\ liveThreads' \subseteq Pid
        BY <2>4 DEF TypeOK
      <4> QED BY <4>1, <4>2
    <3>5. processTree' = {}
      <4>1. \A q, r \in Pid : <<q, r>> \notin processTree'
        BY <2>2, <2>7, <3>2, Zenon DEF Tables, TreeIsForest
      <4>2. processTree' \subseteq Pid \X Pid
        BY <2>4 DEF TypeOK
      <4> QED BY <4>1, <4>2
    <3>6. NothingLeftBehind'
      BY <3>2, <3>3, <3>4, <3>5 DEF NothingLeftBehind
    <3>7. InLoop' = FALSE
      BY <2>7 DEF InLoop
    <3> QED BY <2>4, <3>6, <3>7 DEF Inv, SchedulerKnowsTracees, RunsHighestPid,
                                    FinishedAwaitChildren
  <2> QED BY <2>3, <2>5, <2>6, <2>7, Zenon
<1> QED BY <1>1, <1>2, Zenon DEF TraceeEnds

(* The end of one thread of an exit_group.  Its leader is still there, so  *)
(* the heaps cannot run empty; the leader, finished, is scheduled by the   *)
(* last thread only.                                                       *)
LEMMA ExitGroupThreadStep ==
  ASSUME Inv, NEW t \in Pid, ExitGroupThread(t)
  PROVE  Inv'
<1>0. /\ InLoop /\ thrown = "none" /\ t \in threadsToExit
      /\ threadsToExit' = threadsToExit \ {t}
      /\ TypeOK /\ SchedulerTypeOK /\ Tables /\ ExitLoopInv
      /\ threadsToExit \subseteq Pid
  BY InvParts, Zenon DEF ExitGroupThread, InLoop, TypeOK
<1>1. exitLoop' = FALSE
  BY <1>0, Zenon DEF ExitGroupThread, TypeOK
<1>2. nextPid \in runnableHeap
  BY <1>0 DEF ExitLoopInv
<1>3. PICK leader \in states : \A r \in threadsToExit : tgid[r] = leader /\ r # leader
  BY <1>0 DEF ExitLoopInv
<1>4. /\ leader \in Pid
      /\ \A r \in threadsToExit : r \in states /\ <<leader, r>> \in processTree
  <2>1. leader \in Pid /\ leader # 0
    BY <1>0, <1>3 DEF TypeOK, Pid
  <2>2. ASSUME NEW r \in threadsToExit PROVE r \in states
    <3>1. r \in Pid /\ tgid[r] # 0
      BY <1>0, <1>3, <2>1
    <3> QED BY <1>0, <3>1 DEF Tables, TablesMatchKernel, Free
  <2> QED BY <1>0, <1>3, <2>1, <2>2 DEF Tables, TablesMatchKernel
<1>5. CASE runtimeError("unexpected event") /\ UNCHANGED <<kernelVars, stateVars, treeVars>>
  <2>1. SchedulerTypeOK' /\ thrown' # "none"
    BY <1>0, <1>5, ErrorEnds, Zenon DEF Errors
  <2>2. TypeOK'
    BY <1>0, <1>1, <1>5, <2>1, Zenon
    DEF TypeOK, KernelTypeOK, kernelVars, stateVars, treeVars
  <2> QED BY <1>1, <2>1, <2>2, ThrownInv, Zenon
<1>6. CASE Reap(t) /\ handleNonEventExit(t) /\ task[t] # "free"
  <2>1. \A q \in states : q # t => tgid[q] # t
    BY <1>0, <1>3, <1>4, Zenon DEF Tables, TablesMatchKernel
  <2>2. /\ SchedulerTypeOK'
        /\ thrown' = "none" =>
             /\ Tables' /\ Finished'
             /\ states' = states \ {t}
             /\ states' = runnableHeap' \cup blockedHeap' \cup finishedProcesses'
             /\ Disjoint'
             /\ finishedProcesses' \cap (runnableHeap' \cup blockedHeap') = {}
             /\ \/ Picked'
                \/ states' = {}
                \/ /\ nextPid' \in finishedProcesses'
                   /\ children(nextPid') = {t}
    BY <1>0, <1>2, <1>6, <2>1, EndTask, Zenon
  <2>3. exitLoop' \in BOOLEAN /\ threadsToExit' \subseteq threadsToExit
    BY <1>0, <1>1, Zenon
  <2>4. TypeOK'
    BY <1>0, <1>6, <2>2, <2>3, EndTypeOK
  <2>5. CASE thrown' # "none"
    BY <1>1, <2>4, <2>5, ThrownInv, Zenon
  <2>6. CASE thrown' = "none"
    <3>1. leader \in states'
      BY <1>0, <1>3, <2>2, <2>6
    <3>2. Schedule'
      BY <2>2, <2>6, <3>1 DEF Schedule
    <3>3. ExitLoopInv'
      <4>1. \A r \in threadsToExit' : tgid'[r] = leader /\ r # leader
        BY <1>0, <1>3, <1>6 DEF Reap, TypeOK, KernelTypeOK
      <4>2. CASE Picked'
        BY <3>1, <4>1, <4>2 DEF ExitLoopInv, Picked
      <4>3. CASE nextPid' \in finishedProcesses' /\ children(nextPid') = {t}
        <5>1. nextPid' \in Pid /\ <<nextPid', t>> \in processTree
          BY <2>2, <4>3 DEF SchedulerTypeOK, children
        <5>2. nextPid' = leader
          BY <1>0, <1>4, <5>1, Zenon DEF Tables, TreeIsForest
        <5>3. ASSUME NEW r \in threadsToExit PROVE r \in children(leader)
          BY <1>0, <1>4 DEF children
        <5>4. threadsToExit' = {}
          BY <1>0, <4>3, <5>2, <5>3
        <5> QED BY <5>4 DEF ExitLoopInv
      <4> QED BY <2>2, <2>6, <3>1, <4>2, <4>3
    <3> QED BY <1>1, <2>2, <2>4, <2>6, <3>2, <3>3, LoopInv, Zenon
  <2> QED BY <2>5, <2>6
<1> QED BY <1>5, <1>6, Zenon DEF ExitGroupThread
-----------------------------------------------------------------------------
(* Every step of the tracer preserves the invariant.                       *)
THEOREM NextInv == PidReuse = FALSE /\ Inv /\ [Next]_vars => Inv'
<1> SUFFICES ASSUME PidReuse = FALSE, Inv, [Next]_vars PROVE Inv'
  BY Zenon
<1>1. ASSUME NEW p \in Pid, SystemCall(p) PROVE Inv'
  BY <1>1, QuietSteps, KillStep, PostHookStep, ForkStep, Zenon DEF SystemCall
<1>2. ASSUME NEW p \in Pid, handleSignal(p) \/ Ending(p) PROVE Inv'
  BY <1>2, QuietSteps, ExitSteps, ExitGroupThreadStep, TraceeEndsStep DEF Ending
<1>3. CASE UNCHANGED vars
  <2> USE <1>3 DEF vars, kernelVars, schedVars, stateVars, treeVars, Inv
  <2>1. TypeOK'
    BY DEF TypeOK, KernelTypeOK, SchedulerTypeOK
  <2>2. InLoop' <=> InLoop
    BY DEF InLoop
  <2>3. InLoop => PidsGrow' /\ TablesMatchKernel' /\ TreeIsForest' /\ ExitLoopInv'
    <3>1. InLoop => TablesMatchKernel'
      <4>1. Free' = Free
        BY DEF Free
      <4> QED BY <4>1 DEF TablesMatchKernel
    <3>2. InLoop => PidsGrow' /\ TreeIsForest'
      BY DEF PidsGrow, TreeIsForest
    <3>3. InLoop => ExitLoopInv'
      BY DEF ExitLoopInv
    <3> QED BY <3>1, <3>2, <3>3
  <2>4. InLoop => FinishedAreExiting'
    BY DEF FinishedAreExiting
  <2>5. SchedulerKnowsTracees' /\ RunsHighestPid' /\ FinishedAwaitChildren'
    BY <2>2 DEF SchedulerKnowsTracees, RunsHighestPid, FinishedAwaitChildren, children
  <2>6. NothingLeftBehind'
    BY DEF NothingLeftBehind, Free
  <2> QED BY <2>1, <2>2, <2>3, <2>4, <2>5, <2>6
<1> QED BY <1>1, <1>2, <1>3 DEF Next, Terminating

(* The tables of execution, the collections of scheduler and the kernel's  *)
(* tasks agree in every state of the loop, whatever the tracees do.        *)
THEOREM Invariance == ASSUME PidReuse = FALSE PROVE Spec => []Inv
<1>1. Inv /\ [Next]_vars => Inv'
  BY NextInv
<1> QED BY <1>1, InitInv, PTL DEF Spec

(* Every tracee is in exactly one collection of the scheduler, and the     *)
(* next one is among those that may run (SchedulerKnowsTracees).           *)
THEOREM SchedulerSafety == ASSUME PidReuse = FALSE PROVE Spec => []SchedulerKnowsTracees
<1>1. Inv => SchedulerKnowsTracees
  BY DEF Inv
<1> QED BY <1>1, Invariance, PTL

(* The runnable process with the highest pid runs (RunsHighestPid).        *)
THEOREM HighestPidRuns == ASSUME PidReuse = FALSE PROVE Spec => []RunsHighestPid
<1>1. Inv => RunsHighestPid
  BY DEF Inv
<1> QED BY <1>1, Invariance, PTL

(* No finished process is forgotten (FinishedAwaitChildren): each one      *)
(* either runs next or has a child left whose end can schedule it.         *)
THEOREM FinishedSafety == ASSUME PidReuse = FALSE PROVE Spec => []FinishedAwaitChildren
<1>1. Inv => FinishedAwaitChildren
  BY DEF Inv
<1> QED BY <1>1, Invariance, PTL

(* The loop ends only when every tracee is gone (NothingLeftBehind).       *)
THEOREM EndSafety == ASSUME PidReuse = FALSE PROVE Spec => []NothingLeftBehind
<1>1. Inv => NothingLeftBehind
  BY DEF Inv
<1> QED BY <1>1, Invariance, PTL

(* threadGroups and liveThreads are the kernel's thread groups             *)
(* (GroupsMatchKernel).                                                    *)
THEOREM GroupSafety == ASSUME PidReuse = FALSE PROVE Spec => []GroupsMatchKernel
<1>1. ASSUME Inv PROVE GroupsMatchKernel
  <2> SUFFICES ASSUME InLoop
               PROVE  /\ threadGroups = {<<tgid[p], p>> : p \in Pid \ Free}
                      /\ liveThreads = {p \in Pid \ Free : tgid[p] # p}
    BY DEF GroupsMatchKernel
  <2>1. /\ threadGroups \subseteq (Pid \cup {0}) \X Pid /\ liveThreads \subseteq Pid
        /\ tgid \in [Pid -> Pid \cup {0}] /\ states \subseteq Pid
        /\ TablesMatchKernel
    BY <1>1 DEF Inv, TypeOK, KernelTypeOK
  <2>2. /\ states = Pid \ Free
        /\ \A g \in Pid \cup {0}, p \in Pid :
             <<g, p>> \in threadGroups <=> p \in states /\ g = tgid[p]
        /\ \A p \in Pid : p \in liveThreads <=> p \in states /\ tgid[p] # p
    BY <2>1 DEF TablesMatchKernel
  <2>3. ASSUME NEW e \in threadGroups PROVE e \in {<<tgid[p], p>> : p \in states}
    <3>1. PICK g \in Pid \cup {0}, p \in Pid : e = <<g, p>>
      BY <2>1
    <3> QED BY <2>2, <3>1
  <2>4. ASSUME NEW p \in states PROVE <<tgid[p], p>> \in threadGroups
    BY <2>1, <2>2
  <2>5. liveThreads = {p \in states : tgid[p] # p}
    BY <2>1, <2>2
  <2> QED BY <2>2, <2>3, <2>4, <2>5
<1>2. Inv => GroupsMatchKernel
  BY <1>1
<1> QED BY <1>2, Invariance, PTL

(* Apart from a preemption, no step moves a process to the blocked heap.   *)
LEMMA BlockedShrinks ==
  ASSUME NEW p \in Pid,
         \/ handleSeccomp(p) \/ exit_groupPreHook(p) \/ execvePreHook(p)
         \/ handleExecEvent(p) \/ handleSignal(p) \/ Ending(p)
         \/ \E q \in Pid : killPreHook(p, q)
         \/ \E q \in Pid, how \in {"fork", "vfork", "thread"} : handleForkEvent(p, q, how)
         \/ handlePostSystemCall(p, FALSE)
  PROVE  blockedHeap' \subseteq blockedHeap
<1> USE DEF schedVars, runtimeError
<1>1. ASSUME NEW q, markFinishedAndScheduleNext(q) PROVE blockedHeap' \subseteq blockedHeap
  BY <1>1, Zenon DEF markFinishedAndScheduleNext, scheduleNextProcess
<1>2. ASSUME NEW q, removeAndScheduleNext(q) PROVE blockedHeap' \subseteq blockedHeap
  BY <1>2, Zenon DEF removeAndScheduleNext, scheduleNextProcess
<1>3. ASSUME NEW q, NEW r, removeAndScheduleParent(q, r)
      PROVE  blockedHeap' \subseteq blockedHeap
  BY <1>3, Zenon DEF removeAndScheduleParent
<1>4. ASSUME handleNonEventExit(p) PROVE blockedHeap' \subseteq blockedHeap
  BY <1>2, <1>3, <1>4, Zenon DEF handleNonEventExit
<1>5. ASSUME EventExit(p) PROVE blockedHeap' \subseteq blockedHeap
  BY <1>1, <1>5, Zenon DEF EventExit
<1>6. ASSUME Ending(p) PROVE blockedHeap' \subseteq blockedHeap
  BY <1>4, <1>5, <1>6, Zenon DEF Ending, exit, exit_group, deliverSignal, ExitGroupThread,
                          TraceeEnds, TraceeLost
<1>7. ASSUME NEW q \in Pid, NEW how \in {"fork", "vfork", "thread"}, handleForkEvent(p, q, how)
      PROVE  blockedHeap' \subseteq blockedHeap
  BY <1>7, Zenon DEF handleForkEvent, addAndScheduleNext
<1> QED BY <1>6, <1>7, Zenon DEF handleSeccomp, exit_groupPreHook, execvePreHook, handleExecEvent,
                          handleSignal, killPreHook, handlePostSystemCall

(* Only the process whose call was found to block goes to the blocked heap *)
(* (OnlyCallerBlocks), although preemptAndScheduleNext is not told who it  *)
(* is and takes the top of the heap.                                       *)
THEOREM PreemptionSafety == ASSUME PidReuse = FALSE PROVE Spec => OnlyCallerBlocks
<1> DEFINE Moved == \A p \in runnableHeap \cap blockedHeap' : p = nextPid
<1>1. ASSUME Inv, InLoop, blockedHeap' \subseteq blockedHeap PROVE Moved
  BY <1>1 DEF Inv, SchedulerKnowsTracees
<1>2. ASSUME Inv, NEW p \in Pid, handlePostSystemCall(p, TRUE) PROVE Moved
  <2>1. /\ InLoop /\ task[nextPid] = "live" /\ preemptAndScheduleNext /\ thrown = "none"
    BY <1>2 DEF handlePostSystemCall, Resumes, InLoop
  <2>2. SchedulerTypeOK /\ Disjoint
    BY <1>2, <2>1, InvParts DEF Schedule, TypeOK
  <2> QED BY <1>2, <2>1, <2>2, RunningIsTop, Preempt
<1>3. ASSUME Inv, NEW p \in Pid, SystemCall(p) \/ handleSignal(p) \/ Ending(p) PROVE Moved
  <2>1. InLoop
    BY <1>3, Zenon DEF SystemCall, Ending, handleSeccomp, exit_groupPreHook, execvePreHook,
                killPreHook, handlePostSystemCall, handleExecEvent, handleForkEvent,
                handleSignal, exit, exit_group, deliverSignal, ExitGroupThread,
                TraceeEnds, TraceeLost, InUserMode, Resumes, InLoop
  <2>2. CASE handlePostSystemCall(p, TRUE)
    BY <1>2, <1>3, <2>2, Zenon
  <2>3. CASE ~handlePostSystemCall(p, TRUE)
    BY <1>1, <1>3, <2>1, <2>3, BlockedShrinks, Zenon DEF SystemCall
  <2> QED BY <2>2, <2>3, Zenon
<1>4. Inv /\ [Next]_vars => [Moved]_vars
  BY <1>3 DEF Next, Terminating
<1> QED BY <1>4, Invariance, PTL DEF Spec, OnlyCallerBlocks

-----------------------------------------------------------------------------
(* Which tracee the loop resumes and then waits for.  It waits for that    *)
(* one alone, so a tracee that cannot stop until another one has run must  *)
(* not be chosen: the parent of a vfork while its child has neither        *)
(* executed a program nor exited, and a leader that has exited while other *)
(* threads of its group exist.  Both follow from invariants that are added *)
(* to Inv.                                                                 *)

(* Pids are numbers.                                                       *)
LEMMA PidOrder ==
  \A a, b, c \in Pid : /\ a < b => ~(b <= a) /\ ~(b < a)
                       /\ ~(a > b) /\ c > b => a < c
BY DEF Pid

(* A runnable process stays so when another one is marked as finished or   *)
(* removed: scheduleNextProcess swaps the heaps only when none is left.    *)
LEMMA RunnableStays ==
  ASSUME NEW q \in runnableHeap, NEW r, r # q,
         \/ markFinishedAndScheduleNext(r) \/ removeAndScheduleNext(r)
         \/ \E parent \in Pid : removeAndScheduleParent(r, parent)
  PROVE  q \in runnableHeap'
<1>1. CASE markFinishedAndScheduleNext(r)
  BY <1>1, Zenon DEF markFinishedAndScheduleNext, scheduleNextProcess, runtimeError
<1>2. CASE removeAndScheduleNext(r)
  BY <1>2, Zenon DEF removeAndScheduleNext, scheduleNextProcess, runtimeError
<1>3. CASE \E parent \in Pid : removeAndScheduleParent(r, parent)
  BY <1>3, Zenon DEF removeAndScheduleParent, runtimeError
<1> QED BY <1>1, <1>2, <1>3

(* A finished process stays so when another one is removed.                *)
LEMMA FinishedStays ==
  ASSUME NEW f \in finishedProcesses, NEW r, r # f,
         \/ markFinishedAndScheduleNext(r) \/ removeAndScheduleNext(r)
         \/ \E parent \in Pid : removeAndScheduleParent(r, parent)
  PROVE  f \in finishedProcesses'
<1>1. CASE markFinishedAndScheduleNext(r)
  BY <1>1, Zenon DEF markFinishedAndScheduleNext, runtimeError
<1>2. CASE removeAndScheduleNext(r)
  BY <1>2 DEF removeAndScheduleNext, runtimeError
<1>3. CASE \E parent \in Pid : removeAndScheduleParent(r, parent)
  BY <1>3, Zenon DEF removeAndScheduleParent, runtimeError
<1> QED BY <1>1, <1>2, <1>3
-----------------------------------------------------------------------------
(* The child of a vfork, which may only exec or exit, is runnable until it *)
(* does, leads no other thread and has no children; it is above its parent *)
(* and so the one that runs of the two.                                    *)
Vforks ==
  \A p, q \in Pid : <<p, q>> \in vforking =>
    /\ p < q
    /\ q \in runnableHeap
    /\ tgid[q] = q
    /\ children(q) = {}

VforkInv == InLoop => Vforks

(* A step that starts no vfork keeps Vforks if the children stay as they   *)
(* are.                                                                    *)
LEMMA VforksKept ==
  ASSUME Vforks, vforking' \subseteq vforking,
         \A p, q \in Pid : <<p, q>> \in vforking' =>
           q \in runnableHeap' /\ tgid'[q] = tgid[q] /\ children(q)' \subseteq children(q)
  PROVE  Vforks'
<1> SUFFICES ASSUME NEW p \in Pid, NEW q \in Pid, <<p, q>> \in vforking'
             PROVE  p < q /\ q \in runnableHeap' /\ tgid'[q] = q /\ children(q)' = {}
  BY DEF Vforks
<1>1. p < q /\ tgid[q] = q /\ children(q) = {}
  BY DEF Vforks
<1> QED BY <1>1

(* A task whose group has another leader is a child of that leader, so the *)
(* child of a vfork leads nobody.                                          *)
LEMMA LeadsNobody ==
  ASSUME Inv, InLoop, NEW g \in Pid, tgid[g] = g, children(g) = {}
  PROVE  /\ \A q \in Pid : tgid[q] = g => q = g
         /\ members(g) = {g}
<1>1. Tables
  BY InvParts
<1>2. ASSUME NEW q \in Pid, tgid[q] = g PROVE q = g
  <2>1. q \in states
    BY <1>1, <1>2 DEF Tables, TablesMatchKernel, Free, Pid
  <2>2. q # g => <<g, q>> \in processTree
    BY <1>1, <1>2, <2>1 DEF Tables, TablesMatchKernel
  <2> QED BY <2>2 DEF children
<1>3. g \in states
  BY <1>1 DEF Tables, TablesMatchKernel, Free, Pid
<1>4. members(g) = {g}
  <2>1. \A q \in Pid : <<g, q>> \in threadGroups <=> q \in states /\ g = tgid[q]
    BY <1>1 DEF Tables, TablesMatchKernel
  <2> QED BY <1>2, <1>3, <2>1 DEF members
<1> QED BY <1>2, <1>4

(* A step that leaves the heaps, the pids, the vforks and the tree alone.  *)
LEMMA QuietVforks ==
  ASSUME Vforks, vforking' \subseteq vforking, UNCHANGED <<runnableHeap, tgid, processTree>>
  PROVE  Vforks'
<1>1. \A q \in Pid : children(q)' = children(q)
  BY DEF children
<1> QED BY <1>1, VforksKept DEF Vforks

(* Steps that do not call the scheduler.                                   *)
LEMMA QuietStepsVforks ==
  ASSUME Inv, InLoop', Vforks, NEW p \in Pid,
         \/ handleSeccomp(p) \/ exit_groupPreHook(p) \/ execvePreHook(p)
         \/ handleExecEvent(p) \/ handleSignal(p) \/ TraceeLost(p)
         \/ \E q \in Pid : killPreHook(p, q)
         \/ handlePostSystemCall(p, FALSE)
  PROVE  Vforks'
<1> USE DEF kernelVars, schedVars, treeVars
<1>1. ASSUME NEW q \in Pid, killPreHook(p, q) PROVE Vforks'
  BY <1>1, QuietVforks DEF killPreHook, Kill
<1>2. CASE handleExecEvent(p)
  <2>1. vforking' \subseteq vforking
    BY <1>2, Zenon DEF handleExecEvent, LeaveExecve
  <2> QED BY <1>2, <2>1, QuietVforks, Zenon DEF handleExecEvent, LeaveExecve
<1>3. CASE handleSeccomp(p) \/ exit_groupPreHook(p) \/ handleSignal(p) \/ handlePostSystemCall(p, FALSE)
  BY <1>3, QuietVforks, Zenon DEF handleSeccomp, exit_groupPreHook, handleSignal, handlePostSystemCall
<1>4. CASE execvePreHook(p)
  BY <1>4, QuietVforks, Zenon DEF execvePreHook, EnterExecve, runtimeError
<1>5. CASE TraceeLost(p)
  BY <1>5, QuietVforks, Zenon DEF TraceeLost, runtimeError
<1> QED BY <1>1, <1>2, <1>3, <1>4, <1>5, Zenon

(* A preemption: the caller is no child of a vfork.                        *)
LEMMA PreemptVforks ==
  ASSUME Inv, Vforks, NEW p \in Pid, handlePostSystemCall(p, TRUE),
         "any vfork child" \notin Behaviours
  PROVE  Vforks'
<1>1. /\ InLoop /\ p = nextPid /\ task[p] = "live" /\ preemptAndScheduleNext
      /\ UNCHANGED <<vforking, tgid, processTree>>
      /\ \A q \in Pid : <<q, p>> \notin vforking
      /\ thrown = "none"
  BY Zenon DEF handlePostSystemCall, Resumes, InLoop, Unrestricted, kernelVars, treeVars
<1>2. SchedulerTypeOK /\ Disjoint
  BY <1>1, InvParts, Zenon DEF TypeOK, Schedule
<1>3. p = top(runnableHeap) /\ p \in runnableHeap
  BY <1>1, RunningIsTop, Zenon
<1>4. runnableHeap \cap blockedHeap' \subseteq {p}
      /\ runnableHeap' \cup blockedHeap' = runnableHeap \cup blockedHeap
  BY <1>1, <1>2, <1>3, Preempt, Zenon
<1>5. \A q \in Pid : children(q)' = children(q)
  BY <1>1, Zenon DEF children
<1>6. ASSUME NEW r \in Pid, NEW q \in Pid, <<r, q>> \in vforking PROVE q \in runnableHeap'
  <2>1. q \in runnableHeap /\ q # p
    BY <1>1, <1>6, Zenon DEF Vforks
  <2> QED BY <1>4, <2>1, Zenon
<1> QED BY <1>1, <1>5, <1>6, VforksKept, Zenon

(* A new child is above every process, has no children and leads nobody.   *)
LEMMA ForkVforks ==
  ASSUME PidReuse = FALSE, "any vfork child" \notin Behaviours,
         Inv, InLoop', Vforks, NEW p \in Pid, NEW q \in Pid,
         NEW how \in {"fork", "vfork", "thread"}, handleForkEvent(p, q, how)
  PROVE  Vforks'
<1>0. /\ TypeOK /\ KernelTypeOK /\ InLoop /\ Tables
      /\ task[p] = "live" /\ p = nextPid
      /\ Spawn(p, q, how)
      /\ \A r \in Pid : <<r, p>> \notin vforking
  BY InvParts, Zenon DEF TypeOK, handleForkEvent, InUserMode, Resumes, InLoop, Unrestricted
<1>1. q > lastPid /\ task[q] = "free" /\ lastPid \in Pid
  BY <1>0, Zenon DEF Spawn, FreshPid, Free, KernelTypeOK
<1>2. ~(how # "thread" /\ members(q) # {})
  BY Zenon DEF handleForkEvent, runtimeError, InLoop
<1>3. /\ p \in states /\ q \notin states
      /\ threadGroupNumber[p] = tgid[p] /\ tgid[p] \in Pid
      /\ tgid[p] # p => <<tgid[p], p>> \in processTree
      /\ states \subseteq Pid
      /\ \A r \in states : r < q
  <2>1. states = Pid \ Free /\ p \in states /\ q \notin states
    BY <1>0, <1>1, Zenon DEF Tables, TablesMatchKernel, Free
  <2>2. \A r \in states : r < q
    <3>1. \A r \in states : r \in Pid /\ ~(r > lastPid)
      BY <1>0, <2>1, Zenon DEF Tables, PidsGrow, Free
    <3> QED BY <1>1, <3>1, PidOrder, Zenon
  <2> QED BY <1>0, <2>1, <2>2, Zenon DEF Tables, TablesMatchKernel
<1>4. /\ processTree' = processTree \cup {<<tgid[p], q>>}
      /\ runnableHeap' = runnableHeap \cup {q}
  BY <1>2, <1>3, Zenon DEF handleForkEvent, childEntry, addAndScheduleNext
<1>5. /\ tgid' = [tgid EXCEPT ![q] = IF how = "thread" THEN tgid[p] ELSE q]
      /\ vforking' = IF how = "vfork" THEN vforking \cup {<<p, q>>} ELSE vforking
      /\ tgid \in [Pid -> Pid \cup {0}]
  BY <1>0, Zenon DEF Spawn, KernelTypeOK
<1>6. tgid[p] # q
  BY <1>0, <1>3, ZenonT(30) DEF Tables, TablesMatchKernel
<1> SUFFICES ASSUME NEW r \in Pid, NEW c \in Pid, <<r, c>> \in vforking'
             PROVE  r < c /\ c \in runnableHeap' /\ tgid'[c] = c /\ children(c)' = {}
  BY Zenon DEF Vforks
<1>7. CASE <<r, c>> \in vforking
  <2>1. r < c /\ c \in runnableHeap /\ tgid[c] = c /\ children(c) = {}
    BY <1>7, Zenon DEF Vforks
  <2>2. c # p /\ c # q /\ tgid[p] # c
    <3>1. c # p
      BY <1>0, <1>7, Zenon
    <3>2. c # q
      BY <1>0, <1>3, <2>1, Zenon DEF Inv, SchedulerKnowsTracees
    <3>3. tgid[p] # c
      BY <1>3, <2>1, <3>1, Zenon DEF children
    <3> QED BY <3>1, <3>2, <3>3, Zenon
  <2>3. children(c)' = {}
    BY <1>4, <2>1, <2>2, Zenon DEF children
  <2> QED BY <1>4, <1>5, <2>1, <2>2, <2>3, Zenon
<1>8. CASE <<r, c>> \notin vforking
  <2>1. r = p /\ c = q /\ how = "vfork"
    BY <1>5, <1>8, Zenon
  <2>2. p < q
    BY <1>3, Zenon
  <2>3. children(q)' = {}
    <3>1. \A x \in Pid : <<q, x>> \notin processTree
      <4> SUFFICES ASSUME NEW x \in Pid, <<q, x>> \in processTree PROVE FALSE
        BY Zenon
      <4>1. x \in states /\ q < x
        BY <1>0, Zenon DEF Tables, TreeIsForest, PidsGrow
      <4>2. x < q
        BY <1>3, <4>1, Zenon
      <4> QED BY <4>1, <4>2, PidOrder, Zenon
    <3> QED BY <1>4, <1>6, <3>1, Zenon DEF children
  <2>4. tgid'[q] = q /\ q \in runnableHeap'
    BY <1>4, <1>5, <2>1, Zenon
  <2> QED BY <2>1, <2>2, <2>3, <2>4, Zenon
<1> QED BY <1>7, <1>8, Zenon

(* Exits: who is marked as finished has children, or leads threads.        *)
LEMMA ExitVforks ==
  ASSUME Inv, Vforks, NEW p \in Pid, exit(p) \/ exit_group(p) \/ deliverSignal(p)
  PROVE  Vforks'
<1>1. /\ InLoop /\ EventExit(p) /\ UNCHANGED <<tgid, vforking, processTree>>
  BY Zenon DEF exit, exit_group, deliverSignal, InUserMode, Resumes, InLoop, ExitThread, ExitGroup,
         FatalSignal, EventExit, treeVars
<1>2. \A q \in Pid : children(q)' = children(q)
  BY <1>1 DEF children
<1> DEFINE g == threadGroupNumber[p]
<1>3. ASSUME NEW r \in Pid, NEW q \in Pid, <<r, q>> \in vforking PROVE q \in runnableHeap'
  <2>1. q \in runnableHeap /\ tgid[q] = q /\ children(q) = {}
    BY <1>3 DEF Vforks
  <2>2. members(q) = {q}
    BY <1>1, <2>1, LeadsNobody
  <2>3. CASE p \in isExitGroup /\ Cardinality(members(g)) # 1
    <3>1. markFinishedAndScheduleNext(g)
      BY <1>1, <2>3, Zenon DEF EventExit
    <3>2. Cardinality({q}) = 1
      BY FS_Singleton
    <3>3. g # q
      BY <2>2, <2>3, <3>2
    <3> HIDE DEF g
    <3> QED BY <2>1, <3>1, <3>3, RunnableStays
  <2>4. CASE ~(p \in isExitGroup /\ Cardinality(members(g)) # 1)
    <3>1. CASE children(p) # {}
      <4>1. markFinishedAndScheduleNext(p)
        BY <1>1, <2>4, <3>1 DEF EventExit
      <4> QED BY <2>1, <3>1, <4>1, RunnableStays
    <3>2. CASE children(p) = {}
      BY <1>1, <2>1, <2>4, <3>2 DEF EventExit, schedVars
    <3> QED BY <3>1, <3>2
  <2> QED BY <2>3, <2>4
<1> QED BY <1>1, <1>2, <1>3, VforksKept

(* The end of a task ends the vforks it takes part in.                     *)
LEMMA EndVforks ==
  ASSUME Inv, Vforks, NEW p \in Pid, Reap(p), handleNonEventExit(p)
  PROVE  Vforks'
<1>0. KernelTypeOK
  BY DEF Inv, TypeOK
<1>1. /\ vforking' = {e \in vforking : p \notin {e[1], e[2]}}
      /\ tgid' = [tgid EXCEPT ![p] = 0]
      /\ tgid \in [Pid -> Pid \cup {0}]
  BY <1>0 DEF Reap, KernelTypeOK
<1>2. \A r, q \in Pid : <<r, q>> \in vforking' => <<r, q>> \in vforking /\ q # p
  BY <1>1
<1>3. processTree' \subseteq processTree
  BY Zenon DEF handleNonEventExit, treeVars
<1>4. \A q \in Pid : children(q)' \subseteq children(q)
  BY <1>3 DEF children
<1>5. ASSUME NEW r \in Pid, NEW q \in Pid, <<r, q>> \in vforking' PROVE q \in runnableHeap'
  <2>1. q \in runnableHeap /\ q # p
    BY <1>2, <1>5 DEF Vforks
  <2>2. CASE p \notin states \/ <<threadGroupNumber[p], p>> \notin threadGroups
    BY <2>1, <2>2, Zenon DEF handleNonEventExit, runtimeError
  <2>3. CASE ~(p \notin states \/ <<threadGroupNumber[p], p>> \notin threadGroups)
    <3>1. \/ removeAndScheduleNext(p)
          \/ \E parent \in Pid : removeAndScheduleParent(p, parent)
      BY <2>3 DEF handleNonEventExit, waitingParent
    <3> QED BY <2>1, <3>1, RunnableStays, Zenon
  <2> QED BY <2>2, <2>3
<1>6. \A r, q \in Pid : <<r, q>> \in vforking' => tgid'[q] = tgid[q]
  BY <1>1, <1>2
<1> QED BY <1>1, <1>4, <1>5, <1>6, VforksKept

(* VforkInv is inductive, together with Inv.                               *)
LEMMA NextVforks ==
  ASSUME PidReuse = FALSE, "any vfork child" \notin Behaviours, Inv, VforkInv, [Next]_vars
  PROVE  VforkInv'
<1> SUFFICES ASSUME InLoop' PROVE Vforks'
  BY Zenon DEF VforkInv
<1>1. CASE UNCHANGED vars
  <2>1. InLoop
    BY <1>1, Zenon DEF vars, schedVars, InLoop
  <2> QED BY <1>1, <2>1, QuietVforks, Zenon DEF VforkInv, vars, schedVars, kernelVars, treeVars
<1>2. ASSUME NEW p \in Pid, SystemCall(p) \/ handleSignal(p) \/ Ending(p) PROVE Vforks'
  <2>1. InLoop
    BY <1>2, Zenon DEF SystemCall, Ending, handleSeccomp, exit_groupPreHook, execvePreHook,
                killPreHook, handlePostSystemCall, handleExecEvent, handleForkEvent,
                handleSignal, exit, exit_group, deliverSignal, ExitGroupThread,
                TraceeEnds, TraceeLost, InUserMode, Resumes, InLoop
  <2>2. Vforks
    BY <2>1, Zenon DEF VforkInv
  <2>3. CASE SystemCall(p) \/ handleSignal(p)
    BY <2>2, <2>3, QuietStepsVforks, PreemptVforks, ForkVforks, Zenon DEF SystemCall
  <2>4. CASE ExitGroupThread(p)
    BY <2>2, <2>4, EndVforks, Zenon DEF ExitGroupThread, InLoop, runtimeError
  <2>5. CASE TraceeEnds(p)
    BY <2>2, <2>5, EndVforks, Zenon DEF TraceeEnds, InLoop, runtimeError
  <2>6. CASE exit(p) \/ exit_group(p) \/ deliverSignal(p)
    BY <2>2, <2>6, ExitVforks, Zenon
  <2>7. CASE TraceeLost(p)
    BY <2>2, <2>7, QuietStepsVforks, Zenon
  <2> QED BY <1>2, <2>3, <2>4, <2>5, <2>6, <2>7, Zenon DEF Ending
<1> QED BY <1>1, <1>2, Zenon DEF Next, Terminating

(* The loop never resumes a process that sleeps in vfork, and then waits   *)
(* for ever (VforkParentNotResumed), as long as the children of vfork only *)
(* exec or exit.                                                           *)
THEOREM VforkSafety ==
  ASSUME PidReuse = FALSE, "any vfork child" \notin Behaviours
  PROVE  Spec => []VforkParentNotResumed
<1>1. Init => VforkInv
  BY Zenon DEF Init, KernelInit, VforkInv, Vforks
<1>2. Inv /\ VforkInv /\ [Next]_vars => VforkInv'
  BY NextVforks, Zenon
<1>3. Inv /\ VforkInv => VforkParentNotResumed
  <2> SUFFICES ASSUME Inv, VforkInv, InLoop, task[nextPid] = "live",
                      NEW q \in Pid, <<nextPid, q>> \in vforking
               PROVE  FALSE
    BY Zenon DEF VforkParentNotResumed, InVfork
  <2>1. SchedulerTypeOK
    BY Zenon DEF Inv, TypeOK
  <2>2. nextPid < q /\ q \in runnableHeap /\ nextPid \in Pid
    BY <2>1, Zenon DEF VforkInv, Vforks, SchedulerTypeOK
  <2>3. q <= nextPid
    <3>1. nextPid \in runnableHeap
      BY RunningIsTop, Zenon
    <3>2. RunsHighestPid
      BY Zenon DEF Inv
    <3> QED BY <2>2, <3>1, <3>2, Zenon DEF RunsHighestPid
  <2> QED BY <2>2, <2>3, PidOrder, Zenon
<1> QED BY <1>1, <1>2, <1>3, Invariance, PTL DEF Spec
-----------------------------------------------------------------------------
(* Without signals that kill, a leader that exits has no children or is    *)
(* marked as finished, and a finished one is resumed when it has none      *)
(* left.                                                                   *)
Endable ==
  /\ signalToDeliver = {}
  /\ \A p \in Pid : task[p] \in {"dying", "exiting"} /\ tgid[p] = p
       => p \in finishedProcesses \/ children(p) = {}
  /\ nextPid \in finishedProcesses => children(nextPid) = {}

EndableInv == InLoop => Endable

(* Steps that do not call the scheduler.                                   *)
LEMMA QuietStepsEndable ==
  ASSUME InLoop', Endable, NEW p \in Pid,
         \/ handleSeccomp(p) \/ exit_groupPreHook(p) \/ execvePreHook(p)
         \/ handleExecEvent(p) \/ handlePostSystemCall(p, FALSE)
  PROVE  Endable'
<1> USE DEF kernelVars, schedVars, treeVars
<1>1. UNCHANGED <<signalToDeliver, task, tgid, finishedProcesses, nextPid, processTree>>
  <2>1. CASE handleExecEvent(p)
    BY <2>1, Zenon DEF handleExecEvent, LeaveExecve, stateVars
  <2>2. CASE handleSeccomp(p) \/ exit_groupPreHook(p) \/ handlePostSystemCall(p, FALSE)
    BY <2>2 DEF handleSeccomp, exit_groupPreHook, handlePostSystemCall
  <2>3. CASE execvePreHook(p)
    BY <2>3 DEF execvePreHook, EnterExecve, runtimeError, InLoop, stateVars
  <2> QED BY <2>1, <2>2, <2>3, Zenon
<1>2. \A q \in Pid : children(q)' = children(q)
  BY <1>1 DEF children
<1>3. children(nextPid)' = children(nextPid)
  BY <1>1 DEF children
<1> QED BY <1>1, <1>2, <1>3 DEF Endable

(* A preemption finishes nobody, and resumes one of the heaps.             *)
LEMMA PreemptEndable ==
  ASSUME Inv, Endable, NEW p \in Pid, handlePostSystemCall(p, TRUE)
  PROVE  Endable'
<1>1. /\ InLoop /\ p = nextPid /\ task[p] = "live" /\ preemptAndScheduleNext
      /\ UNCHANGED <<signalToDeliver, task, tgid, processTree>>
      /\ thrown = "none"
  BY DEF handlePostSystemCall, Resumes, InLoop, kernelVars, treeVars
<1>2. SchedulerTypeOK /\ Disjoint /\ finishedProcesses \cap (runnableHeap \cup blockedHeap) = {}
  BY <1>1, InvParts DEF TypeOK, Schedule
<1>3. p \in runnableHeap
  BY <1>1, RunningIsTop
<1>4. /\ finishedProcesses' = finishedProcesses /\ Picked'
      /\ runnableHeap' \cup blockedHeap' = runnableHeap \cup blockedHeap
  BY <1>1, <1>2, <1>3, Preempt
<1>5. nextPid' \notin finishedProcesses'
  BY <1>2, <1>4 DEF Picked
<1>6. \A q \in Pid : children(q)' = children(q)
  BY <1>1 DEF children
<1> QED BY <1>1, <1>4, <1>5, <1>6, Zenon DEF Endable

(* A new child: a leader it is added to is not exiting, or its creator,    *)
(* one of its threads, has had it marked as finished.                      *)
LEMMA ForkEndable ==
  ASSUME PidReuse = FALSE, Inv, InLoop', Endable, NEW p \in Pid, NEW q \in Pid,
         NEW how \in {"fork", "vfork", "thread"}, handleForkEvent(p, q, how)
  PROVE  Endable'
<1>0. /\ TypeOK /\ KernelTypeOK /\ InLoop /\ Tables /\ Schedule
      /\ task[p] = "live" /\ p = nextPid
      /\ Spawn(p, q, how)
  BY InvParts, Zenon DEF TypeOK, handleForkEvent, InUserMode, Resumes, InLoop
<1>1. task[q] = "free"
  BY <1>0 DEF Spawn, FreshPid, Free
<1>2. ~(how # "thread" /\ members(q) # {})
  BY DEF handleForkEvent, runtimeError, InLoop
<1>3. /\ p \in states /\ q \notin states
      /\ threadGroupNumber[p] = tgid[p] /\ tgid[p] \in Pid
      /\ tgid[p] # p => <<tgid[p], p>> \in processTree
  <2>1. states = Pid \ Free /\ p \in states /\ q \notin states
    BY <1>0, <1>1 DEF Tables, TablesMatchKernel, Free
  <2> QED BY <1>0, <2>1 DEF Tables, TablesMatchKernel
<1>4. /\ processTree' = processTree \cup {<<tgid[p], q>>}
      /\ nextPid' = q
      /\ UNCHANGED <<finishedProcesses, signalToDeliver>>
  BY <1>2, <1>3, Zenon DEF handleForkEvent, childEntry, addAndScheduleNext
<1>5. /\ task' = [task EXCEPT ![q] = "live"]
      /\ \A r \in Pid : r # q => tgid'[r] = tgid[r]
      /\ task \in [Pid -> {"free", "live", "dying", "exiting"}]
  BY <1>0 DEF Spawn, KernelTypeOK
<1>6. nextPid' \notin finishedProcesses'
  BY <1>0, <1>3, <1>4, Zenon DEF Schedule
<1>7. ASSUME NEW r \in Pid, task'[r] \in {"dying", "exiting"}, tgid'[r] = r,
             r \notin finishedProcesses'
      PROVE  children(r)' = {}
  <2>1. r # q /\ task[r] = task'[r] /\ tgid[r] = r /\ r # p
    BY <1>0, <1>5, <1>7
  <2>2. children(r) = {}
    BY <1>4, <1>7, <2>1 DEF Endable
  <2>3. tgid[p] # r
    BY <1>3, <2>1, <2>2 DEF children
  <2> QED BY <1>4, <2>2, <2>3 DEF children
<1>8. signalToDeliver' = {}
  BY <1>4 DEF Endable
<1> QED BY <1>6, <1>7, <1>8 DEF Endable

(* exit and exit_group: a leader with children or threads is marked.       *)
LEMMA ExitEndable ==
  ASSUME Inv, Inv', InLoop', Endable, NEW p \in Pid, exit(p) \/ exit_group(p)
  PROVE  Endable'
<1>0. /\ TypeOK /\ KernelTypeOK /\ SchedulerTypeOK /\ InLoop /\ Tables /\ Schedule /\ Finished
      /\ task[p] = "live" /\ p = nextPid /\ thrown = "none"
      /\ EventExit(p)
      /\ UNCHANGED <<tgid, processTree>>
      /\ signalToDeliver' = {}
      /\ p \in states
  <2>1. /\ InLoop /\ task[p] = "live" /\ p = nextPid /\ EventExit(p)
        /\ UNCHANGED <<tgid, processTree>>
    BY DEF exit, exit_group, InUserMode, Resumes, InLoop, ExitThread, ExitGroup, EventExit, treeVars
  <2>2. TypeOK /\ KernelTypeOK /\ SchedulerTypeOK /\ Tables /\ Schedule /\ Finished
    BY <2>1, InvParts DEF TypeOK
  <2>3. signalToDeliver' = {}
    BY <2>1, Zenon DEF EventExit, Endable
  <2>4. p \in states
    BY <2>1, <2>2 DEF Tables, TablesMatchKernel, Free
  <2> QED BY <2>1, <2>2, <2>3, <2>4 DEF InLoop
<1> DEFINE g == threadGroupNumber[p]
<1>1. g = tgid[p] /\ g \in Pid /\ p \in members(g)
  <2>1. g = tgid[p] /\ g \in Pid
    BY <1>0, Zenon DEF Tables, TablesMatchKernel, TypeOK
  <2> QED BY <1>0, <2>1 DEF Tables, TablesMatchKernel, members
<1>2. p \notin finishedProcesses
  BY <1>0 DEF Finished, FinishedAreExiting
<1>3. \A q \in Pid : children(q)' = children(q)
  BY <1>0 DEF children
<1>4. CASE p \in isExitGroup /\ Cardinality(members(g)) # 1
  <2>1. markFinishedAndScheduleNext(g)
    BY <1>0, <1>4 DEF EventExit
  <2> HIDE DEF g
  <2>2. Picked' /\ finishedProcesses' = finishedProcesses \cup {g}
    BY <1>0, <1>1, <2>1, MarkFinished, Zenon DEF Schedule, InLoop
  <2>3. Schedule'
    BY InvParts, PTL
  <2>4. nextPid' \notin finishedProcesses'
    BY <2>2, <2>3 DEF Picked, Schedule
  <2>5. \A r \in Pid : tgid[r] = r /\ r # g => task'[r] = task[r]
    <3>1. exit_group(p)
      BY <1>4 DEF exit, InUserMode
    <3>2. GroupDeath(p)
      BY <3>1 DEF exit_group, ExitGroup
    <3> QED BY <1>1, <3>2 DEF GroupDeath, Group
  <2> QED BY <1>0, <1>3, <2>2, <2>4, <2>5 DEF Endable
<1>5. CASE ~(p \in isExitGroup /\ Cardinality(members(g)) # 1)
  <2>1. \A r \in Pid : r # p => task'[r] = task[r]
    <3>1. CASE exit(p)
      BY <1>0, <3>1 DEF exit, ExitThread, KernelTypeOK
    <3>2. CASE exit_group(p)
      <4>1. GroupDeath(p) /\ Cardinality(members(g)) = 1
        BY <1>5, <3>2, Zenon DEF exit_group, ExitGroup
      <4>2. members(g) \subseteq Pid /\ IsFiniteSet(Pid)
        BY FS_Interval, PidAssumption DEF members, Pid
      <4>3. PICK x : members(g) = {x}
        BY <4>1, <4>2, FS_Subset, FS_Singleton, Zenon
      <4>4. Group(p) = {p}
        <5>1. ASSUME NEW r \in Pid, tgid[r] = tgid[p] PROVE r = p
          <6>1. r \in states
            BY <1>0, <1>1, <5>1 DEF Tables, TablesMatchKernel, Free, Pid
          <6>2. r \in members(g)
            BY <1>0, <1>1, <5>1, <6>1 DEF Tables, TablesMatchKernel, members
          <6> QED BY <1>1, <4>3, <6>2
        <5> QED BY <5>1 DEF Group
      <4> QED BY <4>1, <4>4 DEF GroupDeath
    <3> QED BY <3>1, <3>2
  <2>2. CASE children(p) # {}
    <3>1. markFinishedAndScheduleNext(p)
      BY <1>0, <1>5, <2>2, Zenon DEF EventExit
    <3>2. Picked' /\ finishedProcesses' = finishedProcesses \cup {p}
      BY <1>0, <3>1, MarkFinished DEF Schedule, InLoop
    <3>3. Schedule'
      BY InvParts, PTL
    <3>4. nextPid' \notin finishedProcesses'
      BY <3>2, <3>3 DEF Picked, Schedule
    <3> QED BY <1>0, <1>3, <2>1, <3>2, <3>4, Zenon DEF Endable
  <2>3. CASE children(p) = {}
    <3>1. UNCHANGED <<finishedProcesses, nextPid>>
      BY <1>0, <1>5, <2>3 DEF EventExit, schedVars
    <3> QED BY <1>0, <1>2, <1>3, <2>1, <2>3, <3>1, Zenon DEF Endable
  <2> QED BY <2>2, <2>3
<1> QED BY <1>4, <1>5

(* The end of a task: a finished process that is scheduled then has lost   *)
(* its last child.                                                         *)
LEMMA EndEndable ==
  ASSUME Inv, InLoop, InLoop', Endable, NEW p \in Pid, task[p] # "free",
         Reap(p), handleNonEventExit(p),
         \A q \in states : q # p => tgid[q] # p,
         p = nextPid \/ nextPid \in runnableHeap
  PROVE  Endable'
<1>0. KernelTypeOK /\ thrown' = "none" /\ Tables
  BY InvParts DEF TypeOK, InLoop
<1>1. /\ states' = runnableHeap' \cup blockedHeap' \cup finishedProcesses'
      /\ finishedProcesses' \cap (runnableHeap' \cup blockedHeap') = {}
      /\ Picked' \/ states' = {} \/ children(nextPid') = {p}
  BY <1>0, EndTask
<1>2. /\ processTree' = {e \in processTree : e[2] # p}
      /\ signalToDeliver' = {}
      /\ \/ removeAndScheduleNext(p)
         \/ \E parent \in Pid : removeAndScheduleParent(p, parent)
  BY <1>0 DEF handleNonEventExit, runtimeError, waitingParent, Endable
<1>3. \A r \in Pid : children(r)' \subseteq children(r)
  BY <1>2, Zenon DEF children
<1>4. ASSUME nextPid' \in finishedProcesses' PROVE children(nextPid)' = {}
  <2>1. children(nextPid') = {p}
    BY <1>1, <1>4 DEF Picked
  <2> QED BY <1>2, <2>1, Zenon DEF children
<1>5. ASSUME NEW r \in Pid, task'[r] \in {"dying", "exiting"}, tgid'[r] = r,
             r \notin finishedProcesses'
      PROVE  children(r)' = {}
  <2>1. r # p /\ task[r] = task'[r] /\ tgid[r] = r
    BY <1>0, <1>5 DEF Reap, KernelTypeOK
  <2>2. r \notin finishedProcesses
    BY <1>2, <1>5, <2>1, FinishedStays, Zenon
  <2>3. children(r) = {}
    BY <1>5, <2>1, <2>2, Zenon DEF Endable
  <2> QED BY <1>3, <2>3
<1> QED BY <1>2, <1>4, <1>5, Zenon DEF Endable

(* EndableInv is inductive, together with Inv.                             *)
LEMMA NextEndable ==
  ASSUME PidReuse = FALSE, "fatal signal" \notin Behaviours, "SIGKILL" \notin Behaviours,
         Inv, EndableInv, [Next]_vars
  PROVE  EndableInv'
<1> SUFFICES ASSUME InLoop' PROVE Endable'
  BY Zenon DEF EndableInv
<1>0. Inv'
  BY NextInv, Zenon
<1>1. CASE UNCHANGED vars
  <2>1. InLoop /\ UNCHANGED <<signalToDeliver, task, tgid, finishedProcesses, nextPid, processTree>>
    BY <1>1, Zenon DEF vars, schedVars, kernelVars, treeVars, stateVars, InLoop
  <2>2. children(nextPid)' = children(nextPid) /\ \A q \in Pid : children(q)' = children(q)
    BY <2>1, Zenon DEF children
  <2> QED BY <2>1, <2>2, Zenon DEF EndableInv, Endable
<1>2. ASSUME NEW p \in Pid, SystemCall(p) \/ handleSignal(p) \/ Ending(p) PROVE Endable'
  <2>1. InLoop
    BY <1>2, Zenon DEF SystemCall, Ending, handleSeccomp, exit_groupPreHook, execvePreHook,
                killPreHook, handlePostSystemCall, handleExecEvent, handleForkEvent,
                handleSignal, exit, exit_group, deliverSignal, ExitGroupThread,
                TraceeEnds, TraceeLost, InUserMode, Resumes, InLoop
  <2>2. Endable /\ Tables /\ ExitLoopInv /\ TypeOK
    BY <2>1, InvParts, Zenon DEF EndableInv
  <2>3. CASE SystemCall(p)
    BY <2>2, <2>3, QuietStepsEndable, PreemptEndable, ForkEndable, Zenon DEF SystemCall, killPreHook
  <2>4. CASE ExitGroupThread(p)
    <3>1. p \in threadsToExit /\ Reap(p) /\ handleNonEventExit(p) /\ task[p] # "free"
      BY <2>4, Zenon DEF ExitGroupThread, InLoop, runtimeError
    <3>2. nextPid \in runnableHeap
      BY <2>2, <3>1, Zenon DEF ExitLoopInv
    <3>3. PICK leader \in states : \A r \in threadsToExit : tgid[r] = leader /\ r # leader
      BY <2>2, <3>1, Zenon DEF ExitLoopInv
    <3>4. \A q \in states : q # p => tgid[q] # p
      BY <2>2, <3>1, <3>3, Zenon DEF Tables, TablesMatchKernel
    <3> QED BY <2>1, <2>2, <3>1, <3>2, <3>4, EndEndable, Zenon
  <2>5. CASE TraceeEnds(p)
    <3>1. p = nextPid /\ CanReap(p) /\ Reap(p) /\ handleNonEventExit(p) /\ task[p] # "free"
      BY <2>5, Zenon DEF TraceeEnds, Resumes, InLoop, runtimeError
    <3>2. ASSUME NEW q \in states, q # p, tgid[q] = p PROVE FALSE
      <4>1. q \in Pid /\ tgid[p] = p
        BY <2>2, <3>2, Zenon DEF Tables, TablesMatchKernel, TypeOK
      <4>2. Group(p) = {p}
        BY <3>1, <4>1, Zenon DEF CanReap
      <4>3. q \in Group(p)
        BY <3>2, <4>1, Zenon DEF Group
      <4> QED BY <3>2, <4>2, <4>3, Zenon
    <3> QED BY <2>1, <2>2, <3>1, <3>2, EndEndable, Zenon
  <2>6. CASE exit(p) \/ exit_group(p)
    BY <1>0, <2>2, <2>6, ExitEndable, Zenon
  <2>7. CASE handleSignal(p) \/ deliverSignal(p) \/ TraceeLost(p)
    BY <2>2, <2>7, Zenon DEF handleSignal, deliverSignal, Endable, TraceeLost, runtimeError, InLoop
  <2> QED BY <1>2, <2>3, <2>4, <2>5, <2>6, <2>7, Zenon DEF Ending
<1> QED BY <1>1, <1>2, Zenon DEF Next, Terminating

(* When the loop waits for the end of a task, the kernel can report it     *)
(* (WaitsOnlyForTheEndable), as long as no signal kills: a leader whose    *)
(* threads are still there is not the one that the loop resumes.           *)
THEOREM EndableSafety ==
  ASSUME PidReuse = FALSE, "fatal signal" \notin Behaviours, "SIGKILL" \notin Behaviours
  PROVE  Spec => []WaitsOnlyForTheEndable
<1>1. Init => EndableInv
  BY Zenon DEF Init, KernelInit, SchedulerInit, EndableInv, Endable, children
<1>2. Inv /\ EndableInv /\ [Next]_vars => EndableInv'
  BY NextEndable, Zenon
<1>3. Inv /\ EndableInv => WaitsOnlyForTheEndable
  <2> SUFFICES ASSUME Inv, EndableInv, InLoop, task[nextPid] \in {"dying", "exiting"},
                      tgid[nextPid] = nextPid
               PROVE  Group(nextPid) = {nextPid}
    BY Zenon DEF WaitsOnlyForTheEndable, CanReap
  <2>1. nextPid \in Pid
    BY Zenon DEF Inv, TypeOK, SchedulerTypeOK
  <2>2. children(nextPid) = {}
    BY <2>1, Zenon DEF EndableInv, Endable
  <2>3. \A q \in Pid : tgid[q] = nextPid => q = nextPid
    BY <2>1, <2>2, LeadsNobody, Zenon
  <2> QED BY <2>1, <2>3, Zenon DEF Group
<1> QED BY <1>1, <1>2, <1>3, Invariance, PTL DEF Spec
=============================================================================
