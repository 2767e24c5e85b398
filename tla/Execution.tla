----------------------------- MODULE Execution ------------------------------
(***************************************************************************)
(* The event loop of dettrace (execution::runProgram, src/execution.cpp)   *)
(* with its scheduler and the kernel underneath it.                        *)
(*                                                                         *)
(* Every iteration of the loop resumes one tracee, the scheduler's         *)
(* nextPid, waits for that tracee's next event, and handles it.  An action *)
(* below is one iteration: what the tracee did between the two stops, as   *)
(* far as the loop can see, and the whole handler of the event.  The one   *)
(* exception is the loop over the threads of an exit_group, whose          *)
(* iterations (ExitGroupThread) are steps of their own that nothing else   *)
(* can come between.                                                       *)
(*                                                                         *)
(* Behaviours says which things tracees do in a run; it restricts the      *)
(* programs that are traced, never the tracer.                             *)
(***************************************************************************)
EXTENDS Integers, FiniteSets, Scheduler

CONSTANT Behaviours

AllBehaviours == {"fork", "vfork", "thread", "execve", "block", "any vfork child",
                  "exit", "exit_group", "fatal signal", "SIGKILL"}

ASSUME BehavioursAssumption == Behaviours \subseteq AllBehaviours

VARIABLES states,            \* pids with an entry in the states map
          callPostHook,      \* states with callPostHook set
          isExitGroup,       \* states with isExitGroup set
          signalToDeliver,   \* states with a signal whose delivery kills
          processTree,       \* pairs <<parent, child>>
          threadGroups,      \* pairs <<group, member>>
          threadGroupNumber, \* the map from a member to its group, 0: no entry
          liveThreads,
          threadsToExit,     \* what the exit_group loop has left to do
          exitLoop

stateVars == <<states, callPostHook, isExitGroup, signalToDeliver>>

treeVars == <<processTree, threadGroups, threadGroupNumber, liveThreads>>

vars == <<kernelVars, schedVars, stateVars, treeVars, threadsToExit, exitLoop>>

Init ==
  /\ KernelInit
  /\ SchedulerInit
  /\ states = {startingPid}
  /\ callPostHook = {}
  /\ isExitGroup = {}
  /\ signalToDeliver = {}
  /\ processTree = {}
  /\ threadGroups = {<<startingPid, startingPid>>}
  /\ threadGroupNumber = [p \in Pid |-> IF p = startingPid THEN startingPid ELSE 0]
  /\ liveThreads = {}
  /\ threadsToExit = {}
  /\ exitLoop = FALSE

TypeOK ==
  /\ KernelTypeOK
  /\ SchedulerTypeOK
  /\ states \subseteq Pid
  /\ callPostHook \subseteq Pid
  /\ isExitGroup \subseteq Pid
  /\ signalToDeliver \subseteq Pid
  /\ processTree \subseteq Pid \X Pid
  /\ threadGroups \subseteq (Pid \cup {0}) \X Pid
  /\ threadGroupNumber \in [Pid -> Pid \cup {0}]
  /\ liveThreads \subseteq Pid
  /\ threadsToExit \subseteq Pid
  /\ exitLoop \in BOOLEAN
-----------------------------------------------------------------------------
children_NoThreads(p) ==
  {q \in Pid : <<p, q>> \in processTree /\ q \notin liveThreads}

children(p) == {q \in Pid : <<p, q>> \in processTree}

members(group) == {q \in Pid : <<group, q>> \in threadGroups}

\* The loop is about to resume p and to wait for it.
Resumes(p) ==
  /\ thrown = "none"
  /\ ~exitLoop
  /\ threadsToExit = {}
  /\ p = nextPid

\* p comes back from a stop outside of any system call.
InUserMode(p) ==
  /\ Resumes(p)
  /\ task[p] = "live"
  /\ p \notin callPostHook \cup isExitGroup \cup signalToDeliver \cup inExecve
  /\ ~InVfork(p)

(* A child of vfork(2) only execs or exits, as POSIX demands, unless the   *)
(* behaviour "any vfork child" is on.                                      *)
Unrestricted(p) ==
  "any vfork child" \in Behaviours \/ \A q \in Pid : <<q, p>> \notin vforking

(* A seccomp stop whose pre-hook asks for the post-hook.  Pre-hooks that   *)
(* do not ask for it leave everything modelled here unchanged.             *)
handleSeccomp(p) ==
  /\ InUserMode(p)
  /\ callPostHook' = callPostHook \cup {p}
  /\ UNCHANGED <<kernelVars, schedVars, treeVars, threadsToExit, exitLoop,
                 states, isExitGroup, signalToDeliver>>

exit_groupPreHook(p) ==
  /\ "exit_group" \in Behaviours
  /\ InUserMode(p)
  /\ isExitGroup' = isExitGroup \cup {p}
  /\ UNCHANGED <<kernelVars, schedVars, treeVars, threadsToExit, exitLoop,
                 states, callPostHook, signalToDeliver>>

execvePreHook(p) ==
  /\ "execve" \in Behaviours
  /\ InUserMode(p)
  /\ IF Cardinality(members(threadGroupNumber[p])) # 1
     THEN runtimeError("exec from threads") /\ UNCHANGED kernelVars
     ELSE EnterExecve(p) /\ UNCHANGED schedVars
  /\ UNCHANGED <<stateVars, treeVars, threadsToExit, exitLoop>>

(* kill(2) and tgkill(2) with SIGKILL and a tracee of another group as the *)
(* target.                                                                 *)
killPreHook(p, q) ==
  /\ "SIGKILL" \in Behaviours
  /\ InUserMode(p)
  /\ task[q] = "live"
  /\ q \notin Group(p)
  /\ Kill(q)
  /\ callPostHook' = callPostHook \cup {p}
  /\ UNCHANGED <<schedVars, treeVars, threadsToExit, exitLoop,
                 states, isExitGroup, signalToDeliver>>

handleExecEvent(p) ==
  /\ Resumes(p)
  /\ task[p] = "live"
  /\ p \in inExecve
  /\ LeaveExecve(p)
  /\ UNCHANGED <<schedVars, stateVars, treeVars, threadsToExit, exitLoop>>

(* The system call stop that runs the post-hook.  A call that would block  *)
(* is preempted and will be executed again; so are some that succeed.      *)
handlePostSystemCall_NotReset(p, blocks) ==
  /\ Resumes(p)
  /\ task[p] = "live"
  /\ p \in callPostHook
  /\ IF blocks
     THEN "block" \in Behaviours /\ Unrestricted(p) /\ preemptAndScheduleNext
     ELSE UNCHANGED schedVars
  /\ UNCHANGED <<kernelVars, stateVars, treeVars, threadsToExit, exitLoop>>

handlePostSystemCall(p, blocks) ==
  /\ Resumes(p)
  /\ task[p] = "live"
  /\ p \in callPostHook
  /\ IF blocks
     THEN "block" \in Behaviours /\ Unrestricted(p) /\ preemptAndScheduleNext
     ELSE UNCHANGED schedVars
  /\ callPostHook' = callPostHook \ {p}
  /\ UNCHANGED <<kernelVars, treeVars, threadsToExit, exitLoop,
                 states, isExitGroup, signalToDeliver>>

\* A signal that kills when the next getNextEvent delivers it.
handleSignal(p) ==
  /\ "fatal signal" \in Behaviours
  /\ InUserMode(p)
  /\ signalToDeliver' = signalToDeliver \cup {p}
  /\ UNCHANGED <<kernelVars, schedVars, treeVars, threadsToExit, exitLoop,
                 states, callPostHook, isExitGroup>>
-----------------------------------------------------------------------------
childEntry_Creator(p, q) == <<p, q>>

(* The parent of a new task is the thread group leader, also when one of   *)
(* its threads created the task.                                           *)
childEntry(p, q) == <<threadGroupNumber[p], q>>

groupOfChild_Creator(p, q, how) == IF how = "thread" THEN p ELSE q

groupOfChild(p, q, how) == IF how = "thread" THEN threadGroupNumber[p] ELSE q

(* fork, vfork or clone: the child is stopped and becomes the next process *)
(* to run.  map::insert keeps the entry a key already has.                 *)
handleForkEvent(p, q, how) ==
  LET childGroup == groupOfChild(p, q, how) IN
  /\ how \in Behaviours
  /\ InUserMode(p)
  /\ Unrestricted(p)
  /\ Spawn(p, q, how)
  /\ IF how # "thread" /\ members(q) # {}
     THEN /\ runtimeError("thread group existed")
          /\ UNCHANGED <<treeVars, stateVars>>
     ELSE /\ liveThreads' = IF how = "thread" THEN liveThreads \cup {q} ELSE liveThreads
          /\ threadGroups' = threadGroups \cup {<<childGroup, q>>}
          /\ threadGroupNumber' = IF threadGroupNumber[q] = 0
                                  THEN [threadGroupNumber EXCEPT ![q] = childGroup]
                                  ELSE threadGroupNumber
          /\ processTree' = processTree \cup {childEntry(p, q)}
          /\ states' = states \cup {q}
          /\ addAndScheduleNext(q)
          /\ UNCHANGED <<callPostHook, isExitGroup, signalToDeliver>>
  /\ UNCHANGED <<threadsToExit, exitLoop>>

waitingParent_CountedTooEarly(p) ==
  {q \in Pid : isFinished(q) /\ p \in children(q) /\ children(q) \ {p} # {}}

\* The finished parent whose last child p is.
waitingParent(p) == {q \in Pid : isFinished(q) /\ children(q) = {p}}

(* The end of p: its entries are erased, and either it was the last child  *)
(* of a finished parent, which is then resumed, or the next process runs.  *)
handleNonEventExit(p) ==
  LET group == threadGroupNumber[p] IN
  IF p \notin states \/ <<group, p>> \notin threadGroups
  THEN /\ runtimeError("thread group entry")
       /\ UNCHANGED <<treeVars, stateVars>>
  ELSE /\ processTree' = {e \in processTree : e[2] # p}
       /\ states' = states \ {p}
       /\ callPostHook' = callPostHook \ {p}
       /\ isExitGroup' = isExitGroup \ {p}
       /\ signalToDeliver' = signalToDeliver \ {p}
       /\ liveThreads' = liveThreads \ {p}
       /\ threadGroupNumber' = IF p \in liveThreads
                               THEN [threadGroupNumber EXCEPT ![p] = 0]
                               ELSE threadGroupNumber
       /\ threadGroups' = threadGroups \ {<<group, p>>}
       /\ \/ waitingParent(p) = {} /\ removeAndScheduleNext(p)
          \/ \E parent \in waitingParent(p) : removeAndScheduleParent(p, parent)

allProcessesFinished_HeapsOnly(p) ==
  thrown' = "none" /\ runnableHeap' = {} /\ blockedHeap' = {}

\* The result of handleNonEventExit(p), if it returns.
allProcessesFinished(p) ==
  /\ thrown' = "none"
  /\ waitingParent(p) = {}
  /\ runnableHeap' = {}
  /\ blockedHeap' = {}
-----------------------------------------------------------------------------
(* PTRACE_EVENT_EXIT.  With exit_group in a group that has threads, the    *)
(* leader is marked as finished and the threads are then ended one by one; *)
(* otherwise the process is marked as finished if it has children.         *)
EventExit(p) ==
  LET group == threadGroupNumber[p] IN
  /\ callPostHook' = callPostHook \ {p}
  /\ isExitGroup' = isExitGroup \ {p}
  /\ signalToDeliver' = signalToDeliver \ {p}
  /\ IF p \in isExitGroup /\ Cardinality(members(group)) # 1
     THEN /\ markFinishedAndScheduleNext(group)
          /\ threadsToExit' = members(group) \ {group}
     ELSE /\ IF children(p) # {} THEN markFinishedAndScheduleNext(p)
                                 ELSE UNCHANGED schedVars
          /\ UNCHANGED threadsToExit
  /\ UNCHANGED <<states, treeVars, exitLoop>>

\* exit(2), which the seccomp filter lets through without a stop.
exit(p) ==
  /\ "exit" \in Behaviours
  /\ InUserMode(p)
  /\ ExitThread(p)
  /\ EventExit(p)

exit_group(p) ==
  /\ Resumes(p)
  /\ task[p] = "live"
  /\ p \in isExitGroup
  /\ ExitGroup(p)
  /\ EventExit(p)

deliverSignal(p) ==
  /\ Resumes(p)
  /\ task[p] = "live"
  /\ p \in signalToDeliver
  /\ FatalSignal(p)
  /\ EventExit(p)

(* One iteration of the loop over the threads of an exit_group.  Whether   *)
(* PTRACE_CONT works or fails with ESRCH (handleExitedThread), the thread  *)
(* is waited for until it is gone.                                         *)
ExitGroupThread(t) ==
  /\ thrown = "none"
  /\ ~exitLoop
  /\ t \in threadsToExit
  /\ threadsToExit' = threadsToExit \ {t}
  /\ IF task[t] \in {"dying", "exiting"} /\ t \notin signaled
     THEN Reap(t) /\ handleNonEventExit(t)
     ELSE /\ runtimeError("unexpected event")
          /\ UNCHANGED <<kernelVars, stateVars, treeVars>>
  /\ UNCHANGED exitLoop

\* waitpid reports the end of p: terminatedBySignal or nonEventExit.
TraceeEnds(p) ==
  /\ Resumes(p)
  /\ task[p] \in {"dying", "exiting"}
  /\ CanReap(p)
  /\ Reap(p)
  /\ IF p \notin signaled /\ (p \in isExitGroup \/ children(p) # {})
     THEN /\ runtimeError("exit with children")
          /\ UNCHANGED <<stateVars, treeVars, exitLoop>>
     ELSE /\ handleNonEventExit(p)
          /\ exitLoop' = allProcessesFinished(p)
  /\ UNCHANGED threadsToExit

(* A tracee that was killed behind the tracer's back has not reached its   *)
(* exit stop yet: PTRACE_CONT in getNextEvent fails with ESRCH.            *)
TraceeLost(p) ==
  /\ Resumes(p)
  /\ task[p] = "dying"
  /\ runtimeError("lost tracee")
  /\ UNCHANGED <<kernelVars, stateVars, treeVars, threadsToExit, exitLoop>>

Terminating == (exitLoop \/ thrown # "none") /\ UNCHANGED vars
-----------------------------------------------------------------------------
SystemCall(p) ==
  \/ handleSeccomp(p)
  \/ exit_groupPreHook(p)
  \/ execvePreHook(p)
  \/ \E q \in Pid : killPreHook(p, q)
  \/ \E blocks \in BOOLEAN : handlePostSystemCall(p, blocks)
  \/ handleExecEvent(p)
  \/ \E q \in Pid, how \in {"fork", "vfork", "thread"} : handleForkEvent(p, q, how)

Ending(p) ==
  \/ exit(p)
  \/ exit_group(p)
  \/ deliverSignal(p)
  \/ ExitGroupThread(p)
  \/ TraceeEnds(p)
  \/ TraceeLost(p)

Next ==
  \/ \E p \in Pid : SystemCall(p) \/ handleSignal(p) \/ Ending(p)
  \/ Terminating

Spec == Init /\ [][Next]_vars

(* The loop never stops by itself: it takes a step whenever it can.  The   *)
(* rest is assumed of the programs.  A program that runs often enough      *)
(* yields in the end, by a call that blocks or by exiting...               *)
Exits(p) == exit(p) \/ exit_group(p) \/ deliverSignal(p)

Yields(p) == handlePostSystemCall(p, TRUE) \/ Exits(p)

YieldingSpec == Spec /\ WF_vars(Next) /\ \A p \in Pid : SF_vars(Yields(p))

\* ... or, more than that, a program that runs often enough exits in the end.
ProgramsExit == \A p \in Pid : SF_vars(Exits(p))
-----------------------------------------------------------------------------
(***************************************************************************)
(* Properties.  An exception or the end of the loop ends the run, so the   *)
(* invariants speak of the states in which the loop goes on.               *)
(***************************************************************************)
InLoop == thrown = "none" /\ ~exitLoop

(* Every tracee the loop knows is in exactly one of the scheduler's three  *)
(* collections, nothing else is, and the process to run next is one of     *)
(* them that may run: the states map of execution and the heaps of         *)
(* scheduler are kept in step by separate calls.                           *)
SchedulerKnowsTracees ==
  InLoop =>
    /\ states = runnableHeap \cup blockedHeap \cup finishedProcesses
    /\ runnableHeap \cap blockedHeap = {}
    /\ finishedProcesses \cap (runnableHeap \cup blockedHeap) = {}
    /\ nextPid \in runnableHeap \cup finishedProcesses

(* The policy of scheduler.hpp: the process that runs is the runnable one  *)
(* with the highest pid, unless it is a finished process that is let go    *)
(* for its last step.  preemptAndScheduleNext, which pops the heap without *)
(* being told who runs, depends on it.                                     *)
RunsHighestPid ==
  InLoop /\ nextPid \in runnableHeap => \A p \in runnableHeap : p <= nextPid

(* A finished process is not forgotten: it is the one to run next, or it   *)
(* has a child whose end will schedule it ("it's the last-child-alive's    *)
(* job to schedule a finished parent to exit", execution.cpp).             *)
FinishedAwaitChildren ==
  InLoop => \A p \in finishedProcesses : p = nextPid \/ children(p) # {}

(* The loop's own view of thread groups, kept from fork and exit events,   *)
(* is the kernel's.                                                        *)
GroupsMatchKernel ==
  InLoop => /\ threadGroups = {<<tgid[p], p>> : p \in Pid \ Free}
            /\ liveThreads = {p \in Pid \ Free : tgid[p] # p}

(* The loop ends, reporting success, only when every task is gone and      *)
(* nothing is left in the tables: finished processes are in no heap, yet   *)
(* empty heaps are what ends the loop.                                     *)
NothingLeftBehind ==
  exitLoop => /\ Free = Pid
              /\ states = {} /\ finishedProcesses = {}
              /\ threadGroups = {} /\ liveThreads = {} /\ processTree = {}

(* When the loop waits for the end of a task, the kernel can report it:    *)
(* the loop "only wait[s] for the eve[nt]Exit when our children have       *)
(* exited" (execution.cpp), a leader when its threads are gone.            *)
WaitsOnlyForTheEndable ==
  InLoop /\ threadsToExit = {} /\ task[nextPid] \in {"dying", "exiting"}
    => CanReap(nextPid)

(* The loop never waits for a task that sleeps in vfork until a child,     *)
(* itself stopped and waiting to be resumed, has exec'ed or died.          *)
VforkParentNotResumed ==
  InLoop /\ task[nextPid] = "live" => ~InVfork(nextPid)

(* A process goes from the runnable to the blocked heap only when it is    *)
(* the one whose system call has just been found to block.                 *)
OnlyCallerBlocks ==
  [][\A p \in runnableHeap \cap blockedHeap' : p = nextPid]_vars

(* A finished process whose last child ends is let run to completion, as   *)
(* removeAndScheduleParent promises, also when that child was itself a     *)
(* finished process.                                                       *)
ParentGetsScheduled == thrown # "schedule parent"

(* exit_group in a group with threads can mark the leader as finished      *)
(* whatever the leader did before.                                         *)
LeaderGetsFinished == thrown # "mark finished"

(* handleNonEventExit finds the thread group entry of every tracee that    *)
(* ends: "If thread, we should always be able to delete this entry."       *)
GroupEntryFound == thrown # "thread group entry"

(* A process whose call blocked is resumed again, to retry the call,       *)
(* unless its thread group ends or the loop does.                          *)
BlockedIsRetried ==
  \A p \in Pid : p \in blockedHeap ~> nextPid = p \/ task[p] # "live" \/ ~InLoop

\* If all programs exit in the end, so does the loop.
LoopEnds == ProgramsExit => <>~InLoop
-----------------------------------------------------------------------------
(***************************************************************************)
(* The inductive invariant behind the safety properties, for a pid         *)
(* namespace that does not wrap around.                                    *)
(***************************************************************************)
\* Pids grow: no task, group entry or map entry is above the last one.
PidsGrow ==
  /\ \A p \in Pid : p > lastPid => task[p] = "free" /\ threadGroupNumber[p] = 0
  /\ \A p, q \in Pid : <<p, q>> \in processTree => p < q

(* The tables describe the kernel's tasks: one state each, one thread      *)
(* group each, led by a task that is still there and is the parent of its  *)
(* threads.                                                                *)
TablesMatchKernel ==
  /\ states = Pid \ Free
  /\ \A p \in Pid : tgid[p] = 0 <=> task[p] = "free"
  /\ \A p \in states : /\ threadGroupNumber[p] = tgid[p]
                       /\ tgid[p] \in states
                       /\ tgid[tgid[p]] = tgid[p]
                       /\ tgid[p] # p => <<tgid[p], p>> \in processTree
  /\ \A g \in Pid \cup {0}, p \in Pid :
       <<g, p>> \in threadGroups <=> p \in states /\ g = tgid[p]
  /\ \A p \in Pid : p \in liveThreads <=> p \in states /\ tgid[p] # p

\* Every child in the tree is there, and has one parent.
TreeIsForest ==
  /\ \A p, q \in Pid : <<p, q>> \in processTree => q \in states
  /\ \A p, q, r \in Pid : <<p, r>> \in processTree /\ <<q, r>> \in processTree => p = q

(* While the threads of an exit_group are ended, their leader is there,    *)
(* and no finished process is due.                                         *)
ExitLoopInv ==
  threadsToExit # {} =>
    /\ nextPid \in runnableHeap
    /\ \E leader \in states : \A t \in threadsToExit : tgid[t] = leader /\ t # leader

FinishedAreExiting == \A p \in finishedProcesses : task[p] \in {"dying", "exiting"}

(* The conjunction: what the loop's tables, the scheduler and the kernel   *)
(* agree on as long as the loop goes on, and what is left when it ends.    *)
Inv ==
  /\ TypeOK
  /\ InLoop => /\ PidsGrow /\ TablesMatchKernel /\ TreeIsForest
               /\ ExitLoopInv /\ FinishedAreExiting
  /\ SchedulerKnowsTracees
  /\ RunsHighestPid
  /\ FinishedAwaitChildren
  /\ NothingLeftBehind
=============================================================================
