------------------------------- MODULE Kernel -------------------------------
(***************************************************************************)
(* The part of Linux that dettrace's event loop relies on: which tasks     *)
(* exist, how they die, and which deaths waitpid(2) can report.  None of   *)
(* this is code of the repository; it is modelled from how execution.cpp   *)
(* uses ptrace(2) and waitpid(2).                                          *)
(*                                                                         *)
(* A task is                                                               *)
(*   "free"     no task has this pid;                                      *)
(*   "live"     running or in a ptrace stop the tracer knows of;           *)
(*   "dying"    killed by the death of its thread group or by SIGKILL,     *)
(*              and parked in an exit stop the tracer has not waited for;  *)
(*   "exiting"  in the PTRACE_EVENT_EXIT stop the tracer has seen.         *)
(***************************************************************************)
EXTENDS Integers

CONSTANTS MaxPid,    \* the last pid of the tracees' pid namespace
          PidReuse   \* whether allocation wraps around after MaxPid

ASSUME PidAssumption == MaxPid \in Nat /\ MaxPid >= 2

ASSUME ReuseAssumption == PidReuse \in BOOLEAN

\* The tracer is pid 1 of the namespace, the first tracee pid 2.
Pid == 2..MaxPid

startingPid == 2

VARIABLES task,      \* the state of every pid
          tgid,      \* the thread group a task belongs to, 0 for free pids
          lastPid,   \* the pid allocated last
          signaled,  \* tasks whose wait status will say "killed by a signal"
          inExecve,  \* tasks inside an execve that will succeed
          vforking   \* pairs <<p, q>>: p sleeps in vfork until q execs or dies

kernelVars == <<task, tgid, lastPid, signaled, inExecve, vforking>>

KernelInit ==
  /\ task = [p \in Pid |-> IF p = startingPid THEN "live" ELSE "free"]
  /\ tgid = [p \in Pid |-> IF p = startingPid THEN startingPid ELSE 0]
  /\ lastPid = startingPid
  /\ signaled = {}
  /\ inExecve = {}
  /\ vforking = {}

KernelTypeOK ==
  /\ task \in [Pid -> {"free", "live", "dying", "exiting"}]
  /\ tgid \in [Pid -> Pid \cup {0}]
  /\ lastPid \in Pid
  /\ signaled \subseteq Pid
  /\ inExecve \subseteq Pid
  /\ vforking \subseteq Pid \X Pid
-----------------------------------------------------------------------------
Free == {p \in Pid : task[p] = "free"}

Group(p) == {q \in Pid : tgid[q] = tgid[p]}

(* Linux hands out the next free pid above the last one, and starts again  *)
(* from the bottom when there is none.                                     *)
FreshPid(q) ==
  /\ q \in Free
  /\ \/ q > lastPid /\ \A r \in Free : r > lastPid => q <= r
     \/ PidReuse /\ \A r \in Free : r <= lastPid /\ q <= r

\* Sleeping in vfork(2): the task reports nothing, whatever the tracer does.
InVfork(p) == \E q \in Pid : <<p, q>> \in vforking

Spawn(p, q, how) ==
  /\ FreshPid(q)
  /\ task' = [task EXCEPT ![q] = "live"]
  /\ tgid' = [tgid EXCEPT ![q] = IF how = "thread" THEN tgid[p] ELSE q]
  /\ lastPid' = q
  /\ vforking' = IF how = "vfork" THEN vforking \cup {<<p, q>>} ELSE vforking
  /\ UNCHANGED <<signaled, inExecve>>

EnterExecve(p) ==
  /\ inExecve' = inExecve \cup {p}
  /\ UNCHANGED <<task, tgid, lastPid, signaled, vforking>>

LeaveExecve(p) ==
  /\ inExecve' = inExecve \ {p}
  /\ vforking' = {e \in vforking : e[2] # p}
  /\ UNCHANGED <<task, tgid, lastPid, signaled>>

\* SYS_exit ends one thread.
ExitThread(p) ==
  /\ task' = [task EXCEPT ![p] = "exiting"]
  /\ UNCHANGED <<tgid, lastPid, signaled, inExecve, vforking>>

\* The death of a whole thread group, p being the thread that dies of it.
GroupDeath(p) ==
  task' = [q \in Pid |-> CASE q = p -> "exiting"
                           [] q \in Group(p) \ {p} /\ task[q] = "live" -> "dying"
                           [] OTHER -> task[q]]

ExitGroup(p) ==
  /\ GroupDeath(p)
  /\ UNCHANGED <<tgid, lastPid, signaled, inExecve, vforking>>

FatalSignal(p) ==
  /\ GroupDeath(p)
  /\ signaled' = signaled \cup Group(p)
  /\ UNCHANGED <<tgid, lastPid, inExecve, vforking>>

(* SIGKILL for the group of q, sent by a task outside of it while no       *)
(* member of the group has started to exit.                                *)
Kill(q) ==
  /\ \A r \in Group(q) : task[r] = "live"
  /\ task' = [r \in Pid |-> IF r \in Group(q) THEN "dying" ELSE task[r]]
  /\ signaled' = signaled \cup Group(q)
  /\ inExecve' = inExecve \ Group(q)
  /\ UNCHANGED <<tgid, lastPid, vforking>>

(* waitpid(p) reports the death of p, but the death of a thread group      *)
(* leader only once every other thread of the group is gone.               *)
CanReap(p) == tgid[p] = p => Group(p) = {p}

Reap(p) ==
  /\ task' = [task EXCEPT ![p] = "free"]
  /\ tgid' = [tgid EXCEPT ![p] = 0]
  /\ signaled' = signaled \ {p}
  /\ vforking' = {e \in vforking : p \notin {e[1], e[2]}}
  /\ UNCHANGED <<lastPid, inExecve>>
=============================================================================
