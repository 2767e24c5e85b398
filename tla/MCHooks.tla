------------------------------ MODULE MCHooks ------------------------------
(***************************************************************************)
(* System calls and their hooks, for model checking: how a call finds its  *)
(* hooks (Dispatch), and what the hooks do about signals (Signals) and     *)
(* about the time, chance and the machine (Machine).  They share no state. *)
(* A behaviour is one of an instance of one of them, which `part' records; *)
(* the variables of the others stay at their initial values.  The          *)
(* constants are ordinary calls on a kernel that is not old; two signals,  *)
(* and timers that the leader sets while they are not blocked; and every   *)
(* leaf of cpuid up to a few too many.                                     *)
(***************************************************************************)
EXTENDS Dispatch, Signals, Machine

\* Every call that has a rule, and those without that hide nothing; futimesat,
\* which loses an argument, is left out.
OrdinaryCalls ==
  (UNION {r.intercept \union r.debug \union r.noIntercept : r \in Rules} \union convertedUids)
    \ {"futimesat"}

VARIABLE part

\* Kernels before 4.8, with a recorder, and calls whose post-hooks may run after
\* every call, as these kernels need.
Old == INSTANCE Dispatch WITH
  Calls <- {"read", "epoll_ctl", "getrandom", "time", "alarm", "sched_getaffinity", "kill"},
  kernelPre4_8 <- TRUE, Hooks <- TRUE

\* One signal, and everything that the threads of a process may do with it.
AnySignals == INSTANCE Signals WITH
  Signal <- {SIGALRM}, MaxTimers <- 2,
  Behaviours <- {"thread arms", "arms blocked", "default", "pause", "kill", "tgkill",
                 "open suspend", "execve"}

\* Threads that wait for signals they send each other.
Suspend == INSTANCE Signals WITH
  Signal <- {SIGALRM}, MaxTimers <- 0, Behaviours <- {"tgkill"}

\* No calls, in the parts without any.
Idling == Init /\ ~debugLevel4 /\ ~uids
Unasked == MachineInit /\ ~with_proc_overrides

MCInit ==
  \/ part \in {"dispatch", "old"} /\ Init /\ SignalsInit /\ Unasked
  \/ part = "timers" /\ Idling /\ SignalsInit /\ Unasked
  \/ part = "any signals" /\ Idling /\ AnySignals!SignalsInit /\ Unasked
  \/ part = "suspend" /\ Idling /\ Suspend!SignalsInit /\ Unasked
  \/ part = "hosts" /\ Idling /\ SignalsInit /\ MachineInit /\ with_proc_overrides
  \/ part = "clock" /\ Idling /\ SignalsInit /\ Unasked

MCNext ==
  \/ part = "dispatch" /\ Next /\ UNCHANGED <<part, signalVars, machineVars>>
  \/ part = "old" /\ Old!Next /\ UNCHANGED <<part, signalVars, machineVars>>
  \/ part = "timers" /\ SignalsNext /\ UNCHANGED <<part, vars, machineVars>>
  \/ part = "any signals" /\ AnySignals!SignalsNext /\ UNCHANGED <<part, vars, machineVars>>
  \/ part = "suspend" /\ Suspend!SignalsNext /\ UNCHANGED <<part, vars, machineVars>>
  \/ part = "hosts" /\ Queries(Determinized) /\ UNCHANGED <<part, vars, signalVars>>
  \/ part = "clock" /\ MachineNext /\ UNCHANGED <<part, vars, signalVars>>

\* The scheduler gives every thread its turn (BlockedIsRetried of Execution), and
\* the one that has it is resumed.
MCSpec ==
  /\ MCInit
  /\ [][MCNext]_<<part, vars, signalVars, machineVars>>
  /\ \A u \in Thread :
       /\ SF_signalVars(part = "suspend" /\ Suspend!takesTurn(u))
       /\ WF_signalVars(part = "suspend" /\ Suspend!goesOn(u))

-----------------------------------------------------------------------------
(* Properties. *)

\* The four lists of calls agree: every call that stops finds the hooks it needs,
\* and none that throws because it is never to be called; and no call whose hooks
\* do more than log is intercepted only at debug level 4.
ListsAgree == HooksComplete /\ NothingSlipsBy

\* Calls that the hooks change, cancel or replace by another one look untouched:
\* the tracee's own call is carried out, its argument registers are as it passed
\* them, and no note for a post-hook is left for a later call, which would return
\* 0 or be taken for an injected one (a recorder's hooks do leave one).
CallsLookUntouched ==
  OwnCallCarriedOut /\ ArgumentsRestored /\ (part = "dispatch" => NotesUsedUp)

\* The table of handlers says what the kernel does with a signal, so that the
\* hooks choose the right one of pause, exit and no effect; and two timers that
\* the tracee has made never share an id, or setting one would send the signal of
\* the other.
SignalTablesRight ==
  /\ part = "timers" => HandlersKnown /\ TimerIdsDistinct
  /\ part = "any signals" => AnySignals!TimerIdsDistinct

\* A call that was turned into pause ends: the thread that runs does not sleep in
\* the kernel with no signal to wake it, for dettrace waits for it alone.
NeverSleeps == part = "timers" => PausesHaveSignals

\* A thread in rt_sigsuspend wakes up when a signal is there that it waits for,
\* though the tracer has to find that out by looking again and again.
SuspendWakes ==
  \A t \in Thread : part = "suspend" /\ Suspend!Signalled(t) ~> Suspend!Awake(t)

\* A program that makes calls that are determinized, the number of CPUs included,
\* is told the same on both hosts, whatever calls came before:
\* neither the kernel's answers nor how many there were shows.
SameOnAllHosts == part = "hosts" => ToldTheSame

\* Every time a process is told in microseconds is later than any it, or the
\* process it was forked from, has been told before, and one in seconds is not
\* earlier, whichever of the calls it uses: they all read one clock, and step it.
TimeMovesOn == [][part = "clock" => TellsLater]_machineVars
=============================================================================
