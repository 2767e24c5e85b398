---------------------------- MODULE HooksProofs ----------------------------
(***************************************************************************)
(* Proofs about what the hooks do: the tracer's table of handlers says     *)
(* what the kernel does, a call that was turned into pause ends, and the   *)
(* ids of timers are distinct (Signals); nothing that the calls return     *)
(* depends on the host, and time moves on (Machine).                       *)
(*                                                                         *)
(* The theorems are about MCSpec, with any values of its constants: each   *)
(* is about the behaviours of a part, which are those of the component.    *)
(***************************************************************************)
EXTENDS MCHooks, FiniteSetTheorems, TLAPS

mcVars == <<part, vars, signalVars, machineVars>>

\* The fairness of MCSpec is not used.
LEMMA StepsOnly == MCSpec => MCInit /\ [][MCNext]_mcVars
  BY PTL DEF MCSpec, mcVars

\* The behaviours of each part are those of its component.
LEMMA SignalParts ==
  /\ MCInit /\ part = "timers" => SignalsInit
  /\ MCInit /\ part = "any signals" => AnySignals!SignalsInit
  /\ [MCNext]_mcVars => part' = part
  /\ [MCNext]_mcVars /\ part = "timers" => [SignalsNext]_signalVars
  /\ [MCNext]_mcVars /\ part = "any signals" => [AnySignals!SignalsNext]_signalVars
<1>1. /\ MCInit /\ part = "timers" => SignalsInit
      /\ MCInit /\ part = "any signals" => AnySignals!SignalsInit
  BY Zenon DEF MCInit
<1>2. [MCNext]_mcVars => part' = part
  BY Zenon DEF MCNext, mcVars
<1>3. [MCNext]_mcVars /\ part = "timers" => [SignalsNext]_signalVars
  BY DEF MCNext, mcVars
<1>4. [MCNext]_mcVars /\ part = "any signals" => [AnySignals!SignalsNext]_signalVars
  BY Zenon DEF MCNext, mcVars
<1> QED
  BY <1>1, <1>2, <1>3, <1>4, Zenon

LEMMA MachineParts ==
  /\ MCInit /\ part = "hosts" => MachineInit /\ with_proc_overrides
  /\ MCInit /\ part = "clock" => MachineInit
  /\ [MCNext]_mcVars => part' = part
  /\ [MCNext]_mcVars /\ part = "hosts" => [Queries(Determinized)]_machineVars
  /\ [MCNext]_mcVars /\ part = "clock" => [MachineNext]_machineVars
<1>1. /\ MCInit /\ part = "hosts" => MachineInit /\ with_proc_overrides
      /\ MCInit /\ part = "clock" => MachineInit
  BY Zenon DEF MCInit, Unasked
<1>2. [MCNext]_mcVars => part' = part
  BY Zenon DEF MCNext, mcVars
<1>3. [MCNext]_mcVars /\ part = "hosts" => [Queries(Determinized)]_machineVars
  BY DEF MCNext, mcVars
<1>4. [MCNext]_mcVars /\ part = "clock" => [MachineNext]_machineVars
  BY DEF MCNext, mcVars
<1> QED
  BY <1>1, <1>2, <1>3, <1>4

----------------------------------------------------------------------------
(* The ids of timers. *)

\* Ids are smaller than the number of entries, and every timer has its own.
TimerInv ==
  /\ IsFiniteSet(timerCreateTimers)
  /\ \A e \in timerCreateTimers : e[1] \in Nat /\ e[1] < Cardinality(timerCreateTimers)
  /\ \A a \in created : a[2] \in Nat /\ a[2] < Cardinality(timerCreateTimers)
  /\ TimerIdsDistinct

\* The only step that changes the tables of timers is timer_create.
TimersSame == timerCreateTimers' = timerCreateTimers /\ created' = created

\* What it does to them.
NewTimer(sig) ==
  LET id == Cardinality(timerCreateTimers)
  IN /\ timerCreateTimers' = IF \E e \in timerCreateTimers : e[1] = id THEN timerCreateTimers
                              ELSE timerCreateTimers \union {<<id, sig>>}
     /\ created' = created \union {<<Cardinality(created), id, sig>>}

\* timer_create takes an id that no timer has.
LEMMA CreateTimers ==
  ASSUME TimerInv, NEW sig, NewTimer(sig)
  PROVE  TimerInv'
<1> DEFINE id == Cardinality(timerCreateTimers)
           new == <<Cardinality(created), id, sig>>
<1>1. id \in Nat
  BY FS_CardinalityType DEF TimerInv
<1>2. ~ \E e \in timerCreateTimers : e[1] = id
  BY <1>1 DEF TimerInv
<1>3. timerCreateTimers' = timerCreateTimers \union {<<id, sig>>} /\ created' = created \union {new}
  BY <1>2 DEF NewTimer
<1>4. <<id, sig>> \notin timerCreateTimers
  BY <1>2
<1>5. /\ IsFiniteSet(timerCreateTimers')
      /\ Cardinality(timerCreateTimers') = id + 1
  BY <1>3, <1>4, FS_AddElement, Zenon DEF TimerInv
<1> HIDE DEF id
<1>7. \A e \in timerCreateTimers : e[1] \in Nat /\ e[1] < id
  BY DEF TimerInv, id
<1>8. \A e \in timerCreateTimers' : e[1] \in Nat /\ e[1] < id + 1
  BY <1>1, <1>3, <1>7
<1>9. \A a \in created : a[2] \in Nat /\ a[2] < id
  BY DEF TimerInv, id
<1>10. new[2] = id
  OBVIOUS
<1> HIDE DEF new
<1>11. \A a \in created' : a[2] \in Nat /\ a[2] < id + 1
  BY <1>1, <1>3, <1>9, <1>10
<1>12. TimerIdsDistinct'
  <2> SUFFICES ASSUME NEW a \in created', NEW b \in created', a[2] = b[2]
               PROVE  a = b
    BY DEF TimerIdsDistinct
  <2>1. CASE a \in created /\ b \in created
    BY <2>1 DEF TimerInv, TimerIdsDistinct
  <2>2. CASE a = new /\ b \in created
    BY <1>1, <1>9, <1>10, <2>2
  <2>3. CASE a \in created /\ b = new
    BY <1>1, <1>9, <1>10, <2>3
  <2> QED
    BY <1>3, <2>1, <2>2, <2>3
<1> QED
  BY <1>5, <1>8, <1>11, <1>12 DEF TimerInv

\* So the ids stay distinct.
LEMMA TimersKept ==
  ASSUME TimerInv, TimersSame \/ \E sig : NewTimer(sig)
  PROVE  TimerInv'
<1>1. TimerInv /\ TimersSame => TimerInv'
  BY DEF TimerInv, TimersSame, TimerIdsDistinct
<1> QED
  BY <1>1, CreateTimers

\* All other steps leave the tables alone.
LEMMA TimerSteps ==
  ASSUME [SignalsNext]_signalVars
  PROVE  TimersSame \/ \E sig \in Signal : NewTimer(sig)
<1>1. ASSUME NEW t \in Thread, NEW sig, armed(t, sig)
      PROVE  TimersSame
  BY <1>1 DEF armed, TimersSame
<1>2. ASSUME NEW t \in Thread,
             alarm(t) \/ pause(t) \/ rt_sigsuspend(t) \/ execve(t)
      PROVE  TimersSame
  BY <1>1, <1>2 DEF alarm, pause, rt_sigsuspend, execve, TimersSame
<1>3. ASSUME NEW t \in Thread, NEW blocked \in SUBSET Signal,
             rt_sigprocmask(t, blocked) \/ rt_sigsuspendEnter(t, blocked)
      PROVE  TimersSame
  BY <1>3, Zenon DEF rt_sigprocmask, rt_sigsuspendEnter, TimersSame
<1>4. ASSUME NEW t \in Thread, NEW sig \in Signal, setitimer(t, sig) \/ deliver(t, sig)
      PROVE  TimersSame
  BY <1>1, <1>4 DEF setitimer, deliver, TimersSame
<1>5. ASSUME NEW t \in Thread, NEW sig \in Signal, NEW handler \in Handlers,
             rt_sigaction(t, sig, handler)
      PROVE  TimersSame
  BY <1>5 DEF rt_sigaction, TimersSame
<1>6. ASSUME NEW t \in Thread, NEW u \in Thread, NEW sig \in Signal, tgkill(t, u, sig)
      PROVE  TimersSame
  BY <1>6 DEF tgkill, TimersSame
<1>7. ASSUME NEW t \in Thread, NEW id \in 0 .. MaxTimers, timer_delete(t, id) \/ timer_settime(t, id)
      PROVE  TimersSame
  BY <1>1, <1>7 DEF timer_delete, timer_settime, signalVars, TimersSame
<1>8. ASSUME NEW t \in Thread, NEW u \in Thread, rt_sigsuspendAgain(t, u) \/ preempted(t, u)
      PROVE  TimersSame
  BY <1>8 DEF rt_sigsuspendAgain, preempted, Switch, TimersSame
<1>9. ASSUME NEW sig \in Signal, kill(sig)
      PROVE  TimersSame
  BY <1>9 DEF kill, TimersSame
<1>10. ASSUME NEW u \in Thread, nextAfterExit(u)
       PROVE  TimersSame
  BY <1>10 DEF nextAfterExit, Switch, TimersSame
<1>11. CASE UNCHANGED signalVars
  BY <1>11 DEF signalVars, TimersSame
<1>12. ASSUME NEW t \in Thread, NEW sig \in Signal, timer_create(t, sig)
       PROVE  NewTimer(sig)
  BY <1>12 DEF timer_create, NewTimer
<1> QED
  BY <1>2, <1>3, <1>4, <1>5, <1>6, <1>7, <1>8, <1>9, <1>10, <1>11, <1>12 DEF SignalsNext

\* The same of the steps of any signals.
LEMMA AnyTimerSteps ==
  ASSUME [AnySignals!SignalsNext]_signalVars
  PROVE  TimersSame \/ \E sig \in {SIGALRM} : NewTimer(sig)
<1>1. ASSUME NEW t \in Thread, NEW sig, AnySignals!armed(t, sig)
      PROVE  TimersSame
  BY <1>1 DEF AnySignals!armed, TimersSame
<1>2. ASSUME NEW t \in Thread,
             AnySignals!alarm(t) \/ AnySignals!pause(t) \/ AnySignals!rt_sigsuspend(t) \/ AnySignals!execve(t)
      PROVE  TimersSame
  BY <1>1, <1>2 DEF AnySignals!alarm, AnySignals!pause, AnySignals!rt_sigsuspend, AnySignals!execve, TimersSame
<1>3. ASSUME NEW t \in Thread, NEW blocked \in SUBSET {SIGALRM},
             AnySignals!rt_sigprocmask(t, blocked) \/ AnySignals!rt_sigsuspendEnter(t, blocked)
      PROVE  TimersSame
  BY <1>3 DEF AnySignals!rt_sigprocmask, AnySignals!rt_sigsuspendEnter, TimersSame
<1>4. ASSUME NEW t \in Thread, NEW sig \in {SIGALRM}, AnySignals!setitimer(t, sig) \/ AnySignals!deliver(t, sig)
      PROVE  TimersSame
  BY <1>1, <1>4 DEF AnySignals!setitimer, AnySignals!deliver, TimersSame
<1>5. ASSUME NEW t \in Thread, NEW sig \in {SIGALRM}, NEW handler \in AnySignals!Handlers,
             AnySignals!rt_sigaction(t, sig, handler)
      PROVE  TimersSame
  BY <1>5 DEF AnySignals!rt_sigaction, TimersSame
<1>6. ASSUME NEW t \in Thread, NEW u \in Thread, NEW sig \in {SIGALRM}, AnySignals!tgkill(t, u, sig)
      PROVE  TimersSame
  BY <1>6 DEF AnySignals!tgkill, TimersSame
<1>7. ASSUME NEW t \in Thread, NEW id \in 0 .. 2, AnySignals!timer_delete(t, id) \/ AnySignals!timer_settime(t, id)
      PROVE  TimersSame
  BY <1>1, <1>7 DEF AnySignals!timer_delete, AnySignals!timer_settime, signalVars, AnySignals!signalVars, TimersSame
<1>8. ASSUME NEW t \in Thread, NEW u \in Thread, AnySignals!rt_sigsuspendAgain(t, u) \/ AnySignals!preempted(t, u)
      PROVE  TimersSame
  BY <1>8 DEF AnySignals!rt_sigsuspendAgain, AnySignals!preempted, AnySignals!Switch, TimersSame
<1>9. ASSUME NEW sig \in {SIGALRM}, AnySignals!kill(sig)
      PROVE  TimersSame
  BY <1>9 DEF AnySignals!kill, TimersSame
<1>10. ASSUME NEW u \in Thread, AnySignals!nextAfterExit(u)
       PROVE  TimersSame
  BY <1>10 DEF AnySignals!nextAfterExit, AnySignals!Switch, TimersSame
<1>11. CASE UNCHANGED signalVars
  BY <1>11 DEF signalVars, AnySignals!signalVars, TimersSame
<1>12. ASSUME NEW t \in Thread, NEW sig \in {SIGALRM}, AnySignals!timer_create(t, sig)
       PROVE  NewTimer(sig)
  BY <1>12 DEF AnySignals!timer_create, NewTimer, Cardinality, AnySignals!Cardinality
<1> QED
  BY <1>2, <1>3, <1>4, <1>5, <1>6, <1>7, <1>8, <1>9, <1>10, <1>11, <1>12 DEF AnySignals!SignalsNext

\* Two timers never share an id, whatever the tracees do and however many
\* timers they make.
THEOREM TimerIdsSafety == SignalsSpec => []TimerIdsDistinct
<1>1. SignalsInit => TimerInv
  BY FS_EmptySet DEF SignalsInit, TimerInv, TimerIdsDistinct
<1>2. TimerInv /\ [SignalsNext]_signalVars => TimerInv'
  BY TimerSteps, TimersKept
<1>3. TimerInv => TimerIdsDistinct
  BY DEF TimerInv
<1> QED
  BY <1>1, <1>2, <1>3, PTL DEF SignalsSpec

----------------------------------------------------------------------------
(* Handlers and pauses. *)

\* What tracees may not do here: timers of other threads than the leader and of
\* blocked signals, signals that do not come from timers, and another program all
\* make the table of handlers wrong.
OnlyOwnTimers ==
  Behaviours \intersect {"thread arms", "arms blocked", "kill", "tgkill", "execve"} = {}

\* The constants are as they are for any process.
OneProcess == Leader \in Thread /\ SIGALRM \in Signal

TypeOK ==
  /\ threads \subseteq Thread
  /\ disposition \in [Signal -> Handlers]
  /\ mask \in [Thread -> SUBSET Signal]
  /\ pending \in [Thread -> SUBSET Signal]
  /\ currentSignalHandlers \in [Signal -> Handlers \union {"absent"}]
  /\ \A e \in timerCreateTimers : e[2] \in Signal
  /\ call \in [Thread -> {"none", "pause", "rt_sigsuspend"}]

\* Signals wait only for the leader, which has its turn, and is in the pause that
\* they end: there is one at a time, it is not blocked, and it has a handler.
OnlyInjected ==
  /\ shared = {}
  /\ \A t \in Thread : pending[t] # {} =>
       /\ t = Leader /\ turn = Leader /\ Leader \in threads /\ call[Leader] = "pause"
       /\ pending[t] \intersect mask[t] = {}
       /\ \A sig \in pending[t] : disposition[sig] \in {"custom", "1shot"} /\ pending[t] = {sig}

\* The table is right, or already set for the time after a 1-shot handler.
TableAhead ==
  \A sig \in Signal :
    handlerOf(sig) = IF sig \in pending[Leader] /\ disposition[sig] = "1shot" THEN "default"
                     ELSE disposition[sig]

HandlerInv == TypeOK /\ OnlyInjected /\ TableAhead

\* A thread in a pause has a signal that ends it.
PauseInv == \A t \in threads : call[t] = "pause" => pending[t] # {}

\* What is shown of every step.
Kept == HandlerInv' /\ ("pause" \notin Behaviours /\ PauseInv => PauseInv')

\* No signal is on its way when a thread runs that is not in a pause, or when
\* none runs.
NonePending == \A t \in Thread : pending[t] = {}

LEMMA NoneWhenRunning ==
  ASSUME HandlerInv, turn \notin threads \/ call[turn] # "pause"
  PROVE  NonePending
  BY DEF HandlerInv, OnlyInjected, NonePending

\* Steps that leave alone what the invariant is about, but for the turn, the mask,
\* the tables of timers and a call, while no signal is on its way.
LEMMA QuietStep ==
  ASSUME OneProcess, HandlerInv, NonePending,
         UNCHANGED <<threads, disposition, pending, shared, currentSignalHandlers>>,
         mask' \in [Thread -> SUBSET Signal], \A e \in timerCreateTimers' : e[2] \in Signal,
         call' \in [Thread -> {"none", "pause", "rt_sigsuspend"}],
         "pause" \notin Behaviours => \A t \in Thread : call'[t] = "pause" => call[t] = "pause"
  PROVE  Kept
<1>1. TypeOK'
  BY DEF HandlerInv, TypeOK
<1>2. OnlyInjected'
  BY DEF HandlerInv, OnlyInjected, NonePending
<1>3. TableAhead'
  BY DEF HandlerInv, TableAhead, handlerOf
<1>4. "pause" \notin Behaviours /\ PauseInv => PauseInv'
  BY DEF PauseInv, HandlerInv, TypeOK
<1> QED
  BY <1>1, <1>2, <1>3, <1>4 DEF Kept, HandlerInv

\* rt_sigaction changes the table and the kernel's in the same way.
LEMMA ActionStep ==
  ASSUME OneProcess, HandlerInv, NEW t \in Thread, NEW sig \in Signal, NEW handler \in Handlers,
         rt_sigaction(t, sig, handler)
  PROVE  Kept
<1>1. NonePending
  BY NoneWhenRunning DEF rt_sigaction, Free, Runs
<1>2. /\ pending' = [u \in Thread |-> IF handler = "ignored" THEN pending[u] \ {sig} ELSE pending[u]]
      /\ shared' = IF handler = "ignored" THEN shared \ {sig} ELSE shared
      /\ disposition' = [disposition EXCEPT ![sig] = handler]
      /\ currentSignalHandlers' = [currentSignalHandlers EXCEPT ![sig] = handler]
      /\ UNCHANGED <<threads, mask, timerCreateTimers, call, turn>>
  BY DEF rt_sigaction, Install
<1>3. pending' = pending /\ shared' = {}
  BY <1>1, <1>2 DEF HandlerInv, TypeOK, OnlyInjected, NonePending
<1>4. TypeOK'
  BY <1>2, <1>3 DEF HandlerInv, TypeOK
<1>5. OnlyInjected'
  BY <1>1, <1>3 DEF OnlyInjected, NonePending
<1>6. handler # "absent"
  BY DEF Handlers
<1>7. TableAhead'
  <2> SUFFICES ASSUME NEW s \in Signal
               PROVE  handlerOf(s)' = disposition'[s]
    BY <1>1, <1>3 DEF TableAhead, NonePending, OneProcess
  <2>1. handlerOf(s) = disposition[s]
    BY <1>1 DEF HandlerInv, TableAhead, NonePending, OneProcess
  <2>2. CASE s = sig
    BY <1>2, <1>6, <2>2 DEF handlerOf, HandlerInv, TypeOK
  <2>3. CASE s # sig
    BY <1>2, <2>1, <2>3 DEF handlerOf, HandlerInv, TypeOK
  <2> QED
    BY <2>2, <2>3
<1>8. PauseInv => PauseInv'
  BY <1>2, <1>3, Zenon DEF PauseInv
<1> QED
  BY <1>4, <1>5, <1>7, <1>8 DEF Kept, HandlerInv

\* A handler's signal is sent to the leader, in a pause.
LEMMA InjectStep ==
  ASSUME OneProcess, HandlerInv, NonePending, NEW sig \in Signal,
         Runs(Leader), sig \notin mask[Leader], injectSignal(Leader, sig),
         UNCHANGED <<disposition, mask, shared, timerCreateTimers, turn>>,
         \/ handlerOf(sig) = "custom" /\ currentSignalHandlers' = currentSignalHandlers
         \/ /\ handlerOf(sig) = "1shot"
            /\ currentSignalHandlers' = [currentSignalHandlers EXCEPT ![sig] = "default"]
  PROVE  Kept
<1>1. disposition[sig] = handlerOf(sig)
  BY DEF HandlerInv, TableAhead, NonePending, OneProcess
<1>2. disposition[sig] \in {"custom", "1shot"}
  BY <1>1
<1>3. /\ call' = [call EXCEPT ![Leader] = "pause"]
      /\ pending' = [pending EXCEPT ![Leader] = {sig}]
      /\ threads' = threads
  BY <1>2 DEF injectSignal, NonePending, OneProcess
<1>4. TypeOK'
  BY <1>3 DEF HandlerInv, TypeOK, OneProcess, Handlers
<1>5. \A t \in Thread : pending'[t] = IF t = Leader THEN {sig} ELSE {}
  BY <1>3, Zenon DEF HandlerInv, TypeOK, NonePending
<1>6. call'[Leader] = "pause" /\ \A t \in Thread \ {Leader} : call'[t] = call[t]
  BY <1>3 DEF HandlerInv, TypeOK, OneProcess
<1>7. OnlyInjected'
  BY <1>2, <1>3, <1>5, <1>6 DEF OnlyInjected, HandlerInv, Runs
<1>8. TableAhead'
  <2> SUFFICES ASSUME NEW s \in Signal
               PROVE  handlerOf(s)' = IF s = sig /\ disposition[s] = "1shot" THEN "default"
                                      ELSE disposition[s]
    BY <1>5 DEF TableAhead, OneProcess
  <2>1. handlerOf(s) = disposition[s]
    BY DEF HandlerInv, TableAhead, NonePending, OneProcess
  <2>2. CASE handlerOf(sig) = "custom" /\ currentSignalHandlers' = currentSignalHandlers
    BY <1>1, <2>1, <2>2 DEF handlerOf
  <2>3. CASE /\ handlerOf(sig) = "1shot"
             /\ currentSignalHandlers' = [currentSignalHandlers EXCEPT ![sig] = "default"]
    <3>1. CASE s = sig
      BY <1>1, <2>3, <3>1 DEF handlerOf, HandlerInv, TypeOK
    <3>2. CASE s # sig
      BY <2>1, <2>3, <3>2 DEF handlerOf, HandlerInv, TypeOK
    <3> QED
      BY <3>1, <3>2
  <2> QED
    BY <2>2, <2>3
<1>9. PauseInv => PauseInv'
  BY <1>3, <1>5, <1>6 DEF PauseInv, HandlerInv, TypeOK, NonePending
<1> QED
  BY <1>4, <1>7, <1>8, <1>9 DEF Kept, HandlerInv

\* A timer is set: a handler runs, the thread ends, or nothing happens.
LEMMA ArmedStep ==
  ASSUME OneProcess, OnlyOwnTimers, HandlerInv, NEW t \in Thread, NEW sig \in Signal, armed(t, sig)
  PROVE  Kept
<1>1. NonePending
  BY NoneWhenRunning DEF armed, Free, Runs
<1>2. t = Leader /\ sig \notin mask[t] /\ Runs(t)
  BY Zenon DEF armed, Ordinary, OnlyOwnTimers, Free
<1>3. UNCHANGED <<disposition, mask, shared, timerCreateTimers, turn>>
  BY DEF armed
<1>4. CASE handlerOf(sig) = "1shot"
  <2>1. /\ injectSignal(t, sig)
        /\ currentSignalHandlers' = [currentSignalHandlers EXCEPT ![sig] = "default"]
    BY <1>4 DEF armed, sendTraceeSignalNow
  <2> QED
    BY <1>1, <1>2, <1>3, <1>4, <2>1, InjectStep, Zenon
<1>5. CASE handlerOf(sig) = "custom"
  <2>1. injectSignal(t, sig) /\ currentSignalHandlers' = currentSignalHandlers
    BY <1>5 DEF armed, sendTraceeSignalNow
  <2> QED
    BY <1>1, <1>2, <1>3, <1>5, <2>1, InjectStep
<1>6. CASE handlerOf(sig) = "default"
  <2>1. /\ threads' = threads \ {t}
        /\ UNCHANGED <<call, pending, currentSignalHandlers>>
    BY <1>6 DEF armed, sendTraceeSignalNow
  <2>2. TypeOK'
    BY <1>3, <2>1 DEF HandlerInv, TypeOK
  <2>3. OnlyInjected'
    BY <1>1, <1>3, <2>1 DEF HandlerInv, OnlyInjected, NonePending
  <2>4. TableAhead'
    BY <1>3, <2>1 DEF HandlerInv, TableAhead, handlerOf
  <2>5. PauseInv => PauseInv'
    BY <2>1 DEF PauseInv
  <2> QED
    BY <2>2, <2>3, <2>4, <2>5 DEF Kept, HandlerInv
<1>7. CASE handlerOf(sig) = "ignored"
  <2>1. UNCHANGED <<threads, call, pending, currentSignalHandlers>>
    BY <1>7 DEF armed, sendTraceeSignalNow
  <2> QED
    BY <1>1, <1>3, <2>1, QuietStep DEF HandlerInv, TypeOK
<1>8. handlerOf(sig) \in Handlers
  BY DEF handlerOf, HandlerInv, TypeOK, Handlers
<1> QED
  BY <1>4, <1>5, <1>6, <1>7, <1>8 DEF Handlers

\* The signal arrives, and the pause is over.
LEMMA DeliverStep ==
  ASSUME OneProcess, HandlerInv, NEW t \in Thread, NEW sig \in Signal, deliver(t, sig)
  PROVE  Kept
<1>1. sig \in pending[t]
  BY DEF deliver, Deliverable, HandlerInv, OnlyInjected
<1>2. /\ t = Leader /\ turn = Leader /\ Leader \in threads /\ call[Leader] = "pause"
      /\ disposition[sig] \in {"custom", "1shot"}
  BY <1>1 DEF HandlerInv, OnlyInjected
<1>3. /\ threads' = threads /\ shared' = {}
      /\ disposition' = [disposition EXCEPT ![sig] = IF @ = "1shot" THEN "default" ELSE @]
      /\ pending' = [pending EXCEPT ![Leader] = @ \ {sig}]
      /\ call' = [call EXCEPT ![Leader] = "none"]
      /\ UNCHANGED <<mask, currentSignalHandlers, timerCreateTimers, turn>>
  BY <1>1, <1>2 DEF deliver, HandlerInv, OnlyInjected
<1>4. \A u \in Thread : pending'[u] = {}
  BY <1>1, <1>2, <1>3 DEF HandlerInv, OnlyInjected, TypeOK
<1>5. TypeOK'
  BY <1>2, <1>3 DEF HandlerInv, TypeOK, Handlers
<1>6. OnlyInjected'
  BY <1>3, <1>4 DEF OnlyInjected
<1>7. TableAhead'
  <2> SUFFICES ASSUME NEW s \in Signal
               PROVE  handlerOf(s)' = disposition'[s]
    BY <1>4 DEF TableAhead, OneProcess
  <2>0. handlerOf(s)' = handlerOf(s)
    BY <1>3 DEF handlerOf
  <2>1. handlerOf(s) = IF s \in pending[Leader] /\ disposition[s] = "1shot" THEN "default"
                       ELSE disposition[s]
    BY DEF HandlerInv, TableAhead
  <2>2. CASE s = sig
    <3>1. disposition'[s] = IF disposition[s] = "1shot" THEN "default" ELSE disposition[s]
      BY <1>3, <2>2 DEF HandlerInv, TypeOK
    <3> QED
      BY <1>1, <1>2, <2>0, <2>1, <2>2, <3>1
  <2>3. CASE s # sig
    <3>1. disposition'[s] = disposition[s]
      BY <1>3, <2>3 DEF HandlerInv, TypeOK
    <3>2. s \notin pending[Leader]
      BY <1>1, <1>2, <2>3 DEF HandlerInv, OnlyInjected
    <3> QED
      BY <2>0, <2>1, <3>1, <3>2
  <2> QED
    BY <2>2, <2>3
<1>8. PauseInv => PauseInv'
  <2> SUFFICES ASSUME PauseInv, NEW u \in threads', call'[u] = "pause"
               PROVE  pending'[u] # {}
    BY DEF PauseInv
  <2>1. u \in Thread /\ u # Leader /\ call[u] = "pause"
    BY <1>3 DEF HandlerInv, TypeOK
  <2>2. pending[u] # {}
    BY <1>3, <2>1 DEF PauseInv
  <2> QED
    BY <2>1, <2>2 DEF HandlerInv, OnlyInjected
<1> QED
  BY <1>5, <1>6, <1>7, <1>8 DEF Kept, HandlerInv

\* Every step keeps the invariant.
LEMMA SignalStep ==
  ASSUME OneProcess, OnlyOwnTimers, HandlerInv, [SignalsNext]_signalVars
  PROVE  Kept
<1>1. ASSUME NEW t \in Thread, alarm(t)
      PROVE  Kept
  BY <1>1, ArmedStep DEF alarm, OneProcess
<1>2. ASSUME NEW t \in Thread, NEW sig \in Signal, setitimer(t, sig)
      PROVE  Kept
  BY <1>2, ArmedStep DEF setitimer
<1>3. ASSUME NEW t \in Thread, NEW id, timer_settime(t, id)
      PROVE  Kept
  <2>1. PICK e \in timerCreateTimers : armed(t, e[2])
    BY <1>3 DEF timer_settime
  <2>2. e[2] \in Signal
    BY <2>1 DEF HandlerInv, TypeOK
  <2> QED
    BY <2>1, <2>2, ArmedStep
<1>4. ASSUME NEW t \in Thread, NEW sig \in Signal, timer_create(t, sig)
      PROVE  Kept
  <2>1. NonePending
    BY <1>4, NoneWhenRunning DEF timer_create, Free, Runs
  <2>2. /\ UNCHANGED <<threads, disposition, mask, pending, shared, currentSignalHandlers, call>>
        /\ \/ timerCreateTimers' = timerCreateTimers
           \/ timerCreateTimers' = timerCreateTimers \union {<<Cardinality(timerCreateTimers), sig>>}
    BY <1>4 DEF timer_create
  <2>3. \A e \in timerCreateTimers' : e[2] \in Signal
    BY <2>2 DEF HandlerInv, TypeOK
  <2> QED
    BY <2>1, <2>2, <2>3, QuietStep DEF HandlerInv, TypeOK
<1>5. ASSUME NEW t \in Thread, NEW id, timer_delete(t, id)
      PROVE  Kept
  <2>1. NonePending
    BY <1>5, NoneWhenRunning DEF timer_delete, Free, Runs
  <2> QED
    BY <1>5, <2>1, QuietStep DEF timer_delete, signalVars, HandlerInv, TypeOK
<1>6. ASSUME NEW t \in Thread, NEW sig \in Signal, NEW handler \in Handlers,
             rt_sigaction(t, sig, handler)
      PROVE  Kept
  BY <1>6, ActionStep
<1>7. ASSUME NEW t \in Thread, NEW blocked \in SUBSET Signal, rt_sigprocmask(t, blocked)
      PROVE  Kept
  <2>1. NonePending
    BY <1>7, NoneWhenRunning DEF rt_sigprocmask, Free, Runs
  <2>2. /\ mask' = [mask EXCEPT ![t] = blocked]
        /\ UNCHANGED <<threads, disposition, pending, shared, currentSignalHandlers,
                       timerCreateTimers, call>>
    BY <1>7 DEF rt_sigprocmask
  <2>3. mask' \in [Thread -> SUBSET Signal]
    BY <2>2 DEF HandlerInv, TypeOK
  <2> QED
    BY <2>1, <2>2, <2>3, QuietStep DEF HandlerInv, TypeOK
<1>8. ASSUME NEW t \in Thread, pause(t)
      PROVE  Kept
  <2>1. NonePending
    BY <1>8, NoneWhenRunning DEF pause, Free, Runs
  <2>2. /\ "pause" \in Behaviours
        /\ call' = [call EXCEPT ![t] = "pause"]
        /\ UNCHANGED <<threads, disposition, mask, pending, shared, currentSignalHandlers,
                       timerCreateTimers>>
    BY <1>8 DEF pause
  <2>3. call' \in [Thread -> {"none", "pause", "rt_sigsuspend"}]
    BY <2>2 DEF HandlerInv, TypeOK
  <2> QED
    BY <2>1, <2>2, <2>3, QuietStep DEF HandlerInv, TypeOK
<1>9. ASSUME NEW t \in Thread, NEW blocked \in SUBSET Signal, rt_sigsuspendEnter(t, blocked)
      PROVE  Kept
  <2>1. NonePending
    BY <1>9, NoneWhenRunning, Zenon DEF rt_sigsuspendEnter, Free, Runs
  <2>2. /\ call' = [call EXCEPT ![t] = "rt_sigsuspend"]
        /\ UNCHANGED <<threads, disposition, mask, pending, shared, currentSignalHandlers,
                       timerCreateTimers>>
    BY <1>9, Zenon DEF rt_sigsuspendEnter
  <2>3. /\ call' \in [Thread -> {"none", "pause", "rt_sigsuspend"}]
        /\ \A u \in Thread : call'[u] = "pause" => call[u] = "pause"
    BY <2>2 DEF HandlerInv, TypeOK
  <2> QED
    BY <2>1, <2>2, <2>3, QuietStep DEF HandlerInv, TypeOK
<1>10. ASSUME NEW t \in Thread, rt_sigsuspend(t)
       PROVE  FALSE
  <2>1. Runs(t) /\ call[t] = "rt_sigsuspend" /\ pending[t] \ wakeMask[t] # {}
    BY <1>10 DEF rt_sigsuspend, getPendingSignalInfo
  <2>2. NonePending
    BY <2>1, NoneWhenRunning DEF Runs
  <2> QED
    BY <2>1, <2>2 DEF NonePending
<1>11. ASSUME NEW t \in Thread, NEW sig \in Signal, deliver(t, sig)
       PROVE  Kept
  BY <1>11, DeliverStep
<1>12. ASSUME NEW t \in Thread, NEW u \in Thread,
              execve(t) \/ (\E sig \in Signal : kill(sig) \/ tgkill(t, u, sig))
       PROVE  FALSE
  BY <1>12, Zenon DEF execve, kill, tgkill, OnlyOwnTimers
<1>13. ASSUME NEW u \in Thread, Switch(u), NonePending
       PROVE  Kept
  <2>1. UNCHANGED <<threads, disposition, mask, pending, shared, currentSignalHandlers,
                    timerCreateTimers, call>>
    BY <1>13 DEF Switch
  <2> QED
    BY <1>13, <2>1, QuietStep DEF HandlerInv, TypeOK
<1>14. ASSUME NEW t \in Thread, NEW u \in Thread,
              rt_sigsuspendAgain(t, u) \/ preempted(t, u) \/ nextAfterExit(u)
       PROVE  Kept
  <2>1. turn \notin threads \/ call[turn] # "pause"
    BY <1>14 DEF rt_sigsuspendAgain, preempted, nextAfterExit, Free, Runs
  <2>2. Switch(u)
    BY <1>14 DEF rt_sigsuspendAgain, preempted, nextAfterExit
  <2> QED
    BY <1>13, <2>1, <2>2, NoneWhenRunning
<1>15. CASE UNCHANGED signalVars
  BY <1>15 DEF signalVars, Kept, HandlerInv, TypeOK, OnlyInjected, TableAhead, handlerOf, PauseInv
<1> QED
  BY <1>1, <1>2, <1>3, <1>4, <1>5, <1>6, <1>7, <1>8, <1>9, <1>10, <1>11, <1>12, <1>14, <1>15
     DEF SignalsNext, OneProcess

\* The invariant holds in the beginning.
LEMMA HandlerInitial ==
  ASSUME OneProcess, SignalsInit
  PROVE  HandlerInv /\ PauseInv
<1>1. TypeOK
  BY DEF SignalsInit, TypeOK, Handlers
<1>2. OnlyInjected
  BY DEF SignalsInit, OnlyInjected
<1>3. TableAhead
  BY DEF SignalsInit, TableAhead, handlerOf, OneProcess
<1>4. PauseInv
  BY DEF SignalsInit, PauseInv
<1> QED
  BY <1>1, <1>2, <1>3, <1>4 DEF HandlerInv

\* The table of handlers is right whenever a hook looks something up in it, for
\* any threads and signals, however often handlers are installed and timers are
\* set; and the ids of timers are distinct, there and whatever else threads do.
THEOREM TablesSafety ==
  ASSUME OneProcess, OnlyOwnTimers
  PROVE  MCSpec => []SignalTablesRight
<1> DEFINE TablesInv == /\ part = "timers" => HandlerInv /\ TimerInv
                        /\ part = "any signals" => TimerInv
<1>1. MCInit => TablesInv
  <2>1. SignalsInit => TimerInv
    BY FS_EmptySet DEF SignalsInit, TimerInv, TimerIdsDistinct
  <2>2. AnySignals!SignalsInit => TimerInv
    BY FS_EmptySet DEF AnySignals!SignalsInit, TimerInv, TimerIdsDistinct
  <2> QED
    BY <2>1, <2>2, HandlerInitial, SignalParts, Zenon
<1>2. TablesInv /\ [MCNext]_mcVars => TablesInv'
  <2> SUFFICES ASSUME TablesInv, [MCNext]_mcVars
               PROVE  TablesInv'
    BY Zenon
  <2>1. part' = part
    BY SignalParts, Zenon
  <2>2. CASE part = "timers"
    <3>1. HandlerInv'
      BY <2>2, SignalParts, SignalStep DEF Kept
    <3>2. TimerInv'
      BY <2>2, SignalParts, TimerSteps, TimersKept
    <3> QED
      BY <2>1, <2>2, <3>1, <3>2
  <2>3. CASE part = "any signals"
    BY <2>1, <2>3, SignalParts, AnyTimerSteps, TimersKept, Zenon
  <2> QED
    BY <2>1, <2>2, <2>3, Zenon
<1>3. TablesInv => SignalTablesRight
  <2>1. HandlerInv => HandlersKnown
    BY DEF HandlerInv, TableAhead, HandlersKnown, OneProcess
  <2>2. TimerInv => TimerIdsDistinct /\ AnySignals!TimerIdsDistinct
    BY DEF TimerInv, TimerIdsDistinct, AnySignals!TimerIdsDistinct
  <2> QED
    BY <2>1, <2>2, Zenon DEF SignalTablesRight
<1> QED
  BY <1>1, <1>2, <1>3, StepsOnly, PTL

\* A call of the leader that was turned into pause is ended by its signal, if the
\* tracees do not call pause themselves: the tracer does not wait for a thread
\* that sleeps.
THEOREM PausesEnd ==
  ASSUME OneProcess, OnlyOwnTimers, "pause" \notin Behaviours
  PROVE  MCSpec => []NeverSleeps
<1> DEFINE SleepInv == part = "timers" => HandlerInv /\ PauseInv
<1>1. MCInit => SleepInv
  BY HandlerInitial, SignalParts
<1>2. SleepInv /\ [MCNext]_mcVars => SleepInv'
  BY SignalStep, SignalParts, Zenon DEF Kept
<1>3. SleepInv => NeverSleeps
  <2>1. HandlerInv /\ PauseInv => PausesHaveSignals
    BY DEF HandlerInv, TypeOK, OnlyInjected, PauseInv, PausesHaveSignals, Deliverable
  <2> QED
    BY <2>1 DEF NeverSleeps
<1> QED
  BY <1>1, <1>2, <1>3, StepsOnly, PTL

----------------------------------------------------------------------------
(* The same on all hosts. *)

\* dettrace remembers the same on both hosts, and has told the same; the number
\* of processors is overridden.
HostsAlike ==
  /\ with_proc_overrides
  /\ remembers = [h \in Host |-> remembers[1]]
  /\ told = [h \in Host |-> told[1]]

\* A handler of a determinized call gives the same answer wherever it runs.
LEMMA HandledAlike ==
  ASSUME NEW c \in Determinized, NEW m, NEW p, NEW w, with_proc_overrides
  PROVE  Handle(c, m, p, 1, w) = Handle(c, m, p, 2, w)
  BY DEF Determinized, Handle, clock_gettimePost, gettimeofdayPost, timePost, timesPost,
         getrusagePost, ioctlRtc, rdtsc, rdtscp, getrandomPost, unamePost, sysinfoPost,
         getcpuPost, mincorePost, TIOCGWINSZ, interceptStatfs, sched_getaffinityPre, getTimer

\* So do the tables of cpuid: the leaves past their end are answered with zeros.
LEMMA CpuidAlike ==
  ASSUME NEW m, NEW leaf \in Nat
  PROVE  cpuid(m, 1, leaf) = cpuid(m, 2, leaf)
  BY DEF cpuid, maxCpuidLeaf

\* Answers that are alike leave the hosts alike.
LEMMA ReturnAlike ==
  ASSUME NEW a, a[1] = a[2], Return(a), with_proc_overrides'
  PROVE  HostsAlike'
<1>1. /\ remembers' = [h \in Host |-> a[h].remembers]
      /\ told' = [h \in Host |-> a[h].told]
  BY DEF Return
<1>2. \A h \in Host : a[h] = a[1]
  BY DEF Host
<1> QED
  BY <1>1, <1>2 DEF HostsAlike, Host

\* Every step keeps the hosts alike.
LEMMA StepAlike ==
  ASSUME MaxLeaf \in Nat, HostsAlike, [Queries(Determinized)]_machineVars
  PROVE  HostsAlike'
<1>0. remembers[1] = remembers[2] /\ with_proc_overrides
  BY DEF HostsAlike, Host
<1>1. ASSUME NEW c \in Determinized, NEW w \in Ways, asks(c, w)
      PROVE  HostsAlike'
  <2> DEFINE a == [h \in Host |-> Handle(c, remembers[h], current, h, w)]
  <2>1. Return(a) /\ with_proc_overrides'
    BY <1>0, <1>1 DEF asks
  <2>2. Handle(c, remembers[1], current, 1, w) = Handle(c, remembers[1], current, 2, w)
    BY <1>0, HandledAlike
  <2>3. a[1] = a[2]
    BY <1>0, <2>2 DEF Host
  <2> HIDE DEF a
  <2> QED
    BY <2>1, <2>3, ReturnAlike
<1>2. ASSUME NEW leaf \in 0..MaxLeaf, asksCpuid(leaf)
      PROVE  HostsAlike'
  <2> DEFINE a == [h \in Host |-> cpuid(remembers[h], h, leaf)]
  <2>1. Return(a) /\ with_proc_overrides'
    BY <1>0, <1>2 DEF asksCpuid
  <2>2. cpuid(remembers[1], 1, leaf) = cpuid(remembers[1], 2, leaf)
    BY CpuidAlike
  <2>3. a[1] = a[2]
    BY <1>0, <2>2 DEF Host
  <2> HIDE DEF a
  <2> QED
    BY <2>1, <2>3, ReturnAlike
<1>3. ASSUME NEW q \in Process, fork(q)
      PROVE  HostsAlike'
  <2>1. /\ remembers' = [h \in Host |-> forked(remembers[h], q)]
        /\ told' = told /\ with_proc_overrides'
    BY <1>0, <1>3 DEF fork
  <2>2. forked(remembers[1], q) = forked(remembers[2], q)
    BY <1>0
  <2> QED
    BY <2>1, <2>2 DEF HostsAlike, Host
<1>4. CASE UNCHANGED machineVars
  BY <1>4 DEF machineVars, HostsAlike
<1> QED
  BY <1>1, <1>2, <1>3, <1>4 DEF Queries

\* A program that makes only determinized calls, on a machine whose number of
\* processors is overridden, is told the same on both hosts after any number of
\* calls by any number of processes.
THEOREM HostsDoNotShow ==
  ASSUME MaxLeaf \in Nat
  PROVE  MCSpec => []SameOnAllHosts
<1> DEFINE HostsInv == part = "hosts" => HostsAlike
<1>1. MCInit => HostsInv
  <2>1. MachineInit /\ with_proc_overrides => HostsAlike
    BY DEF MachineInit, HostsAlike, Host
  <2> QED
    BY <2>1, MachineParts
<1>2. HostsInv /\ [MCNext]_mcVars => HostsInv'
  BY StepAlike, MachineParts
<1>3. HostsInv => SameOnAllHosts
  BY DEF HostsAlike, SameOnAllHosts, ToldTheSame, Host
<1> QED
  BY <1>1, <1>2, <1>3, StepsOnly, PTL

----------------------------------------------------------------------------
(* The time moves on. *)

Memory == [clock : [Process -> Nat], tsc : Nat, tscp : Nat, prng : Nat]

\* No process can expect a time that its clock has not reached.
ClockInv ==
  /\ current \in Process
  /\ remembers \in [Host -> Memory]
  /\ known \in [Process -> Nat]
  /\ \A p \in Process : known[p] <= remembers[1].clock[p]

\* What a handler does to the clocks, and what it tells of the one of its process.
ReadsClock(a, m, p) ==
  /\ a.remembers \in Memory
  /\ \A q \in Process : a.remembers.clock[q] >= m.clock[q]
  /\ a.told[1] = "time" =>
       a.told[2] = m.clock[p] /\ a.remembers.clock[p] = m.clock[p] + 1
  /\ a.told[1] = "seconds" =>
       a.told[2] = m.clock[p] \div Second /\ a.remembers.clock[p] = m.clock[p] + 1

\* A step of one clock.
LEMMA Increment ==
  ASSUME NEW m \in Memory, NEW p \in Process
  PROVE  /\ incrementTime(m, p) \in Memory
         /\ \A q \in Process : incrementTime(m, p).clock[q] >= m.clock[q]
         /\ incrementTime(m, p).clock[p] = m.clock[p] + 1
  BY DEF incrementTime, Memory

\* Answers that say nothing of the time, with the memory as it was.
LEMMA SaysElse ==
  ASSUME NEW m \in Memory, NEW p \in Process, NEW what,
         what[1] # "time", what[1] # "seconds"
  PROVE  ReadsClock(Says(m, what), m, p)
<1>1. Says(m, what).remembers = m /\ Says(m, what).told = what
  BY DEF Says, Answer
<1>2. \A q \in Process : m.clock[q] >= m.clock[q]
  BY DEF Memory
<1> QED
  BY <1>1, <1>2, Zenon DEF ReadsClock

\* Every call reads the clock of its process and steps it, or does neither.
LEMMA HandleReads ==
  ASSUME NEW c \in Determinized \union LetThrough, NEW m \in Memory,
         NEW p \in Process, NEW h \in Host, NEW w \in Ways
  PROVE  ReadsClock(Handle(c, m, p, h, w), m, p)
<1> DEFINE n == incrementTime(m, p)
<1>1. /\ n \in Memory
      /\ \A q \in Process : n.clock[q] >= m.clock[q]
      /\ n.clock[p] = m.clock[p] + 1
  BY Increment
<1>2. /\ Nothing[1] = "nothing" /\ Error[1] = "error" /\ Canonical[1] = "canonical"
      /\ OfHost(h)[1] = "host"
  BY DEF Nothing, Error, Canonical, OfHost
<1>3. /\ Time(m.clock[p])[1] = "time" /\ Time(m.clock[p])[2] = m.clock[p]
      /\ Seconds(m.clock[p])[1] = "seconds" /\ Seconds(m.clock[p])[2] = m.clock[p] \div Second
  BY DEF Time, Seconds
<1>4. \A b : ReadsClock(Answer(n, Time(m.clock[p]), b), m, p)
  BY <1>1, <1>3, Zenon DEF ReadsClock, Answer
<1>5. \A b : ReadsClock(Answer(n, Seconds(m.clock[p]), b), m, p)
  BY <1>1, <1>3, Zenon DEF ReadsClock, Answer
<1>6. ReadsClock(Says(n, Nothing), m, p)
  BY <1>1, <1>2, Zenon DEF ReadsClock, Answer, Says
<1>7. /\ ReadsClock(Says(m, Nothing), m, p)
      /\ ReadsClock(Says(m, Error), m, p)
      /\ ReadsClock(Says(m, Canonical), m, p)
      /\ ReadsClock(Says(m, OfHost(h)), m, p)
  BY <1>2, SaysElse
<1> HIDE DEF n
<1>8. CASE c \in {"clock_gettime", "gettimeofday", "time", "times", "getrusage", "RTC"}
  <2>1. /\ ReadsClock(clock_gettimePost(m, p, h, w), m, p)
        /\ ReadsClock(gettimeofdayPost(m, p, h, w), m, p)
        /\ ReadsClock(timePost(m, p, h, w), m, p)
    BY <1>4, <1>5, <1>7, Zenon DEF n, clock_gettimePost, gettimeofdayPost, timePost
  <2>2. /\ ReadsClock(timesPost(m, p, h, w), m, p)
        /\ ReadsClock(getrusagePost(m, p, h, w), m, p)
        /\ ReadsClock(ioctlRtc(m, p, h, w), m, p)
    BY <1>4, <1>5, <1>6, <1>7, Zenon DEF n, timesPost, getrusagePost, ioctlRtc, Says
  <2> QED
    BY <1>8, <2>1, <2>2, Zenon DEF Handle
<1>9. CASE c \in {"rdtsc", "rdtscp", "getrandom"}
  <2>1. /\ [m EXCEPT !.tsc = @ + 1] \in Memory /\ [m EXCEPT !.tsc = @ + 1].clock = m.clock
        /\ [m EXCEPT !.tsc = @ + 1, !.tscp = @ + 1] \in Memory
        /\ [m EXCEPT !.tsc = @ + 1, !.tscp = @ + 1].clock = m.clock
        /\ [m EXCEPT !.prng = @ + 1] \in Memory /\ [m EXCEPT !.prng = @ + 1].clock = m.clock
    <3>1. m.tsc + 1 \in Nat /\ m.tscp + 1 \in Nat /\ m.prng + 1 \in Nat
      BY DEF Memory
    <3>2. [m EXCEPT !.tsc = @ + 1] \in Memory /\ [m EXCEPT !.tsc = @ + 1].clock = m.clock
      BY <3>1 DEF Memory
    <3>3. /\ [m EXCEPT !.tsc = @ + 1, !.tscp = @ + 1] \in Memory
          /\ [m EXCEPT !.tsc = @ + 1, !.tscp = @ + 1].clock = m.clock
      BY <3>1, Zenon DEF Memory
    <3>4. [m EXCEPT !.prng = @ + 1] \in Memory /\ [m EXCEPT !.prng = @ + 1].clock = m.clock
      BY <3>1 DEF Memory
    <3> QED
      BY <3>2, <3>3, <3>4
  <2>2. \A q \in Process : m.clock[q] >= m.clock[q]
    BY DEF Memory
  <2>3. ReadsClock(rdtsc(m, p, h, w), m, p)
    BY <2>1, <2>2, Zenon DEF rdtsc, ReadsClock, Says, Answer
  <2>4. ReadsClock(rdtscp(m, p, h, w), m, p)
    BY <2>1, <2>2, Zenon DEF rdtscp, ReadsClock, Says, Answer
  <2>5. ReadsClock(getrandomPost(m, p, h, w), m, p)
    BY <2>1, <2>2, Zenon DEF getrandomPost, ReadsClock, Says, Answer
  <2> QED
    BY <1>9, <2>3, <2>4, <2>5, Zenon DEF Handle
<1>10. CASE c \in {"uname", "sysinfo", "getcpu", "mincore", "TIOCGWINSZ", "statfs",
                   "statfs devpts", "sched_getaffinity", "timer_gettime", "getrlimit",
                   "prlimit64", "ioctl"}
  BY <1>7, <1>10, Zenon DEF Handle, unamePost, sysinfoPost, getcpuPost, mincorePost, TIOCGWINSZ,
     interceptStatfs, statfsDevpts, sched_getaffinityPre, getTimer, getrlimitPost,
     prlimit64Post, ioctlPost, OnSuccess
<1> QED
  BY <1>8, <1>9, <1>10, Zenon DEF Determinized, LetThrough

\* The start of a second is not later than a time within it, and times that are
\* in order are in seconds that are.
LEMMA SecondsOrder ==
  ASSUME Second \in Nat \ {0}, NEW s \in Nat, NEW t \in Nat
  PROVE  /\ (t \div Second) * Second <= t
         /\ t \div Second \in Nat
         /\ (t \div Second) * Second \in Nat
         /\ s <= t => s \div Second <= t \div Second
  OBVIOUS

\* The answer to a call keeps the invariant, and what it tells is not too early.
LEMMA ReturnReads ==
  ASSUME Second \in Nat \ {0}, ClockInv, NEW a, Return(a), processes' = processes, processes \subseteq Process,
         \A h \in Host : ReadsClock(a[h], remembers[h], current)
  PROVE  ClockInv' /\ TellsLater
<1> DEFINE m == remembers[1]
           t == m.clock[current]
           k == IF a[1].told[1] = "time" THEN a[1].told[2] + 1
                ELSE IF a[1].told[1] = "seconds" /\ a[1].told[2] * Second > known[current]
                     THEN a[1].told[2] * Second
                ELSE known[current]
<1>0. 1 \in Host
  BY DEF Host
<1>1. m \in Memory /\ t \in Nat /\ known[current] \in Nat /\ known[current] <= t
  BY <1>0 DEF ClockInv, Memory
<1>2. ReadsClock(a[1], m, current)
  BY <1>0
<1>3. /\ remembers' = [h \in Host |-> a[h].remembers]
      /\ told'[1] = a[1].told
      /\ known' = [known EXCEPT ![current] = k]
      /\ Schedule(a[1].preempts)
  BY <1>0 DEF Return
<1>4. remembers' \in [Host -> Memory]
  BY <1>3, Zenon DEF ReadsClock
<1>5. current' \in Process
  BY <1>3, Zenon DEF Schedule, ClockInv
<1>6. remembers'[1] = a[1].remembers
  BY <1>0, <1>3, Zenon
<1> DEFINE n == a[1].remembers
<1>7. /\ n \in Memory
      /\ \A q \in Process : n.clock[q] >= m.clock[q]
      /\ n.clock[current] \in Nat /\ n.clock[current] >= t
  BY <1>2, Zenon DEF ReadsClock, ClockInv, Memory
<1> DEFINE told1 == a[1].told
<1>8. /\ told1[1] = "time" => told1[2] = t /\ n.clock[current] = t + 1
      /\ told1[1] = "seconds" => told1[2] = t \div Second /\ n.clock[current] = t + 1
  BY <1>2, Zenon DEF ReadsClock
<1>9. k \in Nat /\ k <= n.clock[current]
  <2>1. t \div Second \in Nat /\ (t \div Second) * Second \in Nat /\ (t \div Second) * Second <= t
    BY <1>1, SecondsOrder
  <2> HIDE DEF t, m, n
  <2>2. CASE told1[1] = "time"
    <3>1. k = t + 1
      BY <1>8, <2>2, Zenon
    <3>2. n.clock[current] = t + 1 /\ t \in Nat
      BY <1>1, <1>8, <2>2, Zenon
    <3> HIDE DEF k
    <3> QED
      BY <3>1, <3>2
  <2>3. CASE told1[1] = "seconds" /\ told1[2] * Second > known[current]
    <3>1. told1[1] # "time" /\ k = (t \div Second) * Second
      BY <1>8, <2>3
    <3> HIDE DEF k
    <3> QED
      BY <1>1, <1>7, <2>1, <3>1
  <2>4. CASE told1[1] # "time" /\ ~(told1[1] = "seconds" /\ told1[2] * Second > known[current])
    <3>1. k = known[current]
      BY <2>4
    <3> HIDE DEF k
    <3> QED
      BY <1>1, <1>7, <3>1
  <2> QED
    BY <2>2, <2>3, <2>4, Zenon
<1>10. known' \in [Process -> Nat]
  BY <1>3, <1>9, Zenon DEF ClockInv
<1>11. \A p \in Process : known'[p] <= n.clock[p]
  <2> HIDE DEF k, n, m
  <2>1. \A p \in Process : known[p] <= m.clock[p] /\ known[p] \in Nat /\ m.clock[p] \in Nat
                           /\ n.clock[p] \in Nat
    BY <1>1, <1>7 DEF ClockInv, Memory, m
  <2>2. known'[current] = k
    BY <1>3 DEF ClockInv
  <2>3. \A p \in Process \ {current} : known'[p] = known[p]
    BY <1>3 DEF ClockInv
  <2>4. ASSUME NEW p \in Process
        PROVE  known'[p] <= n.clock[p]
    <3>1. CASE p = current
      BY <1>9, <2>2, <3>1
    <3>2. CASE p # current
      <4>1. /\ known'[p] = known[p] /\ known[p] <= m.clock[p] /\ m.clock[p] <= n.clock[p]
            /\ known[p] \in Nat /\ m.clock[p] \in Nat /\ n.clock[p] \in Nat
        BY <1>7, <2>1, <2>3, <3>2
      <4> QED
        BY <4>1
    <3> QED
      BY <3>1, <3>2
  <2> QED
    BY <2>4
<1>12. TellsLater
  <2>1. told1[1] = "time" => told1[2] >= known[current]
    BY <1>1, <1>8
  <2>2. told1[1] = "seconds" => told1[2] >= known[current] \div Second
    <3>1. known[current] \div Second <= t \div Second /\ t \div Second \in Nat
          /\ known[current] \div Second \in Nat
      BY <1>1, SecondsOrder
    <3> QED
      BY <1>8, <3>1
  <2> QED
    BY <1>3, <2>1, <2>2, Zenon DEF TellsLater
<1> QED
  BY <1>4, <1>5, <1>6, <1>10, <1>11, <1>12 DEF ClockInv

\* Only processes exist.
LiveInv == processes \subseteq Process /\ ClockInv

\* Every step keeps the invariant, and tells a time that is not too early.
LEMMA StepClock ==
  ASSUME Second \in Nat \ {0}, LiveInv, MachineNext
  PROVE  LiveInv' /\ TellsLater
<1>1. ASSUME NEW c \in Determinized \union LetThrough, NEW w \in Ways, asks(c, w)
      PROVE  LiveInv' /\ TellsLater
  <2> DEFINE a == [h \in Host |-> Handle(c, remembers[h], current, h, w)]
  <2>1. Return(a) /\ processes' = processes
    BY <1>1 DEF asks
  <2>2. \A h \in Host : ReadsClock(Handle(c, remembers[h], current, h, w), remembers[h], current)
    BY HandleReads DEF LiveInv, ClockInv
  <2>3. \A h \in Host : ReadsClock(a[h], remembers[h], current)
    BY <2>2
  <2> HIDE DEF a
  <2> QED
    BY <2>1, <2>3, ReturnReads DEF LiveInv
<1>2. ASSUME NEW leaf \in 0..MaxLeaf, asksCpuid(leaf)
      PROVE  LiveInv' /\ TellsLater
  <2> DEFINE a == [h \in Host |-> cpuid(remembers[h], h, leaf)]
  <2>1. Return(a) /\ processes' = processes
    BY <1>2 DEF asksCpuid
  <2>2. ASSUME NEW h \in Host
        PROVE  ReadsClock(cpuid(remembers[h], h, leaf), remembers[h], current)
    <3> DEFINE what == IF leaf > maxCpuidLeaf THEN <<"zeros">>
                       ELSE IF leaf < 14 THEN <<"cpuid", leaf>> ELSE OfHost(h)
    <3>1. what[1] # "time" /\ what[1] # "seconds"
      BY DEF OfHost
    <3>2. cpuid(remembers[h], h, leaf) = Says(remembers[h], what)
      BY DEF cpuid
    <3> HIDE DEF what
    <3> QED
      BY <3>1, <3>2, SaysElse DEF LiveInv, ClockInv
  <2>3. \A h \in Host : ReadsClock(a[h], remembers[h], current)
    BY <2>2
  <2> HIDE DEF a
  <2> QED
    BY <2>1, <2>3, ReturnReads, Zenon DEF LiveInv
<1>3. ASSUME NEW q \in Process, fork(q)
      PROVE  LiveInv' /\ TellsLater
  <2>1. /\ q \notin processes /\ processes' = processes \union {q} /\ current' = q
        /\ remembers' = [h \in Host |-> forked(remembers[h], q)]
        /\ known' = [known EXCEPT ![q] = known[current]]
    BY <1>3 DEF fork
  <2>2. \A h \in Host : forked(remembers[h], q) \in Memory
    BY DEF forked, LiveInv, ClockInv, Memory
  <2>3. \A p \in Process : forked(remembers[1], q).clock[p] =
                             IF p = q THEN remembers[1].clock[current] ELSE remembers[1].clock[p]
    BY DEF forked, LiveInv, ClockInv, Memory, Host
  <2>4. remembers' \in [Host -> Memory] /\ remembers'[1] = forked(remembers[1], q)
    BY <2>1, <2>2 DEF Host
  <2>5. known' \in [Process -> Nat]
    BY <2>1 DEF LiveInv, ClockInv
  <2>6. \A p \in Process : known'[p] = IF p = q THEN known[current] ELSE known[p]
    BY <2>1 DEF LiveInv, ClockInv
  <2>7. \A p \in Process : known'[p] <= remembers'[1].clock[p]
    BY <2>3, <2>4, <2>6 DEF LiveInv, ClockInv
  <2>8. TellsLater
    BY <2>1 DEF TellsLater
  <2> QED
    BY <2>1, <2>4, <2>5, <2>7, <2>8 DEF LiveInv, ClockInv
<1> QED
  BY <1>1, <1>2, <1>3 DEF MachineNext, Queries

\* Every process is told later and later times by all the calls that tell one,
\* after any number of steps and forks.
THEOREM ClocksGoForward ==
  ASSUME Second \in Nat \ {0}, First \in Process
  PROVE  MCSpec => TimeMovesOn
<1> DEFINE TimeInv == part = "clock" => LiveInv
<1>1. MCInit => TimeInv
  <2>1. MachineInit => LiveInv
    BY DEF MachineInit, LiveInv, ClockInv, Memory, Host
  <2> QED
    BY <2>1, MachineParts
<1>2. TimeInv /\ [MCNext]_mcVars => TimeInv'
  <2>1. LiveInv /\ UNCHANGED machineVars => LiveInv'
    BY DEF LiveInv, ClockInv, machineVars
  <2> QED
    BY <2>1, StepClock, MachineParts
<1>3. TimeInv /\ [MCNext]_mcVars => [part = "clock" => TellsLater]_machineVars
  BY StepClock, MachineParts
<1> QED
  BY <1>1, <1>2, <1>3, StepsOnly, PTL DEF TimeMovesOn
=============================================================================
