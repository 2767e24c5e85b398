------------------------------- MODULE Signals -------------------------------
(***************************************************************************)
(* Timers and the signals they send.                                       *)
(*                                                                         *)
(* Real timers would fire at arbitrary moments.  dettrace lets no timer    *)
(* run: alarm, setitimer and timer_settime send their signal at once.  The *)
(* hook looks up the handler that the tracee has installed.  For a handler *)
(* it turns the call into pause and sends the signal, which ends the       *)
(* pause; for the default action it turns the call into exit; for an       *)
(* ignored signal, into a call without effect.  rt_sigsuspend never sleeps *)
(* in the kernel either: it is executed again and again until a signal is  *)
(* pending, and then lets it in through rt_sigprocmask.                    *)
(*                                                                         *)
(* The module has one process with threads, and a set of signals whose     *)
(* default action is to terminate.                                         *)
(***************************************************************************)
EXTENDS Naturals, FiniteSets

CONSTANTS
  Thread,       \* the tasks of the process
  Leader,       \* the first of them, whose tid is the pid
  Signal,       \* signals of timers: SIGALRM, SIGVTALRM, SIGPROF
  SIGALRM,      \* the one of alarm
  MaxTimers,    \* how often timer_create is called
  Behaviours    \* what the tracees do besides the ordinary

AllBehaviours ==
  {"thread arms",    \* a thread other than the leader sets a timer
   "arms blocked",   \* a timer is set while its signal is blocked
   "default",        \* a timer is set whose signal has the default action
   "pause",          \* a tracee calls pause itself
   "kill",           \* signals are sent to the process
   "tgkill",         \* signals are sent to a thread
   "open suspend",   \* rt_sigsuspend waits for a signal that is not blocked
   "execve"}         \* the process executes another program

VARIABLES
  threads,      \* those that live
  disposition,  \* kernel: what each signal does
  mask,         \* kernel: the signals a thread blocks
  pending,      \* kernel: signals waiting for a thread
  shared,       \* kernel: signals waiting for the process
  currentSignalHandlers,      \* tracer: the table of handlers
  timerCreateTimers,          \* tracer: the signal of each timer, by its id
  created,      \* the timers that the tracee has made
  call,         \* the call a thread is in: "none", "pause", "rt_sigsuspend"
  wakeMask,     \* the mask that its rt_sigsuspend waits with
  pausing,      \* tracer: signalInjected, the pause stands for a timer call
  turn,         \* the thread that runs
  failed        \* the message of a runtimeError

signalVars ==
  <<threads, disposition, mask, pending, shared, currentSignalHandlers, timerCreateTimers,
    created, call, wakeMask, pausing, turn, failed>>

Handlers == {"custom", "1shot", "default", "ignored"}

\* Signals that the kernel delivers to a thread before it goes on in user mode.
Deliverable(t) == (pending[t] \union shared) \ mask[t]

Runs(t) == failed = "no" /\ turn = t /\ t \in threads
Free(t) == Runs(t) /\ call[t] = "none" /\ Deliverable(t) = {}

----------------------------------------------------------------------------
(* Handlers. *)

\* The kernel drops the pending signals of which it learns that they are ignored.
Install(sig, handler) ==
  /\ disposition' = [disposition EXCEPT ![sig] = handler]
  /\ pending' = [t \in Thread |-> IF handler = "ignored" THEN pending[t] \ {sig} ELSE pending[t]]
  /\ shared' = IF handler = "ignored" THEN shared \ {sig} ELSE shared

\* rt_sigaction: the pre-hook classifies the handler, the post-hook records it.
\* What was there before is replaced.
rt_sigaction_Insert(t, sig, handler) ==
  /\ Free(t)
  /\ Install(sig, handler)
  /\ currentSignalHandlers' =
       [currentSignalHandlers EXCEPT ![sig] = IF @ = "absent" THEN handler ELSE @]
  /\ UNCHANGED <<threads, mask, timerCreateTimers, created, call, wakeMask, pausing,
                 turn, failed>>

rt_sigaction(t, sig, handler) ==
  /\ Free(t)
  /\ Install(sig, handler)
  /\ currentSignalHandlers' = [currentSignalHandlers EXCEPT ![sig] = handler]
  /\ UNCHANGED <<threads, mask, timerCreateTimers, created, call, wakeMask, pausing,
                 turn, failed>>

rt_sigprocmask(t, blocked) ==
  /\ Free(t)
  /\ mask' = [mask EXCEPT ![t] = blocked]
  /\ UNCHANGED <<threads, disposition, pending, shared, currentSignalHandlers, timerCreateTimers,
                 created, call, wakeMask, pausing, turn, failed>>

\* The entry of the table, or the default where there is none.
handlerOf(sig) ==
  IF currentSignalHandlers[sig] = "absent" THEN "default" ELSE currentSignalHandlers[sig]

----------------------------------------------------------------------------
(* Sending a signal at once. *)

\* A custom handler: the call becomes pause, and the signal is sent with
\* tgkill(pid, pid), where pid is that of the calling thread.
injectSignal(t, sig) ==
  IF t = Leader
    THEN /\ call' = [call EXCEPT ![t] = "pause"]
         /\ pausing' = [pausing EXCEPT ![t] = TRUE]
         /\ pending' = [pending EXCEPT ![t] =
              IF disposition[sig] = "ignored" THEN @ ELSE @ \union {sig}]
         /\ UNCHANGED <<threads, failed>>
    ELSE /\ failed' = "sending myself signal failed"
         /\ UNCHANGED <<threads, call, pausing, pending>>

\* After a 1-shot handler the table says what the kernel does: back to default.
sendTraceeSignalNow_IgnoredToo(t, sig) ==
  IF handlerOf(sig) = "default"
    THEN threads' = threads \ {t} /\ UNCHANGED <<call, pausing, pending, currentSignalHandlers, failed>>
    ELSE /\ injectSignal(t, sig)
         /\ currentSignalHandlers' =
              [currentSignalHandlers EXCEPT ![sig] = IF @ = "1shot" THEN "default" ELSE @]

sendTraceeSignalNow(t, sig) ==
  CASE handlerOf(sig) = "1shot" ->
         /\ injectSignal(t, sig)
         /\ currentSignalHandlers' = [currentSignalHandlers EXCEPT ![sig] = "default"]
    [] handlerOf(sig) = "custom" ->
         injectSignal(t, sig) /\ UNCHANGED currentSignalHandlers
    [] handlerOf(sig) = "default" ->    \* the call becomes exit
         /\ threads' = threads \ {t}
         /\ UNCHANGED <<call, pausing, pending, currentSignalHandlers, failed>>
    [] handlerOf(sig) = "ignored" ->    \* the call becomes time, returning 0
         UNCHANGED <<threads, call, pausing, pending, currentSignalHandlers, failed>>

\* What tracees do when they set a timer, unless the run says otherwise.
Ordinary(t, sig) ==
  /\ t # Leader => "thread arms" \in Behaviours
  /\ sig \in mask[t] => "arms blocked" \in Behaviours
  /\ handlerOf(sig) = "default" => "default" \in Behaviours

armed(t, sig) ==
  /\ Free(t)
  /\ Ordinary(t, sig)
  /\ sendTraceeSignalNow(t, sig)
  /\ UNCHANGED <<disposition, mask, shared, timerCreateTimers, created, wakeMask, turn>>

\* alarm(n) and setitimer with a value; with zero they are left to the kernel,
\* which knows of no timer.
alarm(t) == armed(t, SIGALRM)
setitimer(t, sig) == armed(t, sig)

\* timer_create: ids count the timers made so far.  `timerCreateTimers' is a set
\* of pairs of id and signal; insert keeps an entry that is there already.
timer_create(t, sig) ==
  LET id == Cardinality(timerCreateTimers)
  IN /\ Free(t)
     /\ Cardinality(created) < MaxTimers
     /\ timerCreateTimers' = IF \E e \in timerCreateTimers : e[1] = id THEN timerCreateTimers
                             ELSE timerCreateTimers \union {<<id, sig>>}
     /\ created' = created \union {<<Cardinality(created), id, sig>>}
     /\ UNCHANGED <<threads, disposition, mask, pending, shared, currentSignalHandlers, call,
                    wakeMask, pausing, turn, failed>>

\* timer_delete answers 0 and leaves the entry.
timer_delete(t, id) ==
  /\ Free(t)
  /\ \E e \in timerCreateTimers : e[1] = id
  /\ UNCHANGED signalVars

\* timer_settime with a value; zero disarms, and becomes a call without effect.
timer_settime(t, id) == \E e \in timerCreateTimers : e[1] = id /\ armed(t, e[2])

----------------------------------------------------------------------------
(* Signals in the kernel. *)

\* The kernel delivers a signal: a handler runs, or the process ends.  A pause is
\* over then; its post-hook makes an injected one return 0.  rt_sigsuspend is not:
\* the thread comes from a stop where its program counter was set back to the call.
deliver(t, sig) ==
  /\ Runs(t)
  /\ sig \in Deliverable(t)
  /\ threads' = IF disposition[sig] = "default" THEN {} ELSE threads
  /\ disposition' = [disposition EXCEPT ![sig] = IF @ = "1shot" THEN "default" ELSE @]
  /\ pending' = [pending EXCEPT ![t] = @ \ {sig}]
  /\ shared' = IF sig \in pending[t] THEN shared ELSE shared \ {sig}
  /\ call' = [call EXCEPT ![t] = IF @ = "pause" THEN "none" ELSE @]
  /\ pausing' = [pausing EXCEPT ![t] = FALSE]
  /\ UNCHANGED <<mask, currentSignalHandlers, timerCreateTimers, created, wakeMask, turn, failed>>

\* Another process signals this one; a thread signals another thread.
kill(sig) ==
  /\ failed = "no" /\ threads # {}
  /\ "kill" \in Behaviours
  /\ disposition[sig] # "ignored"
  /\ shared' = shared \union {sig}
  /\ UNCHANGED <<threads, disposition, mask, pending, currentSignalHandlers, timerCreateTimers,
                 created, call, wakeMask, pausing, turn, failed>>

tgkill(t, u, sig) ==
  /\ Free(t) /\ u \in threads
  /\ "tgkill" \in Behaviours
  /\ disposition[sig] # "ignored"
  /\ pending' = [pending EXCEPT ![u] = @ \union {sig}]
  /\ UNCHANGED <<threads, disposition, mask, shared, currentSignalHandlers, timerCreateTimers,
                 created, call, wakeMask, pausing, turn, failed>>

----------------------------------------------------------------------------
(* Waiting for a signal. *)

\* The pre-hook of pause lets the call pass.
pause(t) ==
  /\ Free(t)
  /\ "pause" \in Behaviours
  /\ call' = [call EXCEPT ![t] = "pause"]
  /\ UNCHANGED <<threads, disposition, mask, pending, shared, currentSignalHandlers,
                 timerCreateTimers, created, wakeMask, pausing, turn, failed>>

rt_sigsuspendEnter(t, blocked) ==
  /\ Free(t)
  /\ Signal \ blocked \subseteq mask[t] \/ "open suspend" \in Behaviours
  /\ call' = [call EXCEPT ![t] = "rt_sigsuspend"]
  /\ wakeMask' = [wakeMask EXCEPT ![t] = blocked]
  /\ UNCHANGED <<threads, disposition, mask, pending, shared, currentSignalHandlers,
                 timerCreateTimers, created, pausing, turn, failed>>

\* getPendingSignalInfo: the line SigPnd of /proc/pid/status.
getPendingSignalInfo_Unblocked(t) == pending[t] \ mask[t]

getPendingSignalInfo(t) == pending[t]

\* One execution.  If signals are pending that the new mask lets through they are
\* unblocked by an injected rt_sigprocmask, their handlers run, and a second
\* one puts the old mask back.
rt_sigsuspend(t) ==
  LET unmask == getPendingSignalInfo(t) \ wakeMask[t]
  IN /\ Runs(t)
     /\ call[t] = "rt_sigsuspend"
     /\ Deliverable(t) = {}
     /\ unmask # {}
     /\ threads' = IF \E sig \in unmask : disposition[sig] = "default" THEN {} ELSE threads
     /\ disposition' = [sig \in Signal |->
          IF sig \in unmask /\ disposition[sig] = "1shot" THEN "default" ELSE disposition[sig]]
     /\ pending' = [pending EXCEPT ![t] = @ \ unmask]
     /\ shared' = shared \ unmask
     /\ call' = [call EXCEPT ![t] = "none"]
     /\ wakeMask' = [wakeMask EXCEPT ![t] = {}]
     /\ UNCHANGED <<mask, currentSignalHandlers, timerCreateTimers, created, pausing,
                    turn, failed>>

Switch(u) ==
  /\ turn' = u
  /\ UNCHANGED <<threads, disposition, mask, pending, shared, currentSignalHandlers,
                 timerCreateTimers, created, call, wakeMask, pausing, failed>>

\* Otherwise the thread is preempted, and the call executed again later.
rt_sigsuspendAgain(t, u) ==
  /\ Runs(t) /\ u \in threads
  /\ call[t] = "rt_sigsuspend"
  /\ Deliverable(t) = {}
  /\ getPendingSignalInfo(t) \ wakeMask[t] = {}
  /\ Switch(u)

\* Some other call of a thread lets another one run.
preempted(t, u) == Free(t) /\ u \in threads /\ Switch(u)

\* A thread that is gone does not keep the turn.
nextAfterExit(u) == failed = "no" /\ turn \notin threads /\ u \in threads /\ Switch(u)

\* The kernel puts handlers back to the default; the tracer keeps its tables.
execve(t) ==
  /\ Free(t) /\ threads = {t}
  /\ "execve" \in Behaviours
  /\ disposition' = [sig \in Signal |->
       IF disposition[sig] \in {"custom", "1shot"} THEN "default" ELSE disposition[sig]]
  /\ UNCHANGED <<threads, mask, pending, shared, currentSignalHandlers, timerCreateTimers,
                 created, call, wakeMask, pausing, turn, failed>>

SignalsInit ==
  /\ threads = Thread
  /\ disposition = [sig \in Signal |-> "default"]
  /\ mask = [t \in Thread |-> {}]
  /\ pending = [t \in Thread |-> {}]
  /\ shared = {}
  /\ currentSignalHandlers = [sig \in Signal |-> "absent"]
  /\ timerCreateTimers = {}
  /\ created = {}
  /\ call = [t \in Thread |-> "none"]
  /\ wakeMask = [t \in Thread |-> {}]
  /\ pausing = [t \in Thread |-> FALSE]
  /\ turn = Leader
  /\ failed = "no"

SignalsNext ==
  \/ \E t \in Thread :
       \/ alarm(t) \/ pause(t) \/ rt_sigsuspend(t) \/ execve(t)
       \/ \E blocked \in SUBSET Signal : rt_sigprocmask(t, blocked) \/ rt_sigsuspendEnter(t, blocked)
       \/ \E sig \in Signal :
            \/ setitimer(t, sig) \/ timer_create(t, sig) \/ deliver(t, sig)
            \/ \E handler \in Handlers : rt_sigaction(t, sig, handler)
            \/ \E u \in Thread : tgkill(t, u, sig)
       \/ \E id \in 0 .. MaxTimers : timer_delete(t, id) \/ timer_settime(t, id)
       \/ \E u \in Thread : rt_sigsuspendAgain(t, u) \/ preempted(t, u)
  \/ \E sig \in Signal : kill(sig)
  \/ \E u \in Thread : nextAfterExit(u)

SignalsSpec == SignalsInit /\ [][SignalsNext]_signalVars

\* Thread u gets the turn; thread u goes on with it.
takesTurn(u) == nextAfterExit(u) \/ \E t \in Thread : rt_sigsuspendAgain(t, u) \/ preempted(t, u)
goesOn(u) == rt_sigsuspend(u) \/ \E sig \in Signal : deliver(u, sig)

----------------------------------------------------------------------------
(* Properties. *)

\* The table of handlers says what the kernel does with a signal, so that the
\* hooks choose the right one of pause, exit and no effect.  A signal on its way
\* is left out: the table is already set for the one after it.
HandlersKnown ==
  \A sig \in Signal :
    threads # {} /\ (\A t \in Thread : sig \notin pending[t]) => handlerOf(sig) = disposition[sig]

\* A call that was turned into pause ends: the thread that runs does not sleep in
\* the kernel with no signal to wake it, for dettrace waits for it alone.
PausesHaveSignals == \A t \in threads : turn = t /\ call[t] = "pause" => Deliverable(t) # {}

\* Two timers that the tracee has made never share an id: timer_settime of one
\* would send the signal of the other.
TimerIdsDistinct == \A a, b \in created : a[2] = b[2] => a = b

\* A thread is in rt_sigsuspend, and a signal is there that it waits for.
Signalled(t) ==
  t \in threads /\ call[t] = "rt_sigsuspend" /\ (pending[t] \union shared) \ wakeMask[t] # {}

Awake(t) ==
  \/ call[t] # "rt_sigsuspend" \/ t \notin threads
  \/ \E sig \in Signal : disposition[sig] = "ignored"

=============================================================================
