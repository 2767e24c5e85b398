-------------------------------- MODULE Waits --------------------------------
(***************************************************************************)
(* System calls that wait: for descriptors, futexes, signals, children,    *)
(* connections, or for time to pass.                                       *)
(*                                                                         *)
(* dettrace runs one process at a time, so a call must never wait in the   *)
(* kernel.  The pre-hook makes it return at once: it replaces the timeout  *)
(* by zero, or adds WNOHANG.  The post-hook then decides what the tracee   *)
(* sees: the result, a timeout, or nothing yet because the call is to be   *)
(* executed again after others have run.  What the call needs until then   *)
(* is in fields of the process's state that many calls share.              *)
(*                                                                         *)
(* The module follows one process.  `executeWait' is one execution of a    *)
(* call: pre-hook, kernel, post-hook.  The others run only when it is      *)
(* preempted.                                                              *)
(***************************************************************************)
EXTENDS Naturals

CONSTANTS
  Kinds,        \* the system calls the process makes
  Timeouts,     \* the timeouts it gives them
  Retries,      \* the milliseconds of a finite timeout, which poll counts in
  Happenings    \* "empty": no descriptors; "error": calls fail; "signal": handlers run

\* Calls whose timeout is a structure in the tracee's memory, and the others.
ByPointer == {"ppoll", "select", "pselect6", "futex", "rt_sigtimedwait",
              "nanosleep", "clock_nanosleep"}
ByValue == {"poll", "epoll_wait", "epoll_pwait", "wait4", "waitid", "accept4", "recvmsg", "splice"}
AllKinds == ByPointer \union ByValue
\* Those that wait or do not: there is no time to give them.
WithoutTimeout == {"wait4", "waitid", "accept4", "recvmsg", "splice"}

LONG_MAX == Retries + 1   \* counts stop growing here; more than any finite timeout

VARIABLES
  wait,     \* the call in progress: kind, timeout, whether it has descriptors
  view,     \* the argument register, the timeout in the tracee's memory, the
            \*   shared fields of the state, the time that passes in the call
  outer,    \* the call a signal handler has interrupted
  turn,     \* "self", or "others" when the process is preempted
  ready,    \* what it waits for is there
  answer    \* what the last call to return looks like to the tracee

waitVars == <<wait, view, outer, turn, ready, answer>>

NoWait == [kind |-> "none"]
NoAnswer == [kind |-> "none"]
NotInterrupted == [wait |-> NoWait]

InitialView ==
  [arg |-> "none",          \* the register that holds the timeout or points to it
   memory |-> "none",       \* the structure it points to
   original3 |-> "none",    \* originalArg3, which poll, ppoll, rt_sigtimedwait, wait4 share
   original4 |-> "none",    \* originalArg4: epoll_wait, futex, waitid
   original5 |-> "none",    \* originalArg5: select, pselect6
   userTimeout |-> FALSE,   \* userDefinedTimeout
   count |-> 0,             \* poll_retry_count
   maximum |-> LONG_MAX,    \* poll_retry_maximum
   waitTimeout |-> "none",  \* waitTimeout
   blocking |-> FALSE,      \* wait4Blocking
   passed |-> FALSE,        \* the time of the call has passed on the logical clock
   replay |-> FALSE, preempt |-> FALSE]

\* state::advanceTime: only a timeout that is not zero lets time pass.
advanceTime(v, timeout) == [v EXCEPT !.passed = timeout = "finite"]

\* The scheduler takes the process off the runnable heap.
preempt(v) == [v EXCEPT !.preempt = TRUE]

\* replaySyscallIfBlocked: `arg' is what the register holds when the call starts again.
replayed(v, arg) == [v EXCEPT !.preempt = TRUE, !.replay = TRUE, !.arg = arg]

----------------------------------------------------------------------------
(* poll, ppoll *)

pollPre(v) ==
  LET original == IF v.count = 0 THEN v.arg ELSE v.original3
  IN IF original = "none" THEN [v EXCEPT !.original3 = original]
     ELSE [v EXCEPT !.original3 = original, !.arg = "ours",
                    !.maximum = IF original = "finite" THEN Retries ELSE LONG_MAX]

\* The state as poll and ppoll leave it for the next call.
pollReset(v) ==
  [v EXCEPT !.original3 = "none", !.count = 0, !.maximum = LONG_MAX, !.userTimeout = FALSE]

\* poll_retry_count reaches the maximum of a call that waits for ever never.
UsedUp(v) == v.maximum # LONG_MAX /\ v.count >= v.maximum

countRetry(v) == [v EXCEPT !.count = IF @ < LONG_MAX THEN @ + 1 ELSE @]

pollPost_KeepsCount(v, result, empty) ==
  IF result # "nothing" \/ empty \/ v.original3 = "none" \/ UsedUp(v)
    THEN [v EXCEPT !.original3 = "none", !.userTimeout = FALSE]
    ELSE replayed(countRetry(v), v.original3)

pollPost(v, result, empty) ==
  IF result # "nothing" \/ empty \/ v.original3 = "none" \/ UsedUp(v)
    THEN pollReset(IF result = "nothing" THEN advanceTime(v, v.original3) ELSE v)
    ELSE replayed(countRetry(v), v.original3)

ppollPre(v) ==
  LET v1 == IF v.count # 0 THEN v
            ELSE IF v.arg = "forever" THEN [v EXCEPT !.maximum = LONG_MAX]
            ELSE [v EXCEPT !.maximum = IF v.memory = "finite" THEN Retries ELSE 0,
                           !.waitTimeout = v.memory]
  IN [v1 EXCEPT !.original3 = v.arg, !.arg = "ours"]

ppollPost(v, result, empty) ==
  IF result # "nothing" \/ empty \/ UsedUp(v)
    THEN LET v1 == IF result = "nothing" /\ v.original3 # "forever"
                     THEN advanceTime(v, v.waitTimeout) ELSE v
         IN [pollReset(v1) EXCEPT !.waitTimeout = "none"]
    ELSE replayed(countRetry(v), v.original3)

----------------------------------------------------------------------------
(* select, pselect6, epoll_wait, epoll_pwait *)

selectPre_OnlySets(v) ==
  IF v.arg = "forever"
    THEN [v EXCEPT !.original5 = v.arg, !.arg = "ours"]
    ELSE [v EXCEPT !.original5 = v.arg, !.userTimeout = TRUE, !.waitTimeout = v.memory,
                   !.memory = "none"]

selectPre(v) ==
  IF v.arg = "forever"
    THEN [v EXCEPT !.original5 = v.arg, !.userTimeout = FALSE, !.arg = "ours"]
    ELSE [v EXCEPT !.original5 = v.arg, !.userTimeout = TRUE, !.waitTimeout = v.memory,
                   !.memory = "none"]

\* The sets of descriptors are restored for a replay as well; they are not modelled.
selectPost_NotPreempted(v, result) ==
  IF v.userTimeout
    THEN LET v1 == [v EXCEPT !.userTimeout = FALSE]
         IN IF result = "nothing" THEN advanceTime(v1, v.waitTimeout) ELSE v1
    ELSE IF result = "nothing" THEN replayed(v, v.original5) ELSE v

selectPost(v, result) ==
  IF v.userTimeout
    THEN LET v1 == [v EXCEPT !.userTimeout = FALSE]
         IN IF result = "nothing" THEN preempt(advanceTime(v1, v.waitTimeout)) ELSE v1
    ELSE IF result = "nothing" THEN replayed(v, v.original5) ELSE v

pselect6Pre(v) == selectPre(v)

pselect6Post(v, result) == selectPost(v, result)

epoll_waitPre(v) ==
  [v EXCEPT !.original4 = v.arg, !.arg = IF v.arg = "none" THEN v.arg ELSE "ours"]

epoll_waitPost(v, result) ==
  IF v.original4 = "forever"
    THEN IF result = "nothing" THEN replayed(v, v.original4) ELSE v
    ELSE preempt(IF result = "nothing" THEN advanceTime(v, v.original4) ELSE v)

epoll_pwaitPre(v) == epoll_waitPre(v)

epoll_pwaitPost(v, result) == epoll_waitPost(v, result)

----------------------------------------------------------------------------
(* futex: FUTEX_WAIT and its variants; the "error" is EAGAIN, a changed value. *)

futexPre(v) ==
  IF v.arg = "forever"
    THEN [v EXCEPT !.original4 = v.arg, !.arg = "ours", !.userTimeout = FALSE]
    ELSE [v EXCEPT !.original4 = v.arg, !.memory = "none",
                   !.userTimeout = TRUE]

futexPost(v, result) ==
  IF result = "error" THEN v
  ELSE IF v.userTimeout
    THEN LET v1 == [v EXCEPT !.userTimeout = FALSE]
         IN IF result = "nothing" THEN preempt(v1) ELSE v1
  ELSE LET v1 == [v EXCEPT !.arg = v.original4]
       IN IF result = "nothing" THEN replayed(v1, v.original4) ELSE v1

----------------------------------------------------------------------------
(* rt_sigtimedwait, wait4, waitid, accept4, recvmsg, splice *)

rt_sigtimedwaitPre(v) ==
  IF v.arg = "forever"
    THEN [v EXCEPT !.original3 = v.arg, !.arg = "ours"]
    ELSE [v EXCEPT !.original3 = v.arg, !.memory = "none",
                   !.userTimeout = TRUE]

rt_sigtimedwaitPost(v, result) ==
  IF result = "nothing" THEN replayed(v, v.original3) ELSE v

\* WNOHANG is the timeout "none".
wait4Pre(v) ==
  [v EXCEPT !.blocking = v.arg # "none", !.original3 = v.arg, !.arg = "ours"]

\* A wait without WNOHANG that finds nothing is executed again.  The other is
\* to be preempted, but the result that this looks for is EAGAIN, which wait4
\* does not return.
wait4Post_AlwaysAgain(v, result) ==
  LET v1 == [v EXCEPT !.arg = v.original3]
  IN IF v.blocking /\ result # "error" THEN replayed(v1, v.original3) ELSE v1

wait4Post(v, result) ==
  LET v1 == [v EXCEPT !.arg = v.original3]
  IN IF v.blocking /\ result = "nothing" THEN replayed(v1, v.original3) ELSE v1

\* waitid also points a NULL infop at a page of its own and back.
waitidPre(v) ==
  [v EXCEPT !.blocking = v.arg # "none", !.original4 = v.arg, !.arg = "ours"]

waitidPost(v, result) ==
  LET v1 == [v EXCEPT !.arg = v.original4]
  IN IF v.blocking /\ result = "nothing" THEN replayed(v1, v.original4) ELSE v1

\* accept4 borrows userDefinedTimeout to say that the descriptor blocks.
accept4Pre(v) == [v EXCEPT !.userTimeout = v.arg # "none"]

accept4Post(v, result) ==
  IF result = "ready" \/ ~v.userTimeout THEN v
  ELSE LET v1 == [v EXCEPT !.userTimeout = FALSE]
       IN IF result = "nothing" THEN replayed(v1, v.arg) ELSE v1

\* Nothing is done to recvmsg, splice, tee, vmsplice and sendfile before.
recvmsgPost(v, result) ==
  IF v.arg # "none" /\ result = "nothing" THEN replayed(v, v.arg) ELSE v

splicePost(v, result) ==
  IF v.arg # "none" /\ result = "nothing" THEN replayed(v, v.arg) ELSE v

----------------------------------------------------------------------------
(* nanosleep, clock_nanosleep: the pre-hook does all. *)

nanosleepPre(v) == [advanceTime(v, v.memory) EXCEPT !.arg = "ours"]

clock_nanosleepPre(v) == [advanceTime(v, v.memory) EXCEPT !.arg = "ours"]

----------------------------------------------------------------------------
(* Actions. *)

Pre(kind, v) ==
  CASE kind = "poll" -> pollPre(v)
    [] kind = "ppoll" -> ppollPre(v)
    [] kind = "select" -> selectPre(v)
    [] kind = "pselect6" -> pselect6Pre(v)
    [] kind = "epoll_wait" -> epoll_waitPre(v)
    [] kind = "epoll_pwait" -> epoll_pwaitPre(v)
    [] kind = "futex" -> futexPre(v)
    [] kind = "rt_sigtimedwait" -> rt_sigtimedwaitPre(v)
    [] kind = "wait4" -> wait4Pre(v)
    [] kind = "waitid" -> waitidPre(v)
    [] kind = "accept4" -> accept4Pre(v)
    [] kind \in {"recvmsg", "splice"} -> v
    [] kind = "nanosleep" -> nanosleepPre(v)
    [] kind = "clock_nanosleep" -> clock_nanosleepPre(v)

Post(kind, v, result, empty) ==
  CASE kind = "poll" -> pollPost(v, result, empty)
    [] kind = "ppoll" -> ppollPost(v, result, empty)
    [] kind = "select" -> selectPost(v, result)
    [] kind = "pselect6" -> pselect6Post(v, result)
    [] kind = "epoll_wait" -> epoll_waitPost(v, result)
    [] kind = "epoll_pwait" -> epoll_pwaitPost(v, result)
    [] kind = "futex" -> futexPost(v, result)
    [] kind = "rt_sigtimedwait" -> rt_sigtimedwaitPost(v, result)
    [] kind = "wait4" -> wait4Post(v, result)
    [] kind = "waitid" -> waitidPost(v, result)
    [] kind = "accept4" -> accept4Post(v, result)
    [] kind = "recvmsg" -> recvmsgPost(v, result)
    [] kind = "splice" -> splicePost(v, result)
    [] kind \in {"nanosleep", "clock_nanosleep"} -> v

\* The kernel waits no longer than zero: what it finds is there now.
kernelResults(kind) ==
  {IF ready /\ kind \notin {"nanosleep", "clock_nanosleep"} THEN "ready" ELSE "nothing"}
    \union (IF "error" \in Happenings THEN {"error"} ELSE {})

\* The tracee makes a call.
enterWait(kind, timeout, empty) ==
  /\ wait = NoWait /\ turn = "self"
  /\ kind \in {"nanosleep", "clock_nanosleep"} => timeout # "forever"
  /\ kind \in WithoutTimeout => timeout # "finite"
  /\ empty => kind \in {"poll", "ppoll"} /\ "empty" \in Happenings
  /\ wait' = [kind |-> kind, timeout |-> timeout, empty |-> empty, first |-> TRUE]
  /\ view' = [view EXCEPT !.arg = timeout,
                          !.memory = IF kind \in ByPointer THEN timeout ELSE "none",
                          !.passed = FALSE]
  /\ answer' = NoAnswer
  /\ UNCHANGED <<outer, turn, ready>>

\* What a call that is over leaves in the state; the registers and the memory
\* are the tracee's own again.
LeftBehind(v) ==
  [v EXCEPT !.arg = "none", !.memory = "none", !.passed = FALSE, 
            !.replay = FALSE, !.preempt = FALSE]

\* One execution of the call in progress.
executeWait ==
  /\ wait # NoWait /\ turn = "self"
  /\ \E result \in kernelResults(wait.kind) :
       LET entered == [view EXCEPT !.replay = FALSE, !.preempt = FALSE]
           v == Post(wait.kind, Pre(wait.kind, entered), result, wait.empty)
       IN /\ turn' = IF v.preempt THEN "others" ELSE "self"
          /\ view' = IF v.replay THEN [v EXCEPT !.replay = FALSE, !.preempt = FALSE]
                     ELSE LeftBehind(v)
          /\ wait' = IF v.replay THEN [wait EXCEPT !.first = FALSE] ELSE NoWait
          /\ ready' = (ready /\ result # "ready")
          /\ answer' = IF v.replay THEN NoAnswer
                      ELSE [kind |-> wait.kind, timeout |-> wait.timeout, empty |-> wait.empty,
                            result |-> result, passed |-> v.passed, arg |-> v.arg]
  /\ UNCHANGED outer

\* The others run until they block; what the process waits for may come about.
othersRun ==
  /\ turn = "others"
  /\ turn' = "self"
  /\ ready' \in {ready, TRUE}
  /\ answer' = NoAnswer
  /\ UNCHANGED <<wait, view, outer>>

\* A signal arrives before a call is executed again; its handler makes calls, and
\* the return from it restores the registers and the tracee's own memory.
handlerStarts ==
  /\ "signal" \in Happenings
  /\ wait # NoWait /\ ~wait.first /\ turn = "self" /\ outer = NotInterrupted
  /\ outer' = [wait |-> wait, arg |-> view.arg, memory |-> view.memory]
  /\ wait' = NoWait
  /\ answer' = NoAnswer
  /\ UNCHANGED <<view, turn, ready>>

handlerReturns ==
  /\ outer # NotInterrupted /\ wait = NoWait /\ turn = "self"
  /\ wait' = outer.wait
  /\ view' = [view EXCEPT !.arg = outer.arg, !.memory = outer.memory]
  /\ outer' = NotInterrupted
  /\ answer' = NoAnswer
  /\ UNCHANGED <<turn, ready>>

WaitsInit ==
  /\ wait = NoWait
  /\ view = InitialView
  /\ outer = NotInterrupted
  /\ turn = "self"
  /\ ready = FALSE
  /\ answer = NoAnswer

WaitsNext ==
  \/ \E kind \in Kinds, timeout \in Timeouts, empty \in BOOLEAN : enterWait(kind, timeout, empty)
  \/ executeWait
  \/ othersRun
  \/ handlerStarts
  \/ handlerReturns

WaitsSpec == WaitsInit /\ [][WaitsNext]_waitVars

----------------------------------------------------------------------------
(* Properties. *)

TimedOut == answer # NoAnswer /\ answer.result = "nothing"

\* A call that is to wait for ever does not return empty-handed, whatever timeout
\* flags earlier calls have left in the state.
ForeverIsForever == TimedOut /\ ~answer.empty => answer.timeout # "forever"

\* A wait that gives up has let the time pass that it was told to wait: else a
\* program that waits for a deadline asks again and again.  futex does not do it.
TimePasses ==
  TimedOut /\ answer.timeout = "finite" /\ answer.kind # "futex" => answer.passed

\* The argument register that wait4, waitid, accept4, recvmsg or splice leave
\* behind is what the tracee put there.
ArgumentRestored ==
  answer # NoAnswer /\ answer.kind \in WithoutTimeout => answer.arg = answer.timeout

\* poll starts with its own timeout and count.
NoStaleRetries ==
  wait = NoWait /\ outer = NotInterrupted => view.count = 0 /\ view.maximum = LONG_MAX

\* A call that is told not to wait is a probe: it is not executed again.
\* rt_sigtimedwait does not look at its timeout.
ProbesReturnAtOnce ==
  wait # NoWait /\ wait.timeout = "none" /\ wait.kind # "rt_sigtimedwait" => wait.first

\* A wait that is told when to give up.
Timed == wait # NoWait /\ wait.timeout # "forever" /\ wait.kind # "rt_sigtimedwait"

=============================================================================
