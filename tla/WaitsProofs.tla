---------------------------- MODULE WaitsProofs ----------------------------
(***************************************************************************)
(* Calls that wait, in any order, with any timeouts and any number of      *)
(* retries, for processes that no signal handler interrupts: each call     *)
(* obeys its own timeout, though the fields in which the hooks keep it are *)
(* shared.                                                                 *)
(*                                                                         *)
(* One lemma per call says what an execution of its two hooks leaves; the  *)
(* step lemmas follow from these.                                          *)
(***************************************************************************)
EXTENDS MCBlocking, TLAPS

\* What a register or a field that holds a timeout may contain.
Arg == {"none", "finite", "forever", "ours"}

\* What the hooks see of the process and of its state.
View ==
  [arg : Arg, memory : Arg, original3 : Arg, original4 : Arg, original5 : Arg,
   userTimeout : BOOLEAN, count : Nat, maximum : Nat, waitTimeout : Arg,
   blocking : BOOLEAN, passed : BOOLEAN, replay : BOOLEAN, preempt : BOOLEAN]

\* The calls that only let time pass; the timeouts; the results of the kernel.
Sleeps == {"nanosleep", "clock_nanosleep"}
Given == {"none", "finite", "forever"}
Results == {"ready", "nothing", "error"}

\* No retry is counted: the state between two calls of poll or ppoll.
NoRetries(v) == v.count = 0 /\ v.maximum = LONG_MAX

\* What a call of this kind finds when it is executed, for the first time or again.
Started(kind, timeout, v) ==
  /\ v.arg = timeout
  /\ v.passed = FALSE
  /\ kind \in ByPointer \ {"rt_sigtimedwait"} => v.memory = timeout
  /\ kind \notin {"poll", "ppoll"} => NoRetries(v)
  /\ kind \in {"poll", "ppoll"} => NoRetries(v) \/ (v.count # 0 /\ timeout # "none")
  /\ kind = "poll" /\ v.count # 0 => v.original3 = timeout
  /\ kind = "ppoll" /\ v.count # 0 =>
       /\ v.maximum = IF timeout = "finite" THEN Retries ELSE LONG_MAX
       /\ timeout = "finite" => v.waitTimeout = timeout

\* What an execution leaves, when the call goes on and when it is over.
Outcome(kind, timeout, empty, result, w) ==
  /\ w \in View
  /\ w.replay = TRUE =>
       /\ Started(kind, timeout, w)
       /\ timeout # "none" \/ kind = "rt_sigtimedwait"
  /\ w.replay = FALSE =>
       /\ NoRetries(w)
       /\ result = "nothing" /\ empty = FALSE => timeout # "forever"
       /\ result = "nothing" /\ timeout = "finite" /\ kind # "futex" => w.passed = TRUE
       /\ kind \in WithoutTimeout => w.arg = timeout

-----------------------------------------------------------------------------
(* The helpers of the hooks.                                               *)

\* state::advanceTime changes the clock and nothing else.
LEMMA AdvanceTime ==
  ASSUME NEW v \in View, NEW timeout
  PROVE  /\ advanceTime(v, timeout) \in View
         /\ timeout = "finite" => advanceTime(v, timeout).passed = TRUE
         /\ advanceTime(v, timeout).arg = v.arg
         /\ advanceTime(v, timeout).count = v.count
         /\ advanceTime(v, timeout).maximum = v.maximum
         /\ advanceTime(v, timeout).replay = v.replay
BY Zenon DEF advanceTime, View

\* A preemption changes nothing that a call looks at.
LEMMA Preempts ==
  ASSUME NEW v \in View
  PROVE  /\ preempt(v) \in View
         /\ preempt(v).arg = v.arg
         /\ preempt(v).count = v.count
         /\ preempt(v).maximum = v.maximum
         /\ preempt(v).passed = v.passed
         /\ preempt(v).replay = v.replay
BY Zenon DEF preempt, View

\* A replay puts the argument back.
LEMMA Replays ==
  ASSUME NEW v \in View, NEW arg \in Arg
  PROVE  /\ replayed(v, arg) \in View
         /\ replayed(v, arg).arg = arg
         /\ replayed(v, arg).replay = TRUE
         /\ replayed(v, arg).count = v.count
         /\ replayed(v, arg).maximum = v.maximum
         /\ replayed(v, arg).passed = v.passed
         /\ replayed(v, arg).memory = v.memory
         /\ replayed(v, arg).original3 = v.original3
         /\ replayed(v, arg).waitTimeout = v.waitTimeout
BY Zenon DEF replayed, View

\* A retry is counted, up to LONG_MAX.
LEMMA CountsRetry ==
  ASSUME NEW v \in View, Retries \in Nat
  PROVE  /\ countRetry(v) \in View
         /\ countRetry(v).count # 0
         /\ countRetry(v).arg = v.arg
         /\ countRetry(v).maximum = v.maximum
         /\ countRetry(v).passed = v.passed
         /\ countRetry(v).memory = v.memory
         /\ countRetry(v).original3 = v.original3
         /\ countRetry(v).waitTimeout = v.waitTimeout
<1> DEFINE n == IF v.count < LONG_MAX THEN v.count + 1 ELSE v.count
<1>1. n \in Nat /\ n # 0
  BY DEF View, LONG_MAX
<1>2. countRetry(v) = [v EXCEPT !.count = n]
  BY DEF countRetry
<1> HIDE DEF n
<1> QED BY <1>1, <1>2 DEF View

\* poll and ppoll leave no count behind.
LEMMA PollResets ==
  ASSUME NEW v \in View, Retries \in Nat
  PROVE  /\ pollReset(v) \in View
         /\ NoRetries(pollReset(v))
         /\ pollReset(v).passed = v.passed
         /\ pollReset(v).arg = v.arg
         /\ pollReset(v).replay = v.replay
<1>1. LONG_MAX \in Nat  BY DEF LONG_MAX
<1>2. pollReset(v) \in View
  BY <1>1, Zenon DEF pollReset, View, Arg
<1> QED BY <1>1, <1>2 DEF pollReset, View, NoRetries
-----------------------------------------------------------------------------
(* The two ways in which an execution ends.                                *)

\* The call is over.
LEMMA Over ==
  ASSUME NEW kind, NEW timeout, NEW empty, NEW result, NEW w \in View,
         w.replay = FALSE, NoRetries(w),
         result = "nothing" /\ empty = FALSE => timeout # "forever",
         result = "nothing" /\ timeout = "finite" /\ kind # "futex" => w.passed = TRUE,
         kind \in WithoutTimeout => w.arg = timeout
  PROVE  Outcome(kind, timeout, empty, result, w)
<1>1. ~(w.replay = TRUE)  OBVIOUS
<1> QED BY <1>1 DEF Outcome

\* It is executed again.
LEMMA Again ==
  ASSUME NEW kind, NEW timeout, NEW empty, NEW result, NEW w \in View,
         w.replay = TRUE, Started(kind, timeout, w),
         timeout # "none" \/ kind = "rt_sigtimedwait"
  PROVE  Outcome(kind, timeout, empty, result, w)
<1>1. ~(w.replay = FALSE)  OBVIOUS
<1> QED BY <1>1 DEF Outcome
-----------------------------------------------------------------------------
(* poll and ppoll.                                                         *)

\* pollPre notes the timeout, for the first time or again.
LEMMA PollPre ==
  ASSUME Retries \in Nat, NEW timeout \in Given, NEW v \in View, Started("poll", timeout, v)
  PROVE  /\ pollPre(v) \in View
         /\ pollPre(v).original3 = timeout
         /\ pollPre(v).replay = v.replay
         /\ pollPre(v).passed = FALSE
         /\ timeout = "forever" => pollPre(v).maximum = LONG_MAX
<1>1. (IF v.count = 0 THEN v.arg ELSE v.original3) = timeout
  BY DEF Started
<1>2. Retries \in Nat /\ LONG_MAX \in Nat  BY DEF LONG_MAX
<1>3. CASE timeout = "none"
  <2>1. pollPre(v) = [v EXCEPT !.original3 = timeout]
    BY <1>1, <1>3 DEF pollPre
  <2> QED BY <1>3, <2>1 DEF View, Arg, Given, Started
<1>4. CASE timeout # "none"
  <2> DEFINE m == IF timeout = "finite" THEN Retries ELSE LONG_MAX
  <2>1. pollPre(v) = [v EXCEPT !.original3 = timeout, !.arg = "ours", !.maximum = m]
    BY <1>1, <1>4, Zenon DEF pollPre
  <2>2. m \in Nat /\ (timeout = "forever" => m = LONG_MAX)
    BY <1>2
  <2> HIDE DEF m
  <2> QED BY <2>1, <2>2, Zenon DEF View, Arg, Given, Started
<1> QED BY <1>3, <1>4, Zenon

\* poll gives up when it has no descriptors, when it is told not to wait or when
\* its retries are used up, and starts again otherwise.
LEMMA PollOutcome ==
  ASSUME Retries \in Nat, NEW timeout \in Given, NEW empty \in BOOLEAN, NEW result \in Results,
         NEW v \in View, Started("poll", timeout, v), v.replay = FALSE
  PROVE  Outcome("poll", timeout, empty, result, pollPost(pollPre(v), result, empty))
<1> DEFINE u == pollPre(v)
           over == result # "nothing" \/ empty \/ u.original3 = "none" \/ UsedUp(u)
<1>1. /\ u \in View /\ u.original3 = timeout /\ u.replay = FALSE /\ u.passed = FALSE
      /\ timeout = "forever" => u.maximum = LONG_MAX
  BY PollPre, Zenon
<1>2. timeout \in Arg  BY DEF Given, Arg
<1> HIDE DEF u
<1>3. CASE over
  <2> DEFINE x == IF result = "nothing" THEN advanceTime(u, timeout) ELSE u
  <2>1. pollPost(u, result, empty) = pollReset(x)
    BY <1>1, <1>3 DEF pollPost
  <2>2. /\ x \in View /\ x.replay = FALSE
        /\ result = "nothing" /\ timeout = "finite" => x.passed = TRUE
    BY <1>1, AdvanceTime, Zenon
  <2>3. result = "nothing" /\ empty = FALSE => timeout # "forever"
    BY <1>1, <1>3 DEF UsedUp
  <2> HIDE DEF x
  <2> DEFINE w == pollReset(x)
  <2>4. w \in View /\ NoRetries(w) /\ w.passed = x.passed /\ w.replay = FALSE
    BY <2>2, PollResets
  <2> HIDE DEF w
  <2>5. result = "nothing" /\ timeout = "finite" => w.passed = TRUE
    BY <2>2, <2>4
  <2>6. "poll" \notin WithoutTimeout  BY DEF WithoutTimeout
  <2>7. Outcome("poll", timeout, empty, result, w)
    BY <2>3, <2>4, <2>5, <2>6, Over, Zenon
  <2> QED BY <2>1, <2>7 DEF u, w
<1>4. CASE ~over
  <2> DEFINE x == countRetry(u)
             w == replayed(x, timeout)
  <2>1. pollPost(u, result, empty) = w /\ timeout # "none"
    BY <1>1, <1>4 DEF pollPost
  <2>2. x \in View /\ x.count # 0 /\ x.passed = FALSE /\ x.original3 = timeout
    BY <1>1, CountsRetry
  <2> HIDE DEF x
  <2>3. /\ w \in View /\ w.arg = timeout /\ w.replay = TRUE /\ w.count # 0
        /\ w.passed = FALSE /\ w.original3 = timeout
    <3>1. /\ w \in View /\ w.arg = timeout /\ w.replay = TRUE /\ w.count = x.count
          /\ w.passed = x.passed /\ w.original3 = x.original3
      BY <1>2, <2>2, Replays, Zenon
    <3> HIDE DEF w
    <3> QED BY <2>2, <3>1
  <2> HIDE DEF w
  <2>4. Started("poll", timeout, w)
    BY <2>1, <2>3 DEF Started, ByPointer
  <2>5. Outcome("poll", timeout, empty, result, w)
    BY <2>1, <2>3, <2>4, Again, Zenon
  <2> QED BY <2>1, <2>5 DEF u, w
<1> HIDE DEF over
<1> QED BY <1>3, <1>4 DEF u

\* ppollPre notes the timeout, and at the first execution how often to retry.
LEMMA PpollPre ==
  ASSUME Retries \in Nat, NEW timeout \in Given, NEW v \in View, Started("ppoll", timeout, v)
  PROVE  /\ ppollPre(v) \in View
         /\ ppollPre(v).original3 = timeout
         /\ ppollPre(v).replay = v.replay
         /\ ppollPre(v).passed = FALSE
         /\ ppollPre(v).memory = timeout
         /\ timeout = "finite" => ppollPre(v).waitTimeout = "finite"
         /\ ppollPre(v).maximum = IF timeout = "forever" THEN LONG_MAX
                                  ELSE IF timeout = "finite" THEN Retries ELSE 0
<1>0. /\ Retries \in Nat /\ LONG_MAX \in Nat /\ v.arg = timeout /\ v.memory = timeout
      /\ v.passed = FALSE /\ timeout \in Arg
  BY DEF LONG_MAX, Started, ByPointer, Given, Arg
<1> DEFINE m == IF timeout = "finite" THEN Retries ELSE 0
<1>1. CASE v.count # 0
  <2>1. ppollPre(v) = [v EXCEPT !.original3 = timeout, !.arg = "ours"]
    BY <1>0, <1>1 DEF ppollPre
  <2>2. /\ timeout # "none"
        /\ v.maximum = IF timeout = "finite" THEN Retries ELSE LONG_MAX
        /\ timeout = "finite" => v.waitTimeout = "finite"
    BY <1>1 DEF Started, NoRetries
  <2>3. v.maximum = IF timeout = "forever" THEN LONG_MAX
                    ELSE IF timeout = "finite" THEN Retries ELSE 0
    BY <2>2 DEF Given
  <2> QED BY <1>0, <2>1, <2>2, <2>3, Zenon DEF View, Arg
<1>2. CASE v.count = 0 /\ timeout = "forever"
  <2>1. ppollPre(v) = [[v EXCEPT !.maximum = LONG_MAX] EXCEPT !.original3 = timeout, !.arg = "ours"]
    BY <1>0, <1>2 DEF ppollPre
  <2> QED BY <1>0, <1>2, <2>1, Zenon DEF View, Arg
<1>3. CASE v.count = 0 /\ timeout # "forever"
  <2>1. ppollPre(v) = [[v EXCEPT !.maximum = m, !.waitTimeout = timeout]
                         EXCEPT !.original3 = timeout, !.arg = "ours"]
    BY <1>0, <1>3 DEF ppollPre
  <2>2. m \in Nat  BY <1>0
  <2>3. m = IF timeout = "forever" THEN LONG_MAX
            ELSE IF timeout = "finite" THEN Retries ELSE 0
    BY <1>3
  <2> HIDE DEF m
  <2> DEFINE u == [v EXCEPT !.maximum = m, !.waitTimeout = timeout]
  <2>4. /\ u \in View /\ u.maximum = m /\ u.waitTimeout = timeout
        /\ u.replay = v.replay /\ u.passed = v.passed /\ u.memory = v.memory
    BY <1>0, <2>2, Zenon DEF View
  <2> HIDE DEF u
  <2>5. ppollPre(v) = [u EXCEPT !.original3 = timeout, !.arg = "ours"]
    BY <2>1 DEF u
  <2> DEFINE p == [u EXCEPT !.original3 = timeout, !.arg = "ours"]
  <2>6. /\ p \in View /\ p.maximum = u.maximum /\ p.waitTimeout = u.waitTimeout
        /\ p.original3 = timeout /\ p.replay = u.replay /\ p.passed = u.passed
        /\ p.memory = u.memory
    BY <1>0, <2>4, Zenon DEF View, Arg
  <2>7. ppollPre(v) = p  BY <2>5
  <2> HIDE DEF p
  <2>8. /\ p \in View /\ p.original3 = timeout /\ p.replay = v.replay /\ p.passed = FALSE
        /\ p.memory = timeout /\ p.waitTimeout = timeout /\ p.maximum = m
    BY <1>0, <2>4, <2>6
  <2> QED BY <2>3, <2>7, <2>8
<1> QED BY <1>1, <1>2, <1>3, Zenon

\* ppoll gives up, or starts again, as poll does.
LEMMA PpollOutcome ==
  ASSUME Retries \in Nat, NEW timeout \in Given, NEW empty \in BOOLEAN, NEW result \in Results,
         NEW v \in View, Started("ppoll", timeout, v), v.replay = FALSE
  PROVE  Outcome("ppoll", timeout, empty, result, ppollPost(ppollPre(v), result, empty))
<1> DEFINE u == ppollPre(v)
           over == result # "nothing" \/ empty \/ UsedUp(u)
<1>1. /\ u \in View /\ u.original3 = timeout /\ u.replay = FALSE /\ u.passed = FALSE
      /\ u.memory = timeout
      /\ timeout = "finite" => u.waitTimeout = "finite"
      /\ u.maximum = IF timeout = "forever" THEN LONG_MAX
                     ELSE IF timeout = "finite" THEN Retries ELSE 0
  <2>1. u = ppollPre(v)  OBVIOUS
  <2> HIDE DEF u
  <2>2. /\ u \in View /\ u.original3 = timeout /\ u.replay = v.replay /\ u.passed = FALSE
        /\ u.memory = timeout
    BY <2>1, PpollPre, Zenon
  <2>3. timeout = "finite" => u.waitTimeout = "finite"
    BY <2>1, PpollPre, Zenon
  <2>4. u.maximum = IF timeout = "forever" THEN LONG_MAX
                    ELSE IF timeout = "finite" THEN Retries ELSE 0
    BY <2>1, PpollPre, Zenon
  <2> QED BY <2>2, <2>3, <2>4
<1>2. timeout \in Arg /\ LONG_MAX \in Nat /\ LONG_MAX # 0  BY DEF Given, Arg, LONG_MAX
<1> HIDE DEF u
<1>3. CASE over
  <2> DEFINE x == IF result = "nothing" /\ timeout # "forever"
                    THEN advanceTime(u, u.waitTimeout) ELSE u
             y == pollReset(x)
             w == [y EXCEPT !.waitTimeout = "none"]
  <2>1. ppollPost(u, result, empty) = w
    BY <1>1, <1>3 DEF ppollPost
  <2>2. /\ x \in View /\ x.replay = FALSE
        /\ result = "nothing" /\ timeout = "finite" => x.passed = TRUE
    BY <1>1, AdvanceTime, Zenon
  <2>3. result = "nothing" /\ empty = FALSE => timeout # "forever"
    BY <1>1, <1>3 DEF UsedUp
  <2> HIDE DEF x
  <2>4. y \in View /\ NoRetries(y) /\ y.passed = x.passed /\ y.replay = FALSE
    BY <2>2, PollResets
  <2> HIDE DEF y
  <2>5. w \in View /\ NoRetries(w) /\ w.passed = x.passed /\ w.replay = FALSE
    BY <2>4 DEF View, Arg, NoRetries
  <2> HIDE DEF w
  <2>6. result = "nothing" /\ timeout = "finite" => w.passed = TRUE
    BY <2>2, <2>5
  <2>7. "ppoll" \notin WithoutTimeout  BY DEF WithoutTimeout
  <2>8. Outcome("ppoll", timeout, empty, result, w)
    BY <2>3, <2>5, <2>6, <2>7, Over, Zenon
  <2> QED BY <2>1, <2>8 DEF u
<1>4. CASE ~over
  <2> DEFINE x == countRetry(u)
             w == replayed(x, timeout)
  <2>1. ppollPost(u, result, empty) = w
    BY <1>1, <1>4 DEF ppollPost
  <2>2. timeout # "none"
    BY <1>1, <1>2, <1>4 DEF UsedUp, View
  <2>3. /\ x \in View /\ x.count # 0 /\ x.passed = FALSE /\ x.original3 = timeout
        /\ x.memory = timeout /\ x.maximum = u.maximum /\ x.waitTimeout = u.waitTimeout
    BY <1>1, CountsRetry
  <2> HIDE DEF x
  <2>4. /\ w \in View /\ w.arg = timeout /\ w.replay = TRUE /\ w.count # 0
        /\ w.passed = FALSE /\ w.memory = timeout /\ w.maximum = u.maximum
        /\ w.waitTimeout = u.waitTimeout
    <3>1. w = replayed(x, timeout)  OBVIOUS
    <3> HIDE DEF w
    <3>2. /\ w \in View /\ w.arg = timeout /\ w.replay = TRUE /\ w.count = x.count
          /\ w.passed = x.passed /\ w.memory = x.memory /\ w.maximum = x.maximum
          /\ w.waitTimeout = x.waitTimeout
      BY <1>2, <2>3, <3>1, Replays, Zenon
    <3> QED BY <2>3, <3>2
  <2> HIDE DEF w
  <2>5. Started("ppoll", timeout, w)
    BY <1>1, <2>2, <2>4 DEF Started, Given
  <2>6. Outcome("ppoll", timeout, empty, result, w)
    BY <2>2, <2>4, <2>5, Again, Zenon
  <2> QED BY <2>1, <2>6 DEF u
<1> HIDE DEF over
<1> QED BY <1>3, <1>4
-----------------------------------------------------------------------------
(* select, pselect6, epoll_wait, epoll_pwait and futex.                    *)

\* A replay of a call that waits for ever and keeps no other state.
LEMMA ForeverAgain ==
  ASSUME NEW kind \in {"select", "pselect6", "epoll_wait", "epoll_pwait", "futex",
                       "wait4", "waitid", "accept4", "recvmsg", "splice"},
         NEW empty, NEW result, NEW u \in View, NoRetries(u), u.passed = FALSE,
         kind \in ByPointer => u.memory = "forever"
  PROVE  Outcome(kind, "forever", empty, result, replayed(u, "forever"))
<1> DEFINE w == replayed(u, "forever")
<1>1. "forever" \in Arg  BY DEF Arg
<1>2. /\ w \in View /\ w.arg = "forever" /\ w.replay = TRUE /\ w.count = u.count
      /\ w.maximum = u.maximum /\ w.passed = FALSE /\ w.memory = u.memory
  BY <1>1, Replays, Zenon
<1> HIDE DEF w
<1>3. Started(kind, "forever", w)
  BY <1>2 DEF Started, NoRetries, ByPointer
<1>4. Outcome(kind, "forever", empty, result, w)
  BY <1>2, <1>3, Again, Zenon
<1> QED BY <1>4 DEF w

\* select and pselect6 give up after one execution unless they wait for ever.
LEMMA SelectOutcome ==
  ASSUME NEW kind \in {"select", "pselect6"}, NEW timeout \in Given, NEW empty \in BOOLEAN,
         NEW result \in Results, NEW v \in View, Started(kind, timeout, v), v.replay = FALSE
  PROVE  Outcome(kind, timeout, empty, result, selectPost(selectPre(v), result))
<1> DEFINE u == selectPre(v)
<1>0. /\ v.arg = timeout /\ v.memory = timeout /\ v.passed = FALSE /\ NoRetries(v)
      /\ timeout \in Arg /\ kind \notin WithoutTimeout
  BY DEF Started, ByPointer, Given, Arg, WithoutTimeout
<1>1. CASE timeout = "forever"
  <2>1. u = [v EXCEPT !.original5 = timeout, !.userTimeout = FALSE, !.arg = "ours"]
    BY <1>0, <1>1 DEF selectPre
  <2>2. /\ u \in View /\ u.userTimeout = FALSE /\ u.original5 = "forever" /\ NoRetries(u)
        /\ u.memory = "forever" /\ u.passed = FALSE /\ u.replay = FALSE
    BY <1>0, <1>1, <2>1, Zenon DEF View, Arg, NoRetries
  <2> HIDE DEF u
  <2>3. CASE result = "nothing"
    <3>1. selectPost(u, result) = replayed(u, "forever")
      BY <2>2, <2>3 DEF selectPost
    <3>2. Outcome(kind, "forever", empty, result, replayed(u, "forever"))
      BY <2>2, ForeverAgain, Zenon
    <3> QED BY <1>1, <3>1, <3>2 DEF u
  <2>4. CASE result # "nothing"
    <3>1. selectPost(u, result) = u
      BY <2>2, <2>4 DEF selectPost
    <3>2. Outcome(kind, timeout, empty, result, u)
      BY <1>0, <2>2, <2>4, Over, Zenon
    <3> QED BY <3>1, <3>2 DEF u
  <2> QED BY <2>3, <2>4
<1>2. CASE timeout # "forever"
  <2>1. u = [v EXCEPT !.original5 = timeout, !.userTimeout = TRUE, !.waitTimeout = timeout,
                      !.memory = "none"]
    BY <1>0, <1>2 DEF selectPre
  <2>2. /\ u \in View /\ u.userTimeout = TRUE /\ u.waitTimeout = timeout /\ NoRetries(u)
        /\ u.replay = FALSE
    BY <1>0, <2>1, Zenon DEF View, Arg, NoRetries
  <2> HIDE DEF u
  <2> DEFINE x == [u EXCEPT !.userTimeout = FALSE]
  <2>3. x \in View /\ NoRetries(x) /\ x.replay = FALSE
    BY <2>2, Zenon DEF View, NoRetries
  <2>4. CASE result = "nothing"
    <3> DEFINE y == advanceTime(x, timeout)
               w == preempt(y)
    <3>1. selectPost(u, result) = w
      BY <2>2, <2>4 DEF selectPost
    <3> HIDE DEF x
    <3>2. /\ y \in View /\ NoRetries(y) /\ y.replay = FALSE
          /\ timeout = "finite" => y.passed = TRUE
      BY <2>3, AdvanceTime, Zenon DEF NoRetries
    <3> HIDE DEF y
    <3>3. /\ w \in View /\ NoRetries(w) /\ w.replay = FALSE
          /\ timeout = "finite" => w.passed = TRUE
      BY <3>2, Preempts DEF NoRetries
    <3> HIDE DEF w
    <3>4. Outcome(kind, timeout, empty, result, w)
      BY <1>0, <1>2, <3>3, Over, Zenon
    <3> QED BY <3>1, <3>4 DEF u
  <2>5. CASE result # "nothing"
    <3>1. selectPost(u, result) = x
      BY <2>2, <2>5 DEF selectPost
    <3> HIDE DEF x
    <3>2. Outcome(kind, timeout, empty, result, x)
      BY <1>0, <2>3, <2>5, Over, Zenon
    <3> QED BY <3>1, <3>2 DEF u
  <2> QED BY <2>4, <2>5
<1> QED BY <1>1, <1>2

\* epoll_wait and epoll_pwait give up after one execution unless they wait for ever.
LEMMA EpollOutcome ==
  ASSUME NEW kind \in {"epoll_wait", "epoll_pwait"}, NEW timeout \in Given, NEW empty \in BOOLEAN,
         NEW result \in Results, NEW v \in View, Started(kind, timeout, v), v.replay = FALSE
  PROVE  Outcome(kind, timeout, empty, result, epoll_waitPost(epoll_waitPre(v), result))
<1> DEFINE u == epoll_waitPre(v)
           a == IF timeout = "none" THEN timeout ELSE "ours"
<1>0. /\ v.arg = timeout /\ v.passed = FALSE /\ NoRetries(v)
      /\ timeout \in Arg /\ kind \notin WithoutTimeout /\ kind \notin ByPointer
  BY DEF Started, ByPointer, Given, Arg, WithoutTimeout
<1>1. u = [v EXCEPT !.original4 = timeout, !.arg = a] /\ a \in Arg
  BY <1>0 DEF epoll_waitPre, Arg
<1> HIDE DEF a
<1>2. /\ u \in View /\ u.original4 = timeout /\ NoRetries(u) /\ u.passed = FALSE
      /\ u.replay = FALSE
  BY <1>0, <1>1, Zenon DEF View, NoRetries
<1> HIDE DEF u
<1>3. CASE timeout = "forever" /\ result = "nothing"
  <2>1. epoll_waitPost(u, result) = replayed(u, "forever")
    BY <1>2, <1>3 DEF epoll_waitPost
  <2>2. Outcome(kind, "forever", empty, result, replayed(u, "forever"))
    BY <1>0, <1>2, ForeverAgain, Zenon
  <2> QED BY <1>3, <2>1, <2>2 DEF u
<1>4. CASE timeout = "forever" /\ result # "nothing"
  <2>1. epoll_waitPost(u, result) = u
    BY <1>2, <1>4 DEF epoll_waitPost
  <2>2. Outcome(kind, timeout, empty, result, u)
    BY <1>0, <1>2, <1>4, Over, Zenon
  <2> QED BY <2>1, <2>2 DEF u
<1>5. CASE timeout # "forever"
  <2> DEFINE x == IF result = "nothing" THEN advanceTime(u, timeout) ELSE u
             w == preempt(x)
  <2>1. epoll_waitPost(u, result) = w
    BY <1>2, <1>5 DEF epoll_waitPost
  <2>2. /\ x \in View /\ NoRetries(x) /\ x.replay = FALSE
        /\ result = "nothing" /\ timeout = "finite" => x.passed = TRUE
    BY <1>2, AdvanceTime, Zenon DEF NoRetries
  <2> HIDE DEF x
  <2>3. /\ w \in View /\ NoRetries(w) /\ w.replay = FALSE
        /\ result = "nothing" /\ timeout = "finite" => w.passed = TRUE
    BY <2>2, Preempts DEF NoRetries
  <2> HIDE DEF w
  <2>4. Outcome(kind, timeout, empty, result, w)
    BY <1>0, <1>5, <2>3, Over, Zenon
  <2> QED BY <2>1, <2>4 DEF u
<1> QED BY <1>3, <1>4, <1>5

\* futex does the same, but lets no time pass.
LEMMA FutexOutcome ==
  ASSUME NEW timeout \in Given, NEW empty \in BOOLEAN, NEW result \in Results, NEW v \in View,
         Started("futex", timeout, v), v.replay = FALSE
  PROVE  Outcome("futex", timeout, empty, result, futexPost(futexPre(v), result))
<1> DEFINE u == futexPre(v)
<1>0. /\ v.arg = timeout /\ v.memory = timeout /\ v.passed = FALSE /\ NoRetries(v)
      /\ timeout \in Arg /\ "futex" \notin WithoutTimeout
  BY DEF Started, ByPointer, Given, Arg, WithoutTimeout
<1>1. CASE timeout = "forever"
  <2>1. u = [v EXCEPT !.original4 = timeout, !.arg = "ours", !.userTimeout = FALSE]
    BY <1>0, <1>1 DEF futexPre
  <2>2. /\ u \in View /\ u.userTimeout = FALSE /\ u.original4 = "forever" /\ NoRetries(u)
        /\ u.memory = "forever" /\ u.passed = FALSE /\ u.replay = FALSE
    BY <1>0, <1>1, <2>1, Zenon DEF View, Arg, NoRetries
  <2> HIDE DEF u
  <2> DEFINE x == [u EXCEPT !.arg = "forever"]
  <2>3. /\ x \in View /\ NoRetries(x) /\ x.memory = "forever" /\ x.passed = FALSE
        /\ x.replay = FALSE
    BY <2>2 DEF View, Arg, NoRetries
  <2>4. CASE result = "nothing"
    <3>1. futexPost(u, result) = replayed(x, "forever")
      BY <2>2, <2>4 DEF futexPost
    <3> HIDE DEF x
    <3>2. Outcome("futex", "forever", empty, result, replayed(x, "forever"))
      BY <2>3, ForeverAgain, Zenon
    <3> QED BY <1>1, <3>1, <3>2 DEF u
  <2>5. CASE result # "nothing"
    <3>1. futexPost(u, result) \in {u, x}
      BY <2>2, <2>5 DEF futexPost
    <3> HIDE DEF x
    <3>2. Outcome("futex", timeout, empty, result, u)
      BY <1>0, <2>2, <2>5, Over, Zenon
    <3>3. Outcome("futex", timeout, empty, result, x)
      BY <1>0, <2>3, <2>5, Over, Zenon
    <3> QED BY <3>1, <3>2, <3>3 DEF u
  <2> QED BY <2>4, <2>5
<1>2. CASE timeout # "forever"
  <2>1. u = [v EXCEPT !.original4 = timeout, !.memory = "none", !.userTimeout = TRUE]
    BY <1>0, <1>2 DEF futexPre
  <2>2. u \in View /\ u.userTimeout = TRUE /\ NoRetries(u) /\ u.replay = FALSE
    BY <1>0, <2>1, Zenon DEF View, Arg, NoRetries
  <2> HIDE DEF u
  <2> DEFINE x == [u EXCEPT !.userTimeout = FALSE]
             y == preempt(x)
  <2>3. x \in View /\ NoRetries(x) /\ x.replay = FALSE
    BY <2>2, Zenon DEF View, NoRetries
  <2>4. futexPost(u, result) \in {u, x, y}
    BY <2>2 DEF futexPost
  <2> HIDE DEF x
  <2>5. y \in View /\ NoRetries(y) /\ y.replay = FALSE
    BY <2>3, Preempts DEF NoRetries
  <2> HIDE DEF y
  <2>6. ASSUME NEW w \in {u, x, y} PROVE Outcome("futex", timeout, empty, result, w)
    <3>1. w \in View /\ NoRetries(w) /\ w.replay = FALSE
      BY <2>2, <2>3, <2>5
    <3> QED BY <1>0, <1>2, <3>1, Over, Zenon
  <2> QED BY <2>4, <2>6 DEF u
<1> QED BY <1>1, <1>2
-----------------------------------------------------------------------------
(* rt_sigtimedwait, wait4, waitid, accept4, recvmsg, splice and the sleeps.*)

\* rt_sigtimedwait starts again whatever its timeout is.
LEMMA SigtimedwaitOutcome ==
  ASSUME NEW timeout \in Given, NEW empty \in BOOLEAN, NEW result \in Results, NEW v \in View,
         Started("rt_sigtimedwait", timeout, v), v.replay = FALSE
  PROVE  Outcome("rt_sigtimedwait", timeout, empty, result,
                 rt_sigtimedwaitPost(rt_sigtimedwaitPre(v), result))
<1> DEFINE u == rt_sigtimedwaitPre(v)
<1>0. /\ v.arg = timeout /\ v.passed = FALSE /\ NoRetries(v)
      /\ timeout \in Arg /\ "rt_sigtimedwait" \notin WithoutTimeout
  BY DEF Started, Given, Arg, WithoutTimeout
<1>1. /\ u \in View /\ u.original3 = timeout /\ NoRetries(u) /\ u.passed = FALSE
      /\ u.replay = FALSE
  <2>1. CASE timeout = "forever"
    <3>1. u = [v EXCEPT !.original3 = timeout, !.arg = "ours"]
      BY <1>0, <2>1 DEF rt_sigtimedwaitPre
    <3> QED BY <1>0, <3>1, Zenon DEF View, Arg, NoRetries
  <2>2. CASE timeout # "forever"
    <3>1. u = [v EXCEPT !.original3 = timeout, !.memory = "none", !.userTimeout = TRUE]
      BY <1>0, <2>2 DEF rt_sigtimedwaitPre
    <3> QED BY <1>0, <3>1, Zenon DEF View, Arg, NoRetries
  <2> QED BY <2>1, <2>2, Zenon
<1> HIDE DEF u
<1>2. CASE result = "nothing"
  <2> DEFINE w == replayed(u, timeout)
  <2>1. rt_sigtimedwaitPost(u, result) = w
    BY <1>1, <1>2 DEF rt_sigtimedwaitPost
  <2>2. /\ w \in View /\ w.arg = timeout /\ w.replay = TRUE /\ w.count = u.count
        /\ w.maximum = u.maximum /\ w.passed = FALSE
    <3>1. w = replayed(u, timeout)  OBVIOUS
    <3> HIDE DEF w
    <3>2. /\ w \in View /\ w.arg = timeout /\ w.replay = TRUE /\ w.count = u.count
          /\ w.maximum = u.maximum /\ w.passed = u.passed
      BY <1>0, <1>1, <3>1, Replays, Zenon
    <3> QED BY <1>1, <3>2
  <2> HIDE DEF w
  <2>3. Started("rt_sigtimedwait", timeout, w)
    BY <1>1, <2>2 DEF Started, NoRetries
  <2>4. Outcome("rt_sigtimedwait", timeout, empty, result, w)
    BY <2>2, <2>3, Again, Zenon
  <2> QED BY <2>1, <2>4 DEF u
<1>3. CASE result # "nothing"
  <2>1. rt_sigtimedwaitPost(u, result) = u
    BY <1>3 DEF rt_sigtimedwaitPost
  <2>2. Outcome("rt_sigtimedwait", timeout, empty, result, u)
    BY <1>0, <1>1, <1>3, Over, Zenon
  <2> QED BY <2>1, <2>2 DEF u
<1> QED BY <1>2, <1>3

\* A call without timeout that has put its argument back.
LEMMA WithoutTimeoutOutcome ==
  ASSUME NEW kind \in WithoutTimeout, NEW timeout \in {"none", "forever"}, NEW empty \in BOOLEAN,
         NEW result \in Results, NEW u \in View, u.arg = timeout, NoRetries(u),
         u.passed = FALSE, u.replay = FALSE,
         NEW w, w \in {u, replayed(u, timeout)},
         timeout = "none" \/ result # "nothing" => w = u,
         timeout # "none" /\ result = "nothing" => w = replayed(u, timeout)
  PROVE  Outcome(kind, timeout, empty, result, w)
<1>1. CASE timeout = "none" \/ result # "nothing"
  BY <1>1, Over, Zenon
<1>2. CASE timeout # "none" /\ result = "nothing"
  <2>1. timeout = "forever" /\ kind \notin ByPointer
    BY <1>2 DEF WithoutTimeout, ByPointer
  <2> QED BY <1>2, <2>1, ForeverAgain, Zenon DEF WithoutTimeout
<1> QED BY <1>1, <1>2

\* wait4 puts its options back, and starts again without WNOHANG.
LEMMA Wait4Outcome ==
  ASSUME NEW timeout \in {"none", "forever"}, NEW empty \in BOOLEAN, NEW result \in Results,
         NEW v \in View, Started("wait4", timeout, v), v.replay = FALSE
  PROVE  Outcome("wait4", timeout, empty, result, wait4Post(wait4Pre(v), result))
<1> DEFINE b == timeout # "none"
           u == wait4Pre(v)
           x == [u EXCEPT !.arg = u.original3]
<1>0. v.arg = timeout /\ v.passed = FALSE /\ NoRetries(v) /\ timeout \in Arg
  BY DEF Started, Arg
<1>1. u = [v EXCEPT !.blocking = b, !.original3 = timeout, !.arg = "ours"]
  BY <1>0 DEF wait4Pre
<1>2. /\ u \in View /\ u.original3 = timeout /\ NoRetries(u) /\ u.passed = FALSE
      /\ u.replay = FALSE
  BY <1>0, <1>1, Zenon DEF View, Arg, NoRetries
<1>3. u.blocking = b
  BY <1>1 DEF View
<1> HIDE DEF u
<1>4. /\ x \in View /\ x.arg = timeout /\ NoRetries(x) /\ x.passed = FALSE /\ x.replay = FALSE
  BY <1>0, <1>2 DEF View, NoRetries
<1>5. /\ timeout = "none" \/ result # "nothing" => wait4Post(u, result) = x
      /\ timeout # "none" /\ result = "nothing" => wait4Post(u, result) = replayed(x, timeout)
  BY <1>2, <1>3, Zenon DEF wait4Post
<1> HIDE DEF x
<1>6. Outcome("wait4", timeout, empty, result, wait4Post(u, result))
  BY <1>4, <1>5, WithoutTimeoutOutcome, Zenon DEF WithoutTimeout
<1> QED BY <1>6 DEF u

\* waitid puts its options back, and starts again without WNOHANG.
LEMMA WaitidOutcome ==
  ASSUME NEW timeout \in {"none", "forever"}, NEW empty \in BOOLEAN, NEW result \in Results,
         NEW v \in View, Started("waitid", timeout, v), v.replay = FALSE
  PROVE  Outcome("waitid", timeout, empty, result, waitidPost(waitidPre(v), result))
<1> DEFINE b == timeout # "none"
           u == waitidPre(v)
           x == [u EXCEPT !.arg = u.original4]
<1>0. v.arg = timeout /\ v.passed = FALSE /\ NoRetries(v) /\ timeout \in Arg
  BY DEF Started, Arg
<1>1. u = [v EXCEPT !.blocking = b, !.original4 = timeout, !.arg = "ours"]
  BY <1>0 DEF waitidPre
<1>2. /\ u \in View /\ u.original4 = timeout /\ NoRetries(u) /\ u.passed = FALSE
      /\ u.replay = FALSE
  BY <1>0, <1>1, Zenon DEF View, Arg, NoRetries
<1>3. u.blocking = b
  BY <1>1 DEF View
<1> HIDE DEF u
<1>4. /\ x \in View /\ x.arg = timeout /\ NoRetries(x) /\ x.passed = FALSE /\ x.replay = FALSE
  BY <1>0, <1>2 DEF View, NoRetries
<1>5. /\ timeout = "none" \/ result # "nothing" => waitidPost(u, result) = x
      /\ timeout # "none" /\ result = "nothing" => waitidPost(u, result) = replayed(x, timeout)
  BY <1>2, <1>3, Zenon DEF waitidPost
<1> HIDE DEF x
<1>6. Outcome("waitid", timeout, empty, result, waitidPost(u, result))
  BY <1>4, <1>5, WithoutTimeoutOutcome, Zenon DEF WithoutTimeout
<1> QED BY <1>6 DEF u

\* accept4 starts again on a blocking socket.
LEMMA Accept4Outcome ==
  ASSUME NEW timeout \in {"none", "forever"}, NEW empty \in BOOLEAN, NEW result \in Results,
         NEW v \in View, Started("accept4", timeout, v), v.replay = FALSE
  PROVE  Outcome("accept4", timeout, empty, result, accept4Post(accept4Pre(v), result))
<1> DEFINE b == timeout # "none"
           u == accept4Pre(v)
           x == [u EXCEPT !.userTimeout = FALSE]
<1>0. /\ v.arg = timeout /\ v.passed = FALSE /\ NoRetries(v) /\ "accept4" \in WithoutTimeout
  BY DEF Started, WithoutTimeout
<1>1. u = [v EXCEPT !.userTimeout = b]
  BY <1>0 DEF accept4Pre
<1>2. u \in View /\ u.arg = timeout /\ NoRetries(u) /\ u.passed = FALSE /\ u.replay = FALSE
  BY <1>0, <1>1, Zenon DEF View, NoRetries
<1>3. u.userTimeout = b
  BY <1>1 DEF View
<1> HIDE DEF u
<1>4. x \in View /\ x.arg = timeout /\ NoRetries(x) /\ x.passed = FALSE /\ x.replay = FALSE
  BY <1>2, Zenon DEF View, NoRetries
<1>5. CASE timeout = "none" \/ result = "ready"
  <2>1. accept4Post(u, result) = u
    BY <1>3, <1>5, Zenon DEF accept4Post
  <2>2. Outcome("accept4", timeout, empty, result, u)
    BY <1>0, <1>2, <1>5, WithoutTimeoutOutcome, Zenon
  <2> QED BY <2>1, <2>2 DEF u
<1>6. CASE timeout # "none" /\ result # "ready"
  <2>1. accept4Post(u, result) = IF result = "nothing" THEN replayed(x, x.arg) ELSE x
    BY <1>2, <1>3, <1>4, <1>6, Zenon DEF accept4Post
  <2> HIDE DEF x
  <2>2. Outcome("accept4", timeout, empty, result, accept4Post(u, result))
    BY <1>0, <1>4, <1>6, <2>1, WithoutTimeoutOutcome, Zenon
  <2> QED BY <2>2 DEF u
<1> QED BY <1>5, <1>6

\* recvmsg and splice start again on a blocking descriptor.
LEMMA TransferOutcome ==
  ASSUME NEW kind \in {"recvmsg", "splice"}, NEW timeout \in {"none", "forever"},
         NEW empty \in BOOLEAN, NEW result \in Results, NEW v \in View,
         Started(kind, timeout, v), v.replay = FALSE, NEW w,
         kind = "recvmsg" => w = recvmsgPost(v, result),
         kind = "splice" => w = splicePost(v, result)
  PROVE  Outcome(kind, timeout, empty, result, w)
<1>0. v.arg = timeout /\ v.passed = FALSE /\ NoRetries(v) /\ kind \in WithoutTimeout
  BY DEF Started, WithoutTimeout
<1>1. /\ timeout = "none" \/ result # "nothing" => w = v
      /\ timeout # "none" /\ result = "nothing" => w = replayed(v, timeout)
  BY <1>0 DEF recvmsgPost, splicePost
<1> QED BY <1>0, <1>1, WithoutTimeoutOutcome, Zenon

\* nanosleep and clock_nanosleep let the time pass and are over.
LEMMA SleepOutcome ==
  ASSUME NEW kind \in Sleeps, NEW timeout \in {"none", "finite"}, NEW empty \in BOOLEAN,
         NEW result \in Results, NEW v \in View, Started(kind, timeout, v), v.replay = FALSE,
         NEW w, w \in {nanosleepPre(v), clock_nanosleepPre(v)}
  PROVE  Outcome(kind, timeout, empty, result, w)
<1>0. v.memory = timeout /\ NoRetries(v) /\ kind \notin WithoutTimeout
  BY DEF Started, ByPointer, Sleeps, WithoutTimeout
<1> DEFINE x == advanceTime(v, timeout)
<1>1. w = [x EXCEPT !.arg = "ours"]
  BY <1>0 DEF nanosleepPre, clock_nanosleepPre
<1>2. /\ x \in View /\ NoRetries(x) /\ x.replay = FALSE
      /\ timeout = "finite" => x.passed = TRUE
  BY <1>0, AdvanceTime, Zenon DEF NoRetries
<1> HIDE DEF x
<1>3. w \in View /\ NoRetries(w) /\ w.replay = FALSE /\ w.passed = x.passed
  BY <1>1, <1>2 DEF View, Arg, NoRetries
<1>4. timeout = "finite" => w.passed = TRUE
  BY <1>2, <1>3
<1> QED BY <1>0, <1>3, <1>4, Over, Zenon
-----------------------------------------------------------------------------
(* One execution of any call.                                              *)

\* An execution of a call, whichever it is, leaves what Outcome says.
LEMMA AnyOutcome ==
  ASSUME Retries \in Nat, NEW kind \in AllKinds, NEW timeout \in Given, NEW empty \in BOOLEAN,
         NEW result \in Results, NEW v \in View, Started(kind, timeout, v), v.replay = FALSE,
         kind \in Sleeps => timeout # "forever",
         kind \in WithoutTimeout => timeout # "finite"
  PROVE  Outcome(kind, timeout, empty, result, Post(kind, Pre(kind, v), result, empty))
<1> DEFINE w == Post(kind, Pre(kind, v), result, empty)
<1>1. CASE kind = "poll"
  <2>1. w = pollPost(pollPre(v), result, empty)  BY <1>1 DEF Pre, Post
  <2> QED BY <1>1, <2>1, PollOutcome, Zenon
<1>2. CASE kind = "ppoll"
  <2>1. w = ppollPost(ppollPre(v), result, empty)  BY <1>2 DEF Pre, Post
  <2> QED BY <1>2, <2>1, PpollOutcome, Zenon
<1>3. CASE kind \in {"select", "pselect6"}
  <2>1. w = selectPost(selectPre(v), result)
    BY <1>3 DEF Pre, Post, pselect6Pre, pselect6Post
  <2> QED BY <1>3, <2>1, SelectOutcome, Zenon
<1>4. CASE kind \in {"epoll_wait", "epoll_pwait"}
  <2>1. w = epoll_waitPost(epoll_waitPre(v), result)
    BY <1>4 DEF Pre, Post, epoll_pwaitPre, epoll_pwaitPost
  <2> QED BY <1>4, <2>1, EpollOutcome, Zenon
<1>5. CASE kind = "futex"
  <2>1. w = futexPost(futexPre(v), result)  BY <1>5 DEF Pre, Post
  <2> QED BY <1>5, <2>1, FutexOutcome, Zenon
<1>6. CASE kind = "rt_sigtimedwait"
  <2>1. w = rt_sigtimedwaitPost(rt_sigtimedwaitPre(v), result)  BY <1>6 DEF Pre, Post
  <2> QED BY <1>6, <2>1, SigtimedwaitOutcome, Zenon
<1>7. CASE kind \in WithoutTimeout
  <2>1. timeout \in {"none", "forever"}  BY <1>7 DEF Given
  <2>2. CASE kind = "wait4"
    <3>1. w = wait4Post(wait4Pre(v), result)  BY <2>2 DEF Pre, Post
    <3> QED BY <2>1, <2>2, <3>1, Wait4Outcome, Zenon
  <2>3. CASE kind = "waitid"
    <3>1. w = waitidPost(waitidPre(v), result)  BY <2>3 DEF Pre, Post
    <3> QED BY <2>1, <2>3, <3>1, WaitidOutcome, Zenon
  <2>4. CASE kind = "accept4"
    <3>1. w = accept4Post(accept4Pre(v), result)  BY <2>4 DEF Pre, Post
    <3> QED BY <2>1, <2>4, <3>1, Accept4Outcome, Zenon
  <2>5. CASE kind \in {"recvmsg", "splice"}
    <3>1. /\ kind = "recvmsg" => w = recvmsgPost(v, result)
          /\ kind = "splice" => w = splicePost(v, result)
      BY <2>5 DEF Pre, Post
    <3> HIDE DEF w
    <3>2. Outcome(kind, timeout, empty, result, w)
      BY <2>1, <2>5, <3>1, TransferOutcome, Zenon
    <3> QED BY <3>2 DEF w
  <2> QED BY <1>7, <2>2, <2>3, <2>4, <2>5 DEF WithoutTimeout
<1>8. CASE kind \in Sleeps
  <2>1. w \in {nanosleepPre(v), clock_nanosleepPre(v)}  BY <1>8 DEF Pre, Post, Sleeps
  <2>2. timeout \in {"none", "finite"}  BY <1>8 DEF Given
  <2> HIDE DEF w
  <2>3. Outcome(kind, timeout, empty, result, w)
    BY <1>8, <2>1, <2>2, SleepOutcome, Zenon
  <2> QED BY <2>3 DEF w
<1> QED BY <1>1, <1>2, <1>3, <1>4, <1>5, <1>6, <1>7, <1>8
        DEF AllKinds, ByPointer, ByValue, WithoutTimeout, Sleeps
-----------------------------------------------------------------------------
(* The steps.                                                              *)

\* The inductive invariant: besides the two properties, what the call in progress
\* finds in the state, and that no handler has interrupted it.
WaitsInv ==
  /\ outer = NotInterrupted
  /\ view \in View
  /\ \/ wait = NoWait /\ NoRetries(view)
     \/ /\ wait \in [kind : AllKinds, timeout : Given, empty : BOOLEAN, first : BOOLEAN]
        /\ Started(wait.kind, wait.timeout, view)
        /\ wait.kind \in Sleeps => wait.timeout # "forever"
        /\ wait.kind \in WithoutTimeout => wait.timeout # "finite"
        /\ wait.timeout = "none" /\ wait.kind # "rt_sigtimedwait" => wait.first = TRUE
  /\ ForeverIsForever /\ TimePasses /\ ArgumentRestored

\* Nothing is said of a call that has not returned.
LEMMA NoReplyYet ==
  ASSUME answer' = NoAnswer
  PROVE  ForeverIsForever' /\ TimePasses' /\ ArgumentRestored'
BY DEF ForeverIsForever, TimePasses, ArgumentRestored, TimedOut

\* A call that has just been made has its own timeout, and no retry is counted.
LEMMA FirstTime ==
  ASSUME NEW kind \in AllKinds, NEW timeout \in Given, NEW v \in View,
         v.arg = timeout, v.passed = FALSE, NoRetries(v),
         kind \in ByPointer => v.memory = timeout
  PROVE  Started(kind, timeout, v)
<1>1. v.count = 0
  BY DEF NoRetries
<1>2. /\ kind = "poll" /\ v.count # 0 => v.original3 = timeout
      /\ kind = "ppoll" /\ v.count # 0 =>
           /\ v.maximum = IF timeout = "finite" THEN Retries ELSE LONG_MAX
           /\ timeout = "finite" => v.waitTimeout = timeout
  BY <1>1
<1>3. /\ kind \notin {"poll", "ppoll"} => NoRetries(v)
      /\ kind \in {"poll", "ppoll"} => NoRetries(v) \/ (v.count # 0 /\ timeout # "none")
  OBVIOUS
<1>4. kind \in ByPointer \ {"rt_sigtimedwait"} => v.memory = timeout
  OBVIOUS
<1> QED BY <1>2, <1>3, <1>4 DEF Started

\* Between calls no retry is counted.
LEMMA NoneCounted ==
  ASSUME WaitsInv, wait = NoWait
  PROVE  NoRetries(view)
<1>1. wait \notin [kind : AllKinds, timeout : Given, empty : BOOLEAN, first : BOOLEAN]
  <2> SUFFICES ASSUME wait \in [kind : AllKinds, timeout : Given, empty : BOOLEAN, first : BOOLEAN]
               PROVE  FALSE
    OBVIOUS
  <2>1. wait.kind = "none"  BY DEF NoWait
  <2>2. wait.kind \in AllKinds  OBVIOUS
  <2> QED BY <2>1, <2>2 DEF AllKinds, ByPointer, ByValue
<1> QED BY <1>1 DEF WaitsInv

\* A call starts from a state in which no retry is counted.
LEMMA EnterWaits ==
  ASSUME WaitsInv, NEW kind \in AllKinds, NEW timeout \in Given, NEW empty \in BOOLEAN,
         enterWait(kind, timeout, empty)
  PROVE  WaitsInv'
<1>1. /\ wait' = [kind |-> kind, timeout |-> timeout, empty |-> empty, first |-> TRUE]
      /\ kind \in Sleeps => timeout # "forever"
      /\ kind \in WithoutTimeout => timeout # "finite"
      /\ answer' = NoAnswer /\ outer' = outer /\ wait = NoWait
  BY DEF enterWait, Sleeps
<1> DEFINE m == IF kind \in ByPointer THEN timeout ELSE "none"
<1>2. view' = [view EXCEPT !.arg = timeout, !.memory = m, !.passed = FALSE]
  BY DEF enterWait
<1>3. timeout \in Arg /\ m \in Arg  BY DEF Given, Arg
<1>4. kind \in ByPointer => m = timeout  OBVIOUS
<1> HIDE DEF m
<1>5. view \in View /\ NoRetries(view)
  BY <1>1, NoneCounted, Zenon DEF WaitsInv
<1>6. /\ view' \in View /\ NoRetries(view')
      /\ view'.arg = timeout /\ view'.memory = m /\ view'.passed = FALSE
  BY <1>2, <1>3, <1>5, Zenon DEF View, NoRetries
<1>7. Started(kind, timeout, view')
  <2>1. kind \in ByPointer => view'.memory = timeout  BY <1>4, <1>6
  <2> QED BY <1>6, <2>1, FirstTime, Zenon
<1>8. ForeverIsForever' /\ TimePasses' /\ ArgumentRestored'
  BY <1>1, NoReplyYet
<1>9. outer' = NotInterrupted
  BY <1>1 DEF WaitsInv
<1> DEFINE c == [kind |-> kind, timeout |-> timeout, empty |-> empty, first |-> TRUE]
<1>10. /\ c \in [kind : AllKinds, timeout : Given, empty : BOOLEAN, first : BOOLEAN]
       /\ c.kind = kind /\ c.timeout = timeout /\ c.first = TRUE
  OBVIOUS
<1>11. wait' = c  BY <1>1
<1> HIDE DEF c
<1> QED BY <1>1, <1>6, <1>7, <1>8, <1>9, <1>10, <1>11 DEF WaitsInv

\* An execution ends the call as it should, or leaves what the next one needs.
LEMMA ExecuteWaits ==
  ASSUME Retries \in Nat, WaitsInv, executeWait
  PROVE  WaitsInv'
<1> DEFINE k == wait.kind
           t == wait.timeout
           e == wait.empty
           C == [kind : AllKinds, timeout : Given, empty : BOOLEAN, first : BOOLEAN]
           entered == [view EXCEPT !.replay = FALSE, !.preempt = FALSE]
<1>1. /\ wait \in C
      /\ Started(k, t, view)
      /\ k \in Sleeps => t # "forever"
      /\ k \in WithoutTimeout => t # "finite"
      /\ view \in View
  BY DEF WaitsInv, executeWait
<1>2. k \in AllKinds /\ t \in Given /\ e \in BOOLEAN
  BY <1>1
<1>3. PICK result \in kernelResults(k) :
        LET v == Post(k, Pre(k, entered), result, e)
        IN /\ view' = IF v.replay THEN [v EXCEPT !.replay = FALSE, !.preempt = FALSE]
                      ELSE LeftBehind(v)
           /\ wait' = IF v.replay THEN [wait EXCEPT !.first = FALSE] ELSE NoWait
           /\ answer' = IF v.replay THEN NoAnswer
                       ELSE [kind |-> k, timeout |-> t, empty |-> e,
                             result |-> result, passed |-> v.passed, arg |-> v.arg]
  BY Zenon DEF executeWait
<1> DEFINE w == Post(k, Pre(k, entered), result, e)
<1>4. /\ view' = IF w.replay THEN [w EXCEPT !.replay = FALSE, !.preempt = FALSE]
                 ELSE LeftBehind(w)
      /\ wait' = IF w.replay THEN [wait EXCEPT !.first = FALSE] ELSE NoWait
      /\ answer' = IF w.replay THEN NoAnswer
                  ELSE [kind |-> k, timeout |-> t, empty |-> e,
                        result |-> result, passed |-> w.passed, arg |-> w.arg]
  BY <1>3
<1>5. result \in Results
  BY DEF kernelResults, Results
<1>6. entered \in View /\ Started(k, t, entered) /\ entered.replay = FALSE
  BY <1>1, Zenon DEF View, Started, NoRetries
<1> HIDE DEF k, t, e, entered
<1>7. Outcome(k, t, e, result, w)
  BY <1>1, <1>2, <1>5, <1>6, AnyOutcome, Zenon
<1> HIDE DEF w
<1>8. outer' = NotInterrupted
  BY DEF WaitsInv, executeWait
<1>9. w \in View
  BY <1>7 DEF Outcome
<1>10. CASE w.replay = TRUE
  <2>1. /\ view' = [w EXCEPT !.replay = FALSE, !.preempt = FALSE]
        /\ wait' = [wait EXCEPT !.first = FALSE]
        /\ answer' = NoAnswer
    BY <1>4, <1>10
  <2>2. /\ wait' \in C
        /\ wait'.kind = k /\ wait'.timeout = t
    BY <1>1, <2>1, Zenon DEF k, t
  <2>3. Started(k, t, w) /\ (t # "none" \/ k = "rt_sigtimedwait")
    BY <1>7, <1>10 DEF Outcome
  <2>4. view' \in View /\ Started(k, t, view')
    BY <1>9, <2>1, <2>3, Zenon DEF View, Started, NoRetries
  <2>5. ForeverIsForever' /\ TimePasses' /\ ArgumentRestored'
    BY <2>1, NoReplyYet
  <2> QED BY <1>1, <1>8, <2>2, <2>3, <2>4, <2>5 DEF WaitsInv
<1>11. CASE w.replay # TRUE
  <2>1. w.replay = FALSE
    BY <1>9, <1>11, Zenon DEF View
  <2> DEFINE r == [kind |-> k, timeout |-> t, empty |-> e,
                   result |-> result, passed |-> w.passed, arg |-> w.arg]
  <2>2. view' = LeftBehind(w) /\ wait' = NoWait /\ answer' = r
    BY <1>4, <2>1
  <2>3. /\ NoRetries(w)
        /\ result = "nothing" /\ e = FALSE => t # "forever"
        /\ result = "nothing" /\ t = "finite" /\ k # "futex" => w.passed = TRUE
        /\ k \in WithoutTimeout => w.arg = t
    BY <1>7, <2>1 DEF Outcome
  <2>4. view' \in View /\ NoRetries(view')
    BY <1>9, <2>2, <2>3, Zenon DEF View, NoRetries, LeftBehind, Arg
  <2>5. /\ r.kind = k /\ r.timeout = t /\ r.result = result
        /\ r.passed = w.passed /\ r.arg = w.arg /\ r.empty = e
    OBVIOUS
  <2> HIDE DEF r
  <2>6. ForeverIsForever'
    BY <1>2, <2>2, <2>3, <2>5 DEF ForeverIsForever, TimedOut
  <2>7. TimePasses'
    BY <2>2, <2>3, <2>5 DEF TimePasses, TimedOut
  <2>8. ArgumentRestored'
    BY <2>2, <2>3, <2>5 DEF ArgumentRestored
  <2> QED BY <1>8, <2>2, <2>4, <2>6, <2>7, <2>8 DEF WaitsInv
<1> QED BY <1>10, <1>11, Zenon

\* The invariant is inductive.
LEMMA NextWaits ==
  ASSUME Retries \in Nat, Kinds \subseteq AllKinds, Timeouts \subseteq Given,
         "signal" \notin Happenings, WaitsInv, [WaitsNext]_waitVars
  PROVE  WaitsInv'
<1>1. CASE \E kind \in Kinds, timeout \in Timeouts, empty \in BOOLEAN : enterWait(kind, timeout, empty)
  BY <1>1, EnterWaits
<1>2. CASE executeWait
  BY <1>2, ExecuteWaits
<1>3. CASE othersRun
  <2>1. UNCHANGED <<wait, view, outer>> /\ answer' = NoAnswer
    BY <1>3 DEF othersRun
  <2>2. ForeverIsForever' /\ TimePasses' /\ ArgumentRestored'
    BY <2>1, NoReplyYet
  <2> QED BY <2>1, <2>2 DEF WaitsInv, Started, NoRetries
<1>4. CASE handlerStarts
  BY <1>4 DEF handlerStarts
<1>5. CASE handlerReturns
  BY <1>5 DEF handlerReturns, WaitsInv
<1>6. CASE UNCHANGED waitVars
  BY <1>6 DEF waitVars, WaitsInv, Started, NoRetries, ForeverIsForever, TimePasses,
              ArgumentRestored, TimedOut
<1> QED BY <1>1, <1>2, <1>3, <1>4, <1>5, <1>6 DEF WaitsNext

\* A process starts without a call.
LEMMA InitWaits ==
  ASSUME Retries \in Nat, WaitsInit
  PROVE  WaitsInv
<1>1. LONG_MAX \in Nat  BY DEF LONG_MAX
<1>2. InitialView \in View /\ NoRetries(InitialView)
  BY <1>1 DEF InitialView, View, Arg, NoRetries
<1> QED BY <1>2 DEF WaitsInit, WaitsInv, ForeverIsForever, TimePasses, ArgumentRestored, TimedOut,
           NoRetries

----------------------------------------------------------------------------
(* The behaviours of the model that is checked. *)

mcVars == <<part, vars, waitVars>>

\* A behaviour about waits begins as one of Waits, and its steps are steps of
\* Waits.
LEMMA AlonePart ==
  /\ MCInit /\ part = "alone" => WaitsInit
  /\ [MCNext]_mcVars /\ part' = "alone" => part = "alone" /\ [WaitsNext]_waitVars
<1>1. MCInit /\ part = "alone" => WaitsInit
  BY Zenon DEF MCInit
<1>2. [MCNext]_mcVars /\ part' = "alone" => part = "alone" /\ [WaitsNext]_waitVars
  BY Zenon DEF MCNext, mcVars
<1> QED
  BY <1>1, <1>2, Zenon

\* There are no other calls and timeouts, and no handlers of signals.
Uninterrupted ==
  /\ Retries \in Nat /\ Kinds \subseteq AllKinds /\ Timeouts \subseteq Given
  /\ "signal" \notin Happenings

\* The invariant holds of every behaviour without handlers of signals.
LEMMA AlwaysWaits ==
  ASSUME Uninterrupted
  PROVE  MCSpec => [](part = "alone" => WaitsInv)
<1> DEFINE I == part = "alone" => WaitsInv
<1>1. MCInit => I
  BY AlonePart, InitWaits, Zenon DEF Uninterrupted
<1>2. I /\ [MCNext]_mcVars => I'
  BY AlonePart, NextWaits, Zenon DEF Uninterrupted
<1>3. MCSpec => MCInit /\ [][MCNext]_mcVars
  BY PTL DEF MCSpec, mcVars
<1> QED BY <1>1, <1>2, <1>3, PTL

\* However calls follow one another, a call that is to wait for ever does not
\* return empty-handed, one that is told not to wait is executed once, and one that
\* gives up has let the time pass: for every number of retries, whatever flags and
\* counts the hooks of earlier calls have left in the state.
THEOREM TimeoutsSafety ==
  ASSUME Uninterrupted
  PROVE  MCSpec => []TimeoutsObeyed
<1>1. (part = "alone" => WaitsInv) => TimeoutsObeyed
  BY DEF WaitsInv, TimeoutsObeyed, ProbesReturnAtOnce
<1> QED BY <1>1, AlwaysWaits, PTL

\* The hooks put the argument of a call without timeout back, however often the
\* call is executed, and leave poll and ppoll no count of an earlier call.
THEOREM LeftOverSafety ==
  ASSUME Uninterrupted
  PROVE  MCSpec => []NothingLeftOver
<1>1. (part = "alone" => WaitsInv) => NothingLeftOver
  <2> SUFFICES ASSUME part = "alone", WaitsInv PROVE NothingLeftOver
    BY DEF NothingLeftOver
  <2>1. NoStaleRetries
    BY NoneCounted DEF NoStaleRetries, NoRetries
  <2> QED BY <2>1 DEF WaitsInv, NothingLeftOver
<1> QED BY <1>1, AlwaysWaits, PTL
=============================================================================
