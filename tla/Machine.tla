------------------------------ MODULE Machine ------------------------------
(***************************************************************************)
(* What the calls and instructions that ask about the time, about chance   *)
(* and about the machine tell a tracee.                                    *)
(*                                                                         *)
(* The same program runs on two hosts side by side.  What the kernel tells *)
(* is the host's own; the handlers replace it by constants, by the logical *)
(* clock of the process, by counters, or by the generator.  Each handler   *)
(* takes what dettrace remembers on a host and gives what it remembers     *)
(* afterwards, what the tracee is told, and whether the tracee is          *)
(* preempted.                                                              *)
(***************************************************************************)
EXTENDS Naturals, FiniteSets

CONSTANTS
  Process,
  First,        \* the process that exists in the beginning
  MaxSteps,     \* how many steps of a clock or counter are followed
  Second,       \* the clock steps that make a second
  MaxLeaf       \* the largest leaf a program asks cpuid for

VARIABLES
  with_proc_overrides,    \* an option of the run
  processes,    \* those that exist
  current,      \* the one that runs
  remembers,    \* what dettrace remembers, on each host
  told,         \* what the last call has told, on each host
  known         \* the earliest time that each process, from what it was told, can expect next

machineVars == <<with_proc_overrides, processes, current, remembers, told, known>>

Host == {1, 2}
Canonical == <<"canonical">>
Nothing == <<"nothing">>
Error == <<"error">>
OfHost(h) == <<"host", h>>

\* to_timespec, to_timeval and times() keep the microseconds, to_time_t does not.
Time(t) == <<"time", t>>
Seconds(t) == <<"seconds", t \div Second>>

MachineInit ==
  /\ with_proc_overrides \in BOOLEAN
  /\ processes = {First} /\ current = First
  /\ remembers = [h \in Host |-> [clock |-> [p \in Process |-> 0],
                                  tsc |-> 0, tscp |-> 0, prng |-> 0]]
  /\ told = [h \in Host |-> Nothing]
  /\ known = [p \in Process |-> 0]

----------------------------------------------------------------------------
(* The parts the handlers are made of. *)

Answer(m, what, preempts) == [remembers |-> m, told |-> what, preempts |-> preempts]
Says(m, what) == Answer(m, what, FALSE)

incrementTime(m, p) == [m EXCEPT !.clock[p] = @ + 1]

\* How a call is made: whether the kernel carries it out, and whether the
\* tracee gives a buffer for the result.
Ways == [ok : BOOLEAN, buffer : BOOLEAN]

----------------------------------------------------------------------------
(* The time. *)

\* These two write the time whatever the kernel has returned.
clock_gettimePost(m, p, h, w) ==
  IF w.buffer THEN Answer(incrementTime(m, p), Time(m.clock[p]), TRUE)
  ELSE Says(m, Nothing)

gettimeofdayPost(m, p, h, w) ==
  IF w.buffer THEN Answer(incrementTime(m, p), Time(m.clock[p]), TRUE)
  ELSE Says(m, Nothing)

timePost(m, p, h, w) ==
  IF ~w.ok THEN Says(m, Error)
  ELSE Answer(incrementTime(m, p), Seconds(m.clock[p]), TRUE)

timesPost(m, p, h, w) ==
  IF ~w.ok THEN Says(m, Error) ELSE Says(incrementTime(m, p), Time(m.clock[p]))

getrusagePost(m, p, h, w) ==
  Says(incrementTime(m, p), IF w.buffer THEN Time(m.clock[p]) ELSE Nothing)

\* RTC_RD_TIME and RTC_EPOCH_READ.
ioctlRtc(m, p, h, w) ==
  Says(incrementTime(m, p), IF w.buffer THEN Seconds(m.clock[p]) ELSE Nothing)

\* rdtsc and rdtscp: the counters are those of the whole machine.
rdtsc(m, p, h, w) == Says([m EXCEPT !.tsc = @ + 1], <<"tsc", m.tsc>>)

rdtscp(m, p, h, w) ==
  Says([m EXCEPT !.tsc = @ + 1, !.tscp = @ + 1], <<"tscp", m.tsc, m.tscp>>)

----------------------------------------------------------------------------
(* Chance. *)

\* The generator moves on by the batches of the request, not by what the kernel
\* has returned, which may be less on one host than on another.
getrandomPost_AsReturned(m, p, h, w) ==
  Says([m EXCEPT !.prng = @ + (h - 1)], <<"random", m.prng>>)

getrandomPost(m, p, h, w) == Says([m EXCEPT !.prng = @ + 1], <<"random", m.prng>>)

----------------------------------------------------------------------------
(* The machine. *)

OnSuccess(m, w, what) == Says(m, IF ~w.ok THEN Error ELSE IF w.buffer THEN what ELSE Nothing)

unamePost(m, p, h, w) == Says(m, IF w.buffer THEN Canonical ELSE Nothing)
sysinfoPost(m, p, h, w) == Says(m, IF w.buffer THEN Canonical ELSE Nothing)
getcpuPost(m, p, h, w) == OnSuccess(m, w, Canonical)
mincorePost(m, p, h, w) == OnSuccess(m, w, Canonical)
TIOCGWINSZ(m, p, h, w) == OnSuccess(m, w, Canonical)

\* The kernel's answer stays for pseudo terminals.
interceptStatfs(m, p, h, w) == OnSuccess(m, w, Canonical)
statfsDevpts(m, p, h, w) == OnSuccess(m, w, OfHost(h))

sched_getaffinityPre(m, p, h, w) ==
  IF with_proc_overrides THEN Says(m, IF w.buffer THEN Canonical ELSE Error)
  ELSE OnSuccess(m, w, OfHost(h))

\* timer_gettime and getitimer: the timer has expired, and the kernel is kept
\* from the buffer.
getTimer(m, p, h, w) == Says(m, IF w.buffer THEN Canonical ELSE Nothing)

\* getrlimit and prlimit64: what they would write is commented out.
getrlimitPost(m, p, h, w) == OnSuccess(m, w, OfHost(h))
prlimit64Post(m, p, h, w) == OnSuccess(m, w, OfHost(h))

\* The requests that ioctl lets through.
ioctlPost(m, p, h, w) == OnSuccess(m, w, OfHost(h))

\* cpuid.  The tables have 14 and 11 entries; past their end is whatever the
\* build has put there.
maxCpuidLeaf == 14 - 1

cpuid(m, h, leaf) ==
  Says(m, IF leaf > maxCpuidLeaf THEN <<"zeros">>
          ELSE IF leaf < 14 THEN <<"cpuid", leaf>> ELSE OfHost(h))

----------------------------------------------------------------------------

Handle(c, m, p, h, w) ==
  CASE c = "clock_gettime" -> clock_gettimePost(m, p, h, w)
    [] c = "gettimeofday" -> gettimeofdayPost(m, p, h, w)
    [] c = "time" -> timePost(m, p, h, w)
    [] c = "times" -> timesPost(m, p, h, w)
    [] c = "getrusage" -> getrusagePost(m, p, h, w)
    [] c = "RTC" -> ioctlRtc(m, p, h, w)
    [] c = "rdtsc" -> rdtsc(m, p, h, w)
    [] c = "rdtscp" -> rdtscp(m, p, h, w)
    [] c = "getrandom" -> getrandomPost(m, p, h, w)
    [] c = "uname" -> unamePost(m, p, h, w)
    [] c = "sysinfo" -> sysinfoPost(m, p, h, w)
    [] c = "getcpu" -> getcpuPost(m, p, h, w)
    [] c = "mincore" -> mincorePost(m, p, h, w)
    [] c = "TIOCGWINSZ" -> TIOCGWINSZ(m, p, h, w)
    [] c = "statfs" -> interceptStatfs(m, p, h, w)
    [] c = "statfs devpts" -> statfsDevpts(m, p, h, w)
    [] c = "sched_getaffinity" -> sched_getaffinityPre(m, p, h, w)
    [] c = "timer_gettime" -> getTimer(m, p, h, w)
    [] c = "getrlimit" -> getrlimitPost(m, p, h, w)
    [] c = "prlimit64" -> prlimit64Post(m, p, h, w)
    [] c = "ioctl" -> ioctlPost(m, p, h, w)

\* preemptAndScheduleNext, with processes that are all ready to run.
Schedule(preempts) ==
  IF preempts /\ processes # {current} THEN current' \in processes \ {current}
  ELSE UNCHANGED current

InBounds(m) ==
  /\ \A p \in Process : m.clock[p] <= MaxSteps
  /\ m.tsc <= MaxSteps /\ m.tscp <= MaxSteps /\ m.prng <= MaxSteps

\* What both hosts have been told after a call that has these results.
Return(a) ==
  /\ \A h \in Host : InBounds(a[h].remembers)
  /\ remembers' = [h \in Host |-> a[h].remembers]
  /\ told' = [h \in Host |-> a[h].told]
  /\ known' = [known EXCEPT ![current] =
                 IF a[1].told[1] = "time" THEN a[1].told[2] + 1
                 ELSE IF a[1].told[1] = "seconds" /\ a[1].told[2] * Second > @
                      THEN a[1].told[2] * Second
                 ELSE @]
  /\ Schedule(a[1].preempts)

asks(c, w) ==
  /\ Return([h \in Host |-> Handle(c, remembers[h], current, h, w)])
  /\ UNCHANGED <<with_proc_overrides, processes>>

asksCpuid(leaf) ==
  /\ Return([h \in Host |-> cpuid(remembers[h], h, leaf)])
  /\ UNCHANGED <<with_proc_overrides, processes>>

\* A child's clock goes on from its parent's.
forked_NewClock(m, q) == [m EXCEPT !.clock[q] = 0]

forked(m, q) == [m EXCEPT !.clock[q] = m.clock[current]]

fork(q) ==
  /\ q \notin processes
  /\ processes' = processes \union {q}
  /\ remembers' = [h \in Host |-> forked(remembers[h], q)]
  /\ known' = [known EXCEPT ![q] = known[current]]
  /\ current' = q
  /\ UNCHANGED <<with_proc_overrides, told>>

\* The calls that are determinized, besides cpuid, and those that are not.
Determinized ==
  {"clock_gettime", "gettimeofday", "time", "times", "getrusage", "RTC", "rdtsc",
   "rdtscp", "getrandom", "uname", "sysinfo", "getcpu", "mincore", "TIOCGWINSZ",
   "statfs", "sched_getaffinity", "timer_gettime"}
LetThrough == {"statfs devpts", "getrlimit", "prlimit64", "ioctl"}

\* What programs do that make these calls.
Queries(calls) ==
  \/ \E c \in calls, w \in Ways : asks(c, w)
  \/ \E leaf \in 0..MaxLeaf : asksCpuid(leaf)
  \/ \E q \in Process : fork(q)

MachineNext == Queries(Determinized \union LetThrough)

MachineSpec == MachineInit /\ [][MachineNext]_machineVars

----------------------------------------------------------------------------
(* Properties. *)

\* The program is told the same on both hosts, whatever calls came before:
\* neither the kernel's answers nor how many there were shows.
ToldTheSame == told[1] = told[2]

\* Every time a process is told in microseconds is later than any it, or the
\* process it was forked from, has been told before, and one in seconds is not
\* earlier, whichever of the calls it uses: they all read one clock, and step it.
TellsLater ==
  processes' = processes =>
    /\ told'[1][1] = "time" => told'[1][2] >= known[current]
    /\ told'[1][1] = "seconds" => told'[1][2] >= known[current] \div Second
=============================================================================
