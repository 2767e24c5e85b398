---------------------------- MODULE Descriptors ----------------------------
(***************************************************************************)
(* What dettrace remembers about the file descriptors of its tracees.      *)
(*                                                                         *)
(* Pipes and timers are created with O_NONBLOCK behind the tracee's back,  *)
(* so that no read or write ever blocks in the kernel.  The table fdStatus *)
(* keeps what the tracee asked for, and timerfds the timers it set; both   *)
(* decide later whether EAGAIN is shown, replayed or replaced.  The kernel *)
(* has descriptor tables too, and the two must say the same after every    *)
(* call that makes, copies, changes or closes a descriptor.                *)
(*                                                                         *)
(* A call is one action: its pre-hook, what the kernel does, and its       *)
(* post-hook.  No other tracee runs in between.  remote_sockfds and        *)
(* signalfds are left out: nothing reads the first, and nothing ever puts  *)
(* a descriptor into the second.                                           *)
(***************************************************************************)
EXTENDS Naturals, FiniteSets, FiniteSetsExt

CONSTANTS
  Task,        \* processes and threads
  Desc,        \* the kernel's open file descriptions
  NoDesc,      \* an entry of a descriptor table that is not open
  MaxFd,       \* the descriptors are 0 .. MaxFd
  Behaviours   \* what the tracees do besides the ordinary calls

AllBehaviours ==
  {"clear", "getfl", "shared", "fails", "execve", "dup timerfd", "dup2 same"}

ASSUME DescriptorsAssumption ==
  /\ NoDesc \notin Desc
  /\ MaxFd \in Nat
  /\ Behaviours \subseteq AllBehaviours

Fd == 0 .. MaxFd
Closed == [kind |-> "closed", asked |-> FALSE, really |-> FALSE, armed |-> FALSE]

VARIABLES
  live,      \* kernel: the tasks that exist
  table,     \* kernel: whose descriptor table a task uses; threads share one
  files,     \* kernel: the descriptor tables
  cloexec,   \* kernel: the descriptors that execve closes
  desc,      \* kernel: kind of file, whether the tracee asked for O_NONBLOCK,
             \*   whether it is really set, whether the timer is armed
  maps,      \* tracer: whose fdStatus and timerfds a task's state points to
  fdStatus,  \* state.fdStatus
  timerfds,  \* state.timerfds
  oldValue,  \* what timerfd_settime has just reported as the old value
  thrown     \* the message of a runtimeError

vars == <<live, table, files, cloexec, desc, maps, fdStatus, timerfds, oldValue, thrown>>

----------------------------------------------------------------------------
(* The kernel's tables. *)

Open(t) == {fd \in Fd : files[table[t]][fd] # NoDesc}
LowestFree(t) == Min(Fd \ Open(t))
DescOf(t, fd) == desc[files[table[t]][fd]]
Unused == {d \in Desc : desc[d] = Closed}
Referenced(tables) == {tables[u][fd] : u \in Task, fd \in Fd}
Shared(d) == \E u, v \in Task, fd, gd \in Fd :
  files[u][fd] = d /\ files[v][gd] = d /\ <<u, fd>> # <<v, gd>>

\* The tables become `tables', and descriptions nobody refers to are closed.
SetFiles(tables, descriptions) ==
  /\ files' = tables
  /\ desc' = [d \in Desc |-> IF d \in Referenced(tables) THEN descriptions[d] ELSE Closed]

Descriptor(fd, d) == [x \in {fd} |-> d]

\* A call creates descriptors: `new' maps the new numbers to descriptions.
Install(t, new, cx, descriptions) ==
  /\ SetFiles([files EXCEPT ![table[t]] =
                  [fd \in Fd |-> IF fd \in DOMAIN new THEN new[fd] ELSE @[fd]]], descriptions)
  /\ cloexec' = [cloexec EXCEPT ![table[t]] = IF cx THEN @ \union DOMAIN new ELSE @ \ DOMAIN new]

Description(kind, asked, really) ==
  [kind |-> kind, asked |-> asked, really |-> really, armed |-> FALSE]

CloexecChoices == IF "execve" \in Behaviours THEN BOOLEAN ELSE {FALSE}

\* A task may take a step: it lives, and the tracer has not thrown.
Runs(t) == t \in live /\ thrown = "no"
OrdinaryCall == oldValue' = "none"

----------------------------------------------------------------------------
(* The tracer's tables. *)

\* state::getFdStatus, state::countFdStatus: the entry, "absent" if none.
getFdStatus(t, fd) == fdStatus[maps[t]][fd]

fd_is_nonblocking(t, fd) == getFdStatus(t, fd) = "nonBlocking"

fd_is_timerfd(t, fd) == timerfds[maps[t]][fd] # "absent"

setFdStatus(t, fd, status) == fdStatus' = [fdStatus EXCEPT ![maps[t]][fd] = status]

Status(nonblock) == IF nonblock THEN "nonBlocking" ELSE "blocking"

----------------------------------------------------------------------------
(* Calls that create descriptors. *)

\* The end of pipe2's post-hook, with the numbers read from the tracee's array.
pipe2Post(t, a, b, status) ==
  LET tracked == getFdStatus(t, a) # "absent" \/ getFdStatus(t, b) # "absent"
  IN /\ thrown' = IF tracked THEN "Value already in map (fdStatus)" ELSE thrown
     /\ fdStatus' = IF tracked THEN fdStatus
                    ELSE [fdStatus EXCEPT ![maps[t]][a] = status, ![maps[t]][b] = status]

\* Both calls reach the kernel as pipe2 with O_NONBLOCK.
kernelPipe2(t, d, e, asked, cx) ==
  LET a == LowestFree(t)
      b == Min(Fd \ (Open(t) \union {a}))
      end == Description("pipe", asked, TRUE)
  IN /\ Cardinality(Fd \ Open(t)) >= 2
     /\ Install(t, [x \in {a, b} |-> IF x = a THEN d ELSE e], cx,
                [desc EXCEPT ![d] = end, ![e] = end])
     /\ pipe2Post(t, a, b, Status(asked))

pipe(t) ==
  /\ Runs(t)
  /\ \E d, e \in Unused : d # e /\ kernelPipe2(t, d, e, FALSE, FALSE)
  /\ OrdinaryCall
  /\ UNCHANGED <<live, table, maps, timerfds>>

pipe2(t, nonblock) ==
  /\ Runs(t)
  /\ \E d, e \in Unused, cx \in CloexecChoices : d # e /\ kernelPipe2(t, d, e, nonblock, cx)
  /\ OrdinaryCall
  /\ UNCHANGED <<live, table, maps, timerfds>>

\* A pipe2 that fails: getPipeFds reads whatever the tracee's array held.
pipe2Fails(t) ==
  /\ Runs(t)
  /\ "fails" \in Behaviours
  /\ Cardinality(Fd \ Open(t)) < 2
  /\ \E a, b \in Fd : pipe2Post(t, a, b, "blocking")
  /\ OrdinaryCall
  /\ UNCHANGED <<live, table, files, cloexec, desc, maps, timerfds>>

socket(t, nonblock) ==
  /\ Runs(t)
  /\ Open(t) # Fd
  /\ \E d \in Unused, cx \in CloexecChoices :
       Install(t, Descriptor(LowestFree(t), d), cx,
               [desc EXCEPT ![d] = Description("socket", nonblock, nonblock)])
  /\ IF nonblock THEN setFdStatus(t, LowestFree(t), "nonBlocking") ELSE UNCHANGED fdStatus
  /\ OrdinaryCall
  /\ UNCHANGED <<live, table, maps, timerfds, thrown>>

\* accept is replayed as accept4 without flags; a connection has arrived.
accept4(t, listener, nonblock) ==
  /\ Runs(t)
  /\ listener \in Open(t) /\ DescOf(t, listener).kind = "socket" /\ Open(t) # Fd
  /\ \E d \in Unused :
       Install(t, Descriptor(LowestFree(t), d), FALSE,
               [desc EXCEPT ![d] = Description("socket", nonblock, nonblock)])
  /\ setFdStatus(t, LowestFree(t), Status(nonblock))
  /\ OrdinaryCall
  /\ UNCHANGED <<live, table, maps, timerfds, thrown>>

\* timerfds.insert keeps an entry that is already there.
timerfd_create(t) ==
  LET fd == LowestFree(t)
  IN /\ Runs(t)
     /\ Open(t) # Fd
     /\ \E d \in Unused, cx \in CloexecChoices :
          Install(t, Descriptor(fd, d), cx,
                  [desc EXCEPT ![d] = Description("timerfd", FALSE, TRUE)])
     /\ timerfds' = [timerfds EXCEPT ![maps[t]][fd] = IF @ = "absent" THEN "disarmed" ELSE @]
     /\ OrdinaryCall
     /\ UNCHANGED <<live, table, maps, fdStatus, thrown>>

----------------------------------------------------------------------------
(* Calls that copy descriptors. *)

Copyable(t, fd) ==
  fd \in Open(t) /\ (DescOf(t, fd).kind = "timerfd" => "dup timerfd" \in Behaviours)

\* dup and fcntl(F_DUPFD) take the lowest free number.
kernelDup(t, fd, cx) ==
  /\ Open(t) # Fd
  /\ Install(t, Descriptor(LowestFree(t), files[table[t]][fd]), cx, desc)

\* The copy has the status of the original, if that has one.
dup(t, fd) ==
  /\ Runs(t)
  /\ Copyable(t, fd)
  /\ kernelDup(t, fd, FALSE)
  /\ IF getFdStatus(t, fd) # "absent"
       THEN setFdStatus(t, LowestFree(t), getFdStatus(t, fd))
       ELSE UNCHANGED fdStatus
  /\ OrdinaryCall
  /\ UNCHANGED <<live, table, maps, timerfds, thrown>>

\* fcntl(F_DUPFD) and F_DUPFD_CLOEXEC: the timer is copied only together with
\* a status, and into a number that has none.
fcntlDupfd(t, fd) ==
  LET new == LowestFree(t)
  IN /\ Runs(t)
     /\ Copyable(t, fd)
     /\ \E cx \in CloexecChoices : kernelDup(t, fd, cx)
     /\ IF getFdStatus(t, fd) = "absent"
          THEN UNCHANGED <<fdStatus, timerfds>>
          ELSE /\ setFdStatus(t, new, getFdStatus(t, fd))
               /\ timerfds' = [timerfds EXCEPT ![maps[t]][new] =
                                 IF @ = "absent" THEN timerfds[maps[t]][fd] ELSE @]
     /\ OrdinaryCall
     /\ UNCHANGED <<live, table, maps, thrown>>

\* dup2 and dup3: everything known of the new number is dropped first, then
\* each kind of state is copied by itself.
dup2(t, fd, new) ==
  LET m == maps[t]
      droppedStatus == [fdStatus EXCEPT ![m][new] = "absent"]
      droppedTimers == [timerfds EXCEPT ![m][new] = "absent"]
  IN /\ Runs(t)
     /\ fd \in Open(t)
     /\ fd = new => "dup2 same" \in Behaviours
     /\ Install(t, Descriptor(new, files[table[t]][fd]), new = fd /\ fd \in cloexec[table[t]], desc)
     /\ fdStatus' = [droppedStatus EXCEPT ![m][new] = droppedStatus[m][fd]]
     /\ timerfds' = [droppedTimers EXCEPT ![m][new] = droppedTimers[m][fd]]
     /\ OrdinaryCall
     /\ UNCHANGED <<live, table, maps, thrown>>

----------------------------------------------------------------------------
(* Calls that change descriptors. *)

\* O_NONBLOCK belongs to the description, which copies share.
Changeable(t, fd) ==
  /\ fd \in Open(t)
  /\ Shared(files[table[t]][fd]) => "shared" \in Behaviours

kernelSetNonblock(t, fd, asked, really) ==
  /\ desc' = [desc EXCEPT ![files[table[t]][fd]].asked = asked,
                          ![files[table[t]][fd]].really = really]
  /\ UNCHANGED <<files, cloexec>>

\* fcntl(F_SETFL): O_NONBLOCK in the argument is recorded, its absence is not.
\* A tracee that adds another flag to what F_GETFL reports ("getfl") passes
\* the O_NONBLOCK on that dettrace has set.
fcntlSetfl(t, fd, nonblock) ==
  /\ Runs(t)
  /\ Changeable(t, fd)
  /\ nonblock \/ "clear" \in Behaviours
  /\ kernelSetNonblock(t, fd, nonblock, nonblock)
  /\ IF nonblock THEN setFdStatus(t, fd, "nonBlocking") ELSE UNCHANGED fdStatus
  /\ OrdinaryCall
  /\ UNCHANGED <<live, table, maps, timerfds, thrown>>

fcntlAddFlag(t, fd) ==
  LET reported == DescOf(t, fd).really
  IN /\ Runs(t)
     /\ "getfl" \in Behaviours
     /\ Changeable(t, fd)
     /\ kernelSetNonblock(t, fd, DescOf(t, fd).asked, reported)
     /\ IF reported THEN setFdStatus(t, fd, "nonBlocking") ELSE UNCHANGED fdStatus
     /\ OrdinaryCall
     /\ UNCHANGED <<live, table, maps, timerfds, thrown>>

\* The same call on a number that is not open fails, and is recorded as well.
fcntlSetflFails(t, fd) ==
  /\ Runs(t)
  /\ "fails" \in Behaviours
  /\ fd \notin Open(t)
  /\ setFdStatus(t, fd, "nonBlocking")
  /\ OrdinaryCall
  /\ UNCHANGED <<live, table, files, cloexec, desc, maps, timerfds, thrown>>

\* ioctl(FIONBIO) is recorded in both directions.
ioctlFIONBIO(t, fd, nonblock) ==
  /\ Runs(t)
  /\ Changeable(t, fd)
  /\ DescOf(t, fd).kind = "socket" \/ nonblock \/ "clear" \in Behaviours
  /\ kernelSetNonblock(t, fd, nonblock, nonblock)
  /\ setFdStatus(t, fd, Status(nonblock))
  /\ OrdinaryCall
  /\ UNCHANGED <<live, table, maps, timerfds, thrown>>

Setting(armed) == IF armed THEN "armed" ELSE "disarmed"

\* The pre-hook records the new setting before the kernel has seen the call;
\* the post-hook reports what is recorded as the old value.
timerfd_settime(t, fd, armed) ==
  /\ Runs(t)
  /\ Changeable(t, fd)
  /\ DescOf(t, fd).kind = "timerfd"
  /\ desc' = [desc EXCEPT ![files[table[t]][fd]].armed = armed]
  /\ timerfds' = [timerfds EXCEPT ![maps[t]][fd] = Setting(armed)]
  /\ oldValue' = timerfds'[maps[t]][fd]
  /\ UNCHANGED <<live, table, files, cloexec, maps, fdStatus, thrown>>

timerfd_settimeFails(t, fd, armed) ==
  /\ Runs(t)
  /\ "fails" \in Behaviours
  /\ fd \in Open(t) => DescOf(t, fd).kind # "timerfd"
  /\ timerfds' = [timerfds EXCEPT ![maps[t]][fd] = Setting(armed)]
  /\ OrdinaryCall
  /\ UNCHANGED <<live, table, files, cloexec, desc, maps, fdStatus, thrown>>

\* What timerfd_gettime reports: the recorded setting.
timerfd_gettime(t, fd) == timerfds[maps[t]][fd]

----------------------------------------------------------------------------
(* Descriptors go away, tasks come and go. *)

\* The post-hook forgets the number whatever close returned.
close_KeepsStatus(t, fd) ==
  /\ Runs(t)
  /\ SetFiles([files EXCEPT ![table[t]][fd] = NoDesc], desc)
  /\ cloexec' = [cloexec EXCEPT ![table[t]] = @ \ {fd}]
  /\ timerfds' = [timerfds EXCEPT ![maps[t]][fd] = "absent"]
  /\ OrdinaryCall
  /\ UNCHANGED <<live, table, maps, fdStatus, thrown>>

close_KeepsTimer(t, fd) ==
  /\ Runs(t)
  /\ SetFiles([files EXCEPT ![table[t]][fd] = NoDesc], desc)
  /\ cloexec' = [cloexec EXCEPT ![table[t]] = @ \ {fd}]
  /\ setFdStatus(t, fd, "absent")
  /\ OrdinaryCall
  /\ UNCHANGED <<live, table, maps, timerfds, thrown>>

close(t, fd) ==
  /\ Runs(t)
  /\ SetFiles([files EXCEPT ![table[t]][fd] = NoDesc], desc)
  /\ cloexec' = [cloexec EXCEPT ![table[t]] = @ \ {fd}]
  /\ setFdStatus(t, fd, "absent")
  /\ timerfds' = [timerfds EXCEPT ![maps[t]][fd] = "absent"]
  /\ OrdinaryCall
  /\ UNCHANGED <<live, table, maps, thrown>>

\* A fork copies the kernel's table, and state::forked the tracer's.
CopyTable(t, q) ==
  /\ live' = live \union {q}
  /\ table' = [table EXCEPT ![q] = q]
  /\ SetFiles([files EXCEPT ![q] = files[table[t]]], desc)
  /\ cloexec' = [cloexec EXCEPT ![q] = cloexec[table[t]]]

\* No task refers to the tables that carry the name of q.
Fresh(q) == q \notin live /\ \A u \in live : table[u] # q /\ maps[u] # q

forked(t, q) ==
  /\ Runs(t)
  /\ Fresh(q)
  /\ CopyTable(t, q)
  /\ maps' = [maps EXCEPT ![q] = q]
  /\ fdStatus' = [fdStatus EXCEPT ![q] = fdStatus[maps[t]]]
  /\ timerfds' = [timerfds EXCEPT ![q] = timerfds[maps[t]]]
  /\ OrdinaryCall
  /\ UNCHANGED thrown

\* A thread uses the table of the one that created it, and state::cloned
\* copies the pointers.
cloned_CopiesTables(t, q) ==
  /\ Runs(t)
  /\ Fresh(q)
  /\ live' = live \union {q}
  /\ table' = [table EXCEPT ![q] = table[t]]
  /\ maps' = [maps EXCEPT ![q] = q]
  /\ fdStatus' = [fdStatus EXCEPT ![q] = fdStatus[maps[t]]]
  /\ timerfds' = [timerfds EXCEPT ![q] = timerfds[maps[t]]]
  /\ OrdinaryCall
  /\ UNCHANGED <<files, cloexec, desc, thrown>>

cloned(t, q) ==
  /\ Runs(t)
  /\ Fresh(q)
  /\ live' = live \union {q}
  /\ table' = [table EXCEPT ![q] = table[t]]
  /\ maps' = [maps EXCEPT ![q] = maps[t]]
  /\ OrdinaryCall
  /\ UNCHANGED <<files, cloexec, desc, fdStatus, timerfds, thrown>>

\* execve ends the other threads and closes the close-on-exec descriptors; the
\* exec event gives the state a new, empty fdStatus and leaves timerfds.
handleExecEvent(t) ==
  LET own == table[t]
  IN /\ Runs(t)
     /\ "execve" \in Behaviours
     /\ live' = {u \in live : u = t \/ table[u] # own}
     /\ SetFiles([files EXCEPT ![own] =
                    [fd \in Fd |-> IF fd \in cloexec[own] THEN NoDesc ELSE files[own][fd]]], desc)
     /\ cloexec' = [cloexec EXCEPT ![own] = {}]
     /\ fdStatus' = [fdStatus EXCEPT ![maps[t]] = [fd \in Fd |-> "absent"]]
     /\ OrdinaryCall
     /\ UNCHANGED <<table, maps, timerfds, thrown>>

\* A task ends, and with the last one that uses them its tables.
exit(t) ==
  LET own == table[t]
      lastUser == \A u \in live \ {t} : table[u] # own
      lastState == \A u \in live \ {t} : maps[u] # maps[t]
      nothing == [fd \in Fd |-> "absent"]
  IN /\ Runs(t)
     /\ live' = live \ {t}
     /\ SetFiles(IF lastUser THEN [files EXCEPT ![own] = [fd \in Fd |-> NoDesc]] ELSE files, desc)
     /\ cloexec' = IF lastUser THEN [cloexec EXCEPT ![own] = {}] ELSE cloexec
     /\ fdStatus' = IF lastState THEN [fdStatus EXCEPT ![maps[t]] = nothing] ELSE fdStatus
     /\ timerfds' = IF lastState THEN [timerfds EXCEPT ![maps[t]] = nothing] ELSE timerfds
     /\ table' = [table EXCEPT ![t] = t]
     /\ maps' = [maps EXCEPT ![t] = t]
     /\ OrdinaryCall
     /\ UNCHANGED thrown

----------------------------------------------------------------------------
\* One process without descriptors; standard input and output are regular
\* files that no table of the tracer mentions.
Init ==
  /\ \E t \in Task : live = {t}
  /\ table = [t \in Task |-> t] /\ maps = [t \in Task |-> t]
  /\ files = [t \in Task |-> [fd \in Fd |-> NoDesc]]
  /\ cloexec = [t \in Task |-> {}]
  /\ desc = [d \in Desc |-> Closed]
  /\ fdStatus = [t \in Task |-> [fd \in Fd |-> "absent"]]
  /\ timerfds = [t \in Task |-> [fd \in Fd |-> "absent"]]
  /\ oldValue = "none"
  /\ thrown = "no"

Next ==
  \E t \in Task :
    \/ pipe(t) \/ pipe2Fails(t) \/ timerfd_create(t) \/ handleExecEvent(t) \/ exit(t)
    \/ \E b \in BOOLEAN : pipe2(t, b) \/ socket(t, b)
    \/ \E q \in Task : forked(t, q) \/ cloned(t, q)
    \/ \E fd \in Fd :
         \/ dup(t, fd) \/ fcntlDupfd(t, fd) \/ close(t, fd)
         \/ fcntlAddFlag(t, fd) \/ fcntlSetflFails(t, fd)
         \/ \E new \in Fd : dup2(t, fd, new)
         \/ \E b \in BOOLEAN :
              \/ accept4(t, fd, b) \/ fcntlSetfl(t, fd, b) \/ ioctlFIONBIO(t, fd, b)
              \/ timerfd_settime(t, fd, b) \/ timerfd_settimeFails(t, fd, b)

Spec == Init /\ [][Next]_vars

----------------------------------------------------------------------------
(* Properties. *)

\* A task has an open descriptor of that kind.
IsOfKind(t, fd, kind) == fd \in Open(t) /\ DescOf(t, fd).kind = kind

\* read, write, recvmsg and accept4 ask fd_is_nonblocking whether EAGAIN is for
\* the tracee.  The answer is what the tracee asked for, for every descriptor of
\* every process and thread, however it was made, copied, passed on or reused.
StatusAsAsked ==
  \A t \in live, fd \in Fd :
    IsOfKind(t, fd, "pipe") \/ IsOfKind(t, fd, "socket") =>
      (fd_is_nonblocking(t, fd) <=> DescOf(t, fd).asked)

\* read answers for a timer without asking the kernel.  It does so for the
\* descriptors that are timers, and for no others.
TimersKnown ==
  \A t \in live, fd \in Fd :
    fd_is_timerfd(t, fd) <=> IsOfKind(t, fd, "timerfd")

\* timerfd_gettime says that a timer is armed when it is.
TimersAsSet ==
  \A t \in live, fd \in Fd :
    IsOfKind(t, fd, "timerfd") => timerfd_gettime(t, fd) = Setting(DescOf(t, fd).armed)

\* pipe2 finds no status left over for the descriptors of a new pipe.
NoLeftOverStatus == thrown = "no"

\* Tasks with one descriptor table in the kernel have one in the tracer.
TablesSharedAlike == \A t, u \in live : table[t] = table[u] <=> maps[t] = maps[u]

=============================================================================
