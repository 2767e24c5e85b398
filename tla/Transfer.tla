------------------------------ MODULE Transfer ------------------------------
(***************************************************************************)
(* read and write on pipes that dettrace has made non-blocking.            *)
(*                                                                         *)
(* How many bytes the kernel moves at once depends on timing.  So that the *)
(* tracee does not see it, the post-hooks execute a call again until all   *)
(* bytes have moved, or the file ends: they advance the buffer and shorten *)
(* the count in the argument registers, add up the bytes in totalBytes,    *)
(* and in the end put the registers back from beforeRetry.  A call that    *)
(* would block is executed again after other processes have run.           *)
(*                                                                         *)
(* `execute' is one execution of a call: the kernel's part and the whole   *)
(* post-hook.  Between two of them any other process may run.  A register  *)
(* that holds a buffer is its offset from the tracee's buffer.             *)
(***************************************************************************)
EXTENDS Integers

CONSTANTS
  Process,
  Capacity,     \* of the pipe
  MaxRequest,   \* the largest count a tracee asks for
  Behaviours    \* what the tracees do besides reading and writing a pipe

AllBehaviours == {"readv", "nonblocking", "fork", "error", "timerfd"}

ASSUME TransferAssumption ==
  /\ Capacity \in Nat \ {0}
  /\ MaxRequest \in Nat \ {0}
  /\ Behaviours \subseteq AllBehaviours

VARIABLES
  live,         \* the processes that exist
  nonblocking,  \* those whose descriptors they asked to be non-blocking
  bytes,        \* in the pipe
  ends,         \* which ends of the pipe are open: a subset of {"read", "write"}
  call,         \* the call a process is in, with the count it asked for and
                \*   the bytes that have moved
  regs,         \* its second and third argument register
  tracer,       \* firstTrySystemcall, totalBytes, beforeRetry of its state
  reply         \* what the last call to return looks like to its process

vars == <<live, nonblocking, bytes, ends, call, regs, tracer, reply>>

EAGAIN == -11
EPIPE == -32
EINVAL == -22
TimerSize == 2      \* stands for the 8 bytes of an expiration count
Registers(a2, a3) == [arg2 |-> a2, arg3 |-> a3]
Idle == [op |-> "none", count |-> 0, moved |-> 0]
NoReply == [op |-> "none"]

----------------------------------------------------------------------------
(* The kernel. *)

Smaller(a, b) == IF a < b THEN a ELSE b

\* An error moves no bytes.
Moved(ret) == IF ret > 0 THEN ret ELSE 0

\* The results one execution of a call may have.
kernelResult(p) ==
  LET n == regs[p].arg3
      op == call[p].op
      free == Capacity - bytes
  IN IF op \in {"read", "readv"} THEN
       IF n = 0 THEN 0
       ELSE IF bytes > 0 THEN Smaller(n, bytes)
       ELSE IF "write" \in ends THEN EAGAIN ELSE 0
     ELSE IF op = "timerfd" THEN EAGAIN
     ELSE IF n = 0 THEN 0
     ELSE IF "read" \notin ends THEN EPIPE
     ELSE IF free > 0 THEN Smaller(n, free)
     ELSE EAGAIN

\* The bytes of a successful execution leave or enter the pipe.
kernelMoves(p, ret) ==
  LET k == Moved(ret)
  IN bytes' = IF call[p].op = "write" THEN bytes + k ELSE bytes - k

----------------------------------------------------------------------------
(* The post-hooks.  Each sets regs, tracer, call and reply of p. *)

\* The call is over for the tracee, which finds args in its registers; they are
\* its own again, and mean nothing to dettrace until the next call.
Return(p, ret, args, moved) ==
  /\ regs' = [regs EXCEPT ![p] = Registers(0, 0)]
  /\ reply' = [op |-> call[p].op, ret |-> ret, moved |-> moved, count |-> call[p].count,
               blocking |-> p \notin nonblocking, args |-> args,
               ended |-> ends # {"read", "write"}]
  /\ call' = [call EXCEPT ![p] = Idle]

\* resetState: the registers as they were before the retries, ready for the next call.
resetState(p, ret, moved) ==
  /\ Return(p, ret, tracer[p].beforeRetry, moved)
  /\ tracer' = [tracer EXCEPT ![p].firstTry = TRUE, ![p].totalBytes = 0]

\* replaySyscallIfBlocked: give way to others, then execute the call again.
replaySyscallIfBlocked(p, ret, moved) ==
  /\ ret = EAGAIN
  /\ reply' = NoReply
  /\ call' = [call EXCEPT ![p].moved = moved]
  /\ UNCHANGED <<regs, tracer>>

\* The same call again, with the registers args.
replaySystemCall(p, args, moved) ==
  /\ regs' = [regs EXCEPT ![p] = args]
  /\ call' = [call EXCEPT ![p].moved = moved]
  /\ reply' = NoReply

\* EAGAIN on a descriptor the tracee made non-blocking.
nonBlockingResult(p, moved) ==
  IF tracer[p].firstTry THEN resetState(p, EAGAIN, moved)
                        ELSE resetState(p, tracer[p].totalBytes, moved)

\* Bytes have moved, or the end of the file was met: finish or go on.
bytesMoved_AtOnce(p, ret, moved) ==
  Return(p, ret, regs[p], moved) /\ UNCHANGED tracer

bytesMoved_KeepsRegisters(p, ret, moved) ==
  LET total == tracer[p].totalBytes + ret
      before == IF tracer[p].firstTry THEN regs[p] ELSE tracer[p].beforeRetry
      done == ret = 0 \/ total = before.arg3
  IN IF done
       THEN /\ Return(p, total, regs[p], moved)
            /\ tracer' = [tracer EXCEPT ![p] =
                            [firstTry |-> TRUE, totalBytes |-> 0, beforeRetry |-> before]]
       ELSE /\ replaySystemCall(p, Registers(regs[p].arg2 + ret, regs[p].arg3 - ret), moved)
            /\ tracer' = [tracer EXCEPT ![p] =
                            [firstTry |-> FALSE, totalBytes |-> total, beforeRetry |-> before]]

bytesMoved_KeepsTotal(p, ret, moved) ==
  LET total == tracer[p].totalBytes + ret
      before == IF tracer[p].firstTry THEN regs[p] ELSE tracer[p].beforeRetry
      done == ret = 0 \/ total = before.arg3
  IN IF done
       THEN /\ Return(p, total, before, moved)
            /\ tracer' = [tracer EXCEPT ![p] =
                            [firstTry |-> TRUE, totalBytes |-> total, beforeRetry |-> before]]
       ELSE /\ replaySystemCall(p, Registers(regs[p].arg2 + ret, regs[p].arg3 - ret), moved)
            /\ tracer' = [tracer EXCEPT ![p] =
                            [firstTry |-> FALSE, totalBytes |-> total, beforeRetry |-> before]]

bytesMoved_ZeroGoesOn(p, ret, moved) ==
  LET total == tracer[p].totalBytes + ret
      before == IF tracer[p].firstTry THEN regs[p] ELSE tracer[p].beforeRetry
      done == total = before.arg3
  IN IF done
       THEN /\ Return(p, total, before, moved)
            /\ tracer' = [tracer EXCEPT ![p] =
                            [firstTry |-> TRUE, totalBytes |-> 0, beforeRetry |-> before]]
       ELSE /\ replaySystemCall(p, Registers(regs[p].arg2 + ret, regs[p].arg3 - ret), moved)
            /\ tracer' = [tracer EXCEPT ![p] =
                            [firstTry |-> FALSE, totalBytes |-> total, beforeRetry |-> before]]

bytesMoved(p, ret, moved) ==
  LET total == tracer[p].totalBytes + ret
      before == IF tracer[p].firstTry THEN regs[p] ELSE tracer[p].beforeRetry
      done == ret = 0 \/ total = before.arg3
  IN IF done
       THEN /\ Return(p, total, before, moved)
            /\ tracer' = [tracer EXCEPT ![p] =
                            [firstTry |-> TRUE, totalBytes |-> 0, beforeRetry |-> before]]
       ELSE /\ replaySystemCall(p, Registers(regs[p].arg2 + ret, regs[p].arg3 - ret), moved)
            /\ tracer' = [tracer EXCEPT ![p] =
                            [firstTry |-> FALSE, totalBytes |-> total, beforeRetry |-> before]]

\* An error goes to the tracee at once, and nothing is reset.
negativeResult(p, ret, moved) ==
  Return(p, ret, regs[p], moved) /\ UNCHANGED tracer

\* A timer is read without the kernel's help.
timerfdRead(p) ==
  LET reads == regs[p].arg3 >= TimerSize
      ret == IF reads THEN TimerSize ELSE EINVAL
  IN resetState(p, ret, IF reads THEN TimerSize ELSE 0)

readPost(p, ret, moved) ==
  CASE call[p].op = "timerfd" -> timerfdRead(p)
    [] call[p].op = "read" /\ ret = EAGAIN ->
         IF p \in nonblocking THEN nonBlockingResult(p, moved)
                              ELSE replaySyscallIfBlocked(p, ret, moved)
    [] call[p].op = "read" /\ ret < 0 /\ ret # EAGAIN -> negativeResult(p, ret, moved)
    [] call[p].op = "read" /\ ret >= 0 -> bytesMoved(p, ret, moved)

writePost(p, ret, moved) ==
  CASE ret = EAGAIN ->
         IF p \in nonblocking THEN nonBlockingResult(p, moved)
                              ELSE replaySyscallIfBlocked(p, ret, moved)
    [] ret < 0 /\ ret # EAGAIN -> negativeResult(p, ret, moved)
    [] ret >= 0 -> bytesMoved(p, ret, moved)

----------------------------------------------------------------------------
(* Actions. *)

\* A tracee calls read, write, readv, or read on a timer, and the pre-hook lets
\* the call pass.
enter(p, op, n) ==
  /\ p \in live
  /\ call[p] = Idle
  /\ op \in {"readv", "timerfd"} => op \in Behaviours
  /\ op = "write" => "write" \in ends
  /\ op \in {"read", "readv"} => "read" \in ends
  /\ call' = [call EXCEPT ![p] = [op |-> op, count |-> n, moved |-> 0]]
  /\ regs' = [regs EXCEPT ![p] = Registers(0, n)]
  /\ reply' = NoReply
  /\ UNCHANGED <<live, nonblocking, bytes, ends, tracer>>

\* One execution.  readv is not intercepted: the tracee sees what the kernel says.
execute(p) ==
  LET ret == kernelResult(p)
      moved == call[p].moved + Moved(ret)
  IN /\ call[p] # Idle
     /\ kernelMoves(p, ret)
     /\ CASE call[p].op = "write" -> writePost(p, ret, moved)
          [] call[p].op = "readv" -> negativeResult(p, ret, moved)
          [] OTHER -> readPost(p, ret, moved)
     /\ UNCHANGED <<live, nonblocking, ends>>

\* A process that is in no call closes the last descriptor of an end.  Without
\* "error" the writers finish before the readers go away.
closeEnd(e) ==
  /\ e \in ends
  /\ e = "read" => "error" \in Behaviours
  /\ \E p \in live : call[p] = Idle
  /\ \A p \in live : call[p].op \notin (IF e = "read" THEN {"read", "readv"} ELSE {"write"})
  /\ ends' = ends \ {e}
  /\ reply' = NoReply
  /\ UNCHANGED <<live, nonblocking, bytes, call, regs, tracer>>

\* state::forked and state::cloned.
forked(p, q) ==
  /\ "fork" \in Behaviours
  /\ p \in live /\ q \notin live
  /\ call[p] = Idle
  /\ live' = live \union {q}
  /\ nonblocking' = IF p \in nonblocking THEN nonblocking \union {q} ELSE nonblocking
  /\ tracer' = [tracer EXCEPT ![q] = [firstTry |-> FALSE, totalBytes |-> tracer[p].totalBytes,
                                      beforeRetry |-> Registers(0, 0)]]
  /\ reply' = NoReply
  /\ UNCHANGED <<bytes, ends, call, regs>>

Init ==
  /\ IF "fork" \in Behaviours THEN \E p \in Process : live = {p} ELSE live = Process
  /\ nonblocking \in IF "nonblocking" \in Behaviours THEN SUBSET live ELSE {{}}
  /\ bytes = 0
  /\ ends = {"read", "write"}
  /\ call = [p \in Process |-> Idle]
  /\ regs = [p \in Process |-> Registers(0, 0)]
  /\ tracer = [p \in Process |->
                 [firstTry |-> TRUE, totalBytes |-> 0, beforeRetry |-> Registers(0, 0)]]
  /\ reply = NoReply

Next ==
  \/ \E p \in Process :
       \/ execute(p)
       \/ \E op \in {"read", "write", "readv", "timerfd"}, n \in 0 .. MaxRequest : enter(p, op, n)
       \/ \E q \in Process : forked(p, q)
  \/ \E e \in {"read", "write"} : closeEnd(e)

Spec == Init /\ [][Next]_vars

----------------------------------------------------------------------------
(* Properties. *)

Returned == reply # NoReply

\* However often the hooks execute a call, the tracee sees its argument registers
\* as it passed them: system calls preserve them, and compilers rely on it.
RegistersPreserved == Returned => reply.args = Registers(0, reply.count)

\* A call returns the number of bytes that it has moved, or an error and has
\* moved none; a call that is executed again does not forget or count twice.
ReturnsWhatMoved ==
  Returned => IF reply.ret < 0 THEN reply.moved = 0
              ELSE reply.ret = reply.moved /\ reply.ret <= reply.count

\* What a call on a blocking descriptor returns does not depend on the portions
\* in which the other side supplies or takes the bytes: a read ends short only
\* where the data end, a write never.
PortionsDoNotShow ==
  Returned /\ reply.op \in {"read", "write"} /\ reply.blocking /\ reply.ret >= 0 =>
    reply.ret = reply.count \/ (reply.op = "read" /\ reply.ended)

\* While a call is being executed again its registers describe the rest of the
\* tracee's buffer.
RestOfBuffer ==
  \A p \in live : call[p] # Idle =>
    regs[p] = Registers(call[p].moved, call[p].count - call[p].moved)

\* EAGAIN is shown only to a tracee that asked for a non-blocking descriptor, or
\* calls readv, which dettrace does not intercept.
EagainOnlyIfAsked ==
  Returned /\ reply.ret = EAGAIN => ~reply.blocking \/ reply.op = "readv"

\* A reader at the end of the file: its writers are gone.
AtTheEnd(p) == call[p].op = "read" /\ "write" \notin ends

=============================================================================
