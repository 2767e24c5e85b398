--------------------------- MODULE TransferProofs ---------------------------
(***************************************************************************)
(* Reads and writes of blocking pipes for every capacity of the pipe,      *)
(* every count and any number of processes: however often the hooks        *)
(* execute a call, it looks like one.                                      *)
(*                                                                         *)
(* The invariants are about the steps of Transfer.  The theorems at the    *)
(* end state them of the specification that the model checker runs, in     *)
(* which Capacity, MaxRequest and Process are still arbitrary.             *)
(***************************************************************************)
EXTENDS MCBlocking, TLAPS

\* Calls fail, and descriptors are non-blocking, in none of the behaviours that
\* are considered: the hooks keep less of their promises then.
PipesOnly == Behaviours \subseteq {"readv"}

Args == [arg2 : Nat, arg3 : Nat]

Types ==
  /\ live = Process /\ nonblocking = {}
  /\ bytes \in 0 .. Capacity
  /\ ends \subseteq {"read", "write"} /\ "read" \in ends
  /\ call \in [Process -> [op : {"none", "read", "write", "readv"}, count : Nat, moved : Nat]]
  /\ \A p \in Process : call[p].op = "none" => call[p] = Idle
  /\ regs \in [Process -> Args]
  /\ tracer \in [Process -> [firstTry : BOOLEAN, totalBytes : Nat, beforeRetry : Args]]

\* Where a call stands: nothing is noted between calls, and during one the notes,
\* the registers and the bytes that have moved belong together.
Stands(p) ==
  /\ call[p].op = "none" => tracer[p].firstTry /\ tracer[p].totalBytes = 0
  /\ call[p].op # "none" =>
       /\ call[p].moved <= call[p].count
       /\ regs[p].arg2 = call[p].moved
       /\ regs[p].arg3 = call[p].count - call[p].moved
       /\ tracer[p].totalBytes = call[p].moved
       /\ tracer[p].firstTry => call[p].moved = 0
       /\ ~tracer[p].firstTry => tracer[p].beforeRetry = Registers(0, call[p].count)
  /\ call[p].op = "readv" => tracer[p].firstTry

Answers ==
  RegistersPreserved /\ ReturnsWhatMoved /\ PortionsDoNotShow /\ EagainOnlyIfAsked

TransferInv == Types /\ (\A p \in Process : Stands(p)) /\ Answers

-----------------------------------------------------------------------------
\* The smaller of two numbers.
LEMMA SmallerOfTwo ==
  ASSUME NEW a \in Nat, NEW b \in Nat
  PROVE  Smaller(a, b) \in Nat /\ Smaller(a, b) <= a /\ Smaller(a, b) <= b
         /\ Smaller(a, b) \in {a, b}
BY DEF Smaller

\* What an error counts as.
LEMMA MovedByError ==
  ASSUME NEW a \in Int
  PROVE  Moved(a) = IF a >= 0 THEN a ELSE 0
BY DEF Moved

\* The kernel moves no more than was asked for and the pipe holds.  It moves
\* nothing if nothing is left to be asked for or the data have ended.
LEMMA KernelResult ==
  ASSUME Types, NEW p \in Process, call[p].op \in {"read", "write", "readv"},
         kernelMoves(p, kernelResult(p))
  PROVE  /\ \/ kernelResult(p) = EAGAIN
            \/ /\ kernelResult(p) \in Nat
               /\ kernelResult(p) <= regs[p].arg3
               /\ kernelResult(p) = 0 =>
                    \/ regs[p].arg3 = 0
                    \/ call[p].op # "write" /\ "write" \notin ends
         /\ bytes' \in 0 .. Capacity
<1> DEFINE n == regs[p].arg3
           ret == kernelResult(p)
<1>1. /\ n \in Nat /\ bytes \in Nat /\ Capacity \in Nat /\ bytes <= Capacity
      /\ "read" \in ends
  BY TransferAssumption DEF Types, Args
<1>2. EAGAIN \in Int /\ EAGAIN < 0  BY DEF EAGAIN
<1>3. bytes' = IF call[p].op = "write" THEN bytes + Moved(ret) ELSE bytes - Moved(ret)
  BY DEF kernelMoves
<1>4. CASE call[p].op \in {"read", "readv"}
  <2>1. ret = IF n = 0 THEN 0
              ELSE IF bytes > 0 THEN Smaller(n, bytes)
              ELSE IF "write" \in ends THEN EAGAIN ELSE 0
    BY <1>4 DEF kernelResult
  <2>2. /\ Smaller(n, bytes) \in Nat /\ Smaller(n, bytes) <= n /\ Smaller(n, bytes) <= bytes
        /\ Smaller(n, bytes) \in {n, bytes}
    BY <1>1, SmallerOfTwo, Zenon
  <2> HIDE DEF n, ret
  <2>3. \/ ret = EAGAIN
        \/ /\ ret \in Nat /\ ret <= n /\ ret <= bytes
           /\ ret = 0 => n = 0 \/ "write" \notin ends
    BY <1>1, <2>1, <2>2
  <2>4. Moved(ret) = IF ret >= 0 THEN ret ELSE 0  BY <1>2, <2>3, MovedByError
  <2>5. bytes' = bytes - (IF ret >= 0 THEN ret ELSE 0)  BY <1>3, <1>4, <2>4
  <2>6. bytes' \in 0 .. Capacity  BY <1>1, <1>2, <2>3, <2>5
  <2>7. QED BY <1>4, <2>3, <2>6 DEF n, ret
<1>5. CASE call[p].op = "write"
  <2> DEFINE free == Capacity - bytes
  <2>1. ret = IF n = 0 THEN 0 ELSE IF free > 0 THEN Smaller(n, free) ELSE EAGAIN
    BY <1>1, <1>5 DEF kernelResult
  <2>2. free \in Nat  BY <1>1
  <2>3. /\ Smaller(n, free) \in Nat /\ Smaller(n, free) <= n /\ Smaller(n, free) <= free
        /\ Smaller(n, free) \in {n, free}
    BY <1>1, <2>2, SmallerOfTwo, Zenon
  <2> HIDE DEF n, ret
  <2>4. \/ ret = EAGAIN
        \/ ret \in Nat /\ ret <= n /\ ret <= free /\ (ret = 0 => n = 0)
    <3> HIDE DEF free
    <3>1. QED BY <1>1, <2>1, <2>2, <2>3
  <2>5. Moved(ret) = IF ret >= 0 THEN ret ELSE 0  BY <1>2, <2>4, MovedByError
  <2>6. bytes' = bytes + (IF ret >= 0 THEN ret ELSE 0)  BY <1>3, <1>5, <2>5
  <2>7. bytes' \in 0 .. Capacity  BY <1>1, <1>2, <2>4, <2>6
  <2>8. QED BY <1>5, <2>4, <2>7 DEF n, ret
<1>6. QED BY <1>4, <1>5

\* What a step keeps of the variables that belong to processes other than p.
OthersStay(p) ==
  \A q \in Process : q # p =>
    call'[q] = call[q] /\ regs'[q] = regs[q] /\ tracer'[q] = tracer[q]

\* The parts of the types that a call changes.
CallTypes ==
  /\ call \in [Process -> [op : {"none", "read", "write", "readv"}, count : Nat, moved : Nat]]
  /\ \A p \in Process : call[p].op = "none" => call[p] = Idle
  /\ regs \in [Process -> Args]
  /\ tracer \in [Process -> [firstTry : BOOLEAN, totalBytes : Nat, beforeRetry : Args]]

\* A call that returns leaves nothing behind, if its notes are reset.
LEMMA Returns ==
  ASSUME CallTypes, NEW p \in Process, NEW ret, NEW args, NEW moved,
         Return(p, ret, args, moved), NEW t \in [firstTry : BOOLEAN, totalBytes : Nat, beforeRetry : Args],
         tracer' = [tracer EXCEPT ![p] = t], t.firstTry, t.totalBytes = 0
  PROVE  CallTypes' /\ Stands(p)' /\ OthersStay(p)
<1>1. /\ call' = [call EXCEPT ![p] = Idle]
      /\ regs' = [regs EXCEPT ![p] = Registers(0, 0)]
  BY DEF Return
<1>2. Idle \in [op : {"none", "read", "write", "readv"}, count : Nat, moved : Nat]
  BY DEF Idle
<1>3. Registers(0, 0) \in Args  BY DEF Registers, Args
<1>4. call'[p] = Idle /\ tracer'[p] = t  BY <1>1 DEF CallTypes
<1>5. OthersStay(p)  BY <1>1 DEF OthersStay, CallTypes
<1>6. /\ call' \in [Process -> [op : {"none", "read", "write", "readv"},
                                count : Nat, moved : Nat]]
      /\ regs' \in [Process -> Args]
      /\ tracer' \in [Process -> [firstTry : BOOLEAN, totalBytes : Nat, beforeRetry : Args]]
  BY <1>1, <1>2, <1>3 DEF CallTypes
<1>7. \A q \in Process : call'[q].op = "none" => call'[q] = Idle
  BY <1>4, <1>5 DEF OthersStay, CallTypes
<1>8. Stands(p)'  BY <1>4 DEF Stands, Idle
<1>9. QED BY <1>5, <1>6, <1>7, <1>8 DEF CallTypes

\* What a call must return for its answer to be right.
LEMMA RightAnswer ==
  ASSUME NEW op, NEW ret \in Int, NEW moved \in Nat, NEW count \in Nat, NEW blocking, NEW ended,
         reply' = [op |-> op, ret |-> ret, moved |-> moved, count |-> count,
                   blocking |-> blocking, args |-> Registers(0, count), ended |-> ended],
         \/ /\ ret = moved /\ moved <= count
            /\ op \in {"read", "write"} => moved = count \/ (op = "read" /\ ended)
         \/ op = "readv" /\ ret = EAGAIN /\ moved = 0
  PROVE  Answers'
<1>1. /\ reply'.op = op /\ reply'.ret = ret /\ reply'.moved = moved /\ reply'.count = count
      /\ reply'.blocking = blocking /\ reply'.args = Registers(0, count)
      /\ reply'.ended = ended
  OBVIOUS
<1>2. EAGAIN < 0 /\ EAGAIN \in Int  BY DEF EAGAIN
<1>3. RegistersPreserved'  BY <1>1 DEF RegistersPreserved
<1>4. ReturnsWhatMoved'  BY <1>1, <1>2 DEF ReturnsWhatMoved
<1>5. PortionsDoNotShow'  BY <1>1, <1>2 DEF PortionsDoNotShow
<1>6. EagainOnlyIfAsked'  BY <1>1, <1>2 DEF EagainOnlyIfAsked
<1>7. QED BY <1>3, <1>4, <1>5, <1>6 DEF Answers

\* No answer is given while a call goes on.
LEMMA NothingReturned ==
  ASSUME reply' = NoReply
  PROVE  Answers'
BY DEF Answers, RegistersPreserved, ReturnsWhatMoved, PortionsDoNotShow, EagainOnlyIfAsked,
       Returned

\* bytesMoved finishes the call with all that has moved, or goes on with the
\* rest of the buffer.
LEMMA BytesMoved ==
  ASSUME CallTypes, NEW p \in Process, Stands(p), call[p].op \in {"read", "write"},
         NEW ret \in Nat, ret <= regs[p].arg3,
         ret = 0 => regs[p].arg3 = 0 \/ (call[p].op = "read" /\ "write" \notin ends),
         NEW moved \in Nat, moved = call[p].moved + ret,
         bytesMoved(p, ret, moved)
  PROVE  CallTypes' /\ Stands(p)' /\ OthersStay(p) /\ Answers'
<1> DEFINE c == call[p]
           before == IF tracer[p].firstTry THEN regs[p] ELSE tracer[p].beforeRetry
           total == tracer[p].totalBytes + ret
<1>1. /\ c.count \in Nat /\ c.moved \in Nat /\ c.moved <= c.count
      /\ regs[p].arg2 = c.moved /\ regs[p].arg3 = c.count - c.moved
      /\ tracer[p].totalBytes = c.moved
      /\ tracer[p].firstTry \in BOOLEAN
      /\ tracer[p].firstTry => c.moved = 0
      /\ ~tracer[p].firstTry => tracer[p].beforeRetry = Registers(0, c.count)
  BY DEF CallTypes, Stands
<1>2. regs[p] = Registers(regs[p].arg2, regs[p].arg3)  BY DEF CallTypes, Args, Registers
<1>3. before = Registers(0, c.count)  BY <1>1, <1>2
<1>4. before \in Args /\ before.arg3 = c.count  BY <1>1, <1>3 DEF Registers, Args
<1>5. total = moved /\ moved <= c.count  BY <1>1
<1>6. CASE ret = 0 \/ total = before.arg3
  <2> DEFINE t == [firstTry |-> TRUE, totalBytes |-> 0, beforeRetry |-> before]
  <2>1. Return(p, total, before, moved) /\ tracer' = [tracer EXCEPT ![p] = t]
    BY <1>6 DEF bytesMoved
  <2>2. /\ t \in [firstTry : BOOLEAN, totalBytes : Nat, beforeRetry : Args]
        /\ t.firstTry /\ t.totalBytes = 0
    BY <1>4
  <2> HIDE DEF t
  <2>3. CallTypes' /\ Stands(p)' /\ OthersStay(p)  BY <2>1, <2>2, Returns, Zenon
  <2>4. reply' = [op |-> c.op, ret |-> total, moved |-> moved, count |-> c.count,
                  blocking |-> p \notin nonblocking, args |-> Registers(0, c.count),
                  ended |-> ends # {"read", "write"}]
    BY <1>3, <2>1 DEF Return
  <2>5. moved = c.count \/ (c.op = "read" /\ ends # {"read", "write"})
    BY <1>1, <1>4, <1>5, <1>6
  <2>6. Answers'
    <3> DEFINE blocking == p \notin nonblocking
               ended == ends # {"read", "write"}
    <3>1. reply' = [op |-> c.op, ret |-> total, moved |-> moved, count |-> c.count,
                    blocking |-> blocking, args |-> Registers(0, c.count), ended |-> ended]
      BY <2>4
    <3>2. /\ total = moved /\ moved <= c.count /\ total \in Int /\ c.count \in Nat
          /\ moved = c.count \/ (c.op = "read" /\ ended)
      BY <1>1, <1>5, <2>5
    <3> HIDE DEF c, total, blocking, ended
    <3>3. QED BY <3>1, <3>2, RightAnswer
  <2>7. QED BY <2>3, <2>6
<1>7. CASE ~(ret = 0 \/ total = before.arg3)
  <2> DEFINE t == [firstTry |-> FALSE, totalBytes |-> total, beforeRetry |-> before]
             r == Registers(regs[p].arg2 + ret, regs[p].arg3 - ret)
  <2>1. /\ regs' = [regs EXCEPT ![p] = r]
        /\ call' = [call EXCEPT ![p].moved = moved]
        /\ reply' = NoReply
        /\ tracer' = [tracer EXCEPT ![p] = t]
    BY <1>7 DEF bytesMoved, replaySystemCall
  <2>2. /\ t \in [firstTry : BOOLEAN, totalBytes : Nat, beforeRetry : Args]
        /\ t.firstTry = FALSE /\ t.totalBytes = moved /\ t.beforeRetry = Registers(0, c.count)
    BY <1>3, <1>4, <1>5
  <2>3. r \in Args /\ r.arg2 = moved /\ r.arg3 = c.count - moved
    BY <1>1, <1>5 DEF Registers, Args
  <2> HIDE DEF t, r
  <2>4. regs'[p] = r /\ tracer'[p] = t  BY <2>1 DEF CallTypes
  <2>5. call'[p].op = c.op /\ call'[p].count = c.count /\ call'[p].moved = moved
    BY <2>1 DEF CallTypes
  <2>6. OthersStay(p)  BY <2>1 DEF OthersStay, CallTypes
  <2>7. /\ call' \in [Process -> [op : {"none", "read", "write", "readv"},
                                  count : Nat, moved : Nat]]
        /\ regs' \in [Process -> Args]
        /\ tracer' \in [Process -> [firstTry : BOOLEAN, totalBytes : Nat, beforeRetry : Args]]
    BY <2>1, <2>2, <2>3 DEF CallTypes
  <2>8. \A q \in Process : call'[q].op = "none" => call'[q] = Idle
    BY <2>5, <2>6 DEF OthersStay, CallTypes
  <2>9. Stands(p)'
    <3>1. call'[p].op \in {"read", "write"}  BY <2>5
    <3>2. QED BY <1>5, <2>2, <2>3, <2>4, <2>5, <3>1 DEF Stands
  <2>10. QED BY <2>1, <2>6, <2>7, <2>8, <2>9, NothingReturned DEF CallTypes
<1>8. QED BY <1>6, <1>7

\* An execution keeps the invariant.
LEMMA ExecuteKeeps ==
  ASSUME TransferInv, NEW p \in Process, execute(p)
  PROVE  TransferInv'
<1> DEFINE c == call[p]
           ret == kernelResult(p)
           moved == c.moved + Moved(ret)
<1>1. Types /\ CallTypes /\ Stands(p) /\ nonblocking = {}  BY DEF TransferInv, Types, CallTypes
<1>2. /\ c # Idle /\ kernelMoves(p, ret)
      /\ live' = live /\ nonblocking' = nonblocking /\ ends' = ends
  BY DEF execute
<1>3. c.op \in {"read", "write", "readv"} /\ c.moved \in Nat /\ c.count \in Nat
  BY <1>1, <1>2 DEF CallTypes
<1>4. /\ \/ ret = EAGAIN
         \/ /\ ret \in Nat
            /\ ret <= regs[p].arg3
            /\ ret = 0 => regs[p].arg3 = 0 \/ (c.op # "write" /\ "write" \notin ends)
      /\ bytes' \in 0 .. Capacity
  BY <1>1, <1>2, <1>3, KernelResult
<1>5. EAGAIN \in Int /\ EAGAIN < 0  BY DEF EAGAIN
<1>6. moved = IF ret = EAGAIN THEN c.moved ELSE c.moved + ret
  <2> HIDE DEF ret
  <2>1. Moved(ret) = IF ret >= 0 THEN ret ELSE 0  BY <1>4, <1>5, MovedByError
  <2>2. QED BY <1>3, <1>4, <1>5, <2>1
<1>7. CallTypes' /\ Stands(p)' /\ OthersStay(p) /\ Answers'
  <2>1. CASE c.op = "readv"
    <3>1. Return(p, ret, regs[p], moved) /\ tracer' = tracer
      BY <2>1 DEF execute, negativeResult
    <3>2. /\ tracer[p].firstTry /\ c.moved = 0 /\ tracer[p].totalBytes = 0
          /\ regs[p] = Registers(0, c.count)
      BY <1>1, <1>3, <2>1 DEF Stands, CallTypes, Args, Registers
    <3>3. tracer' = [tracer EXCEPT ![p] = tracer[p]]  BY <1>1, <3>1 DEF CallTypes
    <3>4. tracer[p] \in [firstTry : BOOLEAN, totalBytes : Nat, beforeRetry : Args]
      BY <1>1 DEF CallTypes
    <3>5. CallTypes' /\ Stands(p)' /\ OthersStay(p)
      BY <1>1, <3>1, <3>2, <3>3, <3>4, Returns, Zenon
    <3>6. reply' = [op |-> c.op, ret |-> ret, moved |-> moved, count |-> c.count,
                    blocking |-> p \notin nonblocking, args |-> Registers(0, c.count),
                    ended |-> ends # {"read", "write"}]
      BY <3>1, <3>2 DEF Return
    <3>7. regs[p].arg3 = c.count  BY <3>2 DEF Registers
    <3>8. /\ ret \in Int /\ moved \in Nat
          /\ (ret = moved /\ moved <= c.count) \/ (ret = EAGAIN /\ moved = 0)
      BY <1>4, <1>5, <1>6, <3>2, <3>7
    <3>9. Answers'
      <4> HIDE DEF ret, moved, c
      <4>1. QED BY <1>3, <2>1, <3>6, <3>8, RightAnswer
    <3>10. QED BY <3>5, <3>9
  <2>2. CASE c.op \in {"read", "write"} /\ ret = EAGAIN
    <3>1. /\ call' = [call EXCEPT ![p].moved = moved]
          /\ regs' = regs /\ tracer' = tracer /\ reply' = NoReply
      <4>1. CASE c.op = "read"
        <5>1. readPost(p, ret, moved)  BY <4>1 DEF execute
        <5>2. /\ call[p].op = "read" /\ ret = EAGAIN /\ p \notin nonblocking
              /\ ~(ret < 0 /\ ret # EAGAIN) /\ ~(ret >= 0)
          BY <1>1, <1>5, <2>2, <4>1
        <5> HIDE DEF ret, moved
        <5>3. QED BY <5>1, <5>2 DEF readPost, replaySyscallIfBlocked
      <4>2. CASE c.op = "write"
        <5>1. writePost(p, ret, moved)  BY <4>2 DEF execute
        <5>2. /\ ret = EAGAIN /\ p \notin nonblocking
              /\ ~(ret < 0 /\ ret # EAGAIN) /\ ~(ret >= 0)
          BY <1>1, <1>5, <2>2
        <5> HIDE DEF ret, moved
        <5>3. QED BY <5>1, <5>2 DEF writePost, replaySyscallIfBlocked
      <4>3. QED BY <2>2, <4>1, <4>2
    <3>2. moved = c.moved  BY <1>6, <2>2
    <3>3. call' = call  BY <1>1, <3>1, <3>2 DEF CallTypes
    <3>4. CallTypes' /\ Stands(p)' /\ OthersStay(p)
      BY <1>1, <3>1, <3>3, Zenon DEF CallTypes, Stands, OthersStay
    <3>5. QED BY <3>1, <3>4, NothingReturned
  <2>3. CASE c.op \in {"read", "write"} /\ ret # EAGAIN
    <3>1. ret \in Nat /\ ret >= 0 /\ moved \in Nat /\ moved = c.moved + ret
      BY <1>3, <1>4, <1>6, <2>3
    <3>2. bytesMoved(p, ret, moved)
      <4>1. CASE c.op = "read"
        <5>1. readPost(p, ret, moved)  BY <4>1 DEF execute
        <5>2. QED BY <2>3, <3>1, <4>1, <5>1 DEF readPost
      <4>2. CASE c.op = "write"
        <5>1. writePost(p, ret, moved)  BY <4>2 DEF execute
        <5>2. QED BY <2>3, <3>1, <4>2, <5>1 DEF writePost
      <4>3. QED BY <2>3, <4>1, <4>2
    <3>3. ret <= regs[p].arg3  BY <1>4, <2>3
    <3>4. ret = 0 => regs[p].arg3 = 0 \/ (c.op = "read" /\ "write" \notin ends)
      BY <1>4, <2>3
    <3> HIDE DEF ret, moved
    <3>5. QED BY <1>1, <2>3, <3>1, <3>2, <3>3, <3>4, BytesMoved
  <2>4. QED BY <1>3, <2>1, <2>2, <2>3
<1>8. \A q \in Process : Stands(q)'
  BY <1>7 DEF TransferInv, OthersStay, Stands
<1>9. Types'  BY <1>1, <1>2, <1>4, <1>7 DEF Types, CallTypes
<1>10. QED BY <1>7, <1>8, <1>9 DEF TransferInv

\* A new call: nothing has moved, and nothing is noted.
LEMMA EnterKeeps ==
  ASSUME PipesOnly, TransferInv, NEW p \in Process,
         NEW op \in {"read", "write", "readv", "timerfd"}, NEW n \in 0 .. MaxRequest,
         enter(p, op, n)
  PROVE  TransferInv'
<1>1. op \in {"read", "write", "readv"}  BY DEF PipesOnly, enter
<1>2. Types /\ n \in Nat /\ call[p] = Idle  BY TransferAssumption DEF TransferInv, enter
<1>3. /\ call' = [call EXCEPT ![p] = [op |-> op, count |-> n, moved |-> 0]]
      /\ regs' = [regs EXCEPT ![p] = Registers(0, n)]
      /\ reply' = NoReply /\ tracer' = tracer
      /\ live' = live /\ nonblocking' = nonblocking /\ bytes' = bytes /\ ends' = ends
  BY DEF enter
<1>4. Registers(0, n) \in Args /\ Registers(0, n).arg2 = 0 /\ Registers(0, n).arg3 = n
  BY <1>2 DEF Registers, Args
<1>5. call'[p] = [op |-> op, count |-> n, moved |-> 0] /\ regs'[p] = Registers(0, n)
  BY <1>2, <1>3 DEF Types
<1>6. \A q \in Process : q # p => call'[q] = call[q] /\ regs'[q] = regs[q]
  BY <1>2, <1>3 DEF Types
<1>7. Types'
  <2>1. call' \in [Process -> [op : {"none", "read", "write", "readv"},
                               count : Nat, moved : Nat]]
    BY <1>1, <1>2, <1>3 DEF Types
  <2>2. regs' \in [Process -> Args]  BY <1>2, <1>3, <1>4 DEF Types
  <2>3. \A q \in Process : call'[q].op = "none" => call'[q] = Idle
    BY <1>1, <1>2, <1>5, <1>6 DEF Types
  <2>4. QED BY <1>2, <1>3, <2>1, <2>2, <2>3 DEF Types
<1>8. tracer[p].firstTry /\ tracer[p].totalBytes = 0
  BY <1>2 DEF TransferInv, Stands, Idle
<1>9. Stands(p)'  BY <1>1, <1>2, <1>3, <1>4, <1>5, <1>8 DEF Stands
<1>10. \A q \in Process : Stands(q)'  BY <1>3, <1>6, <1>9 DEF TransferInv, Stands
<1>11. QED BY <1>3, <1>7, <1>10, NothingReturned DEF TransferInv

\* The writers go away.
LEMMA CloseKeeps ==
  ASSUME PipesOnly, TransferInv, NEW e \in {"read", "write"}, closeEnd(e)
  PROVE  TransferInv'
<1>1. e # "read"  BY DEF PipesOnly, closeEnd
<1>2. /\ ends' = ends \ {e} /\ reply' = NoReply /\ live' = live /\ nonblocking' = nonblocking
      /\ bytes' = bytes /\ call' = call /\ regs' = regs /\ tracer' = tracer
  BY DEF closeEnd
<1>3. Types'  BY <1>1, <1>2 DEF TransferInv, Types
<1>4. \A p \in Process : Stands(p)'  BY <1>2 DEF TransferInv, Stands
<1>5. QED BY <1>2, <1>3, <1>4, NothingReturned DEF TransferInv

-----------------------------------------------------------------------------
\* The invariant holds at the start.
LEMMA TransferInitial ==
  ASSUME PipesOnly, Init PROVE TransferInv
<1>1. live = Process /\ nonblocking = {}  BY DEF PipesOnly, Init
<1>2. Registers(0, 0) \in Args  BY DEF Registers, Args
<1>3. \A p \in Process : /\ call[p] = Idle
                         /\ tracer[p] = [firstTry |-> TRUE, totalBytes |-> 0,
                                         beforeRetry |-> Registers(0, 0)]
  BY Zenon DEF Init
<1>4. Types
  <2>1. bytes \in 0 .. Capacity  BY TransferAssumption DEF Init
  <2>2. call \in [Process -> [op : {"none", "read", "write", "readv"},
                              count : Nat, moved : Nat]]
    BY DEF Init, Idle
  <2>3. /\ regs \in [Process -> Args]
        /\ tracer \in [Process -> [firstTry : BOOLEAN, totalBytes : Nat, beforeRetry : Args]]
    BY <1>2 DEF Init
  <2>4. ends \subseteq {"read", "write"} /\ "read" \in ends  BY DEF Init
  <2>5. QED BY <1>1, <1>3, <2>1, <2>2, <2>3, <2>4 DEF Types
<1>5. ASSUME NEW p \in Process PROVE Stands(p)
  <2>1. call[p].op = "none"  BY <1>3 DEF Idle
  <2>2. tracer[p].firstTry = TRUE /\ tracer[p].totalBytes = 0  BY <1>3
  <2>3. QED BY <2>1, <2>2 DEF Stands
<1>6. Answers
  BY DEF Init, Answers, RegistersPreserved, ReturnsWhatMoved, PortionsDoNotShow,
         EagainOnlyIfAsked, Returned
<1>7. QED BY <1>4, <1>5, <1>6 DEF TransferInv

\* Every step keeps the invariant; forks are left out with the behaviours.
LEMMA TransferStep ==
  ASSUME PipesOnly, TransferInv, [Next]_vars PROVE TransferInv'
<1>1. CASE Next
  <2>1. CASE \E p \in Process : execute(p)  BY <2>1, ExecuteKeeps
  <2>2. CASE \E p \in Process, op \in {"read", "write", "readv", "timerfd"},
                n \in 0 .. MaxRequest : enter(p, op, n)
    BY <2>2, EnterKeeps
  <2>3. CASE \E p \in Process, q \in Process : forked(p, q)
    BY <2>3 DEF PipesOnly, forked
  <2>4. CASE \E e \in {"read", "write"} : closeEnd(e)  BY <2>4, CloseKeeps
  <2>5. QED BY <1>1, <2>1, <2>2, <2>3, <2>4 DEF Next
<1>2. CASE UNCHANGED vars
  <2>1. /\ live' = live /\ nonblocking' = nonblocking /\ bytes' = bytes /\ ends' = ends
        /\ call' = call /\ regs' = regs /\ tracer' = tracer /\ reply' = reply
    BY <1>2 DEF vars
  <2>2. Types'  BY <2>1 DEF TransferInv, Types
  <2>3. \A p \in Process : Stands(p)'  BY <2>1 DEF TransferInv, Stands
  <2>4. Answers'
    BY <2>1 DEF TransferInv, Answers, RegistersPreserved, ReturnsWhatMoved,
                PortionsDoNotShow, EagainOnlyIfAsked, Returned
  <2>5. QED BY <2>2, <2>3, <2>4 DEF TransferInv
<1>3. QED BY <1>1, <1>2

\* What the invariant says of the calls that have returned and of the others.
LEMMA TransferImplies == TransferInv => Answers /\ RestOfBuffer
<1> SUFFICES ASSUME TransferInv, NEW p \in live, call[p] # Idle
             PROVE  regs[p] = Registers(call[p].moved, call[p].count - call[p].moved)
  BY DEF TransferInv, RestOfBuffer
<1>1. p \in Process /\ Types /\ Stands(p)  BY DEF TransferInv, Types
<1>2. call[p].op # "none"  BY <1>1 DEF Types
<1>3. regs[p] = Registers(regs[p].arg2, regs[p].arg3)
  BY <1>1 DEF Types, Args, Registers
<1>4. QED BY <1>1, <1>2, <1>3 DEF Stands

\* For every capacity, count and number of processes: a read or a write of a
\* blocking pipe keeps the tracee's registers, which describe the rest of its
\* buffer in between, returns what it has moved, and shows neither the portions
\* the other side moves nor EAGAIN.
THEOREM TransferLooksAtomic ==
  ASSUME PipesOnly
  PROVE  Spec => [](/\ RegistersPreserved /\ RestOfBuffer /\ ReturnsWhatMoved
                    /\ PortionsDoNotShow /\ EagainOnlyIfAsked)
<1>1. Init => TransferInv  BY TransferInitial
<1>2. TransferInv /\ [Next]_vars => TransferInv'  BY TransferStep
<1>3. QED BY <1>1, <1>2, TransferImplies, PTL DEF Spec, Answers

-----------------------------------------------------------------------------
(* EAGAIN, whatever the tracees do: the invariant that is left when calls  *)
(* fail, descriptors are non-blocking, processes fork and timers are read. *)

AnyTypes ==
  /\ bytes \in 0 .. Capacity
  /\ call \in [Process -> [op : {"none", "read", "write", "readv", "timerfd"},
                           count : Nat, moved : Nat]]
  /\ \A p \in Process : call[p].op = "none" => call[p] = Idle
  /\ regs \in [Process -> Args]
  /\ tracer \in [Process -> [firstTry : BOOLEAN, totalBytes : Nat, beforeRetry : Args]]

\* Nobody sees an EAGAIN they did not ask for.
AnyInv == AnyTypes /\ EagainOnlyIfAsked

\* The kernel moves no more than was asked for, or reports an error.
LEMMA AnyResult ==
  ASSUME AnyTypes, NEW p \in Process, call[p].op # "none", kernelMoves(p, kernelResult(p))
  PROVE  /\ \/ kernelResult(p) \in {EAGAIN, EPIPE}
            \/ kernelResult(p) \in Nat /\ kernelResult(p) <= regs[p].arg3
         /\ bytes' \in 0 .. Capacity
         /\ Moved(kernelResult(p)) \in Nat
<1> DEFINE n == regs[p].arg3
           ret == kernelResult(p)
           free == Capacity - bytes
<1>1. /\ n \in Nat /\ bytes \in Nat /\ Capacity \in Nat /\ bytes <= Capacity /\ free \in Nat
  BY TransferAssumption DEF AnyTypes, Args
<1>2. EAGAIN \in Int /\ EAGAIN < 0 /\ EPIPE \in Int /\ EPIPE < 0  BY DEF EAGAIN, EPIPE
<1>3. bytes' = IF call[p].op = "write" THEN bytes + Moved(ret) ELSE bytes - Moved(ret)
  BY DEF kernelMoves
<1>4. \/ ret \in {EAGAIN, EPIPE, 0}
      \/ call[p].op # "write" /\ ret = Smaller(n, bytes)
      \/ call[p].op = "write" /\ ret = Smaller(n, free)
  <2>1. call[p].op \in {"read", "write", "readv", "timerfd"}  BY DEF AnyTypes
  <2>2. CASE call[p].op = "write"  BY <2>2 DEF kernelResult
  <2>3. CASE call[p].op = "timerfd"  BY <2>3 DEF kernelResult
  <2>4. CASE call[p].op \in {"read", "readv"}  BY <2>4 DEF kernelResult
  <2>5. QED BY <2>1, <2>2, <2>3, <2>4
<1>5. /\ Smaller(n, bytes) \in Nat /\ Smaller(n, bytes) <= n /\ Smaller(n, bytes) <= bytes
      /\ Smaller(n, free) \in Nat /\ Smaller(n, free) <= n /\ Smaller(n, free) <= free
  BY <1>1, SmallerOfTwo, Zenon
<1> HIDE DEF ret, n
<1>6. /\ ret \in {EAGAIN, EPIPE} \/ (ret \in Nat /\ ret <= n)
      /\ ret \in Nat => IF call[p].op = "write" THEN ret <= free ELSE ret <= bytes
  BY <1>1, <1>2, <1>4, <1>5
<1>7. Moved(ret) = IF ret >= 0 THEN ret ELSE 0  BY <1>2, <1>6, MovedByError
<1>8. bytes' = IF call[p].op = "write" THEN bytes + (IF ret >= 0 THEN ret ELSE 0)
                                       ELSE bytes - (IF ret >= 0 THEN ret ELSE 0)
  BY <1>3, <1>7
<1>9. bytes' \in 0 .. Capacity  BY <1>1, <1>2, <1>6, <1>8
<1>10. Moved(ret) \in Nat  BY <1>2, <1>6, <1>7
<1>11. QED BY <1>6, <1>9, <1>10 DEF ret, n

\* A call that returns anything but EAGAIN, or to a tracee that asked for it.
LEMMA AnyReturn ==
  ASSUME AnyTypes, NEW p \in Process, NEW ret, NEW args, NEW moved,
         Return(p, ret, args, moved), bytes' \in 0 .. Capacity,
         tracer' \in [Process -> [firstTry : BOOLEAN, totalBytes : Nat, beforeRetry : Args]],
         ret # EAGAIN \/ p \in nonblocking \/ call[p].op = "readv"
  PROVE  AnyInv'
<1>1. /\ call' = [call EXCEPT ![p] = Idle]
      /\ regs' = [regs EXCEPT ![p] = Registers(0, 0)]
  BY DEF Return
<1>2. /\ Idle \in [op : {"none", "read", "write", "readv", "timerfd"}, count : Nat, moved : Nat]
      /\ Registers(0, 0) \in Args
  BY DEF Idle, Registers, Args
<1>3. AnyTypes'  BY <1>1, <1>2 DEF AnyTypes
<1>4. reply'.ret = ret /\ reply'.op = call[p].op /\ reply'.blocking = (p \notin nonblocking)
  BY DEF Return
<1>5. EagainOnlyIfAsked'  BY <1>4, Zenon DEF EagainOnlyIfAsked, Returned
<1>6. QED BY <1>3, <1>5 DEF AnyInv

\* A call that is executed again.
LEMMA AnyReplay ==
  ASSUME AnyTypes, NEW p \in Process, NEW args \in Args, NEW moved \in Nat,
         bytes' \in 0 .. Capacity, reply' = NoReply, call[p].op # "none",
         call' = [call EXCEPT ![p].moved = moved],
         regs' = [regs EXCEPT ![p] = args] \/ regs' = regs,
         tracer' \in [Process -> [firstTry : BOOLEAN, totalBytes : Nat, beforeRetry : Args]]
  PROVE  AnyInv'
<1>1. AnyTypes'  BY Zenon DEF AnyTypes
<1>2. EagainOnlyIfAsked'  BY DEF EagainOnlyIfAsked, Returned
<1>3. QED BY <1>1, <1>2 DEF AnyInv

\* One execution, of a call of any kind.
LEMMA AnyExecution ==
  ASSUME AnyInv, NEW p \in Process, execute(p)
  PROVE  AnyInv'
<1> DEFINE ret == kernelResult(p)
           moved == call[p].moved + Moved(ret)
           T == [firstTry : BOOLEAN, totalBytes : Nat, beforeRetry : Args]
<1>1. /\ kernelMoves(p, ret) /\ AnyTypes
      /\ CASE call[p].op = "write" -> writePost(p, ret, moved)
           [] call[p].op = "readv" -> negativeResult(p, ret, moved)
           [] OTHER -> readPost(p, ret, moved)
      /\ UNCHANGED <<live, nonblocking, ends>>
  BY DEF execute, AnyInv
<1>0. call[p].op # "none"  BY DEF execute, AnyInv, AnyTypes
<1>2. /\ ret \in {EAGAIN, EPIPE} \/ (ret \in Nat /\ ret <= regs[p].arg3)
      /\ bytes' \in 0 .. Capacity /\ Moved(ret) \in Nat
  BY <1>0, <1>1, AnyResult
<1>3. /\ tracer[p] \in T /\ tracer \in [Process -> T] /\ regs[p] \in Args
      /\ call[p].moved \in Nat
  BY <1>1 DEF AnyTypes
<1>4. moved \in Nat  BY <1>2, <1>3
<1>5. EAGAIN \in Int /\ EAGAIN < 0 /\ EAGAIN # EPIPE /\ EPIPE < 0 /\ EPIPE \in Int
      /\ EAGAIN # EINVAL /\ TimerSize \in Nat
  BY DEF EAGAIN, EPIPE, EINVAL, TimerSize
<1> HIDE DEF ret, moved
<1>6. ASSUME NEW r, NEW m, r # EAGAIN \/ p \in nonblocking, resetState(p, r, m)
      PROVE  AnyInv'
  <2>1. tracer' = [tracer EXCEPT ![p].firstTry = TRUE, ![p].totalBytes = 0]
    BY <1>6 DEF resetState
  <2>2. tracer' \in [Process -> T]  BY <1>3, <2>1, Zenon
  <2>3. Return(p, r, tracer[p].beforeRetry, m)  BY <1>6 DEF resetState
  <2>4. QED BY <1>1, <1>2, <1>6, <2>2, <2>3, AnyReturn
<1>7. ASSUME negativeResult(p, ret, moved), ret # EAGAIN \/ call[p].op = "readv"
      PROVE  AnyInv'
  BY <1>1, <1>2, <1>3, <1>7, AnyReturn DEF negativeResult
<1>8. ASSUME p \in nonblocking, nonBlockingResult(p, moved)
      PROVE  AnyInv'
  BY <1>6, <1>8 DEF nonBlockingResult
<1>9. ASSUME replaySyscallIfBlocked(p, ret, moved)
      PROVE  AnyInv'
  <2>1. /\ reply' = NoReply /\ call' = [call EXCEPT ![p].moved = moved]
        /\ regs' = regs /\ tracer' = tracer
    BY <1>9 DEF replaySyscallIfBlocked
  <2>2. QED BY <1>0, <1>1, <1>2, <1>3, <1>4, <2>1, AnyReplay, Zenon
<1>10. ASSUME bytesMoved(p, ret, moved), ret >= 0
       PROVE  AnyInv'
  <2> DEFINE total == tracer[p].totalBytes + ret
             before == IF tracer[p].firstTry THEN regs[p] ELSE tracer[p].beforeRetry
             rest == Registers(regs[p].arg2 + ret, regs[p].arg3 - ret)
  <2>1. ret \in Nat /\ ret <= regs[p].arg3  BY <1>2, <1>5, <1>10
  <2>2. total \in Nat /\ before \in Args /\ rest \in Args
    BY <1>3, <2>1 DEF Args, Registers
  <2>3. \/ /\ Return(p, total, before, moved)
           /\ tracer' = [tracer EXCEPT ![p] =
                           [firstTry |-> TRUE, totalBytes |-> 0, beforeRetry |-> before]]
        \/ /\ replaySystemCall(p, rest, moved)
           /\ tracer' = [tracer EXCEPT ![p] =
                           [firstTry |-> FALSE, totalBytes |-> total, beforeRetry |-> before]]
    BY <1>10 DEF bytesMoved
  <2> HIDE DEF total, before, rest
  <2>4. tracer' \in [Process -> T]
    <3> DEFINE t == [firstTry |-> TRUE, totalBytes |-> 0, beforeRetry |-> before]
               u == [firstTry |-> FALSE, totalBytes |-> total, beforeRetry |-> before]
    <3>1. t \in T /\ u \in T  BY <2>2
    <3>2. tracer' = [tracer EXCEPT ![p] = t] \/ tracer' = [tracer EXCEPT ![p] = u]  BY <2>3
    <3> HIDE DEF t, u
    <3>3. QED BY <1>3, <3>1, <3>2
  <2>5. total # EAGAIN  BY <1>5, <2>2
  <2>6. CASE Return(p, total, before, moved)
    BY <1>1, <1>2, <2>4, <2>5, <2>6, AnyReturn
  <2>7. CASE replaySystemCall(p, rest, moved)
    BY <1>0, <1>1, <1>2, <1>4, <2>2, <2>4, <2>7, AnyReplay, Zenon DEF replaySystemCall
  <2>8. QED BY <2>3, <2>6, <2>7
<1>11. CASE call[p].op = "write"
  <2>1. writePost(p, ret, moved)  BY <1>1, <1>11
  <2>2. CASE ret = EAGAIN
    <3>0. ~(ret < 0 /\ ret # EAGAIN) /\ ~(ret >= 0)  BY <1>5, <2>2
    <3>1. IF p \in nonblocking THEN nonBlockingResult(p, moved)
                               ELSE replaySyscallIfBlocked(p, ret, moved)
      BY <2>1, <2>2, <3>0 DEF writePost
    <3>2. QED BY <3>1, <1>8, <1>9
  <2>3. CASE ret < 0 /\ ret # EAGAIN
    <3>0. ret # EAGAIN /\ ~(ret >= 0)  BY <1>2, <1>5, <2>3
    <3>1. negativeResult(p, ret, moved)  BY <2>1, <2>3, <3>0 DEF writePost
    <3>2. QED BY <2>3, <3>1, <1>7
  <2>4. CASE ret >= 0
    <3>1. bytesMoved(p, ret, moved)  BY <1>2, <1>5, <2>1, <2>4 DEF writePost
    <3>2. QED BY <2>4, <3>1, <1>10
  <2>5. QED BY <1>2, <1>5, <2>2, <2>3, <2>4
<1>12. CASE call[p].op = "readv"
  <2>1. negativeResult(p, ret, moved)  BY <1>1, <1>12
  <2>2. QED BY <1>12, <2>1, <1>7
<1>13. CASE call[p].op = "timerfd"
  <2>1. readPost(p, ret, moved)  BY <1>1, <1>13
  <2>2. timerfdRead(p)  BY <1>13, <2>1 DEF readPost
  <2>3. \E r, m : r # EAGAIN /\ resetState(p, r, m)
    <3> DEFINE r == IF regs[p].arg3 >= TimerSize THEN TimerSize ELSE EINVAL
               m == IF regs[p].arg3 >= TimerSize THEN TimerSize ELSE 0
    <3>1. r # EAGAIN  BY <1>5
    <3>2. resetState(p, r, m)  BY <2>2 DEF timerfdRead
    <3>3. QED BY <3>1, <3>2
  <2>4. QED BY <2>3, <1>6
<1>14. CASE call[p].op = "read"
  <2>1. readPost(p, ret, moved)  BY <1>1, <1>14
  <2>2. CASE ret = EAGAIN
    <3>0. ~(ret < 0 /\ ret # EAGAIN) /\ ~(ret >= 0)  BY <1>5, <2>2
    <3>1. IF p \in nonblocking THEN nonBlockingResult(p, moved)
                               ELSE replaySyscallIfBlocked(p, ret, moved)
      BY <1>14, <2>1, <2>2, <3>0 DEF readPost
    <3>2. QED BY <3>1, <1>8, <1>9
  <2>3. CASE ret < 0 /\ ret # EAGAIN
    <3>0. ret # EAGAIN /\ ~(ret >= 0)  BY <1>2, <1>5, <2>3
    <3>1. negativeResult(p, ret, moved)  BY <1>14, <2>1, <2>3, <3>0 DEF readPost
    <3>2. QED BY <2>3, <3>1, <1>7
  <2>4. CASE ret >= 0
    <3>1. bytesMoved(p, ret, moved)  BY <1>2, <1>5, <1>14, <2>1, <2>4 DEF readPost
    <3>2. QED BY <2>4, <3>1, <1>10
  <2>5. QED BY <1>2, <1>5, <2>2, <2>3, <2>4
<1>15. call[p].op \in {"read", "write", "readv", "timerfd"}
  <2>1. call[p].op \in {"none", "read", "write", "readv", "timerfd"}  BY <1>1 DEF AnyTypes
  <2>2. QED BY <1>0, <2>1
<1>16. QED BY <1>11, <1>12, <1>13, <1>14, <1>15

\* Calls and forks, with the constants of either instance of Transfer.
LEMMA AnyEntry ==
  ASSUME AnyInv, NEW p \in Process, NEW q \in Process, NEW n \in Nat,
         NEW op \in {"read", "write", "readv", "timerfd"},
         \/ enter(p, op, n) \/ forked(p, q)
         \/ All!enter(p, op, n) \/ All!forked(p, q)
  PROVE  AnyInv'
<1>1. AnyTypes /\ Registers(0, n) \in Args /\ Registers(0, 0) \in Args
  BY DEF AnyInv, Registers, Args
<1>2. bytes' = bytes /\ reply' = NoReply
  BY DEF enter, forked, All!enter, All!forked, All!NoReply, NoReply
<1>3. EagainOnlyIfAsked'  BY <1>2 DEF EagainOnlyIfAsked, Returned
<1>4. CASE enter(p, op, n) \/ All!enter(p, op, n)
  <2> DEFINE c == [op |-> op, count |-> n, moved |-> 0]
  <2>1. /\ call' = [call EXCEPT ![p] = c]
        /\ regs' = [regs EXCEPT ![p] = Registers(0, n)]
        /\ tracer' = tracer
    BY <1>4 DEF enter, All!enter, All!Registers, Registers
  <2>2. /\ c \in [op : {"none", "read", "write", "readv", "timerfd"}, count : Nat, moved : Nat]
        /\ c.op # "none"
    OBVIOUS
  <2> HIDE DEF c
  <2>3. AnyTypes'  BY <1>1, <1>2, <2>1, <2>2 DEF AnyTypes
  <2>4. QED BY <1>3, <2>3 DEF AnyInv
<1>5. CASE forked(p, q) \/ All!forked(p, q)
  <2> DEFINE T == [firstTry : BOOLEAN, totalBytes : Nat, beforeRetry : Args]
             t == [firstTry |-> FALSE, totalBytes |-> tracer[p].totalBytes,
                   beforeRetry |-> Registers(0, 0)]
  <2>1. /\ call' = call /\ regs' = regs /\ tracer' = [tracer EXCEPT ![q] = t]
    BY <1>5 DEF forked, All!forked, All!Registers, Registers
  <2>2. t \in T  BY <1>1 DEF AnyTypes
  <2> HIDE DEF t
  <2>3. tracer' \in [Process -> T]  BY <1>1, <2>1, <2>2 DEF AnyTypes
  <2>4. AnyTypes'  BY <1>1, <1>2, <2>1, <2>3 DEF AnyTypes
  <2>5. QED BY <1>3, <2>4 DEF AnyInv
<1>6. QED BY <1>4, <1>5

\* An execution of a call depends on no constant that differs between them.
LEMMA SameExecution ==
  ASSUME NEW p \in Process, All!execute(p)
  PROVE  execute(p)
<1> USE DEF Idle, NoReply, Registers, EAGAIN, EPIPE, EINVAL, TimerSize,
            All!Idle, All!NoReply, All!Registers, All!EAGAIN, All!EPIPE, All!EINVAL, All!TimerSize
<1>1. All!kernelResult(p) = kernelResult(p)  BY DEF All!kernelResult, kernelResult, All!Smaller, Smaller
<1>2. \A r : All!kernelMoves(p, r) = kernelMoves(p, r)  BY DEF All!kernelMoves, kernelMoves, All!Moved, Moved
<1>3. \A r, a, m : All!Return(p, r, a, m) = Return(p, r, a, m)  BY DEF All!Return, Return
<1>4. \A r, m : All!resetState(p, r, m) = resetState(p, r, m)
  BY <1>3, Zenon DEF All!resetState, resetState
<1>5. \A r, m : All!replaySyscallIfBlocked(p, r, m) = replaySyscallIfBlocked(p, r, m)
  BY DEF All!replaySyscallIfBlocked, replaySyscallIfBlocked
<1>6. \A a, m : All!replaySystemCall(p, a, m) = replaySystemCall(p, a, m)
  BY DEF All!replaySystemCall, replaySystemCall
<1>7. \A m : All!nonBlockingResult(p, m) = nonBlockingResult(p, m)
  BY <1>4 DEF All!nonBlockingResult, nonBlockingResult
<1>8. \A r, m : All!bytesMoved(p, r, m) = bytesMoved(p, r, m)
  <2> SUFFICES ASSUME NEW r, NEW m PROVE All!bytesMoved(p, r, m) = bytesMoved(p, r, m)
    OBVIOUS
  <2> DEFINE total == tracer[p].totalBytes + r
             before == IF tracer[p].firstTry THEN regs[p] ELSE tracer[p].beforeRetry
             rest == Registers(regs[p].arg2 + r, regs[p].arg3 - r)
  <2>1. All!Return(p, total, before, m) = Return(p, total, before, m)  BY <1>3
  <2>2. All!replaySystemCall(p, rest, m) = replaySystemCall(p, rest, m)  BY <1>6
  <2>3. QED BY <2>1, <2>2 DEF All!bytesMoved, bytesMoved
<1>9. \A r, m : All!negativeResult(p, r, m) = negativeResult(p, r, m)
  BY <1>3 DEF All!negativeResult, negativeResult
<1>10. All!timerfdRead(p) = timerfdRead(p)  BY <1>4 DEF All!timerfdRead, timerfdRead
<1>11. \A r, m : All!readPost(p, r, m) = readPost(p, r, m)
  BY <1>5, <1>7, <1>8, <1>9, <1>10 DEF All!readPost, readPost
<1>12. \A r, m : All!writePost(p, r, m) = writePost(p, r, m)
  BY <1>5, <1>7, <1>8, <1>9, Zenon DEF All!writePost, writePost
<1>13. QED BY <1>1, <1>2, <1>9, <1>11, <1>12 DEF All!execute, execute, All!Moved, Moved

\* Every step of either instance keeps EAGAIN from who did not ask for it.
LEMMA AnyStep ==
  ASSUME AnyInv, Next \/ All!Next \/ UNCHANGED vars
  PROVE  AnyInv'
<1>1. CASE UNCHANGED vars
  <2>1. /\ bytes' = bytes /\ call' = call /\ regs' = regs /\ tracer' = tracer /\ reply' = reply
    BY <1>1 DEF vars
  <2>2. AnyTypes'  BY <2>1 DEF AnyInv, AnyTypes
  <2>3. EagainOnlyIfAsked'  BY <2>1 DEF AnyInv, EagainOnlyIfAsked, Returned
  <2>4. QED BY <2>2, <2>3 DEF AnyInv
<1>2. CASE \E p \in Process : execute(p) \/ All!execute(p)
  BY <1>2, AnyExecution, SameExecution
<1>3. ASSUME NEW p \in Process, NEW op \in {"read", "write", "readv", "timerfd"}, NEW n \in Nat,
             enter(p, op, n) \/ All!enter(p, op, n)
      PROVE  AnyInv'
  BY <1>3, AnyEntry
<1>4. ASSUME NEW p \in Process, NEW q \in Process, forked(p, q) \/ All!forked(p, q)
      PROVE  AnyInv'
  <2>1. 0 \in Nat /\ "read" \in {"read", "write", "readv", "timerfd"}  OBVIOUS
  <2>2. QED BY <1>4, <2>1, AnyEntry
<1>5. ASSUME NEW e, closeEnd(e) \/ All!closeEnd(e)
      PROVE  AnyInv'
  <2>1. /\ bytes' = bytes /\ call' = call /\ regs' = regs /\ tracer' = tracer
        /\ reply' = NoReply
    BY <1>5 DEF closeEnd, All!closeEnd, NoReply, All!NoReply
  <2>2. AnyTypes'  BY <2>1 DEF AnyInv, AnyTypes
  <2>3. EagainOnlyIfAsked'  BY <2>1 DEF EagainOnlyIfAsked, Returned
  <2>4. QED BY <2>2, <2>3 DEF AnyInv
<1>6. 0 .. MaxRequest \subseteq Nat /\ 0 .. 2 \subseteq Nat  BY TransferAssumption
<1>7. QED BY <1>1, <1>2, <1>3, <1>4, <1>5, <1>6 DEF Next, All!Next

\* The invariant holds at the start of either.
LEMMA AnyInitial ==
  ASSUME Init \/ All!Init
  PROVE  AnyInv
<1>1. /\ bytes = 0 /\ call = [p \in Process |-> Idle]
      /\ regs = [p \in Process |-> Registers(0, 0)]
      /\ tracer = [p \in Process |->
                     [firstTry |-> TRUE, totalBytes |-> 0, beforeRetry |-> Registers(0, 0)]]
      /\ reply = NoReply
  BY DEF Init, All!Init, Idle, All!Idle, Registers, All!Registers, NoReply, All!NoReply
<1>2. Registers(0, 0) \in Args  BY DEF Registers, Args
<1>3. bytes \in 0 .. Capacity  BY <1>1, TransferAssumption
<1>4. /\ call \in [Process -> [op : {"none", "read", "write", "readv", "timerfd"},
                               count : Nat, moved : Nat]]
      /\ \A p \in Process : call[p].op = "none" => call[p] = Idle
  BY <1>1 DEF Idle
<1>5. /\ regs \in [Process -> Args]
      /\ tracer \in [Process -> [firstTry : BOOLEAN, totalBytes : Nat, beforeRetry : Args]]
  BY <1>1, <1>2
<1>6. EagainOnlyIfAsked  BY <1>1 DEF EagainOnlyIfAsked, Returned
<1>7. QED BY <1>3, <1>4, <1>5, <1>6 DEF AnyInv, AnyTypes

-----------------------------------------------------------------------------
(* The behaviours that MCBlocking puts together.                           *)

\* The variables of all parts.
mcVars == <<part, vars, waitVars>>

\* Which steps of Transfer those of MCBlocking are.
LEMMA TransferPart ==
  ASSUME [MCNext]_mcVars
  PROVE  /\ Next \/ All!Next \/ UNCHANGED vars
         /\ part' = "transfer" => part = "transfer" /\ [Next]_vars
BY Zenon DEF MCNext, mcVars

\* The invariants, for the parts that keep them.
LEMMA AlwaysTransfer ==
  ASSUME PipesOnly
  PROVE  MCSpec => [](AnyInv /\ (part = "transfer" => TransferInv))
<1> DEFINE I == AnyInv /\ (part = "transfer" => TransferInv)
<1>1. MCInit => I
  BY AnyInitial, TransferInitial, Zenon DEF MCInit
<1>2. I /\ [MCNext]_mcVars => I'
  <2> SUFFICES ASSUME AnyInv, part = "transfer" => TransferInv, [MCNext]_mcVars
               PROVE  AnyInv' /\ (part' = "transfer" => TransferInv')
    OBVIOUS
  <2>1. AnyInv'  BY TransferPart, AnyStep
  <2>2. part' = "transfer" => TransferInv'  BY TransferPart, TransferStep
  <2>3. QED BY <2>1, <2>2
<1>3. MCSpec => MCInit /\ [][MCNext]_mcVars  BY PTL DEF MCSpec, mcVars
<1>4. QED BY <1>1, <1>2, <1>3, PTL

\* Between the executions of a read or a write the registers describe the rest of
\* the tracee's buffer, and in the end they are what the tracee passed.
THEOREM RegistersSafety ==
  ASSUME PipesOnly
  PROVE  MCSpec => []TransferKeepsRegisters
<1>1. (part = "transfer" => TransferInv) => TransferKeepsRegisters
  BY TransferImplies DEF TransferKeepsRegisters, Answers
<1>2. QED BY <1>1, AlwaysTransfer, PTL

\* A read, a write or a readv returns the number of bytes that its executions have
\* moved, or has moved none.
THEOREM ReturnsSafety ==
  ASSUME PipesOnly
  PROVE  MCSpec => []TransferReturnsWhatMoved
<1>1. (part = "transfer" => TransferInv) => TransferReturnsWhatMoved
  BY TransferImplies DEF TransferReturnsWhatMoved, Answers
<1>2. QED BY <1>1, AlwaysTransfer, PTL

\* The portions do not show where calls do not fail; EAGAIN does not show to who did
\* not ask for it, though calls fail, descriptors are inherited and timers are read.
THEOREM PortionsSafety ==
  ASSUME PipesOnly
  PROVE  MCSpec => []TransferHidesPortions
<1>1. AnyInv /\ (part = "transfer" => TransferInv) => TransferHidesPortions
  BY TransferImplies DEF TransferHidesPortions, Answers, AnyInv
<1>2. QED BY <1>1, AlwaysTransfer, PTL
=============================================================================
