--------------------------- MODULE StartupProofs ---------------------------
(***************************************************************************)
(* Proofs about Startup and DevRand.                                       *)
(*                                                                         *)
(* The tracee's random devices are fed before it uses them, and however    *)
(* the tracer ends it removes its fifos, unmounts nothing of the host's,   *)
(* and does not hide a failure.  What tracees read from a random device    *)
(* are the generator's numbers in order.                                   *)
(***************************************************************************)
EXTENDS MCSetup, FiniteSetTheorems, SequenceTheorems, TLAPS

----------------------------------------------------------------------------
(* What is mounted on /tmp. *)

\* The caller's /tmp may be a mount of its own; the tracer may not unmount that
\* when its namespace comes with a new user namespace.
OwnTmp ==
  /\ HostTmp \in {<<>>, <<"host">>}
  /\ "NEWNS" \in Flags => "NEWUSER" \in Flags \/ HostTmp = <<>>

Covered == Append(HostTmp, "tmpfs")

\* The tracee is past its mounts.
Past == {"stopped", "execvpe", "runs"} \union Ended

\* There is one tracee, which covers /tmp once.
TmpInv ==
  /\ main \in {"child_impl", "fork"} => tracee = "none"
  /\ tmp \in {HostTmp, Covered}
  /\ tmp # HostTmp => tracee \in Past /\ "NEWNS" \in Flags

BeginsWith(s, t) == Len(s) <= Len(t) /\ SubSeq(t, 1, Len(s)) = s

\* A sequence with an element appended.
LEMMA Appended ==
  ASSUME NEW S, NEW s \in Seq(S), NEW e \in S
  PROVE  /\ Append(s, e) # s /\ Append(s, e) # <<>>
         /\ Append(s, e)[Len(Append(s, e))] = e /\ Uncovered(Append(s, e)) = s
         /\ BeginsWith(s, s) /\ BeginsWith(s, Append(s, e))
<1> DEFINE t == Append(s, e)
<1>1. t \in Seq(S) /\ Len(t) = Len(s) + 1 /\ \A i \in 1 .. Len(s) : t[i] = s[i]
  OBVIOUS
<1>2. t[Len(s) + 1] = e
  OBVIOUS
<1> HIDE DEF t
<1>3. SubSeq(t, 1, Len(s)) = s
  <2>1. /\ SubSeq(t, 1, Len(s)) \in Seq(S) /\ Len(SubSeq(t, 1, Len(s))) = Len(s)
        /\ \A i \in 1 .. Len(s) : SubSeq(t, 1, Len(s))[i] = t[i]
    BY <1>1
  <2> QED
    BY <1>1, <2>1, SeqEqual
<1>4. Len(s) \in Nat /\ Len(t) - 1 = Len(s) /\ Len(s) <= Len(t)
  BY <1>1
<1>5. t # s /\ t # <<>>
  BY <1>1, <1>4
<1>6. t[Len(t)] = e /\ Uncovered(t) = s
  BY <1>1, <1>2, <1>3, <1>4 DEF Uncovered
<1>7. SubSeq(s, 1, Len(s)) = s
  BY SubSeqFull
<1>8. BeginsWith(s, s) /\ BeginsWith(s, t)
  BY <1>3, <1>4, <1>7 DEF BeginsWith
<1> QED
  BY <1>5, <1>6, <1>8 DEF t

\* The two contents of /tmp differ, and both begin with the host's.
LEMMA TmpFacts ==
  ASSUME OwnTmp
  PROVE  /\ HostTmp # Covered /\ Covered # <<>>
         /\ Covered[Len(Covered)] = "tmpfs" /\ Uncovered(Covered) = HostTmp
         /\ HostTmp # <<>> => HostTmp[Len(HostTmp)] = "host"
         /\ BeginsWith(HostTmp, HostTmp) /\ BeginsWith(HostTmp, Covered)
<1>1. HostTmp \in Seq({"host", "tmpfs"}) /\ "tmpfs" \in {"host", "tmpfs"}
  <2>1. CASE HostTmp = <<>>
    BY <2>1
  <2>2. CASE HostTmp = <<"host">>
    BY <2>2
  <2> QED
    BY <2>1, <2>2 DEF OwnTmp
<1>2. /\ Covered # HostTmp /\ Covered # <<>>
      /\ Covered[Len(Covered)] = "tmpfs" /\ Uncovered(Covered) = HostTmp
      /\ BeginsWith(HostTmp, HostTmp) /\ BeginsWith(HostTmp, Covered)
  BY <1>1, Appended, Zenon DEF Covered
<1>3. HostTmp # <<>> => HostTmp[Len(HostTmp)] = "host"
  BY DEF OwnTmp
<1> QED
  BY <1>2, <1>3

\* umount takes away the tracee's tmpfs or nothing, and nothing keeps it from the
\* former unless a tracee uses a file there.
LEMMA Unmounts ==
  ASSUME OwnTmp, TmpInv, umountTmp
  PROVE  /\ tmp' \in {tmp, HostTmp}
         /\ ~busy => tmp' = HostTmp
<1>1. CASE tmp = HostTmp
  BY <1>1, TmpFacts DEF umountTmp, tmpMountedOver, OwnTmp
<1>2. CASE tmp = Covered
  BY <1>2, TmpFacts DEF umountTmp, tmpMountedOver, TmpInv
<1> QED
  BY <1>1, <1>2 DEF TmpInv

\* Every step either leaves /tmp alone, or is one of the unmounts, or is the
\* tracee's only mount; and the tracee does not go back.
LEMMA TmpSteps ==
  ASSUME TmpInv, [Next]_vars
  PROVE  /\ \/ tmp' = tmp
            \/ umountTmp /\ tracee' = tracee
            \/ /\ tracee = "mount tmp" /\ tracee' = "stopped" /\ "NEWNS" \in Flags
               /\ tmp' = Append(tmp, "tmpfs")
         /\ tracee \in Past => tracee' \in Past
         /\ main' \in {"child_impl", "fork"} => tracee' = "none"
<1>0. main \in {"child_impl", "fork"} => tracee = "none"
  BY DEF TmpInv
<1> USE DEF tracerVars, filesVars, traceeVars, MainTo, HandlerTo, TraceeTo, GroupEnds, Past, Ended
<1>1. CASE OuterNext
  BY <1>0, <1>1, Zenon DEF OuterNext, update_map, waitpid
<1>2. CASE MainNext
  <2>1. CASE mkfifos \/ fork \/ mountProc \/ writeReady \/ execution \/ alarm \/ runProgram
             \/ shutdown
    BY <1>0, <2>1, Zenon DEF mkfifos, fork, mountProc, writeReady, execution, alarm, runProgram, shutdown
  <2>2. CASE mainUmount \/ catchExits \/ mainReturns \/ LastThreadEnds
    BY <1>0, <2>2, Zenon DEF mainUmount, catchExits, mainReturns, LastThreadEnds
  <2>3. ASSUME NEW d \in Devices,
               RandThreadCreate(d) \/ RandThreadWait(d) \/ RandThreadReturns(d)
        PROVE  /\ tmp' = tmp /\ tracee' = tracee
               /\ main' \notin {"child_impl", "fork"}
    BY <2>3, Zenon DEF RandThreadCreate, RandThreadWait, RandThreadReturns, AtWait, AtWaiting
  <2> QED
    BY <1>2, <2>1, <2>2, <2>3, Zenon DEF MainNext
<1>3. CASE HandlerNext
  BY <1>0, <1>3, Zenon DEF HandlerNext, sigalrmKills, sigalrmUmounts, sigalrmExits
<1>4. CASE SetUpNext
  BY <1>0, <1>4, Zenon DEF SetUpNext, readReady, mountRandom, mountTmp, resumed, execvpe, traceeDies
<1>5. ASSUME NEW d \in Devices, ThreadNext(d)
      PROVE  /\ tmp' = tmp /\ (tracee \in Past => tracee' \in Past)
             /\ main' \in {"child_impl", "fork"} => tracee' = "none"
  BY <1>0, <1>5, Zenon DEF ThreadNext, runThreadOpens, runThreadSignals, threadCancelled, AtWoken
<1>6. CASE fails \/ traceeFails \/ execvpeFails \/ programUsesTmp \/ programExits
  BY <1>0, <1>6, Zenon DEF fails, traceeFails, execvpeFails, programUsesTmp, programExits
<1>7. CASE UNCHANGED vars
  BY <1>0, <1>7 DEF vars
<1> QED
  BY <1>1, <1>2, <1>3, <1>4, <1>5, <1>6, <1>7, Zenon DEF Next

\* Every step keeps the invariant of /tmp.
LEMMA TmpStep ==
  ASSUME OwnTmp, TmpInv, [Next]_vars
  PROVE  TmpInv'
<1>1. CASE tmp' = tmp
  BY <1>1, TmpSteps DEF TmpInv
<1>2. CASE umountTmp /\ tracee' = tracee
  BY <1>2, Unmounts, TmpSteps DEF TmpInv
<1>3. CASE /\ tracee = "mount tmp" /\ tracee' = "stopped" /\ "NEWNS" \in Flags
           /\ tmp' = Append(tmp, "tmpfs")
  BY <1>3, TmpSteps, Zenon DEF TmpInv, Past, Ended, Covered
<1> QED
  BY <1>1, <1>2, <1>3, TmpSteps, Zenon

\* Whatever goes wrong, and whoever unmounts when, the host's /tmp is not
\* unmounted.
THEOREM UnmountSafety ==
  ASSUME OwnTmp
  PROVE  Spec => []OnlyOwnUnmounted
<1>1. Init => TmpInv
  BY DEF Init, TmpInv
<1>2. TmpInv /\ [Next]_vars => TmpInv'
  BY TmpStep
<1>3. TmpInv => OnlyOwnUnmounted
  BY TmpFacts DEF TmpInv, OnlyOwnUnmounted, BeginsWith
<1> QED
  BY <1>1, <1>2, <1>3, PTL DEF Spec

----------------------------------------------------------------------------
(* The random devices. *)

\* The thread of a device has its fifo open.
Fed(d) == thread[d] \notin {"none", "lock"}

WithUrandom ==
  {"create urandom", "wait urandom", "waiting urandom", "woken urandom", "ready"}
WithRandom == {"create random", "wait random", "waiting random", "woken random"}
Starting == {"child_impl", "fork", "mount proc"} \union WithRandom \union WithUrandom

\* The two handshakes: the constructor of RandThread returns when the thread has
\* its fifo open, and the tracee goes on when both constructors have returned.
FeedInv ==
  /\ ready \in BOOLEAN
  /\ thread \in [Devices -> {"none", "lock", "open", "writes", "cancelled", "gone"}]
  /\ \A d \in Devices : main = AtWoken(d) => Fed(d)
  /\ \A d \in Devices : thread[d] = "lock" => main \in {AtWait(d), AtWaiting(d)}
  /\ main \in WithUrandom => Fed("random")
  /\ main = "ready" \/ ready = TRUE => \A d \in Devices : Fed(d)
  /\ ready = TRUE => main \notin Starting
  /\ tracee \notin {"none", "read"} \union Ended => ready = TRUE

\* Every step keeps it, if no thread wakes up without a signal.
LEMMA FeedStep ==
  ASSUME "spurious wakeup" \notin Behaviours, FeedInv, [Next]_vars
  PROVE  FeedInv'
<1> USE DEF tracerVars, filesVars, traceeVars, MainTo, HandlerTo, TraceeTo, Ended
<1> USE DEF FeedInv, Fed, Devices, AtCreate, AtWait, AtWaiting, AtWoken,
            Starting, WithRandom, WithUrandom
<1>1. CASE OuterNext
  BY <1>1, Zenon DEF OuterNext, update_map, waitpid
<1>2. CASE MainNext
  <2>1. CASE mkfifos \/ fork \/ mountProc
    BY <2>1, Zenon DEF mkfifos, fork, mountProc
  <2>2. CASE writeReady \/ execution
    BY <2>2, Zenon DEF writeReady, execution
  <2>3. CASE alarm \/ runProgram \/ shutdown
    BY <2>3, Zenon DEF alarm, runProgram, shutdown
  <2>4. CASE mainUmount \/ catchExits \/ mainReturns
    BY <2>4, Zenon DEF mainUmount, catchExits, mainReturns, GroupEnds
  <2>5. CASE LastThreadEnds
    BY <2>5, Zenon DEF LastThreadEnds, GroupEnds
  <2>6. ASSUME NEW d \in Devices, RandThreadCreate(d)
        PROVE  FeedInv'
    BY <2>6, Zenon DEF RandThreadCreate
  <2>7. ASSUME NEW d \in Devices, RandThreadWait(d)
        PROVE  FeedInv'
    BY <2>7, Zenon DEF RandThreadWait
  <2>8. ASSUME NEW d \in Devices, RandThreadReturns(d)
        PROVE  FeedInv'
    BY <2>8, Zenon DEF RandThreadReturns
  <2> QED
    BY <1>2, <2>1, <2>2, <2>3, <2>4, <2>5, <2>6, <2>7, <2>8, Zenon DEF MainNext
<1>3. CASE HandlerNext
  BY <1>3, Zenon DEF HandlerNext, sigalrmKills, sigalrmUmounts, sigalrmExits, GroupEnds
<1>4. CASE SetUpNext
  BY <1>4, Zenon DEF SetUpNext, readReady, mountRandom, mountTmp, resumed, execvpe, traceeDies
<1>5. ASSUME NEW d \in Devices, ThreadNext(d)
      PROVE  FeedInv'
  <2>1. CASE runThreadOpens(d)
    BY <2>1, Zenon DEF runThreadOpens, GroupEnds
  <2>2. CASE runThreadSignals(d)
    BY <2>2, Zenon DEF runThreadSignals
  <2>3. CASE threadCancelled(d)
    BY <2>3, Zenon DEF threadCancelled
  <2> QED
    BY <1>5, <2>1, <2>2, <2>3, Zenon DEF ThreadNext
<1>6. CASE fails \/ traceeFails \/ programUsesTmp \/ programExits
  BY <1>6, Zenon DEF fails, traceeFails, programUsesTmp, programExits
<1>7. CASE execvpeFails
  BY <1>7, Zenon DEF execvpeFails, GroupEnds
<1>8. CASE UNCHANGED vars
  BY <1>8, Zenon DEF vars
<1> QED
  BY <1>1, <1>2, <1>3, <1>4, <1>5, <1>6, <1>7, <1>8, Zenon DEF Next

mcVars == <<part, containerVars, vars, deviceVars, generatorVars>>

\* A step in the part with the expected failures is one of Startup.
LEMMA FailingPart ==
  ASSUME [MCNext]_mcVars, part' = "failing"
  PROVE  part = "failing" /\ [Next]_vars
<1>1. CASE UNCHANGED mcVars
  BY <1>1, Zenon DEF mcVars
<1>2. CASE MCNext
  BY <1>2, Zenon DEF MCNext, StartNext, RunNext
<1> QED
  BY <1>1, <1>2, Zenon

\* The tracee never uses a random device whose thread is not ready, for any set of
\* namespaces, whatever else goes wrong and however the threads interleave.
THEOREM FeedSafety ==
  ASSUME "spurious wakeup" \notin Behaviours
  PROVE  MCSpec => []RandomDevicesFed
<1> DEFINE I == part = "failing" => FeedInv
<1>1. MCInit => I
  <2>1. Init => FeedInv
    BY Zenon DEF Init, FeedInv, Fed, Devices, AtWait, AtWaiting, AtWoken, Starting, WithRandom,
       WithUrandom, Ended
  <2> QED
    BY <2>1, Zenon DEF MCInit
<1>2. I /\ [MCNext]_mcVars => I'
  BY FailingPart, FeedStep, Zenon
<1>3. I => RandomDevicesFed
  BY Zenon DEF FeedInv, RandomDevicesFed, FedWhenMounted, Fed, Ended
<1>4. MCSpec => MCInit /\ [][MCNext]_mcVars
  BY PTL DEF MCSpec, mcVars
<1> QED
  BY <1>1, <1>2, <1>3, <1>4, PTL

----------------------------------------------------------------------------
(* The end. *)

\* What the tracer's ends do not reckon with: an exception while the tracee still
\* mounts (log file), a tracee that keeps its tmpfs busy or cannot execute its
\* program, and wakeups without a signal.
Expected ==
  Behaviours \intersect {"log file", "uses /tmp", "exec fails", "spurious wakeup"} = {}

Looping == {"alarm", "runProgram", "shutdown", "umount", "unlink", "returned"}
Catching == {"catch", "unlink and exit", "exited"}
Unlinking == {"unlink", "unlink and exit"}

\* When the tracer unmounts, the tracee has mounted all that it will, or has not
\* begun and never will; so what the tracer unlinks then is what it made.
StageInv ==
  /\ busy = FALSE /\ killed \in BOOLEAN
  /\ code # 0 /\ status # 0
  /\ handler \in {"off", "armed", "umount", "unlink", "exited"}
  /\ killed # FALSE => handler # "off"
  /\ main \in Starting => handler = "off" /\ tracee \in {"none", "read"} /\ ready # TRUE
  /\ main \in Starting \ {"child_impl"} => fifo = Devices
  /\ main \in Looping => tracee \in Past
  /\ main \in Catching => tracee \in Past \union {"none"} \/ (tracee = "read" /\ ready # TRUE)
  /\ main \in Starting \union Looping \union Catching \union {"execution"}
  /\ handler # "off" => tracee \in Past /\ main \notin {"execution", "alarm"}
  /\ handler = "unlink" \/ main \in Unlinking => tmp = HostTmp
  /\ status # NoStatus \/ main = "returned" => fifo = {}

EndInv == TmpInv /\ FeedInv /\ StageInv

\* Every step keeps it.
LEMMA StageStep ==
  ASSUME OwnTmp, Expected, EndInv, [Next]_vars
  PROVE  StageInv'
<1>0. StageInv
  BY DEF EndInv
<1>T. /\ tmp # HostTmp => tracee \in Past
      /\ main \in {"child_impl", "fork"} => tracee = "none"
  BY DEF EndInv, TmpInv
<1>F. /\ \A d \in Devices : thread[d] = "lock" => main \in {AtWait(d), AtWaiting(d)}
      /\ tracee \notin {"none", "read"} \union Ended => ready = TRUE
      /\ ready \in BOOLEAN
  BY DEF EndInv, FeedInv
<1>U. umountTmp => tmp' = HostTmp
  BY Unmounts DEF EndInv, StageInv
<1>S. ASSUME UNCHANGED <<main, handler, killed, ready, fifo, tmp, tracee, busy, code, status>>
      PROVE  StageInv'
  BY <1>0, <1>S, Zenon DEF StageInv
<1>1. CASE OuterNext
  BY <1>1, <1>S DEF OuterNext, update_map, waitpid, tracerVars, filesVars, traceeVars
<1>9. CASE UNCHANGED vars
  BY <1>9, <1>S DEF vars, tracerVars, filesVars, traceeVars
<1>P. ASSUME tracee \in Past \/ ready = TRUE, tracee' \in Past, code' # 0,
             UNCHANGED <<main, handler, killed, ready, fifo, tmp, busy, status>>
      PROVE  StageInv'
  BY <1>0, <1>P, <1>F, Zenon DEF StageInv, Past, Ended
<1>C. code # 0
  BY <1>0 DEF StageInv
<1> USE DEF tracerVars, filesVars, traceeVars, TraceeTo
<1>R. CASE resumed \/ execvpe \/ programExits
  <2>1. /\ tracee \in Past /\ tracee' \in Past /\ code' \in {code, Program}
        /\ UNCHANGED <<main, handler, killed, ready, fifo, tmp, busy, status>>
    BY <1>R DEF resumed, execvpe, programExits, Past, Ended
  <2>2. code' # 0
    BY <1>C, <2>1 DEF Program
  <2> QED
    BY <1>P, <2>1, <2>2
<1>D. CASE traceeDies
  <2>1. /\ tracee' \in Past /\ code' = 6
        /\ UNCHANGED <<main, handler, killed, ready, fifo, tmp, busy, status>>
    BY <1>D DEF traceeDies, Past, Ended, SIGABRT
  <2>2. killed
    BY <1>D DEF traceeDies
  <2>3. killed # FALSE
    BY <2>2, Zenon
  <2>4. tracee \in Past
    BY <1>0, <2>3 DEF StageInv
  <2> QED
    BY <1>P, <2>1, <2>4
<1>7. CASE traceeFails
  <2>1. /\ tracee \in {"mount random", "mount tmp"} /\ tracee' \in Past
        /\ UNCHANGED <<main, handler, killed, ready, fifo, tmp, busy, status>>
    BY <1>7, Zenon DEF traceeFails, Past, Ended
  <2>2. ready = TRUE
    BY <1>F, <2>1, Zenon DEF Ended
  <2>3. code' # 0
    <3>1. code' = 1
      BY <1>7, Zenon DEF traceeFails
    <3> QED
      BY <3>1
  <2> QED
    BY <1>P, <2>1, <2>2, <2>3, Zenon
<1>8. ~ programUsesTmp /\ ~ execvpeFails
  BY Zenon DEF programUsesTmp, execvpeFails, Expected
<1> USE DEF MainTo, HandlerTo, TracerLives, Past, Ended, NoStatus
<1> USE DEF StageInv, Starting, WithRandom, WithUrandom, Looping, Catching, Unlinking
<1>2. CASE MainNext
  <2>1. CASE mkfifos \/ fork
    BY <1>0, <1>T, <2>1, Zenon DEF mkfifos, fork
  <2>2. CASE mountProc
    BY <1>0, <1>T, <2>2, Zenon DEF mountProc
  <2>3. CASE writeReady
    BY <1>0, <2>3, Zenon DEF writeReady
  <2>4. CASE execution
    BY <1>0, <2>4, Zenon DEF execution
  <2>5. CASE alarm \/ runProgram \/ shutdown
    BY <1>0, <2>5, Zenon DEF alarm, runProgram, shutdown
  <2>6. CASE mainUmount
    BY <1>0, <1>U, <2>6, Zenon DEF mainUmount
  <2>7. CASE catchExits
    BY <1>0, <2>7, Zenon DEF catchExits, GroupEnds, unlinkPaths, Visible
  <2>8. CASE mainReturns
    BY <1>0, <2>8, Zenon DEF mainReturns, unlinkPaths, Visible
  <2>9. CASE LastThreadEnds
    BY <1>0, <2>9, Zenon DEF LastThreadEnds, GroupEnds
  <2>10. ASSUME NEW d \in Devices, RandThreadCreate(d) \/ RandThreadWait(d)
         PROVE  StageInv'
    BY <1>0, <2>10, Zenon DEF RandThreadCreate, RandThreadWait, AtCreate, AtWait, AtWaiting, Devices
  <2>11. ASSUME NEW d \in Devices, RandThreadReturns(d)
         PROVE  StageInv'
    BY <1>0, <2>11, Zenon DEF RandThreadReturns, AtWaiting, AtWoken, Devices
  <2> QED
    BY <1>2, <2>1, <2>2, <2>3, <2>4, <2>5, <2>6, <2>7, <2>8, <2>9, <2>10, <2>11, Zenon DEF MainNext
<1>3. CASE HandlerNext
  <2>1. CASE sigalrmKills
    BY <1>0, <2>1, Zenon DEF sigalrmKills
  <2>2. CASE sigalrmUmounts
    BY <1>0, <1>U, <2>2, Zenon DEF sigalrmUmounts
  <2>3. CASE sigalrmExits
    BY <1>0, <2>3, Zenon DEF sigalrmExits, GroupEnds, unlinkPaths, Visible
  <2> QED
    BY <1>3, <2>1, <2>2, <2>3, Zenon DEF HandlerNext
<1>4. CASE SetUpNext
  <2>1. CASE readReady
    BY <1>0, <1>F, <2>1, Zenon DEF readReady
  <2>2. CASE mountRandom \/ mountTmp
    BY <1>0, <1>F, <2>2, Zenon DEF mountRandom, mountTmp
  <2> QED
    BY <1>4, <1>R, <1>D, <2>1, <2>2, Zenon DEF SetUpNext
<1>5. ASSUME NEW d \in Devices, ThreadNext(d)
      PROVE  StageInv'
  <2>1. CASE runThreadOpens(d)
    <3>1. main \in {AtWait(d), AtWaiting(d)}
      BY <1>F, <2>1 DEF runThreadOpens
    <3>2. main \in Starting \ {"child_impl"}
      BY <3>1, Zenon DEF AtWait, AtWaiting
    <3>3. d \in fifo /\ Visible
      BY <1>0, <1>T, <3>2, Zenon DEF Visible
    <3> QED
      BY <1>0, <2>1, <3>3, Zenon DEF runThreadOpens
  <2>2. CASE runThreadSignals(d)
    <3>1. /\ UNCHANGED <<handler, killed, ready, fifo, tmp, tracee, busy, code, status>>
          /\ main' = main \/ (main = AtWaiting(d) /\ main' = AtWoken(d))
      BY <2>2 DEF runThreadSignals
    <3>2. CASE main' = main
      BY <1>S, <3>1, <3>2, Zenon
    <3>3. CASE main = AtWaiting(d) /\ main' = AtWoken(d)
      <4>1. main \in Starting \ {"child_impl"} /\ main' \in Starting \ {"child_impl"}
        BY <3>3, Zenon DEF AtWaiting, AtWoken
      <4> QED
        BY <1>0, <3>1, <4>1, Zenon
    <3> QED
      BY <3>1, <3>2, <3>3, Zenon
  <2>3. CASE threadCancelled(d)
    BY <1>S, <2>3, Zenon DEF threadCancelled
  <2> QED
    BY <1>5, <2>1, <2>2, <2>3, Zenon DEF ThreadNext
<1>6. CASE fails
  BY <1>0, <1>T, <1>6, Zenon DEF fails, Expected
<1> QED
  BY <1>1, <1>2, <1>3, <1>4, <1>5, <1>6, <1>7, <1>8, <1>9, <1>R, Zenon DEF Next

\* A run in the host's namespaces leaves what is mounted on /tmp alone.
LEMMA OnHostTmp ==
  ASSUME OnHost!Next
  PROVE  tmp' = tmp
<1> USE DEF OnHost!tracerVars, OnHost!filesVars, OnHost!traceeVars
<1>1. OnHost!umountTmp => tmp' = tmp
  BY Zenon DEF OnHost!umountTmp, OnHost!tmpMountedOver
<1>2. CASE OnHost!OuterNext
  BY <1>2, Zenon DEF OnHost!OuterNext, OnHost!update_map, OnHost!waitpid
<1>3. CASE OnHost!MainNext
  <2>1. CASE OnHost!mkfifos \/ OnHost!fork \/ OnHost!mountProc \/ OnHost!writeReady
             \/ OnHost!execution \/ OnHost!alarm \/ OnHost!runProgram \/ OnHost!shutdown
    BY <2>1, Zenon DEF OnHost!mkfifos, OnHost!fork, OnHost!mountProc, OnHost!writeReady,
       OnHost!execution, OnHost!alarm, OnHost!runProgram, OnHost!shutdown
  <2>2. CASE OnHost!mainUmount \/ OnHost!catchExits \/ OnHost!mainReturns \/ OnHost!LastThreadEnds
    BY <1>1, <2>2, Zenon DEF OnHost!mainUmount, OnHost!catchExits, OnHost!mainReturns,
       OnHost!LastThreadEnds
  <2>3. CASE \E d \in OnHost!Devices :
               OnHost!RandThreadCreate(d) \/ OnHost!RandThreadWait(d) \/ OnHost!RandThreadReturns(d)
    BY <2>3, Zenon DEF OnHost!RandThreadCreate, OnHost!RandThreadWait, OnHost!RandThreadReturns
  <2> QED
    BY <1>3, <2>1, <2>2, <2>3, Zenon DEF OnHost!MainNext
<1>4. CASE OnHost!HandlerNext
  BY <1>1, <1>4, Zenon DEF OnHost!HandlerNext, OnHost!sigalrmKills, OnHost!sigalrmUmounts,
     OnHost!sigalrmExits
<1>5. CASE OnHost!SetUpNext
  BY <1>5, Zenon DEF OnHost!SetUpNext, OnHost!readReady, OnHost!mountRandom, OnHost!mountTmp,
     OnHost!resumed, OnHost!execvpe, OnHost!traceeDies
<1>6. CASE \E d \in OnHost!Devices : OnHost!ThreadNext(d)
  BY <1>6, Zenon DEF OnHost!ThreadNext, OnHost!runThreadOpens, OnHost!runThreadSignals,
     OnHost!threadCancelled
<1>7. CASE OnHost!fails \/ OnHost!traceeFails \/ OnHost!execvpeFails \/ OnHost!programUsesTmp
           \/ OnHost!programExits
  BY <1>7, Zenon DEF OnHost!fails, OnHost!traceeFails, OnHost!execvpeFails,
     OnHost!programUsesTmp, OnHost!programExits
<1> QED
  BY <1>2, <1>3, <1>4, <1>5, <1>6, <1>7, Zenon DEF OnHost!Next

\* Whichever of its ways the tracer ends in, and whichever threads race, no fifo
\* is left in the caller's /tmp, nothing of the host's is unmounted, and the exit
\* status is not that of a success.
THEOREM EndSafety ==
  ASSUME OwnTmp, Expected
  PROVE  MCSpec => []EndsCleanly
<1> DEFINE I == (part = "failing" => EndInv) /\ (part = "on host" => tmp = HostTmp)
<1>1. Init => EndInv
  <2>1. Init => TmpInv
    BY DEF Init, TmpInv
  <2>2. Init => FeedInv
    BY Zenon DEF Init, FeedInv, Fed, Devices, AtWait, AtWaiting, AtWoken, Starting, WithRandom,
       WithUrandom, Ended
  <2>3. Init => StageInv
    <3> SUFFICES ASSUME Init
                 PROVE  StageInv
      OBVIOUS
    <3>1. /\ main = "child_impl" /\ handler = "off" /\ tracee = "none" /\ busy = FALSE
          /\ tmp = HostTmp /\ ready = FALSE /\ killed = FALSE /\ code = 99 /\ status = 99
      BY DEF Init, NoStatus
    <3>2. /\ main \in Starting /\ main \notin Starting \ {"child_impl"}
          /\ main \notin Looping /\ main \notin Catching /\ main \notin Unlinking
      BY <3>1 DEF Starting, WithRandom, WithUrandom, Looping, Catching, Unlinking
    <3>3. /\ busy = FALSE /\ killed \in BOOLEAN /\ ~(killed # FALSE) /\ ready # TRUE
      BY <3>1, Zenon
    <3>4. /\ code # 0 /\ status # 0 /\ ~(status # NoStatus \/ main = "returned")
          /\ handler \in {"off", "armed", "umount", "unlink", "exited"}
          /\ tracee \in {"none", "read"}
      BY <3>1 DEF NoStatus
    <3> QED
      BY <3>1, <3>2, <3>3, <3>4, Zenon DEF StageInv
  <2> QED
    BY <2>1, <2>2, <2>3 DEF EndInv
<1>2. EndInv /\ [Next]_vars => EndInv'
  <2>1. "spurious wakeup" \notin Behaviours
    BY Zenon DEF Expected
  <2> QED
    BY <2>1, TmpStep, FeedStep, StageStep, Zenon DEF EndInv
<1>3. MCInit => I
  BY <1>1, Zenon DEF MCInit, OnHost!Init
<1>4. I /\ [MCNext]_mcVars => I'
  <2> SUFFICES ASSUME I, [MCNext]_mcVars
               PROVE  I'
    OBVIOUS
  <2>1. part' = "failing" => EndInv'
    BY <1>2, FailingPart, Zenon
  <2>2. ASSUME part' = "on host"
        PROVE  tmp' = HostTmp
    <3>1. CASE UNCHANGED mcVars
      BY <2>2, <3>1, Zenon DEF mcVars, vars, filesVars
    <3>2. CASE MCNext
      BY <2>2, <3>2, OnHostTmp, Zenon DEF MCNext, StartNext, RunNext
    <3> QED
      BY <3>1, <3>2, Zenon
  <2> QED
    BY <2>1, <2>2, Zenon
<1>5. I => EndsCleanly
  <2>1. EndInv => FifosRemoved /\ FailureShows
    BY Zenon DEF EndInv, StageInv, FifosRemoved, FailureShows, TracerLives
  <2>2. EndInv \/ tmp = HostTmp => OnlyOwnUnmounted
    BY TmpFacts, Zenon DEF EndInv, TmpInv, OnlyOwnUnmounted, BeginsWith
  <2> QED
    BY <2>1, <2>2, Zenon DEF EndsCleanly
<1>6. MCSpec => MCInit /\ [][MCNext]_mcVars
  BY PTL DEF MCSpec, mcVars
<1> QED
  BY <1>3, <1>4, <1>5, <1>6, PTL

----------------------------------------------------------------------------
(* The bytes of a random device. *)

Byte == [number : Nat, half : {1, 2}]

\* Sequences that begin alike have as many generated bytes in that part.
LEMMA GeneratedAlike ==
  ASSUME NEW s, NEW t, NEW i \in Nat, \A j \in 1..i : s[j] = t[j]
  PROVE  Generated(s, i) = Generated(t, i)
<1>1. {j \in 1..i : s[j].number > 0} = {j \in 1..i : t[j].number > 0}
  OBVIOUS
<1> QED
  BY <1>1, Zenon DEF Generated

\* One more byte.
LEMMA GeneratedNext ==
  ASSUME NEW s, NEW i \in Nat
  PROVE  /\ Generated(s, i) \in Nat
         /\ s[i + 1].number > 0 => Generated(s, i + 1) = Generated(s, i) + 1
         /\ ~(s[i + 1].number > 0) => Generated(s, i + 1) = Generated(s, i)
<1> DEFINE G(k) == {j \in 1..k : s[j].number > 0}
<1>1. IsFiniteSet(G(i))
  <2>1. IsFiniteSet(1..i)
    BY FS_Interval
  <2> QED
    BY <2>1, FS_Subset
<1>2. Cardinality(G(i)) \in Nat
  BY <1>1, FS_CardinalityType
<1>3. ASSUME s[i + 1].number > 0
      PROVE  Cardinality(G(i + 1)) = Cardinality(G(i)) + 1
  <2>1. G(i + 1) = G(i) \union {i + 1} /\ i + 1 \notin G(i)
    BY <1>3
  <2> HIDE DEF G
  <2> QED
    BY <1>1, <2>1, FS_AddElement
<1>4. ASSUME ~(s[i + 1].number > 0)
      PROVE  G(i + 1) = G(i)
  BY <1>4
<1> QED
  BY <1>2, <1>3, <1>4 DEF Generated

\* A byte at the end of bytes in order.
LEMMA AppendInOrder ==
  ASSUME NEW s \in Seq(Byte), NEW b \in Byte, InOrder(s),
         b.number > 0 => Generated(s, Len(s)) + 1 = 2 * (b.number - 1) + b.half
  PROVE  /\ InOrder(Append(s, b))
         /\ b.number > 0 =>
              Generated(Append(s, b), Len(Append(s, b))) = Generated(s, Len(s)) + 1
         /\ ~(b.number > 0) =>
              Generated(Append(s, b), Len(Append(s, b))) = Generated(s, Len(s))
<1> DEFINE t == Append(s, b)
<1>1. t \in Seq(Byte) /\ Len(t) = Len(s) + 1 /\ Len(s) \in Nat
  OBVIOUS
<1>2. t[Len(s) + 1] = b /\ \A j \in 1..Len(s) : t[j] = s[j]
  OBVIOUS
<1> HIDE DEF t
<1>3. \A i \in 1..Len(s) : Generated(t, i) = Generated(s, i)
  <2> TAKE i \in 1..Len(s)
  <2>1. i \in Nat /\ \A j \in 1..i : t[j] = s[j]
    BY <1>1, <1>2
  <2> QED
    BY <2>1, GeneratedAlike
<1>4. Generated(t, Len(s)) = Generated(s, Len(s))
  BY <1>1, <1>2, GeneratedAlike
<1>5. /\ b.number > 0 => Generated(t, Len(t)) = Generated(s, Len(s)) + 1
      /\ ~(b.number > 0) => Generated(t, Len(t)) = Generated(s, Len(s))
  <2>1. /\ t[Len(s) + 1].number > 0 => Generated(t, Len(s) + 1) = Generated(t, Len(s)) + 1
        /\ ~(t[Len(s) + 1].number > 0) => Generated(t, Len(s) + 1) = Generated(t, Len(s))
    BY <1>1, GeneratedNext
  <2> QED
    BY <1>1, <1>2, <1>4, <2>1
<1>6. InOrder(t)
  <2> SUFFICES ASSUME NEW i \in 1..Len(t), t[i].number > 0
               PROVE  Generated(t, i) = 2 * (t[i].number - 1) + t[i].half
    BY DEF InOrder
  <2>1. CASE i \in 1..Len(s)
    <3>1. t[i] = s[i] /\ Generated(t, i) = Generated(s, i)
      BY <1>2, <1>3, <2>1
    <3>2. Generated(s, i) = 2 * (s[i].number - 1) + s[i].half
      BY <2>1, <3>1 DEF InOrder
    <3> QED
      BY <3>1, <3>2
  <2>2. CASE i = Len(t)
    <3>1. t[i] = b
      BY <1>1, <1>2, <2>2
    <3> QED
      BY <1>5, <2>2, <3>1
  <2> QED
    BY <1>1, <2>1, <2>2
<1> QED
  BY <1>5, <1>6 DEF t

\* What comes first of bytes in order is in order.
LEMMA PrefixInOrder ==
  ASSUME NEW s \in Seq(Byte), NEW t \in Seq(Byte), InOrder(s \o t)
  PROVE  InOrder(s)
<1> DEFINE u == s \o t
<1>1. Len(s) \in Nat /\ Len(t) \in Nat /\ Len(u) = Len(s) + Len(t) /\ \A j \in 1..Len(s) : u[j] = s[j]
  OBVIOUS
<1> HIDE DEF u
<1> SUFFICES ASSUME NEW i \in 1..Len(s), s[i].number > 0
             PROVE  Generated(s, i) = 2 * (s[i].number - 1) + s[i].half
  BY DEF InOrder
<1>2. i \in Nat /\ i \in 1..Len(u) /\ u[i] = s[i] /\ \A j \in 1..i : u[j] = s[j]
  BY <1>1
<1>3. Generated(u, i) = Generated(s, i)
  BY <1>2, GeneratedAlike
<1>4. Generated(u, i) = 2 * (u[i].number - 1) + u[i].half
  BY <1>2 DEF InOrder, u
<1> QED
  BY <1>2, <1>3, <1>4

\* Bytes on their way: those read, and those in the fifo.
LEMMA Regroup ==
  ASSUME NEW s \in Seq(Byte), NEW t \in Seq(Byte)
  PROVE  /\ \A b \in Byte : s \o Append(t, b) = Append(s \o t, b)
         /\ \A a, b \in Byte : t \o <<a, b>> = Append(Append(t, a), b)
         /\ \A k \in 0..Len(t) :
              /\ SubSeq(t, 1, k) \in Seq(Byte) /\ SubSeq(t, k + 1, Len(t)) \in Seq(Byte)
              /\ (s \o SubSeq(t, 1, k)) \o SubSeq(t, k + 1, Len(t)) = s \o t
<1>1. ASSUME NEW b \in Byte
      PROVE  s \o Append(t, b) = Append(s \o t, b)
  <2> DEFINE l == s \o Append(t, b)
             r == Append(s \o t, b)
  <2>1. l \in Seq(Byte) /\ r \in Seq(Byte) /\ Len(l) = Len(r)
    OBVIOUS
  <2>2. \A i \in 1..Len(l) : l[i] = r[i]
    OBVIOUS
  <2> HIDE DEF l, r
  <2>3. l = r
    BY <2>1, <2>2, SeqEqual
  <2> QED
    BY <2>3 DEF l, r
<1>2. ASSUME NEW a \in Byte, NEW b \in Byte
      PROVE  t \o <<a, b>> = Append(Append(t, a), b)
  <2> DEFINE l == t \o <<a, b>>
             r == Append(Append(t, a), b)
  <2>1. l \in Seq(Byte) /\ r \in Seq(Byte) /\ Len(l) = Len(r)
    OBVIOUS
  <2>2. \A i \in 1..Len(l) : l[i] = r[i]
    OBVIOUS
  <2> HIDE DEF l, r
  <2>3. l = r
    BY <2>1, <2>2, SeqEqual
  <2> QED
    BY <2>3 DEF l, r
<1>3. ASSUME NEW k \in 0..Len(t)
      PROVE  /\ SubSeq(t, 1, k) \in Seq(Byte) /\ SubSeq(t, k + 1, Len(t)) \in Seq(Byte)
             /\ (s \o SubSeq(t, 1, k)) \o SubSeq(t, k + 1, Len(t)) = s \o t
  <2> DEFINE front == SubSeq(t, 1, k)
             rest == SubSeq(t, k + 1, Len(t))
  <2>1. front \in Seq(Byte) /\ Len(front) = k /\ \A i \in 1..k : front[i] = t[i]
    OBVIOUS
  <2>2. /\ rest \in Seq(Byte) /\ Len(rest) = Len(t) - k
        /\ \A i \in 1..(Len(t) - k) : rest[i] = t[k + i]
    OBVIOUS
  <2> HIDE DEF front, rest
  <2> DEFINE h == s \o front
             l == h \o rest
             r == s \o t
  <2>3. /\ h \in Seq(Byte) /\ Len(h) = Len(s) + k
        /\ \A i \in 1..Len(h) : h[i] = IF i <= Len(s) THEN s[i] ELSE t[i - Len(s)]
    BY <2>1
  <2> HIDE DEF h
  <2>4. /\ l \in Seq(Byte) /\ Len(l) = Len(s) + Len(t)
        /\ \A i \in 1..Len(l) : l[i] = IF i <= Len(h) THEN h[i] ELSE rest[i - Len(h)]
    <3>1. /\ l \in Seq(Byte) /\ Len(l) = Len(h) + Len(rest)
          /\ \A i \in 1..Len(h) + Len(rest) : l[i] = IF i <= Len(h) THEN h[i] ELSE rest[i - Len(h)]
      BY <2>2, <2>3, ConcatProperties, Zenon
    <3>2. Len(h) + Len(rest) = Len(s) + Len(t)
      BY <2>2, <2>3
    <3> HIDE DEF l
    <3> QED
      BY <3>1, <3>2
  <2>5. /\ r \in Seq(Byte) /\ Len(r) = Len(s) + Len(t)
        /\ \A i \in 1..Len(r) : r[i] = IF i <= Len(s) THEN s[i] ELSE t[i - Len(s)]
    BY ConcatProperties
  <2> HIDE DEF l, r
  <2>6. ASSUME NEW i \in 1..Len(l)
        PROVE  l[i] = r[i]
    <3>1. CASE i <= Len(h)
      <4>1. i \in 1..Len(h) /\ l[i] = h[i] /\ i \in 1..Len(r)
        BY <2>3, <2>4, <2>5, <3>1
      <4> QED
        BY <2>3, <2>5, <4>1
    <3>2. CASE ~(i <= Len(h))
      <4>1. i - Len(h) \in 1..(Len(t) - k) /\ k + (i - Len(h)) = i - Len(s) /\ ~(i <= Len(s))
        BY <2>3, <2>4, <3>2
      <4> QED
        BY <2>2, <2>4, <2>5, <3>2, <4>1, Zenon
    <3> QED
      BY <3>1, <3>2
  <2>7. l = r
    BY <2>4, <2>5, <2>6, SeqEqual
  <2> QED
    BY <2>1, <2>2, <2>7, Zenon DEF l, r, h, front, rest
<1> QED
  BY <1>1, <1>2, <1>3, Zenon

\* The bytes on their way to the tracees, read or not, are in order, and are
\* those of all numbers drawn but one that is still to be written.
Written == IF getNewRandom = TRUE THEN drawn ELSE drawn - 1

OrderInv ==
  /\ drawn \in Nat /\ getNewRandom \in BOOLEAN
  /\ getNewRandom # TRUE => drawn > 0
  /\ bytes \in Seq(Byte) /\ got \in Seq(Byte)
  /\ InOrder(got \o bytes)
  /\ Generated(got \o bytes, Len(got \o bytes)) = 2 * Written

\* The number of a write follows those written.
LEMMA RandomNext ==
  ASSUME OrderInv
  PROVE  Random = Written + 1 /\ Random \in Nat /\ Random > 0 /\ Written \in Nat
<1>1. CASE getNewRandom = TRUE
  <2>1. Random = drawn + 1
    BY <1>1, Zenon DEF Random
  <2>2. Written = drawn /\ drawn \in Nat
    BY <1>1 DEF OrderInv, Written
  <2> QED
    BY <2>1, <2>2
<1>2. CASE getNewRandom = FALSE
  <2>1. Random = drawn
    BY <1>2, Zenon DEF Random
  <2>2. Written = drawn - 1 /\ drawn \in Nat /\ drawn > 0
    BY <1>2, Zenon DEF OrderInv, Written
  <2> QED
    BY <2>1, <2>2
<1> QED
  BY <1>1, <1>2, Zenon DEF OrderInv

\* The thread puts both bytes of the next number at the end.
LEMMA WriteKeepsOrder ==
  ASSUME OrderInv, runThread
  PROVE  OrderInv'
<1> DEFINE a == [number |-> Random, half |-> 1]
           b == [number |-> Random, half |-> 2]
           s == got \o bytes
<1>1. Random = Written + 1 /\ Random \in Nat /\ Random > 0 /\ Written \in Nat
  BY RandomNext
<1>2. a \in Byte /\ b \in Byte /\ a.number = Random /\ b.number = Random /\ a.half = 1 /\ b.half = 2
  BY <1>1 DEF Byte
<1>3. bytes' = bytes \o <<a, b>> /\ got' = got /\ drawn' = Random /\ getNewRandom' = TRUE
  BY DEF runThread, Halves
<1>4. s \in Seq(Byte) /\ InOrder(s) /\ Generated(s, Len(s)) = 2 * Written
  BY DEF OrderInv
<1>5. bytes \in Seq(Byte) /\ got \in Seq(Byte)
  BY DEF OrderInv
<1> HIDE DEF a, b
<1>6. bytes' = Append(Append(bytes, a), b)
  BY <1>2, <1>3, <1>5, Regroup
<1>7. Append(bytes, a) \in Seq(Byte) /\ bytes' \in Seq(Byte)
  BY <1>2, <1>5, <1>6
<1>8. got' \o bytes' = Append(Append(s, a), b)
  <2>1. got \o Append(Append(bytes, a), b) = Append(got \o Append(bytes, a), b)
    BY <1>2, <1>5, <1>7, Regroup
  <2>2. got \o Append(bytes, a) = Append(got \o bytes, a)
    BY <1>2, <1>5, Regroup
  <2> QED
    BY <1>3, <1>6, <2>1, <2>2, Zenon
<1> HIDE DEF s
<1>9. /\ InOrder(Append(s, a))
      /\ Generated(Append(s, a), Len(Append(s, a))) = 2 * Written + 1
  <2>1. Generated(s, Len(s)) + 1 = 2 * (a.number - 1) + a.half
    BY <1>1, <1>2, <1>4
  <2> QED
    BY <1>1, <1>2, <1>4, <2>1, AppendInOrder
<1>10. Append(s, a) \in Seq(Byte)
  BY <1>2, <1>4
<1> DEFINE t == Append(s, a)
<1> HIDE DEF t
<1>11. InOrder(Append(t, b)) /\ Generated(Append(t, b), Len(Append(t, b))) = 2 * Written + 2
  <2>1. t \in Seq(Byte) /\ InOrder(t) /\ Generated(t, Len(t)) = 2 * Written + 1
    BY <1>9, <1>10 DEF t
  <2>2. Generated(t, Len(t)) + 1 = 2 * (b.number - 1) + b.half
    BY <1>1, <1>2, <2>1
  <2>3. /\ InOrder(Append(t, b))
        /\ Generated(Append(t, b), Len(Append(t, b))) = Generated(t, Len(t)) + 1
    BY <1>1, <1>2, <2>1, <2>2, AppendInOrder, Zenon
  <2> QED
    BY <1>1, <2>1, <2>3
<1>12. got' \o bytes' = Append(t, b)
  BY <1>8 DEF t
<1>13. Written' = Written + 1
  BY <1>1, <1>3 DEF Written
<1>14. InOrder(got' \o bytes') /\ Generated(got' \o bytes', Len(got' \o bytes')) = 2 * Written'
  BY <1>1, <1>11, <1>12, <1>13
<1> QED
  BY <1>1, <1>3, <1>5, <1>7, <1>14, Zenon DEF OrderInv, InOrder, Generated

\* A step that leaves the bytes on their way alone.
LEMMA OthersKeepOrder ==
  ASSUME OrderInv,
         got' \o bytes' = got \o bytes, got' \in Seq(Byte), bytes' \in Seq(Byte),
         drawn' \in Nat, getNewRandom' \in BOOLEAN, getNewRandom' # TRUE => drawn' > 0,
         Written' = Written
  PROVE  OrderInv'
<1>1. InOrder(got' \o bytes') /\ Generated(got' \o bytes', Len(got' \o bytes')) = 2 * Written'
  BY DEF OrderInv
<1> QED
  BY <1>1, Zenon DEF OrderInv, InOrder, Generated

\* Whatever the capacity of the fifo, the sizes of the reads, errors of the
\* thread's writes, and bytes that tracees write to the device themselves: the
\* tracees read the generator's numbers in order, each once.
THEOREM NumbersSafety ==
  DeviceSpec => []NumbersInOrder
<1>1. DeviceInit => OrderInv
  <2> SUFFICES ASSUME DeviceInit PROVE OrderInv
    OBVIOUS
  <2>1. got = <<>> /\ bytes = <<>> /\ drawn = 0 /\ getNewRandom = TRUE
    BY DEF DeviceInit
  <2>2. <<>> \in Seq(Byte) /\ got \o bytes = <<>> /\ Len(<<>>) = 0
    BY <2>1
  <2>3. {j \in 1..0 : (got \o bytes)[j].number > 0} = {}
    OBVIOUS
  <2>4. Generated(got \o bytes, 0) = 0
    BY <2>3, FS_EmptySet DEF Generated
  <2>5. Generated(got \o bytes, Len(got \o bytes)) = 0
    BY <2>2, <2>4
  <2>6. InOrder(got \o bytes)
    BY <2>2 DEF InOrder
  <2> QED
    BY <2>1, <2>2, <2>5, <2>6 DEF OrderInv, Written
<1>2. OrderInv /\ [DeviceNext]_deviceVars => OrderInv'
  <2> SUFFICES ASSUME OrderInv, [DeviceNext]_deviceVars PROVE OrderInv'
    OBVIOUS
  <2>1. bytes \in Seq(Byte) /\ got \in Seq(Byte) /\ drawn \in Nat /\ getNewRandom \in BOOLEAN
    BY DEF OrderInv
  <2>2. CASE runThread
    BY <2>2, WriteKeepsOrder
  <2>3. CASE runThreadError
    <3>1. got' = got /\ bytes' = bytes /\ drawn' = Random /\ getNewRandom' = FALSE
      BY <2>3 DEF runThreadError
    <3>2. Random \in Nat /\ Random > 0 /\ Random = Written + 1 /\ Written \in Nat
      BY RandomNext
    <3>3. Written' = Written
      BY <3>1, <3>2 DEF Written
    <3> QED
      BY <2>1, <3>1, <3>2, <3>3, OthersKeepOrder, Zenon
  <2>4. CASE opensDevice \/ closesDevice \/ UNCHANGED deviceVars
    <3>1. got' = got /\ bytes' = bytes /\ drawn' = drawn /\ getNewRandom' = getNewRandom
      BY <2>4 DEF opensDevice, closesDevice, threadHoldsFifo, deviceVars
    <3>2. Written' = Written
      BY <3>1 DEF Written
    <3>3. getNewRandom # TRUE => drawn > 0
      BY DEF OrderInv
    <3> QED
      BY <2>1, <3>1, <3>2, <3>3, OthersKeepOrder, Zenon
  <2>5. CASE \E n \in 1..MaxRequest : readsDevice(n)
    <3>1. PICK n \in 1..MaxRequest : readsDevice(n)
      BY <2>5
    <3>2. n \in Int /\ n > 0 /\ Len(bytes) \in Nat
      BY <2>1
    <3> DEFINE k == IF n < Len(bytes) THEN n ELSE Len(bytes)
    <3>3. k \in 0..Len(bytes)
      BY <3>2
    <3>4. /\ got' = got \o SubSeq(bytes, 1, k) /\ bytes' = SubSeq(bytes, k + 1, Len(bytes))
          /\ drawn' = drawn /\ getNewRandom' = getNewRandom
      BY <3>1 DEF readsDevice
    <3> HIDE DEF k
    <3>5. /\ SubSeq(bytes, 1, k) \in Seq(Byte) /\ SubSeq(bytes, k + 1, Len(bytes)) \in Seq(Byte)
          /\ (got \o SubSeq(bytes, 1, k)) \o SubSeq(bytes, k + 1, Len(bytes)) = got \o bytes
      BY <2>1, <3>3, Regroup, Zenon
    <3>6. got' \in Seq(Byte) /\ bytes' \in Seq(Byte) /\ got' \o bytes' = got \o bytes
      <4>1. got' \o bytes' = got \o bytes
        BY <3>4, <3>5, Zenon
      <4>2. got' \in Seq(Byte)
        BY <2>1, <3>4, <3>5, ConcatProperties
      <4> QED
        BY <3>4, <3>5, <4>1, <4>2, Zenon
    <3>7. Written' = Written /\ (getNewRandom # TRUE => drawn > 0)
      BY <3>4, Zenon DEF Written, OrderInv
    <3> QED
      BY <2>1, <3>4, <3>6, <3>7, OthersKeepOrder, Zenon
  <2>6. CASE writesDevice
    <3>1. /\ bytes' = Append(bytes, TraceeByte) /\ got' = got
          /\ drawn' = drawn /\ getNewRandom' = getNewRandom
      BY <2>6, Zenon DEF writesDevice
    <3>2. TraceeByte \in Byte /\ ~(TraceeByte.number > 0)
      BY DEF TraceeByte, Byte
    <3>3. /\ got \o Append(bytes, TraceeByte) = Append(got \o bytes, TraceeByte)
          /\ got \o bytes \in Seq(Byte)
      BY <2>1, <3>2, Regroup
    <3> DEFINE s == got \o bytes
    <3>4. InOrder(s) /\ s \in Seq(Byte) /\ Generated(s, Len(s)) = 2 * Written
      BY <3>3 DEF OrderInv
    <3> HIDE DEF s
    <3>5. /\ InOrder(Append(s, TraceeByte))
          /\ Generated(Append(s, TraceeByte), Len(Append(s, TraceeByte))) = 2 * Written
      BY <3>2, <3>4, AppendInOrder
    <3>6. got' \o bytes' = Append(s, TraceeByte) /\ Written' = Written
      BY <3>1, <3>3 DEF s, Written
    <3>7. InOrder(got' \o bytes') /\ Generated(got' \o bytes', Len(got' \o bytes')) = 2 * Written'
      BY <3>5, <3>6
    <3>8. bytes' \in Seq(Byte)
      BY <2>1, <3>1, <3>2
    <3>9. getNewRandom # TRUE => drawn > 0
      BY DEF OrderInv
    <3> QED
      BY <2>1, <3>1, <3>7, <3>8, <3>9, Zenon DEF OrderInv, InOrder, Generated
  <2> QED
    BY <2>2, <2>3, <2>4, <2>5, <2>6 DEF DeviceNext
<1>3. OrderInv => NumbersInOrder
  BY PrefixInOrder DEF OrderInv, NumbersInOrder
<1> QED
  BY <1>1, <1>2, <1>3, PTL DEF DeviceSpec
=============================================================================
