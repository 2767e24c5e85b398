------------------------------ MODULE Startup ------------------------------
(***************************************************************************)
(* How dettrace starts and how it ends.                                    *)
(*                                                                         *)
(* dettrace clones the tracer into new namespaces, writes the uid maps for *)
(* it and waits for it (`outer').  The tracer makes two fifos in /tmp for  *)
(* the random devices, forks the first tracee, starts one thread per fifo  *)
(* and only then lets the tracee go.  The tracee mounts the fifos over the *)
(* devices, mounts a tmpfs over /tmp and stops itself until it is traced.  *)
(* The tracer ends in three ways: its loop ends, it catches an exception,  *)
(* or SIGALRM interrupts it, on any of its threads.  Each of them removes  *)
(* the fifos, after unmounting what hides them.                            *)
(*                                                                         *)
(* An action is what one thread does up to the next call that another one  *)
(* can notice.                                                             *)
(***************************************************************************)
EXTENDS Naturals, Sequences

CONSTANTS
  Flags,        \* opts->clone_ns_flags: a subset of {"NEWUSER", "NEWPID", "NEWNS"}
  chroot_dir,   \* BOOLEAN: the caller of the library asks for a chroot
  HostTmp,      \* what is mounted on the host's /tmp: <<>> or <<"host">>
  Behaviours    \* what may go wrong

AllBehaviours ==
  {"set up fails", "log file", "loop fails", "tracee fails", "exec fails",
   "timeout", "uses /tmp", "spurious wakeup"}

Devices == {"random", "urandom"}

VARIABLES
  outer,        \* the process that has called dettrace()
  main,         \* the tracer's main thread
  handler,      \* its handler of SIGALRM
  thread,       \* the thread of each random device
  mutex,        \* who holds thread_mutex of each device
  tracee,       \* the first tracee
  busy,         \* does a tracee use a file below /tmp?
  fifo,         \* the fifos that are in the host's /tmp
  tmp,          \* the file systems mounted on /tmp in the tracer's namespace
  ready,        \* has the tracer written to the pipe?
  exitKill,     \* is PTRACE_O_EXITKILL set?
  killed,       \* has the tracee been sent SIGKILL?
  code,         \* the exit status of the tracee
  status        \* the exit status of the tracer's process

tracerVars == <<main, handler, thread, mutex, ready, exitKill, killed>>
filesVars == <<fifo, tmp>>
traceeVars == <<tracee, busy, code>>
vars == <<outer, tracerVars, filesVars, traceeVars, status>>

Program == 7            \* the exit status of the program
SIGABRT == 6
NoStatus == 99
Ended == {"exited", "killed"}
TracerLives == status = NoStatus

Init ==
  /\ outer = IF "NEWUSER" \in Flags THEN "update_map" ELSE "waitpid"
  /\ main = "child_impl"
  /\ handler = "off"
  /\ thread = [d \in Devices |-> "none"]
  /\ mutex = [d \in Devices |-> "free"]
  /\ tracee = "none" /\ busy = FALSE /\ code = NoStatus
  /\ fifo = {} /\ tmp = HostTmp
  /\ ready = FALSE /\ exitKill = FALSE /\ killed = FALSE
  /\ status = NoStatus

----------------------------------------------------------------------------
(* The end of the tracer's process, however it comes about. *)

\* Every thread is gone.  The kernel takes down the rest of a pid namespace with
\* its first process, and the tracees with a tracer that has set EXITKILL.
GroupEnds(c) ==
  /\ status' = c
  /\ thread' = [d \in Devices |-> "gone"]
  /\ tracee' = IF tracee = "exited" \/ tracee = "none" THEN tracee
               ELSE IF "NEWPID" \in Flags \/ exitKill THEN "killed" ELSE tracee

\* The file that a path below /tmp names is in the host's directory.
Visible == tmp = HostTmp

\* tmpMountedOver is set before anything is mounted and never reset.
tmpMountedOver == "NEWNS" \in Flags

\* umount("/tmp").  EBUSY while a tracee uses the tmpfs; EINVAL if nothing is
\* mounted, or if what is mounted came with a less privileged namespace.
Uncovered(mounted) == SubSeq(mounted, 1, Len(mounted) - 1)

umountTmp ==
  tmp' = IF ~tmpMountedOver \/ tmp = <<>> THEN tmp
         ELSE IF tmp[Len(tmp)] = "tmpfs"
              THEN IF busy /\ tracee \notin Ended THEN tmp ELSE Uncovered(tmp)
              ELSE IF "NEWUSER" \in Flags THEN tmp ELSE Uncovered(tmp)

unlinkPaths_OnlyRandom == fifo' = IF Visible THEN fifo \ {"random"} ELSE fifo

unlinkPaths == fifo' = IF Visible THEN {} ELSE fifo

----------------------------------------------------------------------------
(* The process that has called dettrace(). *)

update_map ==
  /\ outer = "update_map"
  /\ outer' = "waitpid"
  /\ UNCHANGED <<tracerVars, filesVars, traceeVars, status>>

waitpid ==
  /\ outer = "waitpid"
  /\ ~TracerLives
  /\ outer' = "returned"
  /\ UNCHANGED <<tracerVars, filesVars, traceeVars, status>>

----------------------------------------------------------------------------
(* The tracer's main thread. *)

\* What main does next, and what it leaves alone.
MainTo(from, to) == TracerLives /\ main = from /\ main' = to

\* An exception leaves the steps in which a check may fail.
fails ==
  /\ \/ "set up fails" \in Behaviours /\ main \in {"child_impl", "fork", "mount proc"}
     \/ "log file" \in Behaviours /\ main = "execution"
     \/ "loop fails" \in Behaviours /\ main = "runProgram"
  /\ MainTo(main, "catch")
  /\ UNCHANGED <<outer, handler, thread, mutex, ready, exitKill, killed,
                 filesVars, traceeVars, status>>

\* pipe2, and mkstemp, unlink and mkfifo for either device.
mkfifos ==
  /\ MainTo("child_impl", "fork")
  /\ fifo' = Devices
  /\ UNCHANGED <<outer, handler, thread, mutex, ready, exitKill, killed, tmp,
                 traceeVars, status>>

fork ==
  /\ MainTo("fork", "mount proc")
  /\ tracee' = "read"
  /\ UNCHANGED <<outer, handler, thread, mutex, ready, exitKill, killed,
                 filesVars, busy, code, status>>

\* proc, devpts and the checks that the fifos are there.
mountProc ==
  /\ MainTo("mount proc", IF fifo = Devices /\ Visible THEN "create random" ELSE "catch")
  /\ UNCHANGED <<outer, handler, thread, mutex, ready, exitKill, killed,
                 filesVars, traceeVars, status>>

\* Where the main thread is in the constructor of RandThread.
AtCreate(d) == IF d = "random" THEN "create random" ELSE "create urandom"
AtWait(d) == IF d = "random" THEN "wait random" ELSE "wait urandom"
AtWaiting(d) == IF d = "random" THEN "waiting random" ELSE "waiting urandom"
AtWoken(d) == IF d = "random" THEN "woken random" ELSE "woken urandom"

\* The constructor of RandThread holds thread_mutex while it creates the
\* thread, waits for thread_ready, and unlocks.
RandThreadCreate_Unlocked(d) ==
  /\ MainTo(AtCreate(d), AtWait(d))
  /\ thread' = [thread EXCEPT ![d] = "lock"]
  /\ UNCHANGED <<outer, handler, mutex, ready, exitKill, killed,
                 filesVars, traceeVars, status>>

RandThreadCreate(d) ==
  /\ MainTo(AtCreate(d), AtWait(d))
  /\ thread' = [thread EXCEPT ![d] = "lock"]
  /\ mutex' = [mutex EXCEPT ![d] = "main"]
  /\ UNCHANGED <<outer, handler, ready, exitKill, killed,
                 filesVars, traceeVars, status>>

RandThreadWait(d) ==
  /\ MainTo(AtWait(d), AtWaiting(d))
  /\ mutex' = [mutex EXCEPT ![d] = "free"]
  /\ UNCHANGED <<outer, handler, thread, ready, exitKill, killed,
                 filesVars, traceeVars, status>>

\* A wakeup without a signal is one that POSIX allows.
RandThreadReturns(d) ==
  /\ \/ main = AtWoken(d)
     \/ "spurious wakeup" \in Behaviours /\ main = AtWaiting(d)
  /\ mutex[d] = "free"
  /\ MainTo(main, IF d = "random" THEN "create urandom" ELSE "ready")
  /\ UNCHANGED <<outer, handler, thread, mutex, ready, exitKill, killed,
                 filesVars, traceeVars, status>>

writeReady ==
  /\ MainTo("ready", "execution")
  /\ ready' = TRUE
  /\ UNCHANGED <<outer, handler, thread, mutex, exitKill, killed,
                 filesVars, traceeVars, status>>

\* The execution object waits for the tracee's stop, then sets the options.
\* A tracee that has ended instead makes PTRACE_SETOPTIONS fail.
execution ==
  /\ tracee \in {"stopped"} \union Ended
  /\ MainTo("execution", IF tracee = "stopped" THEN "alarm" ELSE "catch")
  /\ exitKill' = (tracee = "stopped")
  /\ UNCHANGED <<outer, handler, thread, mutex, ready, killed,
                 filesVars, traceeVars, status>>

alarm ==
  /\ MainTo("alarm", "runProgram")
  /\ handler' = IF "timeout" \in Behaviours THEN "armed" ELSE handler
  /\ UNCHANGED <<outer, thread, mutex, ready, exitKill, killed,
                 filesVars, traceeVars, status>>

\* The loop ends when the last tracee has.
runProgram ==
  /\ tracee \in Ended
  /\ MainTo("runProgram", "shutdown")
  /\ UNCHANGED <<outer, handler, thread, mutex, ready, exitKill, killed,
                 filesVars, traceeVars, status>>

\* pthread_cancel, which does not wait for the threads.
shutdown ==
  /\ MainTo("shutdown", "umount")
  /\ thread' = [d \in Devices |-> "cancelled"]
  /\ UNCHANGED <<outer, handler, mutex, ready, exitKill, killed,
                 filesVars, traceeVars, status>>

mainUmount ==
  /\ \/ MainTo("umount", "unlink")
     \/ MainTo("catch", "unlink and exit")
  /\ umountTmp
  /\ UNCHANGED <<outer, handler, thread, mutex, ready, exitKill, killed, fifo,
                 traceeVars, status>>

\* After an exception, _exit ends the whole process.
catchExits ==
  /\ MainTo("unlink and exit", "exited")
  /\ unlinkPaths
  /\ GroupEnds(1)
  /\ UNCHANGED <<outer, handler, mutex, ready, exitKill, killed, tmp, busy, code>>

\* Otherwise the function returns, which ends the main thread alone.
mainReturns ==
  /\ MainTo("unlink", "returned")
  /\ unlinkPaths
  /\ UNCHANGED <<outer, handler, thread, mutex, ready, exitKill, killed, tmp,
                 traceeVars, status>>

LastThreadEnds_Zero ==
  /\ TracerLives
  /\ main = "returned"
  /\ \A d \in Devices : thread[d] \in {"none", "gone"}
  /\ GroupEnds(0)
  /\ UNCHANGED <<outer, main, handler, mutex, ready, exitKill, killed, filesVars,
                 busy, code>>

LastThreadEnds ==
  /\ TracerLives
  /\ main = "returned"
  /\ \A d \in Devices : thread[d] \in {"none", "gone"}
  /\ GroupEnds(code)
  /\ UNCHANGED <<outer, main, handler, mutex, ready, exitKill, killed, filesVars,
                 busy, code>>

----------------------------------------------------------------------------
(* sigalrmHandler.  The main thread goes on if another thread runs it. *)

HandlerTo(from, to) == TracerLives /\ handler = from /\ handler' = to

sigalrmKills ==
  /\ HandlerTo("armed", "umount")
  /\ killed' = TRUE
  /\ UNCHANGED <<outer, main, thread, mutex, ready, exitKill, filesVars,
                 traceeVars, status>>

sigalrmUmounts ==
  /\ HandlerTo("umount", "unlink")
  /\ umountTmp
  /\ UNCHANGED <<outer, main, thread, mutex, ready, exitKill, killed, fifo,
                 traceeVars, status>>

sigalrmExits ==
  /\ HandlerTo("unlink", "exited")
  /\ unlinkPaths
  /\ GroupEnds(1)
  /\ UNCHANGED <<outer, main, mutex, ready, exitKill, killed, tmp, busy, code>>

----------------------------------------------------------------------------
(* The thread of a random device. *)

\* Without the fifo sysError throws in the thread, which aborts the process.
runThreadOpens(d) ==
  /\ TracerLives
  /\ thread[d] = "lock"
  /\ mutex[d] = "free"
  /\ IF d \in fifo /\ Visible
     THEN /\ thread' = [thread EXCEPT ![d] = "open"]
          /\ mutex' = [mutex EXCEPT ![d] = "thread"]
          /\ UNCHANGED <<status, tracee>>
     ELSE GroupEnds(SIGABRT) /\ UNCHANGED mutex
  /\ UNCHANGED <<outer, main, handler, ready, exitKill, killed, filesVars, busy, code>>

runThreadSignals(d) ==
  /\ TracerLives
  /\ thread[d] = "open"
  /\ thread' = [thread EXCEPT ![d] = "writes"]
  /\ mutex' = [mutex EXCEPT ![d] = "free"]
  /\ main' = IF main = AtWaiting(d) THEN AtWoken(d) ELSE main
  /\ UNCHANGED <<outer, handler, ready, exitKill, killed, filesVars, traceeVars, status>>

threadCancelled(d) ==
  /\ TracerLives
  /\ thread[d] = "cancelled"
  /\ thread' = [thread EXCEPT ![d] = "gone"]
  /\ UNCHANGED <<outer, main, handler, mutex, ready, exitKill, killed, filesVars,
                 traceeVars, status>>

----------------------------------------------------------------------------
(* The first tracee: runTracee. *)

TraceeTo(from, to) == tracee = from /\ ~killed /\ tracee' = to

readReady_NotWaited ==
  /\ TraceeTo("read", "mount random")
  /\ UNCHANGED <<outer, tracerVars, filesVars, busy, code, status>>

\* The tracee holds the writing end of the pipe too, so that it reads no end of
\* file when the tracer is gone.
readReady ==
  /\ ready
  /\ TraceeTo("read", "mount random")
  /\ UNCHANGED <<outer, tracerVars, filesVars, busy, code, status>>

traceeFails ==
  /\ \/ "tracee fails" \in Behaviours /\ tracee \in {"mount random", "mount tmp"}
     \/ tracee = "mount random" /\ "NEWNS" \in Flags /\ ~(fifo = Devices /\ Visible)
  /\ TraceeTo(tracee, "exited")
  /\ code' = 1
  /\ UNCHANGED <<outer, tracerVars, filesVars, busy, status>>

mountRandom ==
  /\ "NEWNS" \in Flags => fifo = Devices /\ Visible
  /\ TraceeTo("mount random", "mount tmp")
  /\ UNCHANGED <<outer, tracerVars, filesVars, busy, code, status>>

\* After a chroot "/tmp" is not the directory the tracer calls so.
mountTmp ==
  /\ TraceeTo("mount tmp", "stopped")
  /\ tmp' = IF "NEWNS" \in Flags /\ ~chroot_dir THEN Append(tmp, "tmpfs") ELSE tmp
  /\ UNCHANGED <<outer, tracerVars, fifo, busy, code, status>>

resumed ==
  /\ TracerLives /\ main = "runProgram"
  /\ TraceeTo("stopped", "execvpe")
  /\ UNCHANGED <<outer, tracerVars, filesVars, busy, code, status>>

execvpe ==
  /\ TracerLives
  /\ TraceeTo("execvpe", "runs")
  /\ UNCHANGED <<outer, tracerVars, filesVars, busy, code, status>>

\* The tracee sends SIGABRT to its parent and returns 0.  The first process of
\* a pid namespace does not get signals from inside that it does not handle.
execvpeFails ==
  /\ "exec fails" \in Behaviours
  /\ TracerLives
  /\ tracee = "execvpe" /\ ~killed
  /\ IF "NEWPID" \in Flags
     THEN tracee' = "exited" /\ code' = 0 /\ UNCHANGED <<thread, status>>
     ELSE GroupEnds(SIGABRT) /\ UNCHANGED code
  /\ UNCHANGED <<outer, main, handler, mutex, ready, exitKill, killed, filesVars, busy>>

programUsesTmp ==
  /\ "uses /tmp" \in Behaviours
  /\ TraceeTo("runs", "runs")
  /\ busy' = TRUE
  /\ UNCHANGED <<outer, tracerVars, filesVars, code, status>>

programExits ==
  /\ TracerLives
  /\ TraceeTo("runs", "exited")
  /\ code' = Program
  /\ UNCHANGED <<outer, tracerVars, filesVars, busy, status>>

\* SIGKILL takes effect some time after kill() has returned.
traceeDies ==
  /\ killed
  /\ tracee \notin Ended \union {"none"}
  /\ tracee' = "killed"
  /\ code' = SIGABRT
  /\ UNCHANGED <<outer, tracerVars, filesVars, busy, status>>

----------------------------------------------------------------------------

OuterNext == update_map \/ waitpid

MainNext ==
  \/ mkfifos \/ fork \/ mountProc \/ writeReady \/ execution \/ alarm
  \/ runProgram \/ shutdown \/ mainUmount \/ catchExits \/ mainReturns
  \/ LastThreadEnds
  \/ \E d \in Devices :
       RandThreadCreate(d) \/ RandThreadWait(d) \/ RandThreadReturns(d)

HandlerNext == sigalrmKills \/ sigalrmUmounts \/ sigalrmExits

ThreadNext(d) == runThreadOpens(d) \/ runThreadSignals(d) \/ threadCancelled(d)

SetUpNext ==
  readReady \/ mountRandom \/ mountTmp \/ resumed \/ execvpe \/ traceeDies

Next ==
  \/ OuterNext \/ MainNext \/ HandlerNext \/ SetUpNext
  \/ \E d \in Devices : ThreadNext(d)
  \/ fails \/ traceeFails \/ execvpeFails \/ programUsesTmp \/ programExits

Spec == Init /\ [][Next]_vars

----------------------------------------------------------------------------
(* Properties. *)

\* The fifos do not outlive the tracer, whichever of its three ways it ends in
\* (unlinkFifos in _dettrace_child, in sigalrmHandler and after the loop).
FifosRemoved == ~TracerLives => fifo = {}

\* unlinkFifos unmounts the tracee's tmpfs and nothing else, even when two
\* threads run it.
OnlyOwnUnmounted == Len(HostTmp) <= Len(tmp) /\ SubSeq(tmp, 1, Len(HostTmp)) = HostTmp

\* The caller of dettrace sees exit status 0 only if the program has run and
\* returned it, which the program of this model never does.
FailureShows == status # 0

\* By the time the tracee has mounted the fifos over the random devices, the
\* threads that feed them have them open: the handshake of RandThread and the
\* one over the pipe come in this order.
FedWhenMounted ==
  "NEWNS" \in Flags /\ tracee \in {"mount tmp", "stopped", "execvpe", "runs"} =>
    \A d \in Devices : thread[d] \notin {"none", "lock"}

=============================================================================
