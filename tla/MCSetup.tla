------------------------------ MODULE MCSetup ------------------------------
(***************************************************************************)
(* What surrounds a run, for model checking: the options and the mounts    *)
(* (Container), the start and the end (Startup), a random device and its   *)
(* thread (DevRand), and the generator (PRNG).  They share no state.  A    *)
(* behaviour is one of an instance of one of them, which `part' records;   *)
(* the variables of the others stay at their initial values.               *)
(***************************************************************************)
EXTENDS Startup, DevRand, Container

VARIABLES part, lfsr, numbers

generatorVars == <<lfsr, numbers>>

-----------------------------------------------------------------------------
(* Options and mounts.  The constants are the options with which dettrace  *)
(* keeps its promises, and an installation that may lack a file.  In the   *)
(* other parts there is every option, failing mounts and guests that write *)
(* to /etc; and one option, but every path of up to four components.       *)

AllOptions ==
  {"real-proc", "host-userns", "host-pidns", "host-mountns", "host-utsns",
   "in-docker", "already-in-chroot", "volume"}
PlainOptions == AllOptions \ {"already-in-chroot"}

FewPaths == {<<"sys", "node">>, <<"sys", "cpu", "online">>}
ManyPaths == UNION {[1..n -> {"", ".", "..", "sys", "node", "cpu", "node0"}] : n \in 1..4}

-----------------------------------------------------------------------------
(* Start and end.  The constants are a run with namespaces of its own, and *)
(* failures that its handlers expect.                                      *)

Namespaces == {"NEWUSER", "NEWPID", "NEWNS"}
HostMount == <<"host">>

\* Everything goes wrong, but the program ends.
Ending == INSTANCE Startup WITH HostTmp <- <<>>, Behaviours <- AllBehaviours

\* The program may run for ever.
Timeout == INSTANCE Startup WITH Behaviours <- {"tracee fails", "timeout", "uses /tmp"}

\* A run in the host's namespaces.
OnHost == INSTANCE Startup WITH
  Flags <- {}, Behaviours <- {"tracee fails", "loop fails", "timeout", "uses /tmp"}

-----------------------------------------------------------------------------

Generator == INSTANCE PRNG WITH Width <- 16, startingState <- 4660, drawn <- numbers

\* Nothing happens in the parts that a behaviour is not of.
NoRun == ContainerInit /\ install = [f \in Files |-> "canonical"]
NoNumbers == DeviceInit /\ Generator!Init

MCInit ==
  \/ part \in {"options", "any options", "paths"} /\ ContainerInit /\ Init /\ NoNumbers
  \/ part = "failing" /\ NoRun /\ Init /\ NoNumbers
  \/ part = "ending" /\ NoRun /\ Ending!Init /\ NoNumbers
  \/ part = "timeout" /\ NoRun /\ Timeout!Init /\ NoNumbers
  \/ part = "on host" /\ NoRun /\ OnHost!Init /\ NoNumbers
  \/ part \in {"device", "generator"} /\ NoRun /\ Init /\ NoNumbers

RunNext ==
  \/ part = "options" /\ ContainerNext
  \/ part = "any options" /\ Steps(AllOptions, Paths, {"mount fails", "writes /etc"})
  \/ part = "paths" /\ Steps({"host-mountns"}, ManyPaths, {})

StartNext ==
  \/ part = "failing" /\ Next
  \/ part = "ending" /\ Ending!Next
  \/ part = "timeout" /\ Timeout!Next
  \/ part = "on host" /\ OnHost!Next

MCNext ==
  \/ RunNext /\ UNCHANGED <<part, vars, deviceVars, generatorVars>>
  \/ StartNext /\ UNCHANGED <<part, containerVars, deviceVars, generatorVars>>
  \/ part = "device" /\ DeviceNext /\ UNCHANGED <<part, containerVars, vars, generatorVars>>
  \/ part = "generator" /\ Generator!Next /\ UNCHANGED <<part, containerVars, vars, deviceVars>>

\* No process stops by itself before it has done its part.  The program ends by
\* itself, or it does not, and then the timer of alarm() fires.
MCSpec ==
  /\ MCInit
  /\ [][MCNext]_<<part, containerVars, vars, deviceVars, generatorVars>>
  /\ WF_vars(part = "ending" /\ Ending!OuterNext)
  /\ WF_vars(part = "ending" /\ Ending!MainNext)
  /\ WF_vars(part = "ending" /\ (Ending!SetUpNext \/ Ending!traceeFails))
  /\ \A d \in Devices : WF_vars(part = "ending" /\ Ending!ThreadNext(d))
  /\ WF_vars(part = "ending" /\ Ending!programExits)
  /\ WF_vars(part = "timeout" /\ Timeout!OuterNext)
  /\ WF_vars(part = "timeout" /\ Timeout!MainNext)
  /\ WF_vars(part = "timeout" /\ (Timeout!SetUpNext \/ Timeout!traceeFails))
  /\ \A d \in Devices : WF_vars(part = "timeout" /\ Timeout!ThreadNext(d))
  /\ WF_vars(part = "timeout" /\ Timeout!HandlerNext)
  /\ WF_vars(part = "on host" /\ OnHost!MainNext)
  /\ WF_vars(part = "on host" /\ (OnHost!SetUpNext \/ OnHost!traceeFails))
  /\ \A d \in Devices : WF_vars(part = "on host" /\ OnHost!ThreadNext(d))
  /\ WF_vars(part = "on host" /\ OnHost!programExits)

-----------------------------------------------------------------------------
(* The properties of Container. *)

\* Every way to ask for the number of CPUs gives the same answer, so that a
\* guest can pin the threads it decides to start (main.cpp gates the affinity
\* emulation on the mounts), and no way to spell a path gets at the host's CPU
\* topology (isHostCpuTopologyPath).
CpuCountsAgree == NoSpellingEscapes /\ (part = "options" => CountsAgree)

\* No run changes the canonical proc and sysfs files that the next run shows
\* (the read-only remount in runTracee), and a volume that the user asks for is
\* not covered by them (the order of the mounts).
MountsAsAsked == VolumesWin /\ (part = "options" => CanonicalKept)

-----------------------------------------------------------------------------
(* The properties of Startup. *)

\* Whichever of its three ways the tracer ends in (the catch of _dettrace_child,
\* sigalrmHandler, after the loop): the fifos do not outlive it, the tracee's
\* tmpfs and nothing else is unmounted, even when two threads do it, and the
\* caller of dettrace sees exit status 0 only if the program has run and returned
\* it, which the program of this model never does.
EndsCleanly ==
  /\ part = "failing" => FifosRemoved /\ FailureShows
  /\ part \in {"failing", "on host"} => OnlyOwnUnmounted

\* By the time the tracee has mounted the fifos over the random devices, the
\* threads that feed them have them open: the handshake of RandThread and the
\* one over the pipe come in this order.
RandomDevicesFed == part = "failing" => FedWhenMounted

\* The process that waits for the tracer returns: no handshake is missed and
\* no thread keeps the tracer's process alive.
CallerReturns == part \in {"ending", "timeout"} ~> outer = "returned"

\* No tracee stays behind when the tracer is gone.
NoneLeftBehind == part = "on host" /\ ~TracerLives ~> tracee \in Ended \union {"none"}

\* Everyone ends: the caller has its answer, and no tracee is left.
EveryoneEnds == CallerReturns /\ NoneLeftBehind

-----------------------------------------------------------------------------
(* The property of PRNG; the one of DevRand is NumbersInOrder.             *)

\* The numbers that getrandom and the random devices give repeat only after all
\* 2^16 - 1 states of the generator but 0 have been seen.
NumbersRepeatLate == Generator!FullPeriod
=============================================================================
