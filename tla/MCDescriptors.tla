--------------------------- MODULE MCDescriptors ---------------------------
(***************************************************************************)
(* Descriptors for model checking, with two sets of bounds: the ordinary   *)
(* calls with several descriptors and descriptions, and every call there   *)
(* is with one descriptor and a third task.  A behaviour has one of them   *)
(* from its start to its end, which `part' records.                        *)
(***************************************************************************)
EXTENDS Descriptors, TLC

CONSTANTS ThirdTask, OnlyDesc

VARIABLE part

All == INSTANCE Descriptors WITH
  Task <- Task \union {ThirdTask}, Desc <- {OnlyDesc}, MaxFd <- 0,
  Behaviours <- AllBehaviours

\* Tasks and descriptions have no order.
NamesInterchangeable == Permutations(Task) \union Permutations(Desc)

MCInit ==
  \/ part = "ordinary" /\ Init
  \/ part = "all" /\ All!Init

MCNext ==
  \/ part = "ordinary" /\ Next /\ UNCHANGED part
  \/ part = "all" /\ All!Next /\ UNCHANGED part

MCSpec == MCInit /\ [][MCNext]_<<vars, part>>

-----------------------------------------------------------------------------
(* What the ordinary calls keep, and other calls do not.                   *)

\* read, write, recvmsg and accept4 ask fd_is_nonblocking whether EAGAIN is for
\* the tracee.  The answer is what the tracee asked for, for every descriptor of
\* every process and thread, however it was made, copied, passed on or reused,
\* and pipe2 finds no status left over for the descriptors of a new pipe.
OrdinaryStatusAsAsked == part = "ordinary" => StatusAsAsked /\ NoLeftOverStatus

\* read answers for a timer without asking the kernel.  It does so for the
\* descriptors that are timers, and for no others, and timerfd_gettime says that
\* a timer is armed when it is, through whichever descriptor that was done.
OrdinaryTimersKnown == part = "ordinary" => TimersKnown /\ TimersAsSet

\* Tasks with one descriptor table in the kernel have one in the tracer,
\* whatever they call: clone and fork share and copy the two alike.
AlwaysSharedAlike ==
  /\ part = "ordinary" => TablesSharedAlike
  /\ part = "all" => All!TablesSharedAlike
=============================================================================
