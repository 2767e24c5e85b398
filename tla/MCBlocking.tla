----------------------------- MODULE MCBlocking -----------------------------
(***************************************************************************)
(* Calls that block, for model checking: Transfer, with processes that     *)
(* read and write, and Waits, which follows one process.  They share no    *)
(* state.  A behaviour is one of an instance of either, which `part'       *)
(* records; the variables of the other stay at their initial values.  The  *)
(* constants are pipes on which calls keep their promises, and every kind  *)
(* of wait, in any order, with errors.                                     *)
(***************************************************************************)
EXTENDS Transfer, Waits

VARIABLE part

\* Every behaviour of Transfer, which spoils some of what calls promise.
All == INSTANCE Transfer WITH MaxRequest <- 2, Behaviours <- AllBehaviours \ {"readv"}

\* Handlers interrupt a wait and wait themselves.
Interrupted == INSTANCE Waits WITH
  Kinds <- {"poll", "ppoll", "select", "futex", "rt_sigtimedwait", "wait4", "accept4"},
  Retries <- 1, Happenings <- {"signal"}

\* A process that does nothing but wait, with calls that always give way.
Busy == INSTANCE Waits WITH
  Kinds <- {"select", "pselect6", "epoll_wait", "epoll_pwait", "futex"},
  Happenings <- {}

MCInit ==
  \/ part = "transfer" /\ Init /\ WaitsInit
  \/ part = "transfer all" /\ All!Init /\ WaitsInit
  \/ part = "alone" /\ Init /\ WaitsInit
  \/ part = "interrupted" /\ Init /\ Interrupted!WaitsInit
  \/ part = "busy" /\ Init /\ Busy!WaitsInit

MCNext ==
  \/ part = "transfer" /\ Next /\ UNCHANGED <<part, waitVars>>
  \/ part = "transfer all" /\ All!Next /\ UNCHANGED <<part, waitVars>>
  \/ part = "alone" /\ WaitsNext /\ UNCHANGED <<part, vars>>
  \/ part = "interrupted" /\ Interrupted!WaitsNext /\ UNCHANGED <<part, vars>>
  \/ part = "busy" /\ Busy!WaitsNext /\ UNCHANGED <<part, vars>>

\* A process that was preempted is resumed again: the scheduler retries blocked
\* processes for ever, and the others stop at a call that blocks.  Only the busy
\* process is assumed to go on making calls.
MCSpec ==
  /\ MCInit
  /\ [][MCNext]_<<part, vars, waitVars>>
  /\ \A p \in Process : WF_vars(part = "transfer" /\ execute(p))
  /\ WF_waitVars(part = "alone" /\ (executeWait \/ othersRun))
  /\ WF_waitVars(part = "interrupted" /\ (Interrupted!executeWait \/ Interrupted!othersRun))
  /\ WF_waitVars(part = "busy" /\ Busy!WaitsNext)

-----------------------------------------------------------------------------
(* The properties of Transfer, of those behaviours that keep them.         *)

\* However often the hooks execute a call, the tracee sees its argument registers
\* as it passed them: system calls preserve them, and compilers rely on it.  In
\* between they describe the rest of the tracee's buffer.
TransferKeepsRegisters == part = "transfer" => RegistersPreserved /\ RestOfBuffer

\* A call returns the number of bytes that it has moved, or an error and has
\* moved none; a call that is executed again does not forget or count twice.
TransferReturnsWhatMoved == part = "transfer" => ReturnsWhatMoved

\* What a call on a blocking descriptor returns does not depend on the portions
\* in which the other side supplies or takes the bytes: a read ends short only
\* where the data end, a write never.  Nor does the EAGAIN of the pipes that
\* dettrace has made non-blocking show.
TransferHidesPortions ==
  EagainOnlyIfAsked /\ (part = "transfer" => PortionsDoNotShow)

\* A reader whose writers are gone is not left waiting.
ReaderSeesTheEnd ==
  \A p \in Process : part = "transfer" /\ AtTheEnd(p) ~> call[p] = Idle

-----------------------------------------------------------------------------
(* The properties of Waits.                                                *)

\* Whatever timeout flags earlier calls have left in the state, a call that is to
\* wait for ever does not return empty-handed, one that is told not to wait is
\* not executed again (rt_sigtimedwait is), and one that gives up has let the
\* time pass that it was told to wait (futex has not): else a program that waits
\* for a deadline asks again and again.
TimeoutsObeyed == part = "alone" => ForeverIsForever /\ ProbesReturnAtOnce /\ TimePasses

\* A call leaves nothing of itself to the next: the argument register of wait4,
\* waitid, accept4, recvmsg and splice is what the tracee put there, and poll
\* starts with its own timeout and count.
NothingLeftOver == part = "alone" => ArgumentRestored /\ NoStaleRetries

\* A wait ends when it is told when to give up, and once what it waits for is
\* there, though the handlers of signals make calls of their own in between.
WaitsEnd ==
  /\ part = "alone" /\ Timed ~> wait.kind = "none"
  /\ part = "interrupted" /\ wait.kind # "none" /\ ready ~> wait.kind = "none"

\* A process that only polls lets the others run again and again.
OthersRun == part = "busy" ~> turn = "others"
=============================================================================
