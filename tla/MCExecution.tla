---------------------------- MODULE MCExecution -----------------------------
(***************************************************************************)
(* What tracees do in the runs of Execution.                               *)
(***************************************************************************)
EXTENDS Execution

Ordinary == {"fork", "vfork", "thread", "block", "exit", "exit_group", "execve"}
Threads == Ordinary \ {"vfork"}
ForkAndExit == {"fork", "block", "exit"}
ThreadsAndExits == {"thread", "block", "exit", "exit_group"}
ThreadsAndSignals == {"thread", "block", "fatal signal"}
=============================================================================
