---------------------------- MODULE VirtualFiles ----------------------------
(***************************************************************************)
(* What dettrace promises about files, without the host's inodes: a file   *)
(* is known by the order in which it was created, its virtual inode by the *)
(* order in which files were created or asked about, and its time by the   *)
(* logical clock of the tracee that last created or truncated it.  Nothing *)
(* here but the entry of a socket made by bind depends on a choice of the  *)
(* host: two runs in which tracees do the same are told the same.          *)
(***************************************************************************)
EXTENDS Naturals

CONSTANTS Process, epoch, Second,
          old      \* the time of every file from before the run

VARIABLES program, \* what tracees do besides the calls that are safe
          files,   \* how many files there have been
          table,   \* the files that exist, with what is known about them
          fresh,   \* the next virtual inode
          clock, reply

vars == <<program, files, table, fresh, clock, reply>>

Unknown == 0
NoReply == [st_ino |-> Unknown]

Init ==
  /\ program \subseteq {"bind", "creat truncates"}
  /\ files = 1
  /\ table = {[file |-> 1, ino |-> Unknown, mtime |-> Unknown]}
  /\ fresh = 1
  /\ clock = [p \in Process |-> epoch]
  /\ reply = NoReply

Tick(p) == clock' = [clock EXCEPT ![p] = @ + 1]

Create(p) ==
  /\ files' = files + 1
  /\ table' = table \cup {[file |-> files + 1, ino |-> fresh, mtime |-> clock[p]]}
  /\ fresh' = fresh + 1
  /\ Tick(p)
  /\ reply' = NoReply

(* A socket made by bind: what is known about it is what was known about   *)
(* some earlier file, or nothing.                                          *)
Appear ==
  /\ "bind" \in program
  /\ files' = files + 1
  /\ \E e \in table' : e.file = files + 1 /\ e.ino < fresh /\ table' = table \cup {e}
  /\ reply' = NoReply
  /\ UNCHANGED <<fresh, clock>>

Truncate(p, e) ==
  /\ table' = (table \ {e}) \cup {[e EXCEPT !.mtime = clock[p]]}
  /\ Tick(p)
  /\ reply' = NoReply
  /\ UNCHANGED <<files, fresh>>

(* creat of a file that exists takes it for a new one.                     *)
Renumber(p, e) ==
  /\ "creat truncates" \in program
  /\ table' = (table \ {e}) \cup {[file |-> e.file, ino |-> fresh, mtime |-> clock[p]]}
  /\ fresh' = fresh + 1
  /\ Tick(p)
  /\ reply' = NoReply
  /\ UNCHANGED files

(* Files that have lost their last name and descriptor.                    *)
Vanish(S) ==
  /\ table' = table \ S
  /\ reply' = NoReply
  /\ UNCHANGED <<files, fresh, clock>>

Seconds(t) == (IF t = Unknown THEN old ELSE t) \div Second

Report(p, e) ==
  LET ino == IF e.ino = Unknown THEN fresh ELSE e.ino IN
  /\ reply' = [by |-> p, number |-> e.file, st_ino |-> ino, st_mtime |-> Seconds(e.mtime)]
  /\ table' = (table \ {e}) \cup {[e EXCEPT !.ino = ino]}
  /\ fresh' = IF e.ino = Unknown THEN fresh + 1 ELSE fresh
  /\ UNCHANGED <<files, clock>>

Wait(p, t) ==
  /\ clock' = [clock EXCEPT ![p] = @ + t]
  /\ reply' = NoReply
  /\ UNCHANGED <<files, table, fresh>>

Next ==
  /\ \/ Appear
     \/ \E S \in SUBSET table : Vanish(S)
     \/ \E p \in Process :
          \/ Create(p)
          \/ \E e \in table : Truncate(p, e) \/ Renumber(p, e) \/ Report(p, e)
          \/ \E t \in {1, Second} : Wait(p, t)
  /\ UNCHANGED program

Spec == Init /\ [][Next]_vars
=============================================================================
