------------------------------ MODULE DevRand ------------------------------
(***************************************************************************)
(* One of the random devices: a fifo and the thread of the tracer that     *)
(* fills it (RandThread::runThread).                                       *)
(*                                                                         *)
(* The thread writes the numbers of its generator, two bytes each, for as  *)
(* long as the fifo has room.  It is the one part of the tracer that runs  *)
(* while a tracee does.  The tracees open, read and close the fifo.  A     *)
(* byte is the place of its number in the generator's sequence, and which  *)
(* half of it it is.                                                       *)
(***************************************************************************)
EXTENDS Naturals, Sequences, FiniteSets

CONSTANTS
  Capacity,     \* of the fifo, in bytes
  MaxNumbers,   \* how many numbers the thread draws
  MaxRequest,   \* the largest count of a read
  Traffic       \* a subset of {"errors", "tracee writes"}

VARIABLES
  drawn,        \* how many numbers the thread has drawn
  getNewRandom, \* does it draw one for its next write?
  bytes,        \* the bytes in the fifo
  open,         \* has a tracee opened the device?
  got           \* all bytes tracees have read

deviceVars == <<drawn, getNewRandom, bytes, open, got>>

Halves(n) == <<[number |-> n, half |-> 1], [number |-> n, half |-> 2]>>
TraceeByte == [number |-> 0, half |-> 1]

DeviceInit ==
  /\ drawn = 0 /\ getNewRandom = TRUE
  /\ bytes = <<>> /\ open = FALSE /\ got = <<>>

----------------------------------------------------------------------------
(* The thread. *)

\* One iteration of the loop: prng.get() and a write that succeeds ...
Random == IF getNewRandom THEN drawn + 1 ELSE drawn

runThread ==
  /\ Random <= MaxNumbers
  /\ Len(bytes) + 2 <= Capacity
  /\ drawn' = Random
  /\ bytes' = bytes \o Halves(Random)
  /\ getNewRandom' = TRUE
  /\ UNCHANGED <<open, got>>

\* ... or one that fails, after which the same number is written again.
runThreadError_NewNumber ==
  /\ "errors" \in Traffic
  /\ Random <= MaxNumbers
  /\ drawn' = Random
  /\ getNewRandom' = TRUE
  /\ UNCHANGED <<bytes, open, got>>

runThreadError ==
  /\ "errors" \in Traffic
  /\ Random <= MaxNumbers
  /\ drawn' = Random
  /\ getNewRandom' = FALSE
  /\ UNCHANGED <<bytes, open, got>>

----------------------------------------------------------------------------
(* The tracees. *)

opensDevice ==
  /\ ~open
  /\ open' = TRUE
  /\ UNCHANGED <<drawn, getNewRandom, bytes, got>>

\* What a read returns at once; its handler executes it again for the rest.
readsDevice(n) ==
  /\ open /\ bytes # <<>>
  /\ LET k == IF n < Len(bytes) THEN n ELSE Len(bytes)
     IN /\ got' = got \o SubSeq(bytes, 1, k)
        /\ bytes' = SubSeq(bytes, k + 1, Len(bytes))
  /\ UNCHANGED <<drawn, getNewRandom, open>>

writesDevice ==
  /\ "tracee writes" \in Traffic
  /\ open /\ Len(bytes) < Capacity /\ Len(got) < 2 * MaxNumbers
  /\ bytes' = Append(bytes, TraceeByte)
  /\ UNCHANGED <<drawn, getNewRandom, open, got>>

\* The kernel empties a fifo that nobody has open any more.  The thread opens
\* it for reading and writing once, and keeps it open.
threadHoldsFifo == TRUE

closesDevice ==
  /\ open
  /\ open' = FALSE
  /\ bytes' = IF threadHoldsFifo THEN bytes ELSE <<>>
  /\ UNCHANGED <<drawn, getNewRandom, got>>

DeviceNext ==
  \/ runThread \/ runThreadError \/ opensDevice \/ writesDevice \/ closesDevice
  \/ \E n \in 1..MaxRequest : readsDevice(n)

DeviceSpec == DeviceInit /\ [][DeviceNext]_deviceVars

----------------------------------------------------------------------------
(* Properties. *)

\* How many of the first i bytes of a sequence are from the generator.
Generated(s, i) == Cardinality({j \in 1..i : s[j].number > 0})

\* The bytes from the generator are those of its numbers in order, each once.
InOrder(s) ==
  \A i \in 1..Len(s) :
    s[i].number > 0 => Generated(s, i) = 2 * (s[i].number - 1) + s[i].half

\* Whatever the timing of the thread, its errors, and when the tracees open and
\* close the device, they read the numbers of the generator in order, each once
\* (the thread keeps the fifo open and writes a number again after an error).
NumbersInOrder == InOrder(got)
=============================================================================
