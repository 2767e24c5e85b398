----------------------------- MODULE DirEntries -----------------------------
(***************************************************************************)
(* Directory listings.                                                     *)
(*                                                                         *)
(* The order in which the kernel lists a directory depends on the host.    *)
(* dettrace therefore replays getdents until the kernel has nothing left,  *)
(* collects the chunks, sorts them by name, and hands them out in portions *)
(* that fit the tracee's buffer.  What it has collected is kept for each   *)
(* process and descriptor; the position in the directory belongs to the    *)
(* kernel's open file description.  The two part ways when a description   *)
(* is shared, sought, or replaced.                                         *)
(*                                                                         *)
(* The names of the one directory are numbers, their size one unit, or two *)
(* for LongName.  Nothing but the replays of a call comes between its      *)
(* start and its return, since replaySystemCall does not preempt.          *)
(***************************************************************************)
EXTENDS Integers, Sequences, SequencesExt, FiniteSets, FiniteSetsExt, TLC

CONSTANTS
  Task,        \* processes and threads
  First,       \* the first of them
  Desc,        \* the kernel's open file descriptions
  NoDesc,
  MaxFd,
  Names,       \* the names in the directory, 1 .. n
  LongName,    \* the name whose entry takes two units
  Sizes,       \* the sizes of the tracees' buffers
  Flavour,     \* the calls the tracees use: getdents, getdents64
  dirEntriesBytes,  \* state.dirEntriesBytes, what a new vector reserves
  MaxRewinds,
  MaxRaw,      \* bound on what is collected for one descriptor
  Behaviours   \* what the tracees do besides open, getdents and close

AllBehaviours ==
  {"rewind", "smaller buffer", "dup", "dup2", "fork", "thread", "exit",
   "share", "cloexec"}

Fd == 0 .. MaxFd
Garbage == 0       \* what may be read from an array that has been freed
Freed == <<>>      \* in place of the owner of an array that has been freed
NoCall == [task |-> First, fd |-> 0, size |-> 0, flavour |-> "none"]
Nobody == <<>>
NoReply == [desc |-> NoDesc, bytes |-> 0]

VARIABLES
  live,       \* kernel: the tasks that exist
  ended,      \* kernel: the tasks that have existed; pids are not reused
  group,      \* kernel: whose descriptor table a task uses
  files,      \* kernel: the descriptor tables
  pos,        \* kernel: how many entries were read from a description
  host,       \* kernel: the order in which this host lists the names
  rewinds,    \* how often the tracees have sought back
  opener,     \* the task and the descriptor a description was opened with
  dirEntries, \* state.dirEntries and state.dirEntries64
  inodeMap,   \* gs.inodeMap: the names in the order of their virtual inodes
  call,       \* the getdents call that is being replayed
  shown,      \* the names a description's readers got since it was at its start
  reply       \* what the last getdents call has returned

kernel == <<live, ended, group, files, host, rewinds, opener>>
vars == <<kernel, pos, dirEntries, inodeMap, call, shown, reply>>

----------------------------------------------------------------------------
(* Entries in memory. *)

Bytes(s) == Len(s) + Cardinality({i \in DOMAIN s : s[i] = LongName})

\* As many entries from the front of s as fit.
Fitting(s, size) ==
  LET Fits(k) == Bytes(SubSeq(s, 1, k)) <= size
  IN SubSeq(s, 1, Max({k \in 0 .. Len(s) : Fits(k)}))

After(s, front) == SubSeq(s, Len(front) + 1, Len(s))

----------------------------------------------------------------------------
(* The class directoryEntries.  raw is the content of the vector           *)
(* rawEntries and room its capacity; entries are the sorted entries not    *)
(* handed out yet, and `at' says whose rawEntries their addresses point    *)
(* into.  A store is named by its task, map and descriptor.                *)

Empty == [known |-> FALSE, raw |-> <<>>, room |-> 0, sorted |-> FALSE,
          entries |-> <<>>, at |-> Freed]

Place == Task \X Flavour \X Fd
At(all, p) == all[p[1]][p[2]][p[3]]

\* The arrays of the stores in gone are freed.
Freeing(all, gone) ==
  [t \in Task |-> [fl \in Flavour |-> [fd \in Fd |->
     IF all[t][fl][fd].at \in gone THEN [all[t][fl][fd] EXCEPT !.at = Freed] ELSE all[t][fl][fd]]]]

newDirectoryEntries == [Empty EXCEPT !.known = TRUE, !.room = dirEntriesBytes]

\* A vector that outgrows its capacity moves to another array.
outgrown(st, chunk) == Bytes(st.raw) + Bytes(chunk) > st.room
addChunk(st, chunk) ==
  LET old == Bytes(st.raw)
      n == Bytes(chunk)
  IN [st EXCEPT !.raw = @ \o chunk, !.room = IF outgrown(st, chunk) THEN old + Max({old, n}) ELSE @]

sortOurEntries(st, place) ==
  [st EXCEPT !.sorted = TRUE, !.entries = SortSeq(st.raw, >), !.at = place]

\* Mistake: an entry that does not fit is dropped.
getSortedEntries_DropsNext(st, place, size) ==
  LET s == IF st.sorted THEN st ELSE sortOurEntries(st, place)
      out == Fitting(s.entries, size)
      left == After(s.entries, out)
  IN [out |-> out, store |-> [s EXCEPT !.entries = IF left = <<>> THEN left ELSE Tail(left)]]

\* The entries are sorted when they are first asked for, never again.
getSortedEntries(st, place, size) ==
  LET s == IF st.sorted THEN st ELSE sortOurEntries(st, place)
      out == Fitting(s.entries, size)
      left == After(s.entries, out)
  IN [out |-> out,
      store |-> [s EXCEPT !.entries = left, !.at = IF left = <<>> THEN Freed ELSE @]]

----------------------------------------------------------------------------
(* getdents and getdents64: one execution of the call by the kernel and    *)
(* the post-hook.                                                          *)

Unread(d) == SubSeq(host, pos[d] + 1, Len(host))

dirEntriesFor(t, fl, fd) == dirEntries[t][fl][fd]

\* The bytes of freed entries are still there, or are something else.
InMemory(st, out) ==
  IF st.entries = <<>> \/ st.at # Freed THEN {out}
  ELSE {out, [i \in DOMAIN out |-> Garbage]}

\* Mistake: the inodes are virtualized in the order they were collected in.
virtualizeEntries_AsCollected(out) ==
  inodeMap' = inodeMap \o SelectSeq(host, LAMBDA n : n \in ToSet(out) \ ToSet(inodeMap))

virtualizeEntries(out) ==
  inodeMap' = inodeMap \o SelectSeq(out, LAMBDA n : n \notin ToSet(inodeMap))

store(t, fl, fd) ==
  IF dirEntriesFor(t, fl, fd).known THEN dirEntriesFor(t, fl, fd) ELSE newDirectoryEntries

allBytesRead(c, d, st) ==
  LET filled == getSortedEntries(st, <<c.task, c.flavour, c.fd>>, c.size) IN
  \E filledVector \in InMemory(st, filled.out) :
    /\ dirEntries' = [dirEntries EXCEPT ![c.task][c.flavour][c.fd] = filled.store]
    /\ virtualizeEntries(filledVector)
    /\ shown' = [shown EXCEPT ![d] = @ \o filledVector]
    /\ reply' = [desc |-> d, bytes |-> Bytes(filledVector)]
    /\ call' = NoCall
    /\ UNCHANGED pos

readMore(c, d, st, newChunk) ==
  /\ LET gone == IF outgrown(st, newChunk) THEN {<<c.task, c.flavour, c.fd>>} ELSE {}
         grown == [dirEntries EXCEPT ![c.task][c.flavour][c.fd] = addChunk(st, newChunk)]
     IN dirEntries' = Freeing(grown, gone)
  /\ pos' = [pos EXCEPT ![d] = @ + Len(newChunk)]
  /\ call' = c                        \* replaySystemCall
  /\ reply' = NoReply
  /\ UNCHANGED <<inodeMap, shown>>

\* The kernel's EINVAL: the buffer is too small for the next entry.
error(c, d) ==
  /\ call' = NoCall
  /\ reply' = [desc |-> d, bytes |-> -1]
  /\ UNCHANGED <<pos, dirEntries, inodeMap, shown>>

\* The call is replayed until the kernel has no more entries.
handleDents(c) ==
  LET d == files[group[c.task]][c.fd]
      rest == Unread(d)
      newChunk == Fitting(rest, c.size)
      st == store(c.task, c.flavour, c.fd)
  IN /\ UNCHANGED kernel
     /\ \/ newChunk = <<>> /\ rest # <<>> /\ error(c, d)
        \/ rest = <<>> /\ allBytesRead(c, d, st)
        \/ newChunk # <<>> /\ readMore(c, d, st, newChunk)

----------------------------------------------------------------------------
(* The other calls that touch descriptors. *)

Open(t) == {fd \in Fd : files[group[t]][fd] # NoDesc}
InUse(tables) == {tables[t][fd] : t \in Task, fd \in Fd}
UnusedDesc == Desc \ InUse(files)
Idle(t) == t \in live /\ call = NoCall

\* A description that no descriptor refers to is gone.
SetFilesAndOpener(tables, by) ==
  /\ files' = tables
  /\ pos' = [d \in Desc |-> IF d \in InUse(tables) THEN pos[d] ELSE 0]
  /\ shown' = [d \in Desc |-> IF d \in InUse(tables) THEN shown[d] ELSE <<>>]
  /\ opener' = [d \in Desc |-> IF d \in InUse(tables) THEN by[d] ELSE Nobody]
  /\ reply' = NoReply
  /\ UNCHANGED <<host, rewinds, inodeMap, call>>

SetFiles(tables) == SetFilesAndOpener(tables, opener)

openat(t) ==
  /\ Idle(t)
  /\ Open(t) # Fd /\ UnusedDesc # {}
  /\ LET fd == Min(Fd \ Open(t))
         d == CHOOSE d \in UnusedDesc : TRUE
     IN /\ files' = [files EXCEPT ![group[t]][fd] = d]
        /\ opener' = [opener EXCEPT ![d] = <<t, fd>>]
  /\ reply' = NoReply
  /\ UNCHANGED <<live, ended, group, pos, host, rewinds, dirEntries, inodeMap, call, shown>>

\* A program passes a buffer that has room for any entry, as readdir does,
\* and reads what it has opened, with the descriptor it was given.
getdents(t, fl, fd, size) ==
  /\ Idle(t) /\ fd \in Open(t)
  /\ size >= Bytes(<<LongName>>) \/ "smaller buffer" \in Behaviours
  /\ opener[files[group[t]][fd]] = <<t, fd>> \/ "share" \in Behaviours
  /\ Bytes(dirEntriesFor(t, fl, fd).raw) + Bytes(Unread(files[group[t]][fd])) <= MaxRaw
  /\ handleDents([task |-> t, fd |-> fd, size |-> size, flavour |-> fl])

getdentsReplayed == call # NoCall /\ handleDents(call)

close(t, fd) ==
  /\ Idle(t) /\ fd \in Open(t)
  /\ SetFilesAndOpener(
       [files EXCEPT ![group[t]][fd] = NoDesc],
       [d \in Desc |-> IF opener[d] = <<t, fd>> THEN Nobody ELSE opener[d]])
  /\ dirEntries' =
       Freeing([dirEntries EXCEPT ![t] = [fl \in Flavour |-> [@[fl] EXCEPT ![fd] = Empty]]],
               {t} \X Flavour \X {fd})
  /\ UNCHANGED <<live, ended, group>>

\* rewinddir; the filter lets lseek pass without a stop.
lseek(t, fd) ==
  /\ "rewind" \in Behaviours /\ Idle(t) /\ fd \in Open(t) /\ rewinds < MaxRewinds
  /\ rewinds' = rewinds + 1
  /\ LET d == files[group[t]][fd]
     IN pos' = [pos EXCEPT ![d] = 0] /\ shown' = [shown EXCEPT ![d] = <<>>]
  /\ reply' = NoReply
  /\ UNCHANGED <<live, ended, group, files, host, opener, dirEntries, inodeMap, call>>

\* Neither dup nor dup2 says anything about directory entries.
dup(t, fd) ==
  /\ "dup" \in Behaviours /\ Idle(t) /\ fd \in Open(t) /\ Open(t) # Fd
  /\ SetFiles([files EXCEPT ![group[t]][Min(Fd \ Open(t))] = files[group[t]][fd]])
  /\ UNCHANGED <<live, ended, group, dirEntries>>

dup2(t, fd, newfd) ==
  /\ "dup2" \in Behaviours /\ Idle(t) /\ fd \in Open(t)
  /\ SetFiles([files EXCEPT ![group[t]][newfd] = files[group[t]][fd]])
  /\ UNCHANGED <<live, ended, group, dirEntries>>

\* The vectors are copied with no room to spare; the addresses are copied too.
copied(st) == IF st.known THEN [st EXCEPT !.room = Bytes(st.raw)] ELSE st

\* state::forked and state::cloned do the same.
Child(t, u) ==
  /\ Idle(t) /\ u \notin live \union ended
  /\ live' = live \union {u}
  /\ UNCHANGED ended
  /\ dirEntries' =
       [dirEntries EXCEPT ![u] = [fl \in Flavour |-> [fd \in Fd |-> copied(dirEntries[t][fl][fd])]]]

forked(t, u) ==
  /\ "fork" \in Behaviours
  /\ Child(t, u)
  /\ group' = [group EXCEPT ![u] = u]
  /\ SetFiles([files EXCEPT ![u] = files[group[t]]])

cloned(t, u) ==
  /\ "thread" \in Behaviours
  /\ Child(t, u)
  /\ group' = [group EXCEPT ![u] = group[t]]
  /\ SetFiles(files)

\* opendir asks for O_CLOEXEC.  handleExecEvent resets fdStatus only.
handleExecEvent(t) ==
  /\ "cloexec" \in Behaviours /\ Idle(t) /\ \A u \in live \ {t} : group[u] # group[t]
  /\ SetFiles([files EXCEPT ![group[t]] = [fd \in Fd |-> NoDesc]])
  /\ UNCHANGED <<live, ended, group, dirEntries>>

\* The state of a task that ends is erased.
exit(t) ==
  /\ "exit" \in Behaviours /\ Idle(t) /\ \A u \in live \ {t} : group[u] # t
  /\ live' = live \ {t}
  /\ ended' = ended \union {t}
  /\ SetFilesAndOpener(
       IF group[t] = t THEN [files EXCEPT ![t] = [fd \in Fd |-> NoDesc]] ELSE files,
       [d \in Desc |-> IF t \in ToSet(opener[d]) THEN Nobody ELSE opener[d]])
  /\ dirEntries' =
       Freeing([dirEntries EXCEPT ![t] = [fl \in Flavour |-> [fd \in Fd |-> Empty]]],
               {t} \X Flavour \X Fd)
  /\ UNCHANGED group

----------------------------------------------------------------------------
InitialState(order) ==
  /\ live = {First}
  /\ ended = {}
  /\ group = [t \in Task |-> t]
  /\ files = [t \in Task |-> [fd \in Fd |-> NoDesc]]
  /\ pos = [d \in Desc |-> 0]
  /\ host = order
  /\ rewinds = 0
  /\ opener = [d \in Desc |-> Nobody]
  /\ dirEntries = [t \in Task |-> [fl \in Flavour |-> [fd \in Fd |-> Empty]]]
  /\ inodeMap = <<>>
  /\ call = NoCall
  /\ shown = [d \in Desc |-> <<>>]
  /\ reply = NoReply

Init == \E order \in SetToSeqs(Names) : InitialState(order)

Next ==
  \/ getdentsReplayed
  \/ \E t \in Task :
       \/ openat(t)
       \/ handleExecEvent(t)
       \/ exit(t)
       \/ \E fd \in Fd :
            \/ \E fl \in Flavour, size \in Sizes : getdents(t, fl, fd, size)
            \/ close(t, fd)
            \/ lseek(t, fd)
            \/ dup(t, fd)
            \/ \E newfd \in Fd : dup2(t, fd, newfd)
       \/ \E u \in Task : forked(t, u) \/ cloned(t, u)

Spec == Init /\ [][Next]_vars

----------------------------------------------------------------------------
(* When a call returns 0, the end of the directory, its reader has been    *)
(* shown every name: no chunk is lost between the replays of handleDents   *)
(* and the portions of getSortedEntries.                                   *)
ListingComplete ==
  reply.desc # NoDesc /\ reply.bytes = 0 => ToSet(shown[reply.desc]) = Names

(* A listing is sorted and has no name twice, whatever the host's order    *)
(* and however the tracee's buffer cuts it into portions.                  *)
ListingSorted ==
  \A d \in Desc : \A i, j \in DOMAIN shown[d] : i < j => shown[d][i] > shown[d][j]

(* Virtual inodes are given out in the order of the sorted listing, never  *)
(* in that of the host: virtualizeEntries sees the sorted portions only.   *)
NumberedAsListed ==
  \A i, j \in DOMAIN inodeMap : i < j => inodeMap[i] > inodeMap[j]

=============================================================================
