------------------------------- MODULE Files --------------------------------
(***************************************************************************)
(* What tracees are told about files: virtual inodes (gs.inodeMap),        *)
(* modification times (gs.mtimeMap), and the logical clocks behind them.   *)
(*                                                                         *)
(* The tables are keyed by the host's inode, and the host's file system    *)
(* gives the inode of a deleted file to the next one it creates.  The      *)
(* identity of a file is therefore not its inode: node[i].number is the    *)
(* number of the file inode i holds, counted in the order of creation.     *)
(*                                                                         *)
(* Only one tracee runs at a time, so nothing happens between the two      *)
(* hooks of a call; a call whose pre-hook only prints is one action.  A    *)
(* call that fails changes nothing, except for open, whose hooks share     *)
(* fileExisted.                                                            *)
(***************************************************************************)
EXTENDS Naturals

CONSTANTS Process,
          Ino, NoIno,       \* host inodes
          Name, Absolute,   \* file names; those that start with a slash
          Dirfd,            \* descriptors of directories
          HiddenName,       \* names isHostCpuTopologyPath recognises, only opened
          epoch,            \* the logical time the run starts at
          Second,           \* clock steps in a second
          Programs,         \* what tracees may do, besides the calls that are safe
          MaxFiles, MaxTime

AllBehaviours == {"bind",                \* sockets are created in the file system
                  "creat truncates"}     \* creat is called for a file that exists

AT_FDCWD == "AT_FDCWD"
NoDirfd == "-1"

ASSUME FilesAssumption ==
  /\ NoIno \notin Ino
  /\ Absolute \subseteq Name
  /\ HiddenName \cap Name = {}
  /\ {AT_FDCWD, NoDirfd} \cap Dirfd = {} /\ {"root", "cwd"} \cap Dirfd = {}
  /\ Second \in Nat \ {0}
  /\ epoch \in Nat /\ epoch >= Second
  /\ Programs \subseteq SUBSET AllBehaviours
  /\ MaxFiles \in [Programs -> Nat] /\ MaxTime \in Nat

Absent == 0              \* no entry in a table

Kind == {"regular", "directory", "symlink", "other"}
Node(n, k, t) == [number |-> n, kind |-> k, target |-> t]
FreeNode == Node(0, "other", NoIno)
Location == ({"root"} \X Absolute) \cup (({"cwd"} \cup Dirfd) \X (Name \ Absolute))

VARIABLES
  program,                                   \* what the tracees of this run do
  dir, node, opened, files,                  \* the host's file system
  inodeMap, freshValue, mtimeMap,            \* globalState
  clock, fileExisted,                        \* state, per process
  call,                                      \* the open between its hooks
  reply,                                     \* the answer, if the last call was a stat
  thrown

hostVars == <<dir, node, opened, files>>
mapVars == <<inodeMap, freshValue>>
vars == <<program, hostVars, mapVars, mtimeMap, clock, fileExisted, call, reply, thrown>>

NoCall == [nr |-> "none"]
NoReply == [st_ino |-> Absent]
Idle == call = NoCall /\ ~thrown

(* There is one file, with one name.                                       *)
InitialState(b, loc, ino) ==
  /\ program = b
  /\ dir = [x \in Location |-> IF x = loc THEN ino ELSE NoIno]
  /\ node = [x \in Ino |-> IF x = ino THEN Node(1, "regular", NoIno) ELSE FreeNode]
  /\ opened = {}
  /\ files = 1
  /\ inodeMap = [i \in Ino |-> Absent]
  /\ freshValue = 1
  /\ mtimeMap = [i \in Ino |-> Absent]
  /\ clock = [p \in Process |-> epoch]
  /\ fileExisted = [p \in Process |-> FALSE]
  /\ call = NoCall
  /\ reply = NoReply
  /\ thrown = FALSE

Init == \E b \in Programs, l \in Location, i \in Ino : InitialState(b, l, i)
-----------------------------------------------------------------------------
(* The host's file system.                                                 *)

(* Where the kernel looks a name up.                                       *)
kernelPath(name, dirfd) ==
  IF name \in Absolute THEN <<"root", name>>
  ELSE IF dirfd = AT_FDCWD THEN <<"cwd", name>>
  ELSE <<dirfd, name>>

(* A symbolic link is followed; links to links are left out.               *)
Follow(d, l) ==
  IF d[l] # NoIno /\ node[d[l]].kind = "symlink" THEN node[d[l]].target ELSE l

Linked(d) == {d[l] : l \in Location} \ {NoIno}
Live == {i \in Ino : node[i].number # 0}
Unused == Ino \ Live

(* An inode that has lost its last name and its last descriptor is free.   *)
SetNames(d, o) ==
  /\ dir' = d
  /\ opened' = o
  /\ node' = [i \in Ino |-> IF i \in Linked(d) \cup o THEN node[i] ELSE FreeNode]
  /\ UNCHANGED files

(* A new file in a free inode, chosen by the file system.                  *)
MakeFile(i, d, o, k, t) ==
  /\ files < MaxFiles[program]
  /\ dir' = d
  /\ opened' = o
  /\ node' = [node EXCEPT ![i] = Node(files + 1, k, t)]
  /\ files' = files + 1
-----------------------------------------------------------------------------
(* The tables.                                                             *)

realValueExists(i) == inodeMap[i] # Absent

addRealValue_Reuses(i) ==
  IF realValueExists(i)
  THEN UNCHANGED mapVars
  ELSE /\ inodeMap' = [inodeMap EXCEPT ![i] = freshValue]
       /\ freshValue' = freshValue + 1

addRealValue_NotAdvanced(i) ==
  /\ inodeMap' = [inodeMap EXCEPT ![i] = freshValue]
  /\ UNCHANGED freshValue

addRealValue(i) ==
  /\ inodeMap' = [inodeMap EXCEPT ![i] = freshValue]
  /\ freshValue' = freshValue + 1

incrementTime(p) ==
  /\ clock[p] < MaxTime
  /\ clock' = [clock EXCEPT ![p] = @ + 1]

(* The time of a file from before the run.                                 *)
oldTime_Epoch == epoch

oldTime == epoch - Second

virtualMtime(i) == IF mtimeMap[i] = Absent THEN oldTime ELSE mtimeMap[i]

(* logical_clock::to_timespec, of which stat keeps the whole seconds.      *)
to_timespec(t) == t \div Second

(* What a created file's handler does: mtimeMap, inodeMap, the clock.      *)
recordCreation(p, i) ==
  /\ mtimeMap' = [mtimeMap EXCEPT ![i] = clock[p]]
  /\ addRealValue(i)
  /\ incrementTime(p)
-----------------------------------------------------------------------------
(* Names, as the tracer resolves them through /proc.                       *)

resolve_tracee_path(name, dirfd) ==
  IF name \in Absolute THEN <<"root", name>>
  ELSE IF dirfd \notin {NoDirfd, AT_FDCWD} THEN <<dirfd, name>>
  ELSE <<"cwd", name>>

(* lstat: a symbolic link itself, not what it points to.                   *)
inode_from_tracee(d, name, dirfd) == d[resolve_tracee_path(name, dirfd)]

(* stat: through a symbolic link, so a dangling one does not exist.        *)
tracee_file_exists(name, dirfd) ==
  dir[Follow(dir, resolve_tracee_path(name, dirfd))] # NoIno

(* The inode behind a descriptor the call has just returned.               *)
readInodeFor(fd) == fd
isRegularFileFd(fd) == node'[fd].kind = "regular"
-----------------------------------------------------------------------------
(* open and openat.  Flags is the set of the flags that matter.            *)

OpenFlags == {{}, {"O_CREAT"}, {"O_CREAT", "O_TRUNC"}, {"O_TRUNC"},
              {"O_TRUNC", "O_PATH"}, {"O_TMPFILE"}}

handlePreOpens(p, nr, name, dirfd, flags) ==
  /\ IF "O_TMPFILE" \notin flags /\ name \in HiddenName
     THEN UNCHANGED <<call, fileExisted, thrown>>        \* fails with ENOENT
     ELSE IF "O_TMPFILE" \notin flags /\ fileExisted[p]
     THEN /\ thrown' = TRUE
          /\ UNCHANGED <<call, fileExisted>>
     ELSE /\ call' = [nr |-> nr, by |-> p, name |-> name, dirfd |-> dirfd,
                      flags |-> flags]
          /\ fileExisted' =
               [fileExisted EXCEPT ![p] =
                  IF {"O_CREAT"} \subseteq flags
                  THEN tracee_file_exists(name, dirfd) ELSE @]
          /\ UNCHANGED thrown
  /\ reply' = NoReply
  /\ UNCHANGED <<hostVars, mapVars, mtimeMap, clock>>

openPre(p, name, flags) == Idle /\ handlePreOpens(p, "open", name, NoDirfd, flags)

openatPre(p, name, dirfd, flags) ==
  Idle /\ handlePreOpens(p, "openat", name, dirfd, flags)

(* fd is the inode behind the returned descriptor, NoIno on failure.       *)
recordOpened(p, fd, flags) ==
  IF fd # NoIno /\ ("O_TMPFILE" \in flags \/ ("O_CREAT" \in flags /\ ~fileExisted[p]))
  THEN recordCreation(p, readInodeFor(fd))
  ELSE IF fd # NoIno /\ "O_TRUNC" \in flags /\ "O_PATH" \notin flags /\ isRegularFileFd(fd)
  THEN /\ mtimeMap' = [mtimeMap EXCEPT ![readInodeFor(fd)] = clock[p]]
       /\ incrementTime(p)
       /\ UNCHANGED mapVars
  ELSE UNCHANGED <<mapVars, mtimeMap, clock>>

handlePostOpens(p, fd, flags) ==
  /\ recordOpened(p, fd, flags)
  /\ fileExisted' = [fileExisted EXCEPT ![p] = FALSE]

(* The kernel executes the call: it opens what is there, creates what is   *)
(* not if it is asked to, or fails.                                        *)
kernelOpen(l, flags, fd) ==
  \/ /\ fd = NoIno
     /\ UNCHANGED hostVars
  \/ /\ fd = dir[l]
     /\ fd # NoIno
     /\ "O_TMPFILE" \notin flags
     /\ node[fd].kind = "directory" => flags \cap {"O_CREAT", "O_TRUNC"} = {} \/ "O_PATH" \in flags
     /\ SetNames(dir, opened \cup {fd})
  \/ /\ fd \in Unused
     /\ "O_TMPFILE" \in flags
     /\ MakeFile(fd, dir, opened \cup {fd}, "regular", NoIno)
  \/ /\ fd \in Unused
     /\ dir[l] = NoIno
     /\ "O_CREAT" \in flags
     /\ MakeFile(fd, [dir EXCEPT ![l] = fd], opened \cup {fd}, "regular", NoIno)

openPost(fd) ==
  /\ call.nr = "open"
  /\ kernelOpen(Follow(dir, kernelPath(call.name, AT_FDCWD)), call.flags, fd)
  /\ handlePostOpens(call.by, fd, call.flags)
  /\ call' = NoCall
  /\ reply' = NoReply
  /\ UNCHANGED thrown

openatPost(fd) ==
  /\ call.nr = "openat"
  /\ kernelOpen(Follow(dir, kernelPath(call.name, call.dirfd)), call.flags, fd)
  /\ handlePostOpens(call.by, fd, call.flags)
  /\ call' = NoCall
  /\ reply' = NoReply
  /\ UNCHANGED thrown

(* creat on a file that is there truncates it.  The handler does not ask   *)
(* which of the two it was.                                                *)
creat(p, name, fd) ==
  /\ Idle
  /\ fd # NoIno
  /\ fd \in Unused \/ "creat truncates" \in program
  /\ kernelOpen(Follow(dir, kernelPath(name, AT_FDCWD)), {"O_CREAT", "O_TRUNC"}, fd)
  /\ recordCreation(p, readInodeFor(fd))
  /\ reply' = NoReply
  /\ UNCHANGED <<fileExisted, call, thrown>>

closeFile(i) ==
  /\ Idle
  /\ i \in opened
  /\ SetNames(dir, opened \ {i})
  /\ reply' = NoReply
  /\ UNCHANGED <<mapVars, mtimeMap, clock, fileExisted, call, thrown>>
-----------------------------------------------------------------------------
(* Calls that create a name.                                               *)

newNode(p, l, k, t) ==
  /\ Idle
  /\ dir[l] = NoIno
  /\ \E i \in Unused : MakeFile(i, [dir EXCEPT ![l] = i], opened, k, t)
  /\ reply' = NoReply
  /\ UNCHANGED <<fileExisted, call, thrown>>

(* The post-hook of the calls below, given how the tracer finds the inode. *)
recordNode(p, name, dirfd) ==
  LET i == inode_from_tracee(dir', name, dirfd) IN
  IF i # NoIno THEN recordCreation(p, i) ELSE UNCHANGED <<mapVars, mtimeMap, clock>>

mkdir(p, name) ==
  /\ newNode(p, kernelPath(name, AT_FDCWD), "directory", NoIno)
  /\ recordNode(p, name, NoDirfd)

mkdirat(p, name, dirfd) ==
  /\ newNode(p, kernelPath(name, dirfd), "directory", NoIno)
  /\ recordNode(p, name, dirfd)

mknod(p, name) ==
  /\ newNode(p, kernelPath(name, AT_FDCWD), "other", NoIno)
  /\ recordNode(p, name, NoDirfd)

mknodat(p, name, dirfd) ==
  /\ newNode(p, kernelPath(name, dirfd), "other", NoIno)
  /\ recordNode(p, name, dirfd)

(* Links point to names under the root, and are made elsewhere.            *)
symlink(p, name, t) ==
  /\ name \notin Absolute
  /\ newNode(p, kernelPath(name, AT_FDCWD), "symlink", t)
  /\ recordNode(p, name, NoDirfd)

symlinkat(p, name, dirfd, t) ==
  /\ name \notin Absolute
  /\ newNode(p, kernelPath(name, dirfd), "symlink", t)
  /\ recordNode(p, name, dirfd)

(* bind creates a socket in the file system; the filter lets it through.   *)
bind(p, name) ==
  /\ "bind" \in program
  /\ newNode(p, kernelPath(name, AT_FDCWD), "other", NoIno)
  /\ UNCHANGED <<mapVars, mtimeMap, clock>>

(* Calls that change names only: their post-hooks leave the tables alone.  *)
NamesOnly(d) ==
  /\ Idle
  /\ SetNames(d, opened)
  /\ reply' = NoReply
  /\ UNCHANGED <<mapVars, mtimeMap, clock, fileExisted, call, thrown>>

unlink(name) == NamesOnly([dir EXCEPT ![kernelPath(name, AT_FDCWD)] = NoIno])

unlinkat(name, dirfd) == NamesOnly([dir EXCEPT ![kernelPath(name, dirfd)] = NoIno])

rmdir(name) ==
  LET l == kernelPath(name, AT_FDCWD) IN
  /\ dir[l] # NoIno
  /\ node[dir[l]].kind = "directory"
  /\ NamesOnly([dir EXCEPT ![l] = NoIno])

Renamed(from, to) ==
  /\ dir[from] # NoIno
  /\ dir[from] # dir[to]
  /\ from[1] = "root" => to[1] = "root"
  /\ node[dir[from]].kind = "symlink" => to[1] # "root"
  /\ NamesOnly([dir EXCEPT ![to] = dir[from], ![from] = NoIno])

rename(name, to) == Renamed(kernelPath(name, AT_FDCWD), kernelPath(to, AT_FDCWD))

renameat(name, dirfd, to, todirfd) == Renamed(kernelPath(name, dirfd), kernelPath(to, todirfd))

renameat2(name, dirfd, to, todirfd) == Renamed(kernelPath(name, dirfd), kernelPath(to, todirfd))

Linkable(from, to) ==
  /\ dir[from] # NoIno
  /\ dir[to] = NoIno
  /\ node[dir[from]].kind # "directory"
  /\ node[dir[from]].kind = "symlink" => to[1] # "root"
  /\ NamesOnly([dir EXCEPT ![to] = dir[from]])

link(name, to) == Linkable(kernelPath(name, AT_FDCWD), kernelPath(to, AT_FDCWD))

linkat(name, dirfd, to, todirfd) == Linkable(kernelPath(name, dirfd), kernelPath(to, todirfd))
-----------------------------------------------------------------------------
(* Calls that report on a file.                                            *)

(* The answer for inode i; an inode without an entry gets one.  The other  *)
(* fields are constants, or the file's own mode, owner and size.           *)
report(p, i) ==
  /\ Idle
  /\ i # NoIno
  /\ reply' = [by       |-> p,
               number   |-> node[i].number,
               st_ino   |-> IF realValueExists(i) THEN inodeMap[i] ELSE freshValue,
               st_mtime |-> to_timespec(virtualMtime(i))]
  /\ IF realValueExists(i) THEN UNCHANGED mapVars ELSE addRealValue(i)
  /\ UNCHANGED <<hostVars, mtimeMap, clock, fileExisted, call, thrown>>

handleStatFamily(p, i) == report(p, i)

stat(p, name) == handleStatFamily(p, dir[Follow(dir, kernelPath(name, AT_FDCWD))])

lstat(p, name) == handleStatFamily(p, dir[kernelPath(name, AT_FDCWD)])

fstat(p, i) == i \in opened /\ handleStatFamily(p, i)

newfstatat(p, name, dirfd) ==
  \/ handleStatFamily(p, dir[Follow(dir, kernelPath(name, dirfd))])
  \/ handleStatFamily(p, dir[kernelPath(name, dirfd)])       \* AT_SYMLINK_NOFOLLOW

statx(p, name, dirfd) == report(p, dir[Follow(dir, kernelPath(name, dirfd))])

(* utime and its relatives with a NULL time: the host file gets the epoch, *)
(* the clock ticks, and the virtual time is left alone.                    *)
setTimes(p) ==
  /\ Idle
  /\ incrementTime(p)
  /\ reply' = NoReply
  /\ UNCHANGED <<hostVars, mapVars, mtimeMap, fileExisted, call, thrown>>

utime(p) == setTimes(p)
utimes(p) == setTimes(p)
utimensat(p) == setTimes(p)

(* Any timed wait: advanceTime lets the time pass that was asked for.      *)
advanceTime(p) ==
  /\ Idle
  /\ clock[p] + Second <= MaxTime
  /\ clock' = [clock EXCEPT ![p] = @ + Second]
  /\ reply' = NoReply
  /\ UNCHANGED <<hostVars, mapVars, mtimeMap, fileExisted, call, thrown>>
-----------------------------------------------------------------------------
Step ==
  \/ \E p \in Process, n \in Name \cup HiddenName, f \in OpenFlags :
       /\ n \in Name \/ "O_TMPFILE" \notin f
       /\ \/ openPre(p, n, f)
          \/ \E d \in Dirfd \cup {AT_FDCWD} : openatPre(p, n, d, f)
  \/ \E fd \in Ino \cup {NoIno} : openPost(fd) \/ openatPost(fd)
  \/ \E p \in Process, n \in Name :
       \/ \E fd \in Ino : creat(p, n, fd)
       \/ mkdir(p, n) \/ mknod(p, n) \/ bind(p, n)
       \/ stat(p, n) \/ lstat(p, n)
       \/ \E t \in {"root"} \X Absolute : symlink(p, n, t)
       \/ \E d \in Dirfd \cup {AT_FDCWD} :
            \/ mkdirat(p, n, d) \/ mknodat(p, n, d)
            \/ \E t \in {"root"} \X Absolute : symlinkat(p, n, d, t)
            \/ newfstatat(p, n, d) \/ statx(p, n, d)
  \/ \E p \in Process :
       \/ \E i \in Ino : fstat(p, i)
       \/ utime(p) \/ utimes(p) \/ utimensat(p)
       \/ advanceTime(p)
  \/ \E i \in Ino : closeFile(i)
  \/ \E n \in Name :
       \/ unlink(n) \/ rmdir(n)
       \/ \E d \in Dirfd \cup {AT_FDCWD} : unlinkat(n, d)
       \/ \E m \in Name : rename(n, m) \/ link(n, m)
       \/ \E m \in Name, d, e \in Dirfd \cup {AT_FDCWD} :
            renameat(n, d, m, e) \/ renameat2(n, d, m, e) \/ linkat(n, d, m, e)

Next == Step /\ UNCHANGED program

Spec == Init /\ [][Next]_vars
-----------------------------------------------------------------------------
TypeOK ==
  /\ program \in Programs
  /\ dir \in [Location -> Ino \cup {NoIno}]
  /\ node \in [Ino -> [number : Nat, kind : Kind, target : Location \cup {NoIno}]]
  /\ opened \subseteq Ino
  /\ files \in Nat
  /\ inodeMap \in [Ino -> Nat]
  /\ freshValue \in Nat \ {0}
  /\ mtimeMap \in [Ino -> Nat]
  /\ clock \in [Process -> Nat]
  /\ fileExisted \in [Process -> BOOLEAN]
  /\ thrown \in BOOLEAN

(* gs.inodeMap is the isomorphism globalState.hpp calls it: two inodes,    *)
(* whether they hold a file or an entry was left behind by a deleted one,  *)
(* never have the same virtual inode, and a virtual inode is new when it   *)
(* is given out.                                                           *)
VirtualInodesDistinct ==
  /\ \A i, j \in Ino : inodeMap[i] = inodeMap[j] /\ inodeMap[i] # Absent => i = j
  /\ \A i \in Ino : inodeMap[i] < freshValue

(* handlePreOpens finds fileExisted reset by the previous open, whatever   *)
(* became of it, and does not throw.                                       *)
FlagInSync == ~thrown

(* The host's file system: an inode holds a file as long as it has a name  *)
(* or a descriptor, no two inodes hold the same file, and links point to   *)
(* names.                                                                  *)
HostInv ==
  /\ Live = Linked(dir) \cup opened
  /\ \A i \in Live : node[i].number <= files
  /\ \A i, j \in Live : node[i].number = node[j].number => i = j
  /\ \A i \in Live : node[i].kind = "symlink" => node[i].target \in Location

(* Between the hooks of an open fileExisted says whether the kernel will   *)
(* find the file; otherwise it is reset.                                   *)
CallInv ==
  /\ call = NoCall \/ call \in [nr : {"open", "openat"}, by : Process, name : Name,
                                dirfd : Dirfd \cup {AT_FDCWD, NoDirfd}, flags : OpenFlags]
  /\ call # NoCall =>
       /\ call.nr = "open" <=> call.dirfd = NoDirfd
       /\ "O_CREAT" \in call.flags =>
            fileExisted[call.by] =
              (dir[Follow(dir, resolve_tracee_path(call.name, call.dirfd))] # NoIno)
  /\ \A p \in Process :
       fileExisted[p] => call # NoCall /\ call.by = p /\ "O_CREAT" \in call.flags

(* A file created in the run has a time, which is not before the epoch,    *)
(* unless it is a socket.                                                  *)
TimesKnown ==
  /\ \A p \in Process : clock[p] >= epoch
  /\ \A i \in Ino : mtimeMap[i] # Absent => mtimeMap[i] >= epoch
  /\ "bind" \notin program => \A i \in Live : node[i].number > 1 => mtimeMap[i] # Absent

(* What holds after every call; together these are inductive.  The part    *)
(* about the hooks of an open is what recordOpened relies on.              *)
Inv ==
  /\ TypeOK /\ VirtualInodesDistinct /\ FlagInSync
  /\ HostInv /\ CallInv /\ TimesKnown

(* A file created in the run looks newer, in whole seconds, than a file    *)
(* from before it that no tracee has truncated (the comment of             *)
(* virtualMtime on tools that compare whole seconds).  File 1 is from      *)
(* before the run.  Sockets made by bind, of which dettrace knows nothing, *)
(* are left out.                                                           *)
CreatedLooksNewer ==
  "bind" \notin program => \A i, j \in Live :
    node[i].number > 1 /\ node[j].number = 1 /\ mtimeMap[j] = Absent
      => to_timespec(virtualMtime(i)) > to_timespec(virtualMtime(j))

(* The host's choice of inodes does not show in what stat and open tell of *)
(* files: it is what VirtualFiles says, which has no inodes.               *)
Virtual == INSTANCE VirtualFiles WITH
  table <- {[file |-> node[i].number, ino |-> inodeMap[i], mtime |-> mtimeMap[i]] :
              i \in Live},
  fresh <- freshValue,
  old <- oldTime

HostInodesDoNotShow == Virtual!Spec

=============================================================================
