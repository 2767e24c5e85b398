---------------------------- MODULE FilesProofs -----------------------------
(***************************************************************************)
(* Files for every host file system: Inv is an invariant, files created in *)
(* the run look newer than those from before it, and Files implements      *)
(* VirtualFiles, which has no inodes.                                      *)
(***************************************************************************)
EXTENDS Files, TLAPS

Dirs == Dirfd \cup {AT_FDCWD}

(* Division: a whole second later is at least one more.                    *)
LEMMA SecondsLater ==
  ASSUME NEW a \in Nat, NEW b \in Nat, a >= b + Second
  PROVE  to_timespec(a) > to_timespec(b)
<1>1. Second \in Nat \ {0}  BY FilesAssumption
<1>2. QED BY <1>1 DEF to_timespec

(* Names are places of the model's file system, and the tracer resolves    *)
(* them to the place where the kernel looks.                               *)
LEMMA PathsAgree ==
  ASSUME NEW n \in Name, NEW d \in Dirs
  PROVE  /\ kernelPath(n, d) \in Location
         /\ resolve_tracee_path(n, d) = kernelPath(n, d)
         /\ resolve_tracee_path(n, NoDirfd) = kernelPath(n, AT_FDCWD)
         /\ kernelPath(n, AT_FDCWD) \in Location
BY FilesAssumption DEF Dirs, kernelPath, resolve_tracee_path, Location, AT_FDCWD, NoDirfd

(* Following a link leads to a place of the file system, if the host is in *)
(* order (stat and open follow, lstat does not).                           *)
LEMMA FollowStays ==
  ASSUME TypeOK, HostInv, NEW l \in Location
  PROVE  Follow(dir, l) \in Location
<1>1. CASE dir[l] # NoIno
  <2>1. dir[l] \in Linked(dir)  BY <1>1 DEF Linked
  <2>2. dir[l] \in Live  BY <2>1 DEF HostInv
  <2>3. QED BY <2>2 DEF HostInv, Follow
<1>2. CASE dir[l] = NoIno  BY <1>2 DEF Follow
<1>3. QED BY <1>1, <1>2

-----------------------------------------------------------------------------
(* What the two ways to change the host's file system do to it.            *)

HostTypes ==
  /\ dir \in [Location -> Ino \cup {NoIno}]
  /\ node \in [Ino -> [number : Nat, kind : Kind, target : Location \cup {NoIno}]]
  /\ opened \subseteq Ino
  /\ files \in Nat

(* Names and descriptors go, or are added for files that exist.            *)
LEMMA NamesChange ==
  ASSUME HostTypes, HostInv,
         NEW d \in [Location -> Ino \cup {NoIno}], NEW o \in SUBSET Ino,
         Linked(d) \cup o \subseteq Live, SetNames(d, o)
  PROVE  /\ HostTypes' /\ HostInv'
         /\ Live' = Linked(d) \cup o
         /\ \A i \in Live' : node'[i] = node[i]
<1>1. FreeNode \in [number : Nat, kind : Kind, target : Location \cup {NoIno}]
  BY DEF FreeNode, Node, Kind
<1>2. HostTypes'  BY <1>1 DEF HostTypes, SetNames
<1>3. \A i \in Ino : node'[i] = IF i \in Linked(d) \cup o THEN node[i] ELSE FreeNode
  BY DEF SetNames
<1>4. Linked(d) \cup o \subseteq Ino  BY DEF Live
<1>5. Live' = Linked(d) \cup o  BY <1>3, <1>4 DEF Live, FreeNode, Node
<1>6. \A i \in Live' : node'[i] = node[i] /\ i \in Live  BY <1>3, <1>4, <1>5
<1>7. Linked(dir)' = Linked(d)  BY DEF SetNames, Linked
<1>8. HostInv'
  <2>1. (Live = Linked(dir) \cup opened)'  BY <1>5, <1>7 DEF SetNames
  <2>2. files' = files  BY DEF SetNames
  <2>3. \A i \in Live' : node'[i].number <= files'  BY <1>6, <2>2 DEF HostInv
  <2>4. \A i, j \in Live' : node'[i].number = node'[j].number => i = j  BY <1>6 DEF HostInv
  <2>5. \A i \in Live' : node'[i].kind = "symlink" => node'[i].target \in Location
    BY <1>6 DEF HostInv
  <2>6. QED BY <2>1, <2>3, <2>4, <2>5 DEF HostInv
<1>9. QED BY <1>2, <1>5, <1>6, <1>8

(* A file is made in an unused inode.                                      *)
LEMMA FileMade ==
  ASSUME HostTypes, HostInv,
         NEW d \in [Location -> Ino \cup {NoIno}], NEW o \in SUBSET Ino,
         NEW i \in Unused, NEW k \in Kind, NEW t \in Location \cup {NoIno},
         k = "symlink" => t \in Location,
         Linked(d) \cup o = Live \cup {i}, MakeFile(i, d, o, k, t)
  PROVE  /\ HostTypes' /\ HostInv'
         /\ Live' = Live \cup {i}
         /\ node'[i].number = files + 1 /\ files' = files + 1
         /\ \A j \in Live : node'[j] = node[j]
<1>1. i \in Ino /\ i \notin Live  BY DEF Unused
<1>2. Node(files + 1, k, t) \in [number : Nat, kind : Kind, target : Location \cup {NoIno}]
  BY DEF HostTypes, Node
<1>3. HostTypes'
  <2>1. node' \in [Ino -> [number : Nat, kind : Kind, target : Location \cup {NoIno}]]
    BY <1>2, Zenon DEF HostTypes, MakeFile
  <2>2. QED BY <2>1 DEF HostTypes, MakeFile
<1>4. node'[i] = Node(files + 1, k, t)  BY <1>1 DEF HostTypes, MakeFile
<1>5. \A j \in Ino : j # i => node'[j] = node[j]  BY DEF HostTypes, MakeFile
<1>6. files \in Nat /\ files' = files + 1  BY DEF HostTypes, MakeFile
<1>7. node'[i].number = files + 1 /\ node'[i].kind = k /\ node'[i].target = t
  BY <1>4 DEF Node
<1>8. Live' = Live \cup {i}  BY <1>1, <1>5, <1>6, <1>7 DEF Live
<1>9. \A j \in Live : j \in Ino /\ node'[j] = node[j] /\ node[j].number \in Nat
                        /\ node[j].number <= files
  BY <1>1, <1>5 DEF Live, HostInv, HostTypes
<1>10. HostInv'
  <2>1. (Live = Linked(dir) \cup opened)'
    <3>1. Linked(dir)' = Linked(d)  BY DEF MakeFile, Linked
    <3>2. QED BY <3>1, <1>8 DEF MakeFile
  <2>2. \A j \in Live' : node'[j].number <= files'  BY <1>6, <1>7, <1>8, <1>9
  <2>3. \A j, m \in Live' : node'[j].number = node'[m].number => j = m
    BY <1>6, <1>7, <1>8, <1>9 DEF HostInv
  <2>4. \A j \in Live' : node'[j].kind = "symlink" => node'[j].target \in Location
    BY <1>7, <1>8, <1>9 DEF HostInv
  <2>5. QED BY <2>1, <2>2, <2>3, <2>4 DEF HostInv
<1>11. QED BY <1>3, <1>6, <1>7, <1>8, <1>9, <1>10

-----------------------------------------------------------------------------
(* The kinds of steps, by their effect on files and tables.  The calls are *)
(* many more, but each is one of these.                                    *)

SameFiles ==
  /\ HostTypes' /\ HostInv'
  /\ Live' \subseteq Live /\ files' = files
  /\ \A i \in Live' : node'[i] = node[i]

NewFile(i) ==
  /\ i \in Unused
  /\ HostTypes' /\ HostInv'
  /\ Live' = Live \cup {i}
  /\ node'[i].number = files + 1 /\ files' = files + 1
  /\ \A j \in Live : node'[j] = node[j]

Vanishes == SameFiles /\ UNCHANGED <<mapVars, mtimeMap, clock>> /\ reply' = NoReply

Creates(p, i) == NewFile(i) /\ recordCreation(p, i) /\ reply' = NoReply

Appears(i) ==
  /\ "bind" \in program
  /\ NewFile(i)
  /\ UNCHANGED <<mapVars, mtimeMap, clock>> /\ reply' = NoReply

Truncates(p, i) ==
  /\ i \in Live /\ SameFiles /\ Live' = Live
  /\ mtimeMap' = [mtimeMap EXCEPT ![i] = clock[p]]
  /\ incrementTime(p)
  /\ UNCHANGED mapVars /\ reply' = NoReply

Renumbers(p, i) ==
  /\ "creat truncates" \in program
  /\ i \in Live /\ SameFiles /\ Live' = Live
  /\ recordCreation(p, i) /\ reply' = NoReply

Reports(p, i) == i \in Live /\ report(p, i)

Passes(p, t) ==
  /\ clock' = [clock EXCEPT ![p] = @ + t]
  /\ UNCHANGED <<hostVars, mapVars, mtimeMap>> /\ reply' = NoReply

Effect ==
  \/ Vanishes
  \/ \E i \in Ino : Appears(i)
  \/ \E p \in Process, i \in Ino :
       Creates(p, i) \/ Truncates(p, i) \/ Renumbers(p, i) \/ Reports(p, i)
  \/ \E p \in Process, t \in {1, Second} : Passes(p, t)

CallPart ==
  /\ fileExisted' \in [Process -> BOOLEAN]
  /\ thrown' = FALSE
  /\ CallInv'

(* The parts of the invariant that most steps need.                        *)
LEMMA InvFacts ==
  ASSUME Inv
  PROVE  TypeOK /\ HostTypes /\ HostInv /\ CallInv
BY DEF Inv, TypeOK, HostTypes

(* A call that leaves the file system alone leaves the files alone.        *)
LEMMA HostStays ==
  ASSUME HostTypes, HostInv, UNCHANGED hostVars
  PROVE  SameFiles /\ Live' = Live /\ node' = node
<1>1. dir' = dir /\ node' = node /\ opened' = opened /\ files' = files  BY DEF hostVars
<1>2. Live' = Live /\ Linked(dir)' = Linked(dir)  BY <1>1 DEF Live, Linked
<1>3. HostTypes'  BY <1>1 DEF HostTypes
<1>4. HostInv'  BY <1>1, <1>2 DEF HostInv
<1>5. QED BY <1>1, <1>2, <1>3, <1>4 DEF SameFiles

(* Calls with one hook only leave fileExisted reset.                       *)
LEMMA IdleCall ==
  ASSUME Inv, Idle, UNCHANGED <<fileExisted, call, thrown>>
  PROVE  CallPart
<1>1. fileExisted' = fileExisted /\ call' = NoCall /\ thrown' = FALSE  BY DEF Idle
<1>2. \A p \in Process : ~fileExisted[p]  BY DEF Inv, CallInv, Idle
<1>3. CallInv'  BY <1>1, <1>2 DEF CallInv
<1>4. QED BY <1>1, <1>3 DEF CallPart, Inv, TypeOK

(* A name that resolves stands for a file that exists.                     *)
LEMMA LinkedLive ==
  ASSUME HostTypes, HostInv, NEW l \in Location, dir[l] # NoIno
  PROVE  dir[l] \in Live
<1>1. dir[l] \in Linked(dir)  BY DEF Linked
<1>2. QED BY <1>1 DEF HostInv

-----------------------------------------------------------------------------
(* Names.                                                                  *)

(* Calls that change names only.                                           *)
LEMMA NamesOnlyEffect ==
  ASSUME Inv, NEW d \in [Location -> Ino \cup {NoIno}],
         Linked(d) \subseteq Linked(dir), NamesOnly(d)
  PROVE  Vanishes /\ CallPart
<1>1. Linked(d) \cup opened \subseteq Live  BY InvFacts DEF HostInv
<1>2. HostTypes /\ HostInv /\ opened \in SUBSET Ino  BY InvFacts DEF HostTypes
<1>3. SetNames(d, opened)  BY DEF NamesOnly
<1>4. /\ HostTypes' /\ HostInv'
      /\ Live' = Linked(d) \cup opened
      /\ \A i \in Live' : node'[i] = node[i]
  BY <1>1, <1>2, <1>3, NamesChange
<1>5. SameFiles  BY <1>1, <1>3, <1>4 DEF SameFiles, SetNames
<1>6. Vanishes  BY <1>5 DEF Vanishes, NamesOnly
<1>7. CallPart  BY IdleCall DEF NamesOnly
<1>8. QED BY <1>6, <1>7

(* unlink, unlinkat and rmdir take a name away.                            *)
LEMMA UnlinkEffect ==
  ASSUME Inv, NEW l \in Location, NamesOnly([dir EXCEPT ![l] = NoIno])
  PROVE  Vanishes /\ CallPart
<1> DEFINE d == [dir EXCEPT ![l] = NoIno]
<1>1. dir \in [Location -> Ino \cup {NoIno}]  BY InvFacts DEF HostTypes
<1>2. d \in [Location -> Ino \cup {NoIno}]  BY <1>1
<1>3. Linked(d) \subseteq Linked(dir)  BY <1>1 DEF Linked
<1>4. QED BY <1>2, <1>3, NamesOnlyEffect, Zenon

(* rename, renameat and renameat2 move a name, perhaps over another.       *)
LEMMA RenamedEffect ==
  ASSUME Inv, NEW l \in Location, NEW m \in Location, Renamed(l, m)
  PROVE  Vanishes /\ CallPart
<1> DEFINE d == [dir EXCEPT ![m] = dir[l], ![l] = NoIno]
<1>1. dir \in [Location -> Ino \cup {NoIno}]  BY InvFacts DEF HostTypes
<1>2. d \in [Location -> Ino \cup {NoIno}]  BY <1>1
<1>3. Linked(d) \subseteq Linked(dir)  BY <1>1 DEF Linked
<1>4. QED BY <1>2, <1>3, NamesOnlyEffect, Zenon DEF Renamed

(* link and linkat add a name of a file that exists.                       *)
LEMMA LinkableEffect ==
  ASSUME Inv, NEW l \in Location, NEW m \in Location, Linkable(l, m)
  PROVE  Vanishes /\ CallPart
<1> DEFINE d == [dir EXCEPT ![m] = dir[l]]
<1>1. dir \in [Location -> Ino \cup {NoIno}]  BY InvFacts DEF HostTypes
<1>2. d \in [Location -> Ino \cup {NoIno}]  BY <1>1
<1>3. Linked(d) \subseteq Linked(dir)  BY <1>1 DEF Linked
<1>4. QED BY <1>2, <1>3, NamesOnlyEffect, Zenon DEF Linkable

(* close gives up a descriptor.                                            *)
LEMMA CloseEffect ==
  ASSUME Inv, NEW i \in Ino, closeFile(i)
  PROVE  Vanishes /\ CallPart
<1>1. Linked(dir) \cup (opened \ {i}) \subseteq Live  BY InvFacts DEF HostInv
<1>2. /\ HostTypes /\ HostInv /\ opened \ {i} \in SUBSET Ino
      /\ dir \in [Location -> Ino \cup {NoIno}]
  BY InvFacts DEF HostTypes
<1>3. SetNames(dir, opened \ {i})  BY DEF closeFile
<1>4. /\ HostTypes' /\ HostInv'
      /\ Live' = Linked(dir) \cup (opened \ {i})
      /\ \A j \in Live' : node'[j] = node[j]
  BY <1>1, <1>2, <1>3, NamesChange
<1>5. SameFiles  BY <1>1, <1>3, <1>4 DEF SameFiles, SetNames
<1>6. Vanishes  BY <1>5 DEF Vanishes, closeFile
<1>7. CallPart  BY IdleCall DEF closeFile
<1>8. QED BY <1>6, <1>7

-----------------------------------------------------------------------------
(* Files that are made.                                                    *)

(* An unused inode gets the free name l.                                   *)
LEMMA NamedFileMade ==
  ASSUME HostTypes, HostInv, NEW l \in Location, dir[l] = NoIno,
         NEW i \in Unused, NEW o \in SUBSET Ino,
         opened \subseteq o, o \subseteq opened \cup {i},
         NEW k \in Kind, NEW t \in Location \cup {NoIno}, k = "symlink" => t \in Location,
         MakeFile(i, [dir EXCEPT ![l] = i], o, k, t)
  PROVE  NewFile(i) /\ dir'[l] = i
<1> DEFINE d == [dir EXCEPT ![l] = i]
<1>1. i \in Ino /\ i # NoIno  BY FilesAssumption DEF Unused
<1>2. dir \in [Location -> Ino \cup {NoIno}]  BY DEF HostTypes
<1>3. d \in [Location -> Ino \cup {NoIno}]  BY <1>1, <1>2
<1>4. d[l] = i /\ \A m \in Location : m # l => d[m] = dir[m]  BY <1>2
<1>5. Linked(d) = Linked(dir) \cup {i}
  <2> HIDE DEF d
  <2>1. \A x \in Linked(d) : x \in Linked(dir) \cup {i}  BY <1>4 DEF Linked
  <2>2. \A x \in Linked(dir) : x \in Linked(d)  BY <1>4 DEF Linked
  <2>3. i \in Linked(d)  BY <1>1, <1>4 DEF Linked
  <2>4. QED BY <2>1, <2>2, <2>3
<1>6. Linked(d) \cup o = Live \cup {i}  BY <1>5, Zenon DEF HostInv
<1>7. dir' = d  BY DEF MakeFile
<1>8. NewFile(i)
  <2>1. MakeFile(i, d, o, k, t)  OBVIOUS
  <2> HIDE DEF d
  <2>2. /\ HostTypes' /\ HostInv'
        /\ Live' = Live \cup {i}
        /\ node'[i].number = files + 1 /\ files' = files + 1
        /\ \A j \in Live : node'[j] = node[j]
    BY <2>1, <1>3, <1>6, FileMade
  <2>3. QED BY <2>2 DEF NewFile
<1>9. QED BY <1>4, <1>7, <1>8

(* mkdir, mknod, symlink and bind make a file in an inode of the host's    *)
(* choice.                                                                 *)
LEMMA NewNodeEffect ==
  ASSUME Inv, NEW p \in Process, NEW l \in Location,
         NEW k \in Kind, NEW t \in Location \cup {NoIno}, k = "symlink" => t \in Location,
         newNode(p, l, k, t)
  PROVE  /\ \E i \in Unused : NewFile(i) /\ dir'[l] = i
         /\ reply' = NoReply /\ CallPart
<1>1. HostTypes /\ HostInv /\ opened \in SUBSET Ino  BY InvFacts DEF HostTypes
<1>2. PICK i \in Unused : MakeFile(i, [dir EXCEPT ![l] = i], opened, k, t)  BY DEF newNode
<1>3. dir[l] = NoIno  BY DEF newNode
<1>4. NewFile(i) /\ dir'[l] = i  BY <1>1, <1>2, <1>3, NamedFileMade
<1>5. CallPart  BY IdleCall DEF newNode
<1>6. QED BY <1>4, <1>5 DEF newNode

(* The post-hook finds the inode that the kernel has just used.            *)
LEMMA NodeRecorded ==
  ASSUME Inv, NEW p \in Process, NEW l \in Location,
         NEW k \in Kind, NEW t \in Location \cup {NoIno}, k = "symlink" => t \in Location,
         newNode(p, l, k, t), NEW n, NEW d, resolve_tracee_path(n, d) = l,
         recordNode(p, n, d)
  PROVE  Effect /\ CallPart
<1>1. /\ \E i \in Unused : NewFile(i) /\ dir'[l] = i
      /\ reply' = NoReply /\ CallPart
  BY NewNodeEffect
<1>2. PICK i \in Unused : NewFile(i) /\ dir'[l] = i  BY <1>1
<1>3. i \in Ino /\ i # NoIno  BY FilesAssumption DEF Unused
<1>4. inode_from_tracee(dir', n, d) = i  BY <1>2 DEF inode_from_tracee
<1>5. recordCreation(p, i)  BY <1>3, <1>4 DEF recordNode
<1>6. Creates(p, i)  BY <1>1, <1>2, <1>5 DEF Creates
<1>7. QED BY <1>1, <1>3, <1>6 DEF Effect

-----------------------------------------------------------------------------
(* open, openat and creat.                                                 *)

(* open fails, opens the file the name stands for, or makes a new one.     *)
LEMMA KernelOpens ==
  ASSUME Inv, NEW l \in Location, NEW f \in OpenFlags, NEW fd \in Ino \cup {NoIno},
         kernelOpen(l, f, fd)
  PROVE  \/ fd = NoIno /\ SameFiles /\ Live' = Live
         \/ /\ fd \in Live /\ fd = dir[l] /\ "O_TMPFILE" \notin f
            /\ SameFiles /\ Live' = Live
         \/ /\ NewFile(fd)
            /\ "O_TMPFILE" \in f \/ ("O_CREAT" \in f /\ dir[l] = NoIno)
<1>1. /\ HostTypes /\ HostInv /\ opened \in SUBSET Ino
      /\ dir \in [Location -> Ino \cup {NoIno}]
  BY InvFacts DEF HostTypes
<1>2. CASE fd = NoIno /\ UNCHANGED hostVars  BY <1>1, <1>2, HostStays
<1>3. CASE fd = dir[l] /\ fd # NoIno /\ "O_TMPFILE" \notin f /\ SetNames(dir, opened \cup {fd})
  <2>1. fd \in Live  BY <1>1, <1>3, LinkedLive
  <2>2. Linked(dir) \cup (opened \cup {fd}) = Live  BY <2>1, <1>1 DEF HostInv
  <2>3. opened \cup {fd} \in SUBSET Ino  BY <1>1, <1>3
  <2>4. /\ HostTypes' /\ HostInv'
        /\ Live' = Linked(dir) \cup (opened \cup {fd})
        /\ \A i \in Live' : node'[i] = node[i]
    BY <1>1, <1>3, <2>2, <2>3, NamesChange
  <2>5. SameFiles /\ Live' = Live  BY <1>3, <2>2, <2>4 DEF SameFiles, SetNames
  <2>6. QED BY <1>3, <2>1, <2>5
<1>4. CASE /\ fd \in Unused /\ "O_TMPFILE" \in f
           /\ MakeFile(fd, dir, opened \cup {fd}, "regular", NoIno)
  <2>1. Linked(dir) \cup (opened \cup {fd}) = Live \cup {fd}  BY <1>1 DEF HostInv
  <2>2. opened \cup {fd} \in SUBSET Ino  BY <1>1, <1>4 DEF Unused
  <2>3. "regular" \in Kind /\ "regular" # "symlink"  BY DEF Kind
  <2>4. /\ HostTypes' /\ HostInv'
        /\ Live' = Live \cup {fd}
        /\ node'[fd].number = files + 1 /\ files' = files + 1
        /\ \A j \in Live : node'[j] = node[j]
    BY <1>1, <1>4, <2>1, <2>2, <2>3, FileMade
  <2>5. QED BY <1>4, <2>4 DEF NewFile
<1>5. CASE /\ fd \in Unused /\ dir[l] = NoIno /\ "O_CREAT" \in f
           /\ MakeFile(fd, [dir EXCEPT ![l] = fd], opened \cup {fd}, "regular", NoIno)
  <2>1. opened \cup {fd} \in SUBSET Ino  BY <1>1, <1>5 DEF Unused
  <2>2. "regular" \in Kind /\ "regular" # "symlink"  BY DEF Kind
  <2>3. NewFile(fd)  BY <1>1, <1>5, <2>1, <2>2, NamedFileMade, Zenon
  <2>4. QED BY <1>5, <2>3
<1>6. QED BY <1>2, <1>3, <1>4, <1>5 DEF kernelOpen

(* recordOpened takes a file for new exactly when the kernel has made it,  *)
(* given that fileExisted says what the kernel finds.                      *)
LEMMA OpenRecorded ==
  ASSUME Inv, NEW p \in Process, NEW l \in Location, NEW f \in OpenFlags,
         NEW fd \in Ino \cup {NoIno}, kernelOpen(l, f, fd), recordOpened(p, fd, f),
         "O_CREAT" \in f => (fileExisted[p] <=> dir[l] # NoIno), reply' = NoReply
  PROVE  Effect
<1>1. NoIno \notin Ino  BY FilesAssumption
<1>2. \/ fd = NoIno /\ SameFiles /\ Live' = Live
      \/ /\ fd \in Live /\ fd = dir[l] /\ "O_TMPFILE" \notin f
         /\ SameFiles /\ Live' = Live
      \/ /\ NewFile(fd)
         /\ "O_TMPFILE" \in f \/ ("O_CREAT" \in f /\ dir[l] = NoIno)
  BY KernelOpens
<1>3. CASE fd = NoIno /\ SameFiles
  <2>1. UNCHANGED <<mapVars, mtimeMap, clock>>  BY <1>3 DEF recordOpened
  <2>2. QED BY <1>3, <2>1 DEF Effect, Vanishes
<1>4. CASE fd \in Live /\ fd = dir[l] /\ "O_TMPFILE" \notin f /\ SameFiles /\ Live' = Live
  <2>1. fd \in Ino /\ fd # NoIno  BY <1>1, <1>4 DEF Live
  <2>2. ~("O_CREAT" \in f /\ ~fileExisted[p])  BY <1>4, <2>1
  <2>3. \/ UNCHANGED <<mapVars, mtimeMap, clock>>
        \/ /\ mtimeMap' = [mtimeMap EXCEPT ![fd] = clock[p]]
           /\ incrementTime(p)
           /\ UNCHANGED mapVars
    BY <1>4, <2>2 DEF recordOpened, readInodeFor
  <2>4. Vanishes \/ Truncates(p, fd)  BY <1>4, <2>3 DEF Vanishes, Truncates
  <2>5. QED BY <2>1, <2>4 DEF Effect
<1>5. CASE NewFile(fd) /\ ("O_TMPFILE" \in f \/ ("O_CREAT" \in f /\ dir[l] = NoIno))
  <2>1. fd \in Ino /\ fd # NoIno  BY <1>1, <1>5 DEF NewFile, Unused
  <2>2. recordCreation(p, fd)  BY <1>5, <2>1 DEF recordOpened, readInodeFor
  <2>3. Creates(p, fd)  BY <1>5, <2>2 DEF Creates
  <2>4. QED BY <2>1, <2>3 DEF Effect
<1>6. QED BY <1>2, <1>3, <1>4, <1>5

(* The post-hook, for the place l the kernel has opened.                   *)
LEMMA PostEffect ==
  ASSUME Inv, call # NoCall, NEW l \in Location, NEW fd \in Ino \cup {NoIno},
         l = Follow(dir, resolve_tracee_path(call.name, call.dirfd)),
         kernelOpen(l, call.flags, fd), handlePostOpens(call.by, fd, call.flags),
         call' = NoCall, reply' = NoReply, UNCHANGED thrown
  PROVE  Effect /\ CallPart
<1>1. call \in [nr : {"open", "openat"}, by : Process, name : Name,
                dirfd : Dirfd \cup {AT_FDCWD, NoDirfd}, flags : OpenFlags]
  BY DEF Inv, CallInv
<1>2. call.by \in Process /\ call.flags \in OpenFlags  BY <1>1
<1>3. "O_CREAT" \in call.flags => (fileExisted[call.by] <=> dir[l] # NoIno)
  BY Zenon DEF Inv, CallInv
<1>4. Effect  BY <1>2, <1>3, OpenRecorded DEF handlePostOpens
<1>5. fileExisted \in [Process -> BOOLEAN] /\ thrown = FALSE  BY DEF Inv, TypeOK, FlagInSync
<1>6. fileExisted' = [fileExisted EXCEPT ![call.by] = FALSE]  BY DEF handlePostOpens
<1>7. fileExisted' \in [Process -> BOOLEAN]  BY <1>5, <1>6, Zenon
<1>8. \A p \in Process : ~fileExisted'[p]
  <2>1. \A p \in Process : fileExisted[p] => call.by = p  BY DEF Inv, CallInv
  <2>2. QED BY <1>5, <1>6, <2>1
<1>9. CallInv'  BY <1>8 DEF CallInv
<1>10. CallPart  BY <1>5, <1>7, <1>9 DEF CallPart
<1>11. QED BY <1>4, <1>10

(* The post-hooks of open and openat record what the kernel has done.      *)
LEMMA OpenPostEffect ==
  ASSUME Inv, NEW fd \in Ino \cup {NoIno}, openPost(fd) \/ openatPost(fd)
  PROVE  Effect /\ CallPart
<1>1. call # NoCall  BY DEF openPost, openatPost, NoCall
<1>2. call \in [nr : {"open", "openat"}, by : Process, name : Name,
                dirfd : Dirfd \cup {AT_FDCWD, NoDirfd}, flags : OpenFlags]
  BY <1>1 DEF Inv, CallInv
<1>3. call.name \in Name /\ call.dirfd \in Dirfd \cup {AT_FDCWD, NoDirfd}  BY <1>2
<1>4. call.nr = "open" <=> call.dirfd = NoDirfd  BY <1>1 DEF Inv, CallInv
<1>5. TypeOK /\ HostInv  BY InvFacts
<1> DEFINE l == Follow(dir, resolve_tracee_path(call.name, call.dirfd))
<1>6. CASE openPost(fd)
  <2>1. call.dirfd = NoDirfd  BY <1>4, <1>6 DEF openPost
  <2>2. AT_FDCWD \in Dirs  BY DEF Dirs
  <2>3. /\ resolve_tracee_path(call.name, NoDirfd) = kernelPath(call.name, AT_FDCWD)
        /\ kernelPath(call.name, AT_FDCWD) \in Location
    BY <1>3, <2>2, PathsAgree
  <2>4. l \in Location  BY <1>5, <2>1, <2>3, FollowStays
  <2>5. kernelOpen(l, call.flags, fd)  BY <1>6, <2>1, <2>3 DEF openPost
  <2>6. QED BY <1>1, <1>6, <2>4, <2>5, PostEffect DEF openPost
<1>7. CASE openatPost(fd)
  <2>1. call.dirfd \in Dirs
    <3>1. call.nr # "open"  BY <1>7 DEF openatPost
    <3>2. QED BY <3>1, <1>3, <1>4 DEF Dirs
  <2>2. /\ resolve_tracee_path(call.name, call.dirfd) = kernelPath(call.name, call.dirfd)
        /\ kernelPath(call.name, call.dirfd) \in Location
    BY <1>3, <2>1, PathsAgree
  <2>3. l \in Location  BY <1>5, <2>2, FollowStays
  <2>4. kernelOpen(l, call.flags, fd)  BY <1>7, <2>2 DEF openatPost
  <2>5. QED BY <1>1, <1>7, <2>3, <2>4, PostEffect DEF openatPost
<1>8. QED BY <1>6, <1>7

(* The pre-hook finds fileExisted reset, and sets it for its call.         *)
LEMMA OpenPreEffect ==
  ASSUME Inv, NEW p \in Process, NEW n \in Name \cup HiddenName, NEW f \in OpenFlags,
         NEW d \in Dirs \cup {NoDirfd}, NEW nr \in {"open", "openat"},
         nr = "open" <=> d = NoDirfd, n \in Name \/ "O_TMPFILE" \notin f,
         Idle, handlePreOpens(p, nr, n, d, f)
  PROVE  Effect /\ CallPart
<1>1. HostTypes /\ HostInv  BY InvFacts
<1>2. UNCHANGED hostVars  BY DEF handlePreOpens
<1>3. Vanishes  BY <1>1, <1>2, HostStays DEF Vanishes, handlePreOpens
<1>4. \A q \in Process : ~fileExisted[q]  BY DEF Inv, CallInv, Idle
<1>5. CASE UNCHANGED <<call, fileExisted, thrown>>
  <2>1. CallPart  BY <1>5, IdleCall
  <2>2. QED BY <1>3, <2>1 DEF Effect
<1>6. CASE ~UNCHANGED <<call, fileExisted, thrown>>
  <2> DEFINE exists == tracee_file_exists(n, d)
  <2>1. ~("O_TMPFILE" \notin f /\ n \in HiddenName)  BY <1>6 DEF handlePreOpens
  <2>2. n \in Name  BY <2>1
  <2>3. /\ call' = [nr |-> nr, by |-> p, name |-> n, dirfd |-> d, flags |-> f]
        /\ fileExisted' = [fileExisted EXCEPT ![p] =
                             IF {"O_CREAT"} \subseteq f THEN exists ELSE @]
        /\ thrown' = thrown
    BY <1>4, <2>1 DEF handlePreOpens
  <2>4. exists \in BOOLEAN  BY DEF tracee_file_exists
  <2> HIDE DEF exists
  <2>5. fileExisted \in [Process -> BOOLEAN] /\ thrown = FALSE  BY DEF Inv, TypeOK, FlagInSync
  <2>6. fileExisted' \in [Process -> BOOLEAN]  BY <2>3, <2>4, <2>5
  <2>7. \A q \in Process : q # p => ~fileExisted'[q]  BY <1>4, <2>3, <2>5
  <2>8. "O_CREAT" \in f => (fileExisted'[p] = exists)  BY <2>3, <2>5
  <2>9. "O_CREAT" \notin f => ~fileExisted'[p]  BY <1>4, <2>3, <2>5
  <2>10. call' # NoCall /\ call'.by = p /\ call'.flags = f /\ call'.nr = nr
           /\ call'.dirfd = d /\ call'.name = n
    BY <2>3 DEF NoCall
  <2>11. call' \in [nr : {"open", "openat"}, by : Process, name : Name,
                    dirfd : Dirfd \cup {AT_FDCWD, NoDirfd}, flags : OpenFlags]
    BY <2>2, <2>3 DEF Dirs
  <2>12. exists = (dir[Follow(dir, resolve_tracee_path(n, d))] # NoIno)'
    <3>1. dir' = dir /\ node' = node  BY <1>2 DEF hostVars
    <3>2. Follow(dir, resolve_tracee_path(n, d))' = Follow(dir, resolve_tracee_path(n, d))
      BY <3>1 DEF Follow
    <3>3. QED BY <3>1, <3>2 DEF exists, tracee_file_exists
  <2>13. CallInv'
    <3>1. (call # NoCall =>
             /\ call.nr = "open" <=> call.dirfd = NoDirfd
             /\ "O_CREAT" \in call.flags =>
                  fileExisted[call.by] =
                    (dir[Follow(dir, resolve_tracee_path(call.name, call.dirfd))] # NoIno))'
      BY <2>8, <2>10, <2>12
    <3>2. (\A q \in Process :
             fileExisted[q] => call # NoCall /\ call.by = q /\ "O_CREAT" \in call.flags)'
      BY <2>7, <2>9, <2>10
    <3>3. QED BY <2>11, <3>1, <3>2 DEF CallInv
  <2>14. CallPart  BY <2>3, <2>5, <2>6, <2>13 DEF CallPart
  <2>15. QED BY <1>3, <2>14 DEF Effect
<1>7. QED BY <1>5, <1>6

(* creat makes a file, or renumbers one that is there.                     *)
LEMMA CreatEffect ==
  ASSUME Inv, NEW p \in Process, NEW n \in Name, NEW fd \in Ino, creat(p, n, fd)
  PROVE  Effect /\ CallPart
<1> DEFINE l == Follow(dir, kernelPath(n, AT_FDCWD))
           f == {"O_CREAT", "O_TRUNC"}
<1>1. AT_FDCWD \in Dirs  BY DEF Dirs
<1>2. kernelPath(n, AT_FDCWD) \in Location  BY <1>1, PathsAgree
<1>3. l \in Location  BY <1>2, InvFacts, FollowStays
<1>4. f \in OpenFlags  BY DEF OpenFlags
<1>5. kernelOpen(l, f, fd) /\ fd # NoIno  BY Zenon DEF creat
<1>6. recordCreation(p, fd) /\ reply' = NoReply  BY Zenon DEF creat, readInodeFor
<1>7. \/ fd \in Live /\ SameFiles /\ Live' = Live
      \/ NewFile(fd)
  <2> HIDE DEF l, f
  <2>1. QED BY <1>3, <1>4, <1>5, KernelOpens
<1>8. fd \in Unused \/ "creat truncates" \in program  BY Zenon DEF creat
<1>9. Creates(p, fd) \/ Renumbers(p, fd)
  BY <1>6, <1>7, <1>8, Zenon DEF Creates, Renumbers, Unused
<1>10. CallPart  BY IdleCall, Zenon DEF creat
<1>11. QED BY <1>9, <1>10 DEF Effect

-----------------------------------------------------------------------------
(* Every step has one of the effects.                                      *)

(* A report by name is about a file that exists.                           *)
LEMMA ReportEffect ==
  ASSUME Inv, NEW p \in Process, NEW l \in Location, report(p, dir[l])
  PROVE  Effect /\ CallPart
<1>1. dir[l] \in Live  BY InvFacts, LinkedLive DEF report
<1>2. dir[l] \in Ino /\ Reports(p, dir[l])  BY <1>1 DEF Reports, Live
<1>3. CallPart  BY IdleCall DEF report
<1>4. QED BY <1>2, <1>3 DEF Effect

(* A report by descriptor is about a file that exists.                     *)
LEMMA FstatEffect ==
  ASSUME Inv, NEW p \in Process, NEW i \in Ino, fstat(p, i)
  PROVE  Effect /\ CallPart
<1>1. i \in Live /\ report(p, i)  BY InvFacts DEF fstat, handleStatFamily, HostInv
<1>2. Reports(p, i)  BY <1>1 DEF Reports
<1>3. CallPart  BY <1>1, IdleCall DEF report
<1>4. QED BY <1>2, <1>3 DEF Effect

(* utime, its relatives and timed waits let time pass.                     *)
LEMMA TimeEffect ==
  ASSUME Inv, NEW p \in Process, setTimes(p) \/ advanceTime(p)
  PROVE  Effect /\ CallPart
<1>1. Passes(p, 1) \/ Passes(p, Second)
  BY DEF Passes, setTimes, advanceTime, incrementTime
<1>2. CallPart  BY IdleCall DEF setTimes, advanceTime
<1>3. QED BY <1>1, <1>2 DEF Effect

(* symlink and symlinkat record the link itself.                           *)
LEMMA SymlinkEffect ==
  ASSUME Inv, NEW p \in Process, NEW n \in Name, NEW d \in Dirs, NEW t \in {"root"} \X Absolute,
         symlink(p, n, t) \/ symlinkat(p, n, d, t)
  PROVE  Effect /\ CallPart
<1>1. /\ kernelPath(n, d) \in Location
      /\ resolve_tracee_path(n, d) = kernelPath(n, d)
      /\ resolve_tracee_path(n, NoDirfd) = kernelPath(n, AT_FDCWD)
      /\ kernelPath(n, AT_FDCWD) \in Location
  BY PathsAgree
<1>2. t \in Location /\ "symlink" \in Kind  BY DEF Location, Kind
<1>3. CASE symlink(p, n, t)  BY <1>1, <1>2, <1>3, NodeRecorded DEF symlink
<1>4. CASE symlinkat(p, n, d, t)  BY <1>1, <1>2, <1>4, NodeRecorded DEF symlinkat
<1>5. QED BY <1>3, <1>4

(* mkdir, mknod and their relatives record what they make.                 *)
LEMMA NodeEffect ==
  ASSUME Inv, NEW p \in Process, NEW n \in Name, NEW d \in Dirs,
         mkdir(p, n) \/ mknod(p, n) \/ mkdirat(p, n, d) \/ mknodat(p, n, d)
  PROVE  Effect /\ CallPart
<1>1. /\ kernelPath(n, d) \in Location
      /\ resolve_tracee_path(n, d) = kernelPath(n, d)
      /\ resolve_tracee_path(n, NoDirfd) = kernelPath(n, AT_FDCWD)
      /\ kernelPath(n, AT_FDCWD) \in Location
  BY PathsAgree
<1>2. "directory" \in Kind /\ "other" \in Kind /\ NoIno \in Location \cup {NoIno}
  BY DEF Kind
<1>3. CASE mkdir(p, n)  BY <1>1, <1>2, <1>3, NodeRecorded DEF mkdir
<1>4. CASE mknod(p, n)  BY <1>1, <1>2, <1>4, NodeRecorded DEF mknod
<1>5. CASE mkdirat(p, n, d)  BY <1>1, <1>2, <1>5, NodeRecorded DEF mkdirat
<1>6. CASE mknodat(p, n, d)  BY <1>1, <1>2, <1>6, NodeRecorded DEF mknodat
<1>7. QED BY <1>3, <1>4, <1>5, <1>6

(* bind makes a file that no handler records.                              *)
LEMMA BindEffect ==
  ASSUME Inv, NEW p \in Process, NEW n \in Name, bind(p, n)
  PROVE  Effect /\ CallPart
<1>1. AT_FDCWD \in Dirs  BY DEF Dirs
<1>2. kernelPath(n, AT_FDCWD) \in Location  BY <1>1, PathsAgree
<1>3. "other" \in Kind /\ NoIno \in Location \cup {NoIno} /\ "other" # "symlink"  BY DEF Kind
<1>4. newNode(p, kernelPath(n, AT_FDCWD), "other", NoIno)  BY DEF bind
<1>5. /\ \E i \in Unused : NewFile(i)
      /\ reply' = NoReply /\ CallPart
  BY <1>2, <1>3, <1>4, NewNodeEffect
<1>6. PICK i \in Unused : NewFile(i)  BY <1>5
<1>7. Appears(i) /\ i \in Ino  BY <1>5, <1>6 DEF Appears, bind, Unused
<1>8. QED BY <1>5, <1>7 DEF Effect

(* stat, lstat, newfstatat and statx report.                               *)
LEMMA StatEffect ==
  ASSUME Inv, NEW p \in Process, NEW n \in Name, NEW d \in Dirs,
         stat(p, n) \/ lstat(p, n) \/ newfstatat(p, n, d) \/ statx(p, n, d)
  PROVE  Effect /\ CallPart
<1>1. kernelPath(n, d) \in Location /\ kernelPath(n, AT_FDCWD) \in Location  BY PathsAgree
<1>2. /\ Follow(dir, kernelPath(n, d)) \in Location
      /\ Follow(dir, kernelPath(n, AT_FDCWD)) \in Location
  BY <1>1, InvFacts, FollowStays
<1>3. PICK l \in Location : report(p, dir[l])
  BY <1>1, <1>2 DEF stat, lstat, newfstatat, statx, handleStatFamily
<1>4. QED BY <1>3, ReportEffect

(* The calls on names record nothing; files may vanish.                    *)
LEMMA RenameEffect ==
  ASSUME Inv, NEW n \in Name, NEW m \in Name, NEW d \in Dirs, NEW e \in Dirs,
         \/ unlink(n) \/ unlinkat(n, d) \/ rmdir(n) \/ rename(n, m) \/ link(n, m)
         \/ renameat(n, d, m, e) \/ renameat2(n, d, m, e) \/ linkat(n, d, m, e)
  PROVE  Effect /\ CallPart
<1>1. /\ kernelPath(n, d) \in Location /\ kernelPath(n, AT_FDCWD) \in Location
      /\ kernelPath(m, e) \in Location /\ kernelPath(m, AT_FDCWD) \in Location
  BY PathsAgree
<1>2. CASE unlink(n) \/ unlinkat(n, d) \/ rmdir(n)
  BY <1>1, <1>2, UnlinkEffect, Zenon DEF unlink, unlinkat, rmdir, Effect
<1>3. CASE rename(n, m) \/ renameat(n, d, m, e) \/ renameat2(n, d, m, e)
  BY <1>1, <1>3, RenamedEffect DEF rename, renameat, renameat2, Effect
<1>4. CASE link(n, m) \/ linkat(n, d, m, e)
  BY <1>1, <1>4, LinkableEffect DEF link, linkat, Effect
<1>5. QED BY <1>2, <1>3, <1>4

(* Every step has one of the effects, and leaves fileExisted in step with  *)
(* the open it belongs to.                                                 *)
LEMMA StepEffect ==
  ASSUME Inv, Step
  PROVE  Effect /\ CallPart
<1>1. AT_FDCWD \in Dirs /\ Dirs = Dirfd \cup {AT_FDCWD}  BY DEF Dirs
<1>2. NoDirfd \notin Dirs  BY FilesAssumption DEF Dirs, NoDirfd, AT_FDCWD
<1>3. CASE \E p \in Process, n \in Name \cup HiddenName, f \in OpenFlags :
             /\ n \in Name \/ "O_TMPFILE" \notin f
             /\ \/ openPre(p, n, f)
                \/ \E d \in Dirs : openatPre(p, n, d, f)
  <2>1. PICK p \in Process, n \in Name \cup HiddenName, f \in OpenFlags :
             /\ n \in Name \/ "O_TMPFILE" \notin f
             /\ \/ openPre(p, n, f)
                \/ \E d \in Dirs : openatPre(p, n, d, f)
    BY <1>3
  <2>2. CASE openPre(p, n, f)
    <3>1. Idle /\ handlePreOpens(p, "open", n, NoDirfd, f)  BY <2>2 DEF openPre
    <3>2. QED BY <2>1, <3>1, OpenPreEffect
  <2>3. CASE \E d \in Dirs : openatPre(p, n, d, f)
    <3>1. PICK d \in Dirs : Idle /\ handlePreOpens(p, "openat", n, d, f)
      BY <2>3 DEF openatPre
    <3>2. d # NoDirfd  BY <1>2
    <3>3. QED BY <2>1, <3>1, <3>2, OpenPreEffect
  <2>4. QED BY <2>1, <2>2, <2>3
<1>4. CASE \E fd \in Ino \cup {NoIno} : openPost(fd) \/ openatPost(fd)
  BY <1>4, OpenPostEffect
<1>5. CASE \E p \in Process, n \in Name :
             \/ \E fd \in Ino : creat(p, n, fd)
             \/ mkdir(p, n) \/ mknod(p, n) \/ bind(p, n)
             \/ stat(p, n) \/ lstat(p, n)
             \/ \E t \in {"root"} \X Absolute : symlink(p, n, t)
             \/ \E d \in Dirs :
                  \/ mkdirat(p, n, d) \/ mknodat(p, n, d)
                  \/ \E t \in {"root"} \X Absolute : symlinkat(p, n, d, t)
                  \/ newfstatat(p, n, d) \/ statx(p, n, d)
  <2>1. PICK p \in Process, n \in Name :
             \/ \E fd \in Ino : creat(p, n, fd)
             \/ mkdir(p, n) \/ mknod(p, n) \/ bind(p, n)
             \/ stat(p, n) \/ lstat(p, n)
             \/ \E t \in {"root"} \X Absolute : symlink(p, n, t)
             \/ \E d \in Dirs :
                  \/ mkdirat(p, n, d) \/ mknodat(p, n, d)
                  \/ \E t \in {"root"} \X Absolute : symlinkat(p, n, d, t)
                  \/ newfstatat(p, n, d) \/ statx(p, n, d)
    BY <1>5
  <2>2. CASE \E fd \in Ino : creat(p, n, fd)  BY <2>2, CreatEffect
  <2>3. CASE bind(p, n)  BY <2>3, BindEffect
  <2>4. CASE \/ stat(p, n) \/ lstat(p, n)
             \/ \E d \in Dirs : newfstatat(p, n, d) \/ statx(p, n, d)
    BY <1>1, <2>4, StatEffect
  <2>5. CASE \E d \in Dirs, t \in {"root"} \X Absolute :
               \/ symlink(p, n, t) \/ symlinkat(p, n, d, t)
    BY <2>5, SymlinkEffect
  <2>6. CASE \E d \in Dirs : mkdir(p, n) \/ mknod(p, n) \/ mkdirat(p, n, d) \/ mknodat(p, n, d)
    BY <2>6, NodeEffect
  <2>7. QED BY <1>1, <2>1, <2>2, <2>3, <2>4, <2>5, <2>6
<1>6. CASE \E p \in Process :
             \/ \E i \in Ino : fstat(p, i)
             \/ utime(p) \/ utimes(p) \/ utimensat(p)
             \/ advanceTime(p)
  BY <1>6, FstatEffect, TimeEffect DEF utime, utimes, utimensat
<1>7. CASE \E i \in Ino : closeFile(i)  BY <1>7, CloseEffect DEF Effect
<1>8. CASE \E n \in Name :
             \/ unlink(n) \/ rmdir(n)
             \/ \E d \in Dirs : unlinkat(n, d)
             \/ \E m \in Name : rename(n, m) \/ link(n, m)
             \/ \E m \in Name, d, e \in Dirs :
                  renameat(n, d, m, e) \/ renameat2(n, d, m, e) \/ linkat(n, d, m, e)
  BY <1>1, <1>8, RenameEffect
<1>9. QED BY <1>1, <1>3, <1>4, <1>5, <1>6, <1>7, <1>8 DEF Step

-----------------------------------------------------------------------------
(* The effects keep the tables in order.                                   *)

TableTypes ==
  /\ inodeMap \in [Ino -> Nat]
  /\ freshValue \in Nat \ {0}
  /\ mtimeMap \in [Ino -> Nat]
  /\ clock \in [Process -> Nat]

Tables == TableTypes /\ VirtualInodesDistinct /\ TimesKnown

(* addRealValue gives out a virtual inode that no inode has.               *)
LEMMA AddKeepsDistinct ==
  ASSUME TableTypes, VirtualInodesDistinct, NEW i \in Ino, addRealValue(i)
  PROVE  /\ VirtualInodesDistinct'
         /\ inodeMap' \in [Ino -> Nat] /\ freshValue' \in Nat \ {0}
<1>1. inodeMap \in [Ino -> Nat] /\ freshValue \in Nat \ {0}  BY DEF TableTypes
<1>2. inodeMap' = [inodeMap EXCEPT ![i] = freshValue] /\ freshValue' = freshValue + 1
  BY DEF addRealValue
<1>3. inodeMap' \in [Ino -> Nat] /\ freshValue' \in Nat \ {0}  BY <1>1, <1>2
<1>4. /\ inodeMap'[i] = freshValue
      /\ \A j \in Ino : j # i => inodeMap'[j] = inodeMap[j]
      /\ \A j \in Ino : inodeMap[j] < freshValue /\ inodeMap[j] \in Nat
  BY <1>1, <1>2 DEF VirtualInodesDistinct
<1>5. \A j, k \in Ino : inodeMap'[j] = inodeMap'[k] /\ inodeMap'[j] # Absent => j = k
  BY <1>1, <1>4 DEF VirtualInodesDistinct
<1>6. \A j \in Ino : inodeMap'[j] < freshValue'  BY <1>1, <1>2, <1>4
<1>7. QED BY <1>3, <1>5, <1>6 DEF VirtualInodesDistinct

(* Virtual inodes stay distinct while inodeMap does not change.            *)
LEMMA MapStays ==
  ASSUME VirtualInodesDistinct, UNCHANGED mapVars
  PROVE  VirtualInodesDistinct' /\ inodeMap' = inodeMap /\ freshValue' = freshValue
BY DEF VirtualInodesDistinct, mapVars

(* A clock moves on.                                                       *)
LEMMA ClockMoves ==
  ASSUME TableTypes, TimesKnown, NEW p \in Process, NEW t \in Nat,
         clock' = [clock EXCEPT ![p] = @ + t]
  PROVE  clock' \in [Process -> Nat] /\ \A q \in Process : clock'[q] >= epoch
<1>1. clock \in [Process -> Nat] /\ epoch \in Nat  BY FilesAssumption DEF TableTypes
<1>2. \A q \in Process : clock[q] >= epoch /\ clock[q] \in Nat  BY <1>1 DEF TimesKnown
<1>3. \A q \in Process : clock'[q] = IF q = p THEN clock[q] + t ELSE clock[q]  BY <1>1
<1>4. clock' \in [Process -> Nat]  BY <1>1, <1>2
<1>5. \A q \in Process : clock'[q] >= epoch  BY <1>1, <1>2, <1>3
<1>6. QED BY <1>4, <1>5

(* A time is recorded.                                                     *)
LEMMA TimeRecorded ==
  ASSUME TableTypes, TimesKnown, NEW p \in Process, NEW i \in Ino,
         mtimeMap' = [mtimeMap EXCEPT ![i] = clock[p]]
  PROVE  /\ mtimeMap' \in [Ino -> Nat]
         /\ \A j \in Ino : mtimeMap'[j] # Absent => mtimeMap'[j] >= epoch
         /\ mtimeMap'[i] # Absent
         /\ \A j \in Ino : j # i => mtimeMap'[j] = mtimeMap[j]
<1>1. /\ mtimeMap \in [Ino -> Nat] /\ clock[p] \in Nat /\ clock[p] >= epoch
      /\ epoch \in Nat /\ epoch # 0
  BY FilesAssumption DEF TableTypes, TimesKnown
<1>2. \A j \in Ino : mtimeMap'[j] = IF j = i THEN clock[p] ELSE mtimeMap[j]  BY <1>1
<1>3. mtimeMap' \in [Ino -> Nat]  BY <1>1
<1>4. QED BY <1>1, <1>2, <1>3 DEF TimesKnown, Absent

(* Every effect keeps the host in order, virtual inodes distinct, and the  *)
(* times of files known.                                                   *)
LEMMA EffectKeepsTables ==
  ASSUME Inv, Effect, UNCHANGED program
  PROVE  HostTypes' /\ HostInv' /\ Tables'
<1>1. HostTypes /\ HostInv /\ TableTypes /\ VirtualInodesDistinct /\ TimesKnown
  BY DEF Inv, TypeOK, HostTypes, TableTypes
<1>2. Second \in Nat /\ 1 \in Nat  BY FilesAssumption
<1>3. \A i \in Live : i \in Ino  BY DEF Live
<1>4. CASE Vanishes
  <2>1. HostTypes' /\ HostInv' /\ Live' \subseteq Live /\ \A i \in Live' : node'[i] = node[i]
    BY <1>4 DEF Vanishes, SameFiles
  <2>2. mtimeMap' = mtimeMap /\ clock' = clock /\ UNCHANGED mapVars  BY <1>4 DEF Vanishes
  <2>3. VirtualInodesDistinct' /\ TableTypes'  BY <1>1, <2>2, MapStays DEF TableTypes
  <2>4. TimesKnown'  BY <1>1, <2>1, <2>2 DEF TimesKnown
  <2>5. QED BY <2>1, <2>3, <2>4 DEF Tables
<1>5. ASSUME NEW i \in Ino, Appears(i)
      PROVE  HostTypes' /\ HostInv' /\ Tables'
  <2>1. HostTypes' /\ HostInv' /\ "bind" \in program  BY <1>5 DEF Appears, NewFile
  <2>2. mtimeMap' = mtimeMap /\ clock' = clock /\ UNCHANGED mapVars  BY <1>5 DEF Appears
  <2>3. VirtualInodesDistinct' /\ TableTypes'  BY <1>1, <2>2, MapStays DEF TableTypes
  <2>4. TimesKnown'  BY <1>1, <2>1, <2>2 DEF TimesKnown
  <2>5. QED BY <2>1, <2>3, <2>4 DEF Tables
<1>6. ASSUME NEW p \in Process, NEW i \in Ino, Creates(p, i) \/ Renumbers(p, i)
      PROVE  HostTypes' /\ HostInv' /\ Tables'
  <2>1. /\ HostTypes' /\ HostInv' /\ Live' \subseteq Live \cup {i}
        /\ \A j \in Live' : j # i => j \in Live /\ node'[j] = node[j]
    BY <1>6, Zenon DEF Creates, Renumbers, NewFile, SameFiles
  <2>2. recordCreation(p, i)  BY <1>6, Zenon DEF Creates, Renumbers
  <2>3. /\ VirtualInodesDistinct'
        /\ inodeMap' \in [Ino -> Nat] /\ freshValue' \in Nat \ {0}
    BY <1>1, <2>2, AddKeepsDistinct DEF recordCreation
  <2>4. clock' \in [Process -> Nat] /\ \A q \in Process : clock'[q] >= epoch
    BY <1>1, <1>2, <2>2, ClockMoves, Zenon DEF recordCreation, incrementTime
  <2>5. /\ mtimeMap' \in [Ino -> Nat]
        /\ \A j \in Ino : mtimeMap'[j] # Absent => mtimeMap'[j] >= epoch
        /\ mtimeMap'[i] # Absent
        /\ \A j \in Ino : j # i => mtimeMap'[j] = mtimeMap[j]
    BY <1>1, <2>2, TimeRecorded, Zenon DEF recordCreation
  <2>6. "bind" \notin program' => \A j \in Live' : node'[j].number > 1 => mtimeMap'[j] # Absent
    BY <1>1, <1>3, <2>1, <2>5 DEF TimesKnown
  <2>7. TimesKnown'  BY <2>4, <2>5, <2>6 DEF TimesKnown
  <2>8. QED BY <2>1, <2>3, <2>4, <2>5, <2>7 DEF Tables, TableTypes
<1>7. ASSUME NEW p \in Process, NEW i \in Ino, Truncates(p, i)
      PROVE  HostTypes' /\ HostInv' /\ Tables'
  <2>1. HostTypes' /\ HostInv' /\ Live' = Live /\ \A j \in Live' : node'[j] = node[j]
    BY <1>7 DEF Truncates, SameFiles
  <2>2. VirtualInodesDistinct' /\ inodeMap' = inodeMap /\ freshValue' = freshValue
    BY <1>1, <1>7, MapStays DEF Truncates
  <2>3. clock' \in [Process -> Nat] /\ \A q \in Process : clock'[q] >= epoch
    BY <1>1, <1>2, <1>7, ClockMoves, Zenon DEF Truncates, incrementTime
  <2>4. /\ mtimeMap' \in [Ino -> Nat]
        /\ \A j \in Ino : mtimeMap'[j] # Absent => mtimeMap'[j] >= epoch
        /\ mtimeMap'[i] # Absent
        /\ \A j \in Ino : j # i => mtimeMap'[j] = mtimeMap[j]
    BY <1>1, <1>7, TimeRecorded, Zenon DEF Truncates
  <2>5. "bind" \notin program' => \A j \in Live' : node'[j].number > 1 => mtimeMap'[j] # Absent
    BY <1>1, <1>3, <2>1, <2>4 DEF TimesKnown
  <2>6. TimesKnown'  BY <2>3, <2>4, <2>5 DEF TimesKnown
  <2>7. QED BY <1>1, <2>1, <2>2, <2>3, <2>4, <2>6 DEF Tables, TableTypes
<1>8. ASSUME NEW p \in Process, NEW i \in Ino, Reports(p, i)
      PROVE  HostTypes' /\ HostInv' /\ Tables'
  <2>1. UNCHANGED hostVars /\ mtimeMap' = mtimeMap /\ clock' = clock
    BY <1>8 DEF Reports, report
  <2>2. HostTypes' /\ HostInv' /\ Live' = Live /\ node' = node
    BY <1>1, <2>1, HostStays DEF SameFiles
  <2>3. UNCHANGED mapVars \/ addRealValue(i)  BY <1>8 DEF Reports, report
  <2>4. VirtualInodesDistinct' /\ inodeMap' \in [Ino -> Nat] /\ freshValue' \in Nat \ {0}
    BY <1>1, <2>3, MapStays, AddKeepsDistinct DEF TableTypes
  <2>5. TimesKnown'  BY <1>1, <2>1, <2>2 DEF TimesKnown
  <2>6. QED BY <1>1, <2>1, <2>2, <2>4, <2>5 DEF Tables, TableTypes
<1>9. ASSUME NEW p \in Process, NEW t \in {1, Second}, Passes(p, t)
      PROVE  HostTypes' /\ HostInv' /\ Tables'
  <2>1. UNCHANGED hostVars /\ mtimeMap' = mtimeMap /\ UNCHANGED mapVars  BY <1>9 DEF Passes
  <2>2. HostTypes' /\ HostInv' /\ Live' = Live /\ node' = node
    BY <1>1, <2>1, HostStays DEF SameFiles
  <2>3. VirtualInodesDistinct' /\ inodeMap' = inodeMap /\ freshValue' = freshValue
    BY <1>1, <2>1, MapStays
  <2>4. clock' \in [Process -> Nat] /\ \A q \in Process : clock'[q] >= epoch
    BY <1>1, <1>2, <1>9, ClockMoves, Zenon DEF Passes
  <2>5. TimesKnown'  BY <1>1, <2>1, <2>2, <2>4 DEF TimesKnown
  <2>6. QED BY <1>1, <2>1, <2>2, <2>3, <2>4, <2>5 DEF Tables, TableTypes
<1>10. QED BY <1>4, <1>5, <1>6, <1>7, <1>8, <1>9 DEF Effect

(* The invariant holds when the run starts.                                *)
LEMMA InitInv == Init => Inv
<1> SUFFICES ASSUME NEW b \in Programs, NEW l \in Location, NEW i \in Ino, InitialState(b, l, i)
             PROVE  Inv
  BY DEF Init
<1>1. i # NoIno /\ epoch \in Nat  BY FilesAssumption
<1>2. Node(1, "regular", NoIno) \in [number : Nat, kind : Kind, target : Location \cup {NoIno}]
  BY DEF Node, Kind
<1>3. FreeNode \in [number : Nat, kind : Kind, target : Location \cup {NoIno}]
  BY DEF FreeNode, Node, Kind
<1>4. TypeOK
  <2>1. program \in Programs /\ opened \subseteq Ino /\ files \in Nat  BY DEF InitialState
  <2>2. dir \in [Location -> Ino \cup {NoIno}]  BY DEF InitialState
  <2>3. node \in [Ino -> [number : Nat, kind : Kind, target : Location \cup {NoIno}]]
    BY <1>2, <1>3 DEF InitialState
  <2>4. /\ inodeMap \in [Ino -> Nat] /\ freshValue \in Nat \ {0}
        /\ mtimeMap \in [Ino -> Nat]
    BY DEF InitialState, Absent
  <2>5. clock \in [Process -> Nat]  BY <1>1 DEF InitialState
  <2>6. fileExisted \in [Process -> BOOLEAN] /\ thrown \in BOOLEAN  BY Zenon DEF InitialState
  <2>7. QED BY <2>1, <2>2, <2>3, <2>4, <2>5, <2>6 DEF TypeOK
<1>5. VirtualInodesDistinct  BY DEF InitialState, VirtualInodesDistinct, Absent
<1>6. Live = {i}  BY DEF InitialState, Live, FreeNode, Node
<1>7. Linked(dir) = {i}  BY <1>1 DEF InitialState, Linked
<1>8. node[i].number = 1 /\ node[i].kind = "regular"  BY DEF InitialState, Node
<1>9. HostInv  BY <1>6, <1>7, <1>8 DEF HostInv, InitialState
<1>10. CallInv  BY DEF CallInv, InitialState
<1>11. TimesKnown  BY <1>1, <1>6, <1>8 DEF TimesKnown, InitialState, Absent
<1>12. QED BY <1>4, <1>5, <1>9, <1>10, <1>11 DEF Inv, FlagInSync, InitialState

(* The invariant is inductive.                                             *)
LEMMA NextInv == Inv /\ [Next]_vars => Inv'
<1> SUFFICES ASSUME Inv, [Next]_vars PROVE Inv'  OBVIOUS
<1>1. CASE Next
  <2>1. Step /\ UNCHANGED program  BY <1>1 DEF Next
  <2>2. Effect /\ CallPart  BY <2>1, StepEffect
  <2>3. HostTypes' /\ HostInv' /\ Tables'  BY <2>1, <2>2, EffectKeepsTables
  <2>4. TypeOK'
    BY <2>1, <2>2, <2>3, Zenon DEF TypeOK, HostTypes, Tables, TableTypes, CallPart, Inv
  <2>5. QED BY <2>2, <2>3, <2>4 DEF Inv, Tables, CallPart, FlagInSync
<1>2. CASE UNCHANGED vars
  <2>1. /\ UNCHANGED hostVars /\ UNCHANGED mapVars
        /\ program' = program /\ mtimeMap' = mtimeMap /\ clock' = clock
        /\ fileExisted' = fileExisted /\ call' = call /\ thrown' = thrown
    BY <1>2 DEF vars
  <2>2. dir' = dir /\ node' = node /\ opened' = opened /\ files' = files  BY <2>1 DEF hostVars
  <2>3. inodeMap' = inodeMap /\ freshValue' = freshValue  BY <2>1 DEF mapVars
  <2>4. Live' = Live /\ Linked(dir)' = Linked(dir)  BY <2>2 DEF Live, Linked
  <2>5. TypeOK'  BY <2>1, <2>2, <2>3 DEF Inv, TypeOK
  <2>6. VirtualInodesDistinct' /\ FlagInSync'
    BY <2>1, <2>3 DEF Inv, VirtualInodesDistinct, FlagInSync
  <2>7. HostInv'  BY <2>2, <2>4 DEF Inv, HostInv
  <2>8. TimesKnown'  BY <2>1, <2>2, <2>4 DEF Inv, TimesKnown
  <2>9. CallInv'  BY <2>1, <2>2, Zenon DEF Inv, CallInv, Follow
  <2>10. QED BY <2>5, <2>6, <2>7, <2>8, <2>9 DEF Inv
<1>3. QED BY <1>1, <1>2

(* For every host file system and all programs: virtual inodes are         *)
(* distinct, handlePreOpens never throws, and fileExisted, the host and    *)
(* the tables agree.                                                       *)
THEOREM FilesInvariance == Spec => []Inv
BY InitInv, NextInv, PTL DEF Spec

(* A file created in the run looks newer, in whole seconds, than one from  *)
(* before it, for every epoch and resolution of the clock (virtualMtime).  *)
THEOREM CreatedNewer == Spec => []CreatedLooksNewer
<1>1. Inv => CreatedLooksNewer
  <2> SUFFICES ASSUME Inv, "bind" \notin program, NEW i \in Live, NEW j \in Live,
                      node[i].number > 1, mtimeMap[j] = Absent
               PROVE  to_timespec(virtualMtime(i)) > to_timespec(virtualMtime(j))
    BY DEF CreatedLooksNewer
  <2>1. i \in Ino /\ mtimeMap[i] # Absent /\ mtimeMap[i] >= epoch /\ mtimeMap[i] \in Nat
    BY DEF Inv, TypeOK, TimesKnown, Live
  <2>2. virtualMtime(i) = mtimeMap[i] /\ virtualMtime(j) = epoch - Second
    BY <2>1 DEF virtualMtime, oldTime
  <2>3. epoch - Second \in Nat /\ mtimeMap[i] >= (epoch - Second) + Second
    BY <2>1, FilesAssumption
  <2>4. QED BY <2>1, <2>2, <2>3, SecondsLater
<1>2. QED BY <1>1, FilesInvariance, PTL

-----------------------------------------------------------------------------
(* The refinement: what is known about the files that exist is the table   *)
(* of VirtualFiles.                                                        *)

Entry(i) == [file |-> node[i].number, ino |-> inodeMap[i], mtime |-> mtimeMap[i]]
Table == {Entry(i) : i \in Live}

(* Entries of files that are gone disappear.                               *)
LEMMA TableShrinks ==
  ASSUME Live' \subseteq Live, \A j \in Live' : Entry(j)' = Entry(j)
  PROVE  Table' = Table \ (Table \ Table')
<1>1. Table' \subseteq Table  BY DEF Table
<1>2. QED BY <1>1

(* The entry of a new file is added.                                       *)
LEMMA TableGrows ==
  ASSUME NEW i, Live' = Live \cup {i}, \A j \in Live : Entry(j)' = Entry(j)
  PROVE  Table' = Table \cup {Entry(i)'}
BY DEF Table

(* The entry of one file is replaced; no other file has the same entry.    *)
LEMMA TableChanges ==
  ASSUME HostInv, NEW i \in Live, Live' = Live,
         \A j \in Live : j # i => Entry(j)' = Entry(j)
  PROVE  Table' = (Table \ {Entry(i)}) \cup {Entry(i)'}
<1>1. \A j \in Live : Entry(j) = Entry(i) => j = i  BY DEF HostInv, Entry
<1>2. QED BY <1>1 DEF Table

(* Files that vanish are forgotten.                                        *)
LEMMA VanishRefines ==
  ASSUME Vanishes PROVE \E S \in SUBSET Table : Virtual!Vanish(S)
<1>1. /\ inodeMap' = inodeMap /\ mtimeMap' = mtimeMap /\ freshValue' = freshValue
      /\ clock' = clock /\ files' = files /\ reply' = NoReply
  BY DEF Vanishes, SameFiles, mapVars
<1>2. Live' \subseteq Live /\ \A j \in Live' : Entry(j)' = Entry(j)
  BY <1>1 DEF Vanishes, SameFiles, Entry
<1>3. Table' = Table \ (Table \ Table')  BY <1>2, TableShrinks
<1>4. PICK S \in SUBSET Table : Table' = Table \ S  BY <1>3, Zenon
<1>5. Virtual!Vanish(S)
  BY <1>1, <1>4 DEF Virtual!Vanish, Table, Entry, Virtual!NoReply, NoReply,
                    Virtual!Unknown, Absent
<1>6. QED BY <1>5

(* A creation or a truncation sets entries in the maps.                    *)
LEMMA Recorded ==
  ASSUME TableTypes, NEW p, NEW i \in Ino, recordCreation(p, i)
  PROVE  /\ inodeMap'[i] = freshValue /\ mtimeMap'[i] = clock[p]
         /\ \A j \in Ino : j # i => inodeMap'[j] = inodeMap[j] /\ mtimeMap'[j] = mtimeMap[j]
         /\ freshValue' = freshValue + 1
         /\ clock' = [clock EXCEPT ![p] = @ + 1]
BY DEF TableTypes, recordCreation, addRealValue, incrementTime

(* A creation is a Create of VirtualFiles: the number, the virtual inode   *)
(* and the time of the new file do not depend on its inode.                *)
LEMMA CreateRefines ==
  ASSUME TableTypes, NEW p \in Process, NEW i \in Ino, Creates(p, i)
  PROVE  Virtual!Create(p)
<1>1. recordCreation(p, i) /\ reply' = NoReply  BY DEF Creates
<1>2. /\ inodeMap'[i] = freshValue /\ mtimeMap'[i] = clock[p]
      /\ \A j \in Ino : j # i => inodeMap'[j] = inodeMap[j] /\ mtimeMap'[j] = mtimeMap[j]
      /\ freshValue' = freshValue + 1
      /\ clock' = [clock EXCEPT ![p] = @ + 1]
  BY <1>1, Recorded
<1>3. /\ i \notin Live /\ Live' = Live \cup {i}
      /\ node'[i].number = files + 1 /\ files' = files + 1
      /\ \A j \in Live : node'[j] = node[j] /\ j \in Ino
  BY DEF Creates, NewFile, Unused, Live
<1>4. \A j \in Live : Entry(j)' = Entry(j)  BY <1>2, <1>3, Zenon DEF Entry
<1>5. Entry(i)' = [file |-> files + 1, ino |-> freshValue, mtime |-> clock[p]]
  BY <1>2, <1>3 DEF Entry
<1>6. Table' = Table \cup {Entry(i)'}  BY <1>3, <1>4, TableGrows
<1>7. Table' = Table \cup {[file |-> files + 1, ino |-> freshValue, mtime |-> clock[p]]}
  BY <1>5, <1>6
<1>8. QED BY <1>1, <1>2, <1>3, <1>7 DEF Virtual!Create, Virtual!Tick, Table, Entry,
                                        Virtual!NoReply, NoReply, Virtual!Unknown, Absent

(* A socket keeps what was known of its inode.                             *)
LEMMA AppearRefines ==
  ASSUME TableTypes, VirtualInodesDistinct, NEW i \in Ino, Appears(i)
  PROVE  Virtual!Appear
<1>1. /\ "bind" \in program /\ reply' = NoReply
      /\ inodeMap' = inodeMap /\ mtimeMap' = mtimeMap /\ freshValue' = freshValue
      /\ clock' = clock
  BY DEF Appears, mapVars
<1>2. /\ Live' = Live \cup {i}
      /\ node'[i].number = files + 1 /\ files' = files + 1
      /\ \A j \in Live : node'[j] = node[j]
  BY DEF Appears, NewFile
<1>3. \A j \in Live : Entry(j)' = Entry(j)  BY <1>1, <1>2 DEF Entry
<1>4. Entry(i)'.file = files + 1 /\ Entry(i)'.ino < freshValue
  BY <1>1, <1>2 DEF Entry, VirtualInodesDistinct
<1>5. Table' = Table \cup {Entry(i)'}  BY <1>2, <1>3, TableGrows
<1>6. \E e \in Table' : e.file = files + 1 /\ e.ino < freshValue /\ Table' = Table \cup {e}
  BY <1>4, <1>5
<1>7. QED BY <1>1, <1>2, <1>6 DEF Virtual!Appear, Table, Entry,
                                  Virtual!NoReply, NoReply, Virtual!Unknown, Absent

(* A truncation is a Truncate of the file's entry.                         *)
LEMMA TruncateRefines ==
  ASSUME TableTypes, HostInv, NEW p \in Process, NEW i \in Ino, Truncates(p, i)
  PROVE  \E e \in Table : Virtual!Truncate(p, e)
<1>1. /\ mtimeMap'[i] = clock[p]
      /\ \A j \in Ino : j # i => mtimeMap'[j] = mtimeMap[j]
      /\ clock' = [clock EXCEPT ![p] = @ + 1]
      /\ inodeMap' = inodeMap /\ freshValue' = freshValue /\ reply' = NoReply
  BY DEF Truncates, TableTypes, incrementTime, mapVars
<1>2. /\ i \in Live /\ Live' = Live /\ files' = files
      /\ \A j \in Live : node'[j] = node[j] /\ j \in Ino
  BY DEF Truncates, SameFiles, Live
<1>3. \A j \in Live : j # i => Entry(j)' = Entry(j)  BY <1>1, <1>2 DEF Entry
<1>4. PICK e \in Table : e = Entry(i)  BY <1>2 DEF Table
<1>5. Entry(i)' = [e EXCEPT !.mtime = clock[p]]  BY <1>1, <1>2, <1>4 DEF Entry
<1>6. Table' = (Table \ {Entry(i)}) \cup {Entry(i)'}  BY <1>2, <1>3, TableChanges
<1>7. Virtual!Truncate(p, e)
  <2> DEFINE new == [e EXCEPT !.mtime = clock[p]]
  <2>1. Table' = (Table \ {e}) \cup {new}  BY <1>4, <1>5, <1>6
  <2> HIDE DEF new
  <2>2. QED
    BY <1>1, <1>2, <2>1 DEF Virtual!Truncate, Virtual!Tick, Table, Entry, new,
                            Virtual!NoReply, NoReply, Virtual!Unknown, Absent
<1>8. QED BY <1>7

(* A creat that truncates is a Renumber of the file's entry.               *)
LEMMA RenumberRefines ==
  ASSUME TableTypes, HostInv, NEW p \in Process, NEW i \in Ino, Renumbers(p, i)
  PROVE  \E e \in Table : Virtual!Renumber(p, e)
<1>1. recordCreation(p, i) /\ reply' = NoReply /\ "creat truncates" \in program
  BY Zenon DEF Renumbers
<1>2. /\ inodeMap'[i] = freshValue /\ mtimeMap'[i] = clock[p]
      /\ \A j \in Ino : j # i => inodeMap'[j] = inodeMap[j] /\ mtimeMap'[j] = mtimeMap[j]
      /\ freshValue' = freshValue + 1
      /\ clock' = [clock EXCEPT ![p] = @ + 1]
  BY <1>1, Recorded, Zenon
<1>3. /\ i \in Live /\ Live' = Live /\ files' = files
      /\ \A j \in Live : node'[j] = node[j] /\ j \in Ino
  BY Zenon DEF Renumbers, SameFiles, Live
<1>4. \A j \in Live : j # i => Entry(j)' = Entry(j)  BY <1>2, <1>3, Zenon DEF Entry
<1>5. PICK e \in Table : e = Entry(i)  BY <1>3 DEF Table
<1>6. Entry(i)' = [file |-> e.file, ino |-> freshValue, mtime |-> clock[p]]
  BY <1>2, <1>3, <1>5 DEF Entry
<1>7. Table' = (Table \ {Entry(i)}) \cup {Entry(i)'}  BY <1>3, <1>4, TableChanges
<1>8. Virtual!Renumber(p, e)
  <2> DEFINE new == [file |-> e.file, ino |-> freshValue, mtime |-> clock[p]]
  <2>1. Table' = (Table \ {e}) \cup {new}  BY <1>5, <1>6, <1>7
  <2> HIDE DEF new
  <2>2. QED
    BY <1>1, <1>2, <1>3, <2>1, Zenon DEF Virtual!Renumber, Virtual!Tick, Table, Entry, new,
                                  Virtual!NoReply, NoReply, Virtual!Unknown, Absent
<1>9. QED BY <1>8

(* A stat is a Report: its answer is in the file's entry.                  *)
LEMMA ReportRefines ==
  ASSUME TableTypes, HostTypes, HostInv, NEW p \in Process, NEW i \in Ino, Reports(p, i)
  PROVE  \E e \in Table : Virtual!Report(p, e)
<1> DEFINE ino == IF inodeMap[i] = Absent THEN freshValue ELSE inodeMap[i]
<1>1. /\ reply' = [by |-> p, number |-> node[i].number, st_ino |-> ino,
                    st_mtime |-> to_timespec(virtualMtime(i))]
      /\ mtimeMap' = mtimeMap /\ clock' = clock /\ UNCHANGED hostVars
  BY DEF Reports, report, realValueExists
<1>2. /\ inodeMap'[i] = ino
      /\ \A j \in Ino : j # i => inodeMap'[j] = inodeMap[j]
      /\ freshValue' = IF inodeMap[i] = Absent THEN freshValue + 1 ELSE freshValue
  BY DEF Reports, report, realValueExists, addRealValue, mapVars, TableTypes
<1>3. i \in Live /\ Live' = Live /\ files' = files /\ node' = node
  BY <1>1, HostStays DEF Reports, SameFiles
<1>4. \A j \in Live : j # i => Entry(j)' = Entry(j)  BY <1>1, <1>2, <1>3, Zenon DEF Entry, Live
<1>5. PICK e \in Table : e = Entry(i)  BY <1>3 DEF Table
<1>6. e.ino = inodeMap[i] /\ e.file = node[i].number /\ e.mtime = mtimeMap[i]
  BY <1>5 DEF Entry
<1>7. Entry(i)' = [e EXCEPT !.ino = ino]  BY <1>1, <1>2, <1>3, <1>5 DEF Entry
<1>8. Table' = (Table \ {Entry(i)}) \cup {Entry(i)'}  BY <1>3, <1>4, TableChanges
<1>9. Virtual!Seconds(e.mtime) = to_timespec(virtualMtime(i))
  BY <1>6 DEF Virtual!Seconds, to_timespec, virtualMtime, Virtual!Unknown, Absent
<1>10. /\ ino = IF e.ino = Virtual!Unknown THEN freshValue ELSE e.ino
       /\ freshValue' = IF e.ino = Virtual!Unknown THEN freshValue + 1 ELSE freshValue
  BY <1>2, <1>6 DEF Virtual!Unknown, Absent
<1>11. reply' = [by |-> p, number |-> e.file, st_ino |-> ino,
                 st_mtime |-> Virtual!Seconds(e.mtime)]
  BY <1>1, <1>6, <1>9, Zenon
<1>12. Virtual!Report(p, e)
  <2> DEFINE new == [e EXCEPT !.ino = ino]
  <2>1. Table' = (Table \ {e}) \cup {new}  BY <1>5, <1>7, <1>8
  <2> HIDE DEF new
  <2>2. QED BY <1>1, <1>3, <1>10, <1>11, <2>1 DEF Virtual!Report, Table, Entry, new
<1>13. QED BY <1>12

(* Time that passes is a Wait.                                             *)
LEMMA PassRefines ==
  ASSUME HostTypes, HostInv, NEW p \in Process, NEW t, Passes(p, t)
  PROVE  Virtual!Wait(p, t)
<1>1. /\ clock' = [clock EXCEPT ![p] = @ + t]
      /\ inodeMap' = inodeMap /\ mtimeMap' = mtimeMap /\ freshValue' = freshValue
      /\ reply' = NoReply /\ UNCHANGED hostVars
  BY DEF Passes, mapVars
<1>2. Live' = Live /\ files' = files /\ node' = node  BY <1>1, HostStays DEF SameFiles
<1>3. Table' = Table  BY <1>1, <1>2 DEF Table, Entry
<1>4. QED BY <1>1, <1>2, <1>3 DEF Virtual!Wait, Table, Entry,
                             Virtual!NoReply, NoReply, Virtual!Unknown, Absent

(* The two specifications start alike.                                     *)
LEMMA InitRefines == Init => Virtual!Init
<1> SUFFICES ASSUME NEW b \in Programs, NEW l \in Location, NEW i \in Ino, InitialState(b, l, i)
             PROVE  Virtual!Init
  BY DEF Init
<1>1. b \subseteq {"bind", "creat truncates"}  BY FilesAssumption, Zenon DEF AllBehaviours
<1>2. Live = {i}  BY DEF InitialState, Live, FreeNode, Node
<1>3. Entry(i) = [file |-> 1, ino |-> 0, mtime |-> 0]
  BY DEF Entry, InitialState, Node, Absent
<1>4. Table = {[file |-> 1, ino |-> 0, mtime |-> 0]}  BY <1>2, <1>3 DEF Table
<1>5. QED BY <1>1, <1>4, Zenon DEF InitialState, Virtual!Init, Table, Entry,
                            Virtual!NoReply, NoReply, Virtual!Unknown, Absent

(* A step of Files is a step of VirtualFiles, or changes nothing there.    *)
LEMMA NextRefines ==
  ASSUME Inv, [Next]_vars
  PROVE  [Virtual!Next]_(Virtual!vars)
<1>1. TableTypes /\ HostTypes /\ HostInv /\ VirtualInodesDistinct
  BY DEF Inv, TypeOK, HostTypes, TableTypes
<1>2. CASE Next
  <2>1. Effect /\ UNCHANGED program  BY <1>2, StepEffect DEF Next
  <2>2. CASE Vanishes
    BY <2>1, <2>2, VanishRefines DEF Virtual!Next, Table, Entry
  <2>3. ASSUME NEW i \in Ino, Appears(i) PROVE Virtual!Next
    BY <1>1, <2>1, <2>3, AppearRefines DEF Virtual!Next
  <2>4. ASSUME NEW p \in Process, NEW i \in Ino, Creates(p, i) PROVE Virtual!Next
    BY <1>1, <2>1, <2>4, CreateRefines, Zenon DEF Virtual!Next
  <2>5. ASSUME NEW p \in Process, NEW i \in Ino,
               Truncates(p, i) \/ Renumbers(p, i) \/ Reports(p, i)
        PROVE  Virtual!Next
    <3>1. \E e \in Table : \/ Virtual!Truncate(p, e)
                            \/ Virtual!Renumber(p, e)
                            \/ Virtual!Report(p, e)
      BY <1>1, <2>5, TruncateRefines, RenumberRefines, ReportRefines
    <3>2. QED BY <2>1, <3>1 DEF Virtual!Next, Table, Entry
  <2>6. ASSUME NEW p \in Process, NEW t \in {1, Second}, Passes(p, t) PROVE Virtual!Next
    BY <1>1, <2>1, <2>6, PassRefines DEF Virtual!Next
  <2>7. QED BY <2>1, <2>2, <2>3, <2>4, <2>5, <2>6 DEF Effect
<1>3. CASE UNCHANGED vars
  <2>1. /\ program' = program /\ node' = node /\ files' = files /\ inodeMap' = inodeMap
        /\ freshValue' = freshValue /\ mtimeMap' = mtimeMap /\ clock' = clock
        /\ reply' = reply
    BY <1>3 DEF vars, hostVars, mapVars
  <2>2. Table' = Table  BY <2>1 DEF Table, Entry, Live
  <2>3. UNCHANGED Virtual!vars  BY <2>1, <2>2 DEF Virtual!vars, Table, Entry
  <2>4. QED BY <2>3
<1>4. QED BY <1>2, <1>3

(* What tracees are told about files is what VirtualFiles says, for every  *)
(* host: no choice of inodes, and no reuse of one, shows in it.            *)
THEOREM FilesRefinement == Spec => HostInodesDoNotShow
<1>1. Init => Virtual!Init  BY InitRefines
<1>2. Inv /\ [Next]_vars => [Virtual!Next]_(Virtual!vars)  BY NextRefines
<1>3. QED BY <1>1, <1>2, FilesInvariance, PTL DEF Spec, HostInodesDoNotShow, Virtual!Spec
=============================================================================
