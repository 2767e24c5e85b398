------------------------- MODULE DescriptorsProofs -------------------------
(***************************************************************************)
(* The descriptor tables for any number of tasks, descriptors and open     *)
(* file descriptions: as long as the tracees keep to the ordinary calls,   *)
(* what dettrace has recorded is what they asked for.                      *)
(*                                                                         *)
(* The last theorems are about the specification that the model checker    *)
(* runs, for any values of its constants.                                  *)
(***************************************************************************)
EXTENDS MCDescriptors, FiniteSetTheorems, WellFoundedInduction, TLAPS

\* None of the calls that are known to lead the tables astray is made.
OrdinaryCalls == Behaviours = {}

Descriptions ==
  [kind : {"closed", "pipe", "socket", "timerfd"}, asked : BOOLEAN, really : BOOLEAN,
   armed : BOOLEAN]
Tables == [Task -> [Fd -> Desc \union {NoDesc}]]

Types ==
  /\ live \subseteq Task
  /\ table \in [Task -> Task]
  /\ maps = table
  /\ files \in Tables
  /\ desc \in [Desc -> Descriptions]
  /\ fdStatus \in [Task -> [Fd -> {"absent", "blocking", "nonBlocking"}]]
  /\ timerfds \in [Task -> [Fd -> {"absent", "disarmed", "armed"}]]
  /\ thrown = "no"

\* An entry d of a descriptor table and what the tracer has recorded for it: a
\* status s and a timer m.  Nothing is recorded for a number that is not open.
Recorded(d, s, m, descriptions) ==
  IF d = NoDesc
    THEN s = "absent" /\ m = "absent"
    ELSE /\ descriptions[d].kind # "closed"
         /\ descriptions[d].kind # "timerfd" =>
              m = "absent" /\ (s = "nonBlocking" <=> descriptions[d].asked)
         /\ descriptions[d].kind = "timerfd" => m = Setting(descriptions[d].armed)

Row(x, fd) == Recorded(files[x][fd], fdStatus[x][fd], timerfds[x][fd], desc)

\* The inductive invariant speaks of all tables, also of those that no task uses.
TablesInv == Types /\ \A x \in Task, fd \in Fd : Row(x, fd)

-----------------------------------------------------------------------------
(* The kernel's tables.                                                    *)

\* The lowest free number is one of the numbers, and is free.
LEMMA LeastIsMember ==
  ASSUME NEW S \in SUBSET Fd, S # {}
  PROVE  Min(S) \in S
<1>1. S \subseteq Nat  BY DescriptorsAssumption DEF Fd
<1>2. PICK x \in S : \A y \in S : ~(<<y, x>> \in OpToRel(<, Nat))
  BY <1>1, NatLessThanWellFounded, WFMin, Zenon
<1>3. \A y \in S : ~(y < x)  BY <1>1, <1>2, Zenon DEF OpToRel
<1>4. \A y \in S : x <= y  BY <1>1, <1>3
<1>5. QED BY <1>4 DEF Min

\* Descriptions that are referred to become what the call makes of them.
LEMMA FilesAreSet ==
  ASSUME NEW T \in Tables, NEW D \in [Desc -> Descriptions], SetFiles(T, D)
  PROVE  /\ files' = T /\ desc' \in [Desc -> Descriptions]
         /\ \A x \in Task, fd \in Fd : T[x][fd] # NoDesc => desc'[T[x][fd]] = D[T[x][fd]]
<1>1. Closed \in Descriptions  BY DEF Closed, Descriptions
<1>2. ASSUME NEW x \in Task, NEW fd \in Fd, T[x][fd] # NoDesc
      PROVE  T[x][fd] \in Desc /\ T[x][fd] \in Referenced(T)
  BY <1>2 DEF Tables, Referenced
<1>3. QED BY <1>1, <1>2 DEF SetFiles

\* A call that creates descriptors changes one table, at the new numbers only.
LEMMA Installed ==
  ASSUME Types, NEW t \in Task, NEW new, DOMAIN new \subseteq Fd,
         \A fd \in DOMAIN new : new[fd] \in Desc,
         NEW D \in [Desc -> Descriptions], NEW cx, Install(t, new, cx, D)
  PROVE  /\ files' \in Tables /\ desc' \in [Desc -> Descriptions]
         /\ \A x \in Task, fd \in Fd :
              /\ files'[x][fd] = IF x = table[t] /\ fd \in DOMAIN new THEN new[fd]
                                 ELSE files[x][fd]
              /\ files'[x][fd] # NoDesc => desc'[files'[x][fd]] = D[files'[x][fd]]
<1> DEFINE T == [files EXCEPT ![table[t]] =
                   [fd \in Fd |-> IF fd \in DOMAIN new THEN new[fd] ELSE files[table[t]][fd]]]
<1>1. table[t] \in Task /\ files \in Tables  BY DEF Types
<1>2. T \in Tables  BY <1>1 DEF Tables
<1>3. SetFiles(T, D)  BY DEF Install
<1>4. files' = T /\ desc' \in [Desc -> Descriptions]
      /\ \A x \in Task, fd \in Fd : T[x][fd] # NoDesc => desc'[T[x][fd]] = D[T[x][fd]]
  BY <1>2, <1>3, FilesAreSet, Zenon
<1>5. \A x \in Task, fd \in Fd :
        T[x][fd] = IF x = table[t] /\ fd \in DOMAIN new THEN new[fd] ELSE files[x][fd]
  BY <1>1 DEF Tables
<1>6. QED BY <1>2, <1>4, <1>5

\* A single descriptor.
LEMMA OneInstalled ==
  ASSUME Types, NEW t \in Task, NEW n \in Fd, NEW d \in Desc,
         NEW D \in [Desc -> Descriptions], NEW cx, Install(t, Descriptor(n, d), cx, D)
  PROVE  /\ files' \in Tables /\ desc' \in [Desc -> Descriptions]
         /\ \A x \in Task, fd \in Fd :
              /\ files'[x][fd] = IF x = table[t] /\ fd = n THEN d ELSE files[x][fd]
              /\ files'[x][fd] # NoDesc => desc'[files'[x][fd]] = D[files'[x][fd]]
<1> DEFINE new == Descriptor(n, d)
<1>1. DOMAIN new = {n} /\ new[n] = d  BY DEF Descriptor
<1>2. Install(t, new, cx, D)  OBVIOUS
<1> HIDE DEF new
<1>3. /\ files' \in Tables /\ desc' \in [Desc -> Descriptions]
      /\ \A x \in Task, fd \in Fd :
           /\ files'[x][fd] = IF x = table[t] /\ fd \in DOMAIN new THEN new[fd]
                              ELSE files[x][fd]
           /\ files'[x][fd] # NoDesc => desc'[files'[x][fd]] = D[files'[x][fd]]
  BY <1>1, <1>2, Installed
<1>4. QED BY <1>1, <1>3

\* A number is free as long as not all are open.
LEMMA LowestFreeIsFree ==
  ASSUME Types, NEW t \in Task, Open(t) # Fd
  PROVE  LowestFree(t) \in Fd /\ files[table[t]][LowestFree(t)] = NoDesc
<1>1. Fd \ Open(t) # {} /\ Fd \ Open(t) \in SUBSET Fd  BY DEF Open
<1>2. LowestFree(t) \in Fd \ Open(t)  BY <1>1, LeastIsMember DEF LowestFree
<1>3. QED BY <1>2 DEF Open

\* An unused description is in no table.
LEMMA UnusedIsNowhere ==
  ASSUME TablesInv, NEW d \in Unused
  PROVE  d \in Desc /\ d # NoDesc /\ \A x \in Task, fd \in Fd : files[x][fd] # d
<1>1. d \in Desc /\ desc[d].kind = "closed"  BY DEF Unused, Closed
<1>2. d # NoDesc  BY <1>1, DescriptorsAssumption
<1>3. QED BY <1>1, <1>2 DEF TablesInv, Row, Recorded

\* An entry that a call does not touch stays right.
LEMMA UntouchedRow ==
  ASSUME TablesInv, NEW x \in Task, NEW fd \in Fd,
         files'[x][fd] = files[x][fd],
         files[x][fd] # NoDesc => desc'[files[x][fd]] = desc[files[x][fd]],
         fdStatus'[x][fd] = fdStatus[x][fd], timerfds'[x][fd] = timerfds[x][fd]
  PROVE  Row(x, fd)'
<1>1. Recorded(files[x][fd], fdStatus[x][fd], timerfds[x][fd], desc)  BY DEF TablesInv, Row
<1>2. CASE files[x][fd] = NoDesc  BY <1>1, <1>2 DEF Row, Recorded
<1>3. CASE files[x][fd] # NoDesc  BY <1>1, <1>3 DEF Row, Recorded
<1>4. QED BY <1>2, <1>3

-----------------------------------------------------------------------------
(* What is recorded when the kernel has made a descriptor.                 *)

\* A call that makes a new description at a free number, and records for it what
\* was asked for, keeps the tables right.
LEMMA CreatedRight ==
  ASSUME TablesInv, NEW t \in Task, NEW n \in Fd, files[table[t]][n] = NoDesc,
         NEW d \in Unused, NEW new \in Descriptions, NEW cx,
         Install(t, Descriptor(n, d), cx, [desc EXCEPT ![d] = new]),
         NEW s \in {"absent", "blocking", "nonBlocking"},
         NEW m \in {"absent", "disarmed", "armed"},
         fdStatus' = [fdStatus EXCEPT ![table[t]][n] = s],
         timerfds' = [timerfds EXCEPT ![table[t]][n] = m],
         new.kind # "closed",
         new.kind # "timerfd" => m = "absent" /\ (s = "nonBlocking" <=> new.asked),
         new.kind = "timerfd" => m = Setting(new.armed),
         UNCHANGED <<live, table, maps, thrown>>
  PROVE  TablesInv'
<1>0. PICK D : D = [desc EXCEPT ![d] = new]  OBVIOUS
<1>1. Types /\ table[t] \in Task  BY DEF TablesInv, Types
<1>2. d \in Desc /\ d # NoDesc /\ \A x \in Task, fd \in Fd : files[x][fd] # d
  BY UnusedIsNowhere
<1>3. D \in [Desc -> Descriptions] /\ D[d] = new
      /\ \A e \in Desc : e # d => D[e] = desc[e]
  BY <1>0, <1>1, <1>2 DEF Types
<1>4. /\ files' \in Tables /\ desc' \in [Desc -> Descriptions]
      /\ \A x \in Task, fd \in Fd :
           /\ files'[x][fd] = IF x = table[t] /\ fd = n THEN d ELSE files[x][fd]
           /\ files'[x][fd] # NoDesc => desc'[files'[x][fd]] = D[files'[x][fd]]
  <2>1. Install(t, Descriptor(n, d), cx, D)  BY <1>0
  <2>2. QED BY <1>1, <1>2, <1>3, <2>1, OneInstalled
<1>5. Types'  BY <1>1, <1>4 DEF Types
<1>6. ASSUME NEW x \in Task, NEW fd \in Fd
      PROVE  Row(x, fd)'
  <2>1. CASE x = table[t] /\ fd = n
    <3>1. files'[x][fd] = d /\ desc'[d] = new  BY <1>2, <1>3, <1>4, <2>1
    <3>2. fdStatus'[x][fd] = s /\ timerfds'[x][fd] = m  BY <1>1, <2>1 DEF Types
    <3>3. QED BY <1>2, <3>1, <3>2 DEF Row, Recorded
  <2>2. CASE ~(x = table[t] /\ fd = n)
    <3>1. files'[x][fd] = files[x][fd] /\ files[x][fd] \in Desc \union {NoDesc}
      BY <1>1, <1>4, <2>2 DEF Types, Tables
    <3>2. files[x][fd] # NoDesc => desc'[files[x][fd]] = desc[files[x][fd]]
      BY <1>2, <1>3, <1>4, <3>1
    <3>3. fdStatus'[x][fd] = fdStatus[x][fd] /\ timerfds'[x][fd] = timerfds[x][fd]
      BY <1>1, <2>2 DEF Types
    <3>4. QED BY <3>1, <3>2, <3>3, UntouchedRow
  <2>3. QED BY <2>1, <2>2
<1>7. QED BY <1>5, <1>6 DEF TablesInv

\* The two ends of a pipe, at the two lowest free numbers.
LEMMA PipeRight ==
  ASSUME TablesInv, NEW t \in Task, NEW d \in Unused, NEW e \in Unused, d # e,
         NEW asked \in BOOLEAN, NEW cx, kernelPipe2(t, d, e, asked, cx),
         UNCHANGED <<live, table, maps, timerfds>>
  PROVE  TablesInv'
<1> DEFINE a == LowestFree(t)
           b == Min(Fd \ (Open(t) \union {a}))
           end == Description("pipe", asked, TRUE)
           new == [x \in {a, b} |-> IF x = a THEN d ELSE e]
<1>1. Types /\ table[t] \in Task /\ maps[t] = table[t]  BY DEF TablesInv, Types
<1>2. Cardinality(Fd \ Open(t)) >= 2  BY DEF kernelPipe2
<1>3. a \in Fd /\ files[table[t]][a] = NoDesc
  <2>1. Fd \ Open(t) # {}  BY <1>2, FS_EmptySet
  <2>2. QED BY <1>1, <2>1, LowestFreeIsFree
<1>4. b \in Fd /\ b # a /\ files[table[t]][b] = NoDesc
  <2>1. Fd \ Open(t) # {a}  BY <1>2, FS_Singleton
  <2>2. a \in Fd \ Open(t)  BY <1>3 DEF Open
  <2>3. Fd \ (Open(t) \union {a}) # {}  BY <2>1, <2>2
  <2>4. b \in Fd \ (Open(t) \union {a})  BY <2>3, LeastIsMember
  <2>5. QED BY <2>4 DEF Open
<1>5. end \in Descriptions /\ end.kind = "pipe" /\ end.asked = asked
  BY DEF Description, Descriptions
<1>6. PICK D : D = [desc EXCEPT ![d] = end, ![e] = end]  BY Zenon
<1>7. /\ d \in Desc /\ d # NoDesc /\ e \in Desc /\ e # NoDesc
      /\ \A x \in Task, fd \in Fd : files[x][fd] # d /\ files[x][fd] # e
  BY UnusedIsNowhere
<1>8. D \in [Desc -> Descriptions] /\ D[d] = end /\ D[e] = end
      /\ \A f \in Desc : f # d /\ f # e => D[f] = desc[f]
  BY <1>1, <1>5, <1>6, <1>7, Zenon DEF Types
<1>9. Install(t, new, cx, D) /\ pipe2Post(t, a, b, Status(asked))  BY <1>6 DEF kernelPipe2
<1>10. DOMAIN new = {a, b} /\ new[a] = d /\ new[b] = e  BY <1>4
<1> HIDE DEF a, b, end, new
<1>12. /\ files' \in Tables /\ desc' \in [Desc -> Descriptions]
       /\ \A x \in Task, fd \in Fd :
            /\ files'[x][fd] = IF x = table[t] /\ fd \in DOMAIN new THEN new[fd]
                               ELSE files[x][fd]
            /\ files'[x][fd] # NoDesc => desc'[files'[x][fd]] = D[files'[x][fd]]
  <2>1. PICK pair : pair = new  OBVIOUS
  <2>2. QED BY <1>1, <1>3, <1>4, <1>7, <1>8, <1>9, <1>10, <2>1, Installed
<1>13. fdStatus[table[t]][a] = "absent" /\ fdStatus[table[t]][b] = "absent"
       /\ timerfds[table[t]][a] = "absent" /\ timerfds[table[t]][b] = "absent"
  BY <1>1, <1>3, <1>4 DEF TablesInv, Row, Recorded
<1>14. thrown' = thrown
       /\ fdStatus' = [fdStatus EXCEPT ![table[t]][a] = Status(asked),
                                       ![table[t]][b] = Status(asked)]
  BY <1>1, <1>9, <1>13 DEF pipe2Post, getFdStatus
<1>15. Status(asked) \in {"blocking", "nonBlocking"} /\ (Status(asked) = "nonBlocking" <=> asked)
  BY DEF Status
<1>16. /\ fdStatus' \in [Task -> [Fd -> {"absent", "blocking", "nonBlocking"}]]
       /\ \A x \in Task, fd \in Fd :
            fdStatus'[x][fd] = IF x = table[t] /\ fd \in {a, b} THEN Status(asked)
                               ELSE fdStatus[x][fd]
  BY <1>1, <1>3, <1>4, <1>14, <1>15 DEF Types
<1>17. Types'  BY <1>1, <1>12, <1>14, <1>16 DEF Types
<1>18. ASSUME NEW x \in Task, NEW fd \in Fd
       PROVE  Row(x, fd)'
  <2>1. CASE x = table[t] /\ fd \in {a, b}
    <3>1. files'[x][fd] \in {d, e} /\ files'[x][fd] # NoDesc  BY <1>7, <1>10, <1>12, <2>1
    <3>2. desc'[files'[x][fd]] = end  BY <1>8, <1>12, <3>1
    <3>3. fdStatus'[x][fd] = Status(asked) /\ timerfds'[x][fd] = "absent"
      BY <1>13, <1>16, <2>1
    <3>4. QED BY <1>5, <1>15, <3>1, <3>2, <3>3 DEF Row, Recorded
  <2>2. CASE ~(x = table[t] /\ fd \in {a, b})
    <3>1. files'[x][fd] = files[x][fd] /\ files[x][fd] \in Desc \union {NoDesc}
      BY <1>1, <1>10, <1>12, <2>2 DEF Types, Tables
    <3>2. files[x][fd] # NoDesc => desc'[files[x][fd]] = desc[files[x][fd]]
      BY <1>7, <1>8, <1>12, <3>1
    <3>3. fdStatus'[x][fd] = fdStatus[x][fd] /\ timerfds'[x][fd] = timerfds[x][fd]
      BY <1>16, <2>2
    <3>4. QED BY <3>1, <3>2, <3>3, UntouchedRow
  <2>3. QED BY <2>1, <2>2
<1>19. QED BY <1>17, <1>18 DEF TablesInv

\* A copy of a descriptor, with a copy of what is recorded for it.
LEMMA CopiedRight ==
  ASSUME TablesInv, NEW t \in Task, NEW n \in Fd, NEW src \in Fd,
         files[table[t]][src] # NoDesc, NEW cx,
         Install(t, Descriptor(n, files[table[t]][src]), cx, desc),
         fdStatus' = [fdStatus EXCEPT ![table[t]][n] = fdStatus[table[t]][src]],
         timerfds' = [timerfds EXCEPT ![table[t]][n] = timerfds[table[t]][src]],
         UNCHANGED <<live, table, maps, thrown>>
  PROVE  TablesInv'
<1>1. Types /\ table[t] \in Task  BY DEF TablesInv, Types
<1>2. PICK d, D, c : d = files[table[t]][src] /\ D = desc /\ c = cx  OBVIOUS
<1>3. d \in Desc /\ d # NoDesc /\ D \in [Desc -> Descriptions]  BY <1>1, <1>2 DEF Types, Tables
<1>4. /\ files' \in Tables /\ desc' \in [Desc -> Descriptions]
      /\ \A x \in Task, fd \in Fd :
           /\ files'[x][fd] = IF x = table[t] /\ fd = n THEN d ELSE files[x][fd]
           /\ files'[x][fd] # NoDesc => desc'[files'[x][fd]] = D[files'[x][fd]]
  <2>1. Install(t, Descriptor(n, d), c, D)  BY <1>2
  <2>2. QED BY <1>1, <1>3, <2>1, OneInstalled
<1>5. Types'  BY <1>1, <1>4 DEF Types
<1>6. ASSUME NEW x \in Task, NEW fd \in Fd
      PROVE  Row(x, fd)'
  <2>1. CASE x = table[t] /\ fd = n
    <3>1. files'[x][fd] = d /\ desc'[d] = desc[d]  BY <1>2, <1>3, <1>4, <2>1
    <3>2. fdStatus'[x][fd] = fdStatus[table[t]][src] /\ timerfds'[x][fd] = timerfds[table[t]][src]
      BY <1>1, <2>1 DEF Types
    <3>3. Recorded(d, fdStatus[table[t]][src], timerfds[table[t]][src], desc)
      BY <1>1, <1>2 DEF TablesInv, Row
    <3>4. QED BY <1>3, <3>1, <3>2, <3>3 DEF Row, Recorded
  <2>2. CASE ~(x = table[t] /\ fd = n)
    <3>1. files'[x][fd] = files[x][fd]  BY <1>4, <2>2
    <3>2. files[x][fd] # NoDesc => desc'[files[x][fd]] = desc[files[x][fd]]
      BY <1>2, <1>4, <3>1
    <3>3. fdStatus'[x][fd] = fdStatus[x][fd] /\ timerfds'[x][fd] = timerfds[x][fd]
      BY <1>1, <2>2 DEF Types
    <3>4. QED BY <3>1, <3>2, <3>3, UntouchedRow
  <2>3. QED BY <2>1, <2>2
<1>7. QED BY <1>5, <1>6 DEF TablesInv

\* A description that only one descriptor refers to changes, and with it what is
\* recorded for this descriptor.
LEMMA ChangedRight ==
  ASSUME TablesInv, NEW t \in Task, NEW n \in Fd,
         files[table[t]][n] # NoDesc, ~Shared(files[table[t]][n]),
         NEW new \in Descriptions,
         desc' = [desc EXCEPT ![files[table[t]][n]] = new],
         NEW s \in {"absent", "blocking", "nonBlocking"},
         NEW m \in {"absent", "disarmed", "armed"},
         fdStatus' = [fdStatus EXCEPT ![table[t]][n] = s],
         timerfds' = [timerfds EXCEPT ![table[t]][n] = m],
         new.kind # "closed",
         new.kind # "timerfd" => m = "absent" /\ (s = "nonBlocking" <=> new.asked),
         new.kind = "timerfd" => m = Setting(new.armed),
         UNCHANGED <<live, table, maps, files, thrown>>
  PROVE  TablesInv'
<1>1. Types /\ table[t] \in Task  BY DEF TablesInv, Types
<1>2. files[table[t]][n] \in Desc  BY <1>1 DEF Types, Tables
<1>3. Types'  BY <1>1, <1>2 DEF Types
<1>4. ASSUME NEW x \in Task, NEW fd \in Fd
      PROVE  Row(x, fd)'
  <2>1. CASE x = table[t] /\ fd = n
    <3>1. desc'[files'[x][fd]] = new  BY <1>1, <1>2, <2>1 DEF Types
    <3>2. fdStatus'[x][fd] = s /\ timerfds'[x][fd] = m  BY <1>1, <2>1 DEF Types
    <3>3. QED BY <2>1, <3>1, <3>2 DEF Row, Recorded
  <2>2. CASE ~(x = table[t] /\ fd = n)
    <3>1. files[x][fd] # files[table[t]][n]  BY <1>1, <2>2 DEF Shared
    <3>2. files[x][fd] # NoDesc => desc'[files[x][fd]] = desc[files[x][fd]]
      BY <1>1, <3>1 DEF Types, Tables
    <3>3. fdStatus'[x][fd] = fdStatus[x][fd] /\ timerfds'[x][fd] = timerfds[x][fd]
      BY <1>1, <2>2 DEF Types
    <3>4. QED BY <3>2, <3>3, UntouchedRow
  <2>3. QED BY <2>1, <2>2
<1>5. QED BY <1>3, <1>4 DEF TablesInv

-----------------------------------------------------------------------------
(* One lemma for each kind of call.                                        *)

\* What holds of a task that takes a step, and of the numbers it has open.
LEMMA RunningTask ==
  ASSUME TablesInv, NEW t \in Task
  PROVE  /\ Types /\ table[t] \in Task /\ maps[t] = table[t]
         /\ \A fd \in Fd :
              /\ Row(table[t], fd)
              /\ fd \in Open(t) <=> files[table[t]][fd] # NoDesc
              /\ fd \in Open(t) => files[table[t]][fd] \in Desc /\ DescOf(t, fd) \in Descriptions
<1>1. Types /\ table[t] \in Task /\ maps[t] = table[t]  BY DEF TablesInv, Types
<1>2. ASSUME NEW fd \in Fd
      PROVE  /\ Row(table[t], fd)
             /\ fd \in Open(t) <=> files[table[t]][fd] # NoDesc
             /\ fd \in Open(t) => files[table[t]][fd] \in Desc /\ DescOf(t, fd) \in Descriptions
  BY <1>1 DEF TablesInv, Open, DescOf, Types, Tables
<1>3. QED BY <1>1, <1>2

\* socket, accept4 and timerfd_create.
LEMMA CreatingCalls ==
  ASSUME TablesInv, NEW t \in Task, NEW fd \in Fd, NEW b \in BOOLEAN,
         socket(t, b) \/ accept4(t, fd, b) \/ timerfd_create(t)
  PROVE  TablesInv'
<1> DEFINE n == LowestFree(t)
           r == table[t]
<1>1. Types /\ r \in Task /\ maps[t] = r  BY RunningTask
<1>2. Open(t) # Fd  BY Zenon DEF socket, accept4, timerfd_create
<1>3. n \in Fd /\ files[r][n] = NoDesc  BY <1>1, <1>2, LowestFreeIsFree
<1>4. fdStatus[r][n] = "absent" /\ timerfds[r][n] = "absent"
  BY <1>1, <1>3, RunningTask DEF Row, Recorded
<1>5. /\ fdStatus = [fdStatus EXCEPT ![r][n] = "absent"]
      /\ timerfds = [timerfds EXCEPT ![r][n] = "absent"]
  BY <1>1, <1>3, <1>4 DEF Types
<1>6. PICK k : k = n  OBVIOUS
<1>7. CASE socket(t, b)
  <2>1. PICK d \in Unused, cx \in CloexecChoices :
          Install(t, Descriptor(n, d), cx, [desc EXCEPT ![d] = Description("socket", b, b)])
    BY <1>7 DEF socket
  <2>2. PICK s \in {"absent", "nonBlocking"} :
          (s = "nonBlocking" <=> b) /\ fdStatus' = [fdStatus EXCEPT ![r][n] = s]
    BY <1>1, <1>5, <1>7 DEF socket, setFdStatus
  <2>3. Description("socket", b, b) \in Descriptions
        /\ Description("socket", b, b).kind = "socket" /\ Description("socket", b, b).asked = b
    BY DEF Description, Descriptions
  <2>4. UNCHANGED <<live, table, maps, timerfds, thrown>>  BY <1>7 DEF socket
  <2>5. QED BY <1>3, <1>5, <1>6, <2>1, <2>2, <2>3, <2>4, CreatedRight, Zenon
<1>8. CASE accept4(t, fd, b)
  <2>1. PICK d \in Unused :
          Install(t, Descriptor(n, d), FALSE, [desc EXCEPT ![d] = Description("socket", b, b)])
    BY <1>8, Zenon DEF accept4
  <2>2. Status(b) \in {"blocking", "nonBlocking"} /\ (Status(b) = "nonBlocking" <=> b)
        /\ fdStatus' = [fdStatus EXCEPT ![r][n] = Status(b)]
    BY <1>1, <1>8 DEF accept4, setFdStatus, Status
  <2>3. Description("socket", b, b) \in Descriptions
        /\ Description("socket", b, b).kind = "socket" /\ Description("socket", b, b).asked = b
    BY DEF Description, Descriptions
  <2>4. UNCHANGED <<live, table, maps, timerfds, thrown>>  BY <1>8 DEF accept4
  <2>5. QED BY <1>3, <1>5, <1>6, <2>1, <2>2, <2>3, <2>4, CreatedRight, Zenon
<1>9. CASE timerfd_create(t)
  <2>1. PICK d \in Unused, cx \in CloexecChoices :
          Install(t, Descriptor(n, d), cx, [desc EXCEPT ![d] = Description("timerfd", FALSE, TRUE)])
    BY <1>9, Zenon DEF timerfd_create
  <2>2. timerfds' = [timerfds EXCEPT ![r][n] = "disarmed"]
    BY <1>1, <1>3, <1>4, <1>9 DEF timerfd_create, Types
  <2>3. Description("timerfd", FALSE, TRUE) \in Descriptions
        /\ Description("timerfd", FALSE, TRUE).kind = "timerfd"
        /\ Setting(Description("timerfd", FALSE, TRUE).armed) = "disarmed"
    BY DEF Description, Descriptions, Setting
  <2>4. UNCHANGED <<live, table, maps, fdStatus, thrown>>  BY <1>9 DEF timerfd_create
  <2>5. QED BY <1>3, <1>5, <1>6, <2>1, <2>2, <2>3, <2>4, CreatedRight, Zenon
<1>10. QED BY <1>7, <1>8, <1>9

\* dup, fcntl(F_DUPFD) and dup2.
LEMMA CopyingCalls ==
  ASSUME TablesInv, OrdinaryCalls, NEW t \in Task, NEW fd \in Fd, NEW new \in Fd,
         dup(t, fd) \/ fcntlDupfd(t, fd) \/ dup2(t, fd, new)
  PROVE  TablesInv'
<1> DEFINE r == table[t]
<1>1. Types /\ r \in Task /\ maps[t] = r  BY RunningTask
<1>2. fd \in Open(t) /\ files[r][fd] # NoDesc
  BY RunningTask, Zenon DEF dup, fcntlDupfd, dup2, Copyable
<1>3. CASE dup(t, fd) \/ fcntlDupfd(t, fd)
  <2>1. DescOf(t, fd).kind # "timerfd" /\ Open(t) # Fd
    BY <1>3, Zenon DEF dup, fcntlDupfd, Copyable, kernelDup, OrdinaryCalls
  <2>2. PICK n : n = LowestFree(t)  OBVIOUS
  <2>3. n \in Fd /\ files[r][n] = NoDesc  BY <1>1, <2>1, <2>2, LowestFreeIsFree
  <2>4. fdStatus[r][n] = "absent" /\ timerfds[r][n] = "absent" /\ timerfds[r][fd] = "absent"
    BY <1>1, <1>2, <2>1, <2>3, RunningTask DEF Row, Recorded, DescOf
  <2>5. fdStatus' = [fdStatus EXCEPT ![r][n] = fdStatus[r][fd]]
    <3>1. fdStatus[r][fd] = "absent" => fdStatus = [fdStatus EXCEPT ![r][n] = fdStatus[r][fd]]
      BY <1>1, <2>3, <2>4 DEF Types
    <3>2. fdStatus[r][fd] = "absent" => fdStatus' = fdStatus
      BY <1>1, <1>3, Zenon DEF dup, fcntlDupfd, getFdStatus
    <3>3. fdStatus[r][fd] # "absent" => fdStatus' = [fdStatus EXCEPT ![r][n] = fdStatus[r][fd]]
      BY <1>1, <1>3, <2>2, Zenon DEF dup, fcntlDupfd, getFdStatus, setFdStatus
    <3>4. QED BY <3>1, <3>2, <3>3
  <2>6. timerfds' = [timerfds EXCEPT ![r][n] = timerfds[r][fd]]
    <3>1. timerfds = [timerfds EXCEPT ![r][n] = timerfds[r][fd]]
      BY <1>1, <2>3, <2>4 DEF Types
    <3>2. timerfds' = timerfds \/ timerfds' = [timerfds EXCEPT ![r][n] = timerfds[r][fd]]
      BY <1>1, <1>3, <2>2, <2>4, Zenon DEF dup, fcntlDupfd
    <3>3. QED BY <3>1, <3>2
  <2>7. PICK cx : Install(t, Descriptor(n, files[r][fd]), cx, desc)
    BY <1>3, <2>2, Zenon DEF dup, fcntlDupfd, kernelDup
  <2>8. UNCHANGED <<live, table, maps, thrown>>  BY <1>3, Zenon DEF dup, fcntlDupfd
  <2>9. QED BY <1>2, <2>3, <2>5, <2>6, <2>7, <2>8, CopiedRight, Zenon
<1>4. CASE dup2(t, fd, new)
  <2>1. fd # new  BY <1>4 DEF dup2, OrdinaryCalls
  <2>2. fdStatus' = [fdStatus EXCEPT ![r][new] = fdStatus[r][fd]]
    BY <1>1, <1>4, <2>1, Zenon DEF dup2, Types
  <2>3. timerfds' = [timerfds EXCEPT ![r][new] = timerfds[r][fd]]
    BY <1>1, <1>4, <2>1, Zenon DEF dup2, Types
  <2>4. PICK cx : Install(t, Descriptor(new, files[r][fd]), cx, desc)  BY <1>4, Zenon DEF dup2
  <2>5. UNCHANGED <<live, table, maps, thrown>>  BY <1>4, Zenon DEF dup2
  <2>6. QED BY <1>2, <2>2, <2>3, <2>4, <2>5, CopiedRight, Zenon
<1>5. QED BY <1>3, <1>4

\* fcntl(F_SETFL), ioctl(FIONBIO) and timerfd_settime.
LEMMA ChangingCalls ==
  ASSUME TablesInv, OrdinaryCalls, NEW t \in Task, NEW fd \in Fd, NEW b \in BOOLEAN,
         fcntlSetfl(t, fd, b) \/ ioctlFIONBIO(t, fd, b) \/ timerfd_settime(t, fd, b)
  PROVE  TablesInv'
<1> DEFINE r == table[t]
<1>1. Types /\ r \in Task /\ maps[t] = r  BY RunningTask
<1>2. fd \in Open(t) /\ ~Shared(files[r][fd])
  BY DEF fcntlSetfl, ioctlFIONBIO, timerfd_settime, Changeable, OrdinaryCalls
<1>3. PICK x : x = files[r][fd]  OBVIOUS
<1>4. x \in Desc /\ x # NoDesc /\ desc[x] \in Descriptions  BY <1>2, <1>3, RunningTask DEF DescOf
<1>5. PICK old \in Descriptions :
        /\ old = desc[x]
        /\ old = [kind |-> old.kind, asked |-> old.asked, really |-> old.really,
                  armed |-> old.armed]
  BY <1>4 DEF Descriptions
<1>6. /\ old.kind # "closed"
      /\ old.kind # "timerfd" => timerfds[r][fd] = "absent"
      /\ old.kind = "timerfd" => timerfds[r][fd] = Setting(old.armed)
  <2>1. Recorded(x, fdStatus[r][fd], timerfds[r][fd], desc)
    BY <1>1, <1>3, RunningTask DEF Row
  <2>2. QED BY <1>4, <1>5, <2>1 DEF Recorded
<1>7. fdStatus[r][fd] \in {"absent", "blocking", "nonBlocking"}
      /\ timerfds[r][fd] \in {"absent", "disarmed", "armed"}
      /\ fdStatus = [fdStatus EXCEPT ![r][fd] = fdStatus[r][fd]]
      /\ timerfds = [timerfds EXCEPT ![r][fd] = timerfds[r][fd]]
  BY <1>1 DEF Types
<1>8. CASE fcntlSetfl(t, fd, b) \/ ioctlFIONBIO(t, fd, b)
  <2> DEFINE new == [kind |-> old.kind, asked |-> b, really |-> b, armed |-> old.armed]
  <2>1. new \in Descriptions  BY DEF Descriptions
  <2>2. desc' = [desc EXCEPT ![x].asked = b, ![x].really = b]
    BY <1>3, <1>8, Zenon DEF fcntlSetfl, ioctlFIONBIO, kernelSetNonblock
  <2>3. desc' = [desc EXCEPT ![x] = new]
    <3> DEFINE half == [kind |-> old.kind, asked |-> b, really |-> old.really, armed |-> old.armed]
    <3>1. [desc[x] EXCEPT !.asked = b] = half  BY <1>5
    <3>2. [half EXCEPT !.really = b] = new  OBVIOUS
    <3>3. desc' = [[desc EXCEPT ![x] = half] EXCEPT ![x].really = b]
      BY <1>1, <1>4, <2>2, <3>1, Zenon DEF Types
    <3>4. QED BY <1>1, <1>4, <3>2, <3>3, Zenon DEF Types
  <2>4. PICK s \in {"blocking", "nonBlocking"} :
          (s = "nonBlocking" <=> b) /\ fdStatus' = [fdStatus EXCEPT ![r][fd] = s]
    BY <1>1, <1>8 DEF fcntlSetfl, ioctlFIONBIO, setFdStatus, Status, OrdinaryCalls
  <2>5. UNCHANGED <<live, table, maps, files, timerfds, thrown>>
    BY <1>8, Zenon DEF fcntlSetfl, ioctlFIONBIO, kernelSetNonblock
  <2>6. new.kind = old.kind /\ new.asked = b /\ new.armed = old.armed  OBVIOUS
  <2> HIDE DEF new
  <2>7. PICK m \in {"absent", "disarmed", "armed"} : m = timerfds[r][fd]  BY <1>7
  <2>8. timerfds' = [timerfds EXCEPT ![r][fd] = m]  BY <1>7, <2>5, <2>7
  <2>9. /\ new.kind # "closed"
        /\ new.kind # "timerfd" => m = "absent" /\ (s = "nonBlocking" <=> new.asked)
        /\ new.kind = "timerfd" => m = Setting(new.armed)
    BY <1>6, <2>4, <2>6, <2>7
  <2>10. desc' = [desc EXCEPT ![files[table[t]][fd]] = new]  BY <1>3, <2>3
  <2>11. files[table[t]][fd] # NoDesc  BY <1>3, <1>4
  <2>12. UNCHANGED <<live, table, maps, files, thrown>>  BY <2>5
  <2>13. QED BY <1>2, <2>1, <2>4, <2>8, <2>9, <2>10, <2>11, <2>12, ChangedRight, Zenon
<1>9. CASE timerfd_settime(t, fd, b)
  <2> DEFINE new == [kind |-> old.kind, asked |-> old.asked, really |-> old.really, armed |-> b]
  <2>1. new \in Descriptions  BY DEF Descriptions
  <2>2. desc' = [desc EXCEPT ![x].armed = b]  BY <1>3, <1>9 DEF timerfd_settime
  <2>3. desc' = [desc EXCEPT ![x] = new]
    <3>1. [desc[x] EXCEPT !.armed = b] = new  BY <1>5
    <3>2. QED BY <1>1, <1>4, <2>2, <3>1, Zenon DEF Types
  <2>4. timerfds' = [timerfds EXCEPT ![r][fd] = Setting(b)] /\ Setting(b) \in {"disarmed", "armed"}
    BY <1>1, <1>9 DEF timerfd_settime, Setting
  <2>5. UNCHANGED <<live, table, maps, files, fdStatus, thrown>>  BY <1>9 DEF timerfd_settime
  <2>6. new.kind = "timerfd" /\ new.armed = b
    BY <1>3, <1>5, <1>9 DEF timerfd_settime, DescOf
  <2> HIDE DEF new
  <2>7. PICK s \in {"absent", "blocking", "nonBlocking"} : s = fdStatus[r][fd]  BY <1>7
  <2>8. fdStatus' = [fdStatus EXCEPT ![r][fd] = s]  BY <1>7, <2>5, <2>7
  <2>9. QED BY <1>2, <1>3, <1>4, <2>1, <2>3, <2>4, <2>5, <2>6, <2>8, ChangedRight, Zenon
<1>10. QED BY <1>8, <1>9

\* close.
LEMMA ClosingCall ==
  ASSUME TablesInv, NEW t \in Task, NEW n \in Fd, close(t, n)
  PROVE  TablesInv'
<1> DEFINE r == table[t]
           T == [files EXCEPT ![r][n] = NoDesc]
<1>1. Types /\ r \in Task /\ maps[t] = r  BY RunningTask
<1>2. T \in Tables /\ desc \in [Desc -> Descriptions]  BY <1>1 DEF Types, Tables
<1>3. \A x \in Task, fd \in Fd : T[x][fd] = IF x = r /\ fd = n THEN NoDesc ELSE files[x][fd]
  BY <1>1 DEF Types, Tables
<1>4. SetFiles(T, desc)  BY DEF close
<1> HIDE DEF T
<1>5. files' = T /\ desc' \in [Desc -> Descriptions]
      /\ \A x \in Task, fd \in Fd : T[x][fd] # NoDesc => desc'[T[x][fd]] = desc[T[x][fd]]
  BY <1>2, <1>4, FilesAreSet
<1>6. /\ fdStatus' = [fdStatus EXCEPT ![r][n] = "absent"]
      /\ timerfds' = [timerfds EXCEPT ![r][n] = "absent"]
      /\ UNCHANGED <<live, table, maps, thrown>>
  BY <1>1 DEF close, setFdStatus
<1>7. Types'  BY <1>1, <1>2, <1>5, <1>6 DEF Types
<1>8. ASSUME NEW x \in Task, NEW fd \in Fd
      PROVE  Row(x, fd)'
  <2>1. CASE x = r /\ fd = n
    <3>1. fdStatus'[x][fd] = "absent" /\ timerfds'[x][fd] = "absent"
      BY <1>1, <1>6, <2>1 DEF Types
    <3>2. QED BY <1>3, <1>5, <2>1, <3>1 DEF Row, Recorded
  <2>2. CASE ~(x = r /\ fd = n)
    <3>1. fdStatus'[x][fd] = fdStatus[x][fd] /\ timerfds'[x][fd] = timerfds[x][fd]
      BY <1>1, <1>6, <2>2 DEF Types
    <3>2. files'[x][fd] = files[x][fd]  BY <1>3, <1>5, <2>2
    <3>3. files[x][fd] # NoDesc => desc'[files[x][fd]] = desc[files[x][fd]]
      BY <1>5, <3>2
    <3>4. QED BY <3>1, <3>2, <3>3, UntouchedRow
  <2>3. QED BY <2>1, <2>2
<1>9. QED BY <1>7, <1>8 DEF TablesInv

\* fork copies a whole table, clone shares one.
LEMMA NewTasks ==
  ASSUME TablesInv, NEW t \in Task, NEW q \in Task, forked(t, q) \/ cloned(t, q)
  PROVE  TablesInv'
<1> DEFINE r == table[t]
<1>1. Types /\ r \in Task /\ maps[t] = r  BY RunningTask
<1>2. CASE forked(t, q)
  <2> DEFINE T == [files EXCEPT ![q] = files[r]]
  <2>1. T \in Tables /\ desc \in [Desc -> Descriptions]  BY <1>1 DEF Types, Tables
  <2>2. \A x \in Task, fd \in Fd : T[x][fd] = IF x = q THEN files[r][fd] ELSE files[x][fd]
    BY <1>1 DEF Types, Tables
  <2>3. SetFiles(T, desc)  BY <1>2 DEF forked, CopyTable
  <2> HIDE DEF T
  <2>4. files' = T /\ desc' \in [Desc -> Descriptions]
        /\ \A x \in Task, fd \in Fd : T[x][fd] # NoDesc => desc'[T[x][fd]] = desc[T[x][fd]]
    BY <2>1, <2>3, FilesAreSet
  <2>5. /\ live' = live \union {q} /\ table' = [table EXCEPT ![q] = q]
        /\ maps' = [maps EXCEPT ![q] = q] /\ thrown' = thrown
        /\ fdStatus' = [fdStatus EXCEPT ![q] = fdStatus[r]]
        /\ timerfds' = [timerfds EXCEPT ![q] = timerfds[r]]
    BY <1>1, <1>2 DEF forked, CopyTable
  <2>6. Types'  BY <1>1, <2>1, <2>4, <2>5 DEF Types
  <2>7. ASSUME NEW x \in Task, NEW fd \in Fd
        PROVE  Row(x, fd)'
    <3>1. PICK y \in Task : y = IF x = q THEN r ELSE x  BY <1>1
    <3>2. fdStatus'[x][fd] = fdStatus[y][fd] /\ timerfds'[x][fd] = timerfds[y][fd]
      BY <1>1, <2>5, <3>1 DEF Types
    <3>3. files'[x][fd] = files[y][fd]  BY <2>2, <2>4, <3>1
    <3>4. files[y][fd] # NoDesc => desc'[files[y][fd]] = desc[files[y][fd]]
      BY <2>4, <3>3
    <3>5. Row(y, fd)  BY DEF TablesInv
    <3>6. QED BY <3>2, <3>3, <3>4, <3>5 DEF Row, Recorded
  <2>8. QED BY <2>6, <2>7 DEF TablesInv
<1>3. CASE cloned(t, q)
  <2>1. /\ live' = live \union {q} /\ table' = [table EXCEPT ![q] = r]
        /\ maps' = [maps EXCEPT ![q] = r]
        /\ UNCHANGED <<files, desc, fdStatus, timerfds, thrown>>
    BY <1>1, <1>3 DEF cloned
  <2>2. Types'  BY <1>1, <2>1 DEF Types
  <2>3. QED BY <2>1, <2>2 DEF TablesInv, Row
<1>4. QED BY <1>2, <1>3

\* The last task that uses a table takes it along, in the kernel and in the tracer.
LEMMA EndingTask ==
  ASSUME TablesInv, NEW t \in Task, exit(t)
  PROVE  TablesInv'
<1> DEFINE r == table[t]
           last == \A u \in live \ {t} : table[u] # r
           T == IF last THEN [files EXCEPT ![r] = [fd \in Fd |-> NoDesc]] ELSE files
<1>1. Types /\ r \in Task /\ maps = table  BY RunningTask DEF Types
<1>2. T \in Tables /\ desc \in [Desc -> Descriptions]  BY <1>1 DEF Types, Tables
<1>3. \A x \in Task, fd \in Fd : T[x][fd] = IF last /\ x = r THEN NoDesc ELSE files[x][fd]
  BY <1>1 DEF Types, Tables
<1>4. SetFiles(T, desc)  BY DEF exit
<1> HIDE DEF T
<1>5. files' = T /\ desc' \in [Desc -> Descriptions]
      /\ \A x \in Task, fd \in Fd : T[x][fd] # NoDesc => desc'[T[x][fd]] = desc[T[x][fd]]
  BY <1>2, <1>4, FilesAreSet
<1> DEFINE nothing == [fd \in Fd |-> "absent"]
<1>6. /\ live' = live \ {t} /\ table' = [table EXCEPT ![t] = t]
      /\ maps' = [maps EXCEPT ![t] = t] /\ thrown' = thrown
      /\ fdStatus' = IF last THEN [fdStatus EXCEPT ![r] = nothing] ELSE fdStatus
      /\ timerfds' = IF last THEN [timerfds EXCEPT ![r] = nothing] ELSE timerfds
  BY <1>1 DEF exit
<1> HIDE DEF last
<1>7. Types'  BY <1>1, <1>2, <1>5, <1>6 DEF Types
<1>8. ASSUME NEW x \in Task, NEW fd \in Fd
      PROVE  Row(x, fd)'
  <2>1. CASE last /\ x = r
    <3>1. fdStatus'[x][fd] = "absent" /\ timerfds'[x][fd] = "absent"
      BY <1>1, <1>6, <2>1 DEF Types
    <3>2. QED BY <1>3, <1>5, <2>1, <3>1 DEF Row, Recorded
  <2>2. CASE ~(last /\ x = r)
    <3>1. fdStatus'[x][fd] = fdStatus[x][fd] /\ timerfds'[x][fd] = timerfds[x][fd]
      BY <1>1, <1>6, <2>2 DEF Types
    <3>2. files'[x][fd] = files[x][fd]  BY <1>3, <1>5, <2>2
    <3>3. files[x][fd] # NoDesc => desc'[files[x][fd]] = desc[files[x][fd]]
      BY <1>5, <3>2
    <3>4. QED BY <3>1, <3>2, <3>3, UntouchedRow
  <2>3. QED BY <2>1, <2>2
<1>9. QED BY <1>7, <1>8 DEF TablesInv

-----------------------------------------------------------------------------
(* The specification.                                                      *)

\* One process without descriptors.
LEMMA InitTables == Init => TablesInv
<1> SUFFICES ASSUME Init PROVE TablesInv  OBVIOUS
<1>1. live \subseteq Task /\ table \in [Task -> Task] /\ maps = table /\ thrown = "no"
  BY DEF Init
<1>2. files \in Tables /\ desc \in [Desc -> Descriptions]
  BY DEF Init, Tables, Closed, Descriptions
<1>3. /\ fdStatus \in [Task -> [Fd -> {"absent", "blocking", "nonBlocking"}]]
      /\ timerfds \in [Task -> [Fd -> {"absent", "disarmed", "armed"}]]
  BY DEF Init
<1>4. \A x \in Task, fd \in Fd : Row(x, fd)  BY DEF Init, Row, Recorded
<1>5. QED BY <1>1, <1>2, <1>3, <1>4 DEF TablesInv, Types

\* Every ordinary call keeps the tables right.
LEMMA NextTables ==
  ASSUME OrdinaryCalls, TablesInv, [Next]_vars
  PROVE  TablesInv'
<1>1. CASE UNCHANGED vars
  BY <1>1 DEF vars, TablesInv, Types, Row, Recorded
<1>2. ASSUME NEW t \in Task, pipe(t) \/ pipe2Fails(t) \/ timerfd_create(t)
                             \/ handleExecEvent(t) \/ exit(t)
      PROVE  TablesInv'
  <2>1. CASE pipe(t)
    <3>1. PICK d, e \in Unused : d # e /\ kernelPipe2(t, d, e, FALSE, FALSE)
      BY <2>1, Zenon DEF pipe
    <3>2. UNCHANGED <<live, table, maps, timerfds>>  BY <2>1 DEF pipe
    <3>3. QED BY <3>1, <3>2, PipeRight, Zenon
  <2>2. CASE timerfd_create(t)
    <3>1. 0 \in Fd /\ FALSE \in BOOLEAN  BY DescriptorsAssumption DEF Fd
    <3>2. QED BY <2>2, <3>1, CreatingCalls, Zenon
  <2>3. ~pipe2Fails(t) /\ ~handleExecEvent(t)
    BY DEF pipe2Fails, handleExecEvent, OrdinaryCalls
  <2>4. QED BY <1>2, <2>1, <2>2, <2>3, EndingTask
<1>3. ASSUME NEW t \in Task, NEW b \in BOOLEAN, pipe2(t, b) \/ socket(t, b)
      PROVE  TablesInv'
  <2>1. CASE pipe2(t, b)
    <3>1. PICK d, e \in Unused, cx \in CloexecChoices : d # e /\ kernelPipe2(t, d, e, b, cx)
      BY <2>1 DEF pipe2
    <3>2. UNCHANGED <<live, table, maps, timerfds>>  BY <2>1 DEF pipe2
    <3>3. QED BY <3>1, <3>2, PipeRight
  <2>2. CASE socket(t, b)
    <3>1. 0 \in Fd  BY DescriptorsAssumption DEF Fd
    <3>2. QED BY <2>2, <3>1, CreatingCalls
  <2>3. QED BY <1>3, <2>1, <2>2
<1>4. ASSUME NEW t \in Task, NEW q \in Task, forked(t, q) \/ cloned(t, q)
      PROVE  TablesInv'
  BY <1>4, NewTasks
<1>5. ASSUME NEW t \in Task, NEW fd \in Fd,
             dup(t, fd) \/ fcntlDupfd(t, fd) \/ close(t, fd)
             \/ fcntlAddFlag(t, fd) \/ fcntlSetflFails(t, fd)
      PROVE  TablesInv'
  <2>1. ~fcntlAddFlag(t, fd) /\ ~fcntlSetflFails(t, fd)
    BY DEF fcntlAddFlag, fcntlSetflFails, OrdinaryCalls
  <2>2. QED BY <1>5, <2>1, CopyingCalls, ClosingCall
<1>6. ASSUME NEW t \in Task, NEW fd \in Fd, NEW new \in Fd, dup2(t, fd, new)
      PROVE  TablesInv'
  BY <1>6, CopyingCalls
<1>7. ASSUME NEW t \in Task, NEW fd \in Fd, NEW b \in BOOLEAN,
             accept4(t, fd, b) \/ fcntlSetfl(t, fd, b) \/ ioctlFIONBIO(t, fd, b)
             \/ timerfd_settime(t, fd, b) \/ timerfd_settimeFails(t, fd, b)
      PROVE  TablesInv'
  <2>1. ~timerfd_settimeFails(t, fd, b)  BY DEF timerfd_settimeFails, OrdinaryCalls
  <2>2. QED BY <1>7, <2>1, CreatingCalls, ChangingCalls
<1>8. QED BY <1>1, <1>2, <1>3, <1>4, <1>5, <1>6, <1>7 DEF Next

\* What the inductive invariant says of the tasks that live.
LEMMA TablesImply ==
  TablesInv => StatusAsAsked /\ TimersKnown /\ TimersAsSet /\ NoLeftOverStatus /\ TablesSharedAlike
<1> SUFFICES ASSUME TablesInv
             PROVE  StatusAsAsked /\ TimersKnown /\ TimersAsSet /\ NoLeftOverStatus
                    /\ TablesSharedAlike
  OBVIOUS
<1>1. Types /\ live \subseteq Task  BY DEF TablesInv, Types
<1>2. NoLeftOverStatus /\ TablesSharedAlike
  BY <1>1 DEF Types, NoLeftOverStatus, TablesSharedAlike
<1>3. ASSUME NEW t \in live, NEW fd \in Fd
      PROVE  /\ IsOfKind(t, fd, "pipe") \/ IsOfKind(t, fd, "socket") =>
                  (fd_is_nonblocking(t, fd) <=> DescOf(t, fd).asked)
             /\ fd_is_timerfd(t, fd) <=> IsOfKind(t, fd, "timerfd")
             /\ IsOfKind(t, fd, "timerfd") => timerfd_gettime(t, fd) = Setting(DescOf(t, fd).armed)
  <2>1. t \in Task /\ table[t] \in Task /\ maps[t] = table[t]  BY <1>1 DEF Types
  <2>2. Recorded(files[table[t]][fd], fdStatus[table[t]][fd], timerfds[table[t]][fd], desc)
    BY <2>1 DEF TablesInv, Row
  <2>3. Setting(DescOf(t, fd).armed) # "absent"  BY DEF Setting
  <2>4. fd \in Open(t) <=> files[table[t]][fd] # NoDesc  BY DEF Open
  <2>5. CASE files[table[t]][fd] = NoDesc
    BY <2>1, <2>2, <2>4, <2>5 DEF Recorded, IsOfKind, fd_is_timerfd
  <2>6. CASE files[table[t]][fd] # NoDesc
    BY <2>1, <2>2, <2>3, <2>4, <2>6
    DEF Recorded, IsOfKind, DescOf, fd_is_timerfd, fd_is_nonblocking, getFdStatus, timerfd_gettime
  <2>7. QED BY <2>5, <2>6
<1>4. QED BY <1>2, <1>3 DEF StatusAsAsked, TimersKnown, TimersAsSet

\* With any number of tasks, descriptors and open files, and whatever the order in
\* which descriptors are made, copied, changed, closed, inherited and shared: read,
\* write, recvmsg and accept4 find in fdStatus what the tracee asked for, timerfds
\* has the timers and what they are set to, and pipe2 never throws.
THEOREM DescriptorsAsAsked ==
  ASSUME OrdinaryCalls
  PROVE  Spec => [](StatusAsAsked /\ TimersKnown /\ TimersAsSet /\ NoLeftOverStatus
                    /\ TablesSharedAlike)
<1>1. TablesInv /\ [Next]_vars => TablesInv'  BY NextTables
<1>2. QED BY <1>1, InitTables, TablesImply, PTL DEF Spec

-----------------------------------------------------------------------------
(* The same of the behaviours that MCDescriptors puts together.            *)

\* A step of the ordinary part is one of Descriptors.
LEMMA OrdinaryPart ==
  ASSUME [MCNext]_<<vars, part>>, part' = "ordinary"
  PROVE  part = "ordinary" /\ [Next]_vars
BY DEF MCNext

\* The invariant holds of the ordinary part, if the tracees keep to the calls that
\* are ordinary.
LEMMA AlwaysTables ==
  ASSUME OrdinaryCalls
  PROVE  MCSpec => [](part = "ordinary" => TablesInv)
<1> DEFINE I == part = "ordinary" => TablesInv
<1>1. MCInit => I
  BY InitTables DEF MCInit
<1>2. I /\ [MCNext]_<<vars, part>> => I'
  BY OrdinaryPart, NextTables
<1>3. QED BY <1>1, <1>2, PTL DEF MCSpec

\* In the part with the ordinary calls, whatever the constants are, read, write,
\* recvmsg and accept4 find in fdStatus what the tracee asked for, for every
\* descriptor of every task, and pipe2 never throws.
THEOREM StatusSafety ==
  ASSUME OrdinaryCalls
  PROVE  MCSpec => []OrdinaryStatusAsAsked
<1>1. (part = "ordinary" => TablesInv) => OrdinaryStatusAsAsked
  BY TablesImply DEF OrdinaryStatusAsAsked
<1>2. QED BY <1>1, AlwaysTables, PTL

\* In the same part timerfds has exactly the descriptors that are timers, and what
\* they are set to.
THEOREM TimersSafety ==
  ASSUME OrdinaryCalls
  PROVE  MCSpec => []OrdinaryTimersKnown
<1>1. (part = "ordinary" => TablesInv) => OrdinaryTimersKnown
  BY TablesImply DEF OrdinaryTimersKnown
<1>2. QED BY <1>1, AlwaysTables, PTL

-----------------------------------------------------------------------------
(* Which tasks share their descriptors, for calls of all kinds.            *)

\* The invariant, for the tasks T.
SharingInv(T) == live \subseteq T /\ table \in [T -> T] /\ maps = table

\* What a step may do to it: tasks end, or keep a table of their own; a new one has
\* its own table or that of another task, in the kernel and in the tracer.
SharingStep(T) ==
  \/ live' \subseteq live /\ UNCHANGED <<table, maps>>
  \/ \E t \in T : /\ live' \subseteq live
                  /\ table' = [table EXCEPT ![t] = t] /\ maps' = [maps EXCEPT ![t] = t]
  \/ \E t, q \in T : /\ live' = live \union {q}
                     /\ \/ table' = [table EXCEPT ![q] = q] /\ maps' = [maps EXCEPT ![q] = q]
                        \/ /\ table' = [table EXCEPT ![q] = table[t]]
                           /\ maps' = [maps EXCEPT ![q] = maps[t]]

\* Such a step keeps the invariant.
LEMMA SharingKept ==
  ASSUME NEW T, SharingInv(T), SharingStep(T)
  PROVE  SharingInv(T)'
BY DEF SharingInv, SharingStep

\* The calls take such steps, with the constants of the ordinary part.
LEMMA OrdinarySharing ==
  ASSUME [Next]_vars
  PROVE  SharingStep(Task)
<1>1. CASE UNCHANGED <<live, table, maps>>  BY <1>1 DEF SharingStep
<1>2. ASSUME NEW t \in Task, handleExecEvent(t) \/ exit(t)  PROVE SharingStep(Task)
  BY <1>2 DEF SharingStep, handleExecEvent, exit
<1>3. ASSUME NEW t \in Task, NEW q \in Task, forked(t, q) \/ cloned(t, q)
      PROVE  SharingStep(Task)
  BY <1>3 DEF SharingStep, forked, CopyTable, cloned
<1>4. ASSUME NEW t \in Task, pipe(t) \/ pipe2Fails(t) \/ timerfd_create(t)
      PROVE  UNCHANGED <<live, table, maps>>
  BY <1>4, Zenon DEF pipe, pipe2Fails, timerfd_create
<1>5. ASSUME NEW t \in Task, NEW b \in BOOLEAN, pipe2(t, b) \/ socket(t, b)
      PROVE  UNCHANGED <<live, table, maps>>
  BY <1>5 DEF pipe2, socket
<1>6. ASSUME NEW t \in Task, NEW fd \in Fd,
             dup(t, fd) \/ fcntlDupfd(t, fd) \/ close(t, fd)
             \/ fcntlAddFlag(t, fd) \/ fcntlSetflFails(t, fd)
      PROVE  UNCHANGED <<live, table, maps>>
  BY <1>6, Zenon DEF dup, fcntlDupfd, close, fcntlAddFlag, fcntlSetflFails
<1>7. ASSUME NEW t \in Task, NEW fd \in Fd, NEW new \in Fd, dup2(t, fd, new)
      PROVE  UNCHANGED <<live, table, maps>>
  BY <1>7, Zenon DEF dup2
<1>8. ASSUME NEW t \in Task, NEW fd \in Fd, NEW b \in BOOLEAN,
             accept4(t, fd, b) \/ fcntlSetfl(t, fd, b) \/ ioctlFIONBIO(t, fd, b)
             \/ timerfd_settime(t, fd, b) \/ timerfd_settimeFails(t, fd, b)
      PROVE  UNCHANGED <<live, table, maps>>
  BY <1>8, Zenon DEF accept4, fcntlSetfl, ioctlFIONBIO, timerfd_settime, timerfd_settimeFails
<1>9. QED BY <1>1, <1>2, <1>3, <1>4, <1>5, <1>6, <1>7, <1>8 DEF Next, vars

\* The calls take such steps, with the constants of the other part, too.
LEMMA AllSharing ==
  ASSUME All!Next
  PROVE  SharingStep(Task \union {ThirdTask})
<1> DEFINE everyone == Task \union {ThirdTask}
<1>1. CASE UNCHANGED <<live, table, maps>>  BY <1>1 DEF SharingStep
<1>2. ASSUME NEW t \in everyone, All!handleExecEvent(t) \/ All!exit(t)  PROVE SharingStep(everyone)
  BY <1>2 DEF SharingStep, All!handleExecEvent, All!exit
<1>3. ASSUME NEW t \in everyone, NEW q \in everyone, All!forked(t, q) \/ All!cloned(t, q)
      PROVE  SharingStep(everyone)
  BY <1>3 DEF SharingStep, All!forked, All!CopyTable, All!cloned
<1>4. ASSUME NEW t \in everyone, All!pipe(t) \/ All!pipe2Fails(t) \/ All!timerfd_create(t)
      PROVE  UNCHANGED <<live, table, maps>>
  BY <1>4, Zenon DEF All!pipe, All!pipe2Fails, All!timerfd_create
<1>5. ASSUME NEW t \in everyone, NEW b \in BOOLEAN, All!pipe2(t, b) \/ All!socket(t, b)
      PROVE  UNCHANGED <<live, table, maps>>
  BY <1>5 DEF All!pipe2, All!socket
<1>6. ASSUME NEW t \in everyone, NEW fd \in All!Fd,
             All!dup(t, fd) \/ All!fcntlDupfd(t, fd) \/ All!close(t, fd)
             \/ All!fcntlAddFlag(t, fd) \/ All!fcntlSetflFails(t, fd)
      PROVE  UNCHANGED <<live, table, maps>>
  BY <1>6, Zenon DEF All!dup, All!fcntlDupfd, All!close, All!fcntlAddFlag, All!fcntlSetflFails
<1>7. ASSUME NEW t \in everyone, NEW fd \in All!Fd, NEW new \in All!Fd, All!dup2(t, fd, new)
      PROVE  UNCHANGED <<live, table, maps>>
  BY <1>7, Zenon DEF All!dup2
<1>8. ASSUME NEW t \in everyone, NEW fd \in All!Fd, NEW b \in BOOLEAN,
             All!accept4(t, fd, b) \/ All!fcntlSetfl(t, fd, b) \/ All!ioctlFIONBIO(t, fd, b)
             \/ All!timerfd_settime(t, fd, b) \/ All!timerfd_settimeFails(t, fd, b)
      PROVE  UNCHANGED <<live, table, maps>>
  BY <1>8, Zenon DEF All!accept4, All!fcntlSetfl, All!ioctlFIONBIO, All!timerfd_settime, All!timerfd_settimeFails
<1>9. QED BY <1>1, <1>2, <1>3, <1>4, <1>5, <1>6, <1>7, <1>8 DEF All!Next

\* Threads share in the tracer what they share in the kernel, whatever they call:
\* state::forked and state::cloned copy and share as fork and clone do, and
\* nothing else changes who shares.
THEOREM SharedAlike == MCSpec => []AlwaysSharedAlike
<1> DEFINE everyone == Task \union {ThirdTask}
           I == (part = "ordinary" => SharingInv(Task)) /\ (part = "all" => SharingInv(everyone))
<1>1. MCInit => I
  BY DEF MCInit, Init, All!Init, SharingInv
<1>2. I /\ [MCNext]_<<vars, part>> => I'
  <2> SUFFICES ASSUME I, [MCNext]_<<vars, part>> PROVE I'  OBVIOUS
  <2>1. CASE part' = "ordinary"
    BY <2>1, OrdinaryPart, OrdinarySharing, SharingKept
  <2>2. CASE part' = "all"
    <3>1. part = "all" /\ (All!Next \/ UNCHANGED vars)
      BY <2>2 DEF MCNext
    <3>2. SharingStep(everyone)
      BY <3>1, AllSharing DEF vars, SharingStep
    <3> QED BY <2>2, <3>1, <3>2, SharingKept
  <2> QED BY <2>1, <2>2
<1>3. I => AlwaysSharedAlike
  BY DEF SharingInv, AlwaysSharedAlike, TablesSharedAlike, All!TablesSharedAlike
<1>4. QED BY <1>1, <1>2, <1>3, PTL DEF MCSpec
=============================================================================
