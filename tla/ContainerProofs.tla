-------------------------- MODULE ContainerProofs --------------------------
(***************************************************************************)
(* Proofs about what dettrace shows to its guest: volumes win over the     *)
(* overrides, the canonical files are kept from run to run, every way to   *)
(* count the CPUs gives the same answer, and no spelling of a path gets to *)
(* the host's topology.                                                    *)
(***************************************************************************)
EXTENDS MCSetup, FiniteSetTheorems, SequenceTheorems, WellFoundedInduction, TLAPS

ToSet(q) == {q[i] : i \in DOMAIN q}

----------------------------------------------------------------------------
(* Queues of mounts. *)

Mount == [target : Files, volume : BOOLEAN, optional : BOOLEAN, readonly : BOOLEAN]

\* What is in a queue, and what is last, when the first is taken.
LEMMA QueueTail ==
  ASSUME NEW q \in Seq(Mount), q # <<>>
  PROVE  /\ Tail(q) \in Seq(Mount) /\ Head(q) \in Mount
         /\ ToSet(q) = ToSet(Tail(q)) \union {Head(q)}
         /\ Tail(q) = <<>> => q[Len(q)] = Head(q)
         /\ Tail(q) # <<>> => Tail(q)[Len(Tail(q))] = q[Len(q)]
<1>1. /\ Tail(q) \in Seq(Mount) /\ Head(q) \in Mount /\ Head(q) = q[1]
      /\ Len(q) \in Nat /\ Len(q) > 0 /\ Len(Tail(q)) = Len(q) - 1
      /\ \A i \in 1..(Len(q) - 1) : Tail(q)[i] = q[i + 1]
  OBVIOUS
<1> DEFINE t == Tail(q)
<1>2. t \in Seq(Mount) /\ DOMAIN t = 1..(Len(q) - 1) /\ DOMAIN q = 1..Len(q)
  BY <1>1
<1> HIDE DEF t
<1>3. ASSUME NEW m \in ToSet(q) PROVE m \in ToSet(t) \union {Head(q)}
  <2>1. PICK i \in 1..Len(q) : m = q[i]
    BY <1>2, <1>3 DEF ToSet
  <2>2. CASE i = 1
    BY <1>1, <2>1, <2>2
  <2>3. CASE i # 1
    <3>1. i - 1 \in 1..(Len(q) - 1) /\ i - 1 + 1 = i
      BY <1>1, <2>3
    <3>2. t[i - 1] = m
      BY <1>1, <2>1, <3>1 DEF t
    <3> QED
      BY <1>2, <3>1, <3>2 DEF ToSet
  <2> QED
    BY <2>2, <2>3
<1>4. ASSUME NEW m \in ToSet(t) PROVE m \in ToSet(q)
  <2>1. PICK i \in 1..(Len(q) - 1) : m = t[i]
    BY <1>2 DEF ToSet
  <2>2. m = q[i + 1] /\ i + 1 \in 1..Len(q)
    BY <1>1, <2>1 DEF t
  <2> QED
    BY <1>2, <2>2 DEF ToSet
<1>5. Head(q) \in ToSet(q)
  BY <1>1, <1>2 DEF ToSet
<1>6. ToSet(q) = ToSet(t) \union {Head(q)}
  BY <1>3, <1>4, <1>5
<1>7. ASSUME t = <<>> PROVE q[Len(q)] = Head(q)
  <2>1. Tail(q) = <<>> /\ Len(<<>>) = 0
    BY <1>7 DEF t
  <2>2. Len(q) = 1
    <3>1. Len(q) - 1 = 0
      BY <1>1, <2>1, Zenon
    <3>2. \A n \in Nat : n - 1 = 0 => n = 1
      OBVIOUS
    <3> QED
      BY <1>1, <3>1, <3>2, Zenon
  <2> QED
    BY <1>1, <2>2, Zenon
<1>8. ASSUME t # <<>> PROVE t[Len(t)] = q[Len(q)]
  <2>1. Len(t) = Len(q) - 1 /\ Len(t) > 0
    BY <1>1, <1>8 DEF t
  <2>2. Len(q) - 1 \in 1..(Len(q) - 1) /\ Len(q) - 1 + 1 = Len(q)
    BY <1>1, <2>1
  <2>3. t[Len(q) - 1] = q[Len(q)]
    BY <1>1, <2>2 DEF t
  <2> QED
    BY <2>1, <2>3
<1> QED
  BY <1>1, <1>6, <1>7, <1>8 DEF t

\* What is in a queue that is joined from two, and what is last.
LEMMA QueueJoin ==
  ASSUME NEW q \in Seq(Mount), NEW r \in Seq(Mount)
  PROVE  /\ q \o r \in Seq(Mount)
         /\ ToSet(q \o r) = ToSet(q) \union ToSet(r)
         /\ r # <<>> => q \o r # <<>> /\ (q \o r)[Len(q \o r)] = r[Len(r)]
<1> DEFINE t == q \o r
<1>1. /\ t \in Seq(Mount) /\ Len(t) = Len(q) + Len(r) /\ Len(q) \in Nat /\ Len(r) \in Nat
      /\ \A i \in 1..Len(q) : t[i] = q[i]
      /\ \A i \in 1..Len(r) : t[Len(q) + i] = r[i]
  OBVIOUS
<1>2. DOMAIN t = 1..Len(t) /\ DOMAIN q = 1..Len(q) /\ DOMAIN r = 1..Len(r)
  BY <1>1
<1> HIDE DEF t
<1>3. ASSUME NEW m \in ToSet(t) PROVE m \in ToSet(q) \union ToSet(r)
  <2>1. PICK i \in 1..Len(t) : m = t[i]
    BY <1>2, <1>3 DEF ToSet
  <2>2. CASE i <= Len(q)
    BY <1>1, <1>2, <2>1, <2>2 DEF ToSet
  <2>3. CASE i > Len(q)
    <3>1. i - Len(q) \in 1..Len(r) /\ Len(q) + (i - Len(q)) = i
      BY <1>1, <2>1, <2>3
    <3>2. r[i - Len(q)] = m
      BY <1>1, <2>1, <3>1
    <3> QED
      BY <1>2, <3>1, <3>2 DEF ToSet
  <2> QED
    BY <1>1, <2>2, <2>3
<1>4. ASSUME NEW m \in ToSet(q) PROVE m \in ToSet(t)
  BY <1>1, <1>2, <1>4 DEF ToSet
<1>5. ASSUME NEW m \in ToSet(r) PROVE m \in ToSet(t)
  <2>1. PICK i \in 1..Len(r) : m = r[i]
    BY <1>2, <1>5 DEF ToSet
  <2>2. Len(q) + i \in 1..Len(t) /\ t[Len(q) + i] = m
    BY <1>1, <2>1
  <2> QED
    BY <1>2, <2>2 DEF ToSet
<1>6. ToSet(t) = ToSet(q) \union ToSet(r)
  BY <1>3, <1>4, <1>5
<1>7. r # <<>> => t # <<>> /\ t[Len(t)] = r[Len(r)]
  <2> SUFFICES ASSUME r # <<>> PROVE t # <<>> /\ t[Len(t)] = r[Len(r)]
    OBVIOUS
  <2>1. Len(r) \in 1..Len(r) /\ Len(t) > 0
    BY <1>1
  <2> QED
    BY <1>1, <2>1
<1> QED
  BY <1>1, <1>6, <1>7 DEF t

\* A queue of one, and an empty one.
LEMMA QueueOne ==
  ASSUME NEW m \in Mount
  PROVE  /\ <<m>> \in Seq(Mount) /\ ToSet(<<m>>) = {m}
         /\ <<m>> # <<>> /\ <<m>>[Len(<<m>>)] = m
         /\ <<>> \in Seq(Mount) /\ ToSet(<<>>) = {}
  BY DEF ToSet

Stat == [target |-> "/proc/stat", volume |-> FALSE, optional |-> TRUE, readonly |-> TRUE]
Cpu == [target |-> "/sys/cpu", volume |-> FALSE, optional |-> TRUE, readonly |-> TRUE]
Etc == [target |-> "/etc/passwd", volume |-> FALSE, optional |-> TRUE, readonly |-> FALSE]
Volume == [target |-> "/sys/cpu", volume |-> TRUE, optional |-> FALSE, readonly |-> FALSE]

\* They are mounts of four kinds.
LEMMA FourMounts ==
  {Stat, Cpu, Etc, Volume} \subseteq Mount
BY DEF Stat, Cpu, Etc, Volume, Mount, Files

\* Only files of /etc are mounted so that they can be written, and not volumes.
LEMMA OnlyEtcWritable ==
  \A m \in {Stat, Cpu, Etc, Volume} :
    m.volume = TRUE \/ m.readonly = TRUE \/ m.target = "/etc/passwd"
BY DEF Stat, Cpu, Etc, Volume

\* What is mounted for a command line; a volume comes last.
LEMMA MountsAre ==
  ASSUME NEW o
  PROVE  /\ mounts(o) \in Seq(Mount)
         /\ ToSet(mounts(o)) =
              (IF args_with_proc_overrides(o)
               THEN {Stat, Etc} \union (IF sysfsCpuOverridden(o) THEN {Cpu} ELSE {}) ELSE {})
                \union (IF "volume" \in o THEN {Volume} ELSE {})
         /\ "volume" \in o => mounts(o) # <<>> /\ mounts(o)[Len(mounts(o))] = Volume
<1>1. /\ Override("/proc/stat", TRUE) = Stat /\ Override("/sys/cpu", TRUE) = Cpu
      /\ Override("/etc/passwd", FALSE) = Etc
  BY DEF Override, Stat, Cpu, Etc
<1>2. Stat \in Mount /\ Cpu \in Mount /\ Etc \in Mount /\ Volume \in Mount
  BY FourMounts, Zenon
<1> DEFINE c == IF sysfsCpuOverridden(o) THEN <<Cpu>> ELSE <<>>
           v == IF "volume" \in o THEN <<Volume>> ELSE <<>>
           a == IF ~args_with_proc_overrides(o) THEN <<>> ELSE <<Stat>> \o c \o <<Etc>>
<1>3. mounts(o) = a \o v
  BY <1>1, Zenon DEF mounts, addOverrides, addVolumes, Volume
<1>4. c \in Seq(Mount) /\ ToSet(c) = IF sysfsCpuOverridden(o) THEN {Cpu} ELSE {}
  BY <1>2, QueueOne, Zenon
<1>5. /\ v \in Seq(Mount) /\ ToSet(v) = (IF "volume" \in o THEN {Volume} ELSE {})
      /\ "volume" \in o => v # <<>> /\ v[Len(v)] = Volume
  BY <1>2, QueueOne, Zenon
<1> DEFINE s == <<Stat>>
           e == <<Etc>>
<1>6. s \in Seq(Mount) /\ ToSet(s) = {Stat} /\ e \in Seq(Mount) /\ ToSet(e) = {Etc}
  BY <1>2, QueueOne, Zenon
<1> HIDE DEF c, s, e
<1>7. s \o c \in Seq(Mount) /\ ToSet(s \o c) = {Stat} \union ToSet(c)
  BY <1>4, <1>6, QueueJoin
<1>8. /\ (s \o c) \o e \in Seq(Mount)
      /\ ToSet((s \o c) \o e) = ({Stat} \union ToSet(c)) \union {Etc}
  <2> DEFINE w == s \o c
  <2> HIDE DEF w
  <2>1. w \in Seq(Mount) /\ ToSet(w) = {Stat} \union ToSet(c)
    BY <1>7 DEF w
  <2>2. w \o e \in Seq(Mount) /\ ToSet(w \o e) = ({Stat} \union ToSet(c)) \union {Etc}
    BY <1>6, <2>1, QueueJoin
  <2> QED
    BY <2>2 DEF w
<1>9. /\ a \in Seq(Mount)
      /\ ToSet(a) = IF args_with_proc_overrides(o) THEN ({Stat} \union ToSet(c)) \union {Etc} ELSE {}
  BY <1>2, <1>8, QueueOne, Zenon DEF s, e
<1> HIDE DEF a, v
<1>10. /\ a \o v \in Seq(Mount) /\ ToSet(a \o v) = ToSet(a) \union ToSet(v)
       /\ v # <<>> => a \o v # <<>> /\ (a \o v)[Len(a \o v)] = v[Len(v)]
  BY <1>5, <1>9, QueueJoin
<1>11. ToSet(a) \union ToSet(v) =
         (IF args_with_proc_overrides(o)
          THEN {Stat, Etc} \union (IF sysfsCpuOverridden(o) THEN {Cpu} ELSE {}) ELSE {})
           \union (IF "volume" \in o THEN {Volume} ELSE {})
  BY <1>4, <1>5, <1>9
<1>12. "volume" \in o => a \o v # <<>> /\ (a \o v)[Len(a \o v)] = Volume
  BY <1>5, <1>10
<1> QED
  <2> DEFINE q == mounts(o)
  <2>1. q \in Seq(Mount) /\ ToSet(q) = ToSet(a) \union ToSet(v)
    BY <1>3, <1>10, Zenon
  <2>2. "volume" \in o => q # <<>> /\ q[Len(q)] = Volume
    BY <1>3, <1>12, Zenon
  <2> HIDE DEF q
  <2>3. ToSet(q) =
         (IF args_with_proc_overrides(o)
          THEN {Stat, Etc} \union (IF sysfsCpuOverridden(o) THEN {Cpu} ELSE {}) ELSE {})
           \union (IF "volume" \in o THEN {Volume} ELSE {})
    BY <1>11, <2>1
  <2> QED
    BY <2>1, <2>2, <2>3 DEF q

\* They are among the four.
LEMMA MountsAmong ==
  ASSUME NEW o
  PROVE  ToSet(mounts(o)) \subseteq {Stat, Cpu, Etc, Volume}
BY MountsAre

\* Of a file.
Contents == {"canonical", "host", "volume", "guest", "missing"}

\* The user asks for a volume, and the mounts are the guest's own.
VolumeAsked == "volume" \in args /\ "NEWNS" \in clone_ns_flags(args)

\* A volume is the last to be mounted, and stays as it is.
VolumeInv ==
  /\ todo \in Seq(Mount)
  /\ install \in [Files -> Contents] /\ seen \in [Files -> Contents]
  /\ VolumeAsked /\ phase = "mount" /\ todo # <<>> => todo[Len(todo)] = Volume
  /\ VolumeAsked /\ (phase = "run" \/ (phase = "mount" /\ todo = <<>>)) =>
       seen["/sys/cpu"] = "volume" /\ "/sys/cpu" \notin writable

\* Only files of /etc can be written.
KeptInv ==
  /\ VolumeInv
  /\ ToSet(todo) \subseteq {Stat, Cpu, Etc, Volume}
  /\ writable \subseteq {"/etc/passwd"}
  /\ CanonicalKept

\* Until all is mounted, what is missing for the counts to agree is still to do.
CountsInv ==
  /\ KeptInv
  /\ "already-in-chroot" \notin args
  /\ install["/proc/stat"] = "canonical" /\ install["/sys/cpu"] \in {"canonical", "missing"}
  /\ phase = "run" => todo = <<>>
  /\ phase # "over" /\ procOverridesMounted(args) =>
       Stat \in ToSet(todo) \/ seen["/proc/stat"] = "canonical"
  /\ phase # "over" /\ sysfsCpuOverridden(args) =>
       Cpu \in ToSet(todo) \/ seen["/sys/cpu"] \in {"canonical", "volume"}
  /\ phase # "over" /\ ~procOverridesMounted(args) =>
       /\ ToSet(todo) \subseteq {Volume}
       /\ seen["/proc/stat"] = "host" /\ seen["/sys/cpu"] \in {"host", "volume"}

\* A file that is mounted.
LEMMA MountedFile ==
  ASSUME VolumeInv, NEW r \in BOOLEAN, mount(r), NEW m \in Mount, m = Head(todo)
  PROVE  /\ seen' \in [Files -> Contents]
         /\ m.volume = TRUE =>
              seen'[m.target] = "volume" /\ writable' = writable \ {m.target}
         /\ m.volume # TRUE => seen'[m.target] = source(m.target)
         /\ \A f \in Files \ {m.target} : seen'[f] = seen[f]
         /\ writable' \subseteq writable \union {m.target}
         /\ r = TRUE /\ m.readonly = TRUE => writable' \subseteq writable
<1>1. m.target \in Files /\ m.volume \in BOOLEAN /\ m.readonly \in BOOLEAN
  BY DEF Mount
<1>2. install \in [Files -> Contents] /\ seen \in [Files -> Contents]
  BY DEF VolumeInv
<1>3. source(m.target) \in Contents
  BY <1>1, <1>2 DEF source, Contents
<1> DEFINE c == IF m.volume THEN "volume" ELSE source(m.target)
<1>4. c \in Contents /\ (m.volume = TRUE => c = "volume") /\ (m.volume # TRUE => c = source(m.target))
  BY <1>1, <1>3, Zenon DEF Contents
<1>5. seen' = [seen EXCEPT ![m.target] = c]
  BY Zenon DEF mount
<1>6. writable' = IF (m.readonly /\ r) \/ m.volume \/ source(m.target) = "host"
                  THEN writable \ {m.target} ELSE writable \union {m.target}
  BY Zenon DEF mount
<1>7. writable' \in {writable \ {m.target}, writable \union {m.target}}
  BY <1>6, Zenon
<1>8. m.volume = TRUE => writable' = writable \ {m.target}
  BY <1>6, Zenon
<1>9. r = TRUE /\ m.readonly = TRUE => writable' = writable \ {m.target}
  BY <1>6, Zenon
<1> HIDE DEF c
<1>10. /\ seen' \in [Files -> Contents] /\ seen'[m.target] = c
       /\ \A f \in Files \ {m.target} : seen'[f] = seen[f]
  BY <1>1, <1>2, <1>4, <1>5, Zenon
<1> QED
  BY <1>4, <1>7, <1>8, <1>9, <1>10, Zenon

\* run_main begins with all mounts to do.
LEMMA RunKeepsVolume ==
  ASSUME VolumeInv, NEW o, run_main(o)
  PROVE  VolumeInv'
<1>1. /\ todo' = IF "NEWNS" \in clone_ns_flags(o) THEN mounts(o) ELSE <<>>
      /\ args' = o /\ phase' = "mount" /\ install' = install /\ seen' = [f \in Files |-> "host"]
  BY DEF run_main
<1>2. /\ mounts(o) \in Seq(Mount)
      /\ "volume" \in o => mounts(o) # <<>> /\ mounts(o)[Len(mounts(o))] = Volume
  BY MountsAre, Zenon
<1>3. <<>> \in Seq(Mount)
  OBVIOUS
<1>4. todo' \in Seq(Mount)
  BY <1>1, <1>2, <1>3, Zenon
<1>5. seen' \in [Files -> Contents] /\ install' \in [Files -> Contents]
  BY <1>1 DEF VolumeInv, Contents
<1>6. VolumeAsked' => todo' = mounts(o) /\ todo' # <<>> /\ todo'[Len(todo')] = Volume
  BY <1>1, <1>2, Zenon DEF VolumeAsked, clone_ns_flags
<1> QED
  BY <1>1, <1>4, <1>5, <1>6, Zenon DEF VolumeInv

\* A mount, and one that fails.
LEMMA MountKeepsVolume ==
  ASSUME VolumeInv, mount(TRUE) \/ mount(FALSE) \/ mountFails
  PROVE  VolumeInv'
<1> DEFINE m == Head(todo)
<1>1. /\ todo # <<>> /\ phase = "mount" /\ todo' = Tail(todo)
      /\ args' = args /\ phase' = phase /\ install' = install
  BY Zenon DEF mount, mountFails
<1>2. todo \in Seq(Mount)
  BY DEF VolumeInv
<1>3. /\ Tail(todo) \in Seq(Mount) /\ m \in Mount
      /\ Tail(todo) = <<>> => todo[Len(todo)] = m
      /\ Tail(todo) # <<>> => Tail(todo)[Len(Tail(todo))] = todo[Len(todo)]
  BY <1>1, <1>2, QueueTail, Zenon
<1>4. VolumeAsked' => VolumeAsked
  BY <1>1, Zenon DEF VolumeAsked, clone_ns_flags
<1>5. VolumeAsked => todo[Len(todo)] = Volume
  BY <1>1 DEF VolumeInv
<1> HIDE DEF m
<1>6. VolumeAsked' /\ todo' # <<>> => todo'[Len(todo')] = Volume
  BY <1>1, <1>3, <1>4, <1>5, Zenon
<1>7. seen' \in [Files -> Contents]
  <2>1. ASSUME NEW r \in BOOLEAN, mount(r) PROVE seen' \in [Files -> Contents]
    BY <1>3, <2>1, MountedFile, Zenon DEF m
  <2>2. CASE mountFails
    BY <2>2, Zenon DEF mountFails, VolumeInv
  <2> QED
    BY <2>1, <2>2, Zenon
<1>8. ASSUME VolumeAsked, todo' = <<>>
      PROVE  seen'["/sys/cpu"] = "volume" /\ "/sys/cpu" \notin writable'
  <2>1. m = Volume
    BY <1>1, <1>3, <1>5, <1>8, Zenon
  <2>2. m.volume = TRUE /\ m.target = "/sys/cpu" /\ m.optional = FALSE
    BY <2>1 DEF Volume
  <2>3. ~mountFails
    BY <2>2, Zenon DEF mountFails, m
  <2>4. PICK r \in BOOLEAN : mount(r)
    BY <2>3, Zenon
  <2>5. seen'[m.target] = "volume" /\ writable' = writable \ {m.target}
    BY <1>3, <2>2, <2>4, MountedFile, Zenon DEF m
  <2> QED
    BY <2>2, <2>5
<1>9. todo' \in Seq(Mount) /\ install' \in [Files -> Contents]
  BY <1>1, <1>3 DEF VolumeInv
<1>10. phase' # "run"
  BY <1>1
<1> QED
  BY <1>4, <1>6, <1>7, <1>8, <1>9, <1>10, Zenon DEF VolumeInv

\* What the guest does.
LEMMA GuestKeepsVolume ==
  ASSUME VolumeInv,
         execGuest \/ exits \/ (\E f \in Files : writes(f)) \/ (\E path : opens(path))
           \/ UNCHANGED containerVars
  PROVE  VolumeInv'
<1>1. args' = args /\ todo' = todo /\ writable' = writable
  BY Zenon DEF execGuest, exits, writes, opens, containerVars
<1>2. VolumeAsked' => VolumeAsked
  BY <1>1, Zenon DEF VolumeAsked, clone_ns_flags
<1>3. /\ todo \in Seq(Mount) /\ install \in [Files -> Contents] /\ seen \in [Files -> Contents]
  BY DEF VolumeInv
<1>4. CASE \E f \in Files : writes(f)
  <2>1. PICK f \in Files : writes(f)
    BY <1>4
  <2>2. /\ phase = "run" /\ f \in writable /\ phase' = phase
        /\ install' = [install EXCEPT ![f] = "guest"] /\ seen' = [seen EXCEPT ![f] = "guest"]
    BY <2>1, Zenon DEF writes
  <2>3. install' \in [Files -> Contents] /\ seen' \in [Files -> Contents]
    BY <1>3, <2>2 DEF Contents
  <2>4. ASSUME VolumeAsked PROVE seen'["/sys/cpu"] = "volume" /\ "/sys/cpu" \notin writable
    <3>1. seen["/sys/cpu"] = "volume" /\ "/sys/cpu" \notin writable
      BY <2>2, <2>4 DEF VolumeInv
    <3> QED
      BY <1>3, <2>2, <3>1 DEF Files
  <2> QED
    BY <1>1, <1>2, <1>3, <2>2, <2>3, <2>4 DEF VolumeInv
<1>5. CASE execGuest \/ exits \/ (\E path : opens(path)) \/ UNCHANGED containerVars
  <2>1. install' = install /\ seen' = seen
    BY <1>5 DEF execGuest, exits, opens, containerVars
  <2>2. phase' = phase \/ phase' = "over" \/ (phase = "mount" /\ todo = <<>> /\ phase' = "run")
    BY <1>5 DEF execGuest, exits, opens, containerVars
  <2> QED
    BY <1>1, <1>2, <1>3, <2>1, <2>2 DEF VolumeInv
<1> QED
  BY <1>4, <1>5

\* At the start nothing is mounted.
LEMMA InitVolume ==
  ContainerInit => VolumeInv
<1> SUFFICES ASSUME ContainerInit PROVE VolumeInv
  OBVIOUS
<1>1. todo = <<>> /\ phase = "over" /\ seen = [f \in Files |-> "host"]
  BY Zenon DEF ContainerInit
<1>2. \/ install = [f \in Files |-> "canonical"]
      \/ install = [f \in Files |-> IF f = "/sys/cpu" THEN "missing" ELSE "canonical"]
  BY Zenon DEF ContainerInit
<1>3. install \in [Files -> Contents] /\ seen \in [Files -> Contents]
  BY <1>1, <1>2 DEF Contents
<1>4. todo \in Seq(Mount)
  BY <1>1
<1> QED
  BY <1>1, <1>3, <1>4 DEF VolumeInv

\* The step of the invariant, whatever goes wrong.
LEMMA VolumeSteps ==
  ASSUME NEW options, NEW paths, NEW wrong, VolumeInv, [Steps(options, paths, wrong)]_containerVars
  PROVE  VolumeInv'
<1>1. CASE \E o : run_main(o)
  BY <1>1, RunKeepsVolume, Zenon
<1>2. CASE mount(TRUE) \/ mount(FALSE) \/ mountFails
  BY <1>2, MountKeepsVolume, Zenon
<1>3. CASE execGuest \/ exits \/ (\E f \in Files : writes(f)) \/ (\E path : opens(path))
             \/ UNCHANGED containerVars
  BY <1>3, GuestKeepsVolume, Zenon
<1>4. "/proc/stat" \in Files /\ "/sys/cpu" \in Files /\ "/etc/passwd" \in Files
  BY DEF Files
<1> QED
  BY <1>1, <1>2, <1>3, <1>4, Zenon DEF Steps

\* A volume the user asks for is what the guest sees, whatever the other options
\* are, whichever mounts of overrides fail, and in every run.
THEOREM VolumesSafety ==
  ContainerSpec => []VolumesWin
<1>1. VolumeInv => VolumesWin
  BY DEF VolumeInv, VolumesWin, VolumeAsked
<1>2. VolumeInv /\ [ContainerNext]_containerVars => VolumeInv'
  BY VolumeSteps, Zenon DEF ContainerNext
<1> QED
  BY InitVolume, <1>1, <1>2, PTL DEF ContainerSpec

\* Every step leaves it so that only files of /etc can be written, if no mount
\* fails.
LEMMA KeptSteps ==
  ASSUME "mount fails" \notin MountBehaviours, KeptInv, [ContainerNext]_containerVars
  PROVE  KeptInv'
<1>1. VolumeInv /\ VolumeInv'
  BY VolumeSteps, Zenon DEF KeptInv, ContainerNext
<1>2. /\ ToSet(todo) \subseteq {Stat, Cpu, Etc, Volume} /\ writable \subseteq {"/etc/passwd"}
      /\ install \in [Files -> Contents] /\ todo \in Seq(Mount)
      /\ install["/proc/stat"] # "guest" /\ install["/sys/cpu"] # "guest"
  BY Zenon DEF KeptInv, CanonicalKept, VolumeInv
<1>3. /\ ToSet(todo') \subseteq {Stat, Cpu, Etc, Volume} /\ writable' \subseteq {"/etc/passwd"}
      /\ install'["/proc/stat"] # "guest" /\ install'["/sys/cpu"] # "guest"
  <2>1. CASE \E o \in SUBSET Options : run_main(o)
    <3>1. PICK o \in SUBSET Options : run_main(o)
      BY <2>1, Zenon
    <3>2. /\ todo' = IF "NEWNS" \in clone_ns_flags(o) THEN mounts(o) ELSE <<>>
          /\ writable' = {} /\ install' = install
      BY <3>1, Zenon DEF run_main
    <3>3. ToSet(mounts(o)) \subseteq {Stat, Cpu, Etc, Volume}
      BY MountsAmong, Zenon
    <3>4. ToSet(<<>>) = {}
      BY FourMounts, QueueOne, Zenon
    <3>5. ToSet(todo') \subseteq {Stat, Cpu, Etc, Volume}
      <4>1. todo' = mounts(o) \/ todo' = <<>>
        BY <3>2, Zenon
      <4> QED
        BY <3>3, <3>4, <4>1, Zenon
    <3>6. install' = install /\ writable' \subseteq {"/etc/passwd"}
      BY <3>2, Zenon
    <3> QED
      BY <1>2, <3>5, <3>6, Zenon
  <2>2. CASE mount(TRUE)
    <3> DEFINE m == Head(todo)
    <3>1. todo # <<>> /\ todo' = Tail(todo) /\ install' = install
      BY <2>2, Zenon DEF mount
    <3>2. m \in Mount /\ ToSet(todo) = ToSet(Tail(todo)) \union {m}
      BY <1>2, <3>1, QueueTail, Zenon
    <3> HIDE DEF m
    <3>3. m \in {Stat, Cpu, Etc, Volume} /\ ToSet(todo') \subseteq {Stat, Cpu, Etc, Volume}
      BY <1>2, <3>1, <3>2, Zenon
    <3>4. /\ m.volume = TRUE => writable' = writable \ {m.target}
          /\ writable' \subseteq writable \union {m.target}
          /\ m.readonly = TRUE => writable' \subseteq writable
      BY <1>1, <2>2, <3>2, MountedFile, Zenon DEF m
    <3>5. m.volume = TRUE \/ m.readonly = TRUE \/ m.target = "/etc/passwd"
      BY <3>3, OnlyEtcWritable, Zenon
    <3>6. writable' \subseteq {"/etc/passwd"}
      <4>1. CASE m.target = "/etc/passwd"
        BY <1>2, <3>4, <4>1, Zenon
      <4>2. CASE m.volume = TRUE \/ m.readonly = TRUE
        BY <1>2, <3>4, <4>2, Zenon
      <4> QED
        BY <3>5, <4>1, <4>2, Zenon
    <3> QED
      BY <1>2, <3>1, <3>3, <3>6, Zenon
  <2>3. CASE \E f \in Files : writes(f)
    <3>1. PICK f \in Files : writes(f)
      BY <2>3, Zenon
    <3>2. /\ f \in writable /\ install' = [install EXCEPT ![f] = "guest"]
          /\ todo' = todo /\ writable' = writable
      BY <3>1, Zenon DEF writes
    <3> QED
      BY <1>2, <3>2, Zenon DEF Files
  <2>4. CASE execGuest \/ exits \/ (\E path : opens(path)) \/ UNCHANGED containerVars
    BY <1>2, <2>4, Zenon DEF execGuest, exits, opens, containerVars
  <2>5. "/proc/stat" \in Files /\ "/sys/cpu" \in Files /\ "/etc/passwd" \in Files
    BY Zenon DEF Files
  <2> QED
    BY <2>1, <2>2, <2>3, <2>4, <2>5, Zenon DEF ContainerNext, Steps
<1> QED
  BY <1>1, <1>3, Zenon DEF KeptInv, CanonicalKept

\* At the start all files are those of the installation.
LEMMA InitKept ==
  ContainerInit => KeptInv
<1> SUFFICES ASSUME ContainerInit PROVE KeptInv
  OBVIOUS
<1>1. todo = <<>> /\ writable = {}
  BY Zenon DEF ContainerInit
<1>2. \/ install = [f \in Files |-> "canonical"]
      \/ install = [f \in Files |-> IF f = "/sys/cpu" THEN "missing" ELSE "canonical"]
  BY Zenon DEF ContainerInit
<1>3. install["/proc/stat"] # "guest" /\ install["/sys/cpu"] # "guest"
  BY <1>2 DEF Files
<1>4. ToSet(todo) = {}
  BY <1>1 DEF ToSet
<1> QED
  BY <1>1, <1>3, <1>4, InitVolume DEF KeptInv, CanonicalKept

\* The files of the three kinds of override.
LEMMA Targets ==
  /\ Stat.target = "/proc/stat" /\ Stat.volume # TRUE
  /\ Cpu.target = "/sys/cpu" /\ Cpu.volume # TRUE
  /\ Etc.target = "/etc/passwd" /\ Etc.volume # TRUE
  /\ Volume.target = "/sys/cpu" /\ Volume.volume = TRUE
BY DEF Stat, Cpu, Etc, Volume

\* A run goes on with the same options.
LEMMA SameOptions ==
  ASSUME args' = args, install'["/sys/cpu"] = install["/sys/cpu"]
  PROVE  /\ procOverridesMounted(args)' <=> procOverridesMounted(args)
         /\ sysfsCpuOverridden(args)' <=> sysfsCpuOverridden(args)
<1>1. procOverridesMounted(args)' <=> procOverridesMounted(args)
  BY Zenon DEF procOverridesMounted, args_with_proc_overrides, clone_ns_flags
<1> QED
  BY <1>1, Zenon DEF sysfsCpuOverridden

\* Of CountsInv, what the steps of a run can change.
Counted(t, s) ==
  /\ procOverridesMounted(args) => Stat \in ToSet(t) \/ s["/proc/stat"] = "canonical"
  /\ sysfsCpuOverridden(args) => Cpu \in ToSet(t) \/ s["/sys/cpu"] \in {"canonical", "volume"}
  /\ ~procOverridesMounted(args) =>
       /\ ToSet(t) \subseteq {Volume}
       /\ s["/proc/stat"] = "host" /\ s["/sys/cpu"] \in {"host", "volume"}

\* A mount takes what it does off the queue.
LEMMA MountCounts ==
  ASSUME CountsInv, mount(TRUE)
  PROVE  Counted(todo', seen')
<1> DEFINE m == Head(todo)
<1>1. /\ todo # <<>> /\ todo' = Tail(todo) /\ phase = "mount"
      /\ m.volume \/ source(m.target) # "missing"
  BY Zenon DEF mount
<1>2. /\ VolumeInv /\ todo \in Seq(Mount) /\ ToSet(todo) \subseteq {Stat, Cpu, Etc, Volume}
      /\ install["/proc/stat"] = "canonical" /\ install["/sys/cpu"] \in {"canonical", "missing"}
      /\ "already-in-chroot" \notin args
  BY DEF CountsInv, KeptInv, VolumeInv
<1>3. m \in Mount /\ ToSet(todo) = ToSet(todo') \union {m}
  BY <1>1, <1>2, QueueTail
<1> HIDE DEF m
<1>4. /\ m.volume = TRUE => seen'[m.target] = "volume"
      /\ m.volume # TRUE => seen'[m.target] = source(m.target)
      /\ \A f \in Files \ {m.target} : seen'[f] = seen[f]
  BY <1>2, <1>3, MountedFile, Zenon DEF m
<1>5. Counted(todo, seen)
  BY <1>1 DEF CountsInv, Counted
<1>6. \A f : source(f) = install[f]
  BY <1>2 DEF source
<1>7. CASE m = Stat
  <2>1. seen'["/proc/stat"] = "canonical" /\ seen'["/sys/cpu"] = seen["/sys/cpu"]
    BY <1>2, <1>4, <1>6, <1>7, Targets DEF Files
  <2>2. Stat # Cpu /\ Stat # Volume
    BY Targets
  <2> QED
    BY <1>3, <1>5, <1>7, <2>1, <2>2 DEF Counted
<1>8. CASE m = Cpu
  <2>1. seen'["/sys/cpu"] = "canonical" /\ seen'["/proc/stat"] = seen["/proc/stat"]
    BY <1>1, <1>2, <1>4, <1>6, <1>8, Targets DEF Files
  <2>2. Cpu # Stat /\ Cpu # Volume
    BY Targets, Zenon
  <2> QED
    BY <1>3, <1>5, <1>8, <2>1, <2>2 DEF Counted
<1>9. CASE m = Etc
  <2>1. seen'["/sys/cpu"] = seen["/sys/cpu"] /\ seen'["/proc/stat"] = seen["/proc/stat"]
    BY <1>4, <1>9, Targets DEF Files
  <2>2. Etc # Stat /\ Etc # Cpu /\ Etc # Volume
    BY Targets
  <2> QED
    BY <1>3, <1>5, <1>9, <2>1, <2>2 DEF Counted
<1>10. CASE m = Volume
  <2>1. seen'["/sys/cpu"] = "volume" /\ seen'["/proc/stat"] = seen["/proc/stat"]
    BY <1>4, <1>10, Targets DEF Files
  <2>2. Volume # Stat
    BY Targets
  <2> QED
    BY <1>3, <1>5, <1>10, <2>1, <2>2 DEF Counted
<1> QED
  BY <1>2, <1>3, <1>7, <1>8, <1>9, <1>10, Zenon

\* The counts agree after every step, if no mount fails and the installation is
\* not the host itself.
LEMMA CountsSteps ==
  ASSUME "mount fails" \notin MountBehaviours, "already-in-chroot" \notin Options,
         CountsInv, [ContainerNext]_containerVars
  PROVE  CountsInv'
<1>1. KeptInv /\ KeptInv'
  BY KeptSteps, Zenon DEF CountsInv
<1>2. /\ writable \subseteq {"/etc/passwd"} /\ install \in [Files -> Contents]
      /\ seen \in [Files -> Contents]
      /\ install["/proc/stat"] = "canonical" /\ install["/sys/cpu"] \in {"canonical", "missing"}
      /\ "already-in-chroot" \notin args /\ (phase = "run" => todo = <<>>)
      /\ phase # "over" => Counted(todo, seen)
  BY <1>1, Zenon DEF CountsInv, KeptInv, VolumeInv, Counted
<1>3. CASE \E o \in SUBSET Options : run_main(o)
  <2>1. PICK o \in SUBSET Options : run_main(o)
    BY <1>3, Zenon
  <2>2. /\ todo' = IF "NEWNS" \in clone_ns_flags(o) THEN mounts(o) ELSE <<>>
        /\ args' = o /\ phase' = "mount" /\ install' = install
        /\ seen' = [f \in Files |-> "host"]
    BY <2>1, Zenon DEF run_main
  <2>3. "already-in-chroot" \notin args'
    BY <2>2, Zenon
  <2>4. /\ procOverridesMounted(args)' <=> procOverridesMounted(o)
        /\ sysfsCpuOverridden(args)' <=> sysfsCpuOverridden(o)
    BY <2>2, Zenon DEF sysfsCpuOverridden, procOverridesMounted, args_with_proc_overrides, clone_ns_flags
  <2>5. /\ procOverridesMounted(o) => Stat \in ToSet(todo')
        /\ sysfsCpuOverridden(o) => Cpu \in ToSet(todo')
        /\ ~procOverridesMounted(o) => ToSet(todo') \subseteq {Volume}
    <3>1. /\ args_with_proc_overrides(o) => Stat \in ToSet(mounts(o))
          /\ args_with_proc_overrides(o) /\ sysfsCpuOverridden(o) => Cpu \in ToSet(mounts(o))
          /\ ~args_with_proc_overrides(o) => ToSet(mounts(o)) \subseteq {Volume}
      BY MountsAre, Zenon
    <3>2. ToSet(<<>>) = {}
      BY FourMounts, QueueOne, Zenon
    <3> QED
      BY <2>2, <3>1, <3>2, Zenon DEF procOverridesMounted, sysfsCpuOverridden
  <2>6. seen'["/proc/stat"] = "host" /\ seen'["/sys/cpu"] = "host"
    BY <2>2, Zenon DEF Files
  <2>7. install' = install /\ phase' = "mount"
    BY <2>2, Zenon
  <2> QED
    BY <1>1, <1>2, <2>3, <2>4, <2>5, <2>6, <2>7, Zenon DEF CountsInv
<1>4. ASSUME args' = args, install'["/proc/stat"] = install["/proc/stat"],
             install'["/sys/cpu"] = install["/sys/cpu"], phase' = "run" => todo' = <<>>,
             phase' # "over" => Counted(todo', seen')
      PROVE  CountsInv'
  <2>1. /\ procOverridesMounted(args)' <=> procOverridesMounted(args)
        /\ sysfsCpuOverridden(args)' <=> sysfsCpuOverridden(args)
    BY <1>4, SameOptions, Zenon
  <2> QED
    BY <1>1, <1>2, <1>4, <2>1, Zenon DEF CountsInv, Counted
<1>5. CASE mount(TRUE)
  <2>1. Counted(todo', seen')
    BY <1>5, MountCounts, Zenon
  <2>2. args' = args /\ install' = install /\ phase' = "mount"
    BY <1>5, Zenon DEF mount
  <2> QED
    BY <1>4, <2>1, <2>2, Zenon
<1>6. CASE \E f \in Files : writes(f)
  <2>1. PICK f \in Files : writes(f)
    BY <1>6, Zenon
  <2>2. /\ f \in writable /\ install' = [install EXCEPT ![f] = "guest"] /\ args' = args
        /\ todo' = todo /\ seen' = [seen EXCEPT ![f] = "guest"] /\ phase' = phase /\ phase = "run"
    BY <2>1, Zenon DEF writes
  <2>3. f # "/proc/stat" /\ f # "/sys/cpu"
    BY <1>2, <2>2, Zenon
  <2>4. /\ install'["/proc/stat"] = install["/proc/stat"] /\ install'["/sys/cpu"] = install["/sys/cpu"]
        /\ seen'["/proc/stat"] = seen["/proc/stat"] /\ seen'["/sys/cpu"] = seen["/sys/cpu"]
    BY <1>2, <2>2, <2>3, Zenon DEF Files
  <2>5. Counted(todo', seen')
    BY <1>2, <2>2, <2>4, Zenon DEF Counted
  <2> QED
    BY <1>2, <1>4, <2>2, <2>4, <2>5, Zenon
<1>7. CASE execGuest \/ exits \/ (\E path : opens(path)) \/ UNCHANGED containerVars
  <2>1. args' = args /\ install' = install /\ seen' = seen /\ todo' = todo
    BY <1>7, Zenon DEF execGuest, exits, opens, containerVars
  <2>2. phase' = phase \/ phase' = "over" \/ (phase = "mount" /\ todo = <<>> /\ phase' = "run")
    BY <1>7, Zenon DEF execGuest, exits, opens, containerVars
  <2>3. phase' # "over" => Counted(todo', seen')
    BY <1>2, <2>1, <2>2, Zenon
  <2> QED
    BY <1>2, <1>4, <2>1, <2>2, <2>3, Zenon
<1>8. "/proc/stat" \in Files /\ "/sys/cpu" \in Files /\ "/etc/passwd" \in Files
  BY Zenon DEF Files
<1> QED
  BY <1>3, <1>5, <1>6, <1>7, <1>8, Zenon DEF ContainerNext, Steps

\* The counts agree at the start.
LEMMA InitCounts ==
  ContainerInit => CountsInv
<1> SUFFICES ASSUME ContainerInit PROVE CountsInv
  BY Zenon
<1>1. KeptInv
  BY InitKept, Zenon
<1>2. phase = "over" /\ args = {}
  BY Zenon DEF ContainerInit
<1>3. \/ install = [f \in Files |-> "canonical"]
      \/ install = [f \in Files |-> IF f = "/sys/cpu" THEN "missing" ELSE "canonical"]
  BY Zenon DEF ContainerInit
<1>4. install["/proc/stat"] = "canonical" /\ install["/sys/cpu"] \in {"canonical", "missing"}
  BY <1>3, Zenon DEF Files
<1> QED
  BY <1>1, <1>2, <1>4, Zenon DEF CountsInv

\* When all is mounted there is one count.
LEMMA OneCount ==
  CountsInv => CountsAgree
<1> SUFFICES ASSUME CountsInv, phase = "run" PROVE Cardinality(CpuCounts) = 1
  BY Zenon DEF CountsAgree
<1>1. todo = <<>> /\ Counted(todo, seen)
  BY Zenon DEF CountsInv, Counted
<1>2. ToSet(todo) = {}
  BY <1>1, FourMounts, QueueOne, Zenon
<1>3. CASE procOverridesMounted(args)
  <2>1. seen["/proc/stat"] = "canonical" /\ args_with_proc_overrides(args)
    BY <1>1, <1>2, <1>3, Zenon DEF Counted, procOverridesMounted
  <2>2. sysfsCpuOverridden(args) => seen["/sys/cpu"] \in {"canonical", "volume"}
    BY <1>1, <1>2, Zenon DEF Counted
  <2>3. CpuCounts = {"canonical"}
    BY <1>3, <2>1, <2>2, Zenon DEF CpuCounts
  <2> QED
    BY <2>3, FS_Singleton, Zenon
<1>4. CASE ~procOverridesMounted(args)
  <2>1. seen["/proc/stat"] = "host" /\ seen["/sys/cpu"] \in {"host", "volume"}
    BY <1>1, <1>4, Zenon DEF Counted
  <2>2. CpuCounts = {"host"}
    BY <1>4, <2>1, Zenon DEF CpuCounts
  <2> QED
    BY <2>2, FS_Singleton, Zenon
<1> QED
  BY <1>3, <1>4, Zenon
----------------------------------------------------------------------------
(* How the kernel walks a path, and how dettrace reads it. *)

\* Induction over the natural numbers.
LEMMA AllNaturals ==
  ASSUME NEW S \in SUBSET Nat, 0 \in S, \A n \in S : n + 1 \in S
  PROVE  S = Nat
<1> SUFFICES ASSUME S # Nat PROVE FALSE
  OBVIOUS
<1> DEFINE T == Nat \ S
<1>1. T \subseteq Nat /\ T # {}
  BY Zenon
<1> HIDE DEF T
<1>2. PICK n \in T : \A k \in T : ~(<<k, n>> \in OpToRel(<, Nat))
  BY <1>1, NatLessThanWellFounded, WFMin, Zenon
<1>3. n \in Nat /\ n \notin S /\ n # 0
  BY DEF T
<1>4. n - 1 \in Nat /\ n - 1 + 1 = n /\ n - 1 < n
  BY <1>3
<1>5. n - 1 \in T
  BY <1>3, <1>4 DEF T
<1>6. <<n - 1, n>> \in OpToRel(<, Nat)
  BY <1>3, <1>4 DEF OpToRel
<1> QED
  BY <1>2, <1>5, <1>6, Zenon

\* The function in the definition of walk.
Walks(f, path, n) ==
  f = [i \in 0..n |-> IF i = 0 THEN "/" ELSE walkStep(f[i - 1], path[i])]

\* The function in the definition of lexicallyNormalizePath.
Reads(f, path, n) ==
  f = [i \in 0..n |-> IF i = 0 THEN <<>> ELSE normalizeStep(f[i - 1], path[i])]

\* The kernel can walk every path.
LEMMA WalkExists ==
  ASSUME NEW path, NEW n \in Nat
  PROVE  \E f : Walks(f, path, n)
<1> DEFINE S == {k \in Nat : \E f : Walks(f, path, k)}
<1>1. 0 \in S
  <2> DEFINE f == [i \in 0..0 |-> "/"]
  <2>1. f = [i \in 0..0 |-> IF i = 0 THEN "/" ELSE walkStep(f[i - 1], path[i])]
    OBVIOUS
  <2> QED
    BY <2>1, Zenon DEF Walks
<1>2. ASSUME NEW k \in S PROVE k + 1 \in S
  <2>1. PICK f : f = [i \in 0..k |-> IF i = 0 THEN "/" ELSE walkStep(f[i - 1], path[i])]
    BY <1>2 DEF Walks
  <2> DEFINE g == [i \in 0..(k + 1) |-> IF i = k + 1 THEN walkStep(f[k], path[i]) ELSE f[i]]
  <2>2. ASSUME NEW i \in 0..(k + 1)
        PROVE  g[i] = IF i = 0 THEN "/" ELSE walkStep(g[i - 1], path[i])
    <3>1. k \in Nat /\ i \in Nat /\ i <= k + 1
      OBVIOUS
    <3>2. CASE i = 0
      <4>1. f[0] = "/" /\ g[0] = f[0]
        BY <2>1, <3>1
      <4> QED
        BY <3>2, <4>1, Zenon
    <3>3. CASE i # 0 /\ i # k + 1
      <4>1. i \in 0..k /\ i - 1 \in 0..(k + 1) /\ i - 1 # k + 1 /\ i # k + 1
        BY <3>1, <3>3
      <4>2. f[i] = IF i = 0 THEN "/" ELSE walkStep(f[i - 1], path[i])
        BY <2>1, <4>1, Zenon
      <4>3. g[i] = f[i] /\ g[i - 1] = f[i - 1]
        BY <4>1, Zenon
      <4> QED
        BY <4>2, <4>3, Zenon
    <3>4. CASE i = k + 1
      <4>1. i # 0 /\ k \in 0..(k + 1) /\ k # k + 1 /\ i - 1 = k
        BY <3>1, <3>4
      <4>2. g[i] = walkStep(f[k], path[i]) /\ g[k] = f[k]
        BY <3>4, <4>1, Zenon
      <4> QED
        BY <4>1, <4>2, Zenon
    <3> QED
      BY <3>2, <3>3, <3>4, Zenon
  <2> DEFINE h == [i \in 0..(k + 1) |-> IF i = 0 THEN "/" ELSE walkStep(g[i - 1], path[i])]
  <2>3. g = h
    <3>1. \A i \in 0..(k + 1) : g[i] = h[i]
      BY <2>2, Zenon
    <3>2. /\ g = [i \in 0..(k + 1) |-> g[i]]
          /\ h = [i \in 0..(k + 1) |-> h[i]]
      OBVIOUS
    <3> QED
      BY <3>1, <3>2, Zenon
  <2>4. \E w : Walks(w, path, k + 1)
    BY <2>3, Zenon DEF Walks
  <2>5. k + 1 \in Nat
    OBVIOUS
  <2> QED
    BY <2>4, <2>5, Zenon
<1> HIDE DEF S
<1>3. S \in SUBSET Nat
  BY Zenon DEF S
<1>4. S = Nat
  BY <1>1, <1>2, <1>3, AllNaturals, Zenon
<1> QED
  BY <1>4, Zenon DEF S

\* Every path can be read.
LEMMA ReadExists ==
  ASSUME NEW path, NEW n \in Nat
  PROVE  \E f : Reads(f, path, n)
<1> DEFINE S == {k \in Nat : \E f : Reads(f, path, k)}
<1>1. 0 \in S
  <2> DEFINE f == [i \in 0..0 |-> <<>>]
  <2>1. f = [i \in 0..0 |-> IF i = 0 THEN <<>> ELSE normalizeStep(f[i - 1], path[i])]
    OBVIOUS
  <2> QED
    BY <2>1, Zenon DEF Reads
<1>2. ASSUME NEW k \in S PROVE k + 1 \in S
  <2>1. PICK f : f = [i \in 0..k |-> IF i = 0 THEN <<>> ELSE normalizeStep(f[i - 1], path[i])]
    BY <1>2 DEF Reads
  <2> DEFINE g == [i \in 0..(k + 1) |-> IF i = k + 1 THEN normalizeStep(f[k], path[i]) ELSE f[i]]
  <2>2. ASSUME NEW i \in 0..(k + 1)
        PROVE  g[i] = IF i = 0 THEN <<>> ELSE normalizeStep(g[i - 1], path[i])
    <3>1. k \in Nat /\ i \in Nat /\ i <= k + 1
      OBVIOUS
    <3>2. CASE i = 0
      <4>1. f[0] = <<>> /\ g[0] = f[0]
        BY <2>1, <3>1
      <4> QED
        BY <3>2, <4>1, Zenon
    <3>3. CASE i # 0 /\ i # k + 1
      <4>1. i \in 0..k /\ i - 1 \in 0..(k + 1) /\ i - 1 # k + 1 /\ i # k + 1
        BY <3>1, <3>3
      <4>2. f[i] = IF i = 0 THEN <<>> ELSE normalizeStep(f[i - 1], path[i])
        BY <2>1, <4>1, Zenon
      <4>3. g[i] = f[i] /\ g[i - 1] = f[i - 1]
        BY <4>1, Zenon
      <4> QED
        BY <4>2, <4>3, Zenon
    <3>4. CASE i = k + 1
      <4>1. i # 0 /\ k \in 0..(k + 1) /\ k # k + 1 /\ i - 1 = k
        BY <3>1, <3>4
      <4>2. g[i] = normalizeStep(f[k], path[i]) /\ g[k] = f[k]
        BY <3>4, <4>1, Zenon
      <4> QED
        BY <4>1, <4>2, Zenon
    <3> QED
      BY <3>2, <3>3, <3>4, Zenon
  <2> DEFINE h == [i \in 0..(k + 1) |-> IF i = 0 THEN <<>> ELSE normalizeStep(g[i - 1], path[i])]
  <2>3. g = h
    <3>1. \A i \in 0..(k + 1) : g[i] = h[i]
      BY <2>2, Zenon
    <3>2. /\ g = [i \in 0..(k + 1) |-> g[i]]
          /\ h = [i \in 0..(k + 1) |-> h[i]]
      OBVIOUS
    <3> QED
      BY <3>1, <3>2, Zenon
  <2>4. \E w : Reads(w, path, k + 1)
    BY <2>3, Zenon DEF Reads
  <2>5. k + 1 \in Nat
    OBVIOUS
  <2> QED
    BY <2>4, <2>5, Zenon
<1> HIDE DEF S
<1>3. S \in SUBSET Nat
  BY Zenon DEF S
<1>4. S = Nat
  BY <1>1, <1>2, <1>3, AllNaturals, Zenon
<1> QED
  BY <1>4, Zenon DEF S

Dirs == {"/", "sys", "node", "cpu", "node0", "online"}

\* The only name of a directory without dots.
Name(d) ==
  CASE d = "/" -> <<>>
    [] d = "sys" -> <<"sys">>
    [] d = "node" -> <<"sys", "node">>
    [] d = "cpu" -> <<"sys", "cpu">>
    [] d = "node0" -> <<"sys", "node", "node0">>
    [] d = "online" -> <<"sys", "cpu", "online">>

\* The kernel is where dettrace thinks it is, or nowhere.
Agree(d, parts) == d = "none" \/ (d \in Dirs /\ parts = Name(d))

\* They agree after one more component.
LEMMA StepAgrees ==
  ASSUME NEW d, NEW parts, NEW c, Agree(d, parts)
  PROVE  Agree(walkStep(d, c), normalizeStep(parts, c))
<1>1. CASE d = "none"
  <2>1. walkStep(d, c) = "none"
    BY <1>1 DEF walkStep
  <2> QED
    BY <2>1 DEF Agree
<1>2. CASE d # "none" /\ c \in {"", "."}
  BY <1>2, Zenon DEF Agree, walkStep, normalizeStep
<1>3. CASE d # "none" /\ c = ".."
  <2>1. d \in Dirs /\ parts = Name(d)
    BY <1>3 DEF Agree
  <2>2. normalizeStep(parts, c) = IF parts = <<>> THEN parts ELSE SubSeq(parts, 1, Len(parts) - 1)
    BY <1>3 DEF normalizeStep
  <2>3. walkStep(d, c) = CASE d \in {"/", "sys"} -> "/"
                          [] d \in {"node", "cpu"} -> "sys"
                          [] d = "node0" -> "node"
                          [] d = "online" -> "cpu"
                          [] OTHER -> "none"
    BY <1>3 DEF walkStep
  <2>4. CASE d = "/"
    BY <2>1, <2>2, <2>3, <2>4 DEF Agree, Name, Dirs
  <2>5. CASE d = "sys"
    BY <2>1, <2>2, <2>3, <2>5 DEF Agree, Name, Dirs
  <2>6. CASE d = "node"
    BY <2>1, <2>2, <2>3, <2>6 DEF Agree, Name, Dirs
  <2>7. CASE d = "cpu"
    BY <2>1, <2>2, <2>3, <2>7 DEF Agree, Name, Dirs
  <2>8. CASE d = "node0"
    BY <2>1, <2>2, <2>3, <2>8 DEF Agree, Name, Dirs
  <2>9. CASE d = "online"
    BY <2>1, <2>2, <2>3, <2>9 DEF Agree, Name, Dirs
  <2> QED
    BY <2>1, <2>4, <2>5, <2>6, <2>7, <2>8, <2>9 DEF Dirs
<1>4. CASE d # "none" /\ c \notin {"", ".", ".."}
  <2>1. d \in Dirs /\ parts = Name(d) /\ normalizeStep(parts, c) = Append(parts, c)
    BY <1>4, Zenon DEF Agree, normalizeStep
  <2>2. walkStep(d, c) = IF <<d, c>> \in {<<"/", "sys">>, <<"sys", "node">>, <<"sys", "cpu">>,
                                          <<"node", "node0">>, <<"cpu", "online">>}
                         THEN c ELSE "none"
    BY <1>4, Zenon DEF walkStep
  <2>3. CASE d = "/" /\ c = "sys"
    BY <2>1, <2>2, <2>3 DEF Agree, Name, Dirs
  <2>4. CASE d = "sys" /\ c \in {"node", "cpu"}
    BY <2>1, <2>2, <2>4 DEF Agree, Name, Dirs
  <2>5. CASE d = "node" /\ c = "node0"
    BY <2>1, <2>2, <2>5 DEF Agree, Name, Dirs
  <2>6. CASE d = "cpu" /\ c = "online"
    BY <2>1, <2>2, <2>6 DEF Agree, Name, Dirs
  <2>7. CASE walkStep(d, c) = "none"
    BY <2>7 DEF Agree
  <2> QED
    BY <2>2, <2>3, <2>4, <2>5, <2>6, <2>7
<1> QED
  BY <1>1, <1>2, <1>3, <1>4, Zenon

\* Wherever the kernel gets to, the path without its dots is the name of that.
LEMMA WalkAgrees ==
  ASSUME NEW path, Len(path) \in Nat
  PROVE  Agree(walk(path), lexicallyNormalizePath(path))
<1> DEFINE n == Len(path)
           at == CHOOSE f : Walks(f, path, n)
           after == CHOOSE f : Reads(f, path, n)
<1>1. walk(path) = at[n]
  BY Zenon DEF walk, Walks
<1>2. lexicallyNormalizePath(path) = after[n]
  BY Zenon DEF lexicallyNormalizePath, Reads
<1>3. Walks(at, path, n) /\ Reads(after, path, n)
  BY WalkExists, ReadExists, Zenon
<1> HIDE DEF at, after
<1> DEFINE S == {k \in Nat : k <= n => Agree(at[k], after[k])}
<1>4. 0 \in S
  <2>1. at[0] = "/" /\ after[0] = <<>>
    <3>1. 0 \in 0..n
      OBVIOUS
    <3> QED
      BY <1>3, <3>1, Zenon DEF Walks, Reads
  <2> QED
    BY <2>1 DEF Agree, Name, Dirs
<1>5. ASSUME NEW k \in S PROVE k + 1 \in S
  <2> SUFFICES ASSUME k + 1 <= n PROVE Agree(at[k + 1], after[k + 1])
    OBVIOUS
  <2>1. Agree(at[k], after[k])
    BY <1>5
  <2>2. k + 1 \in 0..n /\ k + 1 # 0 /\ k + 1 - 1 = k
    OBVIOUS
  <2>3. \A i \in 0..n : at[i] = IF i = 0 THEN "/" ELSE walkStep(at[i - 1], path[i])
    BY <1>3, Zenon DEF Walks
  <2>4. \A i \in 0..n : after[i] = IF i = 0 THEN <<>> ELSE normalizeStep(after[i - 1], path[i])
    BY <1>3, Zenon DEF Reads
  <2>5. at[k + 1] = walkStep(at[k], path[k + 1])
    BY <2>2, <2>3
  <2>6. after[k + 1] = normalizeStep(after[k], path[k + 1])
    BY <2>2, <2>4
  <2> QED
    BY <2>1, <2>5, <2>6, StepAgrees, Zenon
<1>6. S = Nat
  <2>1. S \in SUBSET Nat
    BY Zenon
  <2> HIDE DEF S
  <2> QED
    BY <1>4, <1>5, <2>1, AllNaturals, Zenon
<1>7. Agree(at[n], after[n])
  BY <1>6
<1> QED
  BY <1>1, <1>2, <1>7, Zenon

\* The beginning of a path.
LEMMA FirstTwo ==
  ASSUME NEW s \in Seq(Dirs), Len(s) > 1
  PROVE  SubSeq(s, 1, 2) = <<s[1], s[2]>>
<1> DEFINE t == SubSeq(s, 1, 2)
           u == <<s[1], s[2]>>
<1>1. t \in Seq(Dirs) /\ Len(t) = 2 /\ t[1] = s[1] /\ t[2] = s[2]
  OBVIOUS
<1>2. u \in Seq(Dirs) /\ Len(u) = 2 /\ u[1] = s[1] /\ u[2] = s[2]
  OBVIOUS
<1> HIDE DEF t, u
<1>3. \A i \in 1..2 : t[i] = u[i]
  BY <1>1, <1>2
<1>4. t = u
  BY <1>1, <1>2, <1>3, SeqEqual, Zenon
<1> QED
  BY <1>4 DEF t, u

\* A path that gets to the topology is refused.
LEMMA TopologyRefused ==
  ASSUME NEW path, Len(path) \in Nat
  PROVE  /\ walk(path) \in {"node", "node0"} => isHostCpuTopologyPath(path)
         /\ walk(path) \in {"cpu", "online"} =>
              isHostCpuTopologyPath(path) \/ sysfsCpuOverridden(args)
<1> DEFINE clean == lexicallyNormalizePath(path)
           below(dir) == Len(clean) > 1 /\ SubSeq(clean, 1, 2) = <<"sys", dir>>
<1>1. isHostCpuTopologyPath(path) <=> below("node") \/ (~sysfsCpuOverridden(args) /\ below("cpu"))
  BY Zenon DEF isHostCpuTopologyPath
<1>2. walk(path) # "none" => clean = Name(walk(path))
  BY WalkAgrees, Zenon DEF Agree
<1> HIDE DEF clean
<1>3. ASSUME walk(path) \in {"node", "node0"} PROVE below("node")
  <2>1. clean = <<"sys", "node">> \/ clean = <<"sys", "node", "node0">>
    BY <1>2, <1>3 DEF Name
  <2>2. clean \in Seq(Dirs) /\ Len(clean) > 1 /\ clean[1] = "sys" /\ clean[2] = "node"
    <3>1. /\ <<"sys", "node">> \in Seq(Dirs) /\ Len(<<"sys", "node">>) > 1
          /\ <<"sys", "node">>[1] = "sys" /\ <<"sys", "node">>[2] = "node"
      BY DEF Dirs
    <3>2. /\ <<"sys", "node", "node0">> \in Seq(Dirs) /\ Len(<<"sys", "node", "node0">>) > 1
          /\ <<"sys", "node", "node0">>[1] = "sys" /\ <<"sys", "node", "node0">>[2] = "node"
      BY DEF Dirs
    <3> QED
      BY <2>1, <3>1, <3>2, Zenon
  <2> QED
    BY <2>2, FirstTwo, Zenon
<1>4. ASSUME walk(path) \in {"cpu", "online"} PROVE below("cpu")
  <2>1. clean = <<"sys", "cpu">> \/ clean = <<"sys", "cpu", "online">>
    BY <1>2, <1>4 DEF Name
  <2>2. clean \in Seq(Dirs) /\ Len(clean) > 1 /\ clean[1] = "sys" /\ clean[2] = "cpu"
    <3>1. /\ <<"sys", "cpu">> \in Seq(Dirs) /\ Len(<<"sys", "cpu">>) > 1
          /\ <<"sys", "cpu">>[1] = "sys" /\ <<"sys", "cpu">>[2] = "cpu"
      BY DEF Dirs
    <3>2. /\ <<"sys", "cpu", "online">> \in Seq(Dirs) /\ Len(<<"sys", "cpu", "online">>) > 1
          /\ <<"sys", "cpu", "online">>[1] = "sys" /\ <<"sys", "cpu", "online">>[2] = "cpu"
      BY DEF Dirs
    <3> QED
      BY <2>1, <3>1, <3>2, Zenon
  <2> QED
    BY <2>2, FirstTwo, Zenon
<1> QED
  BY <1>1, <1>3, <1>4, Zenon

\* What the guest has opened stays out of the topology while the run lasts.
LEMMA SpellingSteps ==
  ASSUME NEW options, NEW paths, NEW wrong, \A path \in paths : Len(path) \in Nat,
         VolumeInv, NoSpellingEscapes, [Steps(options, paths, wrong)]_containerVars
  PROVE  NoSpellingEscapes'
<1>1. CASE \E o : run_main(o)
  <2>1. opened'.to = "none"
    BY <1>1 DEF run_main, NotOpened
  <2> QED
    BY <2>1 DEF NoSpellingEscapes
<1>2. ASSUME NEW path \in paths, opens(path) PROVE NoSpellingEscapes'
  <2>1. /\ opened'.to = IF args_with_proc_overrides(args) /\ isHostCpuTopologyPath(path)
                        THEN "refused" ELSE walk(path)
        /\ args' = args /\ install' = install
    BY <1>2 DEF opens
  <2>2. sysfsCpuOverridden(args)' <=> sysfsCpuOverridden(args)
    BY <2>1, SameOptions
  <2>3. args_with_proc_overrides(args)' <=> args_with_proc_overrides(args)
    BY <2>1 DEF args_with_proc_overrides
  <2>4. /\ walk(path) \in {"node", "node0"} => isHostCpuTopologyPath(path)
        /\ walk(path) \in {"cpu", "online"} =>
             isHostCpuTopologyPath(path) \/ sysfsCpuOverridden(args)
    BY TopologyRefused, Zenon
  <2> QED
    BY <2>1, <2>2, <2>3, <2>4 DEF NoSpellingEscapes
<1>3. ASSUME opened' = opened, args' = args,
             install["/sys/cpu"] # "missing" => install'["/sys/cpu"] # "missing"
      PROVE  NoSpellingEscapes'
  <2>1. procOverridesMounted(args)' <=> procOverridesMounted(args)
    BY <1>3, Zenon DEF procOverridesMounted, args_with_proc_overrides, clone_ns_flags
  <2>2. sysfsCpuOverridden(args) => sysfsCpuOverridden(args)'
    BY <1>3, <2>1, Zenon DEF sysfsCpuOverridden
  <2>3. args_with_proc_overrides(args)' <=> args_with_proc_overrides(args)
    BY <1>3 DEF args_with_proc_overrides
  <2> QED
    BY <1>3, <2>2, <2>3, Zenon DEF NoSpellingEscapes
<1>4. ASSUME NEW f, writes(f) PROVE NoSpellingEscapes'
  <2>1. opened' = opened /\ args' = args /\ install' = [install EXCEPT ![f] = "guest"]
    BY <1>4, Zenon DEF writes
  <2>2. install \in [Files -> Contents] /\ "/sys/cpu" \in Files
    BY Zenon DEF VolumeInv, Files
  <2>3. install["/sys/cpu"] # "missing" => install'["/sys/cpu"] # "missing"
    BY <2>1, <2>2
  <2> QED
    BY <1>3, <2>1, <2>3, Zenon
<1>5. CASE mount(TRUE) \/ mount(FALSE) \/ mountFails \/ execGuest \/ exits \/ UNCHANGED containerVars
  <2>1. opened' = opened /\ args' = args /\ install' = install
    BY <1>5, Zenon DEF mount, mountFails, execGuest, exits, containerVars
  <2> QED
    BY <1>3, <2>1, Zenon
<1> QED
  BY <1>1, <1>2, <1>4, <1>5, Zenon DEF Steps

\* Nothing is open at the start.
LEMMA InitSpelling ==
  ContainerInit => NoSpellingEscapes
<1> SUFFICES ASSUME ContainerInit PROVE NoSpellingEscapes
  OBVIOUS
<1>1. opened.to = "none"
  BY Zenon DEF ContainerInit, NotOpened
<1> QED
  BY <1>1 DEF NoSpellingEscapes

----------------------------------------------------------------------------
(* The behaviours of the model that is checked, and their parts. *)

mcVars == <<part, containerVars, vars, deviceVars, generatorVars>>

RunParts == {"options", "any options", "paths"}

\* A guest opens paths that have components, and a command line that keeps
\* dettrace's promises is one whose mounts succeed and do not come from "/".
PathsAssumption == \A path \in Paths : Len(path) \in Nat
KeptAssumption == "mount fails" \notin MountBehaviours
CountsAssumption == "already-in-chroot" \notin Options

\* Every part begins with no run.
LEMMA InitParts ==
  ASSUME MCInit
  PROVE  ContainerInit
BY Zenon DEF MCInit, NoRun

\* The paths of the models have components.
LEMMA ManyPathsLen ==
  \A path \in ManyPaths : Len(path) \in Nat
<1> DEFINE C == {"", ".", "..", "sys", "node", "cpu", "node0"}
<1> HIDE DEF C
<1>1. \A n \in 1..4 : \A path \in [1..n -> C] : Len(path) \in Nat
  OBVIOUS
<1> QED
  BY <1>1, Zenon DEF ManyPaths, C

\* A step is one of Container, or leaves its variables alone.
LEMMA RunStep ==
  ASSUME [MCNext]_mcVars
  PROVE  \/ UNCHANGED containerVars
         \/ part = "options" /\ ContainerNext
         \/ part = "any options" /\ Steps(AllOptions, Paths, {"mount fails", "writes /etc"})
         \/ part = "paths" /\ Steps({"host-mountns"}, ManyPaths, {})
BY Zenon DEF MCNext, RunNext, mcVars

\* No behaviour changes its part.
LEMMA PartStays ==
  ASSUME [MCNext]_mcVars
  PROVE  part' = part
BY Zenon DEF MCNext, mcVars

\* What holds in all runs.
RunInv == VolumeInv /\ NoSpellingEscapes

\* Every step of every part keeps it.
LEMMA RunSteps ==
  ASSUME PathsAssumption, RunInv, [MCNext]_mcVars
  PROVE  RunInv'
<1>1. \A path \in Paths : Len(path) \in Nat
  BY Zenon DEF PathsAssumption
<1>2. CASE [Steps(Options, Paths, MountBehaviours)]_containerVars
  BY <1>1, <1>2, VolumeSteps, SpellingSteps, Zenon DEF RunInv
<1>3. CASE Steps(AllOptions, Paths, {"mount fails", "writes /etc"})
  BY <1>1, <1>3, VolumeSteps, SpellingSteps, Zenon DEF RunInv
<1>4. CASE Steps({"host-mountns"}, ManyPaths, {})
  BY <1>4, VolumeSteps, SpellingSteps, ManyPathsLen, Zenon DEF RunInv
<1> QED
  BY <1>2, <1>3, <1>4, RunStep, Zenon DEF ContainerNext

\* A volume that the user asks for is what the guest sees, whatever the other
\* options are and whichever mounts of overrides fail; and as long as the
\* read-only remounts succeed, no sequence of runs changes the canonical proc and
\* sysfs files that the next run shows.
THEOREM MountsSafety ==
  ASSUME PathsAssumption, KeptAssumption
  PROVE  MCSpec => []MountsAsAsked
<1> DEFINE I == RunInv /\ (part = "options" => KeptInv)
<1>1. MCInit => I
  BY InitParts, InitVolume, InitSpelling, InitKept, Zenon DEF RunInv
<1>2. I /\ [MCNext]_mcVars => I'
  <2> SUFFICES ASSUME I, [MCNext]_mcVars PROVE I'
    BY Zenon
  <2>1. part' = part /\ RunInv'
    BY RunSteps, PartStays, Zenon
  <2>2. part = "options" => [ContainerNext]_containerVars
    BY RunStep, Zenon
  <2>3. part = "options" => KeptInv'
    BY <2>2, KeptSteps, Zenon DEF KeptAssumption
  <2> QED
    BY <2>1, <2>3, Zenon
<1>3. I => MountsAsAsked
  BY Zenon DEF RunInv, KeptInv, VolumeInv, VolumeAsked, VolumesWin, MountsAsAsked
<1>4. MCSpec => MCInit /\ [][MCNext]_mcVars
  BY PTL DEF MCSpec, mcVars
<1> QED
  BY <1>1, <1>2, <1>3, <1>4, PTL

\* However a guest asks for the number of CPUs, the answer is the same, if no
\* mount fails and the installation is not the host itself; and however it spells
\* a path, of any length, it does not get to the host's CPU topology.
THEOREM CountsSafety ==
  ASSUME PathsAssumption, KeptAssumption, CountsAssumption
  PROVE  MCSpec => []CpuCountsAgree
<1> DEFINE I == RunInv /\ (part = "options" => CountsInv)
<1>1. MCInit => I
  BY InitParts, InitVolume, InitSpelling, InitCounts, Zenon DEF RunInv
<1>2. I /\ [MCNext]_mcVars => I'
  <2> SUFFICES ASSUME I, [MCNext]_mcVars PROVE I'
    BY Zenon
  <2>1. part' = part /\ RunInv'
    BY RunSteps, PartStays, Zenon
  <2>2. part = "options" => [ContainerNext]_containerVars
    BY RunStep, Zenon
  <2>3. part = "options" => CountsInv'
    BY <2>2, CountsSteps, Zenon DEF KeptAssumption, CountsAssumption
  <2> QED
    BY <2>1, <2>3, Zenon
<1>3. I => CpuCountsAgree
  BY OneCount, Zenon DEF RunInv, CpuCountsAgree
<1>4. MCSpec => MCInit /\ [][MCNext]_mcVars
  BY PTL DEF MCSpec, mcVars
<1> QED
  BY <1>1, <1>2, <1>3, <1>4, PTL
=============================================================================
