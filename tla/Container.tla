----------------------------- MODULE Container -----------------------------
(***************************************************************************)
(* The machine that dettrace shows to its guest: what run_main and         *)
(* parseProgramArguments make of the command line, the mounts runTracee    *)
(* puts over the host's files, and the paths the open hook refuses.        *)
(*                                                                         *)
(* Several runs of dettrace follow one another on the same host, and share *)
(* the install tree with the canonical files.  A file's contents are one   *)
(* of "canonical", "host", "volume" (a -v option's) and "guest" (written   *)
(* by a guest).                                                            *)
(***************************************************************************)
EXTENDS Naturals, Sequences, FiniteSets

CONSTANTS
  Options,      \* the options a command line may have
  Paths,        \* the paths a guest opens: sequences of components
  MaxRuns,      \* how many runs follow one another
  MountBehaviours  \* a subset of {"mount fails", "partial install", "writes /etc"}

\* One file stands for each group of overrides.
Files == {"/proc/stat", "/sys/cpu", "/etc/passwd"}

VARIABLES
  runs,         \* how many runs have begun
  args,         \* the options of this one
  phase,        \* "mount", "run" or "over"
  todo,         \* opts.mounts that are still to be mounted
  seen,         \* what the guest finds at each file
  writable,     \* the canonical files it may write
  install,      \* the contents of the canonical files
  opened        \* the last path opened, and what came of it

containerVars == <<runs, args, phase, todo, seen, writable, install, opened>>

NotOpened == [path |-> <<>>, to |-> "none"]

----------------------------------------------------------------------------
(* parseProgramArguments and run_main. *)

\* --in-docker clears every namespace flag, after the others have set them.
clone_ns_flags(o) ==
  IF "in-docker" \in o THEN {}
  ELSE {f \in {"NEWUSER", "NEWPID", "NEWNS", "NEWUTS"} :
          CASE f = "NEWUSER" -> o \intersect {"host-userns", "already-in-chroot"} = {}
            [] f = "NEWPID" -> "host-pidns" \notin o
            [] f = "NEWNS" -> "host-mountns" \notin o
            [] f = "NEWUTS" -> "host-utsns" \notin o}

args_with_proc_overrides(o) == "real-proc" \notin o

procOverridesMounted_NotGated(o) == args_with_proc_overrides(o)

procOverridesMounted(o) == args_with_proc_overrides(o) /\ "NEWNS" \in clone_ns_flags(o)

\* pathToChroot is "/" with --already-in-chroot.
source(f) == IF "already-in-chroot" \in args THEN "host" ELSE install[f]

sysfsCpuOverridden(o) ==
  /\ procOverridesMounted(o)
  /\ "already-in-chroot" \notin o
  /\ install["/sys/cpu"] # "missing"

Override(f, ro) ==
  [target |-> f, volume |-> FALSE, optional |-> TRUE, readonly |-> ro]

\* The volumes come last, so that they win.
addVolumes(o) ==
  IF "volume" \in o
  THEN <<[target |-> "/sys/cpu", volume |-> TRUE, optional |-> FALSE, readonly |-> FALSE]>>
  ELSE <<>>

addOverrides_Writable(o) ==
  IF ~args_with_proc_overrides(o) THEN <<>>
  ELSE <<Override("/proc/stat", FALSE)>>
         \o (IF sysfsCpuOverridden(o) THEN <<Override("/sys/cpu", FALSE)>> ELSE <<>>)
         \o <<Override("/etc/passwd", FALSE)>>

addOverrides(o) ==
  IF ~args_with_proc_overrides(o) THEN <<>>
  ELSE <<Override("/proc/stat", TRUE)>>
         \o (IF sysfsCpuOverridden(o) THEN <<Override("/sys/cpu", TRUE)>> ELSE <<>>)
         \o <<Override("/etc/passwd", FALSE)>>

mounts(o) == addOverrides(o) \o addVolumes(o)

\* A run with another command line; the install tree is as the last one left it.
run_main(o) ==
  /\ phase = "over" /\ runs < MaxRuns
  /\ runs' = runs + 1
  /\ args' = o
  /\ phase' = "mount"
  /\ todo' = IF "NEWNS" \in clone_ns_flags(o) THEN mounts(o) ELSE <<>>
  /\ seen' = [f \in Files |-> "host"]
  /\ writable' = {}
  /\ opened' = NotOpened
  /\ UNCHANGED install

----------------------------------------------------------------------------
(* runTracee. *)

\* The remount that makes an override read-only may fail on its own.
mount(remounted) ==
  /\ phase = "mount" /\ todo # <<>>
  /\ LET m == Head(todo)
     IN /\ m.volume \/ source(m.target) # "missing"
        /\ seen' = [seen EXCEPT ![m.target] = IF m.volume THEN "volume" ELSE source(m.target)]
        /\ writable' = IF (m.readonly /\ remounted) \/ m.volume \/ source(m.target) = "host"
                       THEN writable \ {m.target} ELSE writable \union {m.target}
  /\ todo' = Tail(todo)
  /\ UNCHANGED <<runs, args, phase, install, opened>>

\* An override that cannot be mounted earns a warning.
mountFails ==
  /\ phase = "mount" /\ todo # <<>>
  /\ Head(todo).optional
  /\ todo' = Tail(todo)
  /\ UNCHANGED <<runs, args, phase, seen, writable, install, opened>>

execGuest ==
  /\ phase = "mount" /\ todo = <<>>
  /\ phase' = "run"
  /\ UNCHANGED <<runs, args, todo, seen, writable, install, opened>>

----------------------------------------------------------------------------
(* The guest. *)

writes(f) ==
  /\ phase = "run"
  /\ f \in writable
  /\ install' = [install EXCEPT ![f] = "guest"]
  /\ seen' = [seen EXCEPT ![f] = "guest"]
  /\ UNCHANGED <<runs, args, phase, todo, writable, opened>>

exits ==
  /\ phase = "run"
  /\ phase' = "over"
  /\ UNCHANGED <<runs, args, todo, seen, writable, install, opened>>

\* Where the kernel gets to when it walks a path, in a tree with the
\* directories /sys/node/node0 and /sys/cpu/online.
walkStep(d, c) ==
  IF c \in {"", "."} THEN d
  ELSE IF c = ".." THEN CASE d \in {"/", "sys"} -> "/"
                          [] d \in {"node", "cpu"} -> "sys"
                          [] d = "node0" -> "node"
                          [] d = "online" -> "cpu"
                          [] OTHER -> "none"
  ELSE IF <<d, c>> \in {<<"/", "sys">>, <<"sys", "node">>, <<"sys", "cpu">>,
                        <<"node", "node0">>, <<"cpu", "online">>}
       THEN c ELSE "none"

walk(path) ==
  LET at[i \in 0..Len(path)] == IF i = 0 THEN "/" ELSE walkStep(at[i - 1], path[i])
  IN at[Len(path)]

\* "" stands for a doubled slash.
normalizeStep(parts, c) ==
  IF c = ".." THEN IF parts = <<>> THEN parts ELSE SubSeq(parts, 1, Len(parts) - 1)
  ELSE IF c \in {"", "."} THEN parts ELSE Append(parts, c)

lexicallyNormalizePath(path) ==
  LET after[i \in 0..Len(path)] == IF i = 0 THEN <<>> ELSE normalizeStep(after[i - 1], path[i])
  IN after[Len(path)]

isHostCpuTopologyPath(path) ==
  LET clean == lexicallyNormalizePath(path)
      below(dir) == Len(clean) > 1 /\ SubSeq(clean, 1, 2) = <<"sys", dir>>
  IN below("node") \/ (~sysfsCpuOverridden(args) /\ below("cpu"))

\* hide_host_topology does not depend on the mounts.  One path per run is
\* enough, as opening it changes nothing else.
opens(path) ==
  /\ phase = "run" /\ opened = NotOpened
  /\ opened' = [path |-> path,
                to |-> IF args_with_proc_overrides(args) /\ isHostCpuTopologyPath(path)
                       THEN "refused" ELSE walk(path)]
  /\ UNCHANGED <<runs, args, phase, todo, seen, writable, install>>

ContainerInit ==
  /\ runs = 0 /\ args = {} /\ phase = "over" /\ todo = <<>>
  /\ seen = [f \in Files |-> "host"] /\ writable = {} /\ opened = NotOpened
  /\ install \in {[f \in Files |-> "canonical"]}
       \union IF "partial install" \in MountBehaviours
              THEN {[f \in Files |-> IF f = "/sys/cpu" THEN "missing" ELSE "canonical"]}
              ELSE {}

\* What command lines with these options and guests that open these paths do, and
\* what may go wrong.
Steps(options, paths, wrong) ==
  \/ \E o \in SUBSET options : run_main(o)
  \/ mount(TRUE) \/ execGuest \/ exits
  \/ "mount fails" \in wrong /\ (mount(FALSE) \/ mountFails)
  \/ writes("/proc/stat") \/ writes("/sys/cpu")
  \/ "writes /etc" \in wrong /\ writes("/etc/passwd")
  \/ \E path \in paths : opens(path)

ContainerNext == Steps(Options, Paths, MountBehaviours)

ContainerSpec == ContainerInit /\ [][ContainerNext]_containerVars

----------------------------------------------------------------------------
(* Properties. *)

\* sched_getaffinity, /proc/stat and /sys/devices/system/cpu, as far as they
\* tell the number of CPUs at all.
CpuCounts ==
  {IF procOverridesMounted(args) THEN "canonical" ELSE "host", seen["/proc/stat"]}
    \union IF args_with_proc_overrides(args) /\ ~sysfsCpuOverridden(args) THEN {}
           ELSE {seen["/sys/cpu"]} \ {"volume"}

\* Every way to ask for the number of CPUs gives the same answer, so that a
\* guest can pin the threads it decides to start (main.cpp gates the affinity
\* emulation on the mounts).
CountsAgree == phase = "run" => Cardinality(CpuCounts) = 1

\* However a path is spelled, the host's topology does not show: what the
\* kernel would walk to is refused (the prefix test of isHostCpuTopologyPath).
NoSpellingEscapes ==
  args_with_proc_overrides(args) =>
    /\ opened.to \notin {"node", "node0"}
    /\ opened.to \in {"cpu", "online"} => sysfsCpuOverridden(args)

\* No run changes the canonical proc and sysfs files that the next run shows
\* (the read-only remount in runTracee).
CanonicalKept == \A f \in {"/proc/stat", "/sys/cpu"} : install[f] # "guest"

\* A volume the user asks for is what the guest sees, over any override.
VolumesWin ==
  phase = "run" /\ "volume" \in args /\ "NEWNS" \in clone_ns_flags(args) =>
    seen["/sys/cpu"] = "volume"
=============================================================================
