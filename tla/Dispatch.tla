------------------------------- MODULE Dispatch -------------------------------
(***************************************************************************)
(* How a system call finds its hooks.                                      *)
(*                                                                         *)
(* A seccomp filter decides which system calls stop.  At the stop          *)
(* handleSeccomp calls the pre-hook of the call, which may let it pass,    *)
(* change it into another one, cancel it or have it executed again, and    *)
(* says whether the tracee is to stop at the end of the call too.  There   *)
(* the post-hook is found by the number the call has by then.  Three       *)
(* tables have to agree: the rules of the filter and the cases of          *)
(* callPreHook and callPostHook.  On the way dettrace injects calls of its *)
(* own, and hooks of a recorder may suppress a call; both leave notes for  *)
(* the post-hook in flags of the process.                                  *)
(*                                                                         *)
(* One tracee on x86_64; the tables leave out what only other              *)
(* architectures have.                                                     *)
(***************************************************************************)
EXTENDS FiniteSets

CONSTANTS
  Calls,          \* the system calls that the tracee makes
  kernelPre4_8,   \* whether the kernel is older than 4.8
  Hooks           \* whether there is a recorder (sys_enter_hook, sys_exit_hook)

----------------------------------------------------------------------------
(* The rules of the filter, in the order of seccomp::loadRules: calls that *)
(* stop, calls that stop at a high debug level, calls that do not stop.    *)

convertedUids == {"fchownat", "chown", "lchown", "fchown"}

rules1 ==
  [intercept |->
     {"arch_prctl", "splice", "tee", "vmsplice", "sendfile", "dup3", "exit_group", "ppoll",
      "epoll_ctl", "epoll_wait", "epoll_pwait", "rseq", "getcpu"},
   debug |->
     {},
   noIntercept |->
     {"brk", "bind", "copy_file_range", "capget", "capset", "clock_getres", "getresgid",
      "exit", "epoll_create1", "epoll_create", "fadvise64", "fallocate", "fchdir", "fchmod",
      "fchmodat", "fdatasync", "flock", "fsync", "ftruncate", "fsetxattr", "getresuid",
      "getgid", "getegid", "geteuid", "getgroups", "getpgrp", "getpid", "getpgid",
      "getppid", "gettid", "getuid", "getxattr", "removexattr", "madvise", "munmap",
      "mprotect", "mremap", "msync", "lseek", "prctl", "pread64", "pwrite64", "preadv",
      "preadv2", "pwritev", "pwritev2"}]

rules2 ==
  [intercept |->
     {"rt_sigprocmask", "rt_sigtimedwait", "rt_sigsuspend", "sched_getaffinity",
      "sched_setaffinity", "socket"},
   debug |->
     {},
   noIntercept |->
     {"listxattr", "rt_sigreturn", "rt_sigpending", "setpgid", "set_tid_address",
      "setxattr", "sigaltstack", "setgid", "setgroups", "setrlimit", "setregid",
      "setresgid", "setresuid", "setreuid", "setfsgid", "setfsuid", "setuid",
      "sched_getscheduler", "sync", "umask", "inotify_init", "getsockname", "getsockopt",
      "setsockopt", "socketpair", "mlock", "setsid", "sched_yield", "truncate", "eventfd2",
      "writev", "fork", "vfork", "clone", "clone3"}]

rules3 ==
  [intercept |->
     {"execve", "rt_sigaction", "timer_create", "timer_delete", "timer_getoverrun",
      "timer_gettime", "timer_settime", "setitimer", "getitimer", "pause", "timerfd_create",
      "timerfd_settime", "timerfd_gettime", "alarm", "creat", "clock_gettime", "close",
      "close_range", "openat2", "get_mempolicy", "landlock_create_ruleset",
      "landlock_add_rule", "landlock_restrict_self", "seccomp", "connect", "dup", "dup2",
      "fcntl", "fstat", "fstatfs", "futex", "getdents", "getdents64", "getpeername",
      "getrandom", "getrlimit", "getrusage", "gettimeofday", "ioctl", "llistxattr"},
   debug |->
     {"rename", "renameat", "renameat2", "rmdir", "unlink", "unlinkat", "access", "chdir",
      "chmod", "faccessat", "faccessat2", "fgetxattr", "flistxattr", "getcwd"},
   noIntercept |->
     {}]

rules4 ==
  [intercept |->
     {"lgetxattr", "mincore", "nanosleep", "clock_nanosleep", "newfstatat", "lstat",
      "mkdir", "mkdirat", "mknod", "mknodat", "symlink", "symlinkat", "open", "openat",
      "tgkill", "pipe", "pipe2", "pselect6", "poll", "prlimit64", "read", "recvmsg",
      "sendmsg", "sendmmsg", "recvfrom", "listen", "accept", "accept4", "shutdown",
      "sendto", "select", "set_robust_list", "stat", "statx", "statfs", "sysinfo", "time",
      "times", "utime", "utimes", "utimensat", "futimesat", "uname", "wait4", "waitid",
      "write", "kill", "tkill"},
   debug |->
     {"link", "linkat", "readlink", "readlinkat"},
   noIntercept |->
     {"mmap", "personality", "pidfd_open", "pidfd_getfd", "pidfd_send_signal", "mbind",
      "membarrier", "readv", "signalfd", "signalfd4", "fchmodat2"}]

Rules == {rules1, rules2, rules3, rules4}
Intercepted ==
  [debug, convertUids \in BOOLEAN |->
     UNION {r.intercept \union IF debug THEN r.debug ELSE {} : r \in Rules}
       \union IF convertUids THEN convertedUids ELSE {}]
Allowed ==
  [debug, convertUids \in BOOLEAN |->
     UNION {r.noIntercept \union IF debug THEN {} ELSE r.debug : r \in Rules}
       \union IF convertUids THEN {} ELSE convertedUids]

----------------------------------------------------------------------------
(* The cases of callPreHook and callPostHook. *)

preCases1 ==
  {"access", "alarm", "arch_prctl", "chdir", "close_range", "openat2", "get_mempolicy",
   "landlock_create_ruleset", "landlock_add_rule", "landlock_restrict_self", "seccomp",
   "rseq", "getcpu", "sched_getaffinity", "sched_setaffinity", "kill", "tkill", "chmod",
   "clock_gettime", "close", "connect", "creat", "dup", "dup2", "dup3", "exit_group",
   "epoll_ctl", "epoll_wait", "epoll_pwait", "execve", "faccessat2", "faccessat",
   "fgetxattr", "flistxattr", "fchownat"}

preCases2 ==
  {"fchown", "chown", "lchown", "fcntl", "fstat", "newfstatat", "fstatfs", "futex",
   "getcwd", "getdents", "getdents64", "getitimer", "getpeername", "getrandom", "getrlimit",
   "getrusage", "getsid", "gettimeofday", "ioctl", "llistxattr", "lgetxattr", "nanosleep",
   "clock_nanosleep", "splice", "tee", "vmsplice", "sendfile", "mincore", "mkdir",
   "mkdirat", "lstat", "link", "linkat", "mmap", "open", "openat"}

preCases3 ==
  {"pause", "pipe", "pipe2", "pselect6", "poll", "ppoll", "prlimit64", "read", "readlink",
   "readlinkat", "recvmsg", "rename", "renameat", "renameat2", "rmdir", "rt_sigprocmask",
   "rt_sigaction", "rt_sigtimedwait", "rt_sigsuspend", "rt_sigpending", "sendto", "sendmsg",
   "sendmmsg", "recvfrom", "select", "setitimer", "set_robust_list", "statfs", "stat",
   "statx", "sysinfo", "symlink", "symlinkat", "mknod", "mknodat", "tgkill", "time"}

preCases4 ==
  {"timer_create", "timer_delete", "timer_getoverrun", "timer_gettime", "timer_settime",
   "timerfd_create", "timerfd_settime", "timerfd_gettime", "times", "uname", "unlink",
   "unlinkat", "utime", "utimes", "utimensat", "futimesat", "wait4", "waitid", "write",
   "writev", "socket", "listen", "accept", "accept4", "shutdown"}

postCases1 ==
  {"access", "alarm", "arch_prctl", "chdir", "chown", "lchown", "chmod", "clock_gettime",
   "close", "connect", "creat", "dup", "dup2", "dup3", "epoll_ctl", "epoll_wait",
   "epoll_pwait", "faccessat2", "faccessat", "fgetxattr", "flistxattr", "fchownat",
   "fchown", "fcntl", "fstat", "newfstatat", "fstatfs", "futex", "getcwd", "getdents",
   "getdents64", "getitimer", "getpeername", "getrandom"}

postCases2 ==
  {"getrlimit", "getrusage", "getsid", "gettimeofday", "ioctl", "llistxattr", "lgetxattr",
   "nanosleep", "splice", "tee", "vmsplice", "sendfile", "mincore", "mkdir", "mkdirat",
   "lstat", "link", "linkat", "mmap", "open", "openat", "pause", "pipe", "pipe2",
   "pselect6", "poll", "ppoll", "prlimit64", "read", "readlink", "readlinkat", "recvmsg",
   "rename", "renameat", "renameat2", "rmdir", "rt_sigprocmask", "rt_sigaction",
   "rt_sigtimedwait"}

postCases3 ==
  {"rt_sigsuspend", "rt_sigpending", "sendto", "sendmsg", "sendmmsg", "recvfrom", "select",
   "setitimer", "set_robust_list", "statfs", "stat", "statx", "getcpu", "sched_getaffinity",
   "sched_setaffinity", "kill", "tkill", "sysinfo", "symlink", "symlinkat", "mknod",
   "mknodat", "tgkill", "time", "timer_create", "timer_delete", "timer_getoverrun",
   "timer_gettime", "timer_settime", "timerfd_create", "timerfd_settime", "timerfd_gettime",
   "times", "uname", "unlink", "unlinkat", "utime"}

postCases4 ==
  {"utimes", "utimensat", "futimesat", "wait4", "waitid", "write", "writev", "socket",
   "listen", "accept", "accept4", "shutdown"}

callPreHookCases == preCases1 \union preCases2 \union preCases3 \union preCases4
callPostHookCases == postCases1 \union postCases2 \union postCases3 \union postCases4

----------------------------------------------------------------------------
(* What the pre-hooks answer. *)

\* Hooks that write to the log and do nothing else.
logging ==
  {"access", "chdir", "chmod", "faccessat", "faccessat2", "fgetxattr", "flistxattr", "getcwd",
   "llistxattr", "lgetxattr", "link", "linkat", "readlink", "readlinkat", "rename", "renameat",
   "renameat2", "rmdir", "rt_sigpending", "sendto", "sendmsg", "sendmmsg", "recvfrom",
   "set_robust_list", "unlink", "unlinkat", "writev"}

\* Calls that the kernel is made to know nothing of.
hidden ==
  {"close_range", "openat2", "get_mempolicy", "landlock_create_ruleset", "landlock_add_rule",
   "landlock_restrict_self", "seccomp", "rseq"}

\* Calls whose pre-hook does all there is to do, and those where it depends.
noPostHook_ExecvePost ==
  {"chdir", "chmod", "exit_group", "fchownat", "fchown", "chown", "lchown", "faccessat",
   "faccessat2", "nanosleep", "clock_nanosleep", "link", "linkat", "readlink", "readlinkat",
   "epoll_ctl"}

noPostHook ==
  {"chdir", "chmod", "exit_group", "fchownat", "fchown", "chown", "lchown", "faccessat",
   "faccessat2", "nanosleep", "clock_nanosleep", "link", "linkat", "readlink", "readlinkat",
   "epoll_ctl", "execve"}
maybePostHook ==
  {"fcntl", "futex", "rt_sigaction", "utime", "utimes", "utimensat", "open", "openat"}

\* Post-hooks that throw because they are never to be called.
neverCalled ==
  {"fchownat", "fchown", "chown", "lchown", "faccessat", "faccessat2", "nanosleep", "link",
   "linkat", "pipe", "readlink", "readlinkat", "rt_sigsuspend", "timer_create", "accept"}

\* Post-hooks that have a call that would block executed again.
replaying ==
  {"epoll_wait", "epoll_pwait", "futex", "splice", "tee", "vmsplice", "sendfile", "newfstatat",
   "pselect6", "poll", "ppoll", "read", "recvmsg", "rt_sigtimedwait", "select", "write",
   "wait4", "waitid", "accept4"}

\* The tracee goes on with call nr ("run"), the call is over ("cancelled"), or it
\* is executed again under the number nr ("replay").
Run(nr, post) == [nr |-> nr, post |-> post, then |-> "run"]
Cancelled(nr) == [nr |-> nr, post |-> FALSE, then |-> "cancelled"]
Replay(nr) == [nr |-> nr, post |-> FALSE, then |-> "replay"]

\* sendTraceeSignalNow: pause, exit, or a call without effect.
signalled == {Run("pause", TRUE), Run("exit", FALSE), Run("time", TRUE)}

\* timer_settime fails, disarms, or sends a signal.
timer_settimePre == signalled \union {Cancelled("timer_settime")}

preHook(c, injected) ==
  CASE c = "arch_prctl" -> {Run(c, injected)}
    [] c \in hidden \union {"sched_getaffinity", "sched_setaffinity"} -> {Cancelled(c)}
    [] c \in {"kill", "tkill", "ioctl", "socket"} -> {Cancelled(c), Run(c, TRUE)}
    [] c \in noPostHook -> {Run(c, FALSE)}
    [] c \in maybePostHook -> {Run(c, FALSE), Run(c, TRUE)}
    [] c \in {"alarm", "setitimer"} -> signalled \union {Run(c, FALSE)}
    [] c = "timer_create" -> {Run("time", TRUE)}
    [] c = "timer_settime" -> timer_settimePre
    [] c = "pipe" -> {Run("pipe2", TRUE)}
    [] c = "futimesat" -> {Run("utimensat", TRUE)}
    [] c = "accept" -> {Replay("accept4")}
    [] c = "rt_sigsuspend" -> {Replay("rt_sigprocmask"), Replay("rt_sigsuspend")}
    [] OTHER -> {Run(c, TRUE)}

----------------------------------------------------------------------------
VARIABLES
  debugLevel4, uids,      \* the options
  place,          \* "user", "seccomp", "entry" (old kernels), "inside", "over", "ended"
  asked,          \* the call of the tracee
  nr,             \* the number in its registers
  hooked,         \* the calls whose pre-hooks have run for it
  traced,         \* whether it stopped at all
  callPostHook, onPreExitEvent,
  noopSystemCall, signalInjected, syscallInjected,      \* notes for post-hooks
  CPUIDTrapSet, allow_trapCPUID,
  regSaver,       \* the saved call, or "none"
  isNoop,         \* the recorder's note
  args,           \* of arguments 3 and 4, whether the tracee finds its own value
  originalArg3,   \* "own", or "old" when it is from an earlier call
  thrown

flags == <<noopSystemCall, signalInjected, syscallInjected, CPUIDTrapSet, allow_trapCPUID,
           regSaver, isNoop>>
options == <<debugLevel4, uids>>
vars == <<options, place, asked, nr, hooked, traced, callPostHook, onPreExitEvent, flags, args,
          originalArg3, thrown>>

Own == [n \in {3, 4} |-> "own"]

\* A call that the filter lets through without a stop.
untraced(c) ==
  /\ place = "user" /\ thrown = "no"
  /\ c \in Allowed[debugLevel4, uids]
  /\ asked' = c /\ traced' = FALSE
  /\ place' = "over"
  /\ UNCHANGED <<options, nr, hooked, callPostHook, onPreExitEvent, flags, args,
                 originalArg3, thrown>>

\* A call that stops; without a rule the stop carries INT16_MAX.
stops(c) ==
  /\ place = "user" /\ thrown = "no"
  /\ c \notin Allowed[debugLevel4, uids]
  /\ asked' = c /\ nr' = c
  /\ traced' = TRUE
  /\ IF c \in Intercepted[debugLevel4, uids]
       THEN place' = "seccomp" /\ UNCHANGED thrown
       ELSE thrown' = "No filter rule" /\ UNCHANGED place
  /\ UNCHANGED <<options, hooked, callPostHook, onPreExitEvent, flags, args, originalArg3>>

----------------------------------------------------------------------------
(* The seccomp stop. *)

\* trapCPUID saves the registers and has arch_prctl executed in place of the call.
trapsCPUID == allow_trapCPUID /\ ~CPUIDTrapSet /\ ~kernelPre4_8

\* What a pre-hook notes for the post-hook.
hookNotes(c, r) ==
  /\ noopSystemCall' = (noopSystemCall \/ (r.nr = "time" /\ c # "time"))
  /\ signalInjected' = (signalInjected \/ (r.nr = "pause" /\ c # "pause"))
  /\ args' = CASE c = "futimesat" -> [args EXCEPT ![4] = "ours"]
               [] c = "utimensat" /\ r.post -> [args EXCEPT ![3] = "ours"]
               [] OTHER -> args
  /\ originalArg3' = IF c = "utimensat" /\ r.post THEN "own" ELSE originalArg3

\* Where the tracee is after the hook.
resumeAt(r) ==
  CASE r.then = "replay" -> "seccomp"
    [] r.then = "cancelled" -> IF kernelPre4_8 THEN "inside" ELSE "over"
    [] r.then = "run" -> IF kernelPre4_8 THEN "entry" ELSE "inside"

\* The recorder's hook suppresses the call: it becomes time, whatever the
\* pre-hook has said of a post-hook.
rnr_callPreHook(c, r, injected) ==
  IF Hooks /\ c # "arch_prctl" /\ ~injected
    THEN \/ nr' = r.nr /\ isNoop' = isNoop /\ hookNotes(c, r)
         \/ nr' = "time" /\ isNoop' = TRUE /\ hookNotes(c, [r EXCEPT !.nr = "time"])
    ELSE nr' = r.nr /\ isNoop' = isNoop /\ hookNotes(c, r)

\* handlePreSystemCall, with the call that is executed now.
handlePreSystemCall(c, injected) ==
  IF c \notin callPreHookCases
    THEN /\ thrown' = "Missing case"
         /\ UNCHANGED <<place, nr, hooked, callPostHook, onPreExitEvent, noopSystemCall,
                        signalInjected, syscallInjected, isNoop, args, originalArg3>>
    ELSE \E r \in preHook(c, injected) :
           /\ syscallInjected' = (injected \/ (c = "rt_sigsuspend" /\ r.nr = "rt_sigprocmask"))
           /\ rnr_callPreHook(c, r, syscallInjected')
           /\ place' = resumeAt(r)
           /\ callPostHook' = (r.post \/ kernelPre4_8)
           /\ onPreExitEvent' = kernelPre4_8
           /\ hooked' = hooked \union {c}
           /\ UNCHANGED thrown

handleSeccomp ==
  /\ place = "seccomp" /\ thrown = "no"
  /\ IF trapsCPUID
       THEN regSaver' = nr /\ handlePreSystemCall("arch_prctl", TRUE)
       ELSE UNCHANGED regSaver /\ handlePreSystemCall(nr, syscallInjected)
  /\ UNCHANGED <<options, asked, traced, CPUIDTrapSet, allow_trapCPUID>>

----------------------------------------------------------------------------
(* The end of a call. *)

\* Kernels before 4.8 report the entry of the call after the seccomp stop.
entryStop ==
  /\ thrown = "no"
  /\ onPreExitEvent
  /\ \/ place = "entry" /\ place' = "inside"
     \/ place = "inside" /\ place' = "over"
  /\ callPostHook' = TRUE
  /\ onPreExitEvent' = FALSE
  /\ UNCHANGED <<options, asked, nr, hooked, traced, flags, args, originalArg3, thrown>>

ends == nr \in {"exit", "exit_group"}

\* The tracee is not to stop at the end of the call.  PTRACE_EVENT_EXEC comes
\* before: the trap is gone with the old program.
noExitStop ==
  /\ thrown = "no"
  /\ place = "inside"
  /\ ~callPostHook \/ ends
  /\ place' = IF ends THEN "ended" ELSE "over"
  /\ CPUIDTrapSet' = (CPUIDTrapSet /\ nr # "execve")
  /\ UNCHANGED <<options, asked, nr, hooked, traced, callPostHook, onPreExitEvent,
                 noopSystemCall, signalInjected, syscallInjected, allow_trapCPUID, regSaver,
                 isNoop, args, originalArg3, thrown>>

\* The post-hook of an injected arch_prctl puts the registers back and has the
\* call of the tracee executed.
arch_prctlPost_NotReplayed ==
  /\ \/ CPUIDTrapSet' = TRUE /\ UNCHANGED allow_trapCPUID
     \/ allow_trapCPUID' = FALSE /\ UNCHANGED CPUIDTrapSet
  /\ syscallInjected' = FALSE
  /\ regSaver' = "none"
  /\ nr' = regSaver
  /\ place' = "over"
  /\ UNCHANGED <<noopSystemCall, signalInjected, args>>

arch_prctlPost ==
  /\ \/ CPUIDTrapSet' = TRUE /\ UNCHANGED allow_trapCPUID
     \/ allow_trapCPUID' = FALSE /\ UNCHANGED CPUIDTrapSet
  /\ syscallInjected' = FALSE
  /\ regSaver' = "none"
  /\ nr' = regSaver
  /\ place' = "seccomp"
  /\ UNCHANGED <<noopSystemCall, signalInjected, args>>

pausePost ==
  /\ signalInjected' = FALSE
  /\ place' = "over"
  /\ UNCHANGED <<nr, noopSystemCall, syscallInjected, CPUIDTrapSet, allow_trapCPUID, regSaver,
                 args>>

timePostNoop ==
  /\ noopSystemCall' = FALSE
  /\ place' = "over"
  /\ UNCHANGED <<nr, signalInjected, syscallInjected, CPUIDTrapSet, allow_trapCPUID, regSaver,
                 args>>

\* The injected rt_sigprocmask is followed by one that puts the old mask back.
rt_sigprocmaskPost ==
  /\ syscallInjected' = FALSE
  /\ place' = IF syscallInjected THEN "seccomp" ELSE "over"
  /\ UNCHANGED <<nr, noopSystemCall, signalInjected, CPUIDTrapSet, allow_trapCPUID, regSaver,
                 args>>

utimensatPost ==
  /\ args' = [args EXCEPT ![3] = originalArg3]
  /\ place' = "over"
  /\ UNCHANGED <<nr, noopSystemCall, signalInjected, syscallInjected, CPUIDTrapSet,
                 allow_trapCPUID, regSaver>>

otherPost ==
  /\ \/ place' = "over"
     \/ nr \in replaying /\ place' = "seccomp"
  /\ UNCHANGED <<nr, noopSystemCall, signalInjected, syscallInjected, CPUIDTrapSet,
                 allow_trapCPUID, regSaver, args>>

\* The post-hook is that of the number in the registers.
runPostHook ==
  CASE nr = "arch_prctl" -> arch_prctlPost
    [] nr = "pause" -> pausePost
    [] nr = "time" -> timePostNoop
    [] nr = "rt_sigprocmask" -> rt_sigprocmaskPost
    [] nr = "utimensat" -> utimensatPost
    [] OTHER -> otherPost

failure ==
  CASE nr \notin callPostHookCases -> "Missing case"
    [] nr \in neverCalled \/ (nr = "arch_prctl" /\ (~syscallInjected \/ CPUIDTrapSet)) ->
         "should never be called"
    [] OTHER -> "no"

handlePostSystemCall ==
  /\ thrown = "no"
  /\ place = "inside" /\ callPostHook /\ ~onPreExitEvent /\ ~ends
  /\ thrown' = failure
  /\ IF failure = "no"
       THEN /\ runPostHook
            /\ isNoop' = (isNoop /\ ~(Hooks /\ nr # "arch_prctl" /\ ~syscallInjected'))
       ELSE UNCHANGED <<place, nr, flags, args>>
  /\ callPostHook' = FALSE
  /\ UNCHANGED <<options, asked, hooked, traced, onPreExitEvent, originalArg3>>

\* Back in the program, which forgets about the call.
returns ==
  /\ place = "over" /\ thrown = "no"
  /\ place' = "user"
  /\ asked' = "none" /\ nr' = "none" /\ hooked' = {} /\ traced' = FALSE /\ originalArg3' = "old"
  /\ UNCHANGED <<options, callPostHook, onPreExitEvent, flags, args, thrown>>

Init ==
  /\ debugLevel4 \in BOOLEAN /\ uids \in BOOLEAN
  /\ place = "user" /\ asked = "none" /\ nr = "none" /\ hooked = {} /\ traced = FALSE
  /\ callPostHook = FALSE /\ onPreExitEvent = FALSE
  /\ noopSystemCall = FALSE /\ signalInjected = FALSE /\ syscallInjected = FALSE
  /\ CPUIDTrapSet = FALSE /\ allow_trapCPUID = TRUE /\ regSaver = "none" /\ isNoop = FALSE
  /\ args = Own /\ originalArg3 = "old"
  /\ thrown = "no"

Next ==
  \/ \E c \in Calls : untraced(c) \/ stops(c)
  \/ handleSeccomp \/ entryStop \/ noExitStop \/ handlePostSystemCall \/ returns

Spec == Init /\ [][Next]_vars

----------------------------------------------------------------------------
(* Properties. *)

\* No stop is without its hook: every call that the filter stops has a case in
\* callPreHook, every number that a call has at its end one in callPostHook, and
\* no post-hook runs that must not.
HooksComplete == thrown \notin {"Missing case", "should never be called"}

\* A note for a post-hook is used up by the time the tracee goes on: none is left
\* for a later call, which would return 0 or be taken for an injected one.
NotesUsedUp ==
  place = "user" => ~noopSystemCall /\ ~signalInjected /\ ~syscallInjected /\ regSaver = "none"

\* A call whose hooks do more than to write to the log stops at every debug level:
\* running with a log does not change what a program sees.
NothingSlipsBy ==
  place = "over" /\ ~traced => asked \notin callPreHookCases \ (logging \union convertedUids \union {"mmap"})

\* The tracee's own call is carried out although another was injected before it.
OwnCallCarriedOut == place = "over" /\ traced => asked \in hooked

\* After a call the tracee finds its arguments as it left them.
ArgumentsRestored == place = "user" => args = Own

=============================================================================
