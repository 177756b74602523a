------------------------------ MODULE Lifecycle ------------------------------
(***************************************************************************)
(* The RateEngine program from main to exit: configuration, modules, the   *)
(* daemon with its pid file, the engines of the services, the manager      *)
(* loop, signals, and the clean-up at label end.  Several invocations run  *)
(* beside each other and share only the pid file and signals.              *)
(*                                                                         *)
(* A process stands for its pid, and pids are not reused; fork is the      *)
(* change of the parent into the child.  An inode of the pid file is named *)
(* by the process that created it.                                         *)
(***************************************************************************)
EXTENDS Integers, FiniteSets

CONSTANTS
  Procs,
  Options,      \* [Procs -> SUBSET Commands]: how a process may be called
  Loads,        \* the sets of modules a configuration may load
  MaxKills,     \* processes lost to a crash or to SIGKILL
  NULL

Services == {"cc", "cdrm", "rt"}

\* What the options of a run ask for: --bg, --stop, --test, and in the
\* foreground --get, --rating, --ccserver.  A daemon starts all services; an
\* instance may leave some out, as if their engines had ended in their set-up.
Commands == [mode : {"bg", "stop", "test", "fg"}, services : SUBSET Services]

ASSUME LifecycleAssumption ==
  /\ IsFiniteSet(Procs) /\ NULL \notin Procs /\ MaxKills \in Nat
  /\ Options \in [Procs -> SUBSET Commands] /\ Loads \subseteq SUBSET Services

VARIABLES
  cmd,      \* what each process was called with
  link,     \* the inode the pid file's name stands for, or NULL
  text,     \* the pid in each inode, or NULL
  lock,     \* the process that holds the lock of each inode, or NULL
  pc, hpc,  \* where main is, and where the signal handler is
  fd,       \* pidFilehandle: the inode, or NULL
  mcfg,     \* the configuration is in memory
  mods,     \* services whose module is mapped into the process
  todo,     \* services re7_starter has still to look at
  bg,       \* opt_cli_mem.daemon_flag
  flag,     \* loop_flag = 't'
  thr,      \* the engine thread of a service
  failed,   \* re7_starter or an engine's initialisation failed
  kills

Mode(p) == cmd[p].mode

file == <<cmd, link, text, lock>>
vars == <<file, pc, hpc, fd, mcfg, mods, todo, bg, flag, thr, failed, kills>>

MainPc == {"new", "choose", "guard", "open", "lock", "write", "start", "join",
           "manager", "end", "unload", "left", "gone"}
HandlerPc == {"none", "flag", "close", "remove", "exit"}
ThreadPc == {"none", "init", "open", "run", "loop", "flagged", "table_freed", "ended"}

TypeOK ==
  /\ \A p \in Procs : cmd[p] \in Options[p]
  /\ link \in Procs \cup {NULL}
  /\ text \in [Procs -> Procs \cup {NULL}] /\ lock \in [Procs -> Procs \cup {NULL}]
  /\ pc \in [Procs -> MainPc] /\ hpc \in [Procs -> HandlerPc]
  /\ fd \in [Procs -> Procs \cup {NULL}]
  /\ mods \in [Procs -> SUBSET Services] /\ todo \in [Procs -> SUBSET Services]
  /\ {mcfg, bg, flag, failed} \subseteq [Procs -> BOOLEAN]
  /\ thr \in [Procs -> [Services -> ThreadPc]]
  /\ kills \in 0 .. MaxKills

Init ==
  /\ cmd \in [Procs -> Commands] /\ \A p \in Procs : cmd[p] \in Options[p]
  /\ link = NULL
  /\ text = [p \in Procs |-> NULL] /\ lock = [p \in Procs |-> NULL]
  /\ pc = [p \in Procs |-> "new"] /\ hpc = [p \in Procs |-> "none"]
  /\ fd = [p \in Procs |-> NULL]
  /\ mcfg = [p \in Procs |-> FALSE]
  /\ mods = [p \in Procs |-> {}]
  /\ todo = [p \in Procs |-> cmd[p].services]
  /\ bg = [p \in Procs |-> Mode(p) = "bg"]
  /\ flag = [p \in Procs |-> TRUE]
  /\ thr = [p \in Procs |-> [s \in Services |-> "none"]]
  /\ failed = [p \in Procs |-> FALSE]
  /\ kills = 0

Live(p) == pc[p] \notin {"new", "gone"}
Threads(p) == {s \in Services : thr[p][s] \notin {"none", "ended"}}
At(p, place) == pc[p] = place
Goto(p, place) == pc' = [pc EXCEPT ![p] = place]
SetThread(p, s, place) == thr' = [thr EXCEPT ![p][s] = place]

\* The kernel's part in the end of a process: no thread and no memory is
\* left, and its file descriptor and its lock go with it.
Gone(p) ==
  /\ Goto(p, "gone")
  /\ hpc' = [hpc EXCEPT ![p] = "none"]
  /\ thr' = [thr EXCEPT ![p] = [s \in Services |-> "ended"]]
  /\ fd' = [fd EXCEPT ![p] = NULL]
  /\ lock' = [i \in Procs |-> IF lock[i] = p THEN NULL ELSE lock[i]]
  /\ mods' = [mods EXCEPT ![p] = {}] /\ todo' = [todo EXCEPT ![p] = {}]
  /\ mcfg' = [mcfg EXCEPT ![p] = FALSE] /\ bg' = [bg EXCEPT ![p] = FALSE]
  /\ flag' = [flag EXCEPT ![p] = FALSE] /\ failed' = [failed EXCEPT ![p] = FALSE]

proc == <<hpc, fd, mcfg, mods, todo, bg, flag, thr, failed>>

------------------------------------------------------------------------------
(* main up to the services.                                                *)

\* mod_load_modules: a module that cannot be opened is skipped; a missing
\* dependency or a failed init is logged and the module is kept.
LoadModules(p) ==
  \E found \in Loads :
    /\ mods' = [mods EXCEPT ![p] = found]
    /\ Goto(p, IF found = {} THEN "end" ELSE "choose")

\* The process reads its configuration (main_cfg_main), opens its log
\* (init_log_params) and loads the modules; all of it is its own affair.
Setup(p) ==
  /\ At(p, "new")
  /\ \/ Goto(p, "end") /\ UNCHANGED <<mcfg, mods>>
     \/ Goto(p, "end") /\ mcfg' = [mcfg EXCEPT ![p] = TRUE] /\ UNCHANGED mods
     \/ LoadModules(p) /\ mcfg' = [mcfg EXCEPT ![p] = TRUE]
  /\ UNCHANGED <<file, hpc, fd, todo, bg, flag, thr, failed, kills>>

\* stop_daemon: SIGTERM to the process the pid file names.
StopDaemon(p) ==
  /\ At(p, "choose") /\ Mode(p) = "stop"
  /\ hpc' = LET q == IF link = NULL THEN NULL ELSE text[link]
            IN  [r \in Procs |-> IF r = q /\ Live(r) /\ hpc[r] = "none" THEN "flag" ELSE hpc[r]]
  /\ Goto(p, "end")
  /\ UNCHANGED <<file, fd, mcfg, mods, todo, bg, flag, thr, failed, kills>>

\* --test goes to the clean-up, a foreground run to its services.
Choose(p) ==
  /\ At(p, "choose") /\ Mode(p) # "stop"
  /\ Goto(p, CASE Mode(p) = "test" -> "end"
               [] Mode(p) = "bg" -> "guard"
               [] Mode(p) = "fg" -> IF todo[p] = {} THEN "end" ELSE "start")
  /\ UNCHANGED <<file, hpc, fd, mcfg, mods, todo, bg, flag, thr, failed, kills>>

\* daemonize, the single-instance guard: exit when the file names a live process.
Guard(p) ==
  /\ At(p, "guard")
  /\ IF link # NULL /\ text[link] # NULL /\ Live(text[link])
     THEN Gone(p) ELSE Goto(p, "open") /\ UNCHANGED <<proc, lock>>
  /\ UNCHANGED <<cmd, link, text, kills>>

\* The child opens the pid file, or creates it.
OpenPidFile(p) ==
  /\ At(p, "open")
  /\ link' = (IF link = NULL THEN p ELSE link)
  /\ fd' = [fd EXCEPT ![p] = link']
  /\ Goto(p, "lock")
  /\ UNCHANGED <<cmd, text, lock, hpc, mcfg, mods, todo, bg, flag, thr, failed, kills>>

LockedIgnored(p) ==
  /\ Goto(p, "write") /\ lock' = [lock EXCEPT ![fd[p]] = p]
  /\ UNCHANGED proc

\* lockf(F_TLOCK): the second comer exits.
Locked(p) ==
  IF lock[fd[p]] = NULL
  THEN /\ Goto(p, "write") /\ lock' = [lock EXCEPT ![fd[p]] = p]
       /\ UNCHANGED proc
  ELSE Gone(p)

LockPidFile(p) ==
  /\ At(p, "lock")
  /\ Locked(p)
  /\ UNCHANGED <<cmd, link, text, kills>>

WritePidFile(p) ==
  /\ At(p, "write")
  /\ text' = [text EXCEPT ![fd[p]] = p]
  /\ Goto(p, "start")
  /\ UNCHANGED <<cmd, link, lock, hpc, fd, mcfg, mods, todo, bg, flag, thr, failed, kills>>

------------------------------------------------------------------------------
(* re7_starter, re7_manager and the label end.                             *)

JoinsNever(p) == FALSE

\* A foreground run joins each engine before it starts the next.
Joins(p) == ~bg[p]

\* The module is looked up and its engine gets a thread; without the module
\* re7_starter gives up, with the engines it has started running on.
StartService(p, s) ==
  /\ At(p, "start")
  /\ \/ /\ s \in mods[p]
        /\ SetThread(p, s, "init")
        /\ todo' = [todo EXCEPT ![p] = @ \ {s}]
        /\ Goto(p, IF Joins(p) THEN "join" ELSE "start")
        /\ UNCHANGED failed
     \/ /\ s \notin mods[p]
        /\ Goto(p, "end")
        /\ failed' = [failed EXCEPT ![p] = TRUE]
        /\ UNCHANGED <<todo, thr>>
  /\ UNCHANGED <<file, hpc, fd, mcfg, mods, bg, flag, kills>>

CcServerAction(p) == "cc" \in todo[p] /\ StartService(p, "cc")
GetCdrs(p) == "cc" \notin todo[p] /\ "cdrm" \in todo[p] /\ StartService(p, "cdrm")
RatingAction(p) == todo[p] = {"rt"} /\ StartService(p, "rt")

Started(p) ==
  /\ At(p, "start") /\ todo[p] = {}
  /\ Goto(p, "manager")
  /\ UNCHANGED <<file, hpc, fd, mcfg, mods, todo, bg, flag, thr, failed, kills>>

Starter(p) == CcServerAction(p) \/ GetCdrs(p) \/ RatingAction(p) \/ Started(p)

\* pthread_join: the main thread of the call control server ends when it has
\* started the janitor and the interfaces, the mediator's when its profiles run
\* or are done, the rating engine's when it is done.
Join(p) ==
  /\ At(p, "join")
  /\ thr[p].cc # "init" /\ thr[p].rt \in {"none", "ended"}
  /\ thr[p].cdrm \in {"none", "loop", "ended"}
  /\ Goto(p, "start")
  /\ UNCHANGED <<file, hpc, fd, mcfg, mods, todo, bg, flag, thr, failed, kills>>

\* The log file is looked at, and the loop left when loop_flag is no more 't'.
Manager(p) ==
  /\ At(p, "manager") /\ ~flag[p]
  /\ Goto(p, "end")
  /\ UNCHANGED <<file, hpc, fd, mcfg, mods, todo, bg, flag, thr, failed, kills>>

\* The pid file is removed by its name, whoever's it is, and mcfg is freed.
End(p) ==
  /\ At(p, "end")
  /\ link' = (IF mcfg[p] THEN NULL ELSE link)
  /\ mcfg' = [mcfg EXCEPT ![p] = FALSE]
  /\ Goto(p, "unload")
  /\ UNCHANGED <<cmd, text, lock, hpc, fd, mods, todo, bg, flag, thr, failed, kills>>

\* mod_destroy_modules and pthread_exit of the main thread.
Unload(p) ==
  /\ At(p, "unload")
  /\ mods' = [mods EXCEPT ![p] = {}]
  /\ Goto(p, "left")
  /\ UNCHANGED <<file, hpc, fd, mcfg, todo, bg, flag, thr, failed, kills>>

\* The process ends with its last thread; one that is left runs in code that
\* is no more mapped and takes the process with it.
LastThread(p) ==
  /\ At(p, "left")
  /\ Gone(p)
  /\ UNCHANGED <<cmd, link, text, kills>>

------------------------------------------------------------------------------
(* The engine threads.                                                     *)

\* An engine's set-up ends its thread, or it runs.
SetUp(p, s, next) ==
  /\ thr[p][s] = "init" /\ s \in mods[p]
  /\ SetThread(p, s, next)
  /\ UNCHANGED <<file, pc, hpc, fd, mcfg, mods, todo, kills>>
SetUpFails(p, s) ==
  /\ SetUp(p, s, "ended")
  /\ failed' = [failed EXCEPT ![p] = TRUE]
  /\ UNCHANGED <<bg, flag>>

\* cc_server_main: the table, the janitor and the interfaces; no connection
\* of the janitor, no server.
CcServerMain(p) ==
  \/ SetUpFails(p, "cc")
  \/ SetUp(p, "cc", "open") /\ UNCHANGED <<bg, flag, failed>>

\* The mediator reads its profiles, or none; with an active one the threads of
\* the profiles stay and the run becomes one that stays.
MediatorEngine(p) ==
  \/ SetUp(p, "cdrm", "run") /\ UNCHANGED <<bg, flag, failed>>
  \/ /\ SetUp(p, "cdrm", "loop")
     /\ bg' = [bg EXCEPT ![p] = TRUE] /\ flag' = [flag EXCEPT ![p] = TRUE]
     /\ UNCHANGED failed

\* RateEngine: an active engine never ends, one that is not active has nothing
\* to do in a daemon (mcfg->daemon_flag, which the mediator does not change).
RateEngine(p) ==
  \/ SetUpFails(p, "rt")
  \/ SetUp(p, "rt", "loop") /\ UNCHANGED <<bg, flag, failed>>
  \/ SetUp(p, "rt", IF Mode(p) = "bg" THEN "ended" ELSE "run") /\ UNCHANGED <<bg, flag, failed>>

EngineInit(p) == CcServerMain(p) \/ MediatorEngine(p) \/ RateEngine(p)

\* The thread of an interface opens its socket and serves.  When its codec
\* cannot be bound it closes a net_t that was never set, which may end all.
InterfaceThread(p) ==
  /\ thr[p].cc = "open" /\ "cc" \in mods[p]
  /\ \/ /\ SetThread(p, "cc", "run")
        /\ UNCHANGED <<lock, pc, kills, hpc, fd, mcfg, mods, todo, bg, flag, failed>>
     \/ kills < MaxKills /\ kills' = kills + 1 /\ Gone(p)
  /\ UNCHANGED <<cmd, link, text>>

EngineDoneQuietly(p, s) ==
  /\ thr[p][s] = "run" /\ s \in mods[p] /\ s # "cc"
  /\ SetThread(p, s, "flagged")
  /\ UNCHANGED <<file, pc, hpc, fd, mcfg, mods, todo, bg, flag, failed, kills>>

\* An engine that is not active does its work once and stops the manager loop,
\* the mediator only when no daemon was asked for; an active one never looks
\* at loop_flag.
EngineDone(p, s) ==
  /\ thr[p][s] = "run" /\ s \in mods[p] /\ s # "cc"
  /\ SetThread(p, s, "flagged")
  /\ flag' = [flag EXCEPT ![p] = @ /\ s = "cdrm" /\ bg[p]]
  /\ UNCHANGED <<file, pc, hpc, fd, mcfg, mods, todo, bg, failed, kills>>

\* rt_free, mcdr_cfg_free and the end of the thread.
EngineFree(p, s) ==
  /\ thr[p][s] = "flagged" /\ s \in mods[p]
  /\ SetThread(p, s, "ended")
  /\ UNCHANGED <<file, pc, hpc, fd, mcfg, mods, todo, bg, flag, failed, kills>>

\* The janitor leaves its loop, destroys the mutex and frees the call table;
\* the interfaces serve on.
JanitorStops(p) ==
  /\ thr[p].cc \in {"open", "run"} /\ "cc" \in mods[p] /\ ~flag[p]
  /\ SetThread(p, "cc", "table_freed")
  /\ UNCHANGED <<file, pc, hpc, fd, mcfg, mods, todo, bg, flag, failed, kills>>

------------------------------------------------------------------------------
(* Signals.                                                                *)

HandlerUnhandled(p) ==
  /\ hpc[p] = "flag"
  /\ hpc' = [hpc EXCEPT ![p] = "none"]
  /\ UNCHANGED <<file, pc, fd, mcfg, mods, todo, bg, flag, thr, failed, kills>>

\* signal_handler runs in some thread of the daemon, beside the others:
\* loop_flag, close, remove and exit, one after the other.
HandlerFlag(p) ==
  /\ hpc[p] = "flag"
  /\ flag' = [flag EXCEPT ![p] = FALSE]
  /\ hpc' = [hpc EXCEPT ![p] = "close"]
  /\ UNCHANGED <<file, pc, fd, mcfg, mods, todo, bg, thr, failed, kills>>

HandlerClose(p) ==
  /\ hpc[p] = "close"
  /\ lock' = [i \in Procs |-> IF i = fd[p] /\ lock[i] = p THEN NULL ELSE lock[i]]
  /\ fd' = [fd EXCEPT ![p] = NULL]
  /\ hpc' = [hpc EXCEPT ![p] = "remove"]
  /\ UNCHANGED <<cmd, link, text, pc, mcfg, mods, todo, bg, flag, thr, failed, kills>>

HandlerRemove(p) ==
  /\ hpc[p] = "remove"
  /\ link' = NULL
  /\ hpc' = [hpc EXCEPT ![p] = "exit"]
  /\ UNCHANGED <<cmd, text, lock, pc, fd, mcfg, mods, todo, bg, flag, thr, failed, kills>>

HandlerExit(p) ==
  /\ hpc[p] = "exit"
  /\ Gone(p)
  /\ UNCHANGED <<cmd, link, text, kills>>

\* A crash, SIGKILL, or SIGTERM to a run that has no handler: nothing is removed.
Kill(p) ==
  /\ Live(p) /\ kills < MaxKills
  /\ kills' = kills + 1
  /\ Gone(p)
  /\ UNCHANGED <<cmd, link, text>>

------------------------------------------------------------------------------
Main(p) ==
  \/ Setup(p) \/ StopDaemon(p) \/ Choose(p)
  \/ Guard(p) \/ OpenPidFile(p) \/ LockPidFile(p) \/ WritePidFile(p)
  \/ Starter(p) \/ Join(p) \/ Manager(p) \/ End(p) \/ Unload(p) \/ LastThread(p)
Engine(p) ==
  \/ EngineInit(p) \/ InterfaceThread(p) \/ JanitorStops(p)
  \/ \E s \in Services : EngineDone(p, s) \/ EngineFree(p, s)
Handler(p) == HandlerFlag(p) \/ HandlerClose(p) \/ HandlerRemove(p) \/ HandlerExit(p)

Next ==
  \E p \in Procs :
    Main(p) \/ Handler(p) \/ Engine(p) \/ Kill(p)

Spec == Init /\ [][Next]_vars

\* The processes that were started run on: as long as one of their threads
\* has something to do, one of them does it.  Nobody has to start a process
\* or to kill one.
Process(p) == Main(p) \/ Handler(p) \/ Engine(p)
FairSpec == Spec /\ WF_vars(\E p \in Procs : pc[p] # "new" /\ Process(p))

------------------------------------------------------------------------------
(* Properties.                                                             *)

\* A daemon that has written its pid and has not begun to stop.
Running(p) == Mode(p) = "bg" /\ pc[p] \in {"start", "manager"} /\ hpc[p] = "none"

\* While the pid file a running daemon locked is still there under its name,
\* it names that daemon: the guard, --stop and the service manager find the
\* right process, whatever invocations come and go, in whatever order they
\* open, lock and write the file (daemon.c, daemonize).
FileIsDaemons ==
  \A p \in Procs : Running(p) /\ fd[p] = link => text[link] = p

\* A daemon that gets SIGTERM is gone in the end, although the rating engine
\* and the interfaces never look at loop_flag; and unless something crashed,
\* no pid file names it then (daemon.c, signal_handler, daemonShutdown).
Daemons == {p \in Procs : \E c \in Options[p] : c.mode = "bg"}
Names(p) == link # NULL /\ text[link] = p
StopEffective ==
  \A p \in Daemons : hpc[p] = "flag" ~> At(p, "gone") /\ (Names(p) => kills > 0)

\* A foreground --get or --rating comes to its end once its engines have
\* been set up, unless one of them is active: the last of them stops the
\* manager loop (rating.c RateEngine, cdr_mediator.c CDRMediatorEngine).
OneShot(c) == c.mode = "fg" /\ "cc" \notin c.services
OneShots == {p \in Procs : \E c \in Options[p] : OneShot(c)}
ForegroundEnds ==
  \A p \in OneShots :
    OneShot(cmd[p]) /\ At(p, "start") ~> At(p, "gone") \/ failed[p] \/ \E s \in Services : thr[p][s] = "loop"

\* A foreground --get or --rating unmaps its modules only when none of its
\* engines runs any more, unless an active profile made the run stay
\* (re7_manager.c, mod.c).
UnmappedUnused ==
  \A p \in OneShots : OneShot(cmd[p]) /\ At(p, "left") => Threads(p) = {} \/ bg[p]

\* "Single-instance guard: ... refuse to start a second instance" (daemon.c):
\* no two daemons run at once.  It does not hold: every run that reaches the
\* label end, and the handler after it gave the lock away, removes whatever
\* pid file is there.
SingleInstance ==
  \A p, q \in Procs : Running(p) /\ Running(q) => p = q
=============================================================================
