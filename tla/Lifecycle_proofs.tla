-------------------------- MODULE Lifecycle_proofs --------------------------
(***************************************************************************)
(* What holds of any number of invocations of the program, called in any   *)
(* way and killed at any point: the pid file a running daemon has locked   *)
(* names that daemon, and a foreground run unmaps no module an engine      *)
(* still needs.                                                            *)
(***************************************************************************)
EXTENDS Lifecycle, TLAPS

------------------------------------------------------------------------------
(* Types *)

\* What a pid file or a reader of it may hold.
PidOrNull == Procs \cup {NULL}

\* The types that the steps of the invocations keep.
Types ==
  /\ cmd \in [Procs -> Commands] /\ \A p \in Procs : cmd[p] \in Options[p]
  /\ link \in PidOrNull
  /\ text \in [Procs -> PidOrNull] /\ lock \in [Procs -> PidOrNull] /\ fd \in [Procs -> PidOrNull]
  /\ pc \in [Procs -> MainPc] /\ hpc \in [Procs -> HandlerPc]
  /\ mods \in [Procs -> SUBSET Services] /\ todo \in [Procs -> SUBSET Services]
  /\ mcfg \in [Procs -> BOOLEAN] /\ bg \in [Procs -> BOOLEAN]
  /\ flag \in [Procs -> BOOLEAN] /\ failed \in [Procs -> BOOLEAN]
  /\ thr \in [Procs -> [Services -> ThreadPc]]
  /\ kills \in 0 .. MaxKills

\* The ways a process may be called are fixed.
LEMMA CmdStays == [Next]_vars => UNCHANGED cmd
BY DEF Next, Main, Handler, Engine, Setup, StopDaemon, Choose, Guard, OpenPidFile, LockPidFile,
   WritePidFile, Starter, CcServerAction, GetCdrs, RatingAction, StartService, Started, Join,
   Manager, End, Unload, LastThread, EngineInit, CcServerMain, MediatorEngine, RateEngine,
   SetUpFails, SetUp, InterfaceThread, JanitorStops, EngineDone, EngineFree, HandlerFlag,
   HandlerClose, HandlerRemove, HandlerExit, Kill, file, vars

\* main goes to another place.
LEMMA GotoTypes ==
  ASSUME Types, NEW p \in Procs, NEW q \in MainPc, Goto(p, q)
  PROVE pc' \in [Procs -> MainPc] /\ pc'[p] = q /\ \A r \in Procs \ {p} : pc'[r] = pc[r]
BY DEF Types, Goto

\* A thread goes to another place.
LEMMA ThreadTypes ==
  ASSUME Types, NEW p \in Procs, NEW s \in Services, NEW q \in ThreadPc, SetThread(p, s, q)
  PROVE /\ thr' \in [Procs -> [Services -> ThreadPc]]
        /\ thr'[p][s] = q /\ \A t \in Services \ {s} : thr'[p][t] = thr[p][t]
        /\ \A r \in Procs \ {p} : thr'[r] = thr[r]
<1> DEFINE g == [thr[p] EXCEPT ![s] = q]
<1>1. thr' = [thr EXCEPT ![p] = g] BY DEF SetThread
<1>2. g \in [Services -> ThreadPc] /\ g[s] = q /\ \A t \in Services \ {s} : g[t] = thr[p][t]
  BY DEF Types
<1> HIDE DEF g
<1> QED BY <1>1, <1>2 DEF Types

\* A process ends.
LEMMA GoneTypes ==
  ASSUME Types, NEW p \in Procs, Gone(p)
  PROVE /\ pc' \in [Procs -> MainPc] /\ hpc' \in [Procs -> HandlerPc]
        /\ thr' \in [Procs -> [Services -> ThreadPc]]
        /\ fd' \in [Procs -> PidOrNull] /\ lock' \in [Procs -> PidOrNull]
        /\ mods' \in [Procs -> SUBSET Services] /\ todo' \in [Procs -> SUBSET Services]
        /\ mcfg' \in [Procs -> BOOLEAN] /\ bg' \in [Procs -> BOOLEAN]
        /\ flag' \in [Procs -> BOOLEAN] /\ failed' \in [Procs -> BOOLEAN]
<1>1. pc' \in [Procs -> MainPc] /\ hpc' \in [Procs -> HandlerPc]
  BY DEF Types, Gone, Goto, MainPc, HandlerPc
<1>2. [s \in Services |-> "ended"] \in [Services -> ThreadPc] BY DEF ThreadPc
<1>3. thr' \in [Procs -> [Services -> ThreadPc]] BY <1>2 DEF Types, Gone
<1>4. fd' \in [Procs -> PidOrNull] /\ lock' \in [Procs -> PidOrNull] BY DEF Types, Gone, PidOrNull
<1>5. mods' \in [Procs -> SUBSET Services] /\ todo' \in [Procs -> SUBSET Services]
  BY DEF Types, Gone
<1>6. /\ mcfg' \in [Procs -> BOOLEAN] /\ bg' \in [Procs -> BOOLEAN]
      /\ flag' \in [Procs -> BOOLEAN] /\ failed' \in [Procs -> BOOLEAN]
  BY DEF Types, Gone
<1> QED BY <1>1, <1>3, <1>4, <1>5, <1>6

\* The types of a step of main.
LEMMA MainTypes == ASSUME Types, NEW p \in Procs, Main(p) PROVE Types'
<1>0. {"choose", "guard", "open", "lock", "write", "start", "join", "manager", "end", "unload", "left"}
        \subseteq MainPc
  BY DEF MainPc
<1>1. CASE Setup(p)
  <2>1. mods' \in [Procs -> SUBSET Services]
    <3>1. ASSUME NEW found \in Loads, mods' = [mods EXCEPT ![p] = found]
          PROVE mods' \in [Procs -> SUBSET Services]
      <4>1. found \in SUBSET Services BY LifecycleAssumption
      <4> QED BY <3>1, <4>1 DEF Types
    <3> QED BY <1>1, <3>1 DEF Types, Setup, LoadModules
  <2>2. mcfg' \in [Procs -> BOOLEAN] BY <1>1 DEF Types, Setup
  <2>3. PICK q \in {"choose", "end"} : Goto(p, q) BY <1>1 DEF Setup, LoadModules
  <2>4. pc' \in [Procs -> MainPc] BY <1>0, <2>3, GotoTypes
  <2> QED BY <1>1, <2>1, <2>2, <2>4 DEF Types, Setup, file
<1>2. CASE StopDaemon(p)
  <2>1. hpc' \in [Procs -> HandlerPc] BY <1>2 DEF Types, StopDaemon, HandlerPc
  <2>2. pc' \in [Procs -> MainPc] BY <1>0, <1>2, GotoTypes DEF StopDaemon
  <2> QED BY <1>2, <2>1, <2>2 DEF Types, StopDaemon, file
<1>3. CASE Choose(p)
  <2>1. Mode(p) \in {"test", "bg", "fg"} BY <1>3 DEF Choose, Mode, Types, Commands
  <2>2. PICK q \in MainPc : Goto(p, q) BY <1>0, <1>3, <2>1 DEF Choose
  <2>3. pc' \in [Procs -> MainPc] BY <2>2, GotoTypes
  <2> QED BY <1>3, <2>3 DEF Types, Choose, file
<1>4. CASE Guard(p)
  <2>1. CASE Gone(p) BY <1>4, <2>1, GoneTypes DEF Types, Guard
  <2>2. CASE Goto(p, "open") /\ UNCHANGED <<proc, lock>>
    <3>1. pc' \in [Procs -> MainPc] BY <1>0, <2>2, GotoTypes
    <3> QED BY <1>4, <2>2, <3>1 DEF Types, Guard, proc
  <2> QED BY <1>4, <2>1, <2>2 DEF Guard
<1>5. CASE OpenPidFile(p)
  <2>1. link' \in PidOrNull BY <1>5 DEF OpenPidFile, Types, PidOrNull
  <2>2. fd' \in [Procs -> PidOrNull] BY <1>5, <2>1 DEF OpenPidFile, Types
  <2>3. pc' \in [Procs -> MainPc] BY <1>0, <1>5, GotoTypes DEF OpenPidFile
  <2> QED BY <1>5, <2>1, <2>2, <2>3 DEF Types, OpenPidFile
<1>6. CASE LockPidFile(p)
  <2>1. CASE Gone(p) BY <1>6, <2>1, GoneTypes DEF Types, LockPidFile
  <2>2. CASE Goto(p, "write") /\ lock' = [lock EXCEPT ![fd[p]] = p] /\ UNCHANGED proc
    <3>1. pc' \in [Procs -> MainPc] BY <1>0, <2>2, GotoTypes
    <3>2. lock' \in [Procs -> PidOrNull] BY <2>2 DEF Types, PidOrNull
    <3> QED BY <1>6, <2>2, <3>1, <3>2 DEF Types, LockPidFile, proc
  <2> QED BY <1>6, <2>1, <2>2 DEF LockPidFile, Locked
<1>7. CASE WritePidFile(p)
  <2>1. text' \in [Procs -> PidOrNull] BY <1>7 DEF WritePidFile, Types, PidOrNull
  <2>2. pc' \in [Procs -> MainPc] BY <1>0, <1>7, GotoTypes DEF WritePidFile
  <2> QED BY <1>7, <2>1, <2>2 DEF Types, WritePidFile
<1>8. ASSUME NEW s \in Services, StartService(p, s) PROVE Types'
  <2>1. PICK q \in {"join", "start", "end"} : Goto(p, q) BY <1>8 DEF StartService
  <2>2. pc' \in [Procs -> MainPc] BY <1>0, <2>1, GotoTypes
  <2>3. "init" \in ThreadPc BY DEF ThreadPc
  <2>4. thr' \in [Procs -> [Services -> ThreadPc]]
    BY <1>8, <2>3, ThreadTypes DEF StartService, Types
  <2>5. todo' \in [Procs -> SUBSET Services] BY <1>8 DEF StartService, Types
  <2>6. failed' \in [Procs -> BOOLEAN] BY <1>8 DEF StartService, Types
  <2> QED BY <1>8, <2>2, <2>4, <2>5, <2>6 DEF Types, StartService, file
<1>9. CASE Starter(p)
  <2>1. "cc" \in Services /\ "cdrm" \in Services /\ "rt" \in Services BY DEF Services
  <2>2. CASE Started(p)
    <3>1. pc' \in [Procs -> MainPc] BY <1>0, <2>2, GotoTypes DEF Started
    <3> QED BY <2>2, <3>1 DEF Types, Started, file
  <2> QED BY <1>8, <1>9, <2>1, <2>2 DEF Starter, CcServerAction, GetCdrs, RatingAction
<1>10. CASE Join(p) \/ Manager(p)
  <2>1. pc' \in [Procs -> MainPc] BY <1>0, <1>10, GotoTypes DEF Join, Manager
  <2> QED BY <1>10, <2>1 DEF Types, Join, Manager, file
<1>11. CASE End(p)
  <2>1. pc' \in [Procs -> MainPc] BY <1>0, <1>11, GotoTypes DEF End
  <2>2. link' \in PidOrNull /\ mcfg' \in [Procs -> BOOLEAN] BY <1>11 DEF End, Types, PidOrNull
  <2> QED BY <1>11, <2>1, <2>2 DEF Types, End
<1>12. CASE Unload(p)
  <2>1. pc' \in [Procs -> MainPc] BY <1>0, <1>12, GotoTypes DEF Unload
  <2>2. mods' \in [Procs -> SUBSET Services] BY <1>12 DEF Unload, Types
  <2> QED BY <1>12, <2>1, <2>2 DEF Types, Unload, file
<1>13. CASE LastThread(p) BY <1>13, GoneTypes DEF Types, LastThread
<1> QED BY <1>1, <1>2, <1>3, <1>4, <1>5, <1>6, <1>7, <1>9, <1>10, <1>11, <1>12, <1>13 DEF Main

\* What a step of an engine thread does: its thread goes on and may set the
\* flags of its process, or the process ends.
EngineMoves(p) ==
  \E s \in Services, q \in ThreadPc :
    /\ SetThread(p, s, q) /\ s \in mods[p]
    /\ thr[p][s] \in {"init", "open", "run", "flagged"}
    /\ q = "loop" /\ s = "cdrm" => bg'[p]
    /\ bg' = bg \/ bg' = [bg EXCEPT ![p] = TRUE]
    /\ UNCHANGED <<cmd, link, text, lock, pc, hpc, fd, mcfg, mods, todo, kills>>

\* A step of an engine moves its thread, or ends the process.
LEMMA EngineSteps ==
  ASSUME Types, NEW p \in Procs, Engine(p)
  PROVE /\ EngineMoves(p) \/ (Gone(p) /\ UNCHANGED <<cmd, link, text>>)
        /\ flag' \in [Procs -> BOOLEAN] /\ failed' \in [Procs -> BOOLEAN] /\ kills' \in 0 .. MaxKills
<1>0. /\ "cc" \in Services /\ "cdrm" \in Services /\ "rt" \in Services
      /\ {"ended", "open", "run", "loop", "flagged", "table_freed"} \subseteq ThreadPc
      /\ kills \in 0 .. MaxKills /\ MaxKills \in Nat
  BY LifecycleAssumption DEF Services, ThreadPc, Types
<1>1. ASSUME NEW s \in Services, NEW q \in ThreadPc, SetUp(p, s, q),
             q = "loop" /\ s = "cdrm" => bg'[p],
             bg' = bg \/ bg' = [bg EXCEPT ![p] = TRUE]
      PROVE EngineMoves(p) /\ kills' \in 0 .. MaxKills
  BY <1>0, <1>1 DEF SetUp, EngineMoves, file
<1>2. ASSUME NEW s \in Services, SetUpFails(p, s)
      PROVE EngineMoves(p) /\ kills' \in 0 .. MaxKills
            /\ flag' \in [Procs -> BOOLEAN] /\ failed' \in [Procs -> BOOLEAN]
  BY <1>0, <1>1, <1>2 DEF SetUpFails, Types
<1>3. CASE CcServerMain(p)
  BY <1>0, <1>1, <1>2, <1>3 DEF CcServerMain, Types
<1>4. CASE MediatorEngine(p)
  <2>1. CASE SetUp(p, "cdrm", "run") /\ UNCHANGED <<bg, flag, failed>>
    BY <1>0, <1>1, <2>1 DEF Types
  <2>2. CASE /\ SetUp(p, "cdrm", "loop")
             /\ bg' = [bg EXCEPT ![p] = TRUE] /\ flag' = [flag EXCEPT ![p] = TRUE]
             /\ UNCHANGED failed
    <3>1. bg'[p] /\ flag' \in [Procs -> BOOLEAN] /\ failed' \in [Procs -> BOOLEAN]
      BY <2>2 DEF Types
    <3> QED BY <1>0, <1>1, <2>2, <3>1
  <2> QED BY <1>4, <2>1, <2>2 DEF MediatorEngine
<1>5. CASE RateEngine(p)
  <2>1. ASSUME NEW q \in {"loop", "ended", "run"}, SetUp(p, "rt", q), UNCHANGED <<bg, flag, failed>>
        PROVE EngineMoves(p) /\ kills' \in 0 .. MaxKills
              /\ flag' \in [Procs -> BOOLEAN] /\ failed' \in [Procs -> BOOLEAN]
    BY <1>0, <1>1, <2>1 DEF Types
  <2> QED BY <1>0, <1>2, <1>5, <2>1 DEF RateEngine
<1>6. CASE InterfaceThread(p)
  <2>1. CASE /\ SetThread(p, "cc", "run")
             /\ UNCHANGED <<lock, pc, kills, hpc, fd, mcfg, mods, todo, bg, flag, failed>>
    <3>1. EngineMoves(p) BY <1>0, <1>6, <2>1 DEF InterfaceThread, EngineMoves
    <3> QED BY <1>0, <2>1, <3>1 DEF Types
  <2>2. CASE kills < MaxKills /\ kills' = kills + 1 /\ Gone(p)
    <3>1. kills' \in 0 .. MaxKills BY <1>0, <2>2
    <3> QED BY <1>6, <2>2, <3>1, GoneTypes DEF InterfaceThread
  <2> QED BY <1>6, <2>1, <2>2 DEF InterfaceThread
<1>7. CASE JanitorStops(p)
  <2>1. EngineMoves(p) BY <1>0, <1>7 DEF JanitorStops, EngineMoves, file
  <2> QED BY <1>0, <1>7, <2>1 DEF JanitorStops, Types
<1>8. ASSUME NEW s \in Services, EngineDone(p, s) \/ EngineFree(p, s)
      PROVE EngineMoves(p) /\ kills' \in 0 .. MaxKills
            /\ flag' \in [Procs -> BOOLEAN] /\ failed' \in [Procs -> BOOLEAN]
  <2>1. EngineMoves(p) BY <1>0, <1>8 DEF EngineDone, EngineFree, EngineMoves, file
  <2>2. flag' \in [Procs -> BOOLEAN] BY <1>8 DEF EngineDone, EngineFree, Types
  <2>3. UNCHANGED <<failed, kills>> BY <1>8 DEF EngineDone, EngineFree
  <2> QED BY <1>0, <2>1, <2>2, <2>3 DEF Types
<1> QED BY <1>3, <1>4, <1>5, <1>6, <1>7, <1>8 DEF Engine, EngineInit

\* The types of a step of an engine.
LEMMA EngineTypes == ASSUME Types, NEW p \in Procs, Engine(p) PROVE Types'
<1>0. flag' \in [Procs -> BOOLEAN] /\ failed' \in [Procs -> BOOLEAN] /\ kills' \in 0 .. MaxKills
  BY EngineSteps
<1>1. CASE EngineMoves(p)
  <2>1. thr' \in [Procs -> [Services -> ThreadPc]] BY <1>1, ThreadTypes DEF EngineMoves
  <2>2. bg' \in [Procs -> BOOLEAN] BY <1>1 DEF EngineMoves, Types
  <2> QED BY <1>0, <1>1, <2>1, <2>2 DEF EngineMoves, Types
<1>2. CASE Gone(p) /\ UNCHANGED <<cmd, link, text>> BY <1>0, <1>2, GoneTypes DEF Types
<1> QED BY <1>1, <1>2, EngineSteps

\* The types of a step of the signal handler, and of a kill.
LEMMA HandlerTypes == ASSUME Types, NEW p \in Procs, Handler(p) \/ Kill(p) PROVE Types'
<1>1. CASE HandlerFlag(p)
  <2>1. hpc' \in [Procs -> HandlerPc] BY <1>1 DEF HandlerFlag, Types, HandlerPc
  <2>2. flag' \in [Procs -> BOOLEAN] BY <1>1 DEF HandlerFlag, Types
  <2> QED BY <1>1, <2>1, <2>2 DEF HandlerFlag, Types, file
<1>2. CASE HandlerClose(p)
  <2>1. hpc' \in [Procs -> HandlerPc] BY <1>2 DEF HandlerClose, Types, HandlerPc
  <2>2. fd' \in [Procs -> PidOrNull] /\ lock' \in [Procs -> PidOrNull]
    BY <1>2 DEF HandlerClose, Types, PidOrNull
  <2> QED BY <1>2, <2>1, <2>2 DEF HandlerClose, Types
<1>3. CASE HandlerRemove(p)
  <2>1. hpc' \in [Procs -> HandlerPc] BY <1>3 DEF HandlerRemove, Types, HandlerPc
  <2>2. link' \in PidOrNull BY <1>3 DEF HandlerRemove, PidOrNull
  <2> QED BY <1>3, <2>1, <2>2 DEF HandlerRemove, Types
<1>4. CASE HandlerExit(p) BY <1>4, GoneTypes DEF HandlerExit, Types
<1>5. CASE Kill(p)
  <2>1. kills' \in 0 .. MaxKills BY <1>5, LifecycleAssumption DEF Kill, Types
  <2> QED BY <1>5, <2>1, GoneTypes DEF Kill, Types
<1> QED BY <1>1, <1>2, <1>3, <1>4, <1>5 DEF Handler

\* Every step keeps the types.
LEMMA StepTypes == ASSUME Types, [Next]_vars PROVE Types'
<1>1. CASE UNCHANGED vars BY <1>1 DEF Types, vars, file
<1> QED BY <1>1, MainTypes, EngineTypes, HandlerTypes DEF Next

\* The types hold initially.
LEMMA InitTypes == Init => Types
<1> SUFFICES ASSUME Init PROVE Types OBVIOUS
<1>1. \A p \in Procs : cmd[p] \in Commands /\ cmd[p].services \in SUBSET Services
  BY DEF Init, Commands
<1>2. todo \in [Procs -> SUBSET Services] /\ mods \in [Procs -> SUBSET Services]
  BY <1>1 DEF Init
<1>3. pc \in [Procs -> MainPc] /\ hpc \in [Procs -> HandlerPc] BY DEF Init, MainPc, HandlerPc
<1>4. thr \in [Procs -> [Services -> ThreadPc]] BY DEF Init, ThreadPc
<1>5. kills \in 0 .. MaxKills BY LifecycleAssumption DEF Init
<1>6. /\ mcfg \in [Procs -> BOOLEAN] /\ bg \in [Procs -> BOOLEAN]
      /\ flag \in [Procs -> BOOLEAN] /\ failed \in [Procs -> BOOLEAN]
  BY DEF Init
<1> QED BY <1>2, <1>3, <1>4, <1>5, <1>6 DEF Init, Types, PidOrNull

\* The invocations, their engine threads and the pid file keep their types (main,
\* re7_manager.c, daemon.c).
THEOREM LifecycleTyped == Spec => []TypeOK
<1>1. Types => TypeOK BY DEF Types, TypeOK, PidOrNull
<1> QED BY <1>1, InitTypes, StepTypes, PTL DEF Spec
------------------------------------------------------------------------------
(* The pid file *)

\* The places of main after the pid was written, and in a daemon's work.
Written == {"start", "join", "manager", "end", "unload", "left", "gone"}
\* Where main has the engines running.
Working == {"start", "join", "manager"}

\* Only the holder of the lock of an inode writes it: a daemon at work whose
\* handler has not closed the file holds the lock and its pid is in the file.
\* A pid in a file, and a signal, is of a process that has been that far.
PidInv ==
  /\ \A p \in Procs : pc[p] \in {"lock", "write"} => fd[p] \in Procs
  /\ \A p \in Procs : pc[p] = "write" => lock[fd[p]] = p
  /\ \A p \in Procs :
       Mode(p) = "bg" /\ pc[p] \in Working /\ hpc[p] \in {"none", "flag", "close"} =>
         fd[p] \in Procs /\ lock[fd[p]] = p /\ text[fd[p]] = p
  /\ \A i, p \in Procs : text[i] = p => pc[p] \in Written
  /\ \A p \in Procs : hpc[p] # "none" => pc[p] \in Written

\* A step of main that has nothing to do with the pid file.
LEMMA PidQuiet ==
  ASSUME Types, PidInv, NEW p \in Procs, NEW q, UNCHANGED <<cmd, text, lock, fd, hpc>>,
         Goto(p, q), q \notin {"lock", "write"}, pc[p] \in Written => q \in Written,
         q \in Working => pc[p] \in Working \/ Mode(p) # "bg"
  PROVE PidInv'
<1>1. pc'[p] = q /\ \A r \in Procs \ {p} : pc'[r] = pc[r] BY DEF Goto, Types
<1>2. \A r \in Procs : Mode(r)' = Mode(r) BY DEF Mode
<1>3. \A r \in Procs : pc'[r] \in {"lock", "write"} => fd'[r] \in Procs BY <1>1 DEF PidInv
<1>4. \A r \in Procs : pc'[r] = "write" => lock'[fd'[r]] = r BY <1>1 DEF PidInv
<1>5. \A r \in Procs :
        Mode(r)' = "bg" /\ pc'[r] \in Working /\ hpc'[r] \in {"none", "flag", "close"} =>
          fd'[r] \in Procs /\ lock'[fd'[r]] = r /\ text'[fd'[r]] = r
  BY <1>1, <1>2 DEF PidInv
<1>6. \A j, r \in Procs : text'[j] = r => pc'[r] \in Written BY <1>1 DEF PidInv
<1>7. \A r \in Procs : hpc'[r] # "none" => pc'[r] \in Written BY <1>1 DEF PidInv
<1> QED BY <1>3, <1>4, <1>5, <1>6, <1>7 DEF PidInv

\* A process ends, and gives up no lock but its own.
LEMMA PidGone ==
  ASSUME Types, PidInv, NEW p \in Procs, Gone(p), UNCHANGED <<cmd, text>> PROVE PidInv'
<1>1. /\ pc'[p] = "gone" /\ hpc'[p] = "none"
      /\ \A r \in Procs \ {p} : pc'[r] = pc[r] /\ hpc'[r] = hpc[r] /\ fd'[r] = fd[r]
      /\ \A j \in Procs : lock[j] # p => lock'[j] = lock[j]
  BY DEF Gone, Goto, Types
<1>2. \A r \in Procs : Mode(r)' = Mode(r) BY DEF Mode
<1>3. \A r \in Procs : pc'[r] \in {"lock", "write"} => fd'[r] \in Procs BY <1>1 DEF PidInv
<1>4. \A r \in Procs : pc'[r] = "write" => lock'[fd'[r]] = r BY <1>1 DEF PidInv
<1>5. \A r \in Procs :
        Mode(r)' = "bg" /\ pc'[r] \in Working /\ hpc'[r] \in {"none", "flag", "close"} =>
          fd'[r] \in Procs /\ lock'[fd'[r]] = r /\ text'[fd'[r]] = r
  BY <1>1, <1>2 DEF PidInv, Working
<1>6. \A j, r \in Procs : text'[j] = r => pc'[r] \in Written BY <1>1 DEF PidInv, Written
<1>7. \A r \in Procs : hpc'[r] # "none" => pc'[r] \in Written BY <1>1 DEF PidInv
<1> QED BY <1>3, <1>4, <1>5, <1>6, <1>7 DEF PidInv

\* --stop signals a process that has written its pid.
LEMMA PidStop == ASSUME Types, PidInv, NEW p \in Procs, StopDaemon(p) PROVE PidInv'
<1>0. UNCHANGED <<cmd, link, text, lock, fd>> /\ Goto(p, "end") /\ pc[p] = "choose"
  BY DEF StopDaemon, file, At
<1>1. pc'[p] = "end" /\ \A r \in Procs \ {p} : pc'[r] = pc[r] BY <1>0 DEF Goto, Types
<1>2. \A r \in Procs : Mode(r)' = Mode(r) BY <1>0 DEF Mode
<1>3. \A r \in Procs : \/ hpc'[r] = hpc[r]
                       \/ hpc[r] = "none" /\ hpc'[r] = "flag" /\ \E j \in Procs : text[j] = r
  <2> DEFINE q == IF link = NULL THEN NULL ELSE text[link]
  <2>1. \A r \in Procs :
          hpc'[r] = IF r = q /\ Live(r) /\ hpc[r] = "none" THEN "flag" ELSE hpc[r]
    BY DEF StopDaemon
  <2>2. \A r \in Procs : r = q => \E j \in Procs : text[j] = r
    BY LifecycleAssumption DEF Types, PidOrNull
  <2> HIDE DEF q
  <2> QED BY <2>1, <2>2
<1>4. \A r \in Procs : hpc'[r] # "none" => pc'[r] \in Written
  BY <1>1, <1>3 DEF PidInv, Written
<1>5. \A r \in Procs : pc'[r] \in {"lock", "write"} => fd'[r] \in Procs BY <1>0, <1>1 DEF PidInv
<1>6. \A r \in Procs : pc'[r] = "write" => lock'[fd'[r]] = r BY <1>0, <1>1 DEF PidInv
<1>7. \A r \in Procs :
        Mode(r)' = "bg" /\ pc'[r] \in Working /\ hpc'[r] \in {"none", "flag", "close"} =>
          fd'[r] \in Procs /\ lock'[fd'[r]] = r /\ text'[fd'[r]] = r
  BY <1>0, <1>1, <1>2, <1>3 DEF PidInv, Working
<1>8. \A j, r \in Procs : text'[j] = r => pc'[r] \in Written BY <1>0, <1>1 DEF PidInv, Written
<1> QED BY <1>4, <1>5, <1>6, <1>7, <1>8 DEF PidInv

\* The file is opened; its inode may be anybody's.
LEMMA PidOpen == ASSUME Types, PidInv, NEW p \in Procs, OpenPidFile(p) PROVE PidInv'
<1>0. UNCHANGED <<cmd, text, lock, hpc>> /\ Goto(p, "lock") /\ pc[p] = "open"
  BY DEF OpenPidFile, At
<1>1. /\ pc'[p] = "lock" /\ fd'[p] \in Procs
      /\ \A r \in Procs \ {p} : pc'[r] = pc[r] /\ fd'[r] = fd[r]
  BY <1>0 DEF Goto, Types, OpenPidFile, PidOrNull
<1>2. \A r \in Procs : Mode(r)' = Mode(r) BY <1>0 DEF Mode
<1>3. \A r \in Procs : pc'[r] \in {"lock", "write"} => fd'[r] \in Procs BY <1>1 DEF PidInv
<1>4. \A r \in Procs : pc'[r] = "write" => lock'[fd'[r]] = r BY <1>0, <1>1 DEF PidInv
<1>5. \A r \in Procs :
        Mode(r)' = "bg" /\ pc'[r] \in Working /\ hpc'[r] \in {"none", "flag", "close"} =>
          fd'[r] \in Procs /\ lock'[fd'[r]] = r /\ text'[fd'[r]] = r
  BY <1>0, <1>1, <1>2 DEF PidInv, Working
<1>6. "open" \notin Written BY DEF Written
<1>7. \A j, r \in Procs : text'[j] = r => pc'[r] \in Written BY <1>0, <1>1, <1>6 DEF PidInv
<1>8. \A r \in Procs : hpc'[r] # "none" => pc'[r] \in Written BY <1>0, <1>1, <1>6 DEF PidInv
<1> QED BY <1>3, <1>4, <1>5, <1>7, <1>8 DEF PidInv

\* The lock is taken when it is free.
LEMMA PidLock ==
  ASSUME Types, PidInv, NEW p \in Procs, pc[p] = "lock", lock[fd[p]] = NULL, Goto(p, "write"),
         lock' = [lock EXCEPT ![fd[p]] = p], UNCHANGED <<cmd, text, hpc, fd>>
  PROVE PidInv'
<1>1. pc'[p] = "write" /\ fd[p] \in Procs /\ \A r \in Procs \ {p} : pc'[r] = pc[r]
  BY DEF Goto, Types, PidInv
<1>2. lock'[fd[p]] = p /\ \A j \in Procs : lock[j] \in Procs => lock'[j] = lock[j]
  BY <1>1, LifecycleAssumption DEF Types
<1>3. \A r \in Procs : Mode(r)' = Mode(r) BY DEF Mode
<1>4. \A r \in Procs : pc'[r] \in {"lock", "write"} => fd'[r] \in Procs BY <1>1 DEF PidInv
<1>5. \A r \in Procs : pc'[r] = "write" => lock'[fd'[r]] = r BY <1>1, <1>2 DEF PidInv
<1>6. \A r \in Procs :
        Mode(r)' = "bg" /\ pc'[r] \in Working /\ hpc'[r] \in {"none", "flag", "close"} =>
          fd'[r] \in Procs /\ lock'[fd'[r]] = r /\ text'[fd'[r]] = r
  BY <1>1, <1>2, <1>3 DEF PidInv, Working
<1>7. "lock" \notin Written BY DEF Written
<1>8. \A j, r \in Procs : text'[j] = r => pc'[r] \in Written BY <1>1, <1>7 DEF PidInv
<1>9. \A r \in Procs : hpc'[r] # "none" => pc'[r] \in Written BY <1>1, <1>7 DEF PidInv
<1> QED BY <1>4, <1>5, <1>6, <1>8, <1>9 DEF PidInv

\* The pid is written over what the inode held, under the lock.
LEMMA PidWrite == ASSUME Types, PidInv, NEW p \in Procs, WritePidFile(p) PROVE PidInv'
<1>0. UNCHANGED <<cmd, lock, hpc, fd>> /\ Goto(p, "start") /\ pc[p] = "write"
  BY DEF WritePidFile, At
<1>1. /\ pc'[p] = "start" /\ fd[p] \in Procs /\ lock[fd[p]] = p
      /\ \A r \in Procs \ {p} : pc'[r] = pc[r]
  BY <1>0 DEF Goto, Types, PidInv
<1>2. text'[fd[p]] = p /\ \A j \in Procs \ {fd[p]} : text'[j] = text[j]
  BY <1>1 DEF WritePidFile, Types
<1>3. \A r \in Procs : Mode(r)' = Mode(r) BY <1>0 DEF Mode
<1>4. \A r \in Procs : pc'[r] \in {"lock", "write"} => fd'[r] \in Procs BY <1>0, <1>1 DEF PidInv
<1>5. \A r \in Procs : pc'[r] = "write" => lock'[fd'[r]] = r BY <1>0, <1>1 DEF PidInv
<1>6. \A r \in Procs :
        Mode(r)' = "bg" /\ pc'[r] \in Working /\ hpc'[r] \in {"none", "flag", "close"} =>
          fd'[r] \in Procs /\ lock'[fd'[r]] = r /\ text'[fd'[r]] = r
  <2> SUFFICES ASSUME NEW r \in Procs, Mode(r) = "bg", pc'[r] \in Working,
                      hpc[r] \in {"none", "flag", "close"}
               PROVE fd[r] \in Procs /\ lock[fd[r]] = r /\ text'[fd[r]] = r
    BY <1>0, <1>3
  <2>1. CASE r = p BY <1>1, <1>2, <2>1
  <2>2. CASE r # p
    <3>1. fd[r] \in Procs /\ lock[fd[r]] = r /\ text[fd[r]] = r BY <1>1, <2>2 DEF PidInv
    <3>2. fd[r] # fd[p] BY <1>1, <2>2, <3>1
    <3> QED BY <1>2, <3>1, <3>2
  <2> QED BY <2>1, <2>2
<1>7. "start" \in Written BY DEF Written
<1>8. \A j, r \in Procs : text'[j] = r => pc'[r] \in Written BY <1>1, <1>2, <1>7 DEF PidInv
<1>9. \A r \in Procs : hpc'[r] # "none" => pc'[r] \in Written BY <1>0, <1>1, <1>7 DEF PidInv
<1> QED BY <1>4, <1>5, <1>6, <1>8, <1>9 DEF PidInv

\* The signal handler of a daemon, up to its exit.
LEMMA PidHandler ==
  ASSUME Types, PidInv, NEW p \in Procs, HandlerFlag(p) \/ HandlerClose(p) \/ HandlerRemove(p)
  PROVE PidInv'
<1>0. UNCHANGED <<cmd, text, pc>> /\ hpc[p] \in {"flag", "close", "remove"}
  BY DEF HandlerFlag, HandlerClose, HandlerRemove, file
<1>1. pc[p] \in Written BY <1>0 DEF PidInv
<1>2. "lock" \notin Written /\ "write" \notin Written BY DEF Written
<1>3. \A r \in Procs \ {p} : hpc'[r] = hpc[r] /\ fd'[r] = fd[r]
  BY DEF HandlerFlag, HandlerClose, HandlerRemove, file, Types
<1>4. \A j \in Procs : lock[j] # p => lock'[j] = lock[j]
  BY DEF HandlerFlag, HandlerClose, HandlerRemove, file, Types
<1>5. \/ hpc[p] = "flag" /\ hpc'[p] = "close" /\ UNCHANGED <<fd, lock>>
      \/ hpc'[p] \in {"remove", "exit"}
  BY DEF HandlerFlag, HandlerClose, HandlerRemove, file, Types
<1>6. \A r \in Procs : Mode(r)' = Mode(r) BY <1>0 DEF Mode
<1>7. \A r \in Procs : pc'[r] \in {"lock", "write"} => fd'[r] \in Procs
  BY <1>0, <1>1, <1>2, <1>3 DEF PidInv
<1>8. \A r \in Procs : pc'[r] = "write" => lock'[fd'[r]] = r
  BY <1>0, <1>1, <1>2, <1>3, <1>4 DEF PidInv
<1>9. \A r \in Procs :
        Mode(r)' = "bg" /\ pc'[r] \in Working /\ hpc'[r] \in {"none", "flag", "close"} =>
          fd'[r] \in Procs /\ lock'[fd'[r]] = r /\ text'[fd'[r]] = r
  BY <1>0, <1>3, <1>4, <1>5, <1>6 DEF PidInv
<1>10. \A j, r \in Procs : text'[j] = r => pc'[r] \in Written BY <1>0 DEF PidInv
<1>11. \A r \in Procs : hpc'[r] # "none" => pc'[r] \in Written BY <1>0, <1>1, <1>3 DEF PidInv
<1> QED BY <1>7, <1>8, <1>9, <1>10, <1>11 DEF PidInv

\* A step that leaves all of it alone.
LEMMA PidStill ==
  ASSUME PidInv, UNCHANGED <<cmd, text, lock, fd, hpc, pc>> PROVE PidInv'
<1>1. \A r \in Procs : Mode(r)' = Mode(r) BY DEF Mode
<1> QED BY <1>1 DEF PidInv

\* One case for each step of main, of the handler and of the engines.
LEMMA StepPid == ASSUME Types, PidInv, [Next]_vars PROVE PidInv'
<1>0. /\ Working \subseteq Written /\ {"end", "unload", "left"} \subseteq Written
      /\ {"lock", "write", "new", "choose", "guard", "open"} \cap Written = {}
      /\ {"start", "join", "manager"} = Working
      /\ {"end", "unload", "left", "lock", "write", "choose", "guard", "open"} \cap Working = {}
  BY DEF Written, Working
<1>1. ASSUME NEW p \in Procs, Main(p) PROVE PidInv'
  <2>1. CASE Setup(p)
    <3>1. PICK q \in {"choose", "end"} : Goto(p, q) BY <2>1 DEF Setup, LoadModules
    <3>2. UNCHANGED <<cmd, text, lock, fd, hpc>> /\ pc[p] = "new" BY <2>1 DEF Setup, file, At
    <3> QED BY <1>0, <3>1, <3>2, PidQuiet
  <2>2. CASE StopDaemon(p) BY <2>2, PidStop
  <2>3. CASE Choose(p)
    <3>1. Mode(p) \in {"test", "bg", "fg"} BY <2>3 DEF Choose, Mode, Types, Commands
    <3>2. PICK q \in {"end", "guard", "start"} : Goto(p, q) /\ (q = "start" => Mode(p) # "bg")
      BY <2>3, <3>1 DEF Choose
    <3>3. UNCHANGED <<cmd, text, lock, fd, hpc>> /\ pc[p] = "choose" BY <2>3 DEF Choose, file, At
    <3> QED BY <1>0, <3>2, <3>3, PidQuiet
  <2>4. CASE Guard(p)
    <3>1. CASE Gone(p) BY <2>4, <3>1, PidGone DEF Guard
    <3>2. CASE Goto(p, "open") /\ UNCHANGED <<proc, lock>>
      <4>1. UNCHANGED <<cmd, text, lock, fd, hpc>> /\ pc[p] = "guard"
        BY <2>4, <3>2 DEF Guard, proc, At
      <4> QED BY <1>0, <3>2, <4>1, PidQuiet
    <3> QED BY <2>4, <3>1, <3>2 DEF Guard
  <2>5. CASE OpenPidFile(p) BY <2>5, PidOpen
  <2>6. CASE LockPidFile(p)
    <3>1. CASE Gone(p) BY <2>6, <3>1, PidGone DEF LockPidFile
    <3>2. CASE lock[fd[p]] = NULL /\ ~Gone(p)
      <4>1. /\ Goto(p, "write") /\ lock' = [lock EXCEPT ![fd[p]] = p]
            /\ UNCHANGED <<cmd, text, hpc, fd>> /\ pc[p] = "lock"
        BY <2>6, <3>2 DEF LockPidFile, Locked, proc, At
      <4> QED BY <3>2, <4>1, PidLock
    <3> QED BY <2>6, <3>1, <3>2 DEF LockPidFile, Locked
  <2>7. CASE WritePidFile(p) BY <2>7, PidWrite
  <2>8. CASE Starter(p)
    <3>1. PICK q \in {"join", "start", "end", "manager"} : Goto(p, q)
      BY <2>8 DEF Starter, CcServerAction, GetCdrs, RatingAction, StartService, Started
    <3>2. UNCHANGED <<cmd, text, lock, fd, hpc>> /\ pc[p] = "start"
      BY <2>8 DEF Starter, CcServerAction, GetCdrs, RatingAction, StartService, Started, file, At
    <3> QED BY <1>0, <3>1, <3>2, PidQuiet
  <2>9. CASE Join(p) \/ Manager(p) \/ End(p) \/ Unload(p)
    <3>1. PICK q \in {"start", "end", "unload", "left"} :
            Goto(p, q) /\ (q = "start" => pc[p] = "join")
      BY <2>9 DEF Join, Manager, End, Unload, At
    <3>2. UNCHANGED <<cmd, text, lock, fd, hpc>>
      BY <2>9 DEF Join, Manager, End, Unload, file
    <3> QED BY <1>0, <3>1, <3>2, PidQuiet
  <2>10. CASE LastThread(p) BY <2>10, PidGone DEF LastThread
  <2> QED BY <1>1, <2>1, <2>2, <2>3, <2>4, <2>5, <2>6, <2>7, <2>8, <2>9, <2>10 DEF Main
<1>2. ASSUME NEW p \in Procs, Handler(p) \/ Kill(p) PROVE PidInv'
  <2>1. CASE HandlerExit(p) \/ Kill(p) BY <2>1, PidGone DEF HandlerExit, Kill
  <2> QED BY <1>2, <2>1, PidHandler DEF Handler
<1>3. ASSUME NEW p \in Procs, Engine(p) PROVE PidInv'
  <2>1. CASE EngineMoves(p) BY <2>1, PidStill DEF EngineMoves
  <2>2. CASE Gone(p) /\ UNCHANGED <<cmd, link, text>> BY <2>2, PidGone
  <2> QED BY <1>3, <2>1, <2>2, EngineSteps
<1>4. CASE UNCHANGED vars BY <1>4, PidStill DEF vars, file
<1> QED BY <1>1, <1>2, <1>3, <1>4 DEF Next

\* For any number of invocations, in any order and killed anywhere: while the
\* file a running daemon locked is still there under its name, it names that
\* daemon (daemon.c, daemonize).
THEOREM PidFileNames == Spec => []FileIsDaemons
<1>1. Init => PidInv BY LifecycleAssumption DEF Init, PidInv, Working
<1>2. PidInv => FileIsDaemons BY DEF PidInv, FileIsDaemons, Running, Working
<1> QED BY <1>1, <1>2, InitTypes, StepTypes, StepPid, PTL DEF Spec

------------------------------------------------------------------------------
(* The modules of a foreground run *)

\* The engines of a foreground --get or --rating run only while main waits for
\* one of them, until an active profile makes the run stay.
EnginesJoined(p) ==
  OneShot(cmd[p]) =>
    /\ "cc" \notin todo[p]
    /\ thr[p]["cc"] \in {"none", "ended"}
    /\ thr[p]["cdrm"] = "loop" => bg[p]
    /\ pc[p] \notin {"join", "gone"} => Threads(p) = {} \/ bg[p]
\* The engines of every process.
EnginesInv == \A p \in Procs : EnginesJoined(p)

\* A step concerns the process that makes it.
LEMMA OwnEngines ==
  ASSUME EnginesInv, NEW p \in Procs, UNCHANGED cmd, EnginesJoined(p)',
         \A r \in Procs \ {p} :
           todo'[r] = todo[r] /\ thr'[r] = thr[r] /\ bg'[r] = bg[r] /\ pc'[r] = pc[r]
  PROVE EnginesInv'
BY DEF EnginesInv, EnginesJoined, Threads

\* A step of main that starts and joins nothing.
LEMMA EnginesQuiet ==
  ASSUME Types, EnginesInv, NEW p \in Procs, NEW q, Goto(p, q), pc[p] \notin {"join", "gone"},
         UNCHANGED <<cmd, todo, thr, bg>>
  PROVE EnginesInv'
<1>1. \A r \in Procs \ {p} : pc'[r] = pc[r] BY DEF Goto, Types
<1>2. EnginesJoined(p)' BY DEF EnginesInv, EnginesJoined, Threads
<1> QED BY <1>1, <1>2, OwnEngines

\* The end of a process.
LEMMA EnginesGone ==
  ASSUME Types, EnginesInv, NEW p \in Procs, Gone(p), UNCHANGED cmd PROVE EnginesInv'
<1>1. /\ pc'[p] = "gone" /\ todo'[p] = {} /\ thr'[p] = [s \in Services |-> "ended"]
      /\ \A r \in Procs \ {p} :
           todo'[r] = todo[r] /\ thr'[r] = thr[r] /\ bg'[r] = bg[r] /\ pc'[r] = pc[r]
  BY DEF Gone, Goto, Types
<1>2. thr'[p]["cc"] = "ended" /\ thr'[p]["cdrm"] = "ended" BY <1>1 DEF Services
<1>3. EnginesJoined(p)' BY <1>1, <1>2 DEF EnginesJoined
<1> QED BY <1>1, <1>3, OwnEngines

\* main starts an engine and, in the foreground, waits for it.
LEMMA EnginesStart ==
  ASSUME Types, EnginesInv, NEW p \in Procs, NEW s \in todo[p], StartService(p, s) PROVE EnginesInv'
<1>0. s \in Services /\ pc[p] = "start" /\ UNCHANGED <<cmd, bg>> /\ "init" \in ThreadPc
  BY DEF Types, StartService, At, file, ThreadPc
<1>1. CASE Goto(p, "end") /\ UNCHANGED <<todo, thr>> BY <1>0, <1>1, EnginesQuiet
<1>2. CASE /\ SetThread(p, s, "init") /\ todo' = [todo EXCEPT ![p] = @ \ {s}]
           /\ Goto(p, IF Joins(p) THEN "join" ELSE "start")
  <2>1. /\ thr'[p][s] = "init" /\ \A t \in Services \ {s} : thr'[p][t] = thr[p][t]
        /\ \A r \in Procs \ {p} : thr'[r] = thr[r]
    BY <1>0, <1>2, ThreadTypes
  <2>2. /\ todo'[p] = todo[p] \ {s} /\ \A r \in Procs \ {p} : todo'[r] = todo[r] /\ pc'[r] = pc[r]
        /\ bg[p] \/ pc'[p] = "join"
    BY <1>2 DEF Types, Goto, Joins
  <2>3. EnginesJoined(p)'
    <3> SUFFICES ASSUME OneShot(cmd[p])
                 PROVE /\ "cc" \notin todo'[p] /\ thr'[p]["cc"] \in {"none", "ended"}
                       /\ thr'[p]["cdrm"] = "loop" => bg[p]
                       /\ pc'[p] \notin {"join", "gone"} => bg[p]
      BY <1>0 DEF EnginesJoined
    <3>1. /\ "cc" \notin todo[p] /\ thr[p]["cc"] \in {"none", "ended"}
          /\ thr[p]["cdrm"] = "loop" => bg[p]
      BY DEF EnginesInv, EnginesJoined
    <3>2. s # "cc" /\ "cc" \in Services /\ "cdrm" \in Services BY <3>1 DEF Services
    <3> QED BY <2>1, <2>2, <3>1, <3>2
  <2> QED BY <1>0, <2>1, <2>2, <2>3, OwnEngines
<1> QED BY <1>1, <1>2 DEF StartService

\* main has waited: no engine runs, or an active profile does.
LEMMA EnginesJoin == ASSUME Types, EnginesInv, NEW p \in Procs, Join(p) PROVE EnginesInv'
<1>0. UNCHANGED <<cmd, todo, thr, bg>> /\ Goto(p, "start") BY DEF Join, file
<1>1. \A r \in Procs \ {p} : pc'[r] = pc[r] BY <1>0 DEF Goto, Types
<1>2. EnginesJoined(p)'
  <2> SUFFICES ASSUME OneShot(cmd[p])
               PROVE /\ "cc" \notin todo[p] /\ thr[p]["cc"] \in {"none", "ended"}
                     /\ thr[p]["cdrm"] = "loop" => bg[p]
                     /\ Threads(p) = {} \/ bg[p]
    BY <1>0 DEF EnginesJoined, Threads
  <2>1. /\ "cc" \notin todo[p] /\ thr[p]["cc"] \in {"none", "ended"}
        /\ thr[p]["cdrm"] = "loop" => bg[p]
    BY DEF EnginesInv, EnginesJoined
  <2>2. thr[p]["rt"] \in {"none", "ended"} /\ thr[p]["cdrm"] \in {"none", "loop", "ended"}
    BY DEF Join
  <2>3. Threads(p) = {} \/ bg[p] BY <2>1, <2>2 DEF Threads, Services
  <2> QED BY <2>1, <2>3
<1> QED BY <1>0, <1>1, <1>2, OwnEngines

\* An engine goes on.
LEMMA EnginesMove == ASSUME Types, EnginesInv, NEW p \in Procs, EngineMoves(p) PROVE EnginesInv'
<1>1. PICK s \in Services, q \in ThreadPc :
        /\ SetThread(p, s, q) /\ thr[p][s] \in {"init", "open", "run", "flagged"}
        /\ q = "loop" /\ s = "cdrm" => bg'[p]
        /\ bg' = bg \/ bg' = [bg EXCEPT ![p] = TRUE]
        /\ UNCHANGED <<cmd, pc, todo>>
  BY DEF EngineMoves
<1>2. /\ thr'[p][s] = q /\ \A t \in Services \ {s} : thr'[p][t] = thr[p][t]
      /\ \A r \in Procs \ {p} : thr'[r] = thr[r]
  BY <1>1, ThreadTypes
<1>3. (bg[p] => bg'[p]) /\ \A r \in Procs \ {p} : bg'[r] = bg[r] BY <1>1 DEF Types
<1>4. EnginesJoined(p)'
  <2> SUFFICES ASSUME OneShot(cmd[p])
               PROVE /\ "cc" \notin todo[p] /\ thr'[p]["cc"] \in {"none", "ended"}
                     /\ thr'[p]["cdrm"] = "loop" => bg'[p]
                     /\ pc[p] \notin {"join", "gone"} => bg'[p]
    BY <1>1 DEF EnginesJoined
  <2>1. /\ "cc" \notin todo[p] /\ thr[p]["cc"] \in {"none", "ended"}
        /\ thr[p]["cdrm"] = "loop" => bg[p]
        /\ pc[p] \notin {"join", "gone"} => Threads(p) = {} \/ bg[p]
    BY DEF EnginesInv, EnginesJoined
  <2>2. s # "cc" /\ "cc" \in Services /\ "cdrm" \in Services BY <1>1, <2>1 DEF Services
  <2>3. s \in Threads(p) BY <1>1 DEF Threads
  <2> QED BY <1>1, <1>2, <1>3, <2>1, <2>2, <2>3
<1> QED BY <1>1, <1>2, <1>3, <1>4, OwnEngines

\* One case for each step of main, of the engines and of the handler.
LEMMA StepEngines == ASSUME Types, EnginesInv, [Next]_vars PROVE EnginesInv'
<1>1. ASSUME NEW p \in Procs, Main(p) PROVE EnginesInv'
  <2>1. CASE Setup(p) \/ StopDaemon(p) \/ Choose(p) \/ OpenPidFile(p) \/ WritePidFile(p)
             \/ Started(p) \/ Manager(p) \/ End(p) \/ Unload(p)
    <3>1. PICK q : Goto(p, q)
      BY <2>1 DEF Setup, LoadModules, StopDaemon, Choose, OpenPidFile, WritePidFile, Started,
         Manager, End, Unload
    <3>2. pc[p] \notin {"join", "gone"} /\ UNCHANGED <<cmd, todo, thr, bg>>
      BY <2>1 DEF Setup, StopDaemon, Choose, OpenPidFile, WritePidFile, Started,
         Manager, End, Unload, At, file
    <3> QED BY <3>1, <3>2, EnginesQuiet
  <2>2. CASE Guard(p) \/ LockPidFile(p) \/ LastThread(p)
    <3>1. CASE Gone(p) BY <2>2, <3>1, EnginesGone DEF Guard, LockPidFile, LastThread
    <3>2. CASE ~Gone(p)
      <4>1. PICK q : Goto(p, q)
        BY <2>2, <3>2 DEF Guard, LockPidFile, Locked, LastThread
      <4>2. pc[p] \notin {"join", "gone"} /\ UNCHANGED <<cmd, todo, thr, bg>>
        BY <2>2, <3>2 DEF Guard, LockPidFile, Locked, LastThread, At, proc
      <4> QED BY <4>1, <4>2, EnginesQuiet
    <3> QED BY <3>1, <3>2
  <2>3. CASE CcServerAction(p) \/ GetCdrs(p) \/ RatingAction(p)
    <3>1. PICK s \in todo[p] : StartService(p, s)
      BY <2>3 DEF CcServerAction, GetCdrs, RatingAction
    <3> QED BY <3>1, EnginesStart
  <2>4. CASE Join(p) BY <2>4, EnginesJoin
  <2> QED BY <1>1, <2>1, <2>2, <2>3, <2>4 DEF Main, Starter
<1>2. ASSUME NEW p \in Procs, Engine(p) PROVE EnginesInv'
  <2>1. CASE Gone(p) /\ UNCHANGED <<cmd, link, text>> BY <2>1, EnginesGone
  <2> QED BY <1>2, <2>1, EngineSteps, EnginesMove
<1>3. CASE UNCHANGED <<cmd, todo, thr, bg, pc>>
  BY <1>3 DEF EnginesInv, EnginesJoined, Threads
<1>4. ASSUME NEW p \in Procs, Handler(p) \/ Kill(p) PROVE EnginesInv'
  <2>1. CASE HandlerExit(p) \/ Kill(p) BY <2>1, EnginesGone DEF HandlerExit, Kill
  <2>2. CASE HandlerFlag(p) \/ HandlerClose(p) \/ HandlerRemove(p)
    BY <1>3, <2>2 DEF HandlerFlag, HandlerClose, HandlerRemove, file
  <2> QED BY <1>4, <2>1, <2>2 DEF Handler
<1> QED BY <1>1, <1>2, <1>3, <1>4 DEF Next, vars, file

\* A foreground --get or --rating has no engine left when it unmaps the modules,
\* whatever set of modules was loaded, wherever a signal or a failure strikes
\* (re7_manager.c, mod.c), unless an active profile made the run stay.
THEOREM UnloadSafe == Spec => []UnmappedUnused
<1>1. Init => EnginesInv
  <2> SUFFICES ASSUME Init, NEW p \in Procs PROVE EnginesJoined(p)
    BY DEF EnginesInv
  <2>1. thr[p] = [s \in Services |-> "none"] /\ todo[p] = cmd[p].services BY DEF Init
  <2>2. thr[p]["cc"] = "none" /\ thr[p]["cdrm"] = "none" /\ Threads(p) = {}
    BY <2>1 DEF Services, Threads
  <2> QED BY <2>1, <2>2 DEF EnginesJoined, OneShot
<1>2. EnginesInv => UnmappedUnused
  BY DEF EnginesInv, EnginesJoined, UnmappedUnused, OneShots, At
<1> QED BY <1>1, <1>2, InitTypes, StepTypes, StepEngines, PTL DEF Spec
=============================================================================
