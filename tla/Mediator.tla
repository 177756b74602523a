------------------------------ MODULE Mediator ------------------------------
(***************************************************************************)
(* CDRMediator/cdr_mediator.c: the engine thread starts one thread per CDR *)
(* profile, a file profile and a database profile here, which fill one CDR *)
(* table while the rater empties it. The process may die at any point and  *)
(* is started again.                                                       *)
(***************************************************************************)
EXTENDS CdrFile, CdrStorage, CdrProfile

CONSTANT Profiles     \* the profiles in the order of the configuration

\* MySQL is left to CdrProfile: its connections are not opened again.
ASSUME MediatorAssumption == Profiles \in Seq(ProfileTypes) /\ "mysql" \notin Stores

VARIABLES
  active,      \* profiles with cdr_active_flag 't'
  engine       \* [pc, i: index of the profile, daemon: daemon_flag = 1]

vars == <<storeVars, fileVars, storageVars, regVars, active, engine>>

EnginePcs == {"connect", "register", "bind", "create", "join", "end", "running", "freed"}

\* The engine thread of a program that is started with -d or without it.
EngineStart(d) == [pc |-> IF Profiles = <<>> THEN "end" ELSE "connect", i |-> 1, daemon |-> d]

TypeOK ==
  /\ StoreTypeOK /\ FileTypeOK /\ StorageTypeOK /\ ProfileTypeOK
  /\ active \subseteq ProfileTypes
  /\ engine.pc \in EnginePcs
  /\ engine.i \in 1 .. Len(Profiles) + 1
  /\ engine.daemon \in BOOLEAN

Init ==
  /\ StoreInit /\ FileInit /\ StorageInit /\ ProfileInit
  /\ active \in SUBSET ProfileTypes
  /\ \E d \in BOOLEAN : engine = EngineStart(d)

Prof == Profiles[engine.i]
ThreadsUnchanged == UNCHANGED <<fileVars, storageVars, active>>

\* The next profile, or the end of the loop.
Advance(e) ==
  IF e.i = Len(Profiles) THEN [e EXCEPT !.pc = "end", !.i = @ + 1]
  ELSE [e EXCEPT !.pc = "connect", !.i = @ + 1]

\* db_engine_bind and db_connect of the local database: a failure breaks the
\* loop, later profiles are not started.
EngineConnect ==
  /\ engine.pc = "connect"
  /\ \/ /\ NoFault
        /\ engine' = [engine EXCEPT !.pc = "register"]
        /\ regThread' = [RegOff EXCEPT !.pc = "begin"]
     \/ FailOnly /\ engine' = [engine EXCEPT !.pc = "end"] /\ UNCHANGED regThread
  /\ ThreadsUnchanged /\ UNCHANGED <<reg, lost>>

\* The engine is in cdr_cfg_profile_insert.
EngineRegister ==
  /\ engine.pc = "register"
  /\ RegisterStep(Prof)
  /\ engine' = IF regThread'.pc # "off" THEN engine
               ELSE [engine EXCEPT !.pc = IF Prof = "db" THEN "bind" ELSE "create"]
  /\ ThreadsUnchanged

EngineBindRemote ==
  /\ engine.pc = "bind"
  /\ \/ NoFault /\ engine' = [engine EXCEPT !.pc = "create"]
     \/ FailOnly /\ engine' = [engine EXCEPT !.pc = "end"]
  /\ ThreadsUnchanged /\ UNCHANGED regVars

\* After a thread was created: wait for a one-shot profile, leave an active one.
Created(e) ==
  IF Prof \in active THEN Advance([e EXCEPT !.daemon = TRUE]) ELSE [e EXCEPT !.pc = "join"]

EngineCreate ==
  /\ engine.pc = "create"
  /\ \/ /\ NoFault
        /\ engine' = Created(engine)
        /\ \/ /\ Prof = "file"
              /\ FileGoto("idle")
              /\ UNCHANGED <<srcDir, dstDir, delivered, cdrFiles, listPtr, doubleFree, storageVars>>
           \/ /\ Prof = "db"
              /\ storage' = [StorageOff EXCEPT !.pc = "idle", !.chk = now - Interval]
              /\ UNCHANGED <<fileVars, now, stamp, sched, polls>>
     \/ /\ FailOnly
        /\ engine' = Advance(engine)
        /\ UNCHANGED <<fileVars, storageVars>>
  /\ UNCHANGED <<regVars, active>>

EngineJoin ==
  /\ engine.pc = "join"
  /\ (IF Prof = "file" THEN fileThread.pc ELSE storage.pc) = "done"
  /\ engine' = Advance(engine)
  /\ NoFault /\ ThreadsUnchanged /\ UNCHANGED regVars

\* Without -d and an active profile the program ends; else it goes on, with
\* whatever profiles were started.
EngineEnd ==
  /\ engine.pc = "end"
  /\ engine' = [engine EXCEPT !.pc = IF engine.daemon THEN "running" ELSE "freed"]
  /\ NoFault /\ ThreadsUnchanged /\ UNCHANGED regVars

Engine ==
  \/ EngineConnect \/ EngineRegister \/ EngineBindRemote
  \/ EngineCreate \/ EngineJoin \/ EngineEnd

FileProfile == FileStep("file" \in active) /\ UNCHANGED <<storageVars, regVars, active, engine>>
StorageProfile == StorageStep("db" \in active) /\ UNCHANGED <<fileVars, regVars, active, engine>>
Rate(c) == UpdateCdr(c) /\ UNCHANGED <<fileVars, storageVars, regVars, active, engine>>

\* The process dies, or ends after one-shot profiles, and is started again.
ProcessEnd ==
  /\ FileCrash /\ StorageCrash /\ regThread' = RegOff
  /\ \E d \in BOOLEAN : engine' = EngineStart(d)
  /\ UNCHANGED <<reg, lost, active>>
Crash == engine.pc # "freed" /\ FailOnly /\ ProcessEnd
StartAgain == engine.pc = "freed" /\ NoFault /\ ProcessEnd

\* Freeing the list twice may also abort the process.
Abort ==
  /\ fileThread.pc = "next" /\ fileThread.list = {} /\ listPtr = "freed"
  /\ fileThread' = FileOff /\ listPtr' = "null" /\ doubleFree' = TRUE
  /\ StorageCrash /\ regThread' = RegOff /\ \E d \in BOOLEAN : engine' = EngineStart(d)
  /\ NoFault /\ DirsUnchanged /\ UNCHANGED <<cdrFiles, reg, lost, active>>

\* What the mediator does not control: the switches and the clock.
Environment ==
  \/ \E f \in Files : Deliver(f) /\ UNCHANGED <<storageVars, regVars, active, engine>>
  \/ (Tick \/ \E c \in Remote : RemoteRow(c)) /\ UNCHANGED <<fileVars, regVars, active, engine>>

Next ==
  \/ Engine \/ FileProfile \/ StorageProfile
  \/ \E c \in Calls : Rate(c)
  \/ Crash \/ StartAgain \/ Abort \/ Environment

\* The threads run; the process is restarted when it has ended.
Fairness ==
  /\ WF_vars(Engine) /\ WF_vars(FileProfile) /\ WF_vars(StorageProfile)
  /\ WF_vars(StartAgain)

Spec == Init /\ [][Next]_vars /\ Fairness

\* A CDR is rated at most once in an SQL store, although a restart reads files
\* again and every poll reads a window it has read before (cdr_add_in_db).
RatedOnce == twice = {}

\* The engine thread has ended, the process has not (-d, or another profile is
\* active), and nothing reads files: the file profile was not started, or is a
\* one-shot one.
NoReader == engine.pc = "running" /\ fileThread.pc \in {"off", "done"}

\* Every delivered file leaves the source directory, whatever statement or system
\* call fails on the way and wherever the process dies, unless the process stays
\* for ever without a file thread, which nobody starts again (cdr_file_reader,
\* cdr_file_move, CDRMediatorEngine).
FilesMoved ==
  \A f \in Files : f \in srcDir ~> (f \notin srcDir \/ []NoReader)
=============================================================================
