--------------------------- MODULE Mediator_proofs ---------------------------
(***************************************************************************)
(* What the threads of the CDR mediator guarantee for any calls, files,    *)
(* profiles and schedule and any number of failures and restarts: no CDR   *)
(* is rated twice, a file is moved only when its CDRs are stored, a        *)
(* profile is registered as a whole or not at all, and no row of a remote  *)
(* database is missed for more than two polls and one for each failure.    *)
(***************************************************************************)
EXTENDS Mediator, TLAPS

------------------------------------------------------------------------------
(* The store *)

\* What a step of any thread does to the CDR table.
StoreStep ==
  \/ NoFault \/ FailOnly
  \/ \E c : AddInDb(c) \/ AddInDbFails(c) \/ UpdateCdr(c)

\* All the threads change the store by these steps only.
LEMMA StoreSteps == [Next]_vars => StoreStep
<1> SUFFICES ASSUME [Next]_vars PROVE StoreStep OBVIOUS
<1>1. CASE Engine
  <2>1. CASE EngineRegister
    BY <2>1 DEF EngineRegister, RegisterStep, RegBegin, GetCdrProfileId, InsertProfile,
       GetCdrServerId, InsertServer, GetCdrDbstorage, InsertDbstorage, GetCdrProfileFilters,
       InsertFilters, RegCommit, RegSelect, RegCount, RegInsert, Refused, StoreStep
  <2>2. CASE EngineConnect \/ EngineBindRemote \/ EngineCreate \/ EngineJoin \/ EngineEnd
    BY <2>2 DEF EngineConnect, EngineBindRemote, EngineCreate, EngineJoin, EngineEnd, StoreStep
  <2> QED BY <1>1, <2>1, <2>2 DEF Engine
<1>2. CASE FileProfile
  BY <1>2 DEF FileProfile, FileStep, FileListGet, FileFromTbl, FileOpen, FileRow, FileEof,
     FileAddInTbl, FileMove, FilePassEnd, StoreStep
<1>3. CASE StorageProfile
  BY <1>3 DEF StorageProfile, StorageStep, Plan, Connect, Select, StoreRow, RowsEnd, SchedWrite,
     StoreStep
<1>4. ASSUME NEW c \in Calls, Rate(c) PROVE StoreStep BY <1>4 DEF Rate, StoreStep
<1>5. CASE Crash \/ StartAgain \/ Abort BY <1>5 DEF Crash, StartAgain, Abort, StoreStep
<1>6. CASE Environment BY <1>6 DEF Environment, Deliver, Tick, RemoteRow, StoreStep
<1>7. CASE UNCHANGED vars BY <1>7 DEF vars, NoFault, StoreStep
<1> QED BY <1>1, <1>2, <1>3, <1>4, <1>5, <1>6, <1>7 DEF Next

\* A CDR waits for the rater or has been rated, never both.
StoreInv == unrated \cap rated = {} /\ twice = {}

\* A CDR that was rated never waits for the rater again.
LEMMA StepStore == ASSUME StoreInv, StoreStep PROVE StoreInv'
<1>1. CASE NoFault \/ FailOnly BY <1>1 DEF NoFault, FailOnly, storeVars, StoreInv
<1>2. ASSUME NEW c, AddInDb(c) PROVE StoreInv'
  BY <1>2 DEF AddInDb, Known, Stored, StoreInv
<1>3. ASSUME NEW c, AddInDbFails(c) PROVE StoreInv' BY <1>3 DEF AddInDbFails, StoreInv
<1>4. ASSUME NEW c, UpdateCdr(c) PROVE StoreInv' BY <1>4 DEF UpdateCdr, StoreInv
<1> QED BY <1>1, <1>2, <1>3, <1>4 DEF StoreStep

\* A CDR is rated at most once, whatever is read again after a restart: an insert is
\* preceded by the test for a known call (cdr_add_in_db).
THEOREM NeverTwice == Spec => []RatedOnce
<1>1. Init => StoreInv BY DEF Init, StoreInit, StoreInv
<1>2. StoreInv => RatedOnce BY DEF StoreInv, RatedOnce
<1> QED BY <1>1, <1>2, StoreSteps, StepStore, PTL DEF Spec

\* What is stored, and what failed, stays so.
Growing == Stored \subseteq Stored' /\ failed \subseteq failed' /\ (Sql <=> Sql') /\ (Mysql <=> Mysql')

\* What is stored, or has failed, stays so.
LEMMA StoreGrows == ASSUME StoreStep PROVE Growing
<1>1. CASE NoFault \/ FailOnly
  BY <1>1 DEF NoFault, FailOnly, storeVars, Growing, Stored, Sql, Mysql
<1>2. ASSUME NEW c, AddInDb(c) PROVE Growing BY <1>2 DEF AddInDb, Growing, Stored, Sql, Mysql
<1>3. ASSUME NEW c, AddInDbFails(c) PROVE Growing BY <1>3 DEF AddInDbFails, Growing, Stored, Sql, Mysql
<1>4. ASSUME NEW c, UpdateCdr(c) PROVE Growing BY <1>4 DEF UpdateCdr, Growing, Stored, Sql, Mysql
<1> QED BY <1>1, <1>2, <1>3, <1>4 DEF StoreStep

------------------------------------------------------------------------------
(* The file profile *)

\* The states of the thread of a file profile.
FileThread == [pc : FilePcs, list : SUBSET Files, cur : SUBSET Files, pos : Nat]

\* The rows of file f before row n are accounted for.
ReadTo(f, n) ==
  \A i \in 1 .. Len(Content[f]) : i < n => Content[f][i] \in Stored \cup failed \cup {BadRow}
\* Every row of file f has been dealt with.
ReadAll(f) ==
  \A i \in 1 .. Len(Content[f]) : Content[f][i] \in Stored \cup failed \cup {BadRow}
\* A file of the same name was registered.
Shadowed(f) == \E g \in SameName(f) \ {f} : cdrFiles[g] > 0

\* Where the thread is tells how much of its file has been read; only a file
\* that was read to its end is registered, and only such a file, or one whose
\* name was taken, is moved.
FileInv ==
  /\ Sql
  /\ fileThread \in FileThread /\ cdrFiles \in [Files -> Nat] /\ dstDir \subseteq Files
  /\ srcDir \subseteq Files
  /\ fileThread.pc \in {"open", "row", "register", "move"} => \E f \in Files : fileThread.cur = {f}
  /\ \A f \in fileThread.cur :
       /\ fileThread.pc = "open" => fileThread.pos = 1
       /\ fileThread.pc = "row" => ReadTo(f, fileThread.pos)
       /\ fileThread.pc = "register" => ReadAll(f)
       /\ fileThread.pc = "move" => ReadAll(f) \/ Shadowed(f)
  /\ \A f \in Files : cdrFiles[f] > 0 => ReadAll(f)
  /\ \A f \in dstDir : ReadAll(f) \/ Shadowed(f)

\* The fields of the thread.
LEMMA FileFields ==
  ASSUME FileInv
  PROVE /\ fileThread \in FileThread /\ fileThread.pc \in FilePcs /\ fileThread.pos \in Nat
        /\ fileThread.list \in SUBSET Files /\ fileThread.cur \in SUBSET Files
BY DEF FileInv, FileThread

\* The rows that were accounted for stay so.
LEMMA ReadStays ==
  ASSUME Growing
  PROVE /\ \A f, n : ReadTo(f, n) => ReadTo(f, n)'
        /\ \A f : ReadAll(f) => ReadAll(f)'
BY DEF Growing, ReadTo, ReadAll

\* A step of the thread that only leads to another place.
LEMMA FileGotoIs ==
  ASSUME FileInv, NEW p \in FilePcs, FileGoto(p)
  PROVE /\ fileThread' \in FileThread /\ fileThread'.pc = p /\ fileThread'.pos = fileThread.pos
        /\ fileThread'.cur = fileThread.cur /\ fileThread'.list = fileThread.list
BY DEF FileInv, FileThread, FileGoto

\* While the thread has a file, that is the only one.
LEMMA CurIs ==
  ASSUME NEW f, fileThread.cur = {f} PROVE FileCur = f
BY DEF FileCur

\* A step that moves nothing: what is needed of the thread.
LEMMA FileKept ==
  ASSUME FileInv, Growing, UNCHANGED <<dstDir, cdrFiles>>, srcDir' \subseteq Files,
         fileThread' \in FileThread,
         fileThread'.pc \in {"open", "row", "register", "move"} =>
           \E f \in Files : fileThread'.cur = {f},
         \A f \in fileThread'.cur :
           /\ fileThread'.pc = "open" => fileThread'.pos = 1
           /\ fileThread'.pc = "row" => ReadTo(f, fileThread.pos)'
           /\ fileThread'.pc = "register" => ReadAll(f)'
           /\ fileThread'.pc = "move" => ReadAll(f)' \/ Shadowed(f)'
  PROVE FileInv'
<1>1. Sql' BY DEF FileInv, Growing
<1>2. \A f \in Files : cdrFiles'[f] > 0 => ReadAll(f)' BY ReadStays DEF FileInv
<1>3. \A f \in dstDir' : ReadAll(f)' \/ Shadowed(f)' BY ReadStays DEF FileInv, Shadowed
<1> QED BY <1>1, <1>2, <1>3 DEF FileInv

\* A step that leaves the file thread alone.
LEMMA FileAlone == ASSUME FileInv, Growing, UNCHANGED fileVars PROVE FileInv'
<1>1. UNCHANGED <<srcDir, dstDir, cdrFiles, fileThread>> BY DEF fileVars
<1>2. \A f : ReadTo(f, fileThread.pos) => ReadTo(f, fileThread.pos)' BY <1>1 DEF ReadTo, Growing
<1>3. \A f : ReadAll(f) => ReadAll(f)' BY ReadStays
<1>4. \A f : Shadowed(f) => Shadowed(f)' BY <1>1 DEF Shadowed
<1>5. \A f \in fileThread'.cur :
        /\ fileThread'.pc = "open" => fileThread'.pos = 1
        /\ fileThread'.pc = "row" => ReadTo(f, fileThread.pos)'
        /\ fileThread'.pc = "register" => ReadAll(f)'
        /\ fileThread'.pc = "move" => ReadAll(f)' \/ Shadowed(f)'
  BY <1>1, <1>2, <1>3, <1>4 DEF FileInv
<1> QED BY <1>1, <1>5, FileKept DEF FileInv

\* A thread that has no file at hand.
LEMMA FileIdle ==
  ASSUME FileInv, Growing, UNCHANGED <<dstDir, cdrFiles>>, srcDir' \subseteq Files,
         fileThread' \in FileThread, fileThread'.pc \in {"off", "idle", "next", "done"}
  PROVE FileInv'
BY FileKept

\* The idle thread.
LEMMA FileOffIs == FileOff \in FileThread /\ FileOff.pc = "off"
BY DEF FileOff, FileThread, FilePcs

\* The directory is listed: nothing is read yet.
LEMMA StepFileListGet == ASSUME FileInv, Growing, FileListGet PROVE FileInv'
<1>0. UNCHANGED <<dstDir, cdrFiles, srcDir>> /\ srcDir' \subseteq Files /\ "next" \in FilePcs
  BY DEF FileListGet, DirsUnchanged, FileInv, FilePcs
<1>1. CASE fileThread' = [fileThread EXCEPT !.pc = "next", !.list = srcDir]
  <2>1. fileThread' \in FileThread /\ fileThread'.pc = "next"
    BY <1>0, <1>1, FileFields DEF FileThread
  <2> QED BY <1>0, <2>1, FileIdle
<1>2. CASE FileGoto("next") BY <1>0, <1>2, FileGotoIs, FileIdle
<1> QED BY <1>1, <1>2 DEF FileListGet

\* The look at cdr_files: a file whose name is registered goes on to the move.
LEMMA StepFileFromTbl == ASSUME FileInv, Growing, NEW f \in Files, FileFromTbl(f) PROVE FileInv'
<1>0. UNCHANGED <<dstDir, cdrFiles, srcDir>> /\ srcDir' \subseteq Files
  BY DEF FileFromTbl, DirsUnchanged, FileInv
<1>1. PICK p \in {"move", "open"} : Visit(f, p) /\ (p = "move" => OneRow(f))
  BY DEF FileFromTbl
<1>2. /\ fileThread' \in FileThread /\ fileThread'.pc = p /\ fileThread'.cur = {f}
      /\ fileThread'.pos = 1
  BY <1>1, FileFields DEF Visit, FileThread, FilePcs
<1>3. ASSUME p = "move" PROVE ReadAll(f)' \/ Shadowed(f)'
  <2>1. PICK g \in SameName(f) : cdrFiles[g] = 1 BY <1>1, <1>3 DEF OneRow
  <2>2. CASE g = f
    <3>1. ReadAll(f) BY <2>1, <2>2 DEF FileInv
    <3> QED BY <3>1, ReadStays
  <2>3. CASE g # f BY <1>0, <2>1, <2>3 DEF Shadowed, SameName
  <2> QED BY <2>2, <2>3
<1> QED BY <1>0, <1>1, <1>2, <1>3, FileKept

\* A file is opened at its first row.
LEMMA StepFileOpen == ASSUME FileInv, Growing, FileOpen PROVE FileInv'
<1>0. UNCHANGED <<dstDir, cdrFiles, srcDir>> /\ srcDir' \subseteq Files /\ fileThread.pc = "open"
      /\ "next" \in FilePcs /\ "row" \in FilePcs
  BY DEF FileOpen, DirsUnchanged, FileInv, FilePcs
<1>1. CASE FileGoto("row")
  <2>1. /\ fileThread' \in FileThread /\ fileThread'.pc = "row" /\ fileThread'.pos = fileThread.pos
        /\ fileThread'.cur = fileThread.cur
    BY <1>0, <1>1, FileGotoIs
  <2>2. \A f \in fileThread'.cur : ReadTo(f, fileThread.pos)'
    <3> SUFFICES ASSUME NEW f \in fileThread'.cur, NEW i \in 1 .. Len(Content[f]), i < fileThread'.pos
                 PROVE FALSE
      BY DEF ReadTo
    <3>1. fileThread'.pos = 1 /\ f \in Files BY <1>0, <2>1, FileFields DEF FileInv
    <3>2. Len(Content[f]) \in Nat BY <3>1, FileAssumption
    <3> QED BY <3>1, <3>2
  <2>3. \E f \in Files : fileThread'.cur = {f} BY <1>0, <2>1 DEF FileInv
  <2> QED BY <1>0, <2>1, <2>2, <2>3, FileKept
<1>2. CASE FileGoto("next") BY <1>0, <1>2, FileGotoIs, FileIdle
<1> QED BY <1>1, <1>2 DEF FileOpen

\* One row is stored, is known, or has failed.
LEMMA RowDone ==
  ASSUME FileInv, NEW c, AddInDb(c) \/ AddInDbFails(c) PROVE c \in Stored' \cup failed'
BY DEF FileInv, AddInDb, AddInDbFails, Known, Stored

\* A row is read, and stored or refused.
LEMMA StepFileRow == ASSUME FileInv, Growing, FileRow PROVE FileInv'
<1>0. UNCHANGED <<dstDir, cdrFiles, srcDir>> /\ srcDir' \subseteq Files /\ fileThread.pc = "row"
      /\ "next" \in FilePcs
  BY DEF FileRow, DirsUnchanged, FileInv, FilePcs
<1>1. PICK f \in Files : fileThread.cur = {f} BY <1>0 DEF FileInv
<1>2. FileCur = f BY <1>1, CurIs
<1>3. CASE fileThread' = NextRow /\ Row \in Stored' \cup failed' \cup {BadRow}
  <2>1. /\ fileThread' \in FileThread /\ fileThread'.pc = "row"
        /\ fileThread'.pos = fileThread.pos + 1 /\ fileThread'.cur = {f}
    BY <1>0, <1>1, <1>3, FileFields DEF NextRow, FileThread
  <2>2. ReadTo(f, fileThread.pos) BY <1>0, <1>1 DEF FileInv
  <2>3. Content[f][fileThread.pos] \in Stored' \cup failed' \cup {BadRow}
    BY <1>2, <1>3 DEF Row
  <2>4. ReadTo(f, fileThread.pos)'
    <3> SUFFICES ASSUME NEW i \in 1 .. Len(Content[f]), i < fileThread'.pos
                 PROVE Content[f][i] \in Stored' \cup failed' \cup {BadRow}
      BY DEF ReadTo
    <3>1. Len(Content[f]) \in Nat BY FileAssumption
    <3>2. i < fileThread.pos \/ i = fileThread.pos BY <2>1, <3>1, FileFields
    <3> QED BY <2>2, <2>3, <3>2 DEF ReadTo, Growing
  <2> QED BY <1>0, <2>1, <2>4, FileKept
<1>4. CASE FileGoto("next") BY <1>0, <1>4, FileGotoIs, FileIdle
<1> QED BY <1>3, <1>4, RowDone DEF FileRow

\* The end of the file: all its rows were read.
LEMMA StepFileEof == ASSUME FileInv, Growing, FileEof PROVE FileInv'
<1>0. UNCHANGED <<dstDir, cdrFiles, srcDir>> /\ srcDir' \subseteq Files /\ fileThread.pc = "row"
      /\ "register" \in FilePcs /\ FileGoto("register") /\ fileThread.pos > Len(Content[FileCur])
  BY DEF FileEof, DirsUnchanged, FileInv, FilePcs
<1>1. PICK f \in Files : fileThread.cur = {f} BY <1>0 DEF FileInv
<1>2. FileCur = f BY <1>1, CurIs
<1>3. Len(Content[f]) \in Nat /\ fileThread.pos \in Nat BY FileAssumption, FileFields
<1>4. ReadTo(f, fileThread.pos) BY <1>0, <1>1 DEF FileInv
<1>5. ReadAll(f) BY <1>0, <1>2, <1>3, <1>4 DEF ReadTo, ReadAll
<1>6. ReadAll(f)' BY <1>5, ReadStays
<1>7. fileThread' \in FileThread /\ fileThread'.pc = "register" /\ fileThread'.cur = {f}
  BY <1>0, <1>1, FileGotoIs
<1> QED BY <1>0, <1>6, <1>7, FileKept

\* A file is registered after it has been read.
LEMMA StepFileAddInTbl == ASSUME FileInv, Growing, FileAddInTbl PROVE FileInv'
<1>0. UNCHANGED <<dstDir, srcDir>> /\ srcDir' \subseteq Files /\ fileThread.pc = "register"
      /\ "move" \in FilePcs /\ FileGoto("move")
  BY DEF FileAddInTbl, DirsUnchanged, FileInv, FilePcs
<1>1. PICK f \in Files : fileThread.cur = {f} BY <1>0 DEF FileInv
<1>2. FileCur = f BY <1>1, CurIs
<1>3. ReadAll(f)
  BY <1>0, <1>1 DEF FileInv
<1>4. ReadAll(f)' BY <1>3, ReadStays
<1>5. fileThread' \in FileThread /\ fileThread'.pc = "move" /\ fileThread'.cur = {f}
  BY <1>0, <1>1, FileGotoIs
<1>6. UNCHANGED cdrFiles \/ cdrFiles' = [cdrFiles EXCEPT ![f] = @ + 1]
  BY <1>2 DEF FileAddInTbl
<1>7. /\ cdrFiles' \in [Files -> Nat]
      /\ \A g \in Files : cdrFiles'[g] > 0 => cdrFiles[g] > 0 \/ g = f
      /\ \A g \in Files : cdrFiles[g] > 0 => cdrFiles'[g] > 0
  BY <1>6 DEF FileInv
<1>8. \A g \in Files : cdrFiles'[g] > 0 => ReadAll(g)'
  BY <1>4, <1>7, ReadStays DEF FileInv
<1>9. \A g \in dstDir' : ReadAll(g)' \/ Shadowed(g)'
  BY <1>0, <1>7, ReadStays DEF FileInv, Shadowed, SameName
<1>10. Sql' BY DEF FileInv, Growing
<1>11. dstDir' \subseteq Files BY <1>0 DEF FileInv
<1> QED BY <1>0, <1>1, <1>4, <1>5, <1>7, <1>8, <1>9, <1>10, <1>11 DEF FileInv

\* The move puts the file into the directory in place of one of its name.
LEMMA StepFileMove == ASSUME FileInv, Growing, FileMove PROVE FileInv'
<1>0. UNCHANGED cdrFiles /\ fileThread.pc = "move" /\ "next" \in FilePcs /\ FileGoto("next")
  BY DEF FileMove, FilePcs
<1>1. PICK f \in Files : fileThread.cur = {f} BY <1>0 DEF FileInv
<1>2. FileCur = f BY <1>1, CurIs
<1>3. ReadAll(f) \/ Shadowed(f) BY <1>0, <1>1 DEF FileInv
<1>4. srcDir' \subseteq Files /\ dstDir' \subseteq dstDir \cup {f}
  BY <1>2 DEF FileMove, FileInv
<1>5. fileThread' \in FileThread /\ fileThread'.pc = "next" BY <1>0, FileGotoIs
<1>6. \A g \in dstDir' : ReadAll(g)' \/ Shadowed(g)'
  BY <1>0, <1>3, <1>4, ReadStays DEF FileInv, Shadowed
<1>7. \A g \in Files : cdrFiles'[g] > 0 => ReadAll(g)' BY <1>0, ReadStays DEF FileInv
<1>8. Sql' BY DEF FileInv, Growing
<1>9. dstDir' \subseteq Files /\ cdrFiles' \in [Files -> Nat] BY <1>0, <1>1, <1>4 DEF FileInv
<1> QED BY <1>4, <1>5, <1>6, <1>7, <1>8, <1>9 DEF FileInv

\* At the end of a pass the thread starts over.
LEMMA StepFilePassEnd == ASSUME FileInv, Growing, NEW a, FilePassEnd(a) PROVE FileInv'
<1>0. UNCHANGED <<dstDir, cdrFiles, srcDir>> /\ srcDir' \subseteq Files
  BY DEF FilePassEnd, DirsUnchanged, FileInv
<1>1. PICK p \in {"idle", "done"} : fileThread' = [FileOff EXCEPT !.pc = p]
  BY DEF FilePassEnd
<1>2. fileThread' \in FileThread /\ fileThread'.pc = p
  BY <1>1 DEF FileOff, FileThread, FilePcs
<1> QED BY <1>0, <1>2, FileIdle

\* One case for each step that moves the file thread or its files.
LEMMA StepFile == ASSUME FileInv, [Next]_vars PROVE FileInv'
<1>0. Growing BY StoreSteps, StoreGrows
<1>1. CASE FileProfile
  <2>1. PICK a : FileStep(a) BY <1>1 DEF FileProfile
  <2> QED BY <1>0, <2>1, StepFileListGet, StepFileFromTbl, StepFileOpen, StepFileRow, StepFileEof,
             StepFileAddInTbl, StepFileMove, StepFilePassEnd DEF FileStep
<1>2. CASE EngineCreate
  <2>1. CASE UNCHANGED fileVars BY <1>0, <2>1, FileAlone
  <2>2. CASE FileGoto("idle") /\ UNCHANGED <<srcDir, dstDir, cdrFiles>>
    <3>1. "idle" \in FilePcs /\ srcDir' \subseteq Files BY <2>2 DEF FilePcs, FileInv
    <3> QED BY <1>0, <2>2, <3>1, FileGotoIs, FileIdle
  <2> QED BY <1>2, <2>1, <2>2 DEF EngineCreate
<1>3. CASE EngineConnect \/ EngineRegister \/ EngineBindRemote \/ EngineJoin \/ EngineEnd
  <2>1. UNCHANGED fileVars
    BY <1>3 DEF EngineConnect, EngineRegister, EngineBindRemote, EngineJoin, EngineEnd,
       ThreadsUnchanged
  <2> QED BY <1>0, <2>1, FileAlone
<1>4. CASE StorageProfile \/ (\E c \in Calls : Rate(c)) \/ UNCHANGED vars
  BY <1>0, <1>4, FileAlone DEF StorageProfile, Rate, vars
<1>5. CASE Crash \/ StartAgain \/ Abort
  <2>1. fileThread' = FileOff /\ UNCHANGED <<dstDir, cdrFiles, srcDir>> /\ srcDir' \subseteq Files
    BY <1>5 DEF Crash, StartAgain, ProcessEnd, Abort, FileCrash, DirsUnchanged, FileInv
  <2> QED BY <1>0, <2>1, FileOffIs, FileIdle
<1>6. CASE Environment
  <2>1. CASE UNCHANGED fileVars BY <1>0, <2>1, FileAlone
  <2>2. ASSUME NEW f \in Files, Deliver(f) PROVE FileInv'
    <3>1. UNCHANGED <<dstDir, cdrFiles, fileThread>> /\ srcDir' \subseteq Files
      BY <2>2 DEF Deliver, FileInv
    <3>2. \A g : Shadowed(g) => Shadowed(g)' BY <3>1 DEF Shadowed
    <3>3. \A g : ReadTo(g, fileThread.pos) => ReadTo(g, fileThread.pos)'
      BY <1>0, <3>1 DEF ReadTo, Growing
    <3>4. \A g \in fileThread'.cur :
            /\ fileThread'.pc = "open" => fileThread'.pos = 1
            /\ fileThread'.pc = "row" => ReadTo(g, fileThread.pos)'
            /\ fileThread'.pc = "register" => ReadAll(g)'
            /\ fileThread'.pc = "move" => ReadAll(g)' \/ Shadowed(g)'
      BY <1>0, <3>1, <3>2, <3>3, ReadStays DEF FileInv
    <3> QED BY <1>0, <3>1, <3>4, FileKept DEF FileInv
  <2> QED BY <1>6, <2>1, <2>2 DEF Environment
<1> QED BY <1>1, <1>2, <1>3, <1>4, <1>5, <1>6 DEF Next, Engine

\* In an SQL store a file that was registered or moved has been read to its
\* end, across any crashes, failed inserts and restarts (cdr_file_reader). A
\* NoSQL store is left out: it takes every CDR for stored.
THEOREM FilesStored == ASSUME "nosql" \notin Stores PROVE Spec => []MovedIsStored
<1>1. Init => FileInv
  BY FileOffIs DEF Init, StoreInit, FileInit, FileInv, Sql, ReadAll
<1>2. FileInv => MovedIsStored BY DEF FileInv, MovedIsStored, ReadAll, Shadowed
<1> QED BY <1>1, <1>2, StepFile, PTL DEF Spec

------------------------------------------------------------------------------
(* The registration of a profile *)

\* The rows of one profile, and the thread that registers it.
Rows == [profile : Nat, servers : Nat, dbstorage : Nat, filters : Nat]
\* The states of the registration of a profile.
RegThread == [pc : RegPcs, tx : {"none", "open", "aborted"}, draft : Rows,
              pid : Nat, sid : Nat, in : Nat]

\* The rows of a profile that has its server, d remote storages, f filters.
With(d, f) == [profile |-> 1, servers |-> 1, dbstorage |-> d, filters |-> f]
\* The rows of cdr_storage that a profile has.
Storages(p) == IF p = "db" THEN 1 ELSE 0

\* What a transaction that had no failure has written when thread t gets to a
\* statement: a profile is found whole, or is built from nothing in this order.
Fits(p, t) ==
  /\ t.pc = "profile" => t.draft \in {NoRows, Whole(p)}
  /\ t.pc = "insert_profile" => t.draft = NoRows
  /\ t.pc = "new_profile" => t.draft = [NoRows EXCEPT !.profile = 1]
  /\ t.pc = "insert_server" => t.draft = [NoRows EXCEPT !.profile = 1] /\ t.pid = 1
  /\ t.pc = "server" => t.draft = Whole(p) /\ t.pid = 1
  /\ t.pc = "new_server" => t.draft = With(0, 0) /\ t.pid = 1
  /\ t.pc = "dbstorage" => t.draft \in {With(0, 0), Whole(p)} /\ t.pid = 1 /\ p = "db"
  /\ t.pc = "insert_dbstorage" => t.draft = With(0, 0) /\ t.pid = 1 /\ p = "db"
  /\ t.pc = "filters" => t.draft \in {With(Storages(p), 0), Whole(p)} /\ t.pid = 1
  /\ t.pc = "insert_filters" => t.draft = With(Storages(p), t.in) /\ t.in <= NumFilters
  /\ t.pc = "commit" => t.draft = Whole(p)

\* The registration of profile p: outside a transaction only after a lost
\* connection.
RegLocal(p) ==
  /\ reg \in [ProfileTypes -> Rows] /\ regThread \in RegThread /\ lost \subseteq ProfileTypes
  /\ RegisteredWhole
  /\ regThread.tx = "none" => regThread.pc \in {"off", "begin", "commit"} \/ p \in lost
  /\ regThread.pc = "begin" => regThread.tx = "none"
  /\ regThread.tx = "open" /\ p \notin lost => Fits(p, regThread)

\* The engine is at a profile of the configuration, and registers only there.
EngineInv ==
  /\ engine \in [pc : EnginePcs, i : Nat, daemon : BOOLEAN]
  /\ engine.pc \in {"connect", "register", "bind", "create", "join"} =>
       engine.i \in 1 .. Len(Profiles)
  /\ regThread.pc # "off" => engine.pc = "register"

\* The invariant of the engine and its registrations.
RegInv == EngineInv /\ RegLocal(Prof)

\* The constants of the registration.
LEMMA Constants ==
  /\ NoRows \in Rows /\ RegOff \in RegThread /\ RegOff.pc = "off" /\ RegOff.tx = "none"
  /\ \A p : Whole(p) \in Rows /\ With(Storages(p), NumFilters) = Whole(p)
  /\ NumFilters \in Nat
BY ProfileAssumption DEF NoRows, Rows, RegOff, RegThread, RegPcs, Whole, With, Storages

\* The fields of the thread and of what it sees.
LEMMA RegFields ==
  ASSUME NEW p \in ProfileTypes, RegLocal(p)
  PROVE /\ regThread.pc \in RegPcs /\ regThread.tx \in {"none", "open", "aborted"}
        /\ regThread.draft \in Rows /\ regThread.pid \in Nat /\ regThread.sid \in Nat
        /\ regThread.in \in Nat
        /\ Sees(p) \in Rows
        /\ Sees(p).profile \in Nat /\ Sees(p).servers \in Nat
        /\ Sees(p).dbstorage \in Nat /\ Sees(p).filters \in Nat
<1>1. /\ regThread.pc \in RegPcs /\ regThread.tx \in {"none", "open", "aborted"}
      /\ regThread.draft \in Rows /\ regThread.pid \in Nat /\ regThread.sid \in Nat
      /\ regThread.in \in Nat
  BY DEF RegLocal, RegThread
<1>2. Sees(p) \in Rows BY <1>1 DEF Sees, RegLocal
<1> QED BY <1>1, <1>2 DEF Rows

\* The thread within the registration: not at BEGIN, and outside a transaction
\* only when the connection was lost.
Within(p) == ~Mysql /\ (regThread.tx = "none" => p \in lost)

\* A statement that is refused or loses the connection.
LEMMA StepRefused ==
  ASSUME NEW p \in ProfileTypes, RegLocal(p), Within(p), NEW r \in RegThread,
         r.tx = regThread.tx, r.pc # "begin", Refused(p, r)
  PROVE RegLocal(p)'
<1>1. CASE regThread' = [r EXCEPT !.tx = IF @ = "open" THEN "aborted" ELSE @] /\ UNCHANGED lost
  <2>1. regThread' \in RegThread /\ regThread'.pc = r.pc /\ regThread'.tx # "open"
        /\ (regThread'.tx = "none" => regThread.tx = "none")
    BY <1>1 DEF RegThread
  <2>2. UNCHANGED reg BY DEF Refused
  <2>3. RegisteredWhole' BY <1>1, <2>2 DEF RegLocal, RegisteredWhole
  <2>4. reg' \in [ProfileTypes -> Rows] /\ lost' \subseteq ProfileTypes
    BY <1>1, <2>2 DEF RegLocal
  <2> QED BY <1>1, <2>1, <2>3, <2>4 DEF RegLocal, Within
<1>2. CASE regThread' = [r EXCEPT !.tx = "none"] /\ lost' = lost \cup {p}
  <2>1. regThread' \in RegThread /\ regThread'.pc = r.pc /\ regThread'.tx = "none"
    BY <1>2 DEF RegThread
  <2>2. UNCHANGED reg BY DEF Refused
  <2>3. RegisteredWhole' BY <1>2, <2>2 DEF RegLocal, RegisteredWhole
  <2>4. reg' \in [ProfileTypes -> Rows] /\ lost' \subseteq ProfileTypes
    BY <1>2, <2>2 DEF RegLocal
  <2> QED BY <1>2, <2>1, <2>3, <2>4 DEF RegLocal
<1> QED BY <1>1, <1>2 DEF Refused, AfterError, AfterLoss, Within

\* A step that writes nothing.
LEMMA StepQuiet ==
  ASSUME NEW p \in ProfileTypes, RegLocal(p), Within(p), UNCHANGED <<reg, lost>>,
         NEW r \in RegThread, regThread' = r, r.tx = regThread.tx, r.pc # "begin",
         regThread.tx = "open" /\ p \notin lost => Fits(p, r)
  PROVE RegLocal(p)'
<1>1. RegisteredWhole' BY DEF RegLocal, RegisteredWhole
<1>2. reg' \in [ProfileTypes -> Rows] /\ lost' \subseteq ProfileTypes BY DEF RegLocal
<1> QED BY <1>1, <1>2 DEF RegLocal, Within

\* An insert, in the transaction, outside it, or refused.
LEMMA StepInsert ==
  ASSUME NEW p \in ProfileTypes, RegLocal(p), Within(p), NEW rows \in Rows,
         NEW next \in RegThread, next.tx = regThread.tx, next.pc # "begin",
         RegInsert(p, rows, next),
         regThread.tx = "open" /\ p \notin lost => Fits(p, [next EXCEPT !.draft = rows])
  PROVE RegLocal(p)'
<1>1. CASE /\ regThread.tx = "open" /\ regThread' = [next EXCEPT !.draft = rows]
           /\ UNCHANGED <<reg, lost>>
  <2> DEFINE r == [next EXCEPT !.draft = rows]
  <2>1. r \in RegThread /\ r.tx = next.tx /\ r.pc = next.pc BY DEF RegThread
  <2>2. regThread.tx = "open" /\ p \notin lost => Fits(p, r) OBVIOUS
  <2>3. regThread' = r BY <1>1
  <2> HIDE DEF r
  <2> QED BY <1>1, <2>1, <2>2, <2>3, StepQuiet
<1>2. CASE regThread.tx = "none" /\ reg' = [reg EXCEPT ![p] = rows] /\ regThread' = next
           /\ UNCHANGED lost
  <2>1. p \in lost BY <1>2 DEF Within
  <2>2. reg' \in [ProfileTypes -> Rows] BY <1>2 DEF RegLocal
  <2>3. RegisteredWhole' BY <1>2, <2>1 DEF RegLocal, RegisteredWhole
  <2>4. lost' \subseteq ProfileTypes BY <1>2 DEF RegLocal
  <2> QED BY <1>2, <2>1, <2>2, <2>3, <2>4 DEF RegLocal
<1>3. CASE regThread' = [next EXCEPT !.tx = IF @ = "open" THEN "aborted" ELSE @]
           /\ UNCHANGED <<reg, lost>>
  <2>1. regThread' \in RegThread /\ regThread'.pc = next.pc /\ regThread'.tx # "open"
        /\ (regThread'.tx = "none" => regThread.tx = "none")
    BY <1>3 DEF RegThread
  <2>2. RegisteredWhole' BY <1>3 DEF RegLocal, RegisteredWhole
  <2>3. reg' \in [ProfileTypes -> Rows] /\ lost' \subseteq ProfileTypes BY <1>3 DEF RegLocal
  <2> QED BY <1>3, <2>1, <2>2, <2>3 DEF RegLocal, Within
<1>4. CASE Refused(p, next) BY <1>4, StepRefused
<1> QED BY <1>1, <1>2, <1>3, <1>4 DEF RegInsert, AfterError, Within

\* BEGIN opens the transaction on the committed rows.
LEMMA StepRegBegin ==
  ASSUME NEW p \in ProfileTypes, RegLocal(p), ~Mysql, RegBegin(p) PROVE RegLocal(p)'
<1>0. regThread.tx = "none" /\ regThread.pc = "begin" BY DEF RegBegin, RegAt, RegLocal
<1>1. CASE regThread' = RegGoto("commit") /\ UNCHANGED <<reg, lost>>
  <2>1. regThread' \in RegThread /\ regThread'.pc = "commit" /\ regThread'.tx = "none"
    BY <1>0, <1>1 DEF RegGoto, RegThread, RegPcs, RegLocal
  <2>2. RegisteredWhole' BY <1>1 DEF RegLocal, RegisteredWhole
  <2>3. reg' \in [ProfileTypes -> Rows] /\ lost' \subseteq ProfileTypes BY <1>1 DEF RegLocal
  <2> QED BY <2>1, <2>2, <2>3 DEF RegLocal
<1>2. CASE regThread' = [RegGoto("profile") EXCEPT !.tx = "open", !.draft = reg[p]]
           /\ UNCHANGED <<reg, lost>>
  <2>0. reg[p] \in Rows /\ "profile" \in RegPcs BY DEF RegLocal, RegPcs
  <2>1. /\ regThread' \in RegThread /\ regThread'.pc = "profile" /\ regThread'.tx = "open"
        /\ regThread'.draft = reg[p]
    BY <1>2, <2>0 DEF RegGoto, RegThread, RegLocal
  <2>2. RegisteredWhole' BY <1>2 DEF RegLocal, RegisteredWhole
  <2>3. reg' \in [ProfileTypes -> Rows] /\ lost' \subseteq ProfileTypes BY <1>2 DEF RegLocal
  <2>4. p \notin lost => reg[p] \in {NoRows, Whole(p)} BY DEF RegLocal, RegisteredWhole
  <2>5. p \notin lost' => Fits(p, regThread)' BY <1>2, <2>1, <2>4 DEF Fits
  <2> QED BY <2>1, <2>2, <2>3, <2>5 DEF RegLocal
<1>3. CASE regThread' = RegGoto("profile") /\ lost' = lost \cup {p} /\ UNCHANGED reg
  <2>1. regThread' \in RegThread /\ regThread'.pc = "profile" /\ regThread'.tx = "none"
    BY <1>0, <1>3 DEF RegGoto, RegThread, RegPcs, RegLocal
  <2>2. RegisteredWhole' BY <1>3 DEF RegLocal, RegisteredWhole
  <2>3. reg' \in [ProfileTypes -> Rows] /\ lost' \subseteq ProfileTypes BY <1>3 DEF RegLocal
  <2> QED BY <1>3, <2>1, <2>2, <2>3 DEF RegLocal
<1>4. regThread' = [RegGoto("profile") EXCEPT !.tx = "none"] => regThread' = RegGoto("profile")
  BY <1>0 DEF RegGoto, RegLocal, RegThread
<1> QED BY <1>1, <1>2, <1>3, <1>4 DEF RegBegin, AfterLoss

\* Before COMMIT the thread is outside a transaction only after a lost link.
LEMMA IsWithin ==
  ASSUME NEW p, RegLocal(p), ~Mysql, regThread.pc \notin {"off", "begin", "commit"} PROVE Within(p)
BY DEF RegLocal, Within

\* A step of the thread that only leads to another statement.
LEMMA RegGotoIs ==
  ASSUME NEW p \in ProfileTypes, RegLocal(p), NEW q \in RegPcs
  PROVE /\ RegGoto(q) \in RegThread /\ RegGoto(q).pc = q /\ RegGoto(q).tx = regThread.tx
        /\ RegGoto(q).draft = regThread.draft /\ RegGoto(q).pid = regThread.pid
        /\ RegGoto(q).in = regThread.in
BY DEF RegLocal, RegThread, RegGoto

\* A transaction that is open has the rows of its place.
LEMMA Open ==
  ASSUME NEW p, RegLocal(p), regThread.tx = "open", p \notin lost
  PROVE Fits(p, regThread) /\ Sees(p) = regThread.draft
BY DEF RegLocal, Sees

\* The id of the profile: a profile without a row is inserted, a new one goes
\* on to its server.
LEMMA StepProfileId ==
  ASSUME NEW p \in ProfileTypes, RegLocal(p), ~Mysql, GetCdrProfileId(p) PROVE RegLocal(p)'
<1> DEFINE Q(n) == IF RegAt("new_profile") THEN "insert_server"
                   ELSE IF n = 0 THEN "insert_profile" ELSE "server"
           A(n) == [regThread EXCEPT !.pid = n, !.pc = Q(n)]
<1>0. regThread.pc \in {"profile", "new_profile"} BY DEF GetCdrProfileId, RegAt
<1>1. Within(p) BY <1>0, IsWithin
<1>2. ASSUME NEW n \in Nat
      PROVE /\ A(n) \in RegThread /\ A(n).pc = Q(n) /\ A(n).tx = regThread.tx
            /\ A(n).draft = regThread.draft /\ A(n).pid = n /\ A(n).in = regThread.in
            /\ Q(n) # "begin"
  BY DEF RegLocal, RegThread, RegPcs
<1>3. \/ regThread' = A(IF Failing THEN 0 ELSE Sees(p).profile)
         /\ UNCHANGED <<reg, lost>>
      \/ Refused(p, A(0))
  BY DEF GetCdrProfileId, RegSelect
<1> HIDE DEF A
<1>6. CASE Refused(p, A(0)) BY <1>1, <1>2, <1>6, StepRefused
<1>4. ASSUME NEW n \in Nat, regThread' = A(n), UNCHANGED <<reg, lost>>,
             regThread.tx = "open" => n = Sees(p).profile
      PROVE RegLocal(p)'
  <2>1. ASSUME regThread.tx = "open", p \notin lost PROVE Fits(p, A(n))
    <3>1. Fits(p, regThread) /\ n = regThread.draft.profile BY <1>4, <2>1, Open
    <3>2. CASE regThread.pc = "profile"
      <4>1. regThread.draft \in {NoRows, Whole(p)} BY <3>1, <3>2 DEF Fits
      <4>2. \/ n = 0 /\ regThread.draft = NoRows
            \/ n = 1 /\ regThread.draft = Whole(p)
        BY <3>1, <4>1 DEF NoRows, Whole
      <4>3. A(n).pc = (IF n = 0 THEN "insert_profile" ELSE "server") BY <1>2, <3>2 DEF RegAt
      <4> QED BY <1>2, <4>2, <4>3 DEF Fits
    <3>3. CASE regThread.pc = "new_profile"
      <4>1. regThread.draft = [NoRows EXCEPT !.profile = 1] BY <3>1, <3>3 DEF Fits
      <4>2. n = 1 BY <3>1, <4>1 DEF NoRows
      <4>3. A(n).pc = "insert_server" BY <1>2, <3>3 DEF RegAt
      <4> QED BY <1>2, <4>1, <4>2, <4>3 DEF Fits
    <3> QED BY <1>0, <3>2, <3>3
  <2> QED BY <1>1, <1>2, <1>4, <2>1, StepQuiet
<1>5. Sees(p).profile \in Nat BY RegFields
<1> QED BY <1>3, <1>4, <1>5, <1>6 DEF Failing

\* The row of the profile is inserted, or the transaction is aborted.
LEMMA StepInsertProfile ==
  ASSUME NEW p \in ProfileTypes, RegLocal(p), ~Mysql, InsertProfile(p) PROVE RegLocal(p)'
<1> DEFINE rows == [Sees(p) EXCEPT !.profile = @ + 1]
           next == RegGoto("new_profile")
<1>0. regThread.pc = "insert_profile" /\ "new_profile" \in RegPcs BY DEF InsertProfile, RegAt, RegPcs
<1>1. Within(p) BY <1>0, IsWithin
<1>2. next \in RegThread /\ next.pc = "new_profile" /\ next.tx = regThread.tx BY <1>0, RegGotoIs
<1>3. rows \in Rows BY RegFields DEF Rows
<1>4. ASSUME regThread.tx = "open", p \notin lost PROVE Fits(p, [next EXCEPT !.draft = rows])
  <2>1. Sees(p) = NoRows BY <1>0, <1>4, Open DEF Fits
  <2>2. rows = [NoRows EXCEPT !.profile = 1] BY <2>1 DEF NoRows
  <2>3. [next EXCEPT !.draft = rows].pc = "new_profile" /\ [next EXCEPT !.draft = rows].draft = rows
    BY <1>2 DEF RegThread
  <2> HIDE DEF rows, next
  <2> QED BY <2>2, <2>3 DEF Fits
<1>5. RegInsert(p, rows, next) BY DEF InsertProfile
<1> HIDE DEF rows, next
<1> QED BY <1>1, <1>2, <1>3, <1>4, <1>5, StepInsert

\* The id of the server: one that is not there is inserted and looked up again;
\* a database profile goes on to its remote storage.
LEMMA StepServerId ==
  ASSUME NEW p \in ProfileTypes, RegLocal(p), ~Mysql, GetCdrServerId(p) PROVE RegLocal(p)'
<1> DEFINE Q(n) == IF RegAt("server") /\ OneOnly(n) = 0 THEN "insert_server"
                   ELSE IF p = "db" /\ OneOnly(n) = 1 THEN "dbstorage" ELSE "filters"
           A(n) == [regThread EXCEPT !.sid = OneOnly(n), !.pc = Q(n)]
<1>0. regThread.pc \in {"server", "new_server"} BY DEF GetCdrServerId, RegAt
<1>1. Within(p) BY <1>0, IsWithin
<1>2. ASSUME NEW n \in Nat
      PROVE /\ A(n) \in RegThread /\ A(n).pc = Q(n) /\ A(n).tx = regThread.tx
            /\ A(n).draft = regThread.draft /\ A(n).pid = regThread.pid
            /\ A(n).in = regThread.in /\ Q(n) # "begin"
  <2>1. OneOnly(n) \in Nat BY DEF OneOnly
  <2> QED BY <2>1 DEF RegLocal, RegThread, RegPcs
<1>3. \/ regThread' = A(IF Failing THEN 0 ELSE Sees(p).servers)
         /\ UNCHANGED <<reg, lost>>
      \/ Refused(p, A(0))
  BY DEF GetCdrServerId, RegSelect
<1> HIDE DEF A
<1>4. ASSUME NEW n \in Nat, regThread' = A(n), UNCHANGED <<reg, lost>>,
             regThread.tx = "open" => n = Sees(p).servers
      PROVE RegLocal(p)'
  <2>1. ASSUME regThread.tx = "open", p \notin lost PROVE Fits(p, A(n))
    <3>1. Fits(p, regThread) /\ n = regThread.draft.servers BY <1>4, <2>1, Open
    <3>2. /\ regThread.draft \in {With(0, 0), Whole(p)} /\ regThread.pid = 1
          /\ p # "db" => regThread.draft \in {With(Storages(p), 0), Whole(p)}
      BY <1>0, <3>1 DEF Fits, Storages
    <3>3. n = 1 BY <3>1, <3>2 DEF With, Whole
    <3>4. A(n).pc = (IF p = "db" THEN "dbstorage" ELSE "filters") BY <1>2, <3>3 DEF OneOnly
    <3> QED BY <1>2, <3>2, <3>4 DEF Fits
  <2> QED BY <1>1, <1>2, <1>4, <2>1, StepQuiet
<1>5. Sees(p).servers \in Nat BY RegFields
<1>6. CASE Refused(p, A(0)) BY <1>1, <1>2, <1>6, StepRefused
<1> QED BY <1>3, <1>4, <1>5, <1>6 DEF Failing

\* The server of a new profile.
LEMMA StepInsertServer ==
  ASSUME NEW p \in ProfileTypes, RegLocal(p), ~Mysql, InsertServer(p) PROVE RegLocal(p)'
<1> DEFINE rows == [Sees(p) EXCEPT !.servers = IF @ = 2 THEN 2 ELSE @ + regThread.pid]
           next == RegGoto("new_server")
<1>0. regThread.pc = "insert_server" /\ "new_server" \in RegPcs BY DEF InsertServer, RegAt, RegPcs
<1>1. Within(p) BY <1>0, IsWithin
<1>2. next \in RegThread /\ next.pc = "new_server" /\ next.tx = regThread.tx
      /\ next.pid = regThread.pid
  BY <1>0, RegGotoIs
<1>3. rows \in Rows BY RegFields DEF Rows
<1>4. ASSUME regThread.tx = "open", p \notin lost PROVE Fits(p, [next EXCEPT !.draft = rows])
  <2>1. Sees(p) = [NoRows EXCEPT !.profile = 1] /\ regThread.pid = 1 BY <1>0, <1>4, Open DEF Fits
  <2>2. rows = With(0, 0)
    <3>1. Sees(p) = [profile |-> 1, servers |-> 0, dbstorage |-> 0, filters |-> 0]
      BY <2>1 DEF NoRows
    <3>2. (IF Sees(p).servers = 2 THEN 2 ELSE Sees(p).servers + regThread.pid) = 1
      BY <2>1, <3>1
    <3>3. rows = [Sees(p) EXCEPT !.servers = 1] BY <3>2
    <3> HIDE DEF rows
    <3> QED BY <3>1, <3>3 DEF With
  <2>3. /\ [next EXCEPT !.draft = rows].pc = "new_server"
        /\ [next EXCEPT !.draft = rows].draft = rows
        /\ [next EXCEPT !.draft = rows].pid = regThread.pid
    BY <1>2 DEF RegThread
  <2> HIDE DEF rows, next
  <2> QED BY <2>1, <2>2, <2>3 DEF Fits
<1>5. RegInsert(p, rows, next) BY DEF InsertServer
<1> HIDE DEF rows, next
<1> QED BY <1>1, <1>2, <1>3, <1>4, <1>5, StepInsert

\* The remote storage of a database profile.
LEMMA StepDbstorage ==
  ASSUME NEW p \in ProfileTypes, RegLocal(p), ~Mysql, GetCdrDbstorage(p) PROVE RegLocal(p)'
<1>0. regThread.pc = "dbstorage" BY DEF GetCdrDbstorage, RegAt
<1>1. Within(p) BY <1>0, IsWithin
<1>2. ASSUME NEW q \in {"insert_dbstorage", "filters"}
      PROVE /\ RegGoto(q) \in RegThread /\ RegGoto(q).pc = q /\ RegGoto(q).tx = regThread.tx
            /\ RegGoto(q).draft = regThread.draft /\ RegGoto(q).pid = regThread.pid
            /\ RegGoto(q).in = regThread.in
  <2>1. q \in RegPcs BY DEF RegPcs
  <2> QED BY <2>1, RegGotoIs
<1>3. ASSUME NEW q \in {"insert_dbstorage", "filters"}, Refused(p, RegGoto(q)) PROVE RegLocal(p)'
  BY <1>1, <1>2, <1>3, StepRefused
<1>4. ASSUME NEW q \in {"insert_dbstorage", "filters"}, regThread' = RegGoto(q),
             UNCHANGED <<reg, lost>>,
             regThread.tx = "open" => (q = "insert_dbstorage" <=> Sees(p).dbstorage = 0)
      PROVE RegLocal(p)'
  <2>1. ASSUME regThread.tx = "open", p \notin lost PROVE Fits(p, RegGoto(q))
    <3>1. Fits(p, regThread) /\ Sees(p) = regThread.draft BY <2>1, Open
    <3>2. regThread.draft \in {With(0, 0), Whole(p)} /\ regThread.pid = 1 /\ p = "db"
      BY <1>0, <3>1 DEF Fits
    <3>3. With(0, 0).dbstorage = 0 /\ Whole(p).dbstorage = 1 BY <3>2 DEF With, Whole
    <3>4. \/ q = "insert_dbstorage" /\ regThread.draft = With(0, 0)
          \/ q = "filters" /\ regThread.draft = Whole(p)
      BY <1>4, <2>1, <3>1, <3>2, <3>3
    <3> QED BY <1>2, <3>2, <3>4 DEF Fits
  <2> QED BY <1>1, <1>2, <1>4, <2>1, StepQuiet
<1>5. \/ \E q \in {"insert_dbstorage", "filters"} : Refused(p, RegGoto(q))
      \/ \E q \in {"insert_dbstorage", "filters"} :
           /\ regThread' = RegGoto(q) /\ UNCHANGED <<reg, lost>>
           /\ regThread.tx = "open" => (q = "insert_dbstorage" <=> Sees(p).dbstorage = 0)
  <2>1. CASE Refused(p, RegGoto("filters")) BY <2>1
  <2>2. CASE Refused(p, RegGoto("insert_dbstorage")) BY <2>2
  <2>3. CASE /\ regThread' = RegGoto(IF (IF Failing THEN 0 ELSE Sees(p).dbstorage) = 0
                                     THEN "insert_dbstorage" ELSE "filters")
             /\ UNCHANGED <<reg, lost>>
    BY <2>3 DEF Failing
  <2> QED BY <2>1, <2>2, <2>3 DEF GetCdrDbstorage, RegCount
<1> QED BY <1>3, <1>4, <1>5

\* The storage row of a database profile.
LEMMA StepInsertDbstorage ==
  ASSUME NEW p \in ProfileTypes, RegLocal(p), ~Mysql, InsertDbstorage(p) PROVE RegLocal(p)'
<1> DEFINE rows == [Sees(p) EXCEPT !.dbstorage = @ + 1]
           next == RegGoto("filters")
<1>0. regThread.pc = "insert_dbstorage" /\ "filters" \in RegPcs
  BY DEF InsertDbstorage, RegAt, RegPcs
<1>1. Within(p) BY <1>0, IsWithin
<1>2. next \in RegThread /\ next.pc = "filters" /\ next.tx = regThread.tx
      /\ next.pid = regThread.pid
  BY <1>0, RegGotoIs
<1>3. rows \in Rows BY RegFields DEF Rows
<1>4. ASSUME regThread.tx = "open", p \notin lost PROVE Fits(p, [next EXCEPT !.draft = rows])
  <2>1. Sees(p) = With(0, 0) /\ regThread.pid = 1 /\ p = "db" BY <1>0, <1>4, Open DEF Fits
  <2>2. rows = With(Storages(p), 0) BY <2>1 DEF With, Storages
  <2>3. /\ [next EXCEPT !.draft = rows].pc = "filters"
        /\ [next EXCEPT !.draft = rows].draft = rows
        /\ [next EXCEPT !.draft = rows].pid = regThread.pid
    BY <1>2 DEF RegThread
  <2> HIDE DEF rows, next
  <2> QED BY <2>1, <2>2, <2>3 DEF Fits
<1>5. RegInsert(p, rows, next) BY DEF InsertDbstorage
<1> HIDE DEF rows, next
<1> QED BY <1>1, <1>2, <1>3, <1>4, <1>5, StepInsert

\* The filters of a profile that has none.
LEMMA StepFilters ==
  ASSUME NEW p \in ProfileTypes, RegLocal(p), ~Mysql, GetCdrProfileFilters(p) PROVE RegLocal(p)'
<1> DEFINE Q(n) == IF n = 0 THEN "insert_filters" ELSE "commit"
           A(n) == [regThread EXCEPT !.in = 0, !.pc = Q(n)]
<1>0. regThread.pc = "filters" /\ "commit" \in RegPcs BY DEF GetCdrProfileFilters, RegAt, RegPcs
<1>1. Within(p) BY <1>0, IsWithin
<1>2. ASSUME NEW n \in Nat
      PROVE /\ A(n) \in RegThread /\ A(n).pc = Q(n) /\ A(n).tx = regThread.tx
            /\ A(n).draft = regThread.draft /\ A(n).in = 0 /\ Q(n) # "begin"
  BY DEF RegLocal, RegThread, RegPcs
<1>3. RegGoto("commit") \in RegThread /\ RegGoto("commit").pc = "commit"
      /\ RegGoto("commit").tx = regThread.tx /\ RegGoto("commit").draft = regThread.draft
  BY <1>0, RegGotoIs
<1>4. \/ /\ regThread.pid = 0 \/ NumFilters = 0
         /\ regThread' = RegGoto("commit") /\ UNCHANGED <<reg, lost>>
      \/ /\ NumFilters # 0
         /\ regThread' = A(IF Failing THEN 0 ELSE Sees(p).filters)
         /\ UNCHANGED <<reg, lost>>
      \/ Refused(p, A(0))
      \/ Refused(p, RegGoto("commit"))
  BY DEF GetCdrProfileFilters, RegCount
<1> HIDE DEF A
<1>5. ASSUME regThread.tx = "open", p \notin lost
      PROVE /\ regThread.draft \in {With(Storages(p), 0), Whole(p)} /\ regThread.pid = 1
            /\ Sees(p) = regThread.draft
  BY <1>0, <1>5, Open DEF Fits
<1>6. CASE /\ regThread.pid = 0 \/ NumFilters = 0
           /\ regThread' = RegGoto("commit") /\ UNCHANGED <<reg, lost>>
  <2>1. ASSUME regThread.tx = "open", p \notin lost PROVE Fits(p, RegGoto("commit"))
    <3>1. NumFilters = 0 BY <1>5, <1>6, <2>1
    <3>2. regThread.draft = Whole(p) BY <1>5, <2>1, <3>1, Constants
    <3> QED BY <1>3, <3>2 DEF Fits
  <2> QED BY <1>1, <1>3, <1>6, <2>1, StepQuiet
<1>7. ASSUME NEW n \in Nat, NumFilters # 0, regThread' = A(n), UNCHANGED <<reg, lost>>,
             regThread.tx = "open" => n = Sees(p).filters
      PROVE RegLocal(p)'
  <2>1. ASSUME regThread.tx = "open", p \notin lost PROVE Fits(p, A(n))
    <3>1. With(Storages(p), 0).filters = 0 /\ Whole(p).filters = NumFilters BY DEF With, Whole
    <3>2. \/ n = 0 /\ regThread.draft = With(Storages(p), 0)
          \/ n # 0 /\ regThread.draft = Whole(p)
      BY <1>5, <1>7, <2>1, <3>1
    <3> QED BY <1>2, <3>2, Constants DEF Fits
  <2> QED BY <1>1, <1>2, <1>7, <2>1, StepQuiet
<1>8. CASE Refused(p, A(0)) BY <1>1, <1>2, <1>8, StepRefused
<1>9. CASE Refused(p, RegGoto("commit")) BY <1>1, <1>3, <1>9, StepRefused
<1>10. Sees(p).filters \in Nat BY RegFields
<1> QED BY <1>4, <1>6, <1>7, <1>8, <1>9, <1>10 DEF Failing

\* One filter after the other.
LEMMA StepInsertFilters ==
  ASSUME NEW p \in ProfileTypes, RegLocal(p), ~Mysql, InsertFilters(p) PROVE RegLocal(p)'
<1> DEFINE rows == [Sees(p) EXCEPT !.filters = @ + 1]
           next == [regThread EXCEPT !.in = @ + 1]
<1>0. regThread.pc = "insert_filters" /\ "commit" \in RegPcs BY DEF InsertFilters, RegAt, RegPcs
<1>1. Within(p) BY <1>0, IsWithin
<1>2. RegGoto("commit") \in RegThread /\ RegGoto("commit").pc = "commit"
      /\ RegGoto("commit").tx = regThread.tx /\ RegGoto("commit").draft = regThread.draft
  BY <1>0, RegGotoIs
<1>3. ASSUME regThread.tx = "open", p \notin lost
      PROVE /\ regThread.draft = With(Storages(p), regThread.in) /\ regThread.in <= NumFilters
            /\ Sees(p) = regThread.draft
  BY <1>0, <1>3, Open DEF Fits
<1>4. CASE regThread.in = NumFilters /\ regThread' = RegGoto("commit") /\ UNCHANGED <<reg, lost>>
  <2>1. ASSUME regThread.tx = "open", p \notin lost PROVE Fits(p, RegGoto("commit"))
    <3>1. regThread.draft = Whole(p) BY <1>3, <1>4, <2>1, Constants
    <3> QED BY <1>2, <3>1 DEF Fits
  <2> QED BY <1>1, <1>2, <1>4, <2>1, StepQuiet
<1>5. CASE regThread.in # NumFilters /\ RegInsert(p, rows, next)
  <2>0. regThread.in + 1 \in Nat /\ Sees(p).filters + 1 \in Nat BY RegFields
  <2>1. /\ next \in RegThread /\ next.tx = regThread.tx /\ next.pc = "insert_filters"
        /\ next.in = regThread.in + 1
    BY <1>0, <2>0 DEF RegLocal, RegThread
  <2>2. rows \in Rows BY <2>0, RegFields DEF Rows
  <2>3. ASSUME regThread.tx = "open", p \notin lost PROVE Fits(p, [next EXCEPT !.draft = rows])
    <3>1. rows = With(Storages(p), regThread.in + 1) BY <1>3, <2>3 DEF With
    <3>2. regThread.in + 1 <= NumFilters BY <1>3, <1>5, <2>3, RegFields, Constants
    <3> HIDE DEF rows, next
    <3>3. /\ [next EXCEPT !.draft = rows].pc = "insert_filters"
          /\ [next EXCEPT !.draft = rows].draft = rows
          /\ [next EXCEPT !.draft = rows].in = regThread.in + 1
      BY <2>1 DEF RegThread
    <3> QED BY <3>1, <3>2, <3>3 DEF Fits
  <2> HIDE DEF rows, next
  <2> QED BY <1>1, <1>5, <2>1, <2>2, <2>3, StepInsert
<1>6. CASE Refused(p, RegGoto("commit")) BY <1>1, <1>2, <1>6, StepRefused
<1> QED BY <1>4, <1>5, <1>6 DEF InsertFilters, FilterDone

\* COMMIT makes the draft the rows of the profile.
LEMMA StepRegCommit ==
  ASSUME NEW p \in ProfileTypes, RegLocal(p), RegCommit(p)
  PROVE RegisteredWhole' /\ regThread' = RegOff /\ UNCHANGED lost /\ reg' \in [ProfileTypes -> Rows]
<1>0. regThread.pc = "commit" /\ regThread' = RegOff /\ UNCHANGED lost BY DEF RegCommit, RegAt
<1>1. CASE UNCHANGED reg BY <1>0, <1>1 DEF RegLocal, RegisteredWhole
<1>2. CASE regThread.tx = "open" /\ reg' = [reg EXCEPT ![p] = regThread.draft]
  <2>1. reg' \in [ProfileTypes -> Rows] BY <1>2, RegFields DEF RegLocal
  <2>2. p \in lost \/ regThread.draft = Whole(p) BY <1>0, <1>2, Open DEF Fits
  <2>3. RegisteredWhole' BY <1>0, <1>2, <2>2 DEF RegLocal, RegisteredWhole
  <2> QED BY <1>0, <2>1, <2>3
<1>3. regThread.tx # "open" /\ reg' = [reg EXCEPT ![p] = reg[p]] => UNCHANGED reg
  BY DEF RegLocal
<1> QED BY <1>1, <1>2, <1>3 DEF RegCommit

\* Without a registration under way nothing depends on the profile at hand.
LEMMA NoRegistration ==
  ASSUME NEW p, NEW q, RegLocal(p), regThread.pc = "off" PROVE RegLocal(q)
BY DEF RegLocal, Fits

\* A step outside the registration.
LEMMA RegIdle ==
  ASSUME RegInv, UNCHANGED regVars, regThread.pc = "off" PROVE RegLocal(Prof)'
<1>1. \A q : RegLocal(q) BY NoRegistration DEF RegInv
<1>2. UNCHANGED <<reg, regThread, lost>> BY DEF regVars
<1>3. /\ reg' \in [ProfileTypes -> Rows] /\ regThread' \in RegThread /\ lost' \subseteq ProfileTypes
      /\ RegisteredWhole' /\ regThread'.pc = "off"
  BY <1>1, <1>2 DEF RegLocal, RegisteredWhole
<1> QED BY <1>3 DEF RegLocal, Fits

\* The thread at the start of a registration or after the end of the process.
LEMMA RegFresh ==
  ASSUME RegInv, UNCHANGED <<reg, lost>>, regThread' \in RegThread,
         regThread'.pc \in {"off", "begin"}, regThread'.tx = "none"
  PROVE RegLocal(Prof)'
BY DEF RegInv, RegLocal, RegisteredWhole

\* The states of the engine.
EngineSt == [pc : EnginePcs, i : Nat, daemon : BOOLEAN]

\* The engine goes on to the next profile or leaves the loop.
LEMMA AdvanceIs ==
  ASSUME NEW e \in EngineSt, e.i \in 1 .. Len(Profiles)
  PROVE /\ Advance(e) \in EngineSt
        /\ Advance(e).pc \in {"connect", "end"}
        /\ Advance(e).pc = "connect" => Advance(e).i \in 1 .. Len(Profiles)
<1>1. Len(Profiles) \in Nat /\ e.i + 1 \in Nat BY MediatorAssumption
<1>2. CASE e.i = Len(Profiles)
  <2>1. Advance(e) = [e EXCEPT !.pc = "end", !.i = @ + 1] BY <1>2 DEF Advance
  <2>2. Advance(e) \in EngineSt /\ Advance(e).pc = "end" BY <1>1, <2>1 DEF EngineSt, EnginePcs
  <2> QED BY <2>2
<1>3. CASE e.i # Len(Profiles)
  <2>1. Advance(e) = [e EXCEPT !.pc = "connect", !.i = @ + 1] BY <1>3 DEF Advance
  <2>2. /\ Advance(e) \in EngineSt /\ Advance(e).pc = "connect"
        /\ Advance(e).i = e.i + 1
    BY <1>1, <2>1 DEF EngineSt, EnginePcs
  <2> QED BY <1>1, <1>3, <2>2
<1> QED BY <1>2, <1>3

\* Where the engine starts.
LEMMA StartIs ==
  ASSUME NEW d \in BOOLEAN
  PROVE /\ EngineStart(d) \in EngineSt
        /\ EngineStart(d).pc \in {"connect", "end"}
        /\ EngineStart(d).pc = "connect" => EngineStart(d).i \in 1 .. Len(Profiles)
<1>1. Profiles # <<>> => 1 \in 1 .. Len(Profiles) BY MediatorAssumption
<1> QED BY <1>1 DEF EngineStart, EngineSt, EnginePcs

\* One statement of the registration.
LEMMA StepRegister == ASSUME RegInv, ~Mysql, EngineRegister PROVE RegInv'
<1>1. engine.pc = "register" /\ engine.i \in 1 .. Len(Profiles) /\ engine \in EngineSt
  BY DEF EngineRegister, RegInv, EngineInv, EngineSt
<1>2. Prof \in ProfileTypes BY <1>1, MediatorAssumption DEF Prof
<1>3. \/ engine' = engine /\ engine'.pc = "register"
      \/ /\ regThread'.pc = "off" /\ engine' \in EngineSt /\ engine'.i = engine.i
         /\ engine'.pc \in {"bind", "create"}
  BY <1>1 DEF EngineRegister, EngineSt, EnginePcs
<1>4. EngineInv' BY <1>1, <1>3 DEF EngineInv, EngineSt
<1>5. Prof' = Prof BY <1>3 DEF Prof
<1>6. CASE RegCommit(Prof)
  <2>1. RegisteredWhole' /\ regThread' = RegOff /\ UNCHANGED lost /\ reg' \in [ProfileTypes -> Rows]
    BY <1>2, <1>6, StepRegCommit DEF RegInv
  <2>2. RegLocal(Prof)' BY <2>1, Constants DEF RegLocal, RegInv
  <2> QED BY <1>4, <2>2 DEF RegInv
<1>7. CASE ~RegCommit(Prof)
  <2>1. \A p \in ProfileTypes : RegLocal(p) /\ RegisterStep(p) /\ ~RegCommit(p) => RegLocal(p)'
    BY StepRegBegin, StepProfileId, StepInsertProfile, StepServerId, StepInsertServer,
       StepDbstorage, StepInsertDbstorage, StepFilters, StepInsertFilters DEF RegisterStep
  <2>2. PICK p \in ProfileTypes : p = Prof BY <1>2
  <2>3. RegLocal(p)' BY <1>7, <2>1, <2>2 DEF RegInv, EngineRegister
  <2>4. RegLocal(Prof)' BY <1>5, <2>2, <2>3
  <2> QED BY <1>4, <2>4 DEF RegInv
<1> QED BY <1>6, <1>7

\* The other steps of the engine.
LEMMA StepEngine == ASSUME RegInv, ~Mysql, Engine PROVE RegInv'
<1>0. engine \in EngineSt /\ Len(Profiles) \in Nat
  BY MediatorAssumption DEF RegInv, EngineInv, EngineSt
<1>1. CASE EngineConnect
  <2>0. engine.pc = "connect" /\ engine.i \in 1 .. Len(Profiles) /\ regThread.pc = "off"
    BY <1>1 DEF EngineConnect, RegInv, EngineInv
  <2>1. CASE engine' = [engine EXCEPT !.pc = "register"] /\ regThread' = [RegOff EXCEPT !.pc = "begin"]
    <3>1. engine' \in EngineSt /\ engine'.pc = "register" /\ engine'.i = engine.i
      BY <1>0, <2>1 DEF EngineSt, EnginePcs
    <3>2. EngineInv' BY <2>0, <3>1 DEF EngineInv, EngineSt
    <3>3. regThread' \in RegThread /\ regThread'.pc = "begin" /\ regThread'.tx = "none"
      BY <2>1, Constants DEF RegOff, RegThread, RegPcs
    <3>4. RegLocal(Prof)' BY <1>1, <3>3, RegFresh DEF EngineConnect
    <3> QED BY <3>2, <3>4 DEF RegInv
  <2>2. CASE engine' = [engine EXCEPT !.pc = "end"] /\ UNCHANGED regThread
    <3>1. engine' \in EngineSt /\ engine'.pc = "end" BY <1>0, <2>2 DEF EngineSt, EnginePcs
    <3>2. EngineInv' BY <2>0, <2>2, <3>1 DEF EngineInv, EngineSt
    <3>3. RegLocal(Prof)' BY <1>1, <2>0, <2>2, RegIdle DEF EngineConnect, regVars
    <3> QED BY <3>2, <3>3 DEF RegInv
  <2> QED BY <1>1, <2>1, <2>2 DEF EngineConnect
<1>2. ASSUME UNCHANGED regVars, regThread.pc = "off", engine' \in EngineSt,
             engine'.pc \in {"connect", "register", "bind", "create", "join"} =>
               engine'.i \in 1 .. Len(Profiles)
      PROVE RegInv'
  <2>1. RegLocal(Prof)' BY <1>2, RegIdle
  <2>2. regThread'.pc = "off" BY <1>2 DEF regVars
  <2>3. EngineInv' BY <1>2, <2>2 DEF EngineInv, EngineSt
  <2> QED BY <2>1, <2>3 DEF RegInv
<1>3. CASE EngineBindRemote
  <2>0. UNCHANGED regVars /\ engine.i \in 1 .. Len(Profiles) /\ regThread.pc = "off"
    BY <1>3 DEF EngineBindRemote, RegInv, EngineInv
  <2>1. engine' \in EngineSt /\ engine'.i = engine.i
    BY <1>0, <1>3 DEF EngineBindRemote, EngineSt, EnginePcs
  <2> QED BY <1>2, <2>0, <2>1
<1>4. CASE EngineCreate
  <2>0. UNCHANGED regVars /\ engine.i \in 1 .. Len(Profiles) /\ regThread.pc = "off"
    BY <1>4 DEF EngineCreate, RegInv, EngineInv
  <2>1. CASE engine' = Advance(engine) BY <1>0, <1>2, <2>0, <2>1, AdvanceIs
  <2>2. CASE engine' = Advance([engine EXCEPT !.daemon = TRUE])
    <3> DEFINE e == [engine EXCEPT !.daemon = TRUE]
    <3>1. e \in EngineSt /\ e.i = engine.i BY <1>0 DEF EngineSt
    <3>2. engine' = Advance(e) BY <2>2
    <3> HIDE DEF e
    <3> QED BY <1>2, <2>0, <3>1, <3>2, AdvanceIs
  <2>3. CASE engine' = [engine EXCEPT !.pc = "join"]
    <3>1. engine' \in EngineSt /\ engine'.i = engine.i BY <1>0, <2>3 DEF EngineSt, EnginePcs
    <3> QED BY <1>2, <2>0, <3>1
  <2> QED BY <1>4, <2>1, <2>2, <2>3 DEF EngineCreate, Created
<1>5. CASE EngineJoin
  <2>0. UNCHANGED regVars /\ engine.i \in 1 .. Len(Profiles) /\ regThread.pc = "off"
    BY <1>5 DEF EngineJoin, RegInv, EngineInv
  <2> QED BY <1>0, <1>2, <1>5, <2>0, AdvanceIs DEF EngineJoin
<1>6. CASE EngineEnd
  <2>0. UNCHANGED regVars /\ regThread.pc = "off" BY <1>6 DEF EngineEnd, RegInv, EngineInv
  <2>1. engine' \in EngineSt /\ engine'.pc \in {"running", "freed"}
    BY <1>0, <1>6 DEF EngineEnd, EngineSt, EnginePcs
  <2> QED BY <1>2, <2>0, <2>1
<1> QED BY <1>1, <1>3, <1>4, <1>5, <1>6, StepRegister DEF Engine

\* The steps of the other threads, of the switches and of a restart.
LEMMA StepReg == ASSUME RegInv, ~Mysql, [Next]_vars PROVE RegInv' /\ ~Mysql'
<1>0. ~Mysql' BY StoreSteps, StoreGrows DEF Growing
<1>1. CASE UNCHANGED regVars /\ UNCHANGED engine
  <2>1. UNCHANGED <<reg, regThread, lost, engine>> BY <1>1 DEF regVars
  <2>2. Prof' = Prof /\ EngineInv' BY <2>1 DEF Prof, RegInv, EngineInv
  <2>3. RegisteredWhole' BY <2>1 DEF RegInv, RegLocal, RegisteredWhole
  <2>4. RegLocal(Prof)' BY <2>1, <2>2, <2>3 DEF RegInv, RegLocal, Fits
  <2> QED BY <1>0, <2>2, <2>4 DEF RegInv
<1>2. CASE FileProfile \/ StorageProfile \/ (\E c \in Calls : Rate(c)) \/ Environment \/ UNCHANGED vars
  BY <1>1, <1>2 DEF FileProfile, StorageProfile, Rate, Environment, vars, regVars
<1>3. CASE Crash \/ StartAgain \/ Abort
  <2>1. regThread' = RegOff /\ (\E d \in BOOLEAN : engine' = EngineStart(d)) /\ UNCHANGED <<reg, lost>>
    BY <1>3 DEF Crash, StartAgain, ProcessEnd, Abort
  <2>2. RegLocal(Prof)' BY <2>1, Constants, RegFresh
  <2>3. EngineInv' BY <2>1, Constants, StartIs DEF EngineInv, EngineSt
  <2> QED BY <1>0, <2>2, <2>3 DEF RegInv
<1> QED BY <1>0, <1>2, <1>3, StepEngine DEF Next

\* The tables hold a profile as a whole or not at all (cdr_cfg_profile_insert),
\* for any number of profiles and filters, any refused statements, any crash
\* and any number of starts, unless its registration lost the connection.
THEOREM ProfilesWhole == Spec => []RegisteredWhole
<1>1. ASSUME Init PROVE RegInv /\ ~Mysql
  <2>1. reg = [p \in ProfileTypes |-> NoRows] /\ regThread = RegOff /\ lost = {}
        /\ \E d \in BOOLEAN : engine = EngineStart(d)
    BY <1>1 DEF Init, ProfileInit
  <2>2. reg \in [ProfileTypes -> Rows] /\ RegisteredWhole
    BY <2>1, Constants DEF RegisteredWhole
  <2>3. RegLocal(Prof) BY <2>1, <2>2, Constants DEF RegLocal
  <2>4. EngineInv BY <2>1, Constants, StartIs DEF EngineInv, EngineSt
  <2>5. ~Mysql BY <1>1, MediatorAssumption DEF Init, StoreInit, Mysql
  <2> QED BY <2>3, <2>4, <2>5 DEF RegInv
<1>2. RegInv => RegisteredWhole BY DEF RegInv, RegLocal
<1> QED BY <1>1, <1>2, StepReg, PTL DEF Spec

------------------------------------------------------------------------------
(* The database profile *)

\* How long after its timestamp a row of the switch has been visible at most when
\* n polls have ended without storing it: its delay, and one interval for each.
Late(n) == Delay + n * Interval

\* The look-back reaches over the delay of a row and the polls that can pass in
\* between, two for each failure and one more, and a day is an interval longer.
LookBackCovers ==
  /\ Late(2 * MaxFaults + 1) <= MaxsecLimit + Margin
  /\ Late(2 * MaxFaults + 2) <= Day

\* The states of the thread of a database profile.
StorageThread ==
  [pc : StoragePcs, ts : Int, chk : Int, num : {0, 1}, rows : SUBSET Remote,
   clean : BOOLEAN, due : SUBSET Remote]

\* The thread is between the plan of a poll and its end.
InPoll == storage.pc \in {"connect", "select", "rows", "sched"}

\* The rows that a poll has to find.
Missing(c) == stamp[c] # NoRow /\ SchedTs <= stamp[c] /\ c \notin Stored \cup failed

\* A row of the schedule that the next poll of its cycle looks back from.
Ready(r) == CycleStart(Cycle(r.last)) <= r.ts

\* The poll that is under way reads the row of call c.
Hit(c) ==
  /\ storage.ts <= stamp[c]
  /\ storage.pc # "sched"
  /\ storage.pc = "rows" => c \in storage.rows

\* The poll that is under way reads the current cycle only, and makes the schedule ready.
Miss(c) ==
  /\ storage.num = 1
  /\ storage.ts = CycleStart(Cycle(storage.chk))
  /\ polls[c] <= faults

\* The clock, the schedule and the thread: the time of a poll stands still.
ClockInv ==
  /\ Sql
  /\ faults \in Nat /\ faults <= MaxFaults
  /\ now \in Nat /\ SchedTs <= now
  /\ stamp \in [Remote -> Int] /\ polls \in [Remote -> Nat]
  /\ storage \in StorageThread
  /\ InPoll => storage.chk = now
  /\ storage.pc = "idle" => storage.chk <= now /\ now <= storage.chk + Interval
  /\ \A r \in sched : r.last \in Nat /\ r.ts \in Int /\ SchedTs <= r.last /\ r.last <= now

\* A call without a row has not been polled for.
NotYet(c) == stamp[c] = NoRow => polls[c] = 0 /\ c \notin storage.due

\* The row of a call that is not stored is not old, for the polls that missed it;
\* these are at most one more than the failures, and then the schedule is ready.
RowInv(c) ==
  LET late == stamp[c] + Late(polls[c] + faults) IN
  /\ now <= late + Interval
  /\ storage.pc = "idle" => storage.chk <= late
  /\ \A r \in sched : r.last <= late
  /\ polls[c] <= faults \/ (polls[c] = faults + 1 /\ \A r \in sched : Ready(r))
  /\ InPoll /\ ~storage.clean => polls[c] <= faults /\ now <= late
  /\ InPoll /\ storage.clean /\ c \in storage.due => Hit(c) \/ Miss(c)
  /\ InPoll /\ c \notin storage.due => polls[c] = 0 /\ now <= late

\* The inductive invariant of the schedule.
SchedInv ==
  /\ ClockInv
  /\ \A c \in Remote : NotYet(c) /\ (Missing(c) => RowInv(c))

\* The constants of the schedule.
LEMMA SchedConstants ==
  /\ SchedTs \in Nat /\ Day \in Nat /\ Day > 0 /\ Interval \in Nat /\ Interval > 0 /\ Delay \in Nat
  /\ MaxsecLimit \in Nat /\ Margin \in Nat /\ MaxFaults \in Nat
BY StorageAssumption, StoreAssumption

\* Products grow with their first factor.
LEMMA TimesGrows ==
  ASSUME NEW a \in Nat, NEW b \in Nat, NEW k \in Nat, a <= b
  PROVE  a * k <= b * k
<1>1. PICK d \in Nat : b = a + d
  <2>1. b - a \in Nat /\ b = a + (b - a) OBVIOUS
  <2> QED BY <2>1
<1>2. b * k = a * k + d * k /\ a * k \in Nat /\ d * k \in Nat BY <1>1
<1> QED BY <1>2

\* Each poll adds an interval.
LEMMA LateFacts ==
  ASSUME NEW n \in Nat
  PROVE  /\ Late(n) \in Nat /\ Delay <= Late(n) /\ Late(n + 1) = Late(n) + Interval
         /\ \A m \in Nat : n <= m => Late(n) <= Late(m)
<1>1. n * Interval \in Nat /\ (n + 1) * Interval = n * Interval + Interval BY SchedConstants
<1>2. \A m \in Nat : m * Interval \in Nat /\ (n <= m => n * Interval <= m * Interval)
  BY SchedConstants, TimesGrows
<1> QED BY <1>1, <1>2, SchedConstants DEF Late

\* The start of a cycle comes before the times of the cycle, which end with the day.
LEMMA CycleFacts ==
  ASSUME NEW t \in Nat, SchedTs <= t
  PROVE  /\ Cycle(t) \in Nat /\ CycleStart(Cycle(t)) \in Nat /\ SchedTs <= CycleStart(Cycle(t))
         /\ CycleStart(Cycle(t)) <= t /\ t < CycleStart(Cycle(t)) + Day
         /\ CycleStart(Cycle(t)) = Cycle(t) * Day + SchedTs
<1> DEFINE u == t - SchedTs
           q == u \div Day
           m == u % Day
<1>1. u \in Nat BY SchedConstants
<1> HIDE DEF u
<1>2. q \in Nat /\ m \in Nat /\ m < Day BY <1>1, SchedConstants
<1>3. u = Day * q + m BY <1>1, SchedConstants
<1> HIDE DEF q, m
<1>4. Day * q = q * Day /\ q * Day \in Nat BY <1>2, SchedConstants
<1>5. Cycle(t) = q BY DEF Cycle, q, u
<1>6. t = q * Day + SchedTs + m BY <1>2, <1>3, <1>4, SchedConstants DEF u
<1>7. CycleStart(Cycle(t)) = q * Day + SchedTs BY <1>5 DEF CycleStart
<1> DEFINE p == q * Day
<1> HIDE DEF p
<1>8. p \in Nat /\ t = p + SchedTs + m /\ CycleStart(Cycle(t)) = p + SchedTs BY <1>4, <1>6, <1>7 DEF p
<1>9. Cycle(t) \in Nat /\ CycleStart(Cycle(t)) = Cycle(t) * Day + SchedTs BY <1>2, <1>5, <1>7
<1> QED BY <1>2, <1>8, <1>9, SchedConstants

\* A time before the start of a later cycle lies a day before that start, with its own cycle.
LEMMA CyclesApart ==
  ASSUME NEW a \in Nat, NEW b \in Nat, SchedTs <= a, a <= b
  PROVE  /\ CycleStart(Cycle(b)) <= a => CycleStart(Cycle(a)) = CycleStart(Cycle(b))
         /\ a < CycleStart(Cycle(b)) => CycleStart(Cycle(a)) + Day <= CycleStart(Cycle(b))
<1> DEFINE p == Cycle(a)
           q == Cycle(b)
           x == CycleStart(Cycle(a))
           y == CycleStart(Cycle(b))
<1>0. SchedTs <= b BY SchedConstants
<1>1. p \in Nat /\ x \in Nat /\ x <= a /\ a < x + Day /\ x = p * Day + SchedTs BY CycleFacts
<1>2. q \in Nat /\ y \in Nat /\ y <= b /\ b < y + Day /\ y = q * Day + SchedTs BY <1>0, CycleFacts
<1> HIDE DEF p, q, x, y
<1>3. p * Day \in Nat /\ q * Day \in Nat /\ (p + 1) * Day = p * Day + Day
      /\ (q + 1) * Day = q * Day + Day /\ p + 1 \in Nat /\ q + 1 \in Nat
  BY <1>1, <1>2, SchedConstants
<1>4. q + 1 <= p => y + Day <= x BY <1>1, <1>2, <1>3, TimesGrows, SchedConstants
<1>5. p + 1 <= q => x + Day <= y BY <1>1, <1>2, <1>3, TimesGrows, SchedConstants
<1>6. ~(q + 1 <= p) BY <1>1, <1>2, <1>4, SchedConstants
<1>7. p = q \/ p + 1 <= q BY <1>1, <1>2, <1>6
<1>8. p = q => x = y BY <1>1, <1>2
<1>9. /\ y <= a => x = y
      /\ a < y => x + Day <= y
  BY <1>1, <1>2, <1>5, <1>7, <1>8, SchedConstants
<1> QED BY <1>9 DEF x, y

\* The plan of a poll from a row of the schedule reads from before t, when t is not
\* too old, or it reads the current cycle because the row was not ready
\* (cdr_storage_sched_set_ts).
LEMMA SetTsReaches ==
  ASSUME NEW r, r.last \in Nat, r.ts \in Int, NEW n \in Nat, NEW t \in Int,
         SchedTs <= r.last, r.last <= n, SchedTs <= t, r.last <= t + MaxsecLimit + Margin,
         n <= t + Day
  PROVE  /\ SetTs(r, n) \in Int
         /\ SetTs(r, n) <= t \/ (SetTs(r, n) = CycleStart(Cycle(n)) /\ ~Ready(r))
<1> DEFINE curr == CycleStart(Cycle(n))
           prev == CycleStart(Cycle(r.last))
<1>0. SchedTs <= n BY SchedConstants
<1>1. curr \in Nat /\ curr <= n BY <1>0, CycleFacts
<1>2. prev \in Nat BY CycleFacts
<1>3. (curr <= r.last => prev = curr) /\ (r.last < curr => prev + Day <= curr) BY CyclesApart
<1>4. SetTs(r, n) \in {SchedTs} \/ (r.last < curr /\ SetTs(r, n) = prev)
      \/ (curr <= r.last /\ curr <= r.ts /\ SetTs(r, n) = r.last - (MaxsecLimit + Margin))
      \/ (curr <= r.last /\ r.ts < curr /\ SetTs(r, n) = curr)
  BY <1>1, SchedConstants DEF SetTs
<1>5. Ready(r) <=> prev <= r.ts BY DEF Ready
<1> HIDE DEF curr, prev
<1> QED BY <1>1, <1>2, <1>3, <1>4, <1>5, SchedConstants DEF curr

\* A step fails once at most.
LEMMA FaultsGrow ==
  ASSUME StoreStep, faults \in Nat, faults <= MaxFaults
  PROVE  faults' \in Nat /\ faults' <= MaxFaults /\ (faults' = faults \/ faults' = faults + 1)
<1>1. (faults < MaxFaults /\ faults' = faults + 1) \/ faults' = faults
  BY DEF StoreStep, NoFault, FailOnly, storeVars, AddInDb, AddInDbFails, UpdateCdr, Fault
<1> QED BY <1>1, SchedConstants

\* The fields of the thread.
LEMMA StorageFields ==
  ASSUME storage \in StorageThread
  PROVE  /\ storage.pc \in StoragePcs /\ storage.ts \in Int /\ storage.chk \in Int
         /\ storage.num \in {0, 1} /\ storage.rows \in SUBSET Remote
         /\ storage.clean \in BOOLEAN /\ storage.due \in SUBSET Remote
BY DEF StorageThread

\* What is known of a call that is missing before and after a step.
LEMMA StillMissing ==
  ASSUME SchedInv, StoreStep, NEW c \in Remote, Missing(c)', stamp'[c] = stamp[c]
  PROVE  Missing(c) /\ RowInv(c)
BY StoreGrows DEF SchedInv, Missing, Growing

\* The bound on the age of a row of the schedule grows with the polls and the failures.
LEMMA LateStep ==
  ASSUME SchedInv, StoreStep, NEW c \in Remote, polls'[c] \in {polls[c], polls[c] + 1}
  PROVE  /\ Late(polls[c] + faults) \in Nat /\ Late(polls[c] + faults)' \in Nat
         /\ Late(polls[c] + faults) <= Late(polls[c] + faults)'
         /\ polls'[c] + faults' # polls[c] + faults =>
              Late(polls[c] + faults) + Interval <= Late(polls[c] + faults)'
         /\ Delay <= Late(polls[c] + faults)'
<1>1. polls[c] \in Nat /\ faults \in Nat /\ faults <= MaxFaults BY DEF SchedInv, ClockInv
<1>2. faults' \in Nat /\ (faults' = faults \/ faults' = faults + 1) BY <1>1, FaultsGrow
<1> DEFINE m == polls[c] + faults
           n == polls'[c] + faults'
<1>3. m \in Nat /\ n \in Nat /\ m <= n /\ (n # m => m + 1 <= n) /\ m + 1 \in Nat BY <1>1, <1>2
<1>4. Late(polls[c] + faults)' = Late(n) BY DEF Late
<1> HIDE DEF m, n
<1>5. Late(m) \in Nat /\ Late(n) \in Nat /\ Late(m) <= Late(n) /\ Delay <= Late(n)
  BY <1>3, LateFacts
<1>6. n # m => Late(m) + Interval <= Late(n) BY <1>3, LateFacts
<1> QED BY <1>4, <1>5, <1>6 DEF m, n

\* A step of the thread that leaves the clock, the rows, the schedule and the
\* count of the polls alone.
LEMMA ThreadMoves ==
  ASSUME SchedInv, StoreStep, UNCHANGED <<now, stamp, sched, polls>>,
         storage' \in StorageThread,
         InPoll' => storage'.chk = now,
         storage'.pc = "idle" => storage'.chk <= now /\ now <= storage'.chk + Interval,
         \A c \in Remote : NotYet(c)',
         \A c \in Remote : Missing(c)' =>
           /\ storage'.pc = "idle" => storage'.chk <= stamp[c] + Late(polls[c] + faults)'
           /\ InPoll' /\ ~storage'.clean => polls[c] <= faults' /\ now <= stamp[c] + Late(polls[c] + faults)'
           /\ InPoll' /\ storage'.clean /\ c \in storage'.due => Hit(c)' \/ Miss(c)'
           /\ InPoll' /\ c \notin storage'.due => polls[c] = 0 /\ now <= stamp[c] + Late(polls[c] + faults)'
  PROVE  SchedInv'
<1>1. ClockInv BY DEF SchedInv
<1>2. faults' \in Nat /\ faults' <= MaxFaults /\ (faults' = faults \/ faults' = faults + 1)
      /\ faults \in Nat
  BY <1>1, FaultsGrow DEF ClockInv
<1>3. Sql' BY <1>1, StoreGrows DEF ClockInv, Growing
<1>4. ClockInv' BY <1>1, <1>2, <1>3 DEF ClockInv
<1>5. ASSUME NEW c \in Remote, Missing(c)' PROVE RowInv(c)'
  <2>1. RowInv(c) BY <1>5, StillMissing
  <2>2. polls[c] \in Nat /\ stamp[c] \in Int /\ now \in Nat BY <1>1 DEF ClockInv
  <2> DEFINE old == Late(polls[c] + faults)
             new == Late(polls[c] + faults)'
  <2>3. old \in Nat /\ new \in Nat /\ old <= new BY LateStep
  <2>4. \A r \in sched : r.last \in Nat BY <1>1 DEF ClockInv
  <2>5. /\ now <= stamp[c] + old + Interval
        /\ \A r \in sched : r.last <= stamp[c] + old
        /\ polls[c] <= faults \/ (polls[c] = faults + 1 /\ \A r \in sched : Ready(r))
    BY <2>1 DEF RowInv
  <2>6. /\ storage'.pc = "idle" => storage'.chk <= stamp[c] + new
        /\ InPoll' /\ ~storage'.clean => polls[c] <= faults' /\ now <= stamp[c] + new
        /\ InPoll' /\ storage'.clean /\ c \in storage'.due => Hit(c)' \/ Miss(c)'
        /\ InPoll' /\ c \notin storage'.due => polls[c] = 0 /\ now <= stamp[c] + new
    BY <1>5
  <2> HIDE DEF old
  <2>7. now <= stamp[c] + new + Interval BY <2>2, <2>3, <2>5, SchedConstants
  <2>8. \A r \in sched : r.last <= stamp[c] + new BY <2>2, <2>3, <2>4, <2>5
  <2>9. polls[c] <= faults' \/ (polls[c] = faults' + 1 /\ \A r \in sched : Ready(r))
    BY <1>2, <2>2, <2>5
  <2>10. \A r : Ready(r)' <=> Ready(r) BY DEF Ready
  <2> QED BY <2>6, <2>7, <2>8, <2>9, <2>10 DEF RowInv
<1> QED BY <1>4, <1>5 DEF SchedInv

\* A step of another thread.
LEMMA StorageAlone == ASSUME SchedInv, StoreStep, UNCHANGED storageVars PROVE SchedInv'
<1>0. UNCHANGED <<now, stamp, sched, storage, polls>> BY DEF storageVars
<1>1. ClockInv /\ faults \in Nat /\ faults <= MaxFaults BY DEF SchedInv, ClockInv
<1>2. faults' \in Nat /\ (faults' = faults \/ faults' = faults + 1) BY <1>1, FaultsGrow
<1>3. InPoll' <=> InPoll BY <1>0 DEF InPoll
<1>4. \A c \in Remote : NotYet(c)' BY <1>0 DEF SchedInv, NotYet
<1>5. /\ storage' \in StorageThread
      /\ InPoll' => storage'.chk = now
      /\ storage'.pc = "idle" => storage'.chk <= now /\ now <= storage'.chk + Interval
  BY <1>0, <1>1, <1>3 DEF ClockInv
<1>6. ASSUME NEW c \in Remote, Missing(c)'
      PROVE  /\ storage'.pc = "idle" => storage'.chk <= stamp[c] + Late(polls[c] + faults)'
             /\ InPoll' /\ ~storage'.clean =>
                  polls[c] <= faults' /\ now <= stamp[c] + Late(polls[c] + faults)'
             /\ InPoll' /\ storage'.clean /\ c \in storage'.due => Hit(c)' \/ Miss(c)'
             /\ InPoll' /\ c \notin storage'.due =>
                  polls[c] = 0 /\ now <= stamp[c] + Late(polls[c] + faults)'
  <2>1. RowInv(c) BY <1>0, <1>6, StillMissing
  <2>2. polls[c] \in Nat /\ stamp[c] \in Int /\ now \in Nat /\ storage.chk \in Int
    BY <1>1, StorageFields DEF ClockInv
  <2> DEFINE old == Late(polls[c] + faults)
             new == Late(polls[c] + faults)'
  <2>3. old \in Nat /\ new \in Nat /\ old <= new BY <1>0, LateStep
  <2>4. /\ storage.pc = "idle" => storage.chk <= stamp[c] + old
        /\ InPoll /\ ~storage.clean => polls[c] <= faults /\ now <= stamp[c] + old
        /\ InPoll /\ storage.clean /\ c \in storage.due => Hit(c) \/ Miss(c)
        /\ InPoll /\ c \notin storage.due => polls[c] = 0 /\ now <= stamp[c] + old
    BY <2>1 DEF RowInv
  <2> HIDE DEF old, new
  <2>5. (Hit(c) => Hit(c)') /\ (Miss(c) => Miss(c)') BY <1>0, <1>1, <1>2, <2>2 DEF Hit, Miss
  <2>6. /\ storage'.pc = "idle" => storage'.chk <= stamp[c] + new
        /\ InPoll' /\ ~storage'.clean => polls[c] <= faults' /\ now <= stamp[c] + new
        /\ InPoll' /\ c \notin storage'.due => polls[c] = 0 /\ now <= stamp[c] + new
    BY <1>0, <1>1, <1>2, <1>3, <2>2, <2>3, <2>4
  <2>7. InPoll' /\ storage'.clean /\ c \in storage'.due => Hit(c)' \/ Miss(c)'
    BY <1>0, <1>3, <2>4, <2>5
  <2> QED BY <2>6, <2>7 DEF new
<1> QED BY <1>0, <1>4, <1>5, <1>6, ThreadMoves

\* A thread that has ended, or has not begun, and the one that has just been created.
LEMMA StorageFresh ==
  ASSUME SchedInv, StoreStep, UNCHANGED <<now, stamp, sched, polls>>, storage' \in StorageThread,
         storage'.due = {},
         \/ storage'.pc \in {"off", "done"}
         \/ storage'.pc = "idle" /\ storage'.chk = now - Interval
  PROVE  SchedInv'
<1>1. ClockInv /\ now \in Nat BY DEF SchedInv, ClockInv
<1>2. ~InPoll' BY DEF InPoll
<1>3. \A c \in Remote : NotYet(c)' BY DEF SchedInv, NotYet
<1>4. storage'.pc = "idle" => storage'.chk <= now /\ now <= storage'.chk + Interval
  BY <1>1, SchedConstants
<1>5. ASSUME NEW c \in Remote, Missing(c)', storage'.pc = "idle"
      PROVE storage'.chk <= stamp[c] + Late(polls[c] + faults)'
  <2>1. RowInv(c) BY <1>5, StillMissing
  <2>2. stamp[c] \in Int /\ now \in Nat BY <1>1 DEF ClockInv
  <2> DEFINE old == Late(polls[c] + faults)
             new == Late(polls[c] + faults)'
  <2>3. old \in Nat /\ new \in Nat /\ old <= new BY LateStep
  <2>4. now <= stamp[c] + old + Interval BY <2>1 DEF RowInv
  <2> HIDE DEF old, new
  <2>5. storage'.chk <= stamp[c] + new BY <1>5, <2>2, <2>3, <2>4, SchedConstants
  <2> QED BY <2>5 DEF new
<1> QED BY <1>2, <1>3, <1>4, <1>5, ThreadMoves

\* The plan of a poll finds every missing row, or reads a cycle that makes the schedule ready.
LEMMA StepPlan == ASSUME LookBackCovers, SchedInv, Plan PROVE SchedInv'
<1>0. StoreStep BY DEF Plan, StoreStep
<1>1. ClockInv /\ faults \in Nat /\ faults <= MaxFaults /\ now \in Nat /\ SchedTs <= now
  BY DEF SchedInv, ClockInv
<1>2. PICK r \in sched \cup {NoSched}, num \in {0, 1} :
        /\ \/ NoFault /\ r \in sched /\ num = 1
           \/ NoFault /\ sched = {} /\ num = 0
           \/ FailOnly /\ r = NoSched /\ num = 0
        /\ storage' = [pc |-> "connect", ts |-> SetTs(r, now), chk |-> now, num |-> num,
                       rows |-> {}, clean |-> TRUE,
                       due |-> {c \in Remote : stamp[c] # NoRow}]
  BY DEF Plan
<1>3. UNCHANGED <<now, stamp, sched, polls>> BY DEF Plan
<1>4. /\ storage'.pc = "connect" /\ storage'.ts = SetTs(r, now) /\ storage'.chk = now
      /\ storage'.num = num /\ storage'.clean = TRUE
      /\ storage'.due = {c \in Remote : stamp[c] # NoRow}
  BY <1>2
<1>5. CASE r = NoSched /\ num = 0
  <2>1. SetTs(r, now) = SchedTs BY <1>5 DEF SetTs, NoSched
  <2>2. storage' \in StorageThread
    BY <1>1, <1>2, <2>1, SchedConstants DEF StorageThread, StoragePcs
  <2>3. \A c \in Remote : Missing(c)' => Hit(c)'
    BY <1>3, <1>4, <2>1 DEF Missing, Hit
  <2>4. \A c \in Remote : NotYet(c)' BY <1>3, <1>4 DEF SchedInv, NotYet
  <2>5. \A c \in Remote : Missing(c)' => c \in storage'.due BY <1>3, <1>4 DEF Missing
  <2> QED BY <1>0, <1>1, <1>3, <1>4, <2>2, <2>3, <2>4, <2>5, SchedConstants, ThreadMoves
<1>6. CASE NoFault /\ r \in sched /\ num = 1
  <2>0. r.last \in Nat /\ r.ts \in Int /\ SchedTs <= r.last /\ r.last <= now
    BY <1>1, <1>6 DEF ClockInv
  <2>1. faults' = faults BY <1>6 DEF NoFault, storeVars
  <2>2. ASSUME NEW c \in Remote, Missing(c)' PROVE Hit(c)' \/ Miss(c)'
    <3>1. RowInv(c) /\ Missing(c) BY <1>0, <1>3, <2>2, StillMissing
    <3>2. stamp[c] \in Int /\ polls[c] \in Nat /\ SchedTs <= stamp[c]
      BY <1>1, <3>1 DEF ClockInv, Missing
    <3> DEFINE k == polls[c] + faults
               top == 2 * MaxFaults + 1
    <3>3. polls[c] <= faults \/ (polls[c] = faults + 1 /\ \A q \in sched : Ready(q))
      BY <3>1 DEF RowInv
    <3>4. k \in Nat /\ top \in Nat /\ k <= top /\ top + 1 = 2 * MaxFaults + 2
      BY <1>1, <3>2, <3>3, SchedConstants
    <3>5. now <= stamp[c] + Late(k) + Interval /\ r.last <= stamp[c] + Late(k)
      BY <1>6, <3>1 DEF RowInv
    <3> HIDE DEF k, top
    <3>6. Late(k) \in Nat /\ Late(top) \in Nat /\ Late(k) <= Late(top)
          /\ Late(top + 1) = Late(top) + Interval
      BY <3>4, LateFacts
    <3>7. Late(top) <= MaxsecLimit + Margin /\ Late(top) + Interval <= Day
      BY <3>4, <3>6 DEF LookBackCovers, top
    <3>8. r.last <= stamp[c] + MaxsecLimit + Margin /\ now <= stamp[c] + Day
      BY <1>1, <2>0, <3>2, <3>5, <3>6, <3>7, SchedConstants
    <3>9. SetTs(r, now) <= stamp[c] \/ (SetTs(r, now) = CycleStart(Cycle(now)) /\ ~Ready(r))
      BY <1>1, <2>0, <3>2, <3>8, SetTsReaches
    <3>10. CASE SetTs(r, now) <= stamp[c] BY <1>3, <1>4, <3>10 DEF Hit
    <3>11. CASE SetTs(r, now) = CycleStart(Cycle(now)) /\ ~Ready(r)
      <4>1. polls[c] <= faults BY <1>6, <3>3, <3>11
      <4> QED BY <1>3, <1>4, <1>6, <2>1, <3>11, <4>1 DEF Miss, CycleStart, Cycle
    <3> QED BY <3>9, <3>10, <3>11
  <2>3. SetTs(r, now) \in Int
    <3>1. CycleStart(Cycle(now)) \in Nat /\ CycleStart(Cycle(r.last)) \in Nat
      BY <1>1, <2>0, CycleFacts
    <3> QED BY <2>0, <3>1, SchedConstants DEF SetTs
  <2>4. storage' \in StorageThread BY <1>1, <1>2, <2>3 DEF StorageThread, StoragePcs
  <2>5. \A c \in Remote : NotYet(c)' BY <1>3, <1>4 DEF SchedInv, NotYet
  <2>6. \A c \in Remote : Missing(c)' => c \in storage'.due BY <1>3, <1>4 DEF Missing
  <2> QED BY <1>0, <1>1, <1>3, <1>4, <2>2, <2>4, <2>5, <2>6, SchedConstants, ThreadMoves
<1> QED BY <1>2, <1>5, <1>6

\* The end of a poll.
LEMMA PollEndIs ==
  ASSUME storage \in StorageThread, NEW a, storage' = PollEnd(a)
  PROVE  /\ storage' \in StorageThread /\ storage'.pc \in {"idle", "done"}
         /\ storage'.chk = storage.chk /\ storage'.due = {}
<1>1. storage' = [storage EXCEPT !.pc = IF a THEN "idle" ELSE "done", !.rows = {}, !.due = {}]
  BY DEF PollEnd
<1>2. (IF a THEN "idle" ELSE "done") \in {"idle", "done"} OBVIOUS
<1> DEFINE p == IF a THEN "idle" ELSE "done"
<1> HIDE DEF p
<1>3. storage' = [storage EXCEPT !.pc = p, !.rows = {}, !.due = {}] /\ p \in {"idle", "done"}
  BY <1>1, <1>2 DEF p
<1> QED BY <1>3, StorageFields DEF StorageThread, StoragePcs

\* A connection, or none: then the poll ends, and one more has failed.
LEMMA StepConnect == ASSUME SchedInv, NEW a, Connect(a) PROVE SchedInv'
<1>0. StoreStep BY DEF Connect, StoreStep
<1>1. ClockInv /\ storage \in StorageThread /\ storage.pc = "connect" /\ InPoll
  BY DEF SchedInv, ClockInv, Connect, InPoll
<1>2. UNCHANGED <<now, stamp, sched, polls>> BY DEF Connect
<1>3. faults \in Nat /\ now \in Nat /\ storage.chk = now BY <1>1 DEF ClockInv
<1>4. CASE NoFault /\ StorageGoto("select")
  <2>1. faults' = faults BY <1>4 DEF NoFault, storeVars
  <2>2. storage' = [storage EXCEPT !.pc = "select"] BY <1>4 DEF StorageGoto
  <2>3. /\ storage' \in StorageThread /\ storage'.pc = "select" /\ storage'.ts = storage.ts
        /\ storage'.chk = storage.chk /\ storage'.num = storage.num
        /\ storage'.clean = storage.clean /\ storage'.due = storage.due
    BY <1>1, <2>2, StorageFields DEF StorageThread, StoragePcs
  <2>4. InPoll' BY <2>3 DEF InPoll
  <2>5. \A c \in Remote : NotYet(c)' BY <1>2, <2>3 DEF SchedInv, NotYet
  <2>6. ASSUME NEW c \in Remote, Missing(c)'
        PROVE  /\ ~storage'.clean => polls[c] <= faults' /\ now <= stamp[c] + Late(polls[c] + faults)'
               /\ storage'.clean /\ c \in storage'.due => Hit(c)' \/ Miss(c)'
               /\ c \notin storage'.due => polls[c] = 0 /\ now <= stamp[c] + Late(polls[c] + faults)'
    <3>1. RowInv(c) BY <1>0, <1>2, <2>6, StillMissing
    <3>2. Late(polls[c] + faults)' = Late(polls[c] + faults) BY <1>2, <2>1 DEF Late
    <3>3. (Hit(c) => Hit(c)') /\ (Miss(c) => Miss(c)') BY <1>2, <2>1, <2>3 DEF Hit, Miss
    <3> QED BY <1>1, <2>1, <2>3, <3>1, <3>2, <3>3 DEF RowInv
  <2> QED BY <1>0, <1>2, <1>3, <2>3, <2>4, <2>5, <2>6, ThreadMoves
<1>5. CASE FailOnly /\ storage' = PollEnd(a)
  <2>1. faults' = faults + 1 BY <1>5 DEF FailOnly, Fault
  <2>2. /\ storage' \in StorageThread /\ storage'.pc \in {"idle", "done"}
        /\ storage'.chk = storage.chk /\ storage'.due = {}
    BY <1>1, <1>5, PollEndIs
  <2>3. ~InPoll' BY <2>2 DEF InPoll
  <2>4. \A c \in Remote : NotYet(c)' BY <1>2, <2>2 DEF SchedInv, NotYet
  <2>5. ASSUME NEW c \in Remote, Missing(c)'
        PROVE storage'.chk <= stamp[c] + Late(polls[c] + faults)'
    <3>1. RowInv(c) BY <1>0, <1>2, <2>5, StillMissing
    <3>2. stamp[c] \in Int /\ polls[c] \in Nat BY <1>1 DEF ClockInv
    <3> DEFINE old == Late(polls[c] + faults)
               new == Late(polls[c] + faults)'
    <3>3. old \in Nat /\ new \in Nat /\ old + Interval <= new BY <1>0, <1>2, <1>3, <2>1, <3>2, LateStep
    <3>4. now <= stamp[c] + old + Interval BY <3>1 DEF RowInv
    <3> HIDE DEF old, new
    <3>5. storage'.chk <= stamp[c] + new BY <1>3, <2>2, <3>2, <3>3, <3>4, SchedConstants
    <3> QED BY <3>5 DEF new
  <2>6. storage'.chk <= now /\ now <= storage'.chk + Interval BY <1>3, <2>2, SchedConstants
  <2> QED BY <1>0, <1>2, <2>2, <2>3, <2>4, <2>5, <2>6, ThreadMoves
<1> QED BY <1>4, <1>5 DEF Connect

\* The select reads every row that the plan reaches, or fails as a whole.
LEMMA StepSelect == ASSUME SchedInv, Select PROVE SchedInv'
<1>0. StoreStep BY DEF Select, StoreStep
<1>1. ClockInv /\ storage \in StorageThread /\ storage.pc = "select" /\ InPoll
  BY DEF SchedInv, ClockInv, Select, InPoll
<1>2. UNCHANGED <<now, stamp, sched, polls>> BY DEF Select
<1>3. faults \in Nat /\ now \in Nat /\ storage.chk = now BY <1>1 DEF ClockInv
<1>4. CASE NoFault /\ storage' = [storage EXCEPT !.pc = "rows", !.rows = Window]
  <2>1. faults' = faults BY <1>4 DEF NoFault, storeVars
  <2>2. Window \in SUBSET Remote BY DEF Window
  <2>3. /\ storage' \in StorageThread /\ storage'.pc = "rows" /\ storage'.ts = storage.ts
        /\ storage'.chk = storage.chk /\ storage'.num = storage.num /\ storage'.rows = Window
        /\ storage'.clean = storage.clean /\ storage'.due = storage.due
    BY <1>1, <1>4, <2>2, StorageFields DEF StorageThread, StoragePcs
  <2>4. InPoll' BY <2>3 DEF InPoll
  <2>5. \A c \in Remote : NotYet(c)' BY <1>2, <2>3 DEF SchedInv, NotYet
  <2>6. ASSUME NEW c \in Remote, Missing(c)'
        PROVE  /\ ~storage'.clean => polls[c] <= faults' /\ now <= stamp[c] + Late(polls[c] + faults)'
               /\ storage'.clean /\ c \in storage'.due => Hit(c)' \/ Miss(c)'
               /\ c \notin storage'.due => polls[c] = 0 /\ now <= stamp[c] + Late(polls[c] + faults)'
    <3>1. RowInv(c) /\ Missing(c) BY <1>0, <1>2, <2>6, StillMissing
    <3>2. Late(polls[c] + faults)' = Late(polls[c] + faults) BY <1>2, <2>1 DEF Late
    <3>3. Miss(c) => Miss(c)' BY <1>2, <2>1, <2>3 DEF Miss
    <3>4. Hit(c) => c \in Window
      BY <1>1, <3>1, StorageFields DEF ClockInv, Hit, Window, Missing
    <3>5. Hit(c) => Hit(c)' BY <1>2, <2>3, <3>4 DEF Hit
    <3> QED BY <1>1, <2>1, <2>3, <3>1, <3>2, <3>3, <3>5 DEF RowInv
  <2> QED BY <1>0, <1>2, <1>3, <2>3, <2>4, <2>5, <2>6, ThreadMoves
<1>5. CASE FailOnly /\ storage' = [storage EXCEPT !.pc = "rows", !.clean = FALSE]
  <2>1. faults' = faults + 1 BY <1>5 DEF FailOnly, Fault
  <2>2. /\ storage' \in StorageThread /\ storage'.pc = "rows"
        /\ storage'.chk = storage.chk /\ storage'.clean = FALSE /\ storage'.due = storage.due
    BY <1>1, <1>5, StorageFields DEF StorageThread, StoragePcs
  <2>3. InPoll' BY <2>2 DEF InPoll
  <2>4. \A c \in Remote : NotYet(c)' BY <1>2, <2>2 DEF SchedInv, NotYet
  <2>5. ASSUME NEW c \in Remote, Missing(c)'
        PROVE  /\ polls[c] <= faults' /\ now <= stamp[c] + Late(polls[c] + faults)'
               /\ c \notin storage'.due => polls[c] = 0
    <3>1. RowInv(c) BY <1>0, <1>2, <2>5, StillMissing
    <3>2. stamp[c] \in Int /\ polls[c] \in Nat BY <1>1 DEF ClockInv
    <3> DEFINE old == Late(polls[c] + faults)
               new == Late(polls[c] + faults)'
    <3>3. old \in Nat /\ new \in Nat /\ old + Interval <= new BY <1>0, <1>2, <1>3, <2>1, <3>2, LateStep
    <3>4. now <= stamp[c] + old + Interval /\ (polls[c] <= faults \/ polls[c] = faults + 1)
          /\ (c \notin storage.due => polls[c] = 0)
      BY <1>1, <3>1 DEF RowInv
    <3> HIDE DEF old, new
    <3>5. now <= stamp[c] + new BY <1>3, <3>2, <3>3, <3>4, SchedConstants
    <3>6. polls[c] <= faults' BY <1>3, <2>1, <3>2, <3>4
    <3> QED BY <2>2, <3>4, <3>5, <3>6 DEF new
  <2> QED BY <1>0, <1>2, <1>3, <2>2, <2>3, <2>4, <2>5, ThreadMoves
<1> QED BY <1>4, <1>5 DEF Select

\* One row of the result is stored, or its insert fails; the others are still to come.
LEMMA StepStoreRow == ASSUME SchedInv, NEW d \in Remote, StoreRow(d) PROVE SchedInv'
<1>0. StoreStep BY DEF StoreRow, StoreStep
<1>1. ClockInv /\ storage \in StorageThread /\ storage.pc = "rows" /\ InPoll /\ Sql
  BY DEF SchedInv, ClockInv, StoreRow, InPoll
<1>2. UNCHANGED <<now, stamp, sched, polls>> BY DEF StoreRow
<1>3. faults \in Nat /\ now \in Nat /\ storage.chk = now /\ faults <= MaxFaults BY <1>1 DEF ClockInv
<1>4. faults' \in Nat /\ (faults' = faults \/ faults' = faults + 1) BY <1>0, <1>3, FaultsGrow
<1>5. storage' = [storage EXCEPT !.rows = @ \ {d}] BY DEF StoreRow
<1>6. /\ storage' \in StorageThread /\ storage'.pc = "rows" /\ storage'.ts = storage.ts
      /\ storage'.chk = storage.chk /\ storage'.num = storage.num
      /\ storage'.rows = storage.rows \ {d}
      /\ storage'.clean = storage.clean /\ storage'.due = storage.due
  BY <1>1, <1>5, StorageFields DEF StorageThread
<1>7. InPoll' BY <1>6 DEF InPoll
<1>8. \A c \in Remote : NotYet(c)' BY <1>2, <1>6 DEF SchedInv, NotYet
<1>9. d \in Stored' \cup failed' BY <1>1 DEF StoreRow, AddInDb, AddInDbFails, Known, Stored
<1>10. ASSUME NEW c \in Remote, Missing(c)'
       PROVE  /\ ~storage'.clean => polls[c] <= faults' /\ now <= stamp[c] + Late(polls[c] + faults)'
              /\ storage'.clean /\ c \in storage'.due => Hit(c)' \/ Miss(c)'
              /\ c \notin storage'.due => polls[c] = 0 /\ now <= stamp[c] + Late(polls[c] + faults)'
  <2>1. RowInv(c) BY <1>0, <1>2, <1>10, StillMissing
  <2>2. stamp[c] \in Int /\ polls[c] \in Nat /\ c # d BY <1>1, <1>9, <1>10 DEF ClockInv, Missing
  <2> DEFINE old == Late(polls[c] + faults)
             new == Late(polls[c] + faults)'
  <2>3. old \in Nat /\ new \in Nat /\ old <= new BY <1>0, <1>2, LateStep
  <2>4. /\ ~storage.clean => polls[c] <= faults /\ now <= stamp[c] + old
        /\ storage.clean /\ c \in storage.due => Hit(c) \/ Miss(c)
        /\ c \notin storage.due => polls[c] = 0 /\ now <= stamp[c] + old
    BY <1>1, <2>1 DEF RowInv
  <2> HIDE DEF old, new
  <2>5. (Hit(c) => Hit(c)') /\ (Miss(c) => Miss(c)')
    BY <1>1, <1>2, <1>3, <1>4, <1>6, <2>2 DEF Hit, Miss
  <2>6. /\ ~storage'.clean => polls[c] <= faults' /\ now <= stamp[c] + new
        /\ c \notin storage'.due => polls[c] = 0 /\ now <= stamp[c] + new
    BY <1>3, <1>4, <1>6, <2>2, <2>3, <2>4
  <2> QED BY <1>6, <2>4, <2>5, <2>6 DEF new
<1> QED BY <1>0, <1>2, <1>3, <1>6, <1>7, <1>8, <1>10, ThreadMoves

\* When all rows are stored a call that is still missing was not read.
LEMMA StepRowsEnd == ASSUME SchedInv, RowsEnd PROVE SchedInv'
<1>0. StoreStep BY DEF RowsEnd, StoreStep
<1>1. ClockInv /\ storage \in StorageThread /\ storage.pc = "rows" /\ InPoll /\ storage.rows = {}
  BY DEF SchedInv, ClockInv, RowsEnd, InPoll
<1>2. UNCHANGED <<now, stamp, sched, polls>> BY DEF RowsEnd
<1>3. faults' = faults /\ now \in Nat /\ storage.chk = now
  BY <1>1 DEF ClockInv, RowsEnd, NoFault, storeVars
<1>4. storage' = [storage EXCEPT !.pc = "sched"] BY DEF RowsEnd, StorageGoto
<1>5. /\ storage' \in StorageThread /\ storage'.pc = "sched" /\ storage'.ts = storage.ts
      /\ storage'.chk = storage.chk /\ storage'.num = storage.num
      /\ storage'.clean = storage.clean /\ storage'.due = storage.due
  BY <1>1, <1>4, StorageFields DEF StorageThread, StoragePcs
<1>6. InPoll' BY <1>5 DEF InPoll
<1>7. \A c \in Remote : NotYet(c)' BY <1>2, <1>5 DEF SchedInv, NotYet
<1>8. ASSUME NEW c \in Remote, Missing(c)'
      PROVE  /\ ~storage'.clean => polls[c] <= faults' /\ now <= stamp[c] + Late(polls[c] + faults)'
             /\ storage'.clean /\ c \in storage'.due => Hit(c)' \/ Miss(c)'
             /\ c \notin storage'.due => polls[c] = 0 /\ now <= stamp[c] + Late(polls[c] + faults)'
  <2>1. RowInv(c) BY <1>0, <1>2, <1>8, StillMissing
  <2>2. Late(polls[c] + faults)' = Late(polls[c] + faults) BY <1>2, <1>3 DEF Late
  <2>3. ~Hit(c) /\ (Miss(c) => Miss(c)') BY <1>1, <1>2, <1>3, <1>5 DEF Hit, Miss
  <2> QED BY <1>1, <1>3, <1>5, <2>1, <2>2, <2>3 DEF RowInv
<1> QED BY <1>0, <1>2, <1>3, <1>5, <1>6, <1>7, <1>8, ThreadMoves

\* The write of the schedule ends the poll: a call that it missed makes the schedule ready.
LEMMA StepSchedWrite == ASSUME SchedInv, NEW a, SchedWrite(a) PROVE SchedInv'
<1>0. StoreStep BY DEF SchedWrite, StoreStep
<1>1. ClockInv /\ storage \in StorageThread /\ storage.pc = "sched" /\ InPoll /\ Sql
  BY DEF SchedInv, ClockInv, SchedWrite, InPoll
<1>2. UNCHANGED <<now, stamp>> /\ storage' = PollEnd(a) BY DEF SchedWrite
<1>3. /\ faults \in Nat /\ now \in Nat /\ storage.chk = now /\ faults <= MaxFaults
      /\ SchedTs <= now /\ polls \in [Remote -> Nat] /\ stamp \in [Remote -> Int]
  BY <1>1 DEF ClockInv
<1>4. faults' \in Nat /\ faults' <= MaxFaults /\ Sql'
  BY <1>0, <1>1, <1>3, FaultsGrow, StoreGrows DEF Growing
<1>5. /\ storage' \in StorageThread /\ storage'.pc \in {"idle", "done"}
      /\ storage'.chk = now /\ storage'.due = {}
  BY <1>1, <1>2, <1>3, PollEndIs
<1>6. ~InPoll' BY <1>5 DEF InPoll
<1>7. /\ \/ faults' = faults /\ sched' = (IF storage.num = 0 THEN sched \cup {SchedRow} ELSE {SchedRow})
         \/ faults' = faults + 1 /\ sched' = sched
      /\ \A c \in Remote : polls'[c] = IF storage.clean /\ c \in storage.due /\ polls[c] < CatchUp
                                       THEN polls[c] + 1 ELSE polls[c]
      /\ DOMAIN polls' = Remote /\ polls' = [c \in Remote |-> polls'[c]]
  BY <1>1 DEF SchedWrite, NoFault, FailOnly, Fault, storeVars
<1>8. SchedRow.last = now /\ SchedRow.ts = storage.ts /\ storage.ts \in Int
  BY <1>1, <1>3, StorageFields DEF SchedRow
<1> HIDE DEF SchedRow
<1>9. \A r \in sched' : r.last \in Nat /\ r.ts \in Int /\ SchedTs <= r.last /\ r.last <= now
  BY <1>1, <1>3, <1>7, <1>8 DEF ClockInv
<1>10. polls' \in [Remote -> Nat]
  <2>1. \A c \in Remote : polls'[c] \in Nat BY <1>3, <1>7
  <2> QED BY <1>7, <2>1
<1>11. ClockInv'
  BY <1>2, <1>3, <1>4, <1>5, <1>6, <1>9, <1>10, SchedConstants DEF ClockInv
<1>12. \A c \in Remote : NotYet(c)' BY <1>2, <1>5, <1>7 DEF SchedInv, NotYet
<1>13. ASSUME NEW c \in Remote, Missing(c)' PROVE RowInv(c)'
  <2>1. RowInv(c) BY <1>0, <1>2, <1>13, StillMissing
  <2>2. stamp[c] \in Int /\ polls[c] \in Nat /\ polls'[c] \in Nat BY <1>3, <1>10
  <2> DEFINE old == Late(polls[c] + faults)
             new == Late(polls[c] + faults)'
  <2>3. polls'[c] \in {polls[c], polls[c] + 1} BY <1>7
  <2>4. /\ old \in Nat /\ new \in Nat /\ old <= new
        /\ polls'[c] + faults' # polls[c] + faults => old + Interval <= new
    BY <1>0, <2>3, LateStep
  <2>5. /\ now <= stamp[c] + old + Interval
        /\ \A r \in sched : r.last <= stamp[c] + old
        /\ polls[c] <= faults \/ (polls[c] = faults + 1 /\ \A r \in sched : Ready(r))
        /\ ~storage.clean => polls[c] <= faults /\ now <= stamp[c] + old
        /\ storage.clean /\ c \in storage.due => Hit(c) \/ Miss(c)
        /\ c \notin storage.due => polls[c] = 0 /\ now <= stamp[c] + old
    BY <1>1, <2>1 DEF RowInv
  <2>6. ~Hit(c) BY <1>1 DEF Hit
  <2> HIDE DEF old
  <2>7. \A r : Ready(r)' <=> Ready(r) BY DEF Ready
  <2>8. now <= stamp[c] + new
        /\ (polls'[c] <= faults' \/ (polls'[c] = faults' + 1 /\ \A r \in sched' : Ready(r)))
    <3>1. CASE storage.clean /\ c \in storage.due
      <4>1. storage.num = 1 /\ storage.ts = CycleStart(Cycle(now)) /\ polls[c] <= faults
        BY <1>3, <2>5, <2>6, <3>1 DEF Miss
      <4>2. polls[c] < CatchUp BY <1>3, <2>2, <4>1, SchedConstants DEF CatchUp
      <4>3. polls'[c] = polls[c] + 1 BY <1>7, <3>1, <4>2
      <4>4. polls'[c] + faults' # polls[c] + faults BY <1>3, <1>7, <2>2, <4>3
      <4>5. now <= stamp[c] + new BY <1>3, <2>2, <2>4, <2>5, <4>4, SchedConstants
      <4>6. CycleStart(Cycle(now)) \in Nat BY <1>3, CycleFacts
      <4>7. Ready(SchedRow) BY <1>8, <4>1, <4>6 DEF Ready
      <4> HIDE DEF new
      <4>8. polls'[c] <= faults' \/ (polls'[c] = faults' + 1 /\ \A r \in sched' : Ready(r))
        BY <1>3, <1>7, <2>2, <4>1, <4>3, <4>7
      <4> QED BY <4>5, <4>8
    <3>2. CASE ~(storage.clean /\ c \in storage.due)
      <4>1. polls'[c] = polls[c] /\ polls[c] <= faults /\ now <= stamp[c] + old
        BY <1>3, <1>7, <2>5, <3>2
      <4> HIDE DEF new
      <4>2. polls'[c] <= faults' BY <1>3, <1>7, <2>2, <4>1
      <4>3. now <= stamp[c] + new BY <1>3, <2>2, <2>4, <4>1
      <4> QED BY <4>2, <4>3
    <3> QED BY <3>1, <3>2
  <2>9. now <= stamp[c] + new + Interval /\ (\A r \in sched' : r.last <= stamp[c] + new)
    <3> HIDE DEF new
    <3> QED BY <1>3, <1>9, <2>2, <2>4, <2>8, SchedConstants
  <2> QED BY <1>2, <1>5, <1>6, <2>7, <2>8, <2>9 DEF RowInv
<1> QED BY <1>11, <1>12, <1>13 DEF SchedInv

\* Time passes only until the next poll is due.
LEMMA StepTick == ASSUME SchedInv, Tick PROVE SchedInv'
<1>0. UNCHANGED <<stamp, sched, storage, polls, unrated, rated, failed, faults, store>>
  BY DEF Tick, NoFault, storeVars
<1>1. ClockInv /\ storage.pc = "idle" /\ ~InPoll /\ now' = now + 1 /\ ~(now >= storage.chk + Interval)
  BY DEF SchedInv, Tick, InPoll, Slept
<1>2. now \in Nat /\ storage.chk \in Int /\ storage.chk <= now BY <1>1, StorageFields DEF ClockInv
<1>3. now' \in Nat /\ now <= now' /\ storage.chk <= now' /\ now' <= storage.chk + Interval
  BY <1>1, <1>2, SchedConstants
<1>4. ~InPoll' BY <1>0, <1>1 DEF InPoll
<1>5. \A r \in sched : r.last <= now' BY <1>1, <1>2, <1>3 DEF ClockInv
<1>6. SchedTs <= now' BY <1>1, <1>3, SchedConstants DEF ClockInv
<1>7. ClockInv' BY <1>0, <1>1, <1>3, <1>4, <1>5, <1>6 DEF ClockInv, Sql
<1>8. \A c \in Remote : NotYet(c)' BY <1>0 DEF SchedInv, NotYet
<1>9. ASSUME NEW c \in Remote, Missing(c)' PROVE RowInv(c)'
  <2>1. RowInv(c) BY <1>0, <1>9 DEF SchedInv, Missing, Stored
  <2>2. stamp[c] \in Int /\ polls[c] \in Nat /\ faults \in Nat BY <1>1 DEF ClockInv
  <2> DEFINE late == Late(polls[c] + faults)
  <2>3. late \in Nat /\ late' = late
    <3>1. polls[c] + faults \in Nat BY <2>2
    <3> QED BY <1>0, <3>1, LateFacts DEF Late
  <2>4. storage.chk <= stamp[c] + late BY <1>1, <2>1 DEF RowInv
  <2> HIDE DEF late
  <2>5. now' <= stamp[c] + late + Interval BY <1>2, <1>3, <2>2, <2>3, <2>4, SchedConstants
  <2>6. \A r : Ready(r)' <=> Ready(r) BY DEF Ready
  <2> QED BY <1>0, <1>4, <2>1, <2>3, <2>5, <2>6 DEF RowInv, late
<1> QED BY <1>7, <1>8, <1>9 DEF SchedInv

\* A row appears in time: no poll has counted for it, and the schedule is not past its delay.
LEMMA StepRemoteRow == ASSUME SchedInv, NEW d \in Remote, RemoteRow(d) PROVE SchedInv'
<1>0. UNCHANGED <<now, sched, storage, polls, unrated, rated, failed, faults, store>>
  BY DEF RemoteRow, NoFault, storeVars
<1>1. ClockInv /\ stamp[d] = NoRow BY DEF SchedInv, RemoteRow
<1>2. PICK t \in 0 .. now : now - t <= Delay /\ stamp' = [stamp EXCEPT ![d] = t] BY DEF RemoteRow
<1>3. now \in Nat /\ t \in Nat /\ faults \in Nat BY <1>1, <1>2 DEF ClockInv
<1>4. /\ stamp' \in [Remote -> Int] /\ stamp'[d] = t
      /\ \A c \in Remote : c # d => stamp'[c] = stamp[c]
  BY <1>1, <1>2, <1>3 DEF ClockInv
<1>5. ClockInv' BY <1>0, <1>1, <1>4 DEF ClockInv, Sql, InPoll
<1>6. \A c \in Remote : NotYet(c)' BY <1>0, <1>3, <1>4 DEF SchedInv, NotYet, NoRow
<1>7. ASSUME NEW c \in Remote, Missing(c)' PROVE RowInv(c)'
  <2>1. CASE c # d
    <3>1. RowInv(c) BY <1>0, <1>4, <1>7, <2>1 DEF SchedInv, Missing, Stored
    <3> QED BY <1>0, <1>4, <2>1, <3>1 DEF RowInv, InPoll, Hit, Miss, Ready, Late
  <2>2. CASE c = d
    <3>1. polls[d] = 0 /\ d \notin storage.due BY <1>1 DEF SchedInv, NotYet
    <3> DEFINE late == Late(polls[d] + faults)
    <3>2. late \in Nat /\ Delay <= late /\ late' = late
      <4>1. polls[d] + faults \in Nat BY <1>3, <3>1
      <4> QED BY <1>0, <4>1, LateFacts DEF Late
    <3> HIDE DEF late
    <3>3. now <= t + late BY <1>2, <1>3, <3>2, SchedConstants
    <3>4. now <= t + late + Interval BY <1>3, <3>2, <3>3, SchedConstants
    <3>5. storage.pc = "idle" => storage.chk <= t + late
      BY <1>1, <1>3, <3>2, <3>3, StorageFields DEF ClockInv
    <3>6. \A r \in sched : r.last <= t + late BY <1>1, <1>3, <3>2, <3>3 DEF ClockInv
    <3>7. polls[d] <= faults BY <1>3, <3>1
    <3> QED BY <1>0, <1>4, <2>2, <3>1, <3>2, <3>3, <3>4, <3>5, <3>6, <3>7 DEF RowInv, late
  <2> QED BY <2>1, <2>2
<1> QED BY <1>5, <1>6, <1>7 DEF SchedInv

\* The idle thread.
LEMMA StorageOffIs ==
  /\ StorageOff \in StorageThread /\ StorageOff.pc = "off" /\ StorageOff.due = {}
  /\ \A n \in Int : LET s == [StorageOff EXCEPT !.pc = "idle", !.chk = n] IN
       s \in StorageThread /\ s.pc = "idle" /\ s.chk = n /\ s.due = {}
<1>1. StorageOff \in StorageThread /\ StorageOff.pc = "off" /\ StorageOff.due = {}
  BY DEF StorageOff, StorageThread, StoragePcs
<1>2. ASSUME NEW n \in Int
      PROVE LET s == [StorageOff EXCEPT !.pc = "idle", !.chk = n] IN
              s \in StorageThread /\ s.pc = "idle" /\ s.chk = n /\ s.due = {}
  BY <1>1 DEF StorageThread, StoragePcs
<1> QED BY <1>1, <1>2

\* One case for each step that moves the thread, its schedule or the clock.
LEMMA StepSched == ASSUME LookBackCovers, SchedInv, [Next]_vars PROVE SchedInv'
<1>0. StoreStep BY StoreSteps
<1>1. CASE StorageProfile
  <2>1. PICK a : StorageStep(a) BY <1>1 DEF StorageProfile
  <2> QED BY <2>1, StepPlan, StepConnect, StepSelect, StepStoreRow, StepRowsEnd, StepSchedWrite
          DEF StorageStep
<1>2. CASE EngineCreate
  <2>1. CASE UNCHANGED storageVars BY <1>0, <2>1, StorageAlone
  <2>2. CASE storage' = [StorageOff EXCEPT !.pc = "idle", !.chk = now - Interval]
             /\ UNCHANGED <<now, stamp, sched, polls>>
    <3>1. now - Interval \in Int BY SchedConstants DEF SchedInv, ClockInv
    <3>2. storage' \in StorageThread /\ storage'.pc = "idle" /\ storage'.chk = now - Interval
          /\ storage'.due = {}
      BY <2>2, <3>1, StorageOffIs
    <3> QED BY <1>0, <2>2, <3>2, StorageFresh
  <2> QED BY <1>2, <2>1, <2>2 DEF EngineCreate
<1>3. CASE EngineConnect \/ EngineRegister \/ EngineBindRemote \/ EngineJoin \/ EngineEnd
  <2>1. UNCHANGED storageVars
    BY <1>3 DEF EngineConnect, EngineRegister, EngineBindRemote, EngineJoin, EngineEnd,
       ThreadsUnchanged
  <2> QED BY <1>0, <2>1, StorageAlone
<1>4. CASE FileProfile \/ (\E c \in Calls : Rate(c)) \/ UNCHANGED vars
  BY <1>0, <1>4, StorageAlone DEF FileProfile, Rate, vars
<1>5. CASE Crash \/ StartAgain \/ Abort
  <2>1. storage' = StorageOff /\ UNCHANGED <<now, stamp, sched, polls>>
    BY <1>5 DEF Crash, StartAgain, ProcessEnd, Abort, StorageCrash
  <2> QED BY <1>0, <2>1, StorageOffIs, StorageFresh
<1>6. CASE Environment
  <2>1. CASE UNCHANGED storageVars BY <1>0, <2>1, StorageAlone
  <2> QED BY <1>6, <2>1, StepTick, StepRemoteRow DEF Environment
<1> QED BY <1>1, <1>2, <1>3, <1>4, <1>5, <1>6 DEF Next, Engine

\* A CDR of the remote switch is stored after at most two complete polls, and one
\* more for each failure, for any number of calls, failures and restarts, any
\* start of the schedule and any profiles, when the look-back covers the delay
\* of the row and the polls in between (cdr_storage_sched_set_ts). In an SQL
\* store: the NoSQL store has no schedule.
THEOREM RowsCaughtUp ==
  ASSUME "nosql" \notin Stores, LookBackCovers PROVE Spec => []CaughtUp
<1>1. ASSUME Init PROVE SchedInv
  <2>1. /\ store # "nosql" /\ faults = 0 /\ sched = {} /\ storage = StorageOff /\ now \in SchedTs .. MaxTime
        /\ stamp = [c \in Remote |-> NoRow] /\ polls = [c \in Remote |-> 0]
    BY <1>1 DEF Init, StoreInit, StorageInit
  <2>2. MaxTime \in Nat BY StorageAssumption
  <2>3. storage \in StorageThread /\ storage.pc = "off" /\ storage.due = {}
    BY <2>1, StorageOffIs
  <2>4. now \in Nat /\ SchedTs <= now BY <2>1, <2>2, SchedConstants
  <2>5. stamp \in [Remote -> Int] /\ polls \in [Remote -> Nat] BY <2>1 DEF NoRow
  <2>6. ClockInv BY <2>1, <2>3, <2>4, <2>5, SchedConstants DEF ClockInv, Sql, InPoll
  <2>7. \A c \in Remote : NotYet(c) /\ ~Missing(c) BY <2>1, <2>3 DEF NotYet, Missing
  <2> QED BY <2>6, <2>7 DEF SchedInv
<1>2. ASSUME SchedInv PROVE CaughtUp
  <2> SUFFICES ASSUME NEW c \in Remote, stamp[c] >= SchedTs, polls[c] >= 2 + faults,
                      c \notin Stored \cup failed
               PROVE FALSE
    BY DEF CaughtUp
  <2>1. stamp[c] \in Int /\ polls[c] \in Nat /\ faults \in Nat BY <1>2 DEF SchedInv, ClockInv
  <2>2. Missing(c) BY <2>1, SchedConstants DEF Missing, NoRow
  <2>3. polls[c] <= faults \/ polls[c] = faults + 1 BY <1>2, <2>2 DEF SchedInv, RowInv
  <2> QED BY <2>1, <2>3
<1> QED BY <1>1, <1>2, StepSched, PTL DEF Spec
==============================================================================
