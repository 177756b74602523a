------------------------------- MODULE CdrFile -------------------------------
(***************************************************************************)
(* The thread of a file profile (CDRMediator/cdr_file.c): list the source  *)
(* directory, read every file that cdr_files does not know, register it,   *)
(* move it to the destination directory.                                   *)
(***************************************************************************)
EXTENDS CdrStore, Sequences

CONSTANTS
  Files,       \* files the switch delivers, one after the other under a name
  NameOf,      \* [Files -> names]
  Content,     \* [Files -> sequences of rows]: a call, or BadRow
  BadRow       \* a row of another length, or without call_uid, number, billsec

ASSUME FileAssumption ==
  /\ BadRow \notin Calls
  /\ Content \in [Files -> Seq(Calls \cup {BadRow})]

VARIABLES
  srcDir, dstDir,   \* files in the two directories
  delivered,        \* files that were put into srcDir
  cdrFiles,         \* [Files -> rows the table cdr_files got for the file]
  listPtr,          \* profile->list: "null", "live" or "freed"
  doubleFree,       \* history: mem_free was called on a freed list
  fileThread        \* [pc, list: files still to visit, cur, pos: next row]

fileVars ==
  <<srcDir, dstDir, delivered, cdrFiles, listPtr, doubleFree, fileThread>>

SameName(f) == {g \in Files : NameOf[g] = NameOf[f]}
FilePcs == {"off", "idle", "next", "open", "row", "register", "move", "done"}
FileOff == [pc |-> "off", list |-> {}, cur |-> {}, pos |-> 0]

FileTypeOK ==
  /\ {srcDir, dstDir, delivered} \subseteq SUBSET Files
  /\ cdrFiles \in [Files -> Nat]
  /\ listPtr \in {"null", "live", "freed"}
  /\ doubleFree \in BOOLEAN
  /\ fileThread.pc \in FilePcs
  /\ fileThread.list \subseteq Files
  /\ fileThread.cur \subseteq Files
  /\ fileThread.pos \in Nat

FileInit ==
  /\ srcDir = {} /\ dstDir = {} /\ delivered = {}
  /\ cdrFiles = [f \in Files |-> 0]
  /\ listPtr = "null" /\ doubleFree = FALSE
  /\ fileThread = FileOff

FileGoto(pc) == fileThread' = [fileThread EXCEPT !.pc = pc]
DirsUnchanged == UNCHANGED <<srcDir, dstDir, delivered>>
ListUnchanged == UNCHANGED <<listPtr, doubleFree>>

\* The switch delivers a file whose name is free in srcDir.
Deliver(f) ==
  /\ f \notin delivered
  /\ \A g \in srcDir : NameOf[g] # NameOf[f]
  /\ srcDir' = srcDir \cup {f}
  /\ delivered' = delivered \cup {f}
  /\ NoFault
  /\ UNCHANGED <<dstDir, cdrFiles, listPtr, doubleFree, fileThread>>

\* cdr_file_list_get; without entries profile->list keeps its old value.
FileListGet ==
  /\ fileThread.pc = "idle"
  /\ \/ /\ srcDir # {}
        /\ listPtr' = "live"
        /\ fileThread' = [fileThread EXCEPT !.pc = "next", !.list = srcDir]
        /\ NoFault
     \/ /\ \/ srcDir = {} /\ NoFault
           \/ srcDir # {} /\ FailOnly          \* opendir fails
        /\ FileGoto("next")
        /\ UNCHANGED listPtr
  /\ DirsUnchanged
  /\ UNCHANGED <<cdrFiles, doubleFree>>

\* The select by name yields exactly one row.
OneRow(f) ==
  \E g \in SameName(f) : cdrFiles[g] = 1 /\ \A h \in SameName(f) \ {g} : cdrFiles[h] = 0

Visit(f, pc) ==
  fileThread' = [pc |-> pc, list |-> fileThread.list \ {f}, cur |-> {f}, pos |-> 1]

FileFromTblLeavesKnown(f) ==
  /\ fileThread.pc = "next" /\ f \in fileThread.list
  /\ Visit(f, IF Sql /\ OneRow(f) THEN "next" ELSE "open") /\ NoFault
  /\ DirsUnchanged /\ ListUnchanged
  /\ UNCHANGED cdrFiles

\* cdr_file_get_from_tbl: a failed select, and any number of rows but one, is 0.
\* A file that is known is moved without being read.
FileFromTbl(f) ==
  /\ fileThread.pc = "next" /\ f \in fileThread.list
  /\ \/ Visit(f, IF Sql /\ OneRow(f) THEN "move" ELSE "open") /\ NoFault
     \/ Sql /\ Visit(f, "open") /\ FailOnly
  /\ DirsUnchanged /\ ListUnchanged
  /\ UNCHANGED cdrFiles

\* fopen; when it fails cdr_file_parser returns 2 and the file stays.
FileOpen ==
  /\ fileThread.pc = "open"
  /\ \/ FileGoto("row") /\ NoFault
     \/ FileGoto("next") /\ FailOnly
  /\ DirsUnchanged /\ ListUnchanged
  /\ UNCHANGED cdrFiles

FileCur == CHOOSE f \in fileThread.cur : TRUE
NextRow == [fileThread EXCEPT !.pos = @ + 1]

\* What the fields of the next line yield: the call of a CDR, or BadRow.
Row == Content[FileCur][fileThread.pos]

FileRowBreaks ==
  /\ fileThread.pc = "row"
  /\ fileThread.pos <= Len(Content[FileCur])
  /\ \/ Row = BadRow /\ fileThread' = NextRow /\ NoFault
     \/ Row # BadRow /\ fileThread' = NextRow /\ (AddInDb(Row) \/ AddInDbFails(Row))
     \/ FailOnly /\ FileGoto("register")
  /\ DirsUnchanged /\ ListUnchanged
  /\ UNCHANGED cdrFiles

\* One row: skipped, stored, not stored, or no memory for its fields (return 3).
FileRow ==
  /\ fileThread.pc = "row"
  /\ fileThread.pos <= Len(Content[FileCur])
  /\ \/ Row = BadRow /\ fileThread' = NextRow /\ NoFault
     \/ Row # BadRow /\ fileThread' = NextRow /\ (AddInDb(Row) \/ AddInDbFails(Row))
     \/ FailOnly /\ FileGoto("next")
  /\ DirsUnchanged /\ ListUnchanged
  /\ UNCHANGED cdrFiles

FileEof ==
  /\ fileThread.pc = "row"
  /\ fileThread.pos > Len(Content[FileCur])
  /\ FileGoto("register")
  /\ NoFault /\ DirsUnchanged /\ ListUnchanged
  /\ UNCHANGED cdrFiles

\* cdr_file_add_in_tbl; a failed insert is not looked at.
FileAddInTbl ==
  /\ fileThread.pc = "register"
  /\ FileGoto("move")
  /\ \/ /\ cdrFiles' = IF Sql THEN [cdrFiles EXCEPT ![FileCur] = @ + 1] ELSE cdrFiles
        /\ NoFault
     \/ Sql /\ FailOnly /\ UNCHANGED cdrFiles
  /\ DirsUnchanged /\ ListUnchanged

\* cdr_file_move: rename replaces a file of that name; a failure is only logged.
FileMove ==
  /\ fileThread.pc = "move"
  /\ FileGoto("next")
  /\ \/ /\ srcDir' = srcDir \ {FileCur}
        /\ dstDir' = {g \in dstDir : NameOf[g] # NameOf[FileCur]} \cup {FileCur}
        /\ NoFault
     \/ FailOnly /\ UNCHANGED <<srcDir, dstDir>>
  /\ ListUnchanged
  /\ UNCHANGED <<delivered, cdrFiles>>

\* End of the pass: the list is freed and its pointer kept. Freeing it again
\* next time is undefined: here the process survives (Abort is the other way).
FilePassEnd(active) ==
  /\ fileThread.pc = "next"
  /\ fileThread.list = {}
  /\ listPtr' = IF listPtr = "null" THEN "null" ELSE "freed"
  /\ doubleFree' = (doubleFree \/ listPtr = "freed")
  /\ fileThread' = [FileOff EXCEPT !.pc = IF active THEN "idle" ELSE "done"]
  /\ NoFault /\ DirsUnchanged
  /\ UNCHANGED cdrFiles

FileStep(active) ==
  \/ FileListGet
  \/ \E f \in Files : FileFromTbl(f)
  \/ FileOpen \/ FileRow \/ FileEof \/ FileAddInTbl \/ FileMove
  \/ FilePassEnd(active)

\* The process ends: what is on disk and in the database stays.
FileCrash ==
  /\ fileThread' = FileOff
  /\ listPtr' = "null"
  /\ DirsUnchanged
  /\ UNCHANGED <<cdrFiles, doubleFree>>

\* A file that cdr_files lists or that was moved has been read to its end: each
\* of its calls is stored, or its insert failed (cdr_file_parser does not look
\* at failed inserts). The one exception is a file moved unread because another
\* file of its name was registered before (cdr_file_reader).
MovedIsStored ==
  \A f \in Files :
    \/ cdrFiles[f] > 0
    \/ f \in dstDir /\ \A g \in SameName(f) \ {f} : cdrFiles[g] = 0
    => \A i \in 1 .. Len(Content[f]) : Content[f][i] \in Stored \cup failed \cup {BadRow}
=============================================================================
