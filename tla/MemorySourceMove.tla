-------------------------- MODULE MemorySourceMove --------------------------
(***************************************************************************)
(* Move-on-import of a memory source (memory-source-move.mjs) and its      *)
(* registration in the memory settings (memory-source-settings-service.mjs)*)
(*                                                                         *)
(* One folder is moved, file by file, into managed memory, with a ledger   *)
(* and a manifest on disk; the move can be rolled back from the ledger.    *)
(* The human edits files all along, the host can stop at any await, and    *)
(* another request saves the settings meanwhile.  The bytes of a file are  *)
(* a version, new with each edit.  Sub-folders are left out: what the code *)
(* does for them it does for the root.                                     *)
(***************************************************************************)
EXTENDS Naturals, FiniteSets

CONSTANTS Files,      \* the paths of the source, as numbers: the order of the move
          MaxEdits,   \* bound: edits of the human
          MaxStops,   \* bound: stops of the host
          MaxMoves,   \* bound: executions
          MaxSaves    \* bound: other saves of the settings

ASSUME MoveAssumption ==
  /\ Files \subseteq Nat /\ IsFiniteSet(Files)
  /\ {MaxEdits, MaxStops, MaxMoves, MaxSaves} \subseteq Nat

VARIABLES source, managed,  \* the version of each file in the two folders
          folder,           \* which of the two folders exist
          oneVolume,        \* whether a rename from one to the other works
          approved,         \* the fingerprint the human confirmed
          op,               \* the move or rollback under way
          hashes,           \* contentHash and beforeHash of the files of the move
          ledger,           \* the files the ledger records as moved
          manifest,         \* manifest.json: status and rollbackStatus
          settings,         \* memory settings: the source registered, other values
          saver,            \* another save of the settings under way
          spent             \* the edits, stops and moves so far, for the bounds

disk     == <<source, managed, folder>>
moveVars == <<source, managed, folder, oneVolume, approved, op, hashes, ledger, manifest,
              settings, saver, spent>>

\* The version of a file that is not there, and of one that was not copied in full.
Missing == 0
Short   == MaxEdits + 2

Empty(tree) == \A f \in Files : tree[f] = Missing
Listed == {f \in Files : hashes[f] # Missing}

NoOp == [kind |-> "none", pc |-> "idle", file |-> 0, todo |-> {}, failed |-> FALSE,
         skipped |-> FALSE, view |-> [source |-> FALSE, saves |-> 0]]

MoveInit ==
  /\ source = [f \in Files |-> 1] /\ managed = [f \in Files |-> Missing]
  /\ folder = [source |-> TRUE, managed |-> FALSE]
  /\ oneVolume \in BOOLEAN
  /\ approved = [f \in Files |-> Missing] /\ hashes = approved
  /\ op = NoOp
  /\ ledger = {}
  /\ manifest = [status |-> "none", rollback |-> "none"]
  /\ settings = [source |-> FALSE, saves |-> 0]
  /\ saver = [pc |-> "idle", view |-> settings]
  /\ spent = [edits |-> 0, stops |-> 0, moves |-> 0]

At(pc) == op.pc = pc
Goto(pc) == op' = [op EXCEPT !.pc = pc]

OnDisk      == UNCHANGED <<oneVolume, approved, hashes, ledger, manifest, settings, saver, spent>>
OffDisk     == OnDisk /\ UNCHANGED disk
InRecords   == UNCHANGED <<disk, oneVolume, approved, hashes, settings, saver, spent>>

----------------------------------------------------------------------------
(* The execution of a move. *)

Preflight ==
  /\ At("idle") /\ folder.source /\ ~ folder.managed
  /\ approved' = source
  /\ UNCHANGED <<disk, oneVolume, op, hashes, ledger, manifest, settings, saver, spent>>

\* The files after f that the move still has to take.
Following(f) == {g \in Listed : g > f}
First(S) == CHOOSE f \in S : \A g \in S : f <= g
Last(S)  == CHOOSE f \in S : \A g \in S : f >= g

\* The confirmed fingerprint still fits: the records are written, then the first
\* file is taken.  (An empty folder moves too.)
StartMove ==
  /\ At("idle") /\ spent.moves < MaxMoves
  /\ folder.source /\ ~ folder.managed /\ approved = source
  /\ spent' = [spent EXCEPT !.moves = @ + 1]
  /\ hashes' = source
  /\ ledger' = {}
  /\ manifest' = [status |-> "running", rollback |-> "none"]
  /\ folder' = [folder EXCEPT !.managed = TRUE]
  /\ op' = [NoOp EXCEPT !.kind = "move",
              !.pc = IF Empty(source) THEN "cleaning" ELSE "reading",
              !.file = IF Empty(source) THEN 0
                       ELSE First({f \in Files : source[f] # Missing})]
  /\ UNCHANGED <<source, managed, oneVolume, approved, settings, saver>>

\* verifiedFileHash: the bytes are compared, and reading them may fail, whatever they are.
Compares(same, then) == \E pc \in {IF same THEN then ELSE "failing", "failing"} : Goto(pc)

ReadSource ==
  /\ At("reading")
  /\ Compares(source[op.file] = hashes[op.file], "placing")
  /\ OffDisk

\* moveFileAcrossVolumes: a rename, or a copy when the volumes differ; either may fail,
\* and a copy may come out short, with an error or without.
Place ==
  /\ At("placing")
  /\ \/ /\ Goto("failing")
        /\ OffDisk
     \/ /\ source[op.file] # Missing /\ oneVolume
        /\ managed' = [managed EXCEPT ![op.file] = source[op.file]]
        /\ source' = [source EXCEPT ![op.file] = Missing]
        /\ Goto("verifying")
        /\ OnDisk /\ UNCHANGED folder
     \/ /\ source[op.file] # Missing /\ ~ oneVolume
        /\ \E v \in {source[op.file], Short}, pc \in {"verifying", "failing"} :
             /\ pc = "failing" => v = Short
             /\ managed' = [managed EXCEPT ![op.file] = v]
             /\ Goto(pc)
        /\ OnDisk /\ UNCHANGED <<source, folder>>

\* Mutant: the copy is not compared before the original goes.
Intact_Bug(f) == managed[f] # Missing

Intact(f) == managed[f] = hashes[f]

Verify ==
  /\ At("verifying")
  /\ Compares(Intact(op.file), IF oneVolume THEN "rechecking" ELSE "unlinking")
  /\ OffDisk

Unlink ==
  /\ At("unlinking")
  /\ \/ /\ source' = [source EXCEPT ![op.file] = Missing]
        /\ Goto("rechecking")
     \/ Goto("failing") /\ UNCHANGED source
  /\ OnDisk /\ UNCHANGED <<managed, folder>>

Recheck ==
  /\ At("rechecking")
  /\ Compares(Intact(op.file), "logging")
  /\ OffDisk

\* restoreMovedEntry would put the file back.
Restorable(f) == source[f] = Missing /\ managed[f] # Missing /\ Intact(f)

Duplicate(f) == managed[f] # Missing /\ source[f] # Missing

\* The catch of a file: its copy is removed when the original is there, else the
\* original is restored.
FailFile ==
  /\ At("failing")
  /\ managed' = IF Duplicate(op.file) THEN [managed EXCEPT ![op.file] = Missing] ELSE managed
  /\ \E back \in {Restorable(op.file), FALSE} :
       op' = [op EXCEPT !.failed = TRUE, !.pc = IF back THEN "undoing" ELSE "logging"]
  /\ OnDisk /\ UNCHANGED <<source, folder>>

PutBack(f) == /\ source' = [source EXCEPT ![f] = managed[f]]
              /\ managed' = [managed EXCEPT ![f] = Missing]
              /\ folder' = [folder EXCEPT !.source = TRUE]

UndoFile ==
  /\ At("undoing")
  /\ PutBack(op.file)
  /\ Goto("logging")
  /\ OnDisk

\* Mutant: the ledger is written once, after the last file.
Recorded_Bug(f) == IF Following(f) = {} THEN Listed ELSE ledger

\* The ledger with the entry of a moved file appended.
Recorded(f) == ledger \cup {f}

\* The entry is appended to the ledger; a failure ends the loop.
AppendLedger ==
  /\ At("logging")
  /\ ledger' = IF op.failed THEN ledger ELSE Recorded(op.file)
  /\ op' = IF op.failed THEN [op EXCEPT !.pc = "rolling", !.todo = ledger]
           ELSE IF Following(op.file) = {} THEN [op EXCEPT !.pc = "cleaning"]
           ELSE [op EXCEPT !.pc = "reading", !.file = First(Following(op.file))]
  /\ UNCHANGED manifest /\ InRecords

\* cleanupMovedSourceRoot keeps a folder that has something in it.
CleanSource ==
  /\ At("cleaning")
  /\ folder' = [folder EXCEPT !.source = ~ Empty(source)]
  /\ Goto("closing")
  /\ OnDisk /\ UNCHANGED <<source, managed>>

----------------------------------------------------------------------------
(* Rollback, automatic after a failed file or asked for by the human. *)

StartRollback ==
  /\ At("idle")
  /\ manifest.status # "none" /\ manifest.rollback # "restored"
  /\ op' = [NoOp EXCEPT !.kind = "rollback", !.pc = "rolling", !.todo = ledger]
  /\ OffDisk

\* restoreMovedEntry: the checks, which a failing call fails too, then the rename and one
\* more look at the bytes (nobody edits them in managed memory meanwhile).
RestoreCheck ==
  /\ At("rolling") /\ op.todo # {}
  /\ LET f == Last(op.todo)
     IN  \/ /\ Restorable(f)
            /\ op' = [op EXCEPT !.pc = "restoring", !.file = f]
         \/ op' = [op EXCEPT !.todo = @ \ {f}, !.skipped = TRUE]
  /\ OffDisk

RestoreRename ==
  /\ At("restoring")
  /\ PutBack(op.file)
  /\ \E unsure \in BOOLEAN :
       op' = [op EXCEPT !.pc = "rolling", !.todo = @ \ {op.file}, !.skipped = @ \/ unsure]
  /\ OnDisk

\* Mutant: what is left in managed memory does not count.
LeftOver_Bug == FALSE

\* rmdir refuses a folder that has something in it; mkdir of the source may fail before.
LeftOver == ~ Empty(managed)

RestoreRoot ==
  /\ At("rolling") /\ op.todo = {}
  /\ \/ /\ folder' = [source |-> TRUE, managed |-> folder.managed /\ LeftOver]
        /\ op' = [op EXCEPT !.pc = "closing", !.skipped = @ \/ LeftOver]
     \/ /\ op' = [op EXCEPT !.pc = "closing", !.skipped = TRUE]
        /\ UNCHANGED folder
  /\ OnDisk /\ UNCHANGED <<source, managed>>

----------------------------------------------------------------------------
(* The manifest and the settings. *)

RollbackStatus == IF op.skipped THEN "partial" ELSE "restored"

CloseManifest ==
  /\ At("closing")
  /\ manifest' =
       IF op.kind = "rollback" THEN [manifest EXCEPT !.rollback = RollbackStatus]
       ELSE IF op.failed THEN [status |-> "rolled back", rollback |-> RollbackStatus]
       ELSE [status |-> "moved", rollback |-> "none"]
  /\ op' = IF op.failed THEN NoOp ELSE [op EXCEPT !.pc = "registering"]
  /\ UNCHANGED ledger /\ InRecords

ReadSettings ==
  /\ At("registering")
  /\ op' = [op EXCEPT !.pc = "saving", !.view = settings]
  /\ OffDisk

\* shouldDeregisterMovedSourceAfterRollback.
Deregisters == op.kind = "rollback" /\ ~ op.skipped

WriteSettings ==
  /\ At("saving")
  /\ settings' = [op.view EXCEPT !.source = (op.kind = "move" \/ @) /\ ~ Deregisters]
  /\ op' = NoOp
  /\ UNCHANGED <<disk, oneVolume, approved, hashes, ledger, manifest, saver, spent>>

----------------------------------------------------------------------------
(* The others: a save of the settings, the human, the end of the host. *)

SaverReads ==
  /\ saver.pc = "idle" /\ settings.saves < MaxSaves
  /\ saver' = [pc |-> "read", view |-> settings]
  /\ UNCHANGED <<disk, oneVolume, approved, op, hashes, ledger, manifest, settings, spent>>

SaverWrites ==
  /\ saver.pc = "read"
  /\ settings' = [saver.view EXCEPT !.saves = @ + 1]
  /\ saver' = [saver EXCEPT !.pc = "idle"]
  /\ UNCHANGED <<disk, oneVolume, approved, op, hashes, ledger, manifest, spent>>

\* A new version of a file of the source, in a folder that may have to be made again,
\* or, between moves, of a file in managed memory.
Edit(f) ==
  /\ spent.edits < MaxEdits
  /\ spent' = [spent EXCEPT !.edits = @ + 1]
  /\ \/ /\ source' = [source EXCEPT ![f] = 2 + spent.edits]
        /\ folder' = [folder EXCEPT !.source = TRUE]
        /\ UNCHANGED managed
     \/ /\ At("idle") /\ managed[f] # Missing
        /\ managed' = [managed EXCEPT ![f] = 2 + spent.edits]
        /\ UNCHANGED <<source, folder>>
  /\ UNCHANGED <<oneVolume, approved, op, hashes, ledger, manifest, settings, saver>>

HostStops ==
  /\ spent.stops < MaxStops
  /\ spent' = [spent EXCEPT !.stops = @ + 1]
  /\ op' = NoOp
  /\ saver' = [saver EXCEPT !.pc = "idle"]
  /\ UNCHANGED <<disk, oneVolume, approved, hashes, ledger, manifest, settings>>

Mover ==
  \/ Preflight \/ StartMove \/ ReadSource \/ Place \/ Verify \/ Unlink \/ Recheck
  \/ FailFile \/ UndoFile \/ AppendLedger \/ CleanSource
  \/ StartRollback \/ RestoreCheck \/ RestoreRename \/ RestoreRoot
  \/ CloseManifest \/ ReadSettings \/ WriteSettings

MoveNext == Mover \/ SaverReads \/ SaverWrites \/ HostStops \/ \E f \in Files : Edit(f)

MoveSpec == MoveInit /\ [][MoveNext]_moveVars

----------------------------------------------------------------------------
Versions == 0 .. Short
Settings == [source : BOOLEAN, saves : 0 .. MaxSaves]

\* Every variable has its shape.
MoveTypeOK ==
  /\ {source, managed, approved, hashes} \subseteq [Files -> Versions]
  /\ folder \in [source : BOOLEAN, managed : BOOLEAN] /\ oneVolume \in BOOLEAN
  /\ op \in [kind : {"none", "move", "rollback"},
             pc : {"idle", "reading", "placing", "verifying", "unlinking", "rechecking",
                   "failing", "undoing", "logging", "cleaning", "rolling", "restoring",
                   "closing", "registering", "saving"},
             file : Files \cup {0}, todo : SUBSET Files,
             failed : BOOLEAN, skipped : BOOLEAN, view : Settings]
  /\ ledger \subseteq Files
  /\ manifest \in [status : {"none", "running", "moved", "rolled back"},
                   rollback : {"none", "partial", "restored"}]
  /\ settings \in Settings
  /\ saver \in [pc : {"idle", "read"}, view : Settings]
  /\ spent \in [edits : 0 .. MaxEdits, stops : 0 .. MaxStops, moves : 0 .. MaxMoves]

Bytes(f) == {source[f], managed[f]} \ {Missing, Short}

\* Neither a move nor a rollback destroys the last copy of the bytes a move was
\* approved for, whatever fails, whoever edits, wherever the host stops: unless the human
\* has written the file anew, and then the newer version is in the source.
ApprovedBytesAreKept ==
  [][op' # op =>
       \A f \in Listed :
         hashes[f] \in Bytes(f) => hashes[f] \in Bytes(f)' \/ source'[f] > hashes[f]]_moveVars

\* The ledger accounts for every file that left the source, except one: the file under way
\* when the host stopped, or the one that ended the move and could not be put back.
LedgerCoversMoves ==
  Cardinality({f \in Listed \ ledger : managed[f] # Missing /\ source[f] = Missing}) <= 1

\* A rollback is called restored only when nothing is left in managed memory and every
\* file is back, in the approved version or one the human wrote since; a move is called
\* moved only when managed memory has every file of it, in the bytes the human approved.
EntriesStayWhole ==
  [][/\ manifest.rollback # "restored" /\ manifest'.rollback = "restored" =>
          Empty(managed) /\ \A f \in Listed : source[f] \in hashes[f] .. MaxEdits + 1
     /\ manifest.status # "moved" /\ manifest'.status = "moved" =>
          \A f \in Listed : managed[f] = hashes[f]]_moveVars
=============================================================================
