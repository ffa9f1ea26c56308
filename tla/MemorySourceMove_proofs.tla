------------------------ MODULE MemorySourceMove_proofs ------------------------
(***************************************************************************)
(* Proofs about the move of a memory source.  MoveInv is inductive: which  *)
(* versions a tree can hold, that no file of the move is ever in neither   *)
(* tree, that at most one file is away from the source without a ledger    *)
(* entry, and what the step under way has done so far (the ledger is the   *)
(* files before the one under way, each with the approved bytes in managed *)
(* memory).  The files are taken in order and put back in reverse order,   *)
(* so the proofs need the least and the greatest element of a finite set.  *)
(***************************************************************************)
EXTENDS MemorySourceMove, FiniteSetTheorems, WellFoundedInduction, TLAPS

\* The last version written so far.
Upto == 1 + spent.edits

\* The records of the model.
Places == {"idle", "reading", "placing", "verifying", "unlinking", "rechecking", "failing",
           "undoing", "logging", "cleaning", "rolling", "restoring", "closing",
           "registering", "saving"}
Ops == [kind : {"none", "move", "rollback"}, pc : Places,
        file : Files \cup {0}, todo : SUBSET Files,
        failed : BOOLEAN, skipped : BOOLEAN, view : Settings]
Folders == [source : BOOLEAN, managed : BOOLEAN]
Manifests == [status : {"none", "running", "moved", "rolled back"},
              rollback : {"none", "partial", "restored"}]
Savers == [pc : {"idle", "read"}, view : Settings]
Spent == [edits : 0 .. MaxEdits, stops : 0 .. MaxStops, moves : 0 .. MaxMoves]

\* Only a file in managed memory can be short.
VersionsFit ==
  /\ source \in [Files -> 0 .. Upto] /\ hashes \in [Files -> 0 .. Upto]
  /\ approved \in [Files -> 0 .. Upto]
  /\ managed \in [Files -> 0 .. Upto \cup {Short}]
\* The operation, the ledger and the manifest have their shape.
RecordsFit ==
  /\ op \in Ops /\ folder \in Folders /\ oneVolume \in BOOLEAN /\ ledger \subseteq Listed
  /\ manifest \in Manifests /\ spent \in Spent
\* A save reads settings that still have room for it.
SettingsFit ==
  /\ settings \in Settings /\ saver \in Savers
  /\ saver.pc = "read" => saver.view.saves < MaxSaves

\* The source has the approved version of a file, a newer one, or none.
Newer == \A f \in Listed : source[f] = Missing \/ hashes[f] <= source[f]
\* No file of the move is in neither tree.
Kept == \A f \in Listed : source[f] # Missing \/ managed[f] # Missing
\* A folder that is not there has no files.
Bare == ~ folder.managed => Empty(managed)
\* A file that left the source without an entry; there is at most one.
TakenAway(f) == f \in Listed \ ledger /\ managed[f] # Missing /\ source[f] = Missing
OneAway == \A f, g \in Files : TakenAway(f) /\ TakenAway(g) => f = g
Trees == Newer /\ Kept /\ Bare /\ OneAway

\* What the move has done when it is at a file.
Taking == {"reading", "placing", "verifying", "unlinking", "rechecking", "failing",
           "undoing", "logging"}
SoFar ==
  /\ op.kind = "move" /\ op.file \in Listed /\ folder.managed
  /\ ledger = {g \in Listed : g < op.file}
  /\ \A g \in ledger : Intact(g)
  /\ \A g \in Files \ ledger : g # op.file => managed[g] = Missing
  /\ op.pc \in {"reading", "placing"} => managed[op.file] = Missing
  /\ op.pc \in {"unlinking", "rechecking", "undoing"} => Intact(op.file)
  /\ op.pc = "logging" /\ ~ op.failed => Intact(op.file)
  /\ op.failed => op.pc \in {"undoing", "logging"}
  /\ op.pc = "undoing" => op.failed
\* Managed memory has every file of the move as approved.
Whole == \A f \in Listed : Intact(f)
\* A rollback, asked for or automatic.
Undoes == op.kind = "rollback" \/ (op.kind = "move" /\ op.failed)

\* What the operation has established, stage by stage.
StageFits ==
  /\ op.pc \in Taking => SoFar
  /\ op.pc = "cleaning" => op.kind = "move" /\ ~op.failed /\ Whole
  /\ op.pc \in {"rolling", "restoring"} => op.todo \subseteq ledger /\ Undoes
  /\ op.pc = "restoring" => op.file \in op.todo /\ Intact(op.file)
  /\ op.pc = "closing" =>
       \/ op.kind = "move" /\ ~op.failed /\ Whole
       \/ Undoes /\ (~op.skipped => Empty(managed))
  /\ op.kind = "rollback" => ~op.failed
  /\ op.pc = "idle" => ~op.failed

\* The inductive invariant.
MoveInv == VersionsFit /\ RecordsFit /\ SettingsFit /\ Trees /\ StageFits

-----------------------------------------------------------------------------
(* The least and the greatest number of a finite set, by induction over its subsets. *)
LEMMA FirstIs ==
  ASSUME NEW S, S \subseteq Nat, S # {}, IsFiniteSet(S)
  PROVE  First(S) \in S /\ \A g \in S : First(S) <= g
<1> DEFINE Bad == {T \in SUBSET S : T # {} /\ ~\E m \in T : \A g \in T : m <= g}
           R == StrictSubsetOrdering(S)
<1>1. Bad = {}
  <2>1. SUFFICES ASSUME Bad # {} PROVE FALSE
    OBVIOUS
  <2>2. IsWellFoundedOn(R, FiniteSubsetsOf(S)) /\ FiniteSubsetsOf(S) = SUBSET S
    BY FS_StrictSubsetOrderingWellFounded, FS_FiniteSubsetsOfFinite
  <2>3. \E T \in Bad : \A U \in Bad : <<U, T>> \notin R
    <3>1. Bad \subseteq FiniteSubsetsOf(S)
      BY <2>2
    <3> HIDE DEF R, Bad
    <3>2. QED
      BY <2>1, <2>2, <3>1, WFMin
  <2>4. PICK T \in Bad : \A U \in Bad : <<U, T>> \notin R
    BY <2>3
  <2>5. PICK t \in T : TRUE
    BY <2>4
  <2>6. /\ T \in SUBSET S /\ t \in Nat /\ \A g \in T : g \in Nat
        /\ ~\E m \in T : \A g \in T : m <= g
    BY <2>4, <2>5
  <2>7. T \ {t} \notin Bad
    <3>1. <<T \ {t}, T>> \in R
      BY <2>5, <2>6 DEF StrictSubsetOrdering
    <3>2. QED
      BY <2>4, <3>1
  <2>8. T \ {t} # {}
    <3>1. SUFFICES ASSUME T \ {t} = {} PROVE FALSE
      OBVIOUS
    <3>2. T = {t}
      BY <2>5, <3>1
    <3>3. QED
      BY <2>6, <3>2
  <2>9. PICK m \in T \ {t} : \A g \in T \ {t} : m <= g
    BY <2>6, <2>7, <2>8
  <2>10. m \in T /\ m \in Nat
    BY <2>6, <2>9
  <2>11. \A g \in T : g = t \/ m <= g
    BY <2>9
  <2>12. CASE m <= t
    BY <2>6, <2>10, <2>11, <2>12
  <2>13. CASE ~(m <= t)
    <3>1. \A g \in T : t <= g
      BY <2>6, <2>10, <2>11, <2>13
    <3>2. QED
      BY <2>5, <2>6, <3>1
  <2>14. QED
    BY <2>12, <2>13
<1>2. \E m \in S : \A g \in S : m <= g
  BY <1>1
<1>3. QED
  BY <1>2 DEF First

LEMMA Greatest ==
  ASSUME NEW S, S \subseteq Nat, S # {}, IsFiniteSet(S)
  PROVE  Last(S) \in S /\ \A g \in S : Last(S) >= g
<1> DEFINE Bad == {T \in SUBSET S : T # {} /\ ~\E m \in T : \A g \in T : m >= g}
           R == StrictSubsetOrdering(S)
<1>1. Bad = {}
  <2>1. SUFFICES ASSUME Bad # {} PROVE FALSE
    OBVIOUS
  <2>2. IsWellFoundedOn(R, FiniteSubsetsOf(S)) /\ FiniteSubsetsOf(S) = SUBSET S
    BY FS_StrictSubsetOrderingWellFounded, FS_FiniteSubsetsOfFinite
  <2>3. \E T \in Bad : \A U \in Bad : <<U, T>> \notin R
    <3>1. Bad \subseteq FiniteSubsetsOf(S)
      BY <2>2
    <3> HIDE DEF R, Bad
    <3>2. QED
      BY <2>1, <2>2, <3>1, WFMin
  <2>4. PICK T \in Bad : \A U \in Bad : <<U, T>> \notin R
    BY <2>3
  <2>5. PICK t \in T : TRUE
    BY <2>4
  <2>6. /\ T \in SUBSET S /\ t \in Nat /\ \A g \in T : g \in Nat
        /\ ~\E m \in T : \A g \in T : m >= g
    BY <2>4, <2>5
  <2>7. T \ {t} \notin Bad
    <3>1. <<T \ {t}, T>> \in R
      BY <2>5, <2>6 DEF StrictSubsetOrdering
    <3>2. QED
      BY <2>4, <3>1
  <2>8. T \ {t} # {}
    <3>1. SUFFICES ASSUME T \ {t} = {} PROVE FALSE
      OBVIOUS
    <3>2. T = {t}
      BY <2>5, <3>1
    <3>3. QED
      BY <2>6, <3>2
  <2>9. PICK m \in T \ {t} : \A g \in T \ {t} : m >= g
    BY <2>6, <2>7, <2>8
  <2>10. m \in T /\ m \in Nat
    BY <2>6, <2>9
  <2>11. \A g \in T : g = t \/ m >= g
    BY <2>9
  <2>12. CASE m >= t
    BY <2>6, <2>10, <2>11, <2>12
  <2>13. CASE ~(m >= t)
    <3>1. \A g \in T : t >= g
      BY <2>6, <2>10, <2>11, <2>13
    <3>2. QED
      BY <2>5, <2>6, <3>1
  <2>14. QED
    BY <2>12, <2>13
<1>2. \E m \in S : \A g \in S : m >= g
  BY <1>1
<1>3. QED
  BY <1>2 DEF Last

-----------------------------------------------------------------------------
(* The record of the operation, and what a step keeps that leaves the trees alone. *)
LEMMA OpFields ==
  ASSUME NEW x \in Ops
  PROVE  /\ x.kind \in {"none", "move", "rollback"} /\ x.pc \in Places
         /\ x.file \in Files \cup {0} /\ x.todo \subseteq Files
         /\ x.failed \in BOOLEAN /\ x.skipped \in BOOLEAN /\ x.view \in Settings
  BY DEF Ops

LEMMA NoOpIs == NoOp \in Ops /\ NoOp.kind = "none" /\ NoOp.pc = "idle" /\ ~NoOp.failed
  BY MoveAssumption DEF NoOp, Ops, Places, Settings

LEMMA GotoIs ==
  ASSUME op \in Ops, NEW pc \in Places, Goto(pc)
  PROVE  /\ op' \in Ops /\ op'.pc = pc /\ op'.kind = op.kind /\ op'.file = op.file
         /\ op'.todo = op.todo /\ op'.failed = op.failed /\ op'.skipped = op.skipped
  BY DEF Goto, Ops

LEMMA ComparesIs ==
  ASSUME op \in Ops, NEW same \in BOOLEAN, NEW then \in Places, Compares(same, then)
  PROVE  /\ op' \in Ops /\ op'.kind = op.kind /\ op'.file = op.file
         /\ op'.todo = op.todo /\ op'.failed = op.failed /\ op'.skipped = op.skipped
         /\ op'.pc = "failing" \/ (same /\ op'.pc = then)
<1>1. PICK pc \in {IF same THEN then ELSE "failing", "failing"} : Goto(pc)
  BY DEF Compares
<1>2. pc \in Places /\ (pc = "failing" \/ (same /\ pc = then))
  BY DEF Places
<1>3. QED
  BY <1>1, <1>2, GotoIs

LEMMA OffDiskKeeps ==
  ASSUME MoveInv, UNCHANGED <<disk, hashes, ledger>>, op' \in Ops, StageFits',
         approved' \in [Files -> 0 .. Upto], UNCHANGED oneVolume, manifest' \in Manifests,
         spent' \in Spent, spent'.edits = spent.edits, SettingsFit'
  PROVE  MoveInv'
<1>1. Upto' = Upto /\ Listed' = Listed
  BY DEF Upto, Listed
<1>2. VersionsFit' /\ RecordsFit'
  BY <1>1 DEF MoveInv, VersionsFit, RecordsFit, disk
<1>3. Trees'
  BY <1>1 DEF MoveInv, Trees, Newer, Kept, Bare, OneAway, TakenAway, Empty, disk
<1>4. QED
  BY <1>2, <1>3 DEF MoveInv

LEMMA OnDiskKeeps ==
  ASSUME MoveInv, OnDisk, op' \in Ops, folder' \in Folders,
         source' \in [Files -> 0 .. Upto], managed' \in [Files -> 0 .. Upto \cup {Short}],
         Trees', StageFits'
  PROVE  MoveInv'
<1>1. Upto' = Upto /\ Listed' = Listed
  BY DEF Upto, Listed, OnDisk
<1>2. VersionsFit' /\ RecordsFit'
  BY <1>1 DEF MoveInv, VersionsFit, RecordsFit, OnDisk
<1>3. SettingsFit'
  BY DEF MoveInv, SettingsFit, OnDisk
<1>4. QED
  BY <1>2, <1>3 DEF MoveInv

LEMMA MoveFacts ==
  ASSUME MoveInv
  PROVE  /\ op \in Ops /\ folder \in Folders /\ ledger \subseteq Listed /\ Listed \subseteq Files
         /\ Files \subseteq Nat /\ Upto \in Nat
         /\ \A f \in Files : /\ source[f] \in 0 .. Upto /\ hashes[f] \in 0 .. Upto
                             /\ managed[f] \in 0 .. Upto \cup {Short}
         /\ \A f \in Listed : hashes[f] # 0
         /\ VersionsFit /\ RecordsFit /\ SettingsFit /\ Trees /\ StageFits
         /\ Missing = 0 /\ Short \in Nat /\ Upto < Short /\ spent \in Spent
<1>1. spent.edits \in 0 .. MaxEdits /\ MaxEdits \in Nat
  BY MoveAssumption DEF MoveInv, RecordsFit, Spent
<1>2. QED
  BY <1>1, MoveAssumption DEF MoveInv, VersionsFit, RecordsFit, Listed, Upto, Missing, Short

-----------------------------------------------------------------------------
(* The steps that look and do not touch. *)
LEMMA ReadSourceKeeps ==
  ASSUME MoveInv, ReadSource
  PROVE  MoveInv'
<1>1. /\ op' \in Ops /\ op'.kind = op.kind /\ op'.file = op.file
      /\ op'.todo = op.todo /\ op'.failed = op.failed /\ op'.skipped = op.skipped
      /\ op'.pc \in {"placing", "failing"} /\ op.pc = "reading" /\ OffDisk
  BY MoveFacts, ComparesIs DEF ReadSource, At, Places
<1>2. Listed' = Listed /\ SoFar
  BY <1>1, MoveFacts DEF StageFits, Taking, OffDisk, OnDisk, Listed
<1>3. StageFits'
  BY <1>1, <1>2, MoveFacts DEF StageFits, SoFar, Taking, Intact, OffDisk, OnDisk, disk
<1>4. QED
  BY <1>1, <1>3, MoveFacts, OffDiskKeeps
     DEF OffDisk, OnDisk, VersionsFit, RecordsFit, SettingsFit

LEMMA VerifyKeeps ==
  ASSUME MoveInv, Verify
  PROVE  MoveInv'
<1>1. /\ op' \in Ops /\ op'.kind = op.kind /\ op'.file = op.file
      /\ op'.todo = op.todo /\ op'.failed = op.failed /\ op'.skipped = op.skipped
      /\ \/ op'.pc = "failing"
         \/ Intact(op.file) /\ op'.pc \in {"rechecking", "unlinking"}
      /\ op.pc = "verifying" /\ OffDisk
  BY MoveFacts, ComparesIs DEF Verify, At, Places, Intact
<1>2. Listed' = Listed /\ SoFar
  BY <1>1, MoveFacts DEF StageFits, Taking, OffDisk, OnDisk, Listed
<1>3. StageFits'
  BY <1>1, <1>2, MoveFacts DEF StageFits, SoFar, Taking, Intact, OffDisk, OnDisk, disk
<1>4. QED
  BY <1>1, <1>3, MoveFacts, OffDiskKeeps
     DEF OffDisk, OnDisk, VersionsFit, RecordsFit, SettingsFit

LEMMA RecheckKeeps ==
  ASSUME MoveInv, Recheck
  PROVE  MoveInv'
<1>1. /\ op' \in Ops /\ op'.kind = op.kind /\ op'.file = op.file
      /\ op'.todo = op.todo /\ op'.failed = op.failed /\ op'.skipped = op.skipped
      /\ op'.pc = "failing" \/ (Intact(op.file) /\ op'.pc = "logging")
      /\ op.pc = "rechecking" /\ OffDisk
  BY MoveFacts, ComparesIs DEF Recheck, At, Places, Intact
<1>2. Listed' = Listed /\ SoFar
  BY <1>1, MoveFacts DEF StageFits, Taking, OffDisk, OnDisk, Listed
<1>3. StageFits'
  BY <1>1, <1>2, MoveFacts DEF StageFits, SoFar, Taking, Intact, OffDisk, OnDisk, disk
<1>4. QED
  BY <1>1, <1>3, MoveFacts, OffDiskKeeps
     DEF OffDisk, OnDisk, VersionsFit, RecordsFit, SettingsFit

LEMMA PreflightKeeps ==
  ASSUME MoveInv, Preflight
  PROVE  MoveInv'
<1>1. /\ op.pc = "idle" /\ approved' = source
      /\ UNCHANGED <<disk, oneVolume, op, hashes, ledger, manifest, settings, saver, spent>>
  BY DEF Preflight, At
<1>2. StageFits'
  BY <1>1, MoveFacts DEF StageFits, Taking, Undoes
<1>3. QED
  BY <1>1, <1>2, MoveFacts, OffDiskKeeps DEF VersionsFit, RecordsFit, SettingsFit

LEMMA StartRollbackKeeps ==
  ASSUME MoveInv, StartRollback
  PROVE  MoveInv'
<1>1. /\ op.pc = "idle" /\ OffDisk
      /\ op' = [NoOp EXCEPT !.kind = "rollback", !.pc = "rolling", !.todo = ledger]
  BY DEF StartRollback, At
<1>2. /\ op' \in Ops /\ op'.pc = "rolling" /\ op'.todo = ledger /\ op'.kind = "rollback"
      /\ ~op'.failed
  BY <1>1, NoOpIs, MoveFacts DEF Ops, Places
<1>3. StageFits'
  BY <1>1, <1>2, MoveFacts DEF StageFits, Taking, Undoes, OffDisk, OnDisk
<1>4. QED
  BY <1>1, <1>2, <1>3, MoveFacts, OffDiskKeeps
     DEF OffDisk, OnDisk, VersionsFit, RecordsFit, SettingsFit

LEMMA RestoreCheckKeeps ==
  ASSUME MoveInv, RestoreCheck
  PROVE  MoveInv'
<1> DEFINE f == Last(op.todo)
<1>1. op.pc = "rolling" /\ op.todo # {} /\ OffDisk
  BY DEF RestoreCheck, At
<1>2. op.todo \subseteq ledger /\ Undoes /\ (op.kind = "rollback" => ~op.failed)
  BY <1>1, MoveFacts DEF StageFits
<1>3. f \in op.todo /\ f \in Files
  <2>1. IsFiniteSet(op.todo) /\ op.todo \subseteq Nat
    BY <1>2, MoveFacts, MoveAssumption, FS_Subset
  <2>2. QED
    BY <1>1, <1>2, <2>1, Greatest, MoveFacts
<1> HIDE DEF f
<1>4. /\ op' \in Ops /\ op'.kind = op.kind /\ op'.failed = op.failed
      /\ op'.todo \subseteq op.todo
      /\ \/ op'.pc = "rolling"
         \/ op'.pc = "restoring" /\ op'.file = f /\ op'.todo = op.todo /\ Intact(f)
  <2>1. CASE Restorable(f) /\ op' = [op EXCEPT !.pc = "restoring", !.file = f]
    BY <2>1, <1>3, MoveFacts DEF Ops, Places, Restorable
  <2>2. CASE op' = [op EXCEPT !.todo = @ \ {f}, !.skipped = TRUE]
    BY <2>2, <1>1, MoveFacts DEF Ops
  <2>3. QED
    BY <2>1, <2>2 DEF RestoreCheck, f
<1>5. StageFits'
  BY <1>1, <1>2, <1>3, <1>4, MoveFacts DEF StageFits, Taking, Undoes, Intact, OffDisk, OnDisk, disk
<1>6. QED
  BY <1>1, <1>4, <1>5, MoveFacts, OffDiskKeeps
     DEF OffDisk, OnDisk, VersionsFit, RecordsFit, SettingsFit

LEMMA ReadSettingsKeeps ==
  ASSUME MoveInv, ReadSettings
  PROVE  MoveInv'
<1>1. op.pc = "registering" /\ OffDisk /\ op' = [op EXCEPT !.pc = "saving", !.view = settings]
  BY DEF ReadSettings, At
<1>2. op' \in Ops /\ op'.pc = "saving" /\ op'.kind = op.kind /\ op'.failed = op.failed
  BY <1>1, MoveFacts DEF Ops, Places, SettingsFit
<1>3. StageFits'
  BY <1>1, <1>2, MoveFacts DEF StageFits, Taking
<1>4. QED
  BY <1>1, <1>2, <1>3, MoveFacts, OffDiskKeeps
     DEF OffDisk, OnDisk, VersionsFit, RecordsFit, SettingsFit

LEMMA WriteSettingsKeeps ==
  ASSUME MoveInv, WriteSettings
  PROVE  MoveInv'
<1>1. /\ op' = NoOp
      /\ settings' = [op.view EXCEPT !.source = (op.kind = "move" \/ @) /\ ~ Deregisters]
      /\ UNCHANGED <<disk, oneVolume, approved, hashes, ledger, manifest, saver, spent>>
  BY DEF WriteSettings
<1>2. StageFits'
  BY <1>1, NoOpIs DEF StageFits, Taking, Undoes
<1>3. SettingsFit'
  <2>1. op.view \in Settings
    BY MoveFacts, OpFields
  <2>2. settings' \in Settings
    BY <1>1, <2>1 DEF Settings, Deregisters
  <2>3. QED
    BY <1>1, <2>2, MoveFacts DEF SettingsFit
<1>4. QED
  BY <1>1, <1>2, <1>3, NoOpIs, MoveFacts, OffDiskKeeps DEF VersionsFit, RecordsFit

LEMMA CloseManifestKeeps ==
  ASSUME MoveInv, CloseManifest
  PROVE  MoveInv'
<1>1. /\ op.pc = "closing" /\ UNCHANGED ledger /\ InRecords
      /\ op' = IF op.failed THEN NoOp ELSE [op EXCEPT !.pc = "registering"]
  BY DEF CloseManifest, At
<1>2. manifest' \in Manifests
  <2>1. manifest \in Manifests /\ RollbackStatus \in {"none", "partial", "restored"}
    BY MoveFacts DEF RecordsFit, RollbackStatus
  <2>2. QED
    BY <2>1 DEF CloseManifest, Manifests
<1>3. op' \in Ops /\ op'.pc \in {"idle", "registering"} /\ ~op'.failed
  BY <1>1, NoOpIs, MoveFacts DEF Ops, Places
<1>4. StageFits'
  BY <1>3 DEF StageFits, Taking
<1>5. QED
  BY <1>1, <1>2, <1>3, <1>4, MoveFacts, OffDiskKeeps
     DEF InRecords, VersionsFit, RecordsFit, SettingsFit

LEMMA SaverKeeps ==
  ASSUME MoveInv, SaverReads \/ SaverWrites
  PROVE  MoveInv'
<1>1. UNCHANGED <<disk, oneVolume, approved, op, hashes, ledger, manifest, spent>>
  BY DEF SaverReads, SaverWrites
<1>2. StageFits'
  <2>1. StageFits
    BY MoveFacts
  <2>2. QED
    BY <1>1, <2>1 DEF StageFits, SoFar, Whole, Undoes, Intact, Empty, Listed, disk
<1>3. SettingsFit'
  <2>1. SettingsFit /\ MaxSaves \in Nat
    BY MoveFacts, MoveAssumption
  <2>2. CASE SaverReads
    BY <2>1, <2>2 DEF SettingsFit, SaverReads, Savers
  <2>3. CASE SaverWrites
    BY <2>1, <2>3 DEF SettingsFit, SaverWrites, Savers, Settings
  <2>4. QED
    BY <2>2, <2>3
<1>4. QED
  BY <1>1, <1>2, <1>3, MoveFacts, OffDiskKeeps DEF VersionsFit, RecordsFit

LEMMA HostStopsKeeps ==
  ASSUME MoveInv, HostStops
  PROVE  MoveInv'
<1>1. /\ spent' = [spent EXCEPT !.stops = @ + 1] /\ spent.stops < MaxStops
      /\ op' = NoOp /\ saver' = [saver EXCEPT !.pc = "idle"]
      /\ UNCHANGED <<disk, oneVolume, approved, hashes, ledger, manifest, settings>>
  BY DEF HostStops
<1>2. spent' \in Spent /\ spent'.edits = spent.edits
  BY <1>1, MoveFacts, MoveAssumption DEF Spent
<1>3. StageFits'
  BY <1>1, NoOpIs DEF StageFits, Taking, Undoes
<1>4. SettingsFit'
  BY <1>1, MoveFacts DEF SettingsFit, Savers
<1>5. QED
  BY <1>1, <1>2, <1>3, <1>4, NoOpIs, MoveFacts, OffDiskKeeps DEF VersionsFit, RecordsFit

-----------------------------------------------------------------------------
(* The steps of a file under way. *)
\* What is known at the file under way.
LEMMA AtFile ==
  ASSUME MoveInv, op.pc \in Taking
  PROVE  /\ SoFar /\ op.file \in Listed /\ op.file \in Files /\ op.file \notin ledger
         /\ hashes[op.file] # 0 /\ folder.managed /\ op.kind = "move"
         /\ source[op.file] = 0 \/ hashes[op.file] <= source[op.file]
         /\ source[op.file] # 0 \/ managed[op.file] # 0
         /\ \A g \in Files : TakenAway(g) => g = op.file
<1>1. SoFar
  BY MoveFacts DEF StageFits
<1>2. op.file \in Listed /\ op.file \in Files /\ op.file \in Nat
  BY <1>1, MoveFacts DEF SoFar
<1>3. op.file \notin ledger
  BY <1>1, <1>2 DEF SoFar
<1>4. QED
  BY <1>1, <1>2, <1>3, MoveFacts DEF SoFar, Trees, Newer, Kept, TakenAway

\* A step at the file under way touches only that file, and leaves it in one place.
LEMMA FileKeeps ==
  ASSUME MoveInv, op.pc \in Taking, OnDisk, op' \in Ops, op'.file = op.file,
         op'.kind = op.kind, folder' \in Folders, folder'.managed = folder.managed,
         op'.pc \in Taking,
         NEW s \in 0 .. Upto, NEW m \in 0 .. Upto \cup {Short},
         source' = [source EXCEPT ![op.file] = s], managed' = [managed EXCEPT ![op.file] = m],
         s = 0 \/ hashes[op.file] <= s, s # 0 \/ m # 0,
         op'.pc \in {"reading", "placing"} => m = 0,
         op'.pc \in {"unlinking", "rechecking", "undoing"} => m = hashes[op.file],
         op'.pc = "logging" /\ ~op'.failed => m = hashes[op.file],
         op'.failed => op'.pc \in {"undoing", "logging"},
         op'.pc = "undoing" => op'.failed
  PROVE  MoveInv'
<1>1. /\ SoFar /\ op.file \in Listed /\ op.file \in Files /\ op.file \notin ledger
      /\ hashes[op.file] # 0 /\ folder.managed /\ op.kind = "move"
      /\ \A g \in Files : TakenAway(g) => g = op.file
  BY AtFile
<1>2. /\ source' \in [Files -> 0 .. Upto] /\ managed' \in [Files -> 0 .. Upto \cup {Short}]
      /\ \A g \in Files : g # op.file => source'[g] = source[g] /\ managed'[g] = managed[g]
      /\ source'[op.file] = s /\ managed'[op.file] = m
  BY <1>1, MoveFacts DEF VersionsFit
<1>3. Listed' = Listed /\ UNCHANGED <<hashes, ledger>>
  BY DEF OnDisk, Listed
<1>4. Newer' /\ Kept'
  BY <1>1, <1>2, <1>3, MoveFacts DEF Trees, Newer, Kept, Missing
<1>5. Bare'
  BY <1>1 DEF Bare
<1>6. OneAway'
  BY <1>1, <1>2, <1>3 DEF OneAway, TakenAway
<1>7. SoFar'
  BY <1>1, <1>2, <1>3, MoveFacts DEF SoFar, Intact, Missing
<1>8. StageFits'
  BY <1>1, <1>7 DEF StageFits, Taking
<1>9. QED
  BY <1>2, <1>4, <1>5, <1>6, <1>8, OnDiskKeeps DEF Trees

\* A file left alone.
LEMMA SameFile ==
  ASSUME MoveInv
  PROVE  /\ source = [source EXCEPT ![op.file] = source[op.file]]
         /\ managed = [managed EXCEPT ![op.file] = managed[op.file]]
<1>1. source \in [Files -> 0 .. Upto] /\ managed \in [Files -> 0 .. Upto \cup {Short}]
  BY MoveFacts DEF VersionsFit
<1>2. QED
  BY <1>1

LEMMA PlaceKeeps ==
  ASSUME MoveInv, Place
  PROVE  MoveInv'
<1>1. op.pc = "placing" /\ OnDisk /\ UNCHANGED folder /\ op.pc \in Taking
  BY DEF Place, At, OffDisk, disk, Taking
<1>2. /\ op.file \in Files /\ managed[op.file] = 0 /\ SoFar /\ ~op.failed
      /\ source[op.file] # 0 /\ hashes[op.file] <= source[op.file]
      /\ source[op.file] \in 0 .. Upto
  BY <1>1, AtFile, MoveFacts DEF SoFar
<1>3. CASE Goto("failing") /\ OffDisk
  <2>1. /\ op' \in Ops /\ op'.pc = "failing" /\ op'.kind = op.kind /\ op'.file = op.file
        /\ op'.failed = op.failed /\ UNCHANGED <<source, managed>>
    BY <1>3, MoveFacts, GotoIs DEF Places, OffDisk, disk
  <2>2. QED
    BY <1>1, <1>2, <2>1, MoveFacts, SameFile, FileKeeps, OpFields DEF RecordsFit, Taking
<1>4. CASE /\ managed' = [managed EXCEPT ![op.file] = source[op.file]]
           /\ source' = [source EXCEPT ![op.file] = Missing]
           /\ Goto("verifying")
  <2>1. /\ op' \in Ops /\ op'.pc = "verifying" /\ op'.kind = op.kind /\ op'.file = op.file
        /\ op'.failed = op.failed
    BY <1>4, MoveFacts, GotoIs DEF Places
  <2>2. /\ source' = [source EXCEPT ![op.file] = 0] /\ 0 \in 0 .. Upto
        /\ source[op.file] \in 0 .. Upto \cup {Short}
    BY <1>2, <1>4, MoveFacts DEF Missing
  <2>3. QED
    BY <1>1, <1>2, <1>4, <2>1, <2>2, MoveFacts, FileKeeps DEF RecordsFit, Taking
<1>5. ASSUME NEW v \in {source[op.file], Short}, NEW pc \in {"verifying", "failing"},
             managed' = [managed EXCEPT ![op.file] = v], Goto(pc), UNCHANGED source
      PROVE  MoveInv'
  <2>1. /\ op' \in Ops /\ op'.pc = pc /\ op'.kind = op.kind /\ op'.file = op.file
        /\ op'.failed = op.failed
    BY <1>5, MoveFacts, GotoIs DEF Places
  <2>2. v \in 0 .. Upto \cup {Short} /\ v # 0
    BY <1>2, <1>5, MoveFacts DEF Short
  <2>3. QED
    BY <1>1, <1>2, <1>5, <2>1, <2>2, MoveFacts, SameFile, FileKeeps DEF RecordsFit, Taking
<1>6. QED
  BY <1>3, <1>4, <1>5 DEF Place

LEMMA UnlinkKeeps ==
  ASSUME MoveInv, Unlink
  PROVE  MoveInv'
<1>1. /\ op.pc = "unlinking" /\ OnDisk /\ UNCHANGED <<folder, managed>> /\ op.pc \in Taking
  BY DEF Unlink, At, Taking
<1>2. /\ op.file \in Files /\ managed[op.file] = hashes[op.file] /\ hashes[op.file] # 0
      /\ ~op.failed /\ source[op.file] \in 0 .. Upto
      /\ managed[op.file] \in 0 .. Upto \cup {Short}
      /\ source[op.file] = 0 \/ hashes[op.file] <= source[op.file]
  BY <1>1, AtFile, MoveFacts DEF SoFar, Intact
<1>3. CASE source' = [source EXCEPT ![op.file] = Missing] /\ Goto("rechecking")
  <2>1. /\ op' \in Ops /\ op'.pc = "rechecking" /\ op'.kind = op.kind /\ op'.file = op.file
        /\ op'.failed = op.failed
    BY <1>3, MoveFacts, GotoIs DEF Places
  <2>2. /\ source' = [source EXCEPT ![op.file] = 0] /\ 0 \in 0 .. Upto
        /\ managed' = [managed EXCEPT ![op.file] = managed[op.file]]
    BY <1>1, <1>2, <1>3, MoveFacts, SameFile DEF Missing
  <2>3. QED
    BY <1>1, <1>2, <2>1, <2>2, MoveFacts, FileKeeps DEF RecordsFit, Taking
<1>4. CASE Goto("failing") /\ UNCHANGED source
  <2>1. /\ op' \in Ops /\ op'.pc = "failing" /\ op'.kind = op.kind /\ op'.file = op.file
        /\ op'.failed = op.failed
    BY <1>4, MoveFacts, GotoIs DEF Places
  <2>2. QED
    BY <1>1, <1>2, <1>4, <2>1, MoveFacts, SameFile, FileKeeps DEF RecordsFit, Taking
<1>5. QED
  BY <1>3, <1>4 DEF Unlink

LEMMA FailFileKeeps ==
  ASSUME MoveInv, FailFile
  PROVE  MoveInv'
<1>1. /\ op.pc = "failing" /\ OnDisk /\ UNCHANGED <<folder, source>> /\ op.pc \in Taking
      /\ managed' = IF Duplicate(op.file) THEN [managed EXCEPT ![op.file] = Missing]
                    ELSE managed
  BY DEF FailFile, At, Taking
<1>2. PICK back \in {Restorable(op.file), FALSE} :
        op' = [op EXCEPT !.failed = TRUE, !.pc = IF back THEN "undoing" ELSE "logging"]
  BY DEF FailFile
<1>3. /\ op' \in Ops /\ op'.kind = op.kind /\ op'.file = op.file /\ op'.failed
      /\ op'.pc \in {"undoing", "logging"}
      /\ op'.pc = "undoing" => Restorable(op.file)
  BY <1>2, MoveFacts DEF Ops, Places
<1>4. /\ op.file \in Files /\ source[op.file] \in 0 .. Upto
      /\ managed[op.file] \in 0 .. Upto \cup {Short}
      /\ source[op.file] = 0 \/ hashes[op.file] <= source[op.file]
      /\ source[op.file] # 0 \/ managed[op.file] # 0
  BY <1>1, AtFile, MoveFacts
<1>5. CASE Duplicate(op.file)
  <2>1. source[op.file] # 0 /\ op'.pc = "logging"
    BY <1>3, <1>5 DEF Duplicate, Restorable, Missing
  <2>2. /\ managed' = [managed EXCEPT ![op.file] = 0] /\ 0 \in 0 .. Upto \cup {Short}
        /\ source' = [source EXCEPT ![op.file] = source[op.file]]
    BY <1>1, <1>5, MoveFacts, SameFile DEF Missing
  <2>3. QED
    BY <1>1, <1>3, <1>4, <2>1, <2>2, MoveFacts, FileKeeps DEF RecordsFit, Taking
<1>6. CASE ~Duplicate(op.file)
  BY <1>1, <1>3, <1>4, <1>6, MoveFacts, SameFile, FileKeeps
     DEF RecordsFit, Taking, Restorable, Intact
<1>7. QED
  BY <1>5, <1>6

LEMMA UndoFileKeeps ==
  ASSUME MoveInv, UndoFile
  PROVE  MoveInv'
<1>1. op.pc = "undoing" /\ OnDisk /\ op.pc \in Taking /\ PutBack(op.file) /\ Goto("logging")
  BY DEF UndoFile, At, Taking
<1>2. /\ op.file \in Files /\ managed[op.file] = hashes[op.file] /\ hashes[op.file] # 0
      /\ hashes[op.file] \in 0 .. Upto
  BY <1>1, AtFile, MoveFacts DEF SoFar, Intact
<1>3. /\ op' \in Ops /\ op'.pc = "logging" /\ op'.kind = op.kind /\ op'.file = op.file
      /\ op'.failed = op.failed
  BY <1>1, MoveFacts, GotoIs DEF Places
<1>4. /\ folder' \in Folders /\ folder'.managed = folder.managed
  BY <1>1, MoveFacts DEF PutBack, Folders
<1>5. op.failed
  BY <1>1, MoveFacts DEF StageFits, Taking, SoFar
<1>6. /\ managed' = [managed EXCEPT ![op.file] = 0] /\ 0 \in 0 .. Upto \cup {Short}
      /\ source' = [source EXCEPT ![op.file] = hashes[op.file]]
  BY <1>1, <1>2, MoveFacts DEF PutBack, Missing
<1>7. op'.failed = TRUE /\ op'.pc \in Taking /\ hashes[op.file] <= hashes[op.file]
  BY <1>2, <1>3, <1>5, MoveFacts, OpFields DEF Taking
<1>8. QED
  BY <1>1, <1>2, <1>3, <1>4, <1>6, <1>7, FileKeeps

-----------------------------------------------------------------------------
(* The first file, the next one, and the end of the loop. *)
LEMMA StartMoveKeeps ==
  ASSUME MoveInv, StartMove
  PROVE  MoveInv'
<1> DEFINE All == {f \in Files : source[f] # Missing}
<1>1. /\ op.pc = "idle" /\ ~folder.managed /\ spent.moves < MaxMoves
      /\ spent' = [spent EXCEPT !.moves = @ + 1] /\ hashes' = source /\ ledger' = {}
      /\ manifest' = [status |-> "running", rollback |-> "none"]
      /\ folder' = [folder EXCEPT !.managed = TRUE]
      /\ op' = [NoOp EXCEPT !.kind = "move",
                  !.pc = IF Empty(source) THEN "cleaning" ELSE "reading",
                  !.file = IF Empty(source) THEN 0 ELSE First(All)]
      /\ UNCHANGED <<source, managed, oneVolume, approved, settings, saver>>
  BY DEF StartMove, At
<1>2. Listed' = All /\ All \subseteq Files
  BY <1>1 DEF Listed
<1>3. ~Empty(source) => First(All) \in All /\ \A g \in All : First(All) <= g
  <2>1. ~Empty(source) => All # {}
    BY DEF Empty
  <2>2. All \subseteq Nat /\ IsFiniteSet(All)
    BY MoveAssumption, FS_Subset
  <2>3. QED
    BY <2>1, <2>2, FirstIs
<1>4. /\ op' \in Ops /\ op'.kind = "move" /\ ~op'.failed
      /\ Empty(source) => op'.pc = "cleaning"
      /\ ~Empty(source) => op'.pc = "reading" /\ op'.file = First(All)
  BY <1>1, <1>2, <1>3, NoOpIs DEF Ops, Places
<1> HIDE DEF All
<1>5. \A f \in Files : managed[f] = 0
  BY <1>1, MoveFacts DEF Trees, Bare, Empty, Missing
<1>6. /\ spent' \in Spent /\ spent'.edits = spent.edits /\ folder' \in Folders
      /\ folder'.managed /\ manifest' \in Manifests
  <2>1. spent \in Spent /\ folder \in Folders /\ MaxMoves \in Nat
    BY MoveFacts, MoveAssumption
  <2>2. spent' \in Spent /\ spent'.edits = spent.edits
    BY <1>1, <2>1 DEF Spent
  <2>3. folder' \in Folders /\ folder'.managed
    BY <1>1, <2>1 DEF Folders
  <2>4. manifest' \in Manifests
    BY <1>1 DEF Manifests
  <2>5. QED
    BY <2>2, <2>3, <2>4
<1>7. VersionsFit' /\ RecordsFit' /\ SettingsFit'
  <2>1. Upto' = Upto
    BY <1>6 DEF Upto
  <2>2. VersionsFit'
    BY <1>1, <2>1, MoveFacts DEF VersionsFit
  <2>3. RecordsFit'
    BY <1>1, <1>4, <1>6, MoveFacts DEF RecordsFit
  <2>4. SettingsFit'
    BY <1>1, MoveFacts DEF SettingsFit
  <2>5. QED
    BY <2>2, <2>3, <2>4
<1>8. Trees'
  <2>1. Newer' /\ Kept'
    <3>1. \A f \in All : source[f] # Missing /\ source[f] \in Nat
      BY MoveFacts DEF All
    <3>2. QED
      BY <1>1, <1>2, <3>1 DEF Newer, Kept
  <2>2. Bare' /\ OneAway'
    BY <1>1, <1>5, <1>6 DEF Bare, OneAway, TakenAway, Missing
  <2>3. QED
    BY <2>1, <2>2 DEF Trees
<1>9. StageFits'
  <2>1. CASE Empty(source)
    <3>1. Listed' = {}
      BY <1>2, <2>1 DEF Empty, All
    <3>2. QED
      BY <1>4, <2>1, <3>1 DEF StageFits, Taking, Whole
  <2>2. CASE ~Empty(source)
    <3>1. \A g \in All : ~(g < First(All))
      BY <1>2, <1>3, <2>2, MoveFacts
    <3>2. SoFar'
      BY <1>1, <1>2, <1>3, <1>4, <1>5, <1>6, <2>2, <3>1 DEF SoFar, Missing
    <3>3. QED
      BY <1>4, <2>2, <3>2 DEF StageFits, Taking
  <2>3. QED
    BY <2>1, <2>2
<1>10. QED
  BY <1>7, <1>8, <1>9 DEF MoveInv

LEMMA AppendLedgerKeeps ==
  ASSUME MoveInv, AppendLedger
  PROVE  MoveInv'
<1>1. /\ op.pc = "logging" /\ op.pc \in Taking /\ UNCHANGED manifest /\ InRecords
      /\ ledger' = IF op.failed THEN ledger ELSE Recorded(op.file)
      /\ op' = IF op.failed THEN [op EXCEPT !.pc = "rolling", !.todo = ledger]
               ELSE IF Following(op.file) = {} THEN [op EXCEPT !.pc = "cleaning"]
               ELSE [op EXCEPT !.pc = "reading", !.file = First(Following(op.file))]
  BY DEF AppendLedger, At, Taking
<1>2. /\ SoFar /\ op.file \in Listed /\ op.file \in Files /\ op.file \notin ledger
      /\ hashes[op.file] # 0 /\ folder.managed /\ op.kind = "move"
      /\ \A g \in Files : TakenAway(g) => g = op.file
  BY <1>1, AtFile
<1>3. Listed' = Listed /\ Upto' = Upto /\ UNCHANGED <<source, managed, folder>>
  BY <1>1 DEF InRecords, disk, Listed, Upto
<1>4. ledger \subseteq Files /\ ledger \subseteq ledger' /\ ledger' \subseteq Listed
  BY <1>1, <1>2, MoveFacts DEF Recorded
<1>5. Newer' /\ Kept' /\ Bare'
  BY <1>1, <1>3, MoveFacts DEF Trees, Newer, Kept, Bare, Empty, InRecords
<1>6. OneAway'
  BY <1>3, <1>4, MoveFacts DEF Trees, OneAway, TakenAway
<1>7. CASE op.failed
  <2>1. /\ op' \in Ops /\ op'.pc = "rolling" /\ op'.todo = ledger /\ op'.kind = "move"
        /\ op'.failed /\ ledger' = ledger
    BY <1>1, <1>2, <1>4, <1>7, MoveFacts DEF Ops, Places
  <2>2. StageFits'
    BY <2>1 DEF StageFits, Taking, Undoes
  <2>3. QED
    BY <1>1, <1>3, <1>4, <1>5, <1>6, <2>1, <2>2, MoveFacts
       DEF MoveInv, VersionsFit, RecordsFit, SettingsFit, Trees, InRecords
<1>8. CASE ~op.failed
  <2>1. ledger' = ledger \cup {op.file} /\ Intact(op.file) /\ \A g \in ledger : Intact(g)
    BY <1>1, <1>2, <1>8 DEF Recorded, SoFar
  <2>2. CASE Following(op.file) = {}
    <3>1. op' \in Ops /\ op'.pc = "cleaning" /\ op'.kind = "move" /\ ~op'.failed
      BY <1>1, <1>2, <1>8, <2>2, MoveFacts DEF Ops, Places
    <3>2. \A g \in Listed : g \in ledger \/ g = op.file
      <4>1. \A g \in Listed : ~(g > op.file)
        BY <2>2 DEF Following
      <4>2. \A g \in Listed : g \in Nat /\ op.file \in Nat
        BY <1>2, MoveFacts
      <4>3. QED
        BY <1>2, <4>1, <4>2 DEF SoFar
    <3>3. Whole'
      BY <1>1, <1>3, <2>1, <3>2 DEF Whole, Intact, InRecords
    <3>4. StageFits'
      BY <3>1, <3>3 DEF StageFits, Taking
    <3>5. QED
      BY <1>1, <1>3, <1>4, <1>5, <1>6, <3>1, <3>4, MoveFacts
         DEF MoveInv, VersionsFit, RecordsFit, SettingsFit, Trees, InRecords
  <2>3. CASE Following(op.file) # {}
    <3> DEFINE n == First(Following(op.file))
    <3>1. n \in Following(op.file) /\ \A g \in Following(op.file) : n <= g
      <4>1. Following(op.file) \subseteq Files
        BY MoveFacts DEF Following
      <4>2. Following(op.file) \subseteq Nat /\ IsFiniteSet(Following(op.file))
        BY <4>1, MoveAssumption, FS_Subset
      <4>3. QED
        BY <2>3, <4>2, FirstIs
    <3>2. n \in Listed /\ n > op.file /\ n \in Files
      BY <3>1, MoveFacts DEF Following
    <3>3. /\ op' \in Ops /\ op'.pc = "reading" /\ op'.file = n /\ op'.kind = "move"
          /\ ~op'.failed
      BY <1>1, <1>2, <1>8, <2>3, <3>2, MoveFacts DEF Ops, Places
    <3> HIDE DEF n
    <3>4. \A g \in Listed : g < n <=> g \in ledger \/ g = op.file
      <4>1. \A g \in Listed : g \in Nat /\ op.file \in Nat /\ n \in Nat
        BY <1>2, <3>2, MoveFacts
      <4>2. \A g \in Listed : g > op.file => n <= g
        BY <3>1 DEF Following
      <4>3. QED
        BY <1>2, <3>2, <4>1, <4>2 DEF SoFar
    <3>5. ledger' = {g \in Listed : g < n} /\ n \notin ledger /\ n # op.file
      BY <1>2, <1>4, <2>1, <3>2, <3>4, MoveFacts
    <3>6. \A g \in Files : g \notin ledger' => managed[g] = Missing
      BY <1>2, <2>1 DEF SoFar
    <3>7. SoFar'
      <4>1. \A g \in ledger' : Intact(g)'
        BY <1>1, <1>3, <2>1 DEF Intact, InRecords
      <4>2. managed[n] = Missing
        BY <2>1, <3>2, <3>5, <3>6
      <4>3. QED
        BY <1>2, <1>3, <3>2, <3>3, <3>5, <3>6, <4>1, <4>2 DEF SoFar
    <3>8. StageFits'
      BY <3>3, <3>7 DEF StageFits, Taking
    <3>9. QED
      BY <1>1, <1>3, <1>4, <1>5, <1>6, <3>3, <3>8, MoveFacts
         DEF MoveInv, VersionsFit, RecordsFit, SettingsFit, Trees, InRecords
  <2>4. QED
    BY <2>2, <2>3
<1>9. QED
  BY <1>7, <1>8

LEMMA CleanSourceKeeps ==
  ASSUME MoveInv, CleanSource
  PROVE  MoveInv'
<1>1. /\ op.pc = "cleaning" /\ folder' = [folder EXCEPT !.source = ~ Empty(source)]
      /\ Goto("closing") /\ OnDisk /\ UNCHANGED <<source, managed>>
  BY DEF CleanSource, At
<1>2. /\ op' \in Ops /\ op'.pc = "closing" /\ op'.kind = op.kind /\ op'.failed = op.failed
  BY <1>1, MoveFacts, GotoIs DEF Places
<1>3. folder' \in Folders /\ folder'.managed = folder.managed
  BY <1>1, MoveFacts DEF Folders, Empty
<1>4. op.kind = "move" /\ ~op.failed /\ Whole
  BY <1>1, MoveFacts DEF StageFits
<1>5. StageFits'
  BY <1>1, <1>2, <1>4 DEF StageFits, Taking, Whole, Intact, Listed, OnDisk
<1>6. Trees'
  BY <1>1, <1>3, MoveFacts DEF Trees, Newer, Kept, Bare, OneAway, TakenAway, Empty, Listed, OnDisk
<1>7. QED
  BY <1>1, <1>2, <1>3, <1>5, <1>6, MoveFacts, OnDiskKeeps DEF VersionsFit

-----------------------------------------------------------------------------
(* A rollback. *)
LEMMA RestoreRenameKeeps ==
  ASSUME MoveInv, RestoreRename
  PROVE  MoveInv'
<1>1. op.pc = "restoring" /\ PutBack(op.file) /\ OnDisk
  BY DEF RestoreRename, At
<1>2. PICK unsure \in BOOLEAN :
        op' = [op EXCEPT !.pc = "rolling", !.todo = @ \ {op.file}, !.skipped = @ \/ unsure]
  BY DEF RestoreRename
<1>3. /\ op.todo \subseteq ledger /\ Undoes /\ op.file \in op.todo /\ Intact(op.file)
      /\ op.kind = "rollback" => ~op.failed
  BY <1>1, MoveFacts DEF StageFits
<1>4. /\ op' \in Ops /\ op'.pc = "rolling" /\ op'.todo \subseteq op.todo
      /\ op'.kind = op.kind /\ op'.failed = op.failed
  BY <1>2, MoveFacts DEF Ops, Places
<1>5. /\ op.file \in Files /\ op.file \in Listed /\ hashes[op.file] # 0
      /\ hashes[op.file] \in 0 .. Upto /\ managed[op.file] = hashes[op.file]
      /\ Listed' = Listed /\ UNCHANGED <<hashes, ledger>>
  BY <1>1, <1>3, MoveFacts DEF Intact, OnDisk, Listed
<1>6. /\ source' = [source EXCEPT ![op.file] = hashes[op.file]]
      /\ managed' = [managed EXCEPT ![op.file] = 0]
      /\ folder' \in Folders /\ folder'.managed = folder.managed
  BY <1>1, <1>5, MoveFacts DEF PutBack, Missing, Folders
<1>7. /\ source' \in [Files -> 0 .. Upto] /\ managed' \in [Files -> 0 .. Upto \cup {Short}]
      /\ \A g \in Files : g # op.file => source'[g] = source[g] /\ managed'[g] = managed[g]
      /\ source'[op.file] = hashes[op.file] /\ managed'[op.file] = 0
  BY <1>5, <1>6, MoveFacts DEF VersionsFit
<1>8. StageFits'
  BY <1>3, <1>4, <1>5 DEF StageFits, Taking, Undoes
<1>9. Newer' /\ Kept'
  BY <1>5, <1>7, MoveFacts DEF Trees, Newer, Kept, Missing
<1>10. Bare' /\ OneAway'
  BY <1>5, <1>6, <1>7, MoveFacts DEF Trees, Bare, Empty, OneAway, TakenAway, Missing
<1>11. QED
  BY <1>1, <1>4, <1>6, <1>7, <1>8, <1>9, <1>10, OnDiskKeeps DEF Trees

LEMMA RestoreRootKeeps ==
  ASSUME MoveInv, RestoreRoot
  PROVE  MoveInv'
<1>1. op.pc = "rolling" /\ OnDisk /\ UNCHANGED <<source, managed>>
  BY DEF RestoreRoot, At
<1>2. Undoes /\ (op.kind = "rollback" => ~op.failed)
  BY <1>1, MoveFacts DEF StageFits
<1>3. /\ op' \in Ops /\ op'.pc = "closing" /\ op'.kind = op.kind /\ op'.failed = op.failed
      /\ folder' \in Folders
      /\ ~op'.skipped => Empty(managed)
      /\ folder'.managed \/ ~folder.managed \/ Empty(managed)
  <2>1. CASE /\ folder' = [source |-> TRUE, managed |-> folder.managed /\ LeftOver]
             /\ op' = [op EXCEPT !.pc = "closing", !.skipped = @ \/ LeftOver]
    <3>1. folder' \in Folders /\ (folder'.managed <=> folder.managed /\ LeftOver)
      BY <2>1, MoveFacts DEF Folders, LeftOver, Empty
    <3>2. /\ op' \in Ops /\ op'.pc = "closing" /\ op'.kind = op.kind
          /\ op'.failed = op.failed /\ (~op'.skipped => ~LeftOver)
      BY <2>1, MoveFacts DEF Ops, Places, LeftOver, Empty
    <3>3. QED
      BY <3>1, <3>2 DEF LeftOver
  <2>2. CASE op' = [op EXCEPT !.pc = "closing", !.skipped = TRUE] /\ UNCHANGED folder
    BY <2>2, MoveFacts DEF Ops, Places
  <2>3. QED
    BY <2>1, <2>2 DEF RestoreRoot
<1>4. StageFits'
  BY <1>1, <1>2, <1>3 DEF StageFits, Taking, Undoes, Empty
<1>5. Trees'
  BY <1>1, <1>3, MoveFacts DEF Trees, Newer, Kept, Bare, OneAway, TakenAway, Empty, Listed, OnDisk
<1>6. QED
  BY <1>1, <1>3, <1>4, <1>5, MoveFacts, OnDiskKeeps DEF VersionsFit

-----------------------------------------------------------------------------
(* The human. *)
LEMMA EditKeeps ==
  ASSUME MoveInv, NEW e \in Files, Edit(e)
  PROVE  MoveInv'
<1> DEFINE v == 2 + spent.edits
<1>1. /\ spent' = [spent EXCEPT !.edits = @ + 1] /\ spent.edits < MaxEdits
      /\ \/ /\ source' = [source EXCEPT ![e] = v]
            /\ folder' = [folder EXCEPT !.source = TRUE] /\ UNCHANGED managed
         \/ /\ op.pc = "idle" /\ managed[e] # Missing
            /\ managed' = [managed EXCEPT ![e] = v] /\ UNCHANGED <<source, folder>>
      /\ UNCHANGED <<oneVolume, approved, op, hashes, ledger, manifest, settings, saver>>
  BY DEF Edit, At
<1>2. spent' \in Spent /\ Upto' = v /\ v = Upto + 1 /\ v < Short /\ v # 0 /\ v \in Nat
  BY <1>1, MoveFacts, MoveAssumption DEF Spent, Upto, Short
<1>3. 0 .. Upto \subseteq 0 .. v /\ v \in 0 .. v
  BY <1>2, MoveFacts
<1> HIDE DEF v
<1>4. VersionsFit'
  <2>1. /\ source \in [Files -> 0 .. v] /\ managed \in [Files -> 0 .. v \cup {Short}]
        /\ hashes \in [Files -> 0 .. v] /\ approved \in [Files -> 0 .. v]
    BY <1>3, MoveFacts DEF VersionsFit
  <2>2. source' \in [Files -> 0 .. v] /\ managed' \in [Files -> 0 .. v \cup {Short}]
    BY <1>1, <1>3, <2>1
  <2>3. Short' = Short
    BY DEF Short
  <2>4. QED
    BY <1>1, <1>2, <2>1, <2>2, <2>3 DEF VersionsFit
<1>5. folder' \in Folders /\ folder'.managed = folder.managed
  BY <1>1, MoveFacts DEF Folders, RecordsFit
<1>6. Listed' = Listed
  BY <1>1 DEF Listed
<1>7. RecordsFit' /\ SettingsFit'
  BY <1>1, <1>2, <1>5, <1>6, MoveFacts DEF RecordsFit, SettingsFit
<1>8. /\ \A f \in Files : \/ source'[f] = source[f]
                          \/ source'[f] = v
      /\ \A f \in Files : \/ managed'[f] = managed[f]
                          \/ op.pc = "idle" /\ managed[f] # 0 /\ managed'[f] = v
  BY <1>1, MoveFacts DEF VersionsFit, Missing
<1>9. Newer' /\ Kept'
  <2>1. \A f \in Listed : hashes[f] <= v
    BY <1>2, MoveFacts
  <2>2. QED
    BY <1>1, <1>2, <1>6, <1>8, <2>1, MoveFacts DEF Trees, Newer, Kept, Missing
<1>10. Bare' /\ OneAway'
  BY <1>1, <1>2, <1>5, <1>6, <1>8, MoveFacts DEF Trees, Bare, Empty, OneAway, TakenAway, Missing
<1>11. StageFits'
  <2>1. CASE op.pc = "idle"
    BY <1>1, <2>1, MoveFacts DEF StageFits, Taking
  <2>2. CASE op.pc # "idle"
    <3>1. UNCHANGED managed
      BY <1>1, <2>2
    <3>2. SoFar => SoFar'
      BY <1>1, <1>5, <1>6, <3>1 DEF SoFar, Intact
    <3>3. QED
      BY <1>1, <1>6, <3>1, <3>2, MoveFacts DEF StageFits, Whole, Intact, Undoes, Empty
  <2>3. QED
    BY <2>1, <2>2
<1>12. QED
  BY <1>4, <1>7, <1>9, <1>10, <1>11 DEF MoveInv, Trees

-----------------------------------------------------------------------------
(* The inductive invariant. *)
LEMMA MoveInvInit == MoveInit => MoveInv
<1> SUFFICES ASSUME MoveInit PROVE MoveInv
  OBVIOUS
<1>1. /\ source = [f \in Files |-> 1] /\ managed = [f \in Files |-> 0]
      /\ folder = [source |-> TRUE, managed |-> FALSE] /\ oneVolume \in BOOLEAN
      /\ approved = [f \in Files |-> 0] /\ hashes = [f \in Files |-> 0]
      /\ op = NoOp /\ ledger = {} /\ manifest = [status |-> "none", rollback |-> "none"]
      /\ settings = [source |-> FALSE, saves |-> 0]
      /\ saver = [pc |-> "idle", view |-> settings]
      /\ spent = [edits |-> 0, stops |-> 0, moves |-> 0]
  BY DEF MoveInit, Missing
<1>2. Listed = {} /\ Upto = 1
  BY <1>1 DEF Listed, Missing, Upto
<1>3. VersionsFit
  BY <1>1, <1>2 DEF VersionsFit
<1>4. RecordsFit
  BY <1>1, <1>2, NoOpIs, MoveAssumption DEF RecordsFit, Folders, Manifests, Spent
<1>5. SettingsFit
  BY <1>1, MoveAssumption DEF SettingsFit, Settings, Savers
<1>6. Trees
  BY <1>1, <1>2 DEF Trees, Newer, Kept, Bare, Empty, OneAway, TakenAway, Missing
<1>7. StageFits
  BY <1>1, NoOpIs DEF StageFits, Taking
<1>8. QED
  BY <1>3, <1>4, <1>5, <1>6, <1>7 DEF MoveInv

LEMMA MoveInvStep == MoveInv /\ [MoveNext]_moveVars => MoveInv'
<1> SUFFICES ASSUME MoveInv, [MoveNext]_moveVars PROVE MoveInv'
  OBVIOUS
<1>1. CASE Mover
  BY <1>1, PreflightKeeps, StartMoveKeeps, ReadSourceKeeps, PlaceKeeps, VerifyKeeps,
     UnlinkKeeps, RecheckKeeps, FailFileKeeps, UndoFileKeeps, AppendLedgerKeeps,
     CleanSourceKeeps, StartRollbackKeeps, RestoreCheckKeeps, RestoreRenameKeeps,
     RestoreRootKeeps, CloseManifestKeeps, ReadSettingsKeeps, WriteSettingsKeeps DEF Mover
<1>2. CASE SaverReads \/ SaverWrites \/ HostStops
  BY <1>2, SaverKeeps, HostStopsKeeps
<1>3. ASSUME NEW f \in Files, Edit(f) PROVE MoveInv'
  BY <1>3, EditKeeps
<1>4. CASE UNCHANGED moveVars
  <2>1. StageFits'
    BY <1>4, MoveFacts DEF moveVars, StageFits, SoFar, Whole, Undoes, Intact, Empty, Listed
  <2>2. QED
    BY <1>4, <2>1, MoveFacts, OffDiskKeeps DEF moveVars, disk, VersionsFit, RecordsFit, SettingsFit
<1>5. QED
  BY <1>1, <1>2, <1>3, <1>4 DEF MoveNext

\* The order of the move, the ledger and the bytes in both trees fit in every reachable state,
\* for any number of files, edits, failures and stops (memory-source-move.mjs,
\* executeMoveImport and rollbackMoveImport).
THEOREM MoveInvariant == MoveSpec => []MoveInv
<1>1. QED
  BY MoveInvInit, MoveInvStep, PTL DEF MoveSpec

LEMMA MoveInvTyped == MoveInv => MoveTypeOK
<1> SUFFICES ASSUME MoveInv PROVE MoveTypeOK
  OBVIOUS
<1>1. Upto \in Nat /\ Upto < Short /\ Short \in Nat
  BY MoveFacts
<1>2. 0 .. Upto \cup {Short} \subseteq Versions
  BY <1>1 DEF Versions
<1>3. {source, managed, approved, hashes} \subseteq [Files -> Versions]
  BY <1>2, MoveFacts DEF VersionsFit
<1>4. QED
  BY <1>3, MoveFacts
     DEF MoveTypeOK, RecordsFit, SettingsFit, Ops, Places, Folders, Manifests, Savers, Spent

\* The state of a move keeps its types.
THEOREM MoveTypeCorrect == MoveSpec => []MoveTypeOK
<1>1. QED
  BY MoveInvariant, MoveInvTyped, PTL

LEMMA OneAwayCounts == MoveInv => LedgerCoversMoves
<1> SUFFICES ASSUME MoveInv PROVE LedgerCoversMoves
  OBVIOUS
<1> DEFINE S == {f \in Listed \ ledger : managed[f] # Missing /\ source[f] = Missing}
<1>1. \A f, g \in S : f = g
  BY MoveFacts DEF Trees, OneAway, TakenAway
<1>2. S = {} \/ \E x : S = {x}
  BY <1>1
<1>3. Cardinality(S) \in {0, 1}
  BY <1>2, FS_EmptySet, FS_Singleton
<1>4. QED
  BY <1>3 DEF LedgerCoversMoves

\* At most one file is away from the source without an entry in the ledger, wherever the host
\* stops (memory-source-move.mjs, executeMoveImport).
THEOREM LedgerIsEnough == MoveSpec => []LedgerCoversMoves
<1>1. QED
  BY MoveInvariant, OneAwayCounts, PTL

-----------------------------------------------------------------------------
(* What no step does. *)
\* ApprovedBytesAreKept for one file.
Survives(f) == hashes[f] \in Bytes(f) => hashes[f] \in Bytes(f)' \/ source'[f] > hashes[f]

LEMMA StepKeepsBytes ==
  ASSUME MoveInv, [MoveNext]_moveVars, op' # op, NEW f \in Listed
  PROVE  Survives(f)
<1>1. /\ f \in Files /\ hashes[f] # 0 /\ hashes[f] # Short /\ hashes[f] \in Nat
      /\ source[f] = 0 \/ hashes[f] <= source[f]
      /\ source[f] # Short
  BY MoveFacts DEF Trees, Newer, Missing
<1>2. Short' = Short /\ Missing = 0
  BY DEF Short, Missing
<1>3. CASE UNCHANGED <<source, managed>>
  BY <1>1, <1>2, <1>3 DEF Survives, Bytes
<1>4. CASE Place
  <2>1. op.pc = "placing" /\ op.pc \in Taking
    BY <1>4 DEF Place, At, Taking
  <2>2. managed[op.file] = 0 /\ op.file \in Files
    BY <2>1, AtFile DEF SoFar, Missing
  <2>3. \/ UNCHANGED <<source, managed>>
        \/ /\ managed' = [managed EXCEPT ![op.file] = source[op.file]]
           /\ source' = [source EXCEPT ![op.file] = 0]
        \/ UNCHANGED source /\ \E v : managed' = [managed EXCEPT ![op.file] = v]
    BY <1>2, <1>4 DEF Place, OffDisk, disk
  <2>4. QED
    BY <1>1, <1>2, <1>3, <2>2, <2>3, MoveFacts DEF Survives, Bytes, VersionsFit
<1>5. CASE Unlink
  <2>1. op.pc = "unlinking" /\ op.pc \in Taking /\ UNCHANGED managed
    BY <1>5 DEF Unlink, At, Taking
  <2>2. managed[op.file] = hashes[op.file] /\ op.file \in Files
    BY <2>1, AtFile DEF SoFar, Intact
  <2>3. \A g \in Files : g # op.file => source'[g] = source[g]
    BY <1>5, MoveFacts DEF Unlink, VersionsFit
  <2>4. QED
    BY <1>1, <1>2, <2>1, <2>2, <2>3 DEF Survives, Bytes
<1>6. CASE FailFile
  <2>1. /\ op.pc = "failing" /\ op.pc \in Taking /\ UNCHANGED source
        /\ managed' = IF Duplicate(op.file) THEN [managed EXCEPT ![op.file] = Missing]
                      ELSE managed
    BY <1>6 DEF FailFile, At, Taking
  <2>2. /\ \A g \in Files : g # op.file => managed'[g] = managed[g]
        /\ managed'[op.file] = managed[op.file] \/ source[op.file] # 0
    BY <1>2, <2>1, AtFile, MoveFacts DEF VersionsFit, Duplicate
  <2>3. QED
    BY <1>1, <1>2, <2>1, <2>2, MoveFacts DEF Survives, Bytes
<1>7. ASSUME PutBack(op.file), op.file \in Files, Intact(op.file) PROVE Survives(f)
  <2>1. /\ \A g \in Files : g # op.file => source'[g] = source[g] /\ managed'[g] = managed[g]
        /\ source'[op.file] = hashes[op.file]
    BY <1>7, MoveFacts DEF PutBack, VersionsFit, Intact
  <2>2. QED
    BY <1>1, <1>2, <2>1 DEF Survives, Bytes
<1>8. CASE UndoFile
  <2>1. op.pc = "undoing" /\ op.pc \in Taking /\ PutBack(op.file)
    BY <1>8 DEF UndoFile, At, Taking
  <2>2. QED
    BY <1>7, <2>1, AtFile DEF SoFar
<1>9. CASE RestoreRename
  <2>1. op.pc = "restoring" /\ PutBack(op.file)
    BY <1>9 DEF RestoreRename, At
  <2>2. QED
    BY <1>7, <2>1, MoveFacts DEF StageFits
<1>10. QED
  <2>1. CASE Preflight \/ StartMove \/ ReadSource \/ Verify \/ Recheck \/ AppendLedger
    BY <1>3, <2>1 DEF Preflight, StartMove, ReadSource, Verify, Recheck, AppendLedger, OffDisk,
       InRecords, disk
  <2>2. CASE CleanSource \/ StartRollback \/ RestoreCheck \/ RestoreRoot \/ CloseManifest
             \/ ReadSettings \/ WriteSettings
    BY <1>3, <2>2 DEF CleanSource, StartRollback, RestoreCheck, RestoreRoot, CloseManifest,
       ReadSettings, WriteSettings, OffDisk, InRecords, disk
  <2>3. CASE SaverReads \/ SaverWrites \/ HostStops
    BY <1>3, <2>3 DEF SaverReads, SaverWrites, HostStops, disk
  <2>4. ASSUME NEW g \in Files, Edit(g) PROVE FALSE
    BY <2>4 DEF Edit
  <2>5. MoveNext
    BY DEF moveVars
  <2>6. QED
    BY <1>4, <1>5, <1>6, <1>8, <1>9, <2>1, <2>2, <2>3, <2>4, <2>5 DEF MoveNext, Mover

\* No step of a move or a rollback destroys the last copy of approved bytes, unless the human
\* has put a newer version in the source (moveFileAcrossVolumes, restoreMovedEntry).
THEOREM ApprovedBytesSurvive == MoveSpec => ApprovedBytesAreKept
<1>1. MoveInv /\ [MoveNext]_moveVars =>
        [op' # op =>
           \A f \in Listed :
             hashes[f] \in Bytes(f) => hashes[f] \in Bytes(f)' \/ source'[f] > hashes[f]]_moveVars
  BY StepKeepsBytes DEF Survives
<1>2. QED
  BY <1>1, MoveInvariant, PTL DEF MoveSpec, ApprovedBytesAreKept

\* The two halves of EntriesStayWhole.
RestoredWhole ==
  manifest.rollback # "restored" /\ manifest'.rollback = "restored" =>
    Empty(managed) /\ \A f \in Listed : source[f] \in hashes[f] .. MaxEdits + 1
MovedWhole ==
  manifest.status # "moved" /\ manifest'.status = "moved" =>
    \A f \in Listed : managed[f] = hashes[f]

LEMMA StepEndsWhole ==
  ASSUME MoveInv, [MoveNext]_moveVars
  PROVE  RestoredWhole /\ MovedWhole
<1>1. CASE CloseManifest
  <2>1. /\ op.pc = "closing" /\ manifest \in Manifests
        /\ manifest' =
             IF op.kind = "rollback" THEN [manifest EXCEPT !.rollback = RollbackStatus]
             ELSE IF op.failed THEN [status |-> "rolled back", rollback |-> RollbackStatus]
             ELSE [status |-> "moved", rollback |-> "none"]
    BY <1>1, MoveFacts DEF CloseManifest, At, RecordsFit
  <2>2. /\ op.kind = "move" /\ ~op.failed => Whole
        /\ Undoes /\ ~op.skipped => Empty(managed)
        /\ op.kind = "rollback" => ~op.failed
        /\ op.kind \in {"move", "rollback"}
    BY <2>1, MoveFacts DEF StageFits, Undoes
  <2>3. RestoredWhole
    <3>1. SUFFICES ASSUME manifest.rollback # "restored", manifest'.rollback = "restored"
                   PROVE  Empty(managed) /\ \A f \in Listed : source[f] \in hashes[f] .. MaxEdits + 1
      BY DEF RestoredWhole
    <3>2. (op.kind = "rollback" \/ op.failed) /\ RollbackStatus = "restored"
      BY <2>1, <3>1 DEF Manifests
    <3>3. Undoes /\ ~op.skipped
      BY <2>1, <2>2, <3>2, MoveFacts DEF RollbackStatus, StageFits, Undoes
    <3>4. Empty(managed)
      BY <2>2, <3>3
    <3>5. Upto <= MaxEdits + 1 /\ MaxEdits \in Nat
      BY MoveFacts, MoveAssumption DEF Upto, Spent
    <3>6. \A f \in Listed : source[f] # 0 /\ hashes[f] <= source[f]
      BY <3>4, MoveFacts DEF Trees, Newer, Kept, Empty, Missing
    <3>7. \A f \in Listed : source[f] \in 0 .. Upto /\ hashes[f] \in 0 .. Upto
      BY MoveFacts
    <3>8. \A f \in Listed : source[f] \in hashes[f] .. MaxEdits + 1
      BY <3>5, <3>6, <3>7, MoveFacts
    <3>9. QED
      BY <3>4, <3>8
  <2>4. MovedWhole
    <3>1. manifest'.status = manifest.status \/ manifest'.status = "rolled back"
            \/ (op.kind = "move" /\ ~op.failed)
      BY <2>1, <2>2 DEF Manifests
    <3>2. QED
      BY <2>2, <3>1 DEF MovedWhole, Whole, Intact
  <2>5. QED
    BY <2>3, <2>4
<1>2. CASE StartMove
  BY <1>2 DEF StartMove, RestoredWhole, MovedWhole
<1>3. CASE manifest' = manifest
  BY <1>3 DEF RestoredWhole, MovedWhole
<1>4. QED
  <2>1. CASE Mover
    BY <1>1, <1>2, <1>3, <2>1 DEF Mover, Preflight, ReadSource, Place, Verify, Unlink, Recheck,
       FailFile, UndoFile, AppendLedger, CleanSource, StartRollback, RestoreCheck,
       RestoreRename, RestoreRoot, ReadSettings, WriteSettings, OffDisk, OnDisk
  <2>2. CASE SaverReads \/ SaverWrites \/ HostStops
    BY <1>3, <2>2 DEF SaverReads, SaverWrites, HostStops
  <2>3. ASSUME NEW f \in Files, Edit(f) PROVE RestoredWhole /\ MovedWhole
    BY <1>3, <2>3 DEF Edit
  <2>4. QED
    BY <1>3, <2>1, <2>2, <2>3 DEF MoveNext, moveVars

\* A move is called moved, and a rollback restored, only when it is (executeMoveImport,
\* rollbackMoveImport).
THEOREM EntriesEndWhole == MoveSpec => EntriesStayWhole
<1>1. MoveInv /\ [MoveNext]_moveVars =>
        [/\ manifest.rollback # "restored" /\ manifest'.rollback = "restored" =>
              Empty(managed) /\ \A f \in Listed : source[f] \in hashes[f] .. MaxEdits + 1
         /\ manifest.status # "moved" /\ manifest'.status = "moved" =>
              \A f \in Listed : managed[f] = hashes[f]]_moveVars
  BY StepEndsWhole DEF RestoredWhole, MovedWhole
<1>2. QED
  BY <1>1, MoveInvariant, PTL DEF MoveSpec, EntriesStayWhole
=============================================================================
