-------------------------- MODULE HarnessRegistry --------------------------
(***************************************************************************)
(* The host's governance registry and its durable store: installations,    *)
(* grants and slot ownership, changed one transaction at a time through a  *)
(* pending record, the execution fences, a committed record and a rollback *)
(* watermark kept in a different directory.                                *)
(*                                                                         *)
(* One bridge process runs the registry.  It may die between any two steps *)
(* and boot again; a durable write may fail before or after its rename has *)
(* become visible; between two boots the registry file may be damaged,     *)
(* deleted or restored from a backup, and the watermark damaged.           *)
(***************************************************************************)
EXTENDS HarnessPolicy

CONSTANTS
  MaxCounter,        \* Number.MAX_SAFE_INTEGER: revisions and generations stay below
  MaxInstallations,  \* 256
  MaxBoots,          \* bound: boots explored
  Faults,            \* which of FaultKinds the environment may cause
  LegacyStates       \* committed states an earlier release may have left on disk

FaultKinds == {"crash", "io", "restore", "damage", "delete"}

Counter == 0 .. MaxCounter - 1

Empty ==
  [ revision   |-> 0,
    governed   |-> FALSE,
    manifest   |-> [a \in AddOns |-> None],
    enabled    |-> {},
    grants     |-> [a \in AddOns |-> {}],
    owner      |-> [s \in Slots |-> None],
    generation |-> [s \in Slots |-> 0] ]

State ==
  [ revision   : Counter,
    governed   : BOOLEAN,
    manifest   : [AddOns -> ManifestType \cup {None}],
    enabled    : SUBSET AddOns,
    grants     : [AddOns -> SUBSET Caps],
    owner      : [Slots -> AddOns \cup {None}],
    generation : [Slots -> Counter] ]

Installed(st, a)  == st.manifest[a] # None
Installations(st) == { a \in AddOns : Installed(st, a) }
Owned(st, a)      == { s \in Slots : st.owner[s] = a }

\* What loading demands of a stored state.
WellFormed(st) ==
  /\ Cardinality(Installations(st)) <= MaxInstallations
  /\ \A a \in Installations(st) :
       st.manifest[a].id = a /\ st.grants[a] \subseteq st.manifest[a].requests
  /\ \A s \in Slots : st.owner[s] # None => Installed(st, st.owner[s])

ASSUME RegistryAssumption ==
  /\ IsFiniteSet(AddOns)
  /\ MaxCounter \in Nat \ {0}
  /\ MaxInstallations \in Nat
  /\ MaxBoots \in Nat
  /\ Faults \subseteq FaultKinds
  /\ LegacyStates \subseteq { st \in State : WellFormed(st) }

\* An earlier release, too, advanced the revision before its first write, gave
\* an owner a new generation, and kept grants only with an installation.
ASSUME LegacyAssumption ==
  \A st \in LegacyStates :
    /\ st.revision > 0
    /\ \A a \in AddOns : st.grants[a] # {} => Installed(st, a)
    /\ \A s \in Slots : st.owner[s] # None => st.generation[s] > 0

VARIABLES
  document,          \* registry.json
  watermark,         \* the watermark file
  backup,            \* a copy of registry.json the user made
  up,                \* the bridge process is running
  bootEpoch,
  state,             \* the registry in memory
  disabled,
  fenced,
  pendingPolicies,
  tx,                \* the transaction at the head of the queue
  seen,              \* the snapshot the operator last read
  consented,         \* history: the consent in force for each add-on
  acknowledged,      \* history: the highest revision a caller was told of
  governedOnce,      \* history: an acknowledged state was governed
  emptied            \* history: the user folder was emptied since the last such state

disk    == << document, watermark, backup >>
process == << up, bootEpoch, state, disabled, fenced, pendingPolicies, tx >>
history == << consented, acknowledged, governedOnce, emptied >>
vars    == << disk, process, seen, history >>

NoPolicy == [active |-> FALSE, disabledOperations |-> {}]
Idle     == [stage |-> "idle", next |-> Empty, changed |-> {}]
Document(kind, st) == [kind |-> kind, state |-> st]

View(st) == [ revision |-> st.revision, manifest |-> st.manifest,
              owner |-> st.owner, generation |-> st.generation ]

Serving == up /\ ~disabled

(***************************************************************************)
(* Authority as the registry answers it.                                   *)
(***************************************************************************)
RequiredOf(m, slot) ==
  {SlotCapability[slot]} \cup
  (IF slot = Primary THEN m.required \cup m.floor ELSE {})

Eligible(st, a, slot) ==
  /\ a \in AddOns
  /\ Installed(st, a)
  /\ a \in st.enabled
  /\ slot \in st.manifest[a].systemSlots
  /\ slot = Primary => st.manifest[a].bound
  /\ RequiredOf(st.manifest[a], slot) \subseteq st.grants[a]

\* authorize(slot, a) returns instead of throwing.
Authorized(slot, a) ==
  /\ Serving
  /\ a # None /\ state.owner[slot] = a
  /\ slot \notin fenced
  /\ Eligible(state, a, slot)

ProjectedDisabled(a) ==
  IF disabled \/ a \notin state.enabled THEN state.manifest[a].supported
  ELSE IF pendingPolicies[a].active THEN pendingPolicies[a].disabledOperations
  ELSE DisabledOperations(state.manifest[a], state.grants[a])

\* assertOperation passes for a current authorization of (slot, a).
OperationAllowed(slot, a, op) ==
  /\ Authorized(slot, a)
  /\ op \in state.manifest[a].supported
  /\ op \notin ProjectedDisabled(a)

-----------------------------------------------------------------------------
(***************************************************************************)
(* Transactions.  A call waits in the queue until the one before it has    *)
(* settled; a refused call changes nothing and is not a step.              *)
(***************************************************************************)
RevisionFits_OffByOne == state.revision < MaxCounter
RevisionFits == state.revision + 1 < MaxCounter

\* Fences go up before any listener runs or anything is written.
FencedWith_Late(changed) == fenced
FencedWith(changed) == fenced \cup changed

Transact(next, changed, policies) ==
  /\ RevisionFits
  /\ tx' = [stage   |-> "pending",
            next    |-> [next EXCEPT !.revision = state.revision + 1],
            changed |-> changed]
  /\ fenced' = FencedWith(changed)
  /\ pendingPolicies' = policies
  /\ UNCHANGED << disk, up, bootEpoch, state, disabled, seen,
                  acknowledged, governedOnce, emptied >>

Ready == Serving /\ tx.stage = "idle"

CurrentRevision_Unchecked == TRUE
CurrentRevision == seen.revision = state.revision

CanAdvance(changed) == \A s \in changed : state.generation[s] + 1 < MaxCounter

Advanced_Never(changed) == state.generation
Advanced(changed) ==
  [s \in Slots |-> IF s \in changed THEN state.generation[s] + 1
                                    ELSE state.generation[s]]

OwnsNothing(a) == Owned(state, a) = {}

HasRoom(st) == Cardinality(Installations(st)) < MaxInstallations

Install(m, enabled) ==
  /\ Ready
  /\ CurrentRevision
  /\ m.runtime => m.bound
  /\ UndeclaredCapabilities(m) = {}
  /\ Installed(state, m.id) \/ HasRoom(state)
  /\ OwnsNothing(m.id)
  /\ Transact([state EXCEPT
                 !.manifest[m.id] = m,
                 !.enabled = IF enabled THEN @ \cup {m.id} ELSE @ \ {m.id},
                 !.grants[m.id] = {}],
              {}, pendingPolicies)
  /\ UNCHANGED consented

\* Records with the id of an installed add-on are skipped; the others arrive
\* disabled and without consent.
ImportLegacy(records) ==
  LET fresh == { m \in records : ~Installed(state, m.id) }
      Record(a) == CHOOSE m \in fresh : m.id = a
      imported == { m.id : m \in fresh }
  IN
    /\ Ready
    /\ \A m \in records : UndeclaredCapabilities(m) = {}
    /\ \A m, n \in records : m.id = n.id => m = n
    /\ Cardinality(Installations(state) \cup imported) <= MaxInstallations
    /\ Transact([state EXCEPT
                   !.manifest = [a \in AddOns |-> IF a \in imported
                                   THEN Record(a) ELSE state.manifest[a]],
                   !.enabled = @ \ imported,
                   !.grants = [a \in AddOns |-> IF a \in imported
                                 THEN {} ELSE state.grants[a]]],
                {}, pendingPolicies)
    /\ UNCHANGED consented

\* The operator consents to what the manifest they saw asks for.
RecordConsent(a, granted) ==
  consented' = [consented EXCEPT ![a] =
    [ manifest |-> seen.manifest[a],
      caps |-> granted \cup (IF @.manifest = seen.manifest[a] THEN @.caps
                                                              ELSE {}) ]]

\* A revocation withholds what it disables from the moment it is decided.
PoliciesAfter_Late(a, m, next, revoked) == pendingPolicies
PoliciesAfter(a, m, next, revoked) ==
  IF revoked = {} THEN pendingPolicies
  ELSE [pendingPolicies EXCEPT ![a] =
          [active |-> TRUE, disabledOperations |-> DisabledOperations(m, next)]]

SetGrants(a, granted, withdrawn) ==
  LET m       == state.manifest[a]
      next    == (state.grants[a] \cup granted) \ withdrawn
      revoked == withdrawn \cap state.grants[a]
      changed == { s \in Owned(state, a) : HardStop(m, next, revoked, s) }
  IN
    /\ Ready
    /\ seen.manifest[a] # None       \* the operator decides on what they saw
    /\ CurrentRevision
    /\ Installed(state, a)
    /\ granted \cup withdrawn \subseteq m.requests
    /\ granted \cap withdrawn = {}
    /\ CanAdvance(changed)
    /\ Transact([state EXCEPT !.grants[a] = next,
                              !.generation = Advanced(changed)],
                changed, PoliciesAfter(a, m, next, revoked))
    /\ RecordConsent(a, granted)

SetEnabled(a, enabled) ==
  LET changed == Owned(state, a) IN
    /\ Ready
    /\ CurrentRevision
    /\ Installed(state, a)
    /\ CanAdvance(changed)
    /\ Transact([state EXCEPT
                   !.enabled = IF enabled THEN @ \cup {a} ELSE @ \ {a},
                   !.generation = Advanced(changed)],
                changed, pendingPolicies)
    /\ UNCHANGED consented

AssignSlot(slot, a, replace) ==
  LET incumbent == state.owner[slot] IN
    /\ Ready
    /\ seen.generation[slot] = state.generation[slot]
    /\ incumbent # None =>
         replace /\ ReplacementAllowed(state.manifest[incumbent], slot)
    /\ a # None => Eligible(state, a, slot)
    /\ CanAdvance({slot})
    /\ Transact([state EXCEPT !.owner[slot] = a,
                              !.generation = Advanced({slot}),
                              !.governed = @ \/ slot = Primary],
                {slot}, pendingPolicies)
    /\ UNCHANGED consented

Remove_Owner(a) ==
  /\ Ready
  /\ CurrentRevision
  /\ Installed(state, a)
  /\ Transact([state EXCEPT !.manifest[a] = None,
                            !.enabled = @ \ {a},
                            !.grants[a] = {}],
              {}, pendingPolicies)
  /\ UNCHANGED consented

Remove(a) ==
  /\ Ready
  /\ CurrentRevision
  /\ Installed(state, a)
  /\ OwnsNothing(a)
  /\ Transact([state EXCEPT !.manifest[a] = None,
                            !.enabled = @ \ {a},
                            !.grants[a] = {}],
              {}, pendingPolicies)
  /\ UNCHANGED consented

\* The snapshot of a disabled registry offers the operator nothing to act on.
Observe ==
  /\ Serving
  /\ seen' = View(state)
  /\ UNCHANGED << disk, process, history >>

-----------------------------------------------------------------------------
(***************************************************************************)
(* The commit protocol.                                                    *)
(***************************************************************************)
Abort_KeepsServing ==
  /\ disabled' = disabled
  /\ fenced' = fenced \ tx.changed
  /\ tx' = Idle
  /\ UNCHANGED << backup, up, bootEpoch, state, pendingPolicies, seen, history >>

Abort ==
  /\ disabled' = TRUE
  /\ fenced' = Slots
  /\ tx' = Idle
  /\ UNCHANGED << backup, up, bootEpoch, state, pendingPolicies, seen, history >>

Advance(stage) == tx' = [tx EXCEPT !.stage = stage]

WritePending ==
  /\ tx.stage = "pending"
  /\ document' = Document("pending", tx.next)
  /\ Advance("cleanup")
  /\ UNCHANGED << watermark, backup, up, bootEpoch, state, disabled, fenced,
                  pendingPolicies, seen, history >>

\* Every fence listener has settled without a rejection.
CleanupSettled ==
  /\ tx.stage = "cleanup"
  /\ Advance("commit")
  /\ UNCHANGED << disk, up, bootEpoch, state, disabled, fenced,
                  pendingPolicies, seen, history >>

CleanupRejected ==
  /\ tx.stage = "cleanup"
  /\ Abort
  /\ UNCHANGED << document, watermark >>

WriteCommitted ==
  /\ tx.stage = "commit"
  /\ document' = Document("committed", tx.next)
  /\ Advance("raise")
  /\ UNCHANGED << watermark, backup, up, bootEpoch, state, disabled, fenced,
                  pendingPolicies, seen, history >>

\* A failing write leaves the old file, or the new one when only the sync of
\* its directory failed.
WriteFails ==
  /\ "io" \in Faults
  /\ \/ /\ tx.stage = "pending"
        /\ document' \in {document, Document("pending", tx.next)}
     \/ /\ tx.stage = "commit"
        /\ document' \in {document, Document("committed", tx.next)}
  /\ Abort
  /\ UNCHANGED watermark

Raised(revision) ==
  IF watermark.kind = "absent" \/ watermark.revision < revision
  THEN [kind |-> "present", revision |-> revision]
  ELSE watermark

RaiseWatermark ==
  /\ tx.stage = "raise"
  /\ watermark' = Raised(tx.next.revision)
  /\ Advance("finish")
  /\ UNCHANGED << document, backup, up, bootEpoch, state, disabled, fenced,
                  pendingPolicies, seen, history >>

RaiseFails ==
  /\ "io" \in Faults
  /\ tx.stage = "raise"
  /\ watermark' \in {watermark, Raised(tx.next.revision)}
  /\ Abort
  /\ UNCHANGED document

Finish_OnlyWithSlots ==
  /\ tx.stage = "finish" /\ tx.changed # {}
  /\ state' = tx.next
  /\ fenced' = fenced \ tx.changed
  /\ pendingPolicies' = [a \in AddOns |-> NoPolicy]
  /\ tx' = Idle
  /\ UNCHANGED << disk, up, bootEpoch, disabled, seen, history >>

\* The state becomes visible, the fences fall and the caller is answered.
Finish ==
  /\ tx.stage = "finish"
  /\ state' = tx.next
  /\ fenced' = fenced \ tx.changed
  /\ pendingPolicies' = [a \in AddOns |-> NoPolicy]
  /\ tx' = Idle
  /\ acknowledged' = tx.next.revision
  /\ governedOnce' = (governedOnce \/ tx.next.governed)
  /\ emptied' = (emptied /\ ~tx.next.governed)
  /\ consented' = [a \in AddOns |->
       [consented[a] EXCEPT !.caps = @ \cap tx.next.grants[a]]]
  /\ UNCHANGED << disk, up, bootEpoch, disabled, seen >>

-----------------------------------------------------------------------------
(***************************************************************************)
(* Crash and boot.                                                         *)
(***************************************************************************)
Crash ==
  /\ up
  /\ "crash" \in Faults
  /\ up' = FALSE
  /\ state' = Empty
  /\ disabled' = TRUE
  /\ fenced' = {}
  /\ pendingPolicies' = [a \in AddOns |-> NoPolicy]
  /\ tx' = Idle
  /\ UNCHANGED << disk, bootEpoch, seen, history >>

\* An installation whose manifest understates its adapter loses its slots.
Understated(st) ==
  { a \in Installations(st) : UndeclaredCapabilities(st.manifest[a]) # {} }

Migrated(st) ==
  [st EXCEPT !.manifest = [a \in AddOns |->
     IF Installed(st, a) THEN MigrateManifest(st.manifest[a]) ELSE None]]

Repaired(st) ==
  LET bad == Understated(Migrated(st)) IN
  [Migrated(st) EXCEPT
     !.enabled = @ \ bad,
     !.owner = [s \in Slots |-> IF st.owner[s] \in bad THEN None ELSE st.owner[s]],
     !.generation = [s \in Slots |-> IF st.owner[s] \in bad
                       THEN st.generation[s] + 1 ELSE st.generation[s]]]

Refused_Unmanaged == Empty
Refused == [Empty EXCEPT !.governed = TRUE]

WatermarkRevision == IF watermark.kind = "absent" THEN 0 ELSE watermark.revision

Acceptable_AnyAge(doc) ==
  /\ doc.kind \in {"pending", "committed"}
  /\ WellFormed(doc.state)
  /\ \A s \in Slots : Repaired(doc.state).generation[s] < MaxCounter

Acceptable(doc) ==
  /\ doc.kind \in {"pending", "committed"}
  /\ watermark.kind # "damaged"
  /\ WatermarkRevision <= doc.state.revision
  /\ WellFormed(doc.state)
  /\ \A s \in Slots : Repaired(doc.state).generation[s] < MaxCounter

BootFresh ==
  /\ document.kind = "absent"
  /\ watermark.kind # "damaged"
  /\ state' = [Empty EXCEPT !.revision = WatermarkRevision]
  /\ disabled' = FALSE
  /\ UNCHANGED watermark

BootCommitted ==
  /\ document.kind = "committed"
  /\ Acceptable(document)
  /\ state' = Repaired(document.state)
  /\ disabled' = FALSE
  /\ \/ watermark' = Raised(document.state.revision)
     \/ "io" \in Faults /\ UNCHANGED watermark      \* a failed heal is tolerated

BootPending ==
  /\ document.kind = "pending"
  /\ Acceptable(document)
  /\ state' = Repaired(document.state)
  /\ disabled' = TRUE
  /\ UNCHANGED watermark

BootRefused ==
  /\ IF document.kind = "absent" THEN watermark.kind = "damaged"
                                 ELSE ~Acceptable(document)
  /\ state' = Refused
  /\ disabled' = TRUE
  /\ UNCHANGED watermark

Boot ==
  /\ ~up
  /\ bootEpoch < MaxBoots
  /\ up' = TRUE
  /\ bootEpoch' = bootEpoch + 1
  /\ fenced' = {}
  /\ pendingPolicies' = [a \in AddOns |-> NoPolicy]
  /\ tx' = Idle
  /\ BootFresh \/ BootCommitted \/ BootPending \/ BootRefused
  /\ UNCHANGED << document, backup, seen, history >>

-----------------------------------------------------------------------------
(***************************************************************************)
(* What happens to the files outside the process.                          *)
(***************************************************************************)
CopyDocument ==
  /\ "restore" \in Faults
  /\ document.kind = "committed"
  /\ backup' = document
  /\ UNCHANGED << document, watermark, process, seen, history >>

RestoreDocument ==
  /\ "restore" \in Faults
  /\ ~up /\ backup.kind # "absent"
  /\ document' = backup
  /\ UNCHANGED << watermark, backup, process, seen, history >>

DamageFile ==
  /\ "damage" \in Faults
  /\ ~up
  /\ \/ /\ document' = Document("damaged", Empty)
        /\ UNCHANGED watermark
     \/ /\ watermark' = [watermark EXCEPT !.kind = "damaged"]
        /\ UNCHANGED document
  /\ UNCHANGED << backup, process, seen, history >>

\* Emptying the user folder starts governance over; the watermark stays.
\* (A kept copy that the watermark does not cover, as before the first boot or
\* after a crash between a commit and its raise, could not be told from a
\* document of the new life, and is left out.)
DeleteDocument ==
  /\ "delete" \in Faults
  /\ ~up
  /\ watermark.kind = "present"
  /\ backup.state.revision <= watermark.revision
  /\ document' = Document("absent", Empty)
  /\ emptied' = TRUE
  /\ UNCHANGED << watermark, backup, process, seen, consented, acknowledged, governedOnce >>

-----------------------------------------------------------------------------

Init ==
  /\ \/ /\ document = Document("absent", Empty)
        /\ consented = [a \in AddOns |-> [manifest |-> None, caps |-> {}]]
        /\ governedOnce = FALSE
     \/ \E st \in LegacyStates :
          /\ document = Document("committed", st)
          /\ consented = [a \in AddOns |->
               [manifest |-> Migrated(st).manifest[a], caps |-> st.grants[a]]]
          /\ governedOnce = st.governed
  /\ watermark = [kind |-> "absent", revision |-> 0]
  /\ backup = Document("absent", Empty)
  /\ up = FALSE
  /\ bootEpoch = 0
  /\ state = Empty
  /\ disabled = TRUE
  /\ fenced = {}
  /\ pendingPolicies = [a \in AddOns |-> NoPolicy]
  /\ tx = Idle
  /\ seen = View(Empty)
  /\ acknowledged = 0
  /\ emptied = FALSE

Request ==
  \/ \E m \in Manifests, enabled \in BOOLEAN : Install(m, enabled)
  \/ \E records \in SUBSET Manifests : ImportLegacy(records)
  \/ \E a \in AddOns, granted, withdrawn \in SUBSET Caps :
       SetGrants(a, granted, withdrawn)
  \/ \E a \in AddOns, enabled \in BOOLEAN : SetEnabled(a, enabled)
  \/ \E s \in Slots, a \in AddOns \cup {None}, replace \in BOOLEAN :
       AssignSlot(s, a, replace)
  \/ \E a \in AddOns : Remove(a)

Progress ==
  \/ WritePending
  \/ CleanupSettled
  \/ CleanupRejected
  \/ WriteCommitted
  \/ WriteFails
  \/ RaiseWatermark
  \/ RaiseFails
  \/ Finish

Environment ==
  \/ Crash
  \/ CopyDocument
  \/ RestoreDocument
  \/ DamageFile
  \/ DeleteDocument

Next == Request \/ Observe \/ Progress \/ Boot \/ Environment

Spec == Init /\ [][Next]_vars

\* Durable writes return and fence listeners are bounded by the boundary's
\* cleanup timeout, so a transaction at the head of the queue always moves.
FairSpec == Spec /\ WF_vars(Progress)

-----------------------------------------------------------------------------
(***************************************************************************)
(* Properties.                                                             *)
(***************************************************************************)

DocumentType ==
  [kind : {"absent", "damaged", "pending", "committed"}, state : State]

StageType == {"idle", "pending", "cleanup", "commit", "raise", "finish"}

\* Every variable keeps its type; revisions and generations stay safe
\* integers, also when loading vacates a slot of a stored state.
TypeOK ==
  /\ document \in DocumentType
  /\ watermark \in [kind : {"absent", "damaged", "present"}, revision : Counter]
  /\ backup \in DocumentType
  /\ up \in BOOLEAN
  /\ bootEpoch \in Nat
  /\ state \in State
  /\ disabled \in BOOLEAN
  /\ fenced \in SUBSET Slots
  /\ pendingPolicies \in
       [AddOns -> [active : BOOLEAN, disabledOperations : SUBSET Ops]]
  /\ tx \in [stage : StageType, next : State, changed : SUBSET Slots]
  /\ seen \in [ revision : Counter, manifest : [AddOns -> ManifestType \cup {None}],
                owner : [Slots -> AddOns \cup {None}],
                generation : [Slots -> Counter] ]
  /\ consented \in [AddOns -> [manifest : ManifestType \cup {None},
                               caps : SUBSET Caps]]
  /\ acknowledged \in Counter
  /\ {governedOnce, emptied} \subseteq BOOLEAN

\* A grant in force was consented to by the operator for the very manifest
\* that is installed, and not withdrawn since: stale views, re-installs,
\* legacy imports, crashes and restored files never create consent.
GrantsAreConsented ==
  Serving => \A a \in AddOns : state.grants[a] # {} =>
     /\ consented[a].manifest = state.manifest[a]
     /\ state.grants[a] \subseteq consented[a].caps

\* What a caller was told is committed is never lost: a registry that serves
\* is at least at the last acknowledged revision, whatever crashed and
\* whatever file was put back in between.
AcknowledgedSurvives == Serving => state.revision >= acknowledged

\* The registry never locks itself out: every state it holds, writes or is
\* about to write passes the checks of the next boot, however installs,
\* imports, grants, assignments and removals were mixed.
StatesAreLoadable ==
  \A st \in {state, document.state, tx.next} : WellFormed(st)

\* No authority is handed out that the disk does not hold: a crash now boots
\* with the same owner and generation for every slot somebody is authorized
\* for.  (An add-on that understates its adapter, as only an earlier release
\* installed any, may be given another slot than the primary one, and loses
\* it at the next boot.)
AuthorityIsDurable ==
  \A s \in Slots, a \in AddOns :
    /\ Authorized(s, a)
    /\ s = Primary \/ UndeclaredCapabilities(state.manifest[a]) = {}
    => /\ document.kind \in {"pending", "committed"}
       /\ Repaired(document.state).owner[s] = a
       /\ Repaired(document.state).generation[s] = state.generation[s]

\* The revision and the generation are sound compare-and-swap tokens: an
\* operator whose revision is current saw the current installations, and one
\* whose generation is current saw the current owner.
TokensIdentifyState ==
  Serving =>
    /\ seen.revision = state.revision => seen.manifest = state.manifest
    /\ \A s \in Slots : seen.generation[s] = state.generation[s] =>
         seen.owner[s] = state.owner[s]

\* The grants the operator last decided, committed or not.
DecidedGrants(a) ==
  IF tx.stage = "idle" THEN state.grants[a] ELSE tx.next.grants[a]

\* Withdrawing a capability takes effect before anything is written: no
\* operation is allowed whose dependencies the operator has withdrawn.
WithdrawalIsImmediate ==
  \A s \in Slots, a \in AddOns, op \in Ops : OperationAllowed(s, a, op) =>
     OperationDependencies(state.manifest[a], op) \subseteq DecidedGrants(a)

\* A grant batch is atomic: no operation is allowed on the strength of a
\* grant that is not committed yet.
GrantBatchIsAtomic ==
  \A s \in Slots, a \in AddOns, op \in Ops : OperationAllowed(s, a, op) =>
     OperationDependencies(state.manifest[a], op) \subseteq state.grants[a]

\* Once a caller was told that the primary slot is governed, no boot takes
\* it for an unmanaged legacy slot: unreadable or stale authority is refused
\* as governed.  Only a user folder emptied since starts over as unmanaged
\* (harness-registry.mjs:91), until a state is governed again.
GovernanceIsSticky == up /\ governedOnce => state.governed \/ emptied

\* The registry implements the tenancy contract.
Status(s) ==
  IF s \in fenced THEN "fenced"
  ELSE IF Eligible(state, state.owner[s], s) THEN "live" ELSE "dormant"

Allowed(s) ==
  LET a == state.owner[s] IN
  IF a = None THEN {} ELSE state.manifest[a].supported \ ProjectedDisabled(a)

Tenancy == INSTANCE HarnessTenancy WITH
  Holders    <- AddOns,
  epoch      <- bootEpoch,
  open       <- Serving,
  status     <- [s \in Slots |-> Status(s)],
  holder     <- state.owner,
  generation <- state.generation,
  allowed    <- [s \in Slots |-> Allowed(s)]

TenancySpec == Tenancy!Spec

\* A transaction that started is settled: committed, refused or lost with
\* the process, never left holding the queue.
TransactionsSettle == (tx.stage # "idle") ~> (tx.stage = "idle")
=============================================================================
