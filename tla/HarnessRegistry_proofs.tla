----------------------- MODULE HarnessRegistry_proofs -----------------------
(***************************************************************************)
(* Theorems about the governance registry, for any add-ons, slots,         *)
(* capabilities, manifests and faults.                                     *)
(***************************************************************************)
EXTENDS HarnessRegistry, FiniteSetTheorems, TLAPS

PolicyMap == [AddOns -> [active : BOOLEAN, disabledOperations : SUBSET Ops]]

LEMMA EmptyType == Empty \in State
  BY RegistryAssumption DEF Empty, State, Counter

LEMMA RefusedType == Refused \in State
  BY EmptyType DEF Refused, State

LEMMA IdleType == Idle \in [stage : StageType, next : State, changed : SUBSET Slots]
  BY EmptyType DEF Idle, StageType

LEMMA NoPolicies == [a \in AddOns |-> NoPolicy] \in PolicyMap
  BY DEF NoPolicy, PolicyMap

\* Moving a stored manifest to the current release keeps it a manifest of the
\* same add-on.
LEMMA MigrateType ==
  ASSUME NEW m \in ManifestType
  PROVE  MigrateManifest(m) \in ManifestType
  BY PolicyAssumption DEF MigrateManifest, ManifestType

LEMMA MigratedType ==
  ASSUME NEW st \in State
  PROVE  Migrated(st) \in State
<1>1. ASSUME NEW a \in AddOns, Installed(st, a)
      PROVE  MigrateManifest(st.manifest[a]) \in ManifestType
  BY <1>1, MigrateType DEF Installed, State
<1>2. [a \in AddOns |-> IF Installed(st, a) THEN MigrateManifest(st.manifest[a]) ELSE None]
        \in [AddOns -> ManifestType \cup {None}]
  BY <1>1
<1>3. QED
  BY <1>2 DEF Migrated, State

\* The repair of a loaded state keeps its type when its generations fit.
LEMMA RepairedType ==
  ASSUME NEW st \in State,
         \A s \in Slots : Repaired(st).generation[s] < MaxCounter
  PROVE  Repaired(st) \in State
<1> DEFINE M   == Migrated(st)
           bad == Understated(M)
           own == [s \in Slots |-> IF st.owner[s] \in bad THEN None ELSE st.owner[s]]
           gen == [s \in Slots |-> IF st.owner[s] \in bad
                     THEN st.generation[s] + 1 ELSE st.generation[s]]
<1>1. M \in State
  BY MigratedType
<1>2. own \in [Slots -> AddOns \cup {None}]
  BY DEF State
<1>3. Repaired(st) = [M EXCEPT !.enabled = M.enabled \ bad, !.owner = own,
                               !.generation = gen]
  BY DEF Repaired
<1>4. Repaired(st).generation = gen
  BY <1>1, <1>3 DEF State
<1>5. gen \in [Slots -> Counter]
  <2>1. ASSUME NEW s \in Slots PROVE gen[s] \in Counter
    BY <1>4, RegistryAssumption DEF State, Counter
  <2>2. QED BY <2>1
<1>6. QED
  BY <1>1, <1>2, <1>3, <1>5 DEF State

TxType   == [stage : StageType, next : State, changed : SUBSET Slots]
SeenType == [ revision : Counter, manifest : [AddOns -> ManifestType \cup {None}],
              owner : [Slots -> AddOns \cup {None}], generation : [Slots -> Counter] ]
MarkType == [kind : {"absent", "damaged", "present"}, revision : Counter]
ConsentType == [AddOns -> [manifest : ManifestType \cup {None}, caps : SUBSET Caps]]

LEMMA ViewType ==
  ASSUME NEW st \in State
  PROVE  View(st) \in SeenType
  BY DEF View, State, SeenType

LEMMA AbsentType == Document("absent", Empty) \in DocumentType
  BY EmptyType DEF Document, DocumentType

\* What a transaction computes is a state whenever the change it is given is
\* one: only the revision is the protocol's own.
LEMMA TransactType ==
  ASSUME TypeOK,
         NEW next \in State, NEW changed \in SUBSET Slots,
         NEW policies \in PolicyMap,
         Transact(next, changed, policies)
  PROVE  /\ tx' \in TxType
         /\ fenced' \in SUBSET Slots
         /\ pendingPolicies' \in PolicyMap
         /\ UNCHANGED << document, watermark, backup, up, bootEpoch, state,
                         disabled, seen, acknowledged, governedOnce, emptied >>
<1>1. state.revision + 1 \in Counter
  BY RegistryAssumption DEF Transact, RevisionFits, TypeOK, State, Counter
<1>2. [next EXCEPT !.revision = state.revision + 1] \in State
  BY <1>1 DEF State
<1>3. tx' \in TxType
  BY <1>2 DEF Transact, TxType, StageType
<1>4. QED
  BY <1>3 DEF Transact, FencedWith, TypeOK, disk

\* So a request that leaves consent well-typed keeps every type.
LEMMA RequestType ==
  ASSUME TypeOK,
         NEW next \in State, NEW changed \in SUBSET Slots,
         NEW policies \in PolicyMap,
         Transact(next, changed, policies),
         consented' \in ConsentType
  PROVE  TypeOK'
<1>1. /\ tx' \in TxType
      /\ fenced' \in SUBSET Slots
      /\ pendingPolicies' \in PolicyMap
      /\ UNCHANGED << document, watermark, backup, up, bootEpoch, state,
                      disabled, seen, acknowledged, governedOnce, emptied >>
  BY TransactType
<1>2. QED
  BY <1>1 DEF TypeOK, TxType, PolicyMap, ConsentType

LEMMA AdvancedType ==
  ASSUME TypeOK, NEW changed \in SUBSET Slots, CanAdvance(changed)
  PROVE  Advanced(changed) \in [Slots -> Counter]
<1>1. ASSUME NEW s \in Slots, s \in changed
      PROVE  state.generation[s] + 1 \in Counter
  BY <1>1, RegistryAssumption DEF CanAdvance, TypeOK, State, Counter
<1>2. QED
  BY <1>1 DEF Advanced, TypeOK, State

-----------------------------------------------------------------------------
(***************************************************************************)
(* One lemma per request.                                                  *)
(***************************************************************************)

LEMMA InstallKeepsType ==
  ASSUME TypeOK, NEW m \in Manifests, NEW enabled \in BOOLEAN, Install(m, enabled)
  PROVE  TypeOK'
<1> DEFINE next == [state EXCEPT
                      !.manifest[m.id] = m,
                      !.enabled = IF enabled THEN @ \cup {m.id} ELSE @ \ {m.id},
                      !.grants[m.id] = {}]
<1>1. m \in ManifestType /\ m.id \in AddOns
  BY PolicyAssumption DEF ManifestType
<1>2. next \in State
  BY <1>1 DEF TypeOK, State
<1>3. Transact(next, {}, pendingPolicies) /\ consented' = consented
  BY DEF Install
<1>4. pendingPolicies \in PolicyMap /\ consented \in ConsentType
  BY DEF TypeOK, PolicyMap, ConsentType
<1> HIDE DEF next
<1>5. QED
  BY <1>2, <1>3, <1>4, RequestType

LEMMA ImportKeepsType ==
  ASSUME TypeOK, NEW records \in SUBSET Manifests, ImportLegacy(records)
  PROVE  TypeOK'
<1> DEFINE fresh == { m \in records : ~Installed(state, m.id) }
           Record(a) == CHOOSE m \in fresh : m.id = a
           imported == { m.id : m \in fresh }
           manifests == [a \in AddOns |-> IF a \in imported
                           THEN Record(a) ELSE state.manifest[a]]
           grants == [a \in AddOns |-> IF a \in imported
                        THEN {} ELSE state.grants[a]]
           next == [state EXCEPT !.manifest = manifests,
                                 !.enabled = @ \ imported, !.grants = grants]
<1>1. ASSUME NEW a \in imported PROVE Record(a) \in ManifestType
  <2>1. \E m \in fresh : m.id = a
    OBVIOUS
  <2>2. Record(a) \in fresh
    BY <2>1
  <2>3. QED
    BY <2>2, PolicyAssumption
<1>2. manifests \in [AddOns -> ManifestType \cup {None}]
  BY <1>1 DEF TypeOK, State
<1>3. grants \in [AddOns -> SUBSET Caps]
  BY DEF TypeOK, State
<1>4. Transact(next, {}, pendingPolicies) /\ consented' = consented
  BY DEF ImportLegacy
<1>5. pendingPolicies \in PolicyMap /\ consented \in ConsentType
  BY DEF TypeOK, PolicyMap, ConsentType
<1>6. next \in State
  <2> HIDE DEF manifests, grants, imported
  <2>1. QED
    BY <1>2, <1>3 DEF TypeOK, State
<1> HIDE DEF next
<1>7. QED
  BY <1>4, <1>5, <1>6, RequestType

LEMMA SetGrantsKeepsType ==
  ASSUME TypeOK, NEW a \in AddOns,
         NEW granted \in SUBSET Caps, NEW withdrawn \in SUBSET Caps,
         SetGrants(a, granted, withdrawn)
  PROVE  TypeOK'
<1> DEFINE m       == state.manifest[a]
           after   == (state.grants[a] \cup granted) \ withdrawn
           revoked == withdrawn \cap state.grants[a]
           changed == { s \in Owned(state, a) : HardStop(m, after, revoked, s) }
           next    == [state EXCEPT !.grants[a] = after,
                                    !.generation = Advanced(changed)]
           policies == PoliciesAfter(a, m, after, revoked)
<1>1. m \in ManifestType
  BY DEF SetGrants, Installed, TypeOK, State
<1>2. changed \in SUBSET Slots
  BY DEF Owned
<1>3. after \in SUBSET Caps
  BY DEF TypeOK, State
<1>4. /\ CanAdvance(changed)
      /\ Transact(next, changed, policies)
      /\ RecordConsent(a, granted)
  BY DEF SetGrants
<1>5. Advanced(changed) \in [Slots -> Counter]
  BY <1>2, <1>4, AdvancedType
<1>6. next \in State
  <2> HIDE DEF changed, after
  <2>1. QED
    BY <1>3, <1>5 DEF TypeOK, State
<1>7. policies \in PolicyMap
  <2>1. DisabledOperations(m, after) \in SUBSET Ops
    BY <1>1 DEF DisabledOperations, ManifestType
  <2> HIDE DEF m, after, revoked
  <2>2. QED
    BY <2>1 DEF PoliciesAfter, TypeOK, PolicyMap
<1>8. consented' \in ConsentType
  BY <1>4 DEF RecordConsent, TypeOK, ConsentType
<1> HIDE DEF next, changed, policies
<1>9. QED
  BY <1>2, <1>4, <1>6, <1>7, <1>8, RequestType

LEMMA SetEnabledKeepsType ==
  ASSUME TypeOK, NEW a \in AddOns, NEW enabled \in BOOLEAN, SetEnabled(a, enabled)
  PROVE  TypeOK'
<1> DEFINE changed == Owned(state, a)
           next    == [state EXCEPT
                         !.enabled = IF enabled THEN @ \cup {a} ELSE @ \ {a},
                         !.generation = Advanced(changed)]
<1>1. changed \in SUBSET Slots
  BY DEF Owned
<1>2. CanAdvance(changed) /\ Transact(next, changed, pendingPolicies)
      /\ consented' = consented
  BY DEF SetEnabled
<1>3. Advanced(changed) \in [Slots -> Counter]
  BY <1>1, <1>2, AdvancedType
<1>4. next \in State
  <2> HIDE DEF changed
  <2>1. QED
    BY <1>3 DEF TypeOK, State
<1>5. pendingPolicies \in PolicyMap /\ consented \in ConsentType
  BY DEF TypeOK, PolicyMap, ConsentType
<1> HIDE DEF next, changed
<1>6. QED
  BY <1>1, <1>2, <1>4, <1>5, RequestType

LEMMA AssignSlotKeepsType ==
  ASSUME TypeOK, NEW slot \in Slots, NEW a \in AddOns \cup {None},
         NEW replace \in BOOLEAN, AssignSlot(slot, a, replace)
  PROVE  TypeOK'
<1> DEFINE next == [state EXCEPT !.owner[slot] = a,
                                 !.generation = Advanced({slot}),
                                 !.governed = @ \/ slot = Primary]
<1>1. CanAdvance({slot}) /\ Transact(next, {slot}, pendingPolicies)
      /\ consented' = consented
  BY DEF AssignSlot
<1>2. Advanced({slot}) \in [Slots -> Counter]
  BY <1>1, AdvancedType
<1>3. next \in State
  BY <1>2 DEF TypeOK, State
<1>4. pendingPolicies \in PolicyMap /\ consented \in ConsentType
  BY DEF TypeOK, PolicyMap, ConsentType
<1> HIDE DEF next
<1>5. QED
  BY <1>1, <1>3, <1>4, RequestType

LEMMA RemoveKeepsType ==
  ASSUME TypeOK, NEW a \in AddOns, Remove(a)
  PROVE  TypeOK'
<1> DEFINE next == [state EXCEPT !.manifest[a] = None, !.enabled = @ \ {a},
                                 !.grants[a] = {}]
<1>1. Transact(next, {}, pendingPolicies) /\ consented' = consented
  BY DEF Remove
<1>2. next \in State
  BY DEF TypeOK, State
<1>3. pendingPolicies \in PolicyMap /\ consented \in ConsentType
  BY DEF TypeOK, PolicyMap, ConsentType
<1> HIDE DEF next
<1>4. QED
  BY <1>1, <1>2, <1>3, RequestType

-----------------------------------------------------------------------------
(***************************************************************************)
(* The commit protocol, the boot and the environment.                      *)
(***************************************************************************)

LEMMA RaisedType ==
  ASSUME TypeOK, NEW revision \in Counter
  PROVE  Raised(revision) \in MarkType
  BY DEF Raised, TypeOK, MarkType

LEMMA ProgressKeepsType ==
  ASSUME TypeOK, Progress
  PROVE  TypeOK'
<1>1. /\ Document("pending", tx.next) \in DocumentType
      /\ Document("committed", tx.next) \in DocumentType
      /\ tx.next \in State /\ tx.next.revision \in Counter
  BY DEF TypeOK, Document, DocumentType, State
<1>2. Raised(tx.next.revision) \in MarkType
  BY <1>1, RaisedType
<1>3. ASSUME NEW stage \in StageType, Advance(stage)
      PROVE  tx' \in TxType
  BY <1>3 DEF Advance, TypeOK, TxType
<1>4. ASSUME Abort, document' \in DocumentType, watermark' \in MarkType
      PROVE  TypeOK'
  BY <1>4, IdleType DEF Abort, TypeOK, TxType, MarkType, history
<1>5. CASE WritePending
  BY <1>1, <1>3, <1>5 DEF WritePending, StageType, TypeOK, TxType, history
<1>6. CASE CleanupSettled
  BY <1>3, <1>6 DEF CleanupSettled, StageType, TypeOK, TxType, history, disk
<1>7. CASE CleanupRejected
  BY <1>4, <1>7 DEF CleanupRejected, TypeOK, MarkType
<1>8. CASE WriteCommitted
  BY <1>1, <1>3, <1>8 DEF WriteCommitted, StageType, TypeOK, TxType, history
<1>9. CASE WriteFails
  BY <1>1, <1>4, <1>9 DEF WriteFails, TypeOK, MarkType
<1>10. CASE RaiseWatermark
  BY <1>2, <1>3, <1>10
     DEF RaiseWatermark, StageType, TypeOK, TxType, MarkType, history
<1>11. CASE RaiseFails
  BY <1>2, <1>4, <1>11 DEF RaiseFails, TypeOK, MarkType
<1>12. CASE Finish
  <2>1. consented' \in ConsentType
    <3>1. ASSUME NEW a \in AddOns
          PROVE  [consented[a] EXCEPT !.caps = @ \cap tx.next.grants[a]]
                   \in [manifest : ManifestType \cup {None}, caps : SUBSET Caps]
      BY DEF TypeOK
    <3>2. QED
      BY <3>1, <1>12 DEF Finish, ConsentType
  <2>2. acknowledged' \in Counter /\ state' \in State
    BY <1>1, <1>12 DEF Finish
  <2>3. governedOnce' \in BOOLEAN /\ emptied' \in BOOLEAN
    BY <1>1, <1>12 DEF Finish, TypeOK, State
  <2>4. QED
    BY <2>1, <2>2, <2>3, <1>12, IdleType, NoPolicies
       DEF Finish, TypeOK, ConsentType, PolicyMap, disk
<1>13. QED
  BY <1>5, <1>6, <1>7, <1>8, <1>9, <1>10, <1>11, <1>12 DEF Progress

LEMMA BootKeepsType ==
  ASSUME TypeOK, Boot
  PROVE  TypeOK'
<1>1. document.state \in State /\ document.state.revision \in Counter
  BY DEF TypeOK, DocumentType, State
<1>2. Raised(document.state.revision) \in MarkType /\ watermark \in MarkType
  BY <1>1, RaisedType DEF TypeOK, MarkType
<1>3. Acceptable(document) => Repaired(document.state) \in State
  BY <1>1, RepairedType DEF Acceptable
<1>4. state' \in State /\ disabled' \in BOOLEAN /\ watermark' \in MarkType
  <2>1. CASE BootFresh
    <3>1. WatermarkRevision \in Counter
      BY <1>2, EmptyType DEF WatermarkRevision, MarkType, State, Empty
    <3>2. [Empty EXCEPT !.revision = WatermarkRevision] \in State
      BY <3>1, EmptyType DEF State
    <3>3. QED
      BY <2>1, <3>2, <1>2 DEF BootFresh
  <2>2. CASE BootCommitted
    BY <2>2, <1>2, <1>3 DEF BootCommitted
  <2>3. CASE BootPending
    BY <2>3, <1>2, <1>3 DEF BootPending
  <2>4. CASE BootRefused
    BY <2>4, <1>2, RefusedType DEF BootRefused
  <2>5. QED
    BY <2>1, <2>2, <2>3, <2>4 DEF Boot
<1>5. QED
  BY <1>4, IdleType, NoPolicies DEF Boot, TypeOK, TxType, MarkType, PolicyMap, history

LEMMA EnvironmentKeepsType ==
  ASSUME TypeOK, Environment
  PROVE  TypeOK'
<1>1. CASE Crash
  BY <1>1, IdleType, NoPolicies, EmptyType DEF Crash, TypeOK, PolicyMap, disk, history
<1>2. CASE CopyDocument
  BY <1>2 DEF CopyDocument, TypeOK, process, history
<1>3. CASE RestoreDocument
  BY <1>3 DEF RestoreDocument, TypeOK, process, history
<1>4. CASE DamageFile
  <2>1. /\ Document("damaged", Empty) \in DocumentType
        /\ [watermark EXCEPT !.kind = "damaged"] \in MarkType
    BY EmptyType DEF Document, DocumentType, TypeOK, MarkType
  <2>2. QED
    BY <1>4, <2>1 DEF DamageFile, TypeOK, MarkType, process, history
<1>5. CASE DeleteDocument
  BY <1>5, AbsentType DEF DeleteDocument, TypeOK, process
<1>6. QED
  BY <1>1, <1>2, <1>3, <1>4, <1>5 DEF Environment

LEMMA InitType == Init => TypeOK
<1>1. ASSUME Init PROVE TypeOK
  <2>1. document \in DocumentType /\ consented \in ConsentType /\ governedOnce \in BOOLEAN
    <3>1. CASE /\ document = Document("absent", Empty)
               /\ consented = [a \in AddOns |-> [manifest |-> None, caps |-> {}]]
               /\ governedOnce = FALSE
      BY <3>1, AbsentType DEF ConsentType
    <3>2. ASSUME NEW st \in LegacyStates,
                 document = Document("committed", st),
                 consented = [a \in AddOns |->
                   [manifest |-> Migrated(st).manifest[a], caps |-> st.grants[a]]],
                 governedOnce = st.governed
          PROVE  document \in DocumentType /\ consented \in ConsentType
                 /\ governedOnce \in BOOLEAN
      <4>1. st \in State /\ Migrated(st) \in State
        BY RegistryAssumption, MigratedType
      <4>2. QED
        BY <3>2, <4>1 DEF Document, DocumentType, ConsentType, State
    <3>3. QED
      BY <1>1, <3>1, <3>2 DEF Init
  <2>2. 0 \in Counter
    BY RegistryAssumption DEF Counter
  <2>3. QED
    BY <1>1, <2>1, <2>2, EmptyType, AbsentType, IdleType, NoPolicies, ViewType
       DEF Init, TypeOK, ConsentType, PolicyMap, SeenType
<1>2. QED
  BY <1>1

LEMMA NextType == TypeOK /\ [Next]_vars => TypeOK'
<1> SUFFICES ASSUME TypeOK, [Next]_vars PROVE TypeOK'
  OBVIOUS
<1>1. CASE Request
  BY <1>1, InstallKeepsType, ImportKeepsType, SetGrantsKeepsType,
     SetEnabledKeepsType, AssignSlotKeepsType, RemoveKeepsType DEF Request
<1>2. CASE Observe
  BY <1>2, ViewType DEF Observe, TypeOK, SeenType, disk, process, history
<1>3. CASE Progress
  BY <1>3, ProgressKeepsType
<1>4. CASE Boot
  BY <1>4, BootKeepsType
<1>5. CASE Environment
  BY <1>5, EnvironmentKeepsType
<1>6. CASE UNCHANGED vars
  BY <1>6 DEF vars, disk, process, history, TypeOK
<1>7. QED
  BY <1>1, <1>2, <1>3, <1>4, <1>5, <1>6 DEF Next

\* Type correctness: revisions and generations stay safe integers and every
\* stored or served state is well-formed, through every request, crash, boot
\* and damaged file.
THEOREM TypeCorrect == Spec => []TypeOK
<1>1. QED
  BY InitType, NextType, PTL DEF Spec

-----------------------------------------------------------------------------
(***************************************************************************)
(* Acknowledged commits survive.  The watermark carries the argument: it   *)
(* is raised before a caller is answered and never falls, and a boot       *)
(* accepts nothing older.                                                  *)
(***************************************************************************)

WatermarkCovers ==
  /\ watermark.kind = "absent" => watermark.revision = 0
  /\ acknowledged <= watermark.revision
  /\ tx.stage = "finish" =>
       watermark.kind # "absent" /\ tx.next.revision <= watermark.revision

SurvivalInv == TypeOK /\ WatermarkCovers /\ AcknowledgedSurvives

LEMMA RaisedCovers ==
  ASSUME SurvivalInv, NEW revision \in Counter
  PROVE  /\ Raised(revision).kind # "absent"
         /\ watermark.revision <= Raised(revision).revision
         /\ revision <= Raised(revision).revision
  BY RegistryAssumption DEF SurvivalInv, WatermarkCovers, TypeOK, Raised, Counter

LEMMA SurvivalInit == Init => SurvivalInv
<1>1. ASSUME Init PROVE WatermarkCovers /\ AcknowledgedSurvives
  BY <1>1 DEF Init, Idle, WatermarkCovers, AcknowledgedSurvives, Serving
<1>2. QED
  BY <1>1, InitType DEF SurvivalInv

\* Every request of the operator is a transaction, begun between transactions.
LEMMA RequestTransacts ==
  ASSUME Request
  PROVE  Ready /\ \E next, changed, policies : Transact(next, changed, policies)
<1>1. ASSUME NEW m \in Manifests, NEW enabled \in BOOLEAN, Install(m, enabled)
      PROVE  Ready /\ \E next, changed, policies : Transact(next, changed, policies)
  BY <1>1, Zenon DEF Install
<1>2. ASSUME NEW records \in SUBSET Manifests, ImportLegacy(records)
      PROVE  Ready /\ \E next, changed, policies : Transact(next, changed, policies)
  BY <1>2, Zenon DEF ImportLegacy
<1>3. ASSUME NEW a \in AddOns, NEW granted \in SUBSET Caps, NEW withdrawn \in SUBSET Caps,
             SetGrants(a, granted, withdrawn)
      PROVE  Ready /\ \E next, changed, policies : Transact(next, changed, policies)
  BY <1>3, Zenon DEF SetGrants
<1>4. ASSUME NEW a \in AddOns, NEW enabled \in BOOLEAN, SetEnabled(a, enabled)
      PROVE  Ready /\ \E next, changed, policies : Transact(next, changed, policies)
  BY <1>4, Zenon DEF SetEnabled
<1>5. ASSUME NEW s \in Slots, NEW a \in AddOns \cup {None}, NEW replace \in BOOLEAN,
             AssignSlot(s, a, replace)
      PROVE  Ready /\ \E next, changed, policies : Transact(next, changed, policies)
  BY <1>5, Zenon DEF AssignSlot
<1>6. ASSUME NEW a \in AddOns, Remove(a)
      PROVE  Ready /\ \E next, changed, policies : Transact(next, changed, policies)
  BY <1>6, Zenon DEF Remove
<1>7. QED
  BY <1>1, <1>2, <1>3, <1>4, <1>5, <1>6, Zenon DEF Request

LEMMA SurvivalStep == SurvivalInv /\ [Next]_vars => SurvivalInv'
<1> SUFFICES ASSUME SurvivalInv, [Next]_vars
             PROVE  WatermarkCovers' /\ AcknowledgedSurvives'
  BY NextType DEF SurvivalInv
<1> USE DEF SurvivalInv
<1>1. CASE Request
  <2>1. \E next, changed, policies : Transact(next, changed, policies)
    BY <1>1, RequestTransacts
  <2>2. /\ tx'.stage = "pending"
        /\ UNCHANGED << watermark, up, state, disabled, acknowledged >>
    BY <2>1 DEF Transact, disk
  <2>3. QED
    BY <2>2 DEF WatermarkCovers, AcknowledgedSurvives, Serving
<1>2. CASE Observe
  BY <1>2 DEF Observe, disk, process, history, WatermarkCovers,
              AcknowledgedSurvives, Serving
<1>3. CASE Progress
  <2>1. tx \in TxType /\ tx.next.revision \in Counter
    BY DEF TypeOK, TxType, State
  <2>2. ASSUME Abort, watermark'.kind # "absent" \/ watermark' = watermark,
               watermark'.revision \in Counter,
               watermark.revision <= watermark'.revision
        PROVE  WatermarkCovers' /\ AcknowledgedSurvives'
    BY <2>2 DEF Abort, Idle, TypeOK, Counter, WatermarkCovers,
                AcknowledgedSurvives, Serving, history
  <2>3. ASSUME NEW stage \in StageType \ {"finish"}, Advance(stage),
               UNCHANGED << watermark, up, state, disabled, acknowledged >>
        PROVE  WatermarkCovers' /\ AcknowledgedSurvives'
    BY <2>1, <2>3 DEF Advance, TxType, WatermarkCovers, AcknowledgedSurvives, Serving
  <2>4. watermark.revision \in Counter
    BY DEF TypeOK
  <2>5. CASE WritePending
    BY <2>3, <2>5 DEF WritePending, StageType, history
  <2>6. CASE CleanupSettled
    BY <2>3, <2>6 DEF CleanupSettled, StageType, history, disk
  <2>7. CASE WriteCommitted
    BY <2>3, <2>7 DEF WriteCommitted, StageType, history
  <2>8. CASE CleanupRejected \/ WriteFails
    <3>1. Abort /\ watermark' = watermark
      BY <2>8 DEF CleanupRejected, WriteFails
    <3>2. QED
      BY <2>2, <2>4, <3>1 DEF Counter
  <2>9. CASE RaiseWatermark
    <3>1. /\ watermark' = Raised(tx.next.revision)
          /\ tx'.next = tx.next
          /\ UNCHANGED << up, state, disabled, acknowledged >>
      BY <2>1, <2>9 DEF RaiseWatermark, Advance, TxType, history
    <3>2. watermark'.revision \in Counter /\ acknowledged \in Counter
      BY <2>1, <3>1, RaisedType DEF MarkType, TypeOK
    <3>3. WatermarkCovers'
      BY <2>1, <2>4, <3>1, <3>2, RaisedCovers DEF WatermarkCovers, Counter
    <3>4. QED
      BY <3>1, <3>3 DEF AcknowledgedSurvives, Serving
  <2>10. CASE RaiseFails
    <3>1. watermark'.revision \in Counter
      BY <2>1, <2>10, RaisedType DEF RaiseFails, TypeOK, MarkType
    <3>2. QED
      BY <2>1, <2>2, <2>4, <2>10, <3>1, RaisedCovers DEF RaiseFails, Counter
  <2>11. CASE Finish
    BY <2>1, <2>4, <2>11
       DEF Finish, Idle, TypeOK, Counter, WatermarkCovers,
           AcknowledgedSurvives, Serving, disk
  <2>12. QED
    BY <1>3, <2>5, <2>6, <2>7, <2>8, <2>9, <2>10, <2>11 DEF Progress
<1>4. CASE Boot
  <2>1. document.state \in State
    BY DEF TypeOK, DocumentType
  <2>2. Repaired(document.state).revision = document.state.revision
    BY <2>1, MigratedType DEF Repaired, Migrated, State
  <2>3. /\ tx'.stage = "idle" /\ acknowledged' = acknowledged
        /\ watermark.revision \in Counter /\ acknowledged \in Counter
        /\ document.state.revision \in Counter
    BY <1>4, <2>1 DEF Boot, Idle, history, TypeOK, State
  <2>4. watermark' = watermark \/ watermark' = Raised(document.state.revision)
    BY <1>4 DEF Boot, BootFresh, BootCommitted, BootPending, BootRefused
  <2>5. WatermarkCovers'
    BY <2>3, <2>4, RaisedCovers, RaisedType DEF WatermarkCovers, Counter, MarkType
  <2>6. Acceptable(document) => acknowledged <= document.state.revision
    BY <2>3 DEF Acceptable, WatermarkRevision, WatermarkCovers, Counter
  <2>7. AcknowledgedSurvives'
    <3>1. CASE BootFresh
      BY <2>3, <3>1, EmptyType
         DEF BootFresh, WatermarkRevision, WatermarkCovers, State, Counter,
             AcknowledgedSurvives
    <3>2. CASE BootCommitted
      BY <2>2, <2>3, <2>6, <3>2 DEF BootCommitted, AcknowledgedSurvives
    <3>3. CASE BootPending \/ BootRefused
      BY <3>3 DEF BootPending, BootRefused, AcknowledgedSurvives, Serving
    <3>4. QED
      BY <1>4, <3>1, <3>2, <3>3 DEF Boot
  <2>8. QED
    BY <2>5, <2>7
<1>5. CASE Environment
  <2>1. CASE Crash
    BY <2>1 DEF Crash, Idle, disk, history, WatermarkCovers,
                AcknowledgedSurvives, Serving
  <2>2. CASE DamageFile
    BY <2>2 DEF DamageFile, TypeOK, process, history, WatermarkCovers,
                AcknowledgedSurvives, Serving
  <2>3. CASE CopyDocument \/ RestoreDocument \/ DeleteDocument
    BY <2>3 DEF CopyDocument, RestoreDocument, DeleteDocument, process, history,
                WatermarkCovers, AcknowledgedSurvives, Serving
  <2>4. QED
    BY <1>5, <2>1, <2>2, <2>3 DEF Environment
<1>6. CASE UNCHANGED vars
  BY <1>6 DEF vars, disk, process, history, WatermarkCovers,
              AcknowledgedSurvives, Serving
<1>7. QED
  BY <1>1, <1>2, <1>3, <1>4, <1>5, <1>6 DEF Next

\* A commit a caller was told of is never lost: whatever crashed, whatever
\* file was damaged, deleted or restored, a registry that serves is at least
\* at the acknowledged revision.
THEOREM AcknowledgedIsKept == Spec => []AcknowledgedSurvives
<1>1. SurvivalInv => AcknowledgedSurvives
  BY DEF SurvivalInv
<1>2. QED
  BY SurvivalInit, SurvivalStep, <1>1, PTL DEF Spec

-----------------------------------------------------------------------------
(***************************************************************************)
(* Every state the registry writes passes the checks of the next boot.     *)
(***************************************************************************)

LoadableInv ==
  /\ TypeOK
  /\ StatesAreLoadable
  /\ WellFormed(backup.state)

LEMMA EmptyIsWellFormed == WellFormed(Empty) /\ WellFormed(Refused)
<1>1. ASSUME NEW st, st \in {Empty, Refused} PROVE WellFormed(st)
  <2>1. /\ \A a \in AddOns : st.manifest[a] = None
        /\ \A s \in Slots : st.owner[s] = None
    BY <1>1 DEF Empty, Refused
  <2>2. Installations(st) = {}
    BY <2>1 DEF Installations, Installed
  <2>3. Cardinality(Installations(st)) = 0
    BY <2>2, FS_EmptySet
  <2>4. QED
    BY <2>1, <2>2, <2>3, RegistryAssumption DEF WellFormed
<1>2. QED
  BY <1>1

\* The checks do not look at the revision.
LEMMA TransactIsWellFormed ==
  ASSUME NEW next \in State, WellFormed(next), NEW changed, NEW policies,
         Transact(next, changed, policies)
  PROVE  WellFormed(tx'.next)
<1>1. tx'.next = [next EXCEPT !.revision = state.revision + 1]
  BY DEF Transact
<1>2. Installations(tx'.next) = Installations(next)
  BY <1>1 DEF Installations, Installed, State
<1>3. QED
  BY <1>1, <1>2 DEF WellFormed, Installed, State

\* A change that leaves the installations alone has only its grants and its
\* owners to answer for.
LEMMA SameInstallations ==
  ASSUME NEW st \in State, NEW next \in State, WellFormed(st),
         next.manifest = st.manifest,
         \A a \in Installations(st) :
            next.grants[a] \subseteq st.manifest[a].requests,
         \A s \in Slots : next.owner[s] # None => Installed(st, next.owner[s])
  PROVE  WellFormed(next)
<1>1. Installations(next) = Installations(st)
  BY DEF Installations, Installed
<1>2. QED
  BY <1>1 DEF WellFormed, Installed

LEMMA InstallIsLoadable ==
  ASSUME TypeOK, WellFormed(state),
         NEW m \in Manifests, NEW enabled \in BOOLEAN, Install(m, enabled)
  PROVE  WellFormed(tx'.next)
<1> DEFINE next == [state EXCEPT
                      !.manifest[m.id] = m,
                      !.enabled = IF enabled THEN @ \cup {m.id} ELSE @ \ {m.id},
                      !.grants[m.id] = {}]
<1>1. m \in ManifestType /\ m.id \in AddOns /\ m # None
  BY PolicyAssumption DEF ManifestType
<1>2. next \in State
  BY <1>1 DEF TypeOK, State
<1>3. /\ next.manifest = [state.manifest EXCEPT ![m.id] = m]
      /\ next.grants = [state.grants EXCEPT ![m.id] = {}]
      /\ next.owner = state.owner
  BY DEF TypeOK, State
<1>4. Installations(next) = Installations(state) \cup {m.id}
  BY <1>1, <1>3 DEF Installations, Installed, TypeOK, State
<1>5. IsFiniteSet(Installations(state))
  BY FS_Subset, RegistryAssumption DEF Installations
<1>6. Cardinality(Installations(next)) <= MaxInstallations
  <2>1. CASE m.id \in Installations(state)
    <3>1. Installations(next) = Installations(state)
      BY <1>4, <2>1
    <3>2. QED
      BY <3>1 DEF WellFormed
  <2>2. CASE m.id \notin Installations(state)
    <3>1. Cardinality(Installations(state)) < MaxInstallations
      BY <1>1, <2>2 DEF Install, HasRoom, Installations
    <3>2. Cardinality(Installations(next)) = Cardinality(Installations(state)) + 1
      BY <1>4, <1>5, <2>2, FS_AddElement
    <3>3. Cardinality(Installations(state)) \in Nat
      BY <1>5, FS_CardinalityType
    <3>4. QED
      BY <3>1, <3>2, <3>3, RegistryAssumption
  <2>3. QED
    BY <2>1, <2>2
<1>7. ASSUME NEW a \in Installations(next)
      PROVE  next.manifest[a].id = a /\ next.grants[a] \subseteq next.manifest[a].requests
  <2>1. CASE a = m.id
    BY <1>1, <1>3, <2>1 DEF TypeOK, State
  <2>2. CASE a # m.id
    <3>1. a \in Installations(state)
      BY <1>4, <2>2
    <3>2. a \in AddOns
      BY <3>1 DEF Installations
    <3>3. next.manifest[a] = state.manifest[a] /\ next.grants[a] = state.grants[a]
      BY <1>3, <2>2, <3>2 DEF TypeOK, State
    <3>4. QED
      BY <3>1, <3>3 DEF WellFormed
  <2>3. QED
    BY <2>1, <2>2
<1>8. ASSUME NEW s \in Slots, next.owner[s] # None
      PROVE  Installed(next, next.owner[s])
  <2>1. state.owner[s] \in AddOns /\ Installed(state, state.owner[s])
    BY <1>3, <1>8 DEF WellFormed, TypeOK, State
  <2>2. QED
    BY <1>1, <1>3, <2>1 DEF Installed, TypeOK, State
<1>9. Transact(next, {}, pendingPolicies)
  BY DEF Install
<1>10. WellFormed(next)
  BY <1>6, <1>7, <1>8 DEF WellFormed
<1> HIDE DEF next
<1>11. QED
  BY <1>2, <1>9, <1>10, TransactIsWellFormed

LEMMA ImportIsLoadable ==
  ASSUME TypeOK, WellFormed(state),
         NEW records \in SUBSET Manifests, ImportLegacy(records)
  PROVE  WellFormed(tx'.next)
<1> DEFINE fresh == { m \in records : ~Installed(state, m.id) }
           Record(a) == CHOOSE m \in fresh : m.id = a
           imported == { m.id : m \in fresh }
           manifests == [a \in AddOns |-> IF a \in imported
                           THEN Record(a) ELSE state.manifest[a]]
           grants == [a \in AddOns |-> IF a \in imported
                        THEN {} ELSE state.grants[a]]
           next == [state EXCEPT !.manifest = manifests,
                                 !.enabled = @ \ imported, !.grants = grants]
<1>1. ASSUME NEW a \in imported
      PROVE  Record(a) \in ManifestType /\ Record(a).id = a /\ Record(a) # None
             /\ a \in AddOns
  <2>1. \E m \in fresh : m.id = a
    OBVIOUS
  <2>2. Record(a) \in fresh /\ Record(a).id = a
    BY <2>1
  <2>3. Record(a) \in ManifestType
    BY <2>2, PolicyAssumption
  <2>4. QED
    BY <2>2, <2>3, PolicyAssumption DEF ManifestType
<1>2. manifests \in [AddOns -> ManifestType \cup {None}]
  <2> HIDE DEF Record, imported
  <2>1. QED
    BY <1>1 DEF TypeOK, State
<1>3. grants \in [AddOns -> SUBSET Caps]
  BY DEF TypeOK, State
<1>4. /\ Transact(next, {}, pendingPolicies)
      /\ Cardinality(Installations(state) \cup imported) <= MaxInstallations
  BY DEF ImportLegacy
<1> HIDE DEF Record, imported
<1>5. next \in State
  <2> HIDE DEF manifests, grants
  <2>1. QED
    BY <1>2, <1>3 DEF TypeOK, State
<1>6. next.manifest = manifests /\ next.grants = grants /\ next.owner = state.owner
  BY DEF TypeOK, State
<1>7. Installations(next) = Installations(state) \cup imported
  BY <1>1, <1>6 DEF Installations, Installed
<1>8. ASSUME NEW a \in Installations(next)
      PROVE  next.manifest[a].id = a /\ next.grants[a] \subseteq next.manifest[a].requests
  <2>1. a \in AddOns
    BY DEF Installations
  <2>2. CASE a \in imported
    BY <1>1, <1>6, <2>1, <2>2
  <2>3. CASE a \notin imported
    <3>1. a \in Installations(state)
      BY <1>7, <2>3
    <3>2. next.manifest[a] = state.manifest[a] /\ next.grants[a] = state.grants[a]
      BY <1>6, <2>1, <2>3
    <3>3. QED
      BY <3>1, <3>2 DEF WellFormed
  <2>4. QED
    BY <2>2, <2>3
<1>9. ASSUME NEW s \in Slots, next.owner[s] # None
      PROVE  Installed(next, next.owner[s])
  <2>1. state.owner[s] \in AddOns /\ Installed(state, state.owner[s])
    BY <1>6, <1>9 DEF WellFormed, TypeOK, State
  <2>2. QED
    BY <1>1, <1>6, <2>1 DEF Installed
<1>10. WellFormed(next)
  BY <1>4, <1>7, <1>8, <1>9 DEF WellFormed
<1> HIDE DEF next
<1>11. QED
  BY <1>4, <1>5, <1>10, TransactIsWellFormed

LEMMA SetGrantsIsLoadable ==
  ASSUME TypeOK, WellFormed(state), NEW a \in AddOns,
         NEW granted \in SUBSET Caps, NEW withdrawn \in SUBSET Caps,
         SetGrants(a, granted, withdrawn)
  PROVE  WellFormed(tx'.next)
<1> DEFINE m       == state.manifest[a]
           after   == (state.grants[a] \cup granted) \ withdrawn
           revoked == withdrawn \cap state.grants[a]
           changed == { s \in Owned(state, a) : HardStop(m, after, revoked, s) }
           next    == [state EXCEPT !.grants[a] = after,
                                    !.generation = Advanced(changed)]
           policies == PoliciesAfter(a, m, after, revoked)
<1>1. /\ CanAdvance(changed) /\ Transact(next, changed, policies)
      /\ Installed(state, a) /\ granted \subseteq m.requests
  BY DEF SetGrants
<1>2. after \in SUBSET m.requests
  BY <1>1 DEF WellFormed, Installations
<1>3. Advanced(changed) \in [Slots -> Counter]
  BY <1>1, AdvancedType DEF Owned
<1>4. after \in SUBSET Caps
  BY DEF TypeOK, State
<1> HIDE DEF changed, after, policies
<1>5. next \in State
  BY <1>3, <1>4 DEF TypeOK, State
<1>6. /\ next.manifest = state.manifest /\ next.owner = state.owner
      /\ next.grants = [state.grants EXCEPT ![a] = after]
  BY DEF TypeOK, State
<1>7. ASSUME NEW b \in Installations(state)
      PROVE  next.grants[b] \subseteq state.manifest[b].requests
  <2>1. /\ state.grants \in [AddOns -> SUBSET Caps] /\ b \in AddOns
        /\ state.grants[b] \subseteq state.manifest[b].requests
    BY DEF WellFormed, Installations, TypeOK, State
  <2> HIDE DEF next, m
  <2>2. next.grants[b] = IF b = a THEN after ELSE state.grants[b]
    BY <1>6, <2>1
  <2>3. QED
    BY <1>2, <2>1, <2>2 DEF m
<1> HIDE DEF next
<1>8. \A s \in Slots : next.owner[s] # None => Installed(state, next.owner[s])
  BY <1>6 DEF WellFormed
<1>9. WellFormed(next)
  BY <1>5, <1>6, <1>7, <1>8, SameInstallations DEF TypeOK
<1>10. QED
  BY <1>1, <1>5, <1>9, TransactIsWellFormed

LEMMA SetEnabledIsLoadable ==
  ASSUME TypeOK, WellFormed(state), NEW a \in AddOns, NEW enabled \in BOOLEAN,
         SetEnabled(a, enabled)
  PROVE  WellFormed(tx'.next)
<1> DEFINE changed == Owned(state, a)
           next    == [state EXCEPT
                         !.enabled = IF enabled THEN @ \cup {a} ELSE @ \ {a},
                         !.generation = Advanced(changed)]
<1>1. CanAdvance(changed) /\ Transact(next, changed, pendingPolicies)
  BY DEF SetEnabled
<1>2. Advanced(changed) \in [Slots -> Counter]
  BY <1>1, AdvancedType DEF Owned
<1> HIDE DEF changed
<1>3. next \in State
  BY <1>2 DEF TypeOK, State
<1>4. /\ next.manifest = state.manifest /\ next.owner = state.owner
      /\ next.grants = state.grants
  BY DEF TypeOK, State
<1> HIDE DEF next
<1>5. WellFormed(next)
  BY <1>3, <1>4, SameInstallations DEF WellFormed, TypeOK
<1>6. QED
  BY <1>1, <1>3, <1>5, TransactIsWellFormed

LEMMA AssignSlotIsLoadable ==
  ASSUME TypeOK, WellFormed(state), NEW slot \in Slots, NEW a \in AddOns \cup {None},
         NEW replace \in BOOLEAN, AssignSlot(slot, a, replace)
  PROVE  WellFormed(tx'.next)
<1> DEFINE next == [state EXCEPT !.owner[slot] = a,
                                 !.generation = Advanced({slot}),
                                 !.governed = @ \/ slot = Primary]
<1>1. /\ CanAdvance({slot}) /\ Transact(next, {slot}, pendingPolicies)
      /\ a # None => Installed(state, a)
  BY DEF AssignSlot, Eligible
<1>2. Advanced({slot}) \in [Slots -> Counter]
  BY <1>1, AdvancedType
<1>3. next \in State
  BY <1>2 DEF TypeOK, State
<1>4. /\ next.manifest = state.manifest /\ next.grants = state.grants
      /\ next.owner = [state.owner EXCEPT ![slot] = a]
  BY DEF TypeOK, State
<1>5. ASSUME NEW s \in Slots, next.owner[s] # None
      PROVE  Installed(state, next.owner[s])
  BY <1>1, <1>4, <1>5 DEF WellFormed, TypeOK, State
<1> HIDE DEF next
<1>6. WellFormed(next)
  BY <1>3, <1>4, <1>5, SameInstallations DEF WellFormed, TypeOK
<1>7. QED
  BY <1>1, <1>3, <1>6, TransactIsWellFormed

LEMMA RemoveIsLoadable ==
  ASSUME TypeOK, WellFormed(state), NEW a \in AddOns, Remove(a)
  PROVE  WellFormed(tx'.next)
<1> DEFINE next == [state EXCEPT !.manifest[a] = None, !.enabled = @ \ {a},
                                 !.grants[a] = {}]
<1>1. Transact(next, {}, pendingPolicies) /\ OwnsNothing(a)
  BY DEF Remove
<1>2. next \in State
  BY DEF TypeOK, State
<1>3. /\ next.manifest = [state.manifest EXCEPT ![a] = None]
      /\ next.grants = [state.grants EXCEPT ![a] = {}]
      /\ next.owner = state.owner
  BY DEF TypeOK, State
<1>4. Installations(next) \subseteq Installations(state)
  BY <1>3 DEF Installations, Installed, TypeOK, State
<1>5. Cardinality(Installations(next)) <= MaxInstallations
  <2>1. IsFiniteSet(Installations(state))
    BY FS_Subset, RegistryAssumption DEF Installations
  <2>2. /\ Cardinality(Installations(next)) <= Cardinality(Installations(state))
        /\ IsFiniteSet(Installations(next))
    BY <1>4, <2>1, FS_Subset
  <2>3. /\ Cardinality(Installations(next)) \in Nat
        /\ Cardinality(Installations(state)) \in Nat
    BY <2>1, <2>2, FS_CardinalityType
  <2>4. Cardinality(Installations(state)) <= MaxInstallations
    BY DEF WellFormed
  <2>5. QED
    BY <2>2, <2>3, <2>4, RegistryAssumption
<1>6. ASSUME NEW b \in Installations(next)
      PROVE  next.manifest[b].id = b /\ next.grants[b] \subseteq next.manifest[b].requests
  <2>1. b # a /\ b \in Installations(state)
    BY <1>3, <1>4 DEF Installations, Installed, TypeOK, State
  <2>2. QED
    BY <1>3, <2>1 DEF WellFormed, Installations, TypeOK, State
<1>7. ASSUME NEW s \in Slots, next.owner[s] # None
      PROVE  Installed(next, next.owner[s])
  <2>1. /\ state.owner[s] \in AddOns /\ state.owner[s] # a
        /\ Installed(state, state.owner[s])
    BY <1>1, <1>3, <1>7 DEF OwnsNothing, Owned, WellFormed, TypeOK, State
  <2>2. QED
    BY <1>3, <2>1 DEF Installed, TypeOK, State
<1>8. WellFormed(next)
  BY <1>5, <1>6, <1>7 DEF WellFormed
<1> HIDE DEF next
<1>9. QED
  BY <1>1, <1>2, <1>8, TransactIsWellFormed

\* Neither the migration nor the vacating of slots makes a loaded state
\* unloadable.
LEMMA RepairIsLoadable ==
  ASSUME NEW st \in State, WellFormed(st)
  PROVE  WellFormed(Repaired(st))
<1> DEFINE M   == Migrated(st)
           bad == Understated(M)
           manifests == [a \in AddOns |->
              IF Installed(st, a) THEN MigrateManifest(st.manifest[a]) ELSE None]
           own == [s \in Slots |-> IF st.owner[s] \in bad THEN None ELSE st.owner[s]]
<1>1. /\ Repaired(st).manifest = manifests
      /\ Repaired(st).grants = st.grants
      /\ Repaired(st).owner = own
  BY MigratedType DEF Repaired, Migrated, State
<1>2. ASSUME NEW a \in AddOns, Installed(st, a)
      PROVE  /\ st.manifest[a] \in ManifestType
             /\ manifests[a] # None
             /\ manifests[a].id = st.manifest[a].id
             /\ st.manifest[a].requests \subseteq manifests[a].requests
  <2>1. st.manifest[a] \in ManifestType
    BY <1>2 DEF Installed, State
  <2>2. manifests[a] = MigrateManifest(st.manifest[a])
    BY <1>2
  <2>3. MigrateManifest(st.manifest[a]) # None
    BY <2>1, MigrateType, PolicyAssumption
  <2>4. /\ MigrateManifest(st.manifest[a]).id = st.manifest[a].id
        /\ st.manifest[a].requests \subseteq MigrateManifest(st.manifest[a]).requests
    BY <2>1 DEF MigrateManifest, ManifestType
  <2>5. QED
    BY <2>1, <2>2, <2>3, <2>4
<1> HIDE DEF bad
<1>3. Installations(Repaired(st)) = Installations(st)
  BY <1>1, <1>2 DEF Installations, Installed
<1>4. ASSUME NEW a \in Installations(st)
      PROVE  manifests[a].id = a /\ st.grants[a] \subseteq manifests[a].requests
  <2>1. a \in AddOns /\ Installed(st, a)
    BY DEF Installations
  <2>2. st.manifest[a].id = a /\ st.grants[a] \subseteq st.manifest[a].requests
    BY DEF WellFormed
  <2> HIDE DEF manifests
  <2>3. QED
    BY <1>2, <2>1, <2>2
<1>5. ASSUME NEW s \in Slots, own[s] # None
      PROVE  Installed(Repaired(st), own[s])
  <2>1. own[s] = st.owner[s] /\ st.owner[s] \in AddOns /\ Installed(st, st.owner[s])
    BY <1>5 DEF WellFormed, State
  <2>2. QED
    BY <1>1, <1>2, <2>1 DEF Installed
<1> HIDE DEF manifests, own
<1>6. QED
  BY <1>1, <1>3, <1>4, <1>5 DEF WellFormed

LEMMA LoadableInit == Init => LoadableInv
<1> SUFFICES ASSUME Init PROVE LoadableInv
  OBVIOUS
<1>1. WellFormed(document.state)
  BY EmptyIsWellFormed, RegistryAssumption DEF Init, Document
<1>2. QED
  BY <1>1, EmptyIsWellFormed, InitType
     DEF Init, LoadableInv, StatesAreLoadable, Idle, Document

LEMMA LoadableStep == LoadableInv /\ [Next]_vars => LoadableInv'
<1> SUFFICES ASSUME LoadableInv, [Next]_vars
             PROVE  StatesAreLoadable' /\ WellFormed(backup.state)'
  BY NextType DEF LoadableInv
<1>1. /\ TypeOK
      /\ WellFormed(state) /\ WellFormed(document.state)
      /\ WellFormed(tx.next) /\ WellFormed(backup.state)
  BY DEF LoadableInv, StatesAreLoadable
<1>2. SUFFICES WellFormed(state') /\ WellFormed(document'.state)
               /\ WellFormed(tx'.next) /\ WellFormed(backup'.state)
  BY DEF StatesAreLoadable, WellFormed, Installations, Installed
<1>3. CASE Request
  <2>1. WellFormed(tx'.next)
    BY <1>1, <1>3, InstallIsLoadable, ImportIsLoadable, SetGrantsIsLoadable,
       SetEnabledIsLoadable, AssignSlotIsLoadable, RemoveIsLoadable DEF Request
  <2>2. \E next, changed, policies : Transact(next, changed, policies)
    BY <1>3, RequestTransacts
  <2>3. UNCHANGED << document, backup, state >>
    BY <2>2 DEF Transact, disk
  <2>4. QED
    BY <1>1, <2>1, <2>3
<1>4. CASE Observe
  BY <1>1, <1>4 DEF Observe, disk, process
<1>5. CASE Progress
  <2>1. /\ Document("pending", tx.next).state = tx.next
        /\ Document("committed", tx.next).state = tx.next
        /\ Idle.next = Empty
    BY DEF Document, Idle
  <2>2. \A stage : Advance(stage) => tx'.next = tx.next
    BY <1>1 DEF Advance, TypeOK
  <2>3. tx'.next \in {tx.next, Empty}
    BY <1>5, <2>1, <2>2 DEF Progress, WritePending, CleanupSettled,
       CleanupRejected, WriteCommitted, WriteFails, RaiseWatermark, RaiseFails,
       Finish, Abort
  <2>4. document'.state \in {document.state, tx.next}
    BY <1>5, <2>1 DEF Progress, WritePending, CleanupSettled,
       CleanupRejected, WriteCommitted, WriteFails, RaiseWatermark, RaiseFails,
       Finish, disk
  <2>5. state' \in {state, tx.next} /\ backup' = backup
    BY <1>5 DEF Progress, WritePending, CleanupSettled,
       CleanupRejected, WriteCommitted, WriteFails, RaiseWatermark, RaiseFails,
       Finish, Abort, disk
  <2>6. QED
    BY <1>1, <2>3, <2>4, <2>5, EmptyIsWellFormed
<1>6. CASE Boot
  <2>1. WellFormed(state')
    <3>1. CASE BootFresh
      <4>1. /\ state'.manifest = Empty.manifest /\ state'.grants = Empty.grants
            /\ state'.owner = Empty.owner
        BY <3>1 DEF BootFresh, Empty
      <4>2. Installations(state') = Installations(Empty)
        BY <4>1 DEF Installations, Installed
      <4>3. QED
        BY <4>1, <4>2, EmptyIsWellFormed DEF WellFormed, Installed
    <3>2. CASE BootCommitted \/ BootPending
      BY <1>1, <3>2, RepairIsLoadable
         DEF BootCommitted, BootPending, TypeOK, DocumentType
    <3>3. CASE BootRefused
      BY <3>3, EmptyIsWellFormed DEF BootRefused
    <3>4. QED
      BY <1>6, <3>1, <3>2, <3>3 DEF Boot
  <2>2. QED
    BY <1>1, <1>6, <2>1, EmptyIsWellFormed DEF Boot, Idle
<1>7. CASE Environment
  <2>1. \A kind : Document(kind, Empty).state = Empty
    BY DEF Document
  <2>2. CASE Crash
    BY <1>1, <2>2, EmptyIsWellFormed DEF Crash, Idle, disk
  <2>3. CASE CopyDocument \/ RestoreDocument \/ DamageFile \/ DeleteDocument
    BY <1>1, <2>1, <2>3, EmptyIsWellFormed
       DEF CopyDocument, RestoreDocument, DamageFile, DeleteDocument, process
  <2>4. QED
    BY <1>7, <2>2, <2>3 DEF Environment
<1>8. CASE UNCHANGED vars
  BY <1>1, <1>8 DEF vars, disk, process
<1>9. QED
  BY <1>3, <1>4, <1>5, <1>6, <1>7, <1>8 DEF Next

\* The registry never locks itself out: whatever was installed, imported,
\* granted, assigned or removed, and whatever earlier state was loaded and
\* repaired, what it writes passes the checks of the next boot.
THEOREM Loadable == Spec => []StatesAreLoadable
<1>1. LoadableInv => StatesAreLoadable
  BY DEF LoadableInv
<1>2. QED
  BY LoadableInit, LoadableStep, <1>1, PTL DEF Spec

-----------------------------------------------------------------------------
(***************************************************************************)
(* A withdrawal takes effect before anything is written.                   *)
(***************************************************************************)

\* What an owner's pending policy says while its transaction is under way:
\* what the next grants leave disabled, or nothing when they only grow.
PolicyFollows(a) ==
  IF pendingPolicies[a].active
  THEN pendingPolicies[a].disabledOperations
         = DisabledOperations(state.manifest[a], tx.next.grants[a])
  ELSE state.grants[a] \subseteq tx.next.grants[a]

PoliciesFollow ==
  Serving =>
    IF tx.stage = "idle"
    THEN \A a \in AddOns : ~pendingPolicies[a].active
    ELSE \A a \in AddOns : Owned(state, a) # {} => PolicyFollows(a)

WithdrawalInv == LoadableInv /\ PoliciesFollow

LEMMA OwnersAreInstalled ==
  ASSUME LoadableInv, NEW a \in AddOns, Owned(state, a) # {}
  PROVE  Installed(state, a)
<1>1. PICK s \in Slots : state.owner[s] = a
  BY DEF Owned
<1>2. WellFormed(state) /\ a # None
  BY PolicyAssumption DEF LoadableInv, StatesAreLoadable
<1>3. QED
  BY <1>1, <1>2 DEF WellFormed

\* A request whose grants only grow where the policy stays silent.
LEMMA RequestFollows ==
  ASSUME WithdrawalInv, NEW next \in State, NEW changed, NEW policies, Serving,
         Transact(next, changed, policies),
         \A a \in AddOns : Owned(state, a) # {} =>
            IF policies[a].active
            THEN policies[a].disabledOperations
                   = DisabledOperations(state.manifest[a], next.grants[a])
            ELSE state.grants[a] \subseteq next.grants[a]
  PROVE  PoliciesFollow'
<1>1. /\ tx'.next.grants = next.grants /\ tx'.stage = "pending"
      /\ pendingPolicies' = policies /\ state' = state
  BY DEF Transact, State
<1>2. ASSUME NEW a \in AddOns, Owned(state, a) # {}
      PROVE  PolicyFollows(a)'
  BY <1>1, <1>2 DEF PolicyFollows
<1>3. QED
  BY <1>1, <1>2 DEF PoliciesFollow, Owned

LEMMA WithdrawalInit == Init => WithdrawalInv
<1>1. Init => PoliciesFollow
  BY DEF Init, PoliciesFollow, Serving
<1>2. QED
  BY <1>1, LoadableInit DEF WithdrawalInv

LEMMA RequestKeepsPolicies ==
  ASSUME WithdrawalInv, Request
  PROVE  PoliciesFollow'
<1> USE DEF WithdrawalInv
<1>1. TypeOK /\ WellFormed(state)
  BY DEF LoadableInv, StatesAreLoadable
<1>2. Serving /\ \A a \in AddOns : ~pendingPolicies[a].active
  BY RequestTransacts DEF Ready, PoliciesFollow
<1>3. CASE \E m \in Manifests, enabled \in BOOLEAN : Install(m, enabled)
  <2> PICK m \in Manifests, enabled \in BOOLEAN : Install(m, enabled)
    BY <1>3
  <2> DEFINE next == [state EXCEPT
                        !.manifest[m.id] = m,
                        !.enabled = IF enabled THEN @ \cup {m.id} ELSE @ \ {m.id},
                        !.grants[m.id] = {}]
  <2>1. m \in ManifestType /\ m.id \in AddOns
    BY PolicyAssumption DEF ManifestType
  <2>2. next \in State /\ next.grants = [state.grants EXCEPT ![m.id] = {}]
    BY <1>1, <2>1 DEF TypeOK, State
  <2>3. Owned(state, m.id) = {} /\ Transact(next, {}, pendingPolicies)
    BY DEF Install, OwnsNothing
  <2> HIDE DEF next
  <2>4. ASSUME NEW a \in AddOns, Owned(state, a) # {}
        PROVE  state.grants[a] \subseteq next.grants[a]
    <3>1. state.grants \in [AddOns -> SUBSET Caps]
      BY <1>1 DEF TypeOK, State
    <3>2. a # m.id
      BY <2>3, <2>4
    <3>3. QED
      BY <2>2, <3>1, <3>2
  <2>5. QED
    BY <1>2, <2>2, <2>3, <2>4, RequestFollows
<1>4. CASE \E records \in SUBSET Manifests : ImportLegacy(records)
  <2> PICK records \in SUBSET Manifests : ImportLegacy(records)
    BY <1>4
  <2> DEFINE fresh == { m \in records : ~Installed(state, m.id) }
             Record(a) == CHOOSE m \in fresh : m.id = a
             imported == { m.id : m \in fresh }
             manifests == [a \in AddOns |-> IF a \in imported
                             THEN Record(a) ELSE state.manifest[a]]
             grants == [a \in AddOns |-> IF a \in imported
                          THEN {} ELSE state.grants[a]]
             next == [state EXCEPT !.manifest = manifests,
                                   !.enabled = @ \ imported, !.grants = grants]
  <2>1. Transact(next, {}, pendingPolicies)
    BY DEF ImportLegacy
  <2>2. \A a \in AddOns : Owned(state, a) # {} => a \notin imported
    BY OwnersAreInstalled
  <2>3. next \in State
    <3>1. ASSUME NEW a \in imported PROVE Record(a) \in ManifestType
      <4>1. \E m \in fresh : m.id = a
        OBVIOUS
      <4>2. Record(a) \in fresh
        BY <4>1
      <4>3. QED
        BY <4>2, PolicyAssumption
    <3> HIDE DEF Record, imported
    <3>2. manifests \in [AddOns -> ManifestType \cup {None}]
      BY <1>1, <3>1 DEF TypeOK, State
    <3>3. grants \in [AddOns -> SUBSET Caps]
      BY <1>1 DEF TypeOK, State
    <3> HIDE DEF manifests, grants
    <3>4. QED
      BY <1>1, <3>2, <3>3 DEF TypeOK, State
  <2>4. next.grants = grants
    BY <1>1 DEF TypeOK, State
  <2> HIDE DEF imported
  <2>5. \A a \in AddOns : Owned(state, a) # {} => next.grants[a] = state.grants[a]
    BY <2>2, <2>4
  <2> HIDE DEF next
  <2>6. QED
    BY <1>2, <2>1, <2>3, <2>5, RequestFollows
<1>5. CASE \E a \in AddOns, granted, withdrawn \in SUBSET Caps :
             SetGrants(a, granted, withdrawn)
  <2> PICK a \in AddOns, granted \in SUBSET Caps, withdrawn \in SUBSET Caps :
             SetGrants(a, granted, withdrawn)
    BY <1>5
  <2> DEFINE m       == state.manifest[a]
             after   == (state.grants[a] \cup granted) \ withdrawn
             revoked == withdrawn \cap state.grants[a]
             changed == { s \in Owned(state, a) : HardStop(m, after, revoked, s) }
             next    == [state EXCEPT !.grants[a] = after,
                                      !.generation = Advanced(changed)]
             policies == PoliciesAfter(a, m, after, revoked)
  <2>1. CanAdvance(changed) /\ Transact(next, changed, policies)
    BY DEF SetGrants
  <2>2. Advanced(changed) \in [Slots -> Counter]
    BY <1>1, <2>1, AdvancedType DEF Owned
  <2>3. after \in SUBSET Caps
    BY <1>1 DEF TypeOK, State
  <2>4. next \in State /\ next.grants = [state.grants EXCEPT ![a] = after]
    <3> HIDE DEF after, changed
    <3>1. QED
      BY <1>1, <2>2, <2>3 DEF TypeOK, State
  <2>5. ASSUME NEW b \in AddOns
        PROVE  IF policies[b].active
               THEN policies[b].disabledOperations
                      = DisabledOperations(state.manifest[b], next.grants[b])
               ELSE state.grants[b] \subseteq next.grants[b]
    <3>1. CASE b # a
      <4>1. policies[b] = pendingPolicies[b] /\ next.grants[b] = state.grants[b]
        BY <1>1, <2>4, <3>1 DEF PoliciesAfter, TypeOK, State
      <4>2. QED
        BY <1>2, <4>1
    <3>2. CASE b = a /\ revoked = {}
      <4>1. policies = pendingPolicies /\ next.grants[a] = after
        BY <1>1, <2>4, <3>2 DEF PoliciesAfter, TypeOK, State
      <4>2. state.grants[a] \subseteq after
        BY <3>2
      <4>3. QED
        BY <1>2, <3>2, <4>1, <4>2
    <3>3. CASE b = a /\ revoked # {}
      <4>1. next.grants[a] = after
        BY <1>1, <2>4 DEF TypeOK, State
      <4>2. policies[a] = [active |-> TRUE,
                           disabledOperations |-> DisabledOperations(m, after)]
        BY <1>1, <3>3 DEF PoliciesAfter, TypeOK
      <4>3. QED
        BY <3>3, <4>1, <4>2
    <3>4. QED
      BY <3>1, <3>2, <3>3
  <2> HIDE DEF next, changed, policies
  <2>6. QED
    BY <1>2, <2>1, <2>4, <2>5, RequestFollows
<1>6. CASE \E a \in AddOns, enabled \in BOOLEAN : SetEnabled(a, enabled)
  <2> PICK a \in AddOns, enabled \in BOOLEAN : SetEnabled(a, enabled)
    BY <1>6
  <2> DEFINE changed == Owned(state, a)
             next    == [state EXCEPT
                           !.enabled = IF enabled THEN @ \cup {a} ELSE @ \ {a},
                           !.generation = Advanced(changed)]
  <2>1. CanAdvance(changed) /\ Transact(next, changed, pendingPolicies)
    BY DEF SetEnabled
  <2>2. Advanced(changed) \in [Slots -> Counter]
    BY <1>1, <2>1, AdvancedType DEF Owned
  <2> HIDE DEF changed
  <2>3. next \in State /\ next.grants = state.grants
    BY <1>1, <2>2 DEF TypeOK, State
  <2> HIDE DEF next
  <2>4. QED
    BY <1>2, <2>1, <2>3, RequestFollows
<1>7. CASE \E s \in Slots, a \in AddOns \cup {None}, replace \in BOOLEAN :
             AssignSlot(s, a, replace)
  <2> PICK s \in Slots, a \in AddOns \cup {None}, replace \in BOOLEAN :
             AssignSlot(s, a, replace)
    BY <1>7
  <2> DEFINE next == [state EXCEPT !.owner[s] = a,
                                   !.generation = Advanced({s}),
                                   !.governed = @ \/ s = Primary]
  <2>1. CanAdvance({s}) /\ Transact(next, {s}, pendingPolicies)
    BY DEF AssignSlot
  <2>2. Advanced({s}) \in [Slots -> Counter]
    BY <1>1, <2>1, AdvancedType
  <2>3. next \in State /\ next.grants = state.grants
    BY <1>1, <2>2 DEF TypeOK, State
  <2> HIDE DEF next
  <2>4. QED
    BY <1>2, <2>1, <2>3, RequestFollows
<1>8. CASE \E a \in AddOns : Remove(a)
  <2> PICK a \in AddOns : Remove(a)
    BY <1>8
  <2> DEFINE next == [state EXCEPT !.manifest[a] = None, !.enabled = @ \ {a},
                                   !.grants[a] = {}]
  <2>1. Owned(state, a) = {} /\ Transact(next, {}, pendingPolicies)
    BY DEF Remove, OwnsNothing
  <2>2. next \in State /\ next.grants = [state.grants EXCEPT ![a] = {}]
    BY <1>1 DEF TypeOK, State
  <2>3. \A b \in AddOns : Owned(state, b) # {} => state.grants[b] \subseteq next.grants[b]
    BY <1>1, <2>1, <2>2 DEF TypeOK, State
  <2> HIDE DEF next
  <2>4. QED
    BY <1>2, <2>1, <2>2, <2>3, RequestFollows
<1>9. QED
  BY <1>3, <1>4, <1>5, <1>6, <1>7, <1>8 DEF Request

LEMMA WithdrawalStep == WithdrawalInv /\ [Next]_vars => WithdrawalInv'
<1> SUFFICES ASSUME WithdrawalInv, [Next]_vars PROVE PoliciesFollow'
  BY LoadableStep DEF WithdrawalInv
<1> USE DEF WithdrawalInv
<1>1. TypeOK
  BY DEF LoadableInv
<1>2. CASE Request
  BY <1>2, RequestKeepsPolicies
<1>3. ASSUME tx'.stage # "idle", tx.stage # "idle", tx'.next = tx.next,
             UNCHANGED << up, disabled, state, pendingPolicies >>
      PROVE  PoliciesFollow'
  BY <1>3 DEF PoliciesFollow, PolicyFollows, Owned, Serving
<1>4. ASSUME tx'.stage = "idle", pendingPolicies' = [a \in AddOns |-> NoPolicy]
      PROVE  PoliciesFollow'
  BY <1>4 DEF PoliciesFollow, NoPolicy
<1>5. CASE Progress
  <2>1. CASE WritePending \/ CleanupSettled \/ WriteCommitted \/ RaiseWatermark
    <3>1. PICK stage \in {"cleanup", "commit", "raise", "finish"} : Advance(stage)
      BY <2>1 DEF WritePending, CleanupSettled, WriteCommitted, RaiseWatermark
    <3>2. tx'.stage = stage /\ tx'.next = tx.next
      BY <1>1, <3>1 DEF Advance, TypeOK
    <3>3. tx.stage # "idle"
      BY <2>1 DEF WritePending, CleanupSettled, WriteCommitted, RaiseWatermark
    <3>4. UNCHANGED << up, disabled, state, pendingPolicies >>
      BY <2>1 DEF WritePending, CleanupSettled, WriteCommitted, RaiseWatermark
    <3>5. QED
      BY <1>3, <3>2, <3>3, <3>4
  <2>2. CASE CleanupRejected \/ WriteFails \/ RaiseFails
    <3>1. disabled'
      BY <2>2 DEF CleanupRejected, WriteFails, RaiseFails, Abort
    <3>2. QED
      BY <3>1 DEF PoliciesFollow, Serving
  <2>3. CASE Finish
    BY <1>4, <2>3 DEF Finish, Idle
  <2>4. QED
    BY <1>5, <2>1, <2>2, <2>3 DEF Progress
<1>6. CASE Boot
  BY <1>4, <1>6 DEF Boot, Idle
<1>7. CASE Environment
  <2>1. CASE Crash
    BY <2>1 DEF Crash, PoliciesFollow, Serving
  <2>2. CASE CopyDocument \/ RestoreDocument \/ DamageFile \/ DeleteDocument
    BY <2>2 DEF CopyDocument, RestoreDocument, DamageFile, DeleteDocument,
                process, PoliciesFollow, PolicyFollows, Owned, Serving
  <2>3. QED
    BY <1>7, <2>1, <2>2 DEF Environment
<1>8. CASE Observe \/ UNCHANGED vars
  BY <1>8 DEF Observe, vars, disk, process, PoliciesFollow, PolicyFollows,
              Owned, Serving
<1>9. QED
  BY <1>2, <1>5, <1>6, <1>7, <1>8 DEF Next

LEMMA WithdrawalHolds == WithdrawalInv => WithdrawalIsImmediate
<1> SUFFICES ASSUME WithdrawalInv,
                    NEW s \in Slots, NEW a \in AddOns, NEW op \in Ops,
                    OperationAllowed(s, a, op)
             PROVE  OperationDependencies(state.manifest[a], op)
                      \subseteq DecidedGrants(a)
  BY DEF WithdrawalIsImmediate
<1>1. /\ Serving /\ a \in state.enabled /\ Owned(state, a) # {}
      /\ op \in state.manifest[a].supported
      /\ op \notin ProjectedDisabled(a)
  BY DEF OperationAllowed, Authorized, Eligible, Owned
<1>2. IF pendingPolicies[a].active
      THEN op \notin pendingPolicies[a].disabledOperations
      ELSE op \notin DisabledOperations(state.manifest[a], state.grants[a])
  BY <1>1 DEF ProjectedDisabled, Serving
<1>3. ASSUME NEW granted, op \notin DisabledOperations(state.manifest[a], granted)
      PROVE  OperationDependencies(state.manifest[a], op) \subseteq granted
  BY <1>1, <1>3 DEF DisabledOperations
<1>4. CASE tx.stage = "idle"
  <2>1. ~pendingPolicies[a].active
    BY <1>1, <1>4 DEF WithdrawalInv, PoliciesFollow
  <2>2. QED
    BY <1>2, <1>3, <1>4, <2>1 DEF DecidedGrants
<1>5. CASE tx.stage # "idle"
  <2>1. PolicyFollows(a)
    BY <1>1, <1>5 DEF WithdrawalInv, PoliciesFollow
  <2>2. CASE pendingPolicies[a].active
    BY <1>2, <1>3, <1>5, <2>1, <2>2 DEF PolicyFollows, DecidedGrants
  <2>3. CASE ~pendingPolicies[a].active
    BY <1>2, <1>3, <1>5, <2>1, <2>3 DEF PolicyFollows, DecidedGrants
  <2>4. QED
    BY <2>2, <2>3
<1>6. QED
  BY <1>4, <1>5

\* Withdrawing a capability takes effect before anything is written: at every
\* moment an allowed operation rests only on capabilities the operator's last
\* decision, committed or not, leaves granted.
THEOREM WithdrawalTakesEffect == Spec => []WithdrawalIsImmediate
<1>1. QED
  BY WithdrawalInit, WithdrawalStep, WithdrawalHolds, PTL DEF Spec

-----------------------------------------------------------------------------
(***************************************************************************)
(* What a batch of grants may run ahead of.                                *)
(***************************************************************************)

\* A pending policy stands for a transaction that withdraws something from its add-on.
PoliciesWithdraw ==
  Serving => \A a \in AddOns :
    pendingPolicies[a].active => ~(state.grants[a] \subseteq tx.next.grants[a])

BatchInv == WithdrawalInv /\ PoliciesWithdraw

LEMMA BatchInit == Init => BatchInv
<1>1. Init => PoliciesWithdraw
  BY DEF Init, PoliciesWithdraw, Serving
<1>2. QED
  BY <1>1, WithdrawalInit DEF BatchInv

\* Only setGrants leaves a policy, and only with something to revoke.
LEMMA RequestWithdraws ==
  ASSUME BatchInv, Request
  PROVE  PoliciesWithdraw'
<1>1. TypeOK /\ Serving /\ \A a \in AddOns : ~pendingPolicies[a].active
  BY RequestTransacts DEF Ready, BatchInv, WithdrawalInv, LoadableInv, PoliciesFollow
<1>2. CASE pendingPolicies' = pendingPolicies
  BY <1>1, <1>2 DEF PoliciesWithdraw
<1>3. CASE \E a \in AddOns, granted, withdrawn \in SUBSET Caps :
             SetGrants(a, granted, withdrawn)
  <2> PICK a \in AddOns, granted \in SUBSET Caps, withdrawn \in SUBSET Caps :
             SetGrants(a, granted, withdrawn)
    BY <1>3
  <2> DEFINE m       == state.manifest[a]
             after   == (state.grants[a] \cup granted) \ withdrawn
             revoked == withdrawn \cap state.grants[a]
             changed == { s \in Owned(state, a) : HardStop(m, after, revoked, s) }
             next    == [state EXCEPT !.grants[a] = after,
                                      !.generation = Advanced(changed)]
             policies == PoliciesAfter(a, m, after, revoked)
  <2>1. CanAdvance(changed) /\ Transact(next, changed, policies)
    BY DEF SetGrants
  <2>2. next \in State /\ next.grants[a] = after
    <3>1. Advanced(changed) \in [Slots -> Counter]
      BY <1>1, <2>1, AdvancedType DEF Owned
    <3>2. after \in SUBSET Caps
      BY <1>1 DEF TypeOK, State
    <3> HIDE DEF after, changed
    <3>3. QED
      BY <1>1, <3>1, <3>2 DEF TypeOK, State
  <2> HIDE DEF next, changed, policies, after
  <2>3. state' = state /\ tx'.next.grants[a] = after /\ pendingPolicies' = policies
    BY <2>1, <2>2 DEF Transact, State
  <2> USE DEF policies, after
  <2>4. CASE revoked = {}
    BY <1>2, <2>3, <2>4 DEF PoliciesAfter
  <2>5. CASE revoked # {}
    <3>1. \A b \in AddOns : policies[b].active => b = a
      BY <1>1, <2>5 DEF PoliciesAfter, TypeOK
    <3>2. ~(state.grants[a] \subseteq after)
      BY <2>5
    <3> HIDE DEF policies, after
    <3>3. QED
      BY <2>3, <3>1, <3>2 DEF PoliciesWithdraw
  <2>6. QED
    BY <2>4, <2>5
<1>4. ASSUME NEW m \in Manifests, NEW enabled \in BOOLEAN, Install(m, enabled)
      PROVE  pendingPolicies' = pendingPolicies
  BY <1>4 DEF Install, Transact
<1>5. ASSUME NEW records \in SUBSET Manifests, ImportLegacy(records)
      PROVE  pendingPolicies' = pendingPolicies
  BY <1>5, Zenon DEF ImportLegacy, Transact
<1>6. ASSUME NEW a \in AddOns, NEW enabled \in BOOLEAN, SetEnabled(a, enabled)
      PROVE  pendingPolicies' = pendingPolicies
  BY <1>6, Zenon DEF SetEnabled, Transact
<1>7. ASSUME NEW s \in Slots, NEW a \in AddOns \cup {None}, NEW replace \in BOOLEAN,
             AssignSlot(s, a, replace)
      PROVE  pendingPolicies' = pendingPolicies
  BY <1>7, Zenon DEF AssignSlot, Transact
<1>8. ASSUME NEW a \in AddOns, Remove(a)
      PROVE  pendingPolicies' = pendingPolicies
  BY <1>8, Zenon DEF Remove, Transact
<1>9. QED
  BY <1>2, <1>3, <1>4, <1>5, <1>6, <1>7, <1>8 DEF Request

LEMMA BatchStep == BatchInv /\ [Next]_vars => BatchInv'
<1> SUFFICES ASSUME BatchInv, [Next]_vars PROVE PoliciesWithdraw'
  BY WithdrawalStep DEF BatchInv
<1>1. TypeOK
  BY DEF BatchInv, WithdrawalInv, LoadableInv
<1>2. CASE Request
  BY <1>2, RequestWithdraws
<1>3. ASSUME tx'.next = tx.next, UNCHANGED << up, disabled, state, pendingPolicies >>
      PROVE  PoliciesWithdraw'
  BY <1>3 DEF PoliciesWithdraw, BatchInv, Serving
<1>4. ASSUME pendingPolicies' = [a \in AddOns |-> NoPolicy]
      PROVE  PoliciesWithdraw'
  BY <1>4 DEF PoliciesWithdraw, NoPolicy
<1>5. CASE Progress
  <2>1. CASE WritePending \/ CleanupSettled \/ WriteCommitted \/ RaiseWatermark
    <3>1. PICK stage : Advance(stage)
      BY <2>1 DEF WritePending, CleanupSettled, WriteCommitted, RaiseWatermark
    <3>2. tx'.next = tx.next
      BY <1>1, <3>1 DEF Advance, TypeOK
    <3>3. UNCHANGED << up, disabled, state, pendingPolicies >>
      BY <2>1 DEF WritePending, CleanupSettled, WriteCommitted, RaiseWatermark
    <3>4. QED
      BY <1>3, <3>2, <3>3
  <2>2. CASE CleanupRejected \/ WriteFails \/ RaiseFails
    <3>1. disabled'
      BY <2>2 DEF CleanupRejected, WriteFails, RaiseFails, Abort
    <3>2. QED
      BY <3>1 DEF PoliciesWithdraw, Serving
  <2>3. CASE Finish
    BY <1>4, <2>3 DEF Finish
  <2>4. QED
    BY <1>5, <2>1, <2>2, <2>3 DEF Progress
<1>6. CASE Boot
  BY <1>4, <1>6 DEF Boot
<1>7. CASE Environment
  <2>1. CASE Crash
    BY <1>4, <2>1 DEF Crash
  <2>2. CASE CopyDocument \/ RestoreDocument \/ DamageFile \/ DeleteDocument
    BY <1>3, <2>2 DEF CopyDocument, RestoreDocument, DamageFile, DeleteDocument, process
  <2>3. QED
    BY <1>7, <2>1, <2>2 DEF Environment
<1>8. CASE Observe \/ UNCHANGED vars
  BY <1>3, <1>8 DEF Observe, vars, disk, process
<1>9. QED
  BY <1>2, <1>5, <1>6, <1>7, <1>8 DEF Next

\* An operation that rests on a grant not committed yet rests on the one decision under
\* way, and that decision also withdraws something from the add-on: a batch that only
\* grants is in force when it is committed, and not before.
OnlyMixedBatchesRunAhead ==
  \A s \in Slots, a \in AddOns, op \in Ops :
    LET needs == OperationDependencies(state.manifest[a], op)
    IN  OperationAllowed(s, a, op) /\ ~(needs \subseteq state.grants[a]) =>
          /\ tx.stage # "idle" /\ needs \subseteq tx.next.grants[a]
          /\ ~(state.grants[a] \subseteq tx.next.grants[a])

LEMMA BatchHolds == BatchInv => OnlyMixedBatchesRunAhead
<1> SUFFICES ASSUME BatchInv, NEW s \in Slots, NEW a \in AddOns, NEW op \in Ops,
                    OperationAllowed(s, a, op),
                    ~(OperationDependencies(state.manifest[a], op) \subseteq state.grants[a])
             PROVE  /\ tx.stage # "idle"
                    /\ OperationDependencies(state.manifest[a], op)
                         \subseteq tx.next.grants[a]
                    /\ ~(state.grants[a] \subseteq tx.next.grants[a])
  BY DEF OnlyMixedBatchesRunAhead
<1>1. /\ Serving /\ a \in state.enabled /\ op \in state.manifest[a].supported
      /\ op \notin ProjectedDisabled(a)
  BY DEF OperationAllowed, Authorized, Eligible
<1>2. OperationDependencies(state.manifest[a], op) \subseteq DecidedGrants(a)
  BY WithdrawalHolds DEF BatchInv, WithdrawalIsImmediate
<1>3. pendingPolicies[a].active
  <2>1. SUFFICES ASSUME ~pendingPolicies[a].active PROVE FALSE
    OBVIOUS
  <2>2. op \notin DisabledOperations(state.manifest[a], state.grants[a])
    BY <1>1, <2>1 DEF ProjectedDisabled, Serving
  <2>3. QED
    BY <1>1, <2>2 DEF DisabledOperations
<1>4. tx.stage # "idle" /\ ~(state.grants[a] \subseteq tx.next.grants[a])
  BY <1>1, <1>3 DEF BatchInv, WithdrawalInv, PoliciesFollow, PoliciesWithdraw
<1>5. QED
  BY <1>2, <1>4 DEF DecidedGrants

\* What holds of the promise of "atomic explicit grant batches"
\* (docs/architecture/MODULE-OWNERSHIP.md:49): only a batch that withdraws as well is in
\* force before it is committed, for any add-ons, capabilities, failing writes and crashes.
THEOREM PureGrantsWait == Spec => []OnlyMixedBatchesRunAhead
<1>1. QED
  BY BatchInit, BatchStep, BatchHolds, PTL DEF Spec

(***************************************************************************)
(* The shape of a transaction: what every request asks for, and what the   *)
(* disk holds while it is carried out.                                     *)
(***************************************************************************)

\* No installed manifest waits for the migration.
Settled(st) ==
  \A a \in AddOns : Installed(st, a) => ~NeedsRuntimeRequest(st.manifest[a])

\* Outside the slots a transaction changes nobody gains, loses or redefines a
\* slot; the slots it changes enter their next generation.
Succeeds(nx, st, changed) ==
  /\ nx.revision = st.revision + 1
  /\ Settled(nx)
  /\ st.governed => nx.governed
  /\ \A s \in Slots :
       IF s \in changed THEN nx.generation[s] = st.generation[s] + 1
       ELSE /\ nx.generation[s] = st.generation[s]
            /\ nx.owner[s] = st.owner[s]
            /\ st.owner[s] # None =>
                 nx.manifest[st.owner[s]] = st.manifest[st.owner[s]]

LEMMA SubmittedAreSettled ==
  ASSUME NEW m \in Manifests
  PROVE  ~NeedsRuntimeRequest(m)
  BY PolicyAssumption, SubmittedAssumption DEF NeedsRuntimeRequest, ManifestType

\* Migration changes nothing in a settled state, and always settles one.
LEMMA SettledIsMigrated ==
  ASSUME NEW st \in State, Settled(st)
  PROVE  Migrated(st) = st
<1>1. [a \in AddOns |-> IF Installed(st, a) THEN MigrateManifest(st.manifest[a]) ELSE None]
        = st.manifest
  BY DEF State, Settled, Installed, MigrateManifest
<1>2. QED
  BY <1>1 DEF Migrated, State

LEMMA MigratedFields ==
  ASSUME NEW st \in State
  PROVE  /\ Migrated(st).revision = st.revision
         /\ Migrated(st).governed = st.governed
         /\ Migrated(st).enabled = st.enabled
         /\ Migrated(st).grants = st.grants
         /\ Migrated(st).owner = st.owner
         /\ Migrated(st).generation = st.generation
         /\ Migrated(st).manifest = [a \in AddOns |->
              IF Installed(st, a) THEN MigrateManifest(st.manifest[a]) ELSE None]
  BY DEF Migrated, State

LEMMA RepairedFields ==
  ASSUME NEW st \in State
  PROVE  /\ Repaired(st).revision = st.revision
         /\ Repaired(st).governed = st.governed
         /\ Repaired(st).grants = st.grants
         /\ Repaired(st).manifest = Migrated(st).manifest
         /\ Repaired(st).owner = [s \in Slots |->
              IF st.owner[s] \in Understated(Migrated(st)) THEN None ELSE st.owner[s]]
         /\ Repaired(st).generation = [s \in Slots |->
              IF st.owner[s] \in Understated(Migrated(st))
              THEN st.generation[s] + 1 ELSE st.generation[s]]
<1>1. Migrated(st) \in State
  BY MigratedType
<1>2. QED
  BY <1>1, MigratedFields DEF Repaired, State

LEMMA RepairedIsSettled ==
  ASSUME NEW st \in State
  PROVE  Settled(Repaired(st))
<1> SUFFICES ASSUME NEW a \in AddOns, Installed(Repaired(st), a)
             PROVE  ~NeedsRuntimeRequest(Repaired(st).manifest[a])
  BY DEF Settled
<1>0. Repaired(st).manifest = Migrated(st).manifest
  BY RepairedFields
<1>1. Repaired(st).manifest[a] =
        IF Installed(st, a) THEN MigrateManifest(st.manifest[a]) ELSE None
  <2>1. Migrated(st).manifest = [b \in AddOns |->
          IF Installed(st, b) THEN MigrateManifest(st.manifest[b]) ELSE None]
    BY MigratedFields
  <2>2. QED
    BY <1>0, <2>1
<1>2. Installed(st, a) /\ Repaired(st).manifest[a] = MigrateManifest(st.manifest[a])
  BY <1>1 DEF Installed
<1>3. st.manifest[a] \in ManifestType
  BY <1>2 DEF Installed, State
<1>4. ~NeedsRuntimeRequest(MigrateManifest(st.manifest[a]))
  BY <1>3 DEF MigrateManifest, NeedsRuntimeRequest, ManifestType
<1>5. QED
  BY <1>2, <1>4

LEMMA EmptyIsSettled ==
  ASSUME NEW st, st.manifest = [a \in AddOns |-> None]
  PROVE  Settled(st)
  BY DEF Settled, Installed

-----------------------------------------------------------------------------
(***************************************************************************)
(* What each request leaves in the queue, field by field.                  *)
(***************************************************************************)

LEMMA TransactFields ==
  ASSUME NEW next \in State, NEW changed, NEW policies,
         Transact(next, changed, policies)
  PROVE  /\ tx'.stage = "pending" /\ tx'.changed = changed
         /\ tx'.next.revision = state.revision + 1
         /\ tx'.next.governed = next.governed
         /\ tx'.next.manifest = next.manifest
         /\ tx'.next.enabled = next.enabled
         /\ tx'.next.grants = next.grants
         /\ tx'.next.owner = next.owner
         /\ tx'.next.generation = next.generation
         /\ fenced' = fenced \cup changed
         /\ pendingPolicies' = policies
         /\ UNCHANGED << document, watermark, backup, up, bootEpoch, state,
                         disabled, seen, acknowledged, governedOnce, emptied >>
  BY DEF Transact, FencedWith, disk, State

LEMMA InstallFields ==
  ASSUME TypeOK, NEW m \in Manifests, NEW enabled \in BOOLEAN, Install(m, enabled)
  PROVE  /\ m \in ManifestType /\ m.id \in AddOns /\ Owned(state, m.id) = {}
         /\ tx'.changed = {}
         /\ tx'.next.governed = state.governed
         /\ tx'.next.manifest = [state.manifest EXCEPT ![m.id] = m]
         /\ tx'.next.enabled = IF enabled THEN state.enabled \cup {m.id}
                               ELSE state.enabled \ {m.id}
         /\ tx'.next.grants = [state.grants EXCEPT ![m.id] = {}]
         /\ tx'.next.owner = state.owner
         /\ tx'.next.generation = state.generation
         /\ pendingPolicies' = pendingPolicies
         /\ consented' = consented
<1> DEFINE next == [state EXCEPT
                      !.manifest[m.id] = m,
                      !.enabled = IF enabled THEN @ \cup {m.id} ELSE @ \ {m.id},
                      !.grants[m.id] = {}]
<1>1. m \in ManifestType /\ m.id \in AddOns
  BY PolicyAssumption DEF ManifestType
<1>2. next \in State
  BY <1>1 DEF TypeOK, State
<1>3. /\ next.governed = state.governed
      /\ next.manifest = [state.manifest EXCEPT ![m.id] = m]
      /\ next.enabled = IF enabled THEN state.enabled \cup {m.id}
                        ELSE state.enabled \ {m.id}
      /\ next.grants = [state.grants EXCEPT ![m.id] = {}]
      /\ next.owner = state.owner
      /\ next.generation = state.generation
  BY DEF TypeOK, State
<1>4. Transact(next, {}, pendingPolicies) /\ consented' = consented
      /\ Owned(state, m.id) = {}
  BY DEF Install, OwnsNothing
<1> HIDE DEF next
<1>5. QED
  BY <1>1, <1>2, <1>3, <1>4, TransactFields

LEMMA ImportFields ==
  ASSUME TypeOK, NEW records \in SUBSET Manifests, ImportLegacy(records)
  PROVE  /\ tx'.changed = {}
         /\ tx'.next.governed = state.governed
         /\ \A a \in AddOns :
              \/ /\ ~Installed(state, a)
                 /\ tx'.next.manifest[a] \in Manifests
                 /\ a \notin tx'.next.enabled
                 /\ tx'.next.grants[a] = {}
              \/ /\ tx'.next.manifest[a] = state.manifest[a]
                 /\ a \in tx'.next.enabled <=> a \in state.enabled
                 /\ tx'.next.grants[a] = state.grants[a]
         /\ tx'.next.owner = state.owner
         /\ tx'.next.generation = state.generation
         /\ pendingPolicies' = pendingPolicies
         /\ consented' = consented
<1> DEFINE fresh == { m \in records : ~Installed(state, m.id) }
           Record(a) == CHOOSE m \in fresh : m.id = a
           imported == { m.id : m \in fresh }
           manifests == [a \in AddOns |-> IF a \in imported
                           THEN Record(a) ELSE state.manifest[a]]
           grants == [a \in AddOns |-> IF a \in imported
                        THEN {} ELSE state.grants[a]]
           next == [state EXCEPT !.manifest = manifests,
                                 !.enabled = @ \ imported, !.grants = grants]
<1>1. ASSUME NEW a \in imported
      PROVE  Record(a) \in Manifests /\ Record(a) \in ManifestType
             /\ ~Installed(state, a)
  <2>1. \E m \in fresh : m.id = a
    OBVIOUS
  <2>2. Record(a) \in fresh /\ Record(a).id = a
    BY <2>1
  <2>3. QED
    BY <2>2, PolicyAssumption
<1>2. Transact(next, {}, pendingPolicies) /\ consented' = consented
  BY DEF ImportLegacy
<1> HIDE DEF Record, imported
<1>3. manifests \in [AddOns -> ManifestType \cup {None}]
  BY <1>1 DEF TypeOK, State
<1>4. grants \in [AddOns -> SUBSET Caps]
  BY DEF TypeOK, State
<1>5. next \in State
  <2> HIDE DEF manifests, grants
  <2>1. QED
    BY <1>3, <1>4 DEF TypeOK, State
<1>6. /\ next.manifest = manifests /\ next.enabled = state.enabled \ imported
      /\ next.grants = grants /\ next.owner = state.owner
      /\ next.generation = state.generation /\ next.governed = state.governed
  BY DEF TypeOK, State
<1>7. ASSUME NEW a \in AddOns
      PROVE  \/ /\ ~Installed(state, a)
                /\ next.manifest[a] \in Manifests
                /\ a \notin next.enabled
                /\ next.grants[a] = {}
             \/ /\ next.manifest[a] = state.manifest[a]
                /\ a \in next.enabled <=> a \in state.enabled
                /\ next.grants[a] = state.grants[a]
  <2> HIDE DEF next, fresh
  <2>1. /\ next.manifest[a] = IF a \in imported THEN Record(a) ELSE state.manifest[a]
        /\ next.grants[a] = IF a \in imported THEN {} ELSE state.grants[a]
        /\ a \in next.enabled <=> a \in state.enabled /\ a \notin imported
    BY <1>6
  <2> HIDE DEF imported, Record, manifests, grants
  <2>2. CASE a \in imported
    BY <1>1, <2>1, <2>2
  <2>3. CASE a \notin imported
    BY <2>1, <2>3
  <2>4. QED
    BY <2>2, <2>3
<1> HIDE DEF next
<1>8. /\ tx'.changed = {} /\ tx'.next.governed = state.governed
      /\ tx'.next.manifest = next.manifest /\ tx'.next.enabled = next.enabled
      /\ tx'.next.grants = next.grants /\ tx'.next.owner = state.owner
      /\ tx'.next.generation = state.generation /\ pendingPolicies' = pendingPolicies
  BY <1>2, <1>5, <1>6, TransactFields
<1>9. QED
  BY <1>2, <1>7, <1>8

GrantsAfter(a, granted, withdrawn) == (state.grants[a] \cup granted) \ withdrawn
RevokedFrom(a, withdrawn) == withdrawn \cap state.grants[a]

LEMMA SetGrantsFields ==
  ASSUME TypeOK, NEW a \in AddOns,
         NEW granted \in SUBSET Caps, NEW withdrawn \in SUBSET Caps,
         SetGrants(a, granted, withdrawn)
  PROVE  /\ Installed(state, a) /\ state.manifest[a] \in ManifestType
         /\ GrantsAfter(a, granted, withdrawn) \in SUBSET Caps
         /\ tx'.changed = { s \in Owned(state, a) :
              HardStop(state.manifest[a], GrantsAfter(a, granted, withdrawn),
                       RevokedFrom(a, withdrawn), s) }
         /\ tx'.next.governed = state.governed
         /\ tx'.next.manifest = state.manifest
         /\ tx'.next.enabled = state.enabled
         /\ tx'.next.grants[a] = GrantsAfter(a, granted, withdrawn)
         /\ \A b \in AddOns \ {a} : tx'.next.grants[b] = state.grants[b]
         /\ tx'.next.owner = state.owner
         /\ tx'.next.generation = Advanced(tx'.changed)
         /\ pendingPolicies' = PoliciesAfter(a, state.manifest[a],
              GrantsAfter(a, granted, withdrawn), RevokedFrom(a, withdrawn))
         /\ RecordConsent(a, granted)
         /\ seen.revision = state.revision
<1> DEFINE after   == GrantsAfter(a, granted, withdrawn)
           revoked == RevokedFrom(a, withdrawn)
           changed == { s \in Owned(state, a) :
                          HardStop(state.manifest[a], after, revoked, s) }
           next    == [state EXCEPT !.grants[a] = after,
                                    !.generation = Advanced(changed)]
           policies == PoliciesAfter(a, state.manifest[a], after, revoked)
<1>1. /\ CanAdvance(changed) /\ Transact(next, changed, policies)
      /\ Installed(state, a) /\ RecordConsent(a, granted)
      /\ seen.revision = state.revision
  BY DEF SetGrants, CurrentRevision, GrantsAfter, RevokedFrom
<1>2. changed \in SUBSET Slots
  BY DEF Owned
<1>3. Advanced(changed) \in [Slots -> Counter]
  BY <1>1, <1>2, AdvancedType
<1>4. after \in SUBSET Caps /\ state.manifest[a] \in ManifestType
  BY <1>1 DEF TypeOK, State, Installed, GrantsAfter
<1> HIDE DEF changed, policies, after
<1>5. next \in State
  BY <1>3, <1>4 DEF TypeOK, State
<1>6. /\ next.manifest = state.manifest /\ next.enabled = state.enabled
      /\ next.grants[a] = after
      /\ \A b \in AddOns \ {a} : next.grants[b] = state.grants[b]
      /\ next.owner = state.owner /\ next.generation = Advanced(changed)
      /\ next.governed = state.governed
  BY DEF TypeOK, State
<1> HIDE DEF next
<1>7. tx'.changed = changed /\ pendingPolicies' = policies
  BY <1>1, <1>5, TransactFields
<1>8. /\ tx'.next.governed = state.governed
      /\ tx'.next.manifest = state.manifest /\ tx'.next.enabled = state.enabled
      /\ tx'.next.grants[a] = after
      /\ \A b \in AddOns \ {a} : tx'.next.grants[b] = state.grants[b]
      /\ tx'.next.owner = state.owner /\ tx'.next.generation = Advanced(changed)
  BY <1>1, <1>5, <1>6, TransactFields
<1>9. QED
  BY <1>1, <1>4, <1>7, <1>8 DEF changed, policies, after

LEMMA SetEnabledFields ==
  ASSUME TypeOK, NEW a \in AddOns, NEW enabled \in BOOLEAN, SetEnabled(a, enabled)
  PROVE  /\ tx'.changed = Owned(state, a)
         /\ tx'.next.governed = state.governed
         /\ tx'.next.manifest = state.manifest
         /\ tx'.next.enabled = IF enabled THEN state.enabled \cup {a}
                               ELSE state.enabled \ {a}
         /\ tx'.next.grants = state.grants
         /\ tx'.next.owner = state.owner
         /\ tx'.next.generation = Advanced(tx'.changed)
         /\ pendingPolicies' = pendingPolicies
         /\ consented' = consented
<1> DEFINE changed == Owned(state, a)
           next    == [state EXCEPT
                         !.enabled = IF enabled THEN @ \cup {a} ELSE @ \ {a},
                         !.generation = Advanced(changed)]
<1>1. /\ CanAdvance(changed) /\ Transact(next, changed, pendingPolicies)
      /\ consented' = consented
  BY DEF SetEnabled
<1>2. Advanced(changed) \in [Slots -> Counter]
  BY <1>1, AdvancedType DEF Owned
<1> HIDE DEF changed
<1>3. next \in State
  BY <1>2 DEF TypeOK, State
<1>4. /\ next.manifest = state.manifest /\ next.grants = state.grants
      /\ next.enabled = IF enabled THEN state.enabled \cup {a}
                        ELSE state.enabled \ {a}
      /\ next.owner = state.owner /\ next.generation = Advanced(changed)
      /\ next.governed = state.governed
  BY DEF TypeOK, State
<1> HIDE DEF next
<1>5. tx'.changed = changed
  BY <1>1, <1>3, TransactFields
<1>6. QED
  BY <1>1, <1>3, <1>4, <1>5, TransactFields DEF changed

LEMMA AssignSlotFields ==
  ASSUME TypeOK, NEW slot \in Slots, NEW a \in AddOns \cup {None},
         NEW replace \in BOOLEAN, AssignSlot(slot, a, replace)
  PROVE  /\ tx'.changed = {slot}
         /\ tx'.next.governed = (state.governed \/ slot = Primary)
         /\ tx'.next.manifest = state.manifest
         /\ tx'.next.enabled = state.enabled
         /\ tx'.next.grants = state.grants
         /\ tx'.next.owner = [state.owner EXCEPT ![slot] = a]
         /\ tx'.next.generation = Advanced({slot})
         /\ pendingPolicies' = pendingPolicies
         /\ consented' = consented
<1> DEFINE next == [state EXCEPT !.owner[slot] = a,
                                 !.generation = Advanced({slot}),
                                 !.governed = @ \/ slot = Primary]
<1>1. CanAdvance({slot}) /\ Transact(next, {slot}, pendingPolicies)
      /\ consented' = consented
  BY DEF AssignSlot
<1>2. Advanced({slot}) \in [Slots -> Counter]
  BY <1>1, AdvancedType
<1>3. next \in State
  BY <1>2 DEF TypeOK, State
<1>4. /\ next.manifest = state.manifest /\ next.grants = state.grants
      /\ next.enabled = state.enabled
      /\ next.owner = [state.owner EXCEPT ![slot] = a]
      /\ next.generation = Advanced({slot})
      /\ next.governed = (state.governed \/ slot = Primary)
  BY DEF TypeOK, State
<1> HIDE DEF next
<1>5. QED
  BY <1>1, <1>3, <1>4, TransactFields

LEMMA RemoveFields ==
  ASSUME TypeOK, NEW a \in AddOns, Remove(a)
  PROVE  /\ Owned(state, a) = {}
         /\ tx'.changed = {}
         /\ tx'.next.governed = state.governed
         /\ tx'.next.manifest = [state.manifest EXCEPT ![a] = None]
         /\ tx'.next.enabled = state.enabled \ {a}
         /\ tx'.next.grants = [state.grants EXCEPT ![a] = {}]
         /\ tx'.next.owner = state.owner
         /\ tx'.next.generation = state.generation
         /\ pendingPolicies' = pendingPolicies
         /\ consented' = consented
<1> DEFINE next == [state EXCEPT !.manifest[a] = None, !.enabled = @ \ {a},
                                 !.grants[a] = {}]
<1>1. Transact(next, {}, pendingPolicies) /\ consented' = consented
      /\ Owned(state, a) = {}
  BY DEF Remove, OwnsNothing
<1>2. next \in State
  BY DEF TypeOK, State
<1>3. /\ next.manifest = [state.manifest EXCEPT ![a] = None]
      /\ next.enabled = state.enabled \ {a}
      /\ next.grants = [state.grants EXCEPT ![a] = {}]
      /\ next.owner = state.owner /\ next.generation = state.generation
      /\ next.governed = state.governed
  BY DEF TypeOK, State
<1> HIDE DEF next
<1>4. QED
  BY <1>1, <1>2, <1>3, TransactFields

\* Common to all of them.
LEMMA RequestFields ==
  ASSUME TypeOK, Request
  PROVE  /\ Ready
         /\ TypeOK'
         /\ tx'.stage = "pending"
         /\ tx'.next.revision = state.revision + 1
         /\ fenced' = fenced \cup tx'.changed
         /\ UNCHANGED << document, watermark, backup, up, bootEpoch, state,
                         disabled, seen, acknowledged, governedOnce, emptied >>
<1>1. Ready /\ \E next, changed, policies : Transact(next, changed, policies)
  BY RequestTransacts
<1>2. TypeOK'
  BY NextType DEF Next
<1>3. PICK next, changed, policies : Transact(next, changed, policies)
  BY <1>1
<1>4. tx' = [stage |-> "pending",
             next |-> [next EXCEPT !.revision = state.revision + 1],
             changed |-> changed]
  BY <1>3 DEF Transact
<1>5. tx'.next.revision = state.revision + 1
  BY <1>2, <1>4 DEF TypeOK, State
<1>6. QED
  BY <1>1, <1>2, <1>3, <1>4, <1>5 DEF Transact, FencedWith, disk

-----------------------------------------------------------------------------
(***************************************************************************)
(* The commit protocol.                                                    *)
(***************************************************************************)

Underway == tx.stage # "idle"

\* What memory, queue and disk hold while a transaction is carried out.
CommitInv ==
  /\ LoadableInv
  /\ Serving => fenced = tx.changed /\ Settled(state)
  /\ ~Underway => tx = Idle
  /\ Underway => Serving /\ Succeeds(tx.next, state, tx.changed)
  /\ tx.stage \in {"cleanup", "commit"} => document = Document("pending", tx.next)
  /\ tx.stage \in {"raise", "finish"} => document = Document("committed", tx.next)

LEMMA RequestSucceeds ==
  ASSUME LoadableInv, Settled(state), Request
  PROVE  Succeeds(tx'.next, state, tx'.changed)
<1>1. /\ TypeOK /\ tx'.next.revision = state.revision + 1
      /\ \A s \in Slots : state.owner[s] \in AddOns \cup {None}
      /\ \A s \in Slots : state.owner[s] # None => Installed(state, state.owner[s])
  BY RequestFields DEF LoadableInv, StatesAreLoadable, WellFormed, TypeOK, State
<1>2. \A changed : \A s \in Slots : 
        Advanced(changed)[s] = IF s \in changed THEN state.generation[s] + 1
                               ELSE state.generation[s]
  BY DEF Advanced
<1>3. ASSUME NEW m \in Manifests, NEW enabled \in BOOLEAN, Install(m, enabled)
      PROVE  Succeeds(tx'.next, state, tx'.changed)
  <2>1. /\ m.id \in AddOns /\ Owned(state, m.id) = {} /\ tx'.changed = {}
        /\ tx'.next.governed = state.governed
        /\ tx'.next.manifest = [state.manifest EXCEPT ![m.id] = m]
        /\ tx'.next.owner = state.owner /\ tx'.next.generation = state.generation
    BY <1>1, <1>3, InstallFields
  <2>2. Settled(tx'.next)
    BY <1>1, <2>1, SubmittedAreSettled DEF Settled, Installed, TypeOK, State
  <2>3. ASSUME NEW s \in Slots, state.owner[s] # None
        PROVE  tx'.next.manifest[state.owner[s]] = state.manifest[state.owner[s]]
    BY <1>1, <2>1, <2>3 DEF Owned, TypeOK, State
  <2>4. QED
    BY <1>1, <2>1, <2>2, <2>3 DEF Succeeds
<1>4. ASSUME NEW records \in SUBSET Manifests, ImportLegacy(records)
      PROVE  Succeeds(tx'.next, state, tx'.changed)
  <2>1. /\ tx'.changed = {} /\ tx'.next.governed = state.governed
        /\ tx'.next.owner = state.owner /\ tx'.next.generation = state.generation
        /\ \A a \in AddOns :
             \/ ~Installed(state, a) /\ tx'.next.manifest[a] \in Manifests
             \/ tx'.next.manifest[a] = state.manifest[a]
    BY <1>1, <1>4, ImportFields
  <2>2. Settled(tx'.next)
    BY <2>1, SubmittedAreSettled DEF Settled, Installed
  <2>3. QED
    BY <1>1, <2>1, <2>2 DEF Succeeds
<1>5. ASSUME NEW a \in AddOns, NEW granted \in SUBSET Caps,
             NEW withdrawn \in SUBSET Caps, SetGrants(a, granted, withdrawn)
      PROVE  Succeeds(tx'.next, state, tx'.changed)
  <2>1. /\ tx'.next.governed = state.governed
        /\ tx'.next.manifest = state.manifest /\ tx'.next.owner = state.owner
        /\ tx'.next.generation = Advanced(tx'.changed)
    BY <1>1, <1>5, SetGrantsFields
  <2>2. Settled(tx'.next)
    BY <2>1 DEF Settled, Installed
  <2>3. QED
    BY <1>1, <1>2, <2>1, <2>2 DEF Succeeds
<1>6. ASSUME NEW a \in AddOns, NEW enabled \in BOOLEAN, SetEnabled(a, enabled)
      PROVE  Succeeds(tx'.next, state, tx'.changed)
  <2>1. /\ tx'.next.governed = state.governed
        /\ tx'.next.manifest = state.manifest /\ tx'.next.owner = state.owner
        /\ tx'.next.generation = Advanced(tx'.changed)
    BY <1>1, <1>6, SetEnabledFields
  <2>2. Settled(tx'.next)
    BY <2>1 DEF Settled, Installed
  <2>3. QED
    BY <1>1, <1>2, <2>1, <2>2 DEF Succeeds
<1>7. ASSUME NEW slot \in Slots, NEW a \in AddOns \cup {None},
             NEW replace \in BOOLEAN, AssignSlot(slot, a, replace)
      PROVE  Succeeds(tx'.next, state, tx'.changed)
  <2>1. /\ tx'.changed = {slot}
        /\ tx'.next.governed = (state.governed \/ slot = Primary)
        /\ tx'.next.manifest = state.manifest
        /\ tx'.next.owner = [state.owner EXCEPT ![slot] = a]
        /\ tx'.next.generation = Advanced({slot})
    BY <1>1, <1>7, AssignSlotFields
  <2>2. Settled(tx'.next)
    BY <2>1 DEF Settled, Installed
  <2>3. \A s \in Slots \ {slot} : tx'.next.owner[s] = state.owner[s]
    BY <1>1, <2>1 DEF TypeOK, State
  <2>4. state.governed => tx'.next.governed
    BY <2>1, Zenon
  <2>5. ASSUME NEW s \in Slots
        PROVE  IF s \in tx'.changed
               THEN tx'.next.generation[s] = state.generation[s] + 1
               ELSE /\ tx'.next.generation[s] = state.generation[s]
                    /\ tx'.next.owner[s] = state.owner[s]
                    /\ tx'.next.manifest = state.manifest
    BY <1>2, <2>1, <2>3
  <2>6. QED
    BY <1>1, <2>2, <2>4, <2>5 DEF Succeeds
<1>8. ASSUME NEW a \in AddOns, Remove(a)
      PROVE  Succeeds(tx'.next, state, tx'.changed)
  <2>1. /\ Owned(state, a) = {} /\ tx'.changed = {}
        /\ tx'.next.governed = state.governed
        /\ tx'.next.manifest = [state.manifest EXCEPT ![a] = None]
        /\ tx'.next.owner = state.owner /\ tx'.next.generation = state.generation
    BY <1>1, <1>8, RemoveFields
  <2>2. Settled(tx'.next)
    BY <1>1, <2>1 DEF Settled, Installed, TypeOK, State
  <2>3. ASSUME NEW s \in Slots, state.owner[s] # None
        PROVE  tx'.next.manifest[state.owner[s]] = state.manifest[state.owner[s]]
    BY <1>1, <2>1, <2>3 DEF Owned, TypeOK, State
  <2>4. QED
    BY <1>1, <2>1, <2>2, <2>3 DEF Succeeds
<1>9. QED
  BY <1>3, <1>4, <1>5, <1>6, <1>7, <1>8 DEF Request

LEMMA CommitInit == Init => CommitInv
  BY LoadableInit DEF Init, CommitInv, Serving, Underway, Idle

LEMMA CommitStep == CommitInv /\ [Next]_vars => CommitInv'
<1> SUFFICES ASSUME CommitInv, [Next]_vars PROVE CommitInv'
  OBVIOUS
<1>1. LoadableInv /\ LoadableInv' /\ TypeOK /\ TypeOK'
  BY LoadableStep DEF CommitInv, LoadableInv
<1>2. tx \in TxType
  BY <1>1 DEF TypeOK, TxType
<1>3. ASSUME ~up' \/ disabled', tx' = Idle
      PROVE  CommitInv'
  BY <1>1, <1>3 DEF CommitInv, Serving, Underway, Idle
<1>4. CASE Request
  <2>1. Serving /\ tx.stage = "idle"
    BY <1>1, <1>4, RequestFields DEF Ready
  <2>2. Settled(state) /\ fenced = {}
    BY <2>1 DEF CommitInv, Underway, Idle
  <2>3. Succeeds(tx'.next, state, tx'.changed)
    BY <1>1, <1>4, <2>2, RequestSucceeds
  <2>4. /\ tx'.stage = "pending" /\ fenced' = tx'.changed
        /\ UNCHANGED << up, disabled, state >>
    BY <1>1, <1>4, <2>2, RequestFields
  <2>5. QED
    BY <1>1, <2>1, <2>2, <2>3, <2>4 DEF CommitInv, Serving, Underway
<1>5. CASE Progress
  <2>1. CASE WritePending \/ CleanupSettled \/ WriteCommitted \/ RaiseWatermark
    <3>1. /\ tx'.next = tx.next /\ tx'.changed = tx.changed /\ Underway /\ tx'.stage # "idle"
          /\ UNCHANGED << up, disabled, state, fenced >>
      BY <1>2, <2>1 DEF WritePending, CleanupSettled, WriteCommitted,
                        RaiseWatermark, Advance, TxType, Underway
    <3>2. /\ tx'.stage \in {"cleanup", "commit"} => document' = Document("pending", tx'.next)
          /\ tx'.stage \in {"raise", "finish"} => document' = Document("committed", tx'.next)
      BY <1>2, <2>1, <3>1 DEF CommitInv, WritePending, CleanupSettled,
         WriteCommitted, RaiseWatermark, Advance, TxType, disk
    <3>3. QED
      BY <1>1, <3>1, <3>2 DEF CommitInv, Serving, Underway
  <2>2. CASE CleanupRejected \/ WriteFails \/ RaiseFails
    BY <1>3, <2>2 DEF CleanupRejected, WriteFails, RaiseFails, Abort
  <2>3. CASE Finish
    <3>1. /\ tx' = Idle /\ state' = tx.next /\ fenced' = fenced \ tx.changed
          /\ Serving /\ fenced = tx.changed /\ Settled(tx.next)
          /\ UNCHANGED << up, disabled >>
      BY <2>3 DEF Finish, CommitInv, Underway, Succeeds
    <3>2. QED
      BY <1>1, <3>1 DEF CommitInv, Serving, Underway, Idle
  <2>4. QED
    BY <1>5, <2>1, <2>2, <2>3 DEF Progress
<1>6. CASE Boot
  <2>1. tx' = Idle /\ fenced' = {}
    BY <1>6 DEF Boot
  <2>2. ~disabled' => Settled(state')
    <3>1. CASE BootFresh
      <4>1. state'.manifest = [a \in AddOns |-> None]
        BY <3>1 DEF BootFresh, Empty
      <4>2. QED
        BY <4>1, EmptyIsSettled
    <3>2. CASE BootCommitted
      BY <1>1, <3>2, RepairedIsSettled DEF BootCommitted, TypeOK, DocumentType
    <3>3. CASE BootPending \/ BootRefused
      BY <3>3 DEF BootPending, BootRefused
    <3>4. QED
      BY <1>6, <3>1, <3>2, <3>3 DEF Boot
  <2>3. QED
    BY <1>1, <2>1, <2>2 DEF CommitInv, Serving, Underway, Idle
<1>7. CASE Environment
  <2>1. CASE Crash
    BY <1>3, <2>1 DEF Crash
  <2>2. CASE CopyDocument
    BY <1>1, <2>2 DEF CopyDocument, CommitInv, process, Serving, Underway
  <2>3. CASE RestoreDocument \/ DamageFile \/ DeleteDocument
    <3>1. ~up /\ tx' = tx /\ up' = up
      BY <2>3 DEF RestoreDocument, DamageFile, DeleteDocument, process
    <3>2. tx = Idle
      BY <3>1 DEF CommitInv, Serving
    <3>3. QED
      BY <1>3, <3>1, <3>2
  <2>4. QED
    BY <1>7, <2>1, <2>2, <2>3 DEF Environment
<1>8. CASE Observe \/ UNCHANGED vars
  BY <1>1, <1>8 DEF Observe, CommitInv, vars, process, disk, Serving, Underway
<1>9. QED
  BY <1>4, <1>5, <1>6, <1>7, <1>8 DEF Next

-----------------------------------------------------------------------------
(***************************************************************************)
(* No authority is handed out that the disk does not hold.                 *)
(***************************************************************************)

Bootable(doc) == doc.kind \in {"pending", "committed"}

\* The next boot finds the owner and the generation of every slot that is not
\* fenced, unless the repair vacates it.
OnDisk ==
  Serving => \A s \in Slots \ fenced :
    /\ state.owner[s] # None
    /\ UndeclaredCapabilities(state.manifest[state.owner[s]]) = {}
    => /\ Bootable(document)
       /\ Repaired(document.state).owner[s] = state.owner[s]
       /\ Repaired(document.state).generation[s] = state.generation[s]

DurableInv == CommitInv /\ OnDisk

LEMMA RepairKeepsDeclaredOwners ==
  ASSUME NEW st \in State, Settled(st), NEW s \in Slots,
         UndeclaredCapabilities(st.manifest[st.owner[s]]) = {}
  PROVE  /\ Repaired(st).owner[s] = st.owner[s]
         /\ Repaired(st).generation[s] = st.generation[s]
<1>1. Migrated(st) = st
  BY SettledIsMigrated
<1>2. st.owner[s] \notin Understated(st)
  BY DEF Understated
<1>3. /\ Repaired(st).owner = [t \in Slots |->
              IF st.owner[t] \in Understated(Migrated(st)) THEN None ELSE st.owner[t]]
      /\ Repaired(st).generation = [t \in Slots |->
              IF st.owner[t] \in Understated(Migrated(st))
              THEN st.generation[t] + 1 ELSE st.generation[t]]
  BY RepairedFields
<1>4. QED
  BY <1>1, <1>2, <1>3

\* While the document carries the next state, the slots outside the
\* transaction are on disk.
LEMMA WrittenIsOnDisk ==
  CommitInv /\ tx.stage \notin {"idle", "pending"} => OnDisk
<1> SUFFICES ASSUME CommitInv, tx.stage \notin {"idle", "pending"}
             PROVE  OnDisk
  OBVIOUS
<1>1. /\ Underway /\ Serving /\ fenced = tx.changed /\ tx.next \in State
      /\ Succeeds(tx.next, state, tx.changed) /\ Settled(tx.next)
      /\ Bootable(document) /\ document.state = tx.next
  BY DEF CommitInv, Underway, Succeeds, Document, Bootable, LoadableInv, TypeOK, StageType
<1>2. ASSUME NEW s \in Slots \ fenced, state.owner[s] # None,
             UndeclaredCapabilities(state.manifest[state.owner[s]]) = {}
      PROVE  /\ Repaired(tx.next).owner[s] = state.owner[s]
             /\ Repaired(tx.next).generation[s] = state.generation[s]
  <2>1. /\ tx.next.owner[s] = state.owner[s]
        /\ tx.next.generation[s] = state.generation[s]
        /\ tx.next.manifest[state.owner[s]] = state.manifest[state.owner[s]]
    BY <1>1, <1>2 DEF Succeeds
  <2>2. QED
    BY <1>1, <1>2, <2>1, RepairKeepsDeclaredOwners
<1>3. QED
  BY <1>1, <1>2 DEF OnDisk

LEMMA DurableInit == Init => DurableInv
  BY CommitInit DEF Init, DurableInv, OnDisk, Serving

LEMMA DurableStep == DurableInv /\ [Next]_vars => DurableInv'
<1> SUFFICES ASSUME DurableInv, [Next]_vars PROVE OnDisk'
  BY CommitStep DEF DurableInv
<1>1. CommitInv /\ CommitInv' /\ OnDisk /\ TypeOK /\ TypeOK'
  BY CommitStep DEF DurableInv, CommitInv, LoadableInv
<1>2. ASSUME tx'.stage \notin {"idle", "pending"}
      PROVE  OnDisk'
  <2>1. (CommitInv /\ tx.stage \notin {"idle", "pending"} => OnDisk)'
    BY WrittenIsOnDisk, PTL
  <2>2. QED
    BY <1>1, <1>2, <2>1
<1>3. ASSUME ~up' \/ disabled'
      PROVE  OnDisk'
  BY <1>3 DEF OnDisk, Serving
<1>4. CASE Request
  <2>1. /\ fenced \subseteq fenced'
        /\ UNCHANGED << document, up, disabled, state >>
    BY <1>1, <1>4, RequestFields
  <2>2. QED
    BY <1>1, <2>1 DEF OnDisk, Serving
<1>5. CASE Progress
  <2>1. CASE WritePending \/ CleanupSettled \/ WriteCommitted \/ RaiseWatermark
    BY <1>1, <1>2, <2>1 DEF WritePending, CleanupSettled, WriteCommitted,
                            RaiseWatermark, Advance, TypeOK
  <2>2. CASE CleanupRejected \/ WriteFails \/ RaiseFails
    BY <1>3, <2>2 DEF CleanupRejected, WriteFails, RaiseFails, Abort
  <2>3. CASE Finish
    <3>1. /\ state' = tx.next /\ document' = document /\ tx.next \in State
          /\ document = Document("committed", tx.next) /\ Settled(tx.next)
      BY <1>1, <2>3 DEF Finish, CommitInv, Underway, Succeeds, TypeOK, disk
    <3>2. Bootable(document') /\ document'.state = state'
      BY <3>1 DEF Bootable, Document
    <3>3. QED
      BY <3>1, <3>2, RepairKeepsDeclaredOwners DEF OnDisk
  <2>4. QED
    BY <1>5, <2>1, <2>2, <2>3 DEF Progress
<1>6. CASE Boot
  <2>1. CASE BootFresh
    <3>1. \A s \in Slots : state'.owner[s] = None
      BY <2>1 DEF BootFresh, Empty
    <3>2. QED
      BY <3>1 DEF OnDisk
  <2>2. CASE BootCommitted
    <3>1. state' = Repaired(document.state) /\ document' = document
          /\ Bootable(document)
      BY <1>6, <2>2 DEF Boot, BootCommitted, Bootable
    <3>2. QED
      BY <3>1 DEF OnDisk
  <2>3. CASE BootPending \/ BootRefused
    BY <1>3, <2>3 DEF BootPending, BootRefused
  <2>4. QED
    BY <1>6, <2>1, <2>2, <2>3 DEF Boot
<1>7. CASE Environment
  <2>1. CASE Crash
    BY <1>3, <2>1 DEF Crash
  <2>2. CASE CopyDocument
    BY <1>1, <2>2 DEF CopyDocument, process, OnDisk, Serving
  <2>3. CASE RestoreDocument \/ DamageFile \/ DeleteDocument
    BY <1>3, <2>3 DEF RestoreDocument, DamageFile, DeleteDocument, process
  <2>4. QED
    BY <1>7, <2>1, <2>2, <2>3 DEF Environment
<1>8. CASE Observe \/ UNCHANGED vars
  BY <1>1, <1>8 DEF Observe, vars, disk, process, OnDisk, Serving
<1>9. QED
  BY <1>4, <1>5, <1>6, <1>7, <1>8 DEF Next

\* The owner of the primary slot never understates its adapter while it is
\* authorized: its grants cover the floor, and grants are requested.
LEMMA DurableHolds == DurableInv => AuthorityIsDurable
<1> SUFFICES ASSUME DurableInv, NEW s \in Slots, NEW a \in AddOns,
                    Authorized(s, a),
                    s = Primary \/ UndeclaredCapabilities(state.manifest[a]) = {}
             PROVE  /\ document.kind \in {"pending", "committed"}
                    /\ Repaired(document.state).owner[s] = a
                    /\ Repaired(document.state).generation[s] = state.generation[s]
  BY DEF AuthorityIsDurable
<1>1. /\ Serving /\ a # None /\ state.owner[s] = a /\ s \notin fenced
      /\ Eligible(state, a, s)
  BY DEF Authorized
<1>2. UndeclaredCapabilities(state.manifest[a]) = {}
  <2>1. CASE s = Primary
    <3>1. state.manifest[a].floor \subseteq state.grants[a]
      BY <1>1, <2>1 DEF Eligible, RequiredOf
    <3>2. state.grants[a] \subseteq state.manifest[a].requests
      BY <1>1 DEF DurableInv, CommitInv, LoadableInv, StatesAreLoadable,
                  WellFormed, Eligible, Installations
    <3>3. QED
      BY <3>1, <3>2 DEF UndeclaredCapabilities
  <2>2. QED
    BY <2>1
<1>3. QED
  BY <1>1, <1>2 DEF DurableInv, OnDisk, Bootable

\* Nobody is authorized for a slot that a crash now would hand to somebody
\* else or lose: the document on disk boots with the same owner and
\* generation, whatever the environment does.
THEOREM AuthorityIsOnDisk == Spec => []AuthorityIsDurable
<1>1. QED
  BY DurableInit, DurableStep, DurableHolds, PTL DEF Spec

-----------------------------------------------------------------------------
(***************************************************************************)
(* Governance is sticky.  A copy of the document the user kept is never    *)
(* newer than the registry, and as new only when it is the document; the   *)
(* watermark refuses the older ones.                                       *)
(***************************************************************************)

CopiesAreOlder ==
  /\ backup.kind \in {"absent", "committed"}
  /\ backup.kind = "absent" => backup.state = Empty
  /\ document.kind = "committed" /\ backup.kind = "committed" =>
       /\ backup.state.revision <= document.state.revision
       /\ backup.state.revision = document.state.revision => backup = document
  /\ document.kind = "pending" => backup.state.revision < document.state.revision
  /\ document.kind = "absent" => backup.state.revision <= watermark.revision
  /\ Serving /\ tx.stage \notin {"raise", "finish"} =>
       backup.state.revision <= state.revision
  /\ Serving /\ tx.stage \in {"idle", "pending"} =>
       \/ document.kind = "absent"
       \/ document.kind = "committed" /\ document.state.revision = state.revision

StorageInv == CommitInv /\ SurvivalInv /\ CopiesAreOlder

LEMMA StorageInit == Init => StorageInv
<1> SUFFICES ASSUME Init PROVE CopiesAreOlder
  BY CommitInit, SurvivalInit DEF StorageInv
<1>1. /\ backup = Document("absent", Empty) /\ ~Serving
      /\ document.kind \in {"absent", "committed"}
      /\ watermark.revision = 0
  BY DEF Init, Serving, Document
<1>2. backup.kind = "absent" /\ backup.state = Empty /\ Empty.revision = 0
  BY <1>1 DEF Document, Empty
<1>3. QED
  BY <1>1, <1>2 DEF CopiesAreOlder

LEMMA StorageStep == StorageInv /\ [Next]_vars => StorageInv'
<1> SUFFICES ASSUME StorageInv, [Next]_vars PROVE CopiesAreOlder'
  BY CommitStep, SurvivalStep DEF StorageInv
<1>1. /\ CommitInv /\ CommitInv' /\ SurvivalInv /\ TypeOK /\ TypeOK'
      /\ CopiesAreOlder
  BY CommitStep, SurvivalStep DEF StorageInv, SurvivalInv
<1>2. /\ state.revision \in Nat /\ backup.state.revision \in Nat
      /\ document.state.revision \in Nat /\ tx.next.revision \in Nat
      /\ watermark.revision \in Nat /\ tx \in TxType
      /\ document' \in DocumentType /\ backup \in DocumentType
      /\ document \in DocumentType
  BY <1>1 DEF TypeOK, State, DocumentType, Counter, TxType
<1>3. Empty.revision = 0
  BY DEF Empty
<1>4. CASE Request
  <2>1. /\ Ready /\ tx'.stage = "pending"
        /\ UNCHANGED << document, backup, watermark, up, disabled, state >>
    BY <1>1, <1>4, RequestFields
  <2>2. QED
    BY <1>1, <2>1 DEF CopiesAreOlder, Ready, Serving
<1>5. CASE Progress
  <2>1. ASSUME Underway
        PROVE  /\ Serving /\ tx.next.revision = state.revision + 1
               /\ Document("pending", tx.next).state = tx.next
               /\ Document("pending", tx.next).kind = "pending"
               /\ Document("committed", tx.next).state = tx.next
               /\ Document("committed", tx.next).kind = "committed"
    BY <1>1, <2>1 DEF CommitInv, Succeeds, Document
  <2>2. CASE WritePending
    <3>1. /\ Underway /\ tx.stage = "pending" /\ tx'.stage = "cleanup"
          /\ document' = Document("pending", tx.next)
          /\ UNCHANGED << backup, watermark, up, disabled, state >>
      BY <1>2, <2>2 DEF WritePending, Advance, TxType, Underway
    <3>2. QED
      BY <1>1, <1>2, <2>1, <3>1 DEF CopiesAreOlder, Serving
  <2>3. CASE CleanupSettled
    <3>1. /\ tx.stage = "cleanup" /\ tx'.stage = "commit"
          /\ UNCHANGED << document, backup, watermark, up, disabled, state >>
      BY <1>2, <2>3 DEF CleanupSettled, Advance, TxType, disk
    <3>2. QED
      BY <1>1, <3>1 DEF CopiesAreOlder, Serving
  <2>4. CASE WriteCommitted
    <3>1. /\ Underway /\ tx.stage = "commit" /\ tx'.stage = "raise"
          /\ document' = Document("committed", tx.next)
          /\ UNCHANGED << backup, watermark, up, disabled, state >>
      BY <1>2, <2>4 DEF WriteCommitted, Advance, TxType, Underway
    <3>2. QED
      BY <1>1, <1>2, <2>1, <3>1 DEF CopiesAreOlder, Serving
  <2>5. CASE RaiseWatermark
    <3>1. /\ Underway /\ tx.stage = "raise" /\ tx'.stage = "finish"
          /\ UNCHANGED << document, backup, up, disabled, state >>
      BY <1>2, <2>5 DEF RaiseWatermark, Advance, TxType, Underway
    <3>2. document.kind = "committed"
      BY <1>1, <2>1, <3>1 DEF CommitInv
    <3>3. QED
      BY <1>1, <3>1, <3>2 DEF CopiesAreOlder, Serving
  <2>6. CASE CleanupRejected \/ WriteFails \/ RaiseFails
    <3>1. /\ disabled' /\ backup' = backup /\ Underway
      BY <2>6 DEF CleanupRejected, WriteFails, RaiseFails, Abort, Underway
    <3>2. CASE document' = document /\ watermark' = watermark
      BY <1>1, <3>1, <3>2 DEF CopiesAreOlder, Serving
    <3>3. CASE document' = document /\ watermark' # watermark
      <4>1. tx.stage = "raise"
        BY <2>6, <3>3 DEF CleanupRejected, WriteFails, RaiseFails
      <4>2. document.kind = "committed"
        BY <1>1, <2>1, <3>1, <4>1 DEF CommitInv
      <4>3. QED
        BY <1>1, <3>1, <3>3, <4>2 DEF CopiesAreOlder, Serving
    <3>4. CASE document' # document
      <4>1. /\ tx.stage \in {"pending", "commit"}
            /\ document' \in {Document("pending", tx.next), Document("committed", tx.next)}
        BY <2>6, <3>4 DEF CleanupRejected, WriteFails, RaiseFails
      <4>2. /\ document'.kind \in {"pending", "committed"}
            /\ document'.state = tx.next
        BY <2>1, <3>1, <4>1
      <4>3. backup.state.revision < tx.next.revision
        BY <1>1, <1>2, <2>1, <3>1, <4>1 DEF CopiesAreOlder
      <4>4. QED
        BY <1>1, <1>2, <3>1, <4>2, <4>3 DEF CopiesAreOlder, Serving
    <3>5. QED
      BY <3>2, <3>3, <3>4
  <2>7. CASE Finish
    <3>1. /\ Underway /\ tx.stage = "finish" /\ tx'.stage = "idle"
          /\ state' = tx.next /\ document = Document("committed", tx.next)
          /\ UNCHANGED << document, backup, watermark, up, disabled >>
      BY <1>1, <2>7 DEF Finish, CommitInv, Underway, Idle, disk
    <3>2. QED
      BY <1>1, <1>2, <1>3, <2>1, <3>1 DEF CopiesAreOlder, Serving
  <2>8. QED
    BY <1>5, <2>2, <2>3, <2>4, <2>5, <2>6, <2>7 DEF Progress
<1>6. CASE Boot
  <2>1. document' = document /\ backup' = backup /\ tx'.stage = "idle"
    BY <1>6 DEF Boot, Idle
  <2>2. CASE BootFresh
    <3>1. WatermarkRevision = watermark.revision
      BY <1>1 DEF WatermarkRevision, SurvivalInv, WatermarkCovers
    <3>2. state'.revision = watermark.revision /\ document.kind = "absent"
          /\ watermark' = watermark
      BY <2>2, <3>1, EmptyType DEF BootFresh, State
    <3>3. QED
      BY <1>1, <2>1, <3>2 DEF CopiesAreOlder
  <2>3. CASE BootCommitted
    <3>1. /\ document.kind = "committed"
          /\ state'.revision = document.state.revision
      BY <1>2, <2>3, RepairedFields DEF BootCommitted, DocumentType
    <3>2. QED
      BY <1>1, <1>2, <1>3, <2>1, <3>1 DEF CopiesAreOlder
  <2>4. CASE BootPending \/ BootRefused
    BY <1>1, <2>1, <2>4 DEF BootPending, BootRefused, CopiesAreOlder, Serving
  <2>5. QED
    BY <1>6, <2>2, <2>3, <2>4 DEF Boot
<1>7. CASE Environment
  <2>1. CASE Crash
    BY <1>1, <2>1 DEF Crash, CopiesAreOlder, disk, Serving
  <2>2. CASE CopyDocument
    <3>1. /\ document.kind = "committed" /\ backup' = document
          /\ UNCHANGED << document, watermark, up, disabled, state, tx >>
      BY <2>2 DEF CopyDocument, process
    <3>2. ASSUME Serving, tx.stage \notin {"raise", "finish"}
          PROVE  document.state.revision = state.revision
      <4>1. tx.stage \in {"idle", "pending"}
        BY <1>1, <1>2, <3>1, <3>2 DEF CommitInv, TxType, StageType, Document
      <4>2. QED
        BY <1>1, <3>1, <3>2, <4>1 DEF CopiesAreOlder
    <3>3. QED
      BY <1>1, <1>2, <3>1, <3>2 DEF CopiesAreOlder, Serving
  <2>3. CASE RestoreDocument
    BY <1>1, <1>2, <2>3 DEF RestoreDocument, process, CopiesAreOlder, Serving
  <2>4. CASE DamageFile
    <3>1. /\ ~up /\ up' = up /\ backup' = backup
          /\ watermark'.revision = watermark.revision
          /\ document'.kind = "damaged" \/ document' = document
      BY <1>1, <2>4 DEF DamageFile, process, Document, TypeOK
    <3>2. QED
      BY <1>1, <3>1 DEF CopiesAreOlder, Serving
  <2>5. CASE DeleteDocument
    BY <1>1, <2>5 DEF DeleteDocument, process, Document, CopiesAreOlder, Serving
  <2>6. QED
    BY <1>7, <2>1, <2>2, <2>3, <2>4, <2>5 DEF Environment
<1>8. CASE Observe \/ UNCHANGED vars
  BY <1>1, <1>8 DEF Observe, vars, disk, process, CopiesAreOlder, Serving
<1>9. QED
  BY <1>4, <1>5, <1>6, <1>7, <1>8 DEF Next

\* Once an acknowledged state was governed, so is every document the
\* watermark would let in, as long as nobody emptied the user folder.
GovernedOnDisk ==
  governedOnce /\ ~emptied =>
    /\ document.kind # "absent"
    /\ \A doc \in {document, backup} :
         Bootable(doc) /\ watermark.revision <= doc.state.revision =>
           doc.state.governed

GovernanceInv == StorageInv /\ GovernedOnDisk /\ GovernanceIsSticky

LEMMA GovernanceInit == Init => GovernanceInv
<1> SUFFICES ASSUME Init PROVE GovernedOnDisk /\ GovernanceIsSticky
  BY StorageInit DEF GovernanceInv
<1>1. /\ backup.kind = "absent" /\ ~up
      /\ governedOnce => document.kind = "committed" /\ document.state.governed
  BY DEF Init, Document
<1>2. QED
  BY <1>1 DEF GovernedOnDisk, GovernanceIsSticky, Bootable

LEMMA GovernanceStep == GovernanceInv /\ [Next]_vars => GovernanceInv'
<1> SUFFICES ASSUME GovernanceInv, [Next]_vars
             PROVE  GovernedOnDisk' /\ GovernanceIsSticky'
  BY StorageStep DEF GovernanceInv
<1>1. /\ CommitInv /\ SurvivalInv /\ SurvivalInv' /\ TypeOK /\ TypeOK'
      /\ CopiesAreOlder /\ GovernedOnDisk /\ GovernanceIsSticky
  BY StorageStep DEF GovernanceInv, StorageInv, SurvivalInv
<1>2. /\ backup.state.revision \in Nat /\ document.state.revision \in Nat
      /\ tx.next.revision \in Nat /\ watermark.revision \in Nat
      /\ watermark'.revision \in Nat
      /\ document.state \in State /\ tx \in TxType
  BY <1>1 DEF TypeOK, State, DocumentType, Counter, TxType
<1>3. CASE Request
  <2>1. UNCHANGED << document, backup, watermark, up, state, governedOnce, emptied >>
    BY <1>1, <1>3, RequestFields
  <2>2. QED
    BY <1>1, <2>1 DEF GovernedOnDisk, GovernanceIsSticky
<1>4. CASE Progress
  <2>1. ASSUME Underway
        PROVE  /\ Serving
               /\ state.governed => tx.next.governed
               /\ Document("pending", tx.next).state = tx.next
               /\ Document("committed", tx.next).state = tx.next
               /\ Document("pending", tx.next).kind = "pending"
               /\ Document("committed", tx.next).kind = "committed"
    BY <1>1, <2>1 DEF CommitInv, Succeeds, Document
  <2>2. Underway /\ backup' = backup
    BY <1>4 DEF Progress, WritePending, CleanupSettled, CleanupRejected,
                WriteCommitted, WriteFails, RaiseWatermark, RaiseFails, Finish,
                Underway, Abort, disk
  <2>3. watermark.revision <= watermark'.revision
    BY <1>1, <1>2, <1>4, RaisedCovers
       DEF Progress, WritePending, CleanupSettled, CleanupRejected,
           WriteCommitted, WriteFails, RaiseWatermark, RaiseFails, Finish, disk,
           TypeOK, State
  <2>4. document' = document \/ (document'.state = tx.next /\ document'.kind # "absent")
    BY <1>4, <2>1, <2>2
       DEF Progress, WritePending, CleanupSettled, CleanupRejected,
           WriteCommitted, WriteFails, RaiseWatermark, RaiseFails, Finish, disk
  <2>5. CASE ~Finish
    <3>1. /\ governedOnce' = governedOnce /\ emptied' = emptied
          /\ state' = state /\ up' = up
      BY <1>4, <2>5
         DEF Progress, WritePending, CleanupSettled, CleanupRejected,
             WriteCommitted, WriteFails, RaiseWatermark, RaiseFails, Abort, history
    <3>2. governedOnce /\ ~emptied => tx.next.governed
      BY <1>1, <2>1, <2>2 DEF GovernanceIsSticky, Serving
    <3>3. QED
      BY <1>1, <1>2, <2>2, <2>3, <2>4, <3>1, <3>2
         DEF GovernedOnDisk, GovernanceIsSticky, Bootable
  <2>6. CASE Finish
    <3>1. /\ document' = document /\ document = Document("committed", tx.next)
          /\ state' = tx.next /\ watermark' = watermark
          /\ tx.next.revision <= watermark.revision
          /\ governedOnce' = (governedOnce \/ tx.next.governed)
          /\ emptied' = (emptied /\ ~tx.next.governed)
      BY <1>1, <2>6 DEF Finish, CommitInv, SurvivalInv, WatermarkCovers, disk
    <3>2. governedOnce' /\ ~emptied' => tx.next.governed
      <4>1. governedOnce /\ ~emptied => state.governed
        BY <1>1, <2>1, <2>2 DEF GovernanceIsSticky, Serving
      <4>2. QED
        BY <2>1, <2>2, <3>1, <4>1, Zenon
    <3>3. ASSUME Bootable(backup), watermark.revision <= backup.state.revision
          PROVE  backup = document
      BY <1>1, <1>2, <2>1, <2>2, <3>1, <3>3 DEF CopiesAreOlder, Bootable
    <3>4. QED
      BY <2>1, <2>2, <3>1, <3>2, <3>3 DEF GovernedOnDisk, GovernanceIsSticky, Bootable
  <2>7. QED
    BY <2>5, <2>6
<1>5. CASE Boot
  <2>1. /\ document' = document /\ backup' = backup
        /\ governedOnce' = governedOnce /\ emptied' = emptied
        /\ watermark' = watermark \/ watermark' = Raised(document.state.revision)
    BY <1>5 DEF Boot, BootFresh, BootCommitted, BootPending, BootRefused, history
  <2>2. watermark.revision <= watermark'.revision
    BY <1>1, <1>2, <2>1, RaisedCovers DEF State
  <2>3. GovernedOnDisk'
    BY <1>1, <1>2, <2>1, <2>2 DEF GovernedOnDisk
  <2>4. ASSUME governedOnce, ~emptied PROVE state'.governed
    <3>1. CASE BootFresh
      BY <1>1, <2>4, <3>1 DEF BootFresh, GovernedOnDisk
    <3>2. CASE BootCommitted \/ BootPending
      <4>1. WatermarkRevision = watermark.revision
        BY <1>1 DEF WatermarkRevision, SurvivalInv, WatermarkCovers
      <4>2. /\ Bootable(document) /\ watermark.revision <= document.state.revision
            /\ state' = Repaired(document.state)
        BY <3>2, <4>1 DEF BootCommitted, BootPending, Acceptable, Bootable
      <4>3. document.state.governed
        BY <1>1, <2>4, <4>2 DEF GovernedOnDisk
      <4>4. QED
        BY <1>2, <4>2, <4>3, RepairedFields
    <3>3. CASE BootRefused
      BY <3>3, EmptyType DEF BootRefused, Refused, State
    <3>4. QED
      BY <1>5, <3>1, <3>2, <3>3 DEF Boot
  <2>5. QED
    BY <2>1, <2>3, <2>4 DEF GovernanceIsSticky
<1>6. CASE Environment
  <2>1. CASE Crash
    BY <1>1, <2>1 DEF Crash, disk, history, GovernedOnDisk, GovernanceIsSticky
  <2>2. CASE CopyDocument
    BY <1>1, <2>2 DEF CopyDocument, process, history, GovernedOnDisk, GovernanceIsSticky
  <2>3. CASE RestoreDocument
    BY <1>1, <2>3 DEF RestoreDocument, process, history, CopiesAreOlder,
                      GovernedOnDisk, GovernanceIsSticky
  <2>4. CASE DamageFile
    <3>1. /\ ~up /\ up' = up /\ backup' = backup
          /\ governedOnce' = governedOnce /\ emptied' = emptied
          /\ watermark'.revision = watermark.revision
          /\ document'.kind = "damaged" \/ document' = document
      BY <1>1, <2>4 DEF DamageFile, process, history, Document, TypeOK
    <3>2. QED
      BY <1>1, <3>1 DEF GovernedOnDisk, GovernanceIsSticky, Bootable
  <2>5. CASE DeleteDocument
    BY <2>5 DEF DeleteDocument, GovernedOnDisk, GovernanceIsSticky
  <2>6. QED
    BY <1>6, <2>1, <2>2, <2>3, <2>4, <2>5 DEF Environment
<1>7. CASE Observe \/ UNCHANGED vars
  BY <1>1, <1>7 DEF Observe, vars, disk, process, history, GovernedOnDisk,
                    GovernanceIsSticky
<1>8. QED
  BY <1>3, <1>4, <1>5, <1>6, <1>7 DEF Next

\* Once a caller was told that the primary slot is governed no boot takes it
\* for an unmanaged legacy slot, whatever file was damaged, put back or lost
\* to a crash; only an emptied user folder, which the code boots unmanaged,
\* starts over, and only until a state is governed again.
THEOREM GovernanceSticks == Spec => []GovernanceIsSticky
<1>1. GovernanceInv => GovernanceIsSticky
  BY DEF GovernanceInv
<1>2. QED
  BY GovernanceInit, GovernanceStep, <1>1, PTL DEF Spec

-----------------------------------------------------------------------------
(***************************************************************************)
(* Revisions and generations identify what the operator saw, as long as    *)
(* nobody exchanges the document behind the registry's back.               *)
(***************************************************************************)

DocumentStays == Faults \cap {"restore", "delete"} = {}

\* A view is a view of st or of a state before it, and its tokens tell.
Precedes(v, st) ==
  /\ v.revision <= st.revision
  /\ v.revision = st.revision => v.manifest = st.manifest
  /\ \A s \in Slots :
       /\ v.generation[s] <= st.generation[s]
       /\ v.generation[s] = st.generation[s] => v.owner[s] = st.owner[s]

ViewsPrecede ==
  /\ Serving => Precedes(seen, state)
  /\ document.kind = "committed" =>
       /\ Precedes(seen, Repaired(document.state))
       /\ Serving => Precedes(View(state), Repaired(document.state))
  /\ document.kind = "absent" =>
       /\ watermark.kind # "present"
       /\ seen = View(Empty)
       /\ Serving => View(state) = View(Empty)

TokenInv == StorageInv /\ (DocumentStays => ViewsPrecede)

LEMMA PrecedesItself ==
  ASSUME NEW st \in State
  PROVE  Precedes(View(st), st)
  BY DEF Precedes, View, State, Counter

LEMMA PrecedesSuccessor ==
  ASSUME NEW v \in SeenType, NEW st \in State, NEW nx \in State, NEW changed,
         Precedes(v, st), Succeeds(nx, st, changed)
  PROVE  Precedes(v, nx)
<1>1. v.revision \in Nat /\ st.revision \in Nat /\ nx.revision = st.revision + 1
      /\ v.revision <= st.revision
  BY DEF SeenType, State, Counter, Succeeds, Precedes
<1>2. ASSUME NEW s \in Slots
      PROVE  /\ v.generation[s] <= nx.generation[s]
             /\ v.generation[s] = nx.generation[s] => v.owner[s] = nx.owner[s]
  <2>1. v.generation[s] \in Nat /\ st.generation[s] \in Nat
    BY DEF SeenType, State, Counter
  <2>2. /\ v.generation[s] <= st.generation[s]
        /\ v.generation[s] = st.generation[s] => v.owner[s] = st.owner[s]
    BY DEF Precedes
  <2>3. IF s \in changed THEN nx.generation[s] = st.generation[s] + 1
        ELSE nx.generation[s] = st.generation[s] /\ nx.owner[s] = st.owner[s]
    BY DEF Succeeds
  <2>4. QED
    BY <2>1, <2>2, <2>3
<1>3. QED
  BY <1>1, <1>2 DEF Precedes

\* Vacating a slot advances its generation, so the repair of a state comes
\* after it.
LEMMA PrecedesRepaired ==
  ASSUME NEW v \in SeenType, NEW st \in State, Settled(st), Precedes(v, st)
  PROVE  Precedes(v, Repaired(st))
<1>1. Migrated(st) = st
  BY SettledIsMigrated
<1>2. /\ Repaired(st).revision = st.revision
      /\ Repaired(st).manifest = st.manifest
      /\ Repaired(st).owner = [t \in Slots |->
              IF st.owner[t] \in Understated(Migrated(st)) THEN None ELSE st.owner[t]]
      /\ Repaired(st).generation = [t \in Slots |->
              IF st.owner[t] \in Understated(Migrated(st))
              THEN st.generation[t] + 1 ELSE st.generation[t]]
  BY <1>1, RepairedFields
<1>3. ASSUME NEW s \in Slots
      PROVE  /\ v.generation[s] <= Repaired(st).generation[s]
             /\ v.generation[s] = Repaired(st).generation[s] =>
                  v.owner[s] = Repaired(st).owner[s]
  <2>1. v.generation[s] \in Nat /\ st.generation[s] \in Nat
    BY DEF SeenType, State, Counter
  <2>2. /\ v.generation[s] <= st.generation[s]
        /\ v.generation[s] = st.generation[s] => v.owner[s] = st.owner[s]
    BY DEF Precedes
  <2>3. CASE st.owner[s] \in Understated(Migrated(st))
    <3>1. Repaired(st).generation[s] = st.generation[s] + 1
      BY <1>2, <2>3
    <3>2. QED
      BY <2>1, <2>2, <3>1
  <2>4. CASE st.owner[s] \notin Understated(Migrated(st))
    <3>1. /\ Repaired(st).generation[s] = st.generation[s]
          /\ Repaired(st).owner[s] = st.owner[s]
      BY <1>2, <2>4
    <3>2. QED
      BY <2>2, <3>1
  <2>5. QED
    BY <2>3, <2>4
<1>4. v.revision <= st.revision /\ (v.revision = st.revision => v.manifest = st.manifest)
  BY DEF Precedes
<1>5. QED
  BY <1>2, <1>3, <1>4 DEF Precedes

\* What a reader of the empty registry saw precedes everything that owns
\* slots under a generation.
LEMMA NothingPrecedes ==
  ASSUME NEW st \in State, st.revision > 0,
         \A s \in Slots : st.owner[s] # None => st.generation[s] > 0
  PROVE  Precedes(View(Empty), Repaired(st))
<1>1. /\ Repaired(st).revision = st.revision
      /\ Repaired(st).owner = [t \in Slots |->
              IF st.owner[t] \in Understated(Migrated(st)) THEN None ELSE st.owner[t]]
      /\ Repaired(st).generation = [t \in Slots |->
              IF st.owner[t] \in Understated(Migrated(st))
              THEN st.generation[t] + 1 ELSE st.generation[t]]
  BY RepairedFields
<1>2. /\ View(Empty).revision = 0
      /\ \A s \in Slots : View(Empty).generation[s] = 0 /\ View(Empty).owner[s] = None
  BY DEF View, Empty
<1>3. ASSUME NEW s \in Slots
      PROVE  /\ 0 <= Repaired(st).generation[s]
             /\ 0 = Repaired(st).generation[s] => None = Repaired(st).owner[s]
  <2>1. st.generation[s] \in Nat
    BY DEF State, Counter
  <2>2. CASE st.owner[s] \in Understated(Migrated(st))
    <3>1. Repaired(st).generation[s] = st.generation[s] + 1
      BY <1>1, <2>2
    <3>2. QED
      BY <2>1, <3>1
  <2>3. CASE st.owner[s] \notin Understated(Migrated(st))
    <3>1. /\ Repaired(st).generation[s] = st.generation[s]
          /\ Repaired(st).owner[s] = st.owner[s]
      BY <1>1, <2>3
    <3>2. QED
      BY <2>1, <3>1
  <2>4. QED
    BY <2>2, <2>3
<1>4. st.revision \in Nat
  BY DEF State, Counter
<1>5. QED
  BY <1>1, <1>2, <1>3, <1>4 DEF Precedes

LEMMA TokenInit == Init => TokenInv
<1> SUFFICES ASSUME Init PROVE ViewsPrecede
  BY StorageInit DEF TokenInv
<1>1. ~Serving /\ seen = View(Empty) /\ watermark.kind = "absent"
  BY DEF Init, Serving
<1>2. document.kind = "committed" => Precedes(View(Empty), Repaired(document.state))
  <2>1. CASE document = Document("absent", Empty)
    BY <2>1 DEF Document
  <2>2. ASSUME NEW st \in LegacyStates, document = Document("committed", st)
        PROVE  Precedes(View(Empty), Repaired(document.state))
    BY <2>2, NothingPrecedes, RegistryAssumption, LegacyAssumption DEF Document
  <2>3. QED
    BY <2>1, <2>2 DEF Init
<1>3. QED
  BY <1>1, <1>2 DEF ViewsPrecede

LEMMA TokenStep == TokenInv /\ [Next]_vars => TokenInv'
<1> SUFFICES ASSUME TokenInv, [Next]_vars, DocumentStays PROVE ViewsPrecede'
  BY StorageStep DEF TokenInv
<1>1. /\ CommitInv /\ SurvivalInv /\ TypeOK /\ TypeOK' /\ CopiesAreOlder
      /\ ViewsPrecede
  BY StorageStep DEF TokenInv, StorageInv, SurvivalInv
<1>2. /\ state \in State /\ document.state \in State /\ tx.next \in State
      /\ tx \in TxType /\ seen \in SeenType /\ View(state) \in SeenType
  BY <1>1, ViewType DEF TypeOK, DocumentType, TxType, SeenType
<1>3. "restore" \notin Faults /\ "delete" \notin Faults
  BY DEF DocumentStays
<1>4. CASE Request
  <2>1. UNCHANGED << document, watermark, up, disabled, state, seen >>
    BY <1>1, <1>4, RequestFields
  <2>2. QED
    BY <1>1, <2>1 DEF ViewsPrecede, Serving
<1>5. CASE Observe
  <2>1. /\ Serving /\ seen' = View(state)
        /\ UNCHANGED << document, watermark, up, disabled, state >>
    BY <1>5 DEF Observe, disk, process
  <2>2. QED
    BY <1>1, <1>2, <2>1, PrecedesItself DEF ViewsPrecede, Serving
<1>6. CASE Progress
  <2>1. ASSUME Underway
        PROVE  /\ Serving
               /\ Precedes(seen, tx.next)
               /\ Precedes(seen, Repaired(tx.next))
               /\ Precedes(View(state), Repaired(tx.next))
               /\ Precedes(View(tx.next), Repaired(tx.next))
               /\ Document("pending", tx.next).kind = "pending"
               /\ Document("committed", tx.next).kind = "committed"
               /\ Document("committed", tx.next).state = tx.next
    <3>1. Serving /\ Succeeds(tx.next, state, tx.changed) /\ Settled(tx.next)
      BY <1>1, <2>1 DEF CommitInv, Succeeds
    <3>2. /\ Precedes(seen, tx.next) /\ Precedes(View(state), tx.next)
          /\ Precedes(View(tx.next), tx.next)
      BY <1>1, <1>2, <3>1, PrecedesItself, PrecedesSuccessor DEF ViewsPrecede
    <3>3. View(tx.next) \in SeenType
      BY <1>2, ViewType
    <3>4. QED
      BY <1>2, <3>1, <3>2, <3>3, PrecedesRepaired DEF Document
  <2>2. Underway /\ seen' = seen
    BY <1>6 DEF Progress, WritePending, CleanupSettled, CleanupRejected,
                WriteCommitted, WriteFails, RaiseWatermark, RaiseFails, Finish,
                Underway, Abort, disk
  <2>3. CASE document' = document /\ watermark' = watermark /\ ~Finish
    <3>1. UNCHANGED << up, state >>
      BY <1>6, <2>3 DEF Progress, WritePending, CleanupSettled, CleanupRejected,
                WriteCommitted, WriteFails, RaiseWatermark, RaiseFails, Abort
    <3>2. Serving
      BY <2>1, <2>2
    <3>3. QED
      BY <1>1, <2>2, <2>3, <3>1, <3>2 DEF ViewsPrecede, Serving
  <2>4. CASE Finish
    <3>1. /\ state' = tx.next /\ document = Document("committed", tx.next)
          /\ UNCHANGED << document, watermark, up, disabled >>
      BY <1>1, <2>4 DEF Finish, CommitInv, disk
    <3>2. QED
      BY <2>1, <2>2, <3>1 DEF ViewsPrecede
  <2>5. CASE document' # document
    <3>1. /\ state' = state
          /\ document' \in {Document("pending", tx.next), Document("committed", tx.next)}
      BY <1>6, <2>5 DEF Progress, WritePending, CleanupSettled, CleanupRejected,
                WriteCommitted, WriteFails, RaiseWatermark, RaiseFails, Finish, 
                Abort, disk
    <3>2. QED
      BY <1>1, <2>1, <2>2, <3>1 DEF ViewsPrecede, Serving
  <2>6. CASE document' = document /\ watermark' # watermark
    <3>1. tx.stage = "raise" /\ state' = state
      BY <1>6, <2>6 DEF Progress, WritePending, CleanupSettled, CleanupRejected,
                WriteCommitted, WriteFails, RaiseWatermark, RaiseFails, Finish, 
                Abort, disk
    <3>2. document.kind = "committed"
      BY <1>1, <2>1, <2>2, <3>1 DEF CommitInv
    <3>3. QED
      BY <1>1, <2>1, <2>2, <2>6, <3>1, <3>2 DEF ViewsPrecede, Serving
  <2>7. QED
    BY <2>3, <2>4, <2>5, <2>6
<1>7. CASE Boot
  <2>1. document' = document /\ seen' = seen
    BY <1>7 DEF Boot
  <2>2. CASE BootFresh
    <3>1. /\ document.kind = "absent" /\ watermark.kind = "absent"
          /\ watermark' = watermark /\ state' = [Empty EXCEPT !.revision = 0]
      BY <1>1, <2>2 DEF BootFresh, ViewsPrecede, WatermarkRevision, TypeOK
    <3>2. state' = Empty
      BY <3>1 DEF Empty
    <3>3. QED
      BY <1>1, <2>1, <3>1, <3>2, EmptyType, PrecedesItself DEF ViewsPrecede
  <2>3. CASE BootCommitted
    <3>1. /\ document.kind = "committed" /\ state' = Repaired(document.state)
          /\ state' \in State
      BY <1>1, <2>3 DEF BootCommitted, TypeOK
    <3>2. QED
      BY <1>1, <2>1, <3>1, PrecedesItself DEF ViewsPrecede
  <2>4. CASE BootPending \/ BootRefused
    <3>1. disabled' /\ watermark' = watermark
      BY <2>4 DEF BootPending, BootRefused
    <3>2. QED
      BY <1>1, <2>1, <3>1 DEF ViewsPrecede, Serving
  <2>5. QED
    BY <1>7, <2>2, <2>3, <2>4 DEF Boot
<1>8. CASE Environment
  <2>1. CASE Crash
    BY <1>1, <2>1 DEF Crash, disk, ViewsPrecede, Serving
  <2>2. CASE DamageFile
    <3>1. /\ ~up /\ up' = up /\ seen' = seen
          /\ watermark' = watermark \/ watermark'.kind = "damaged"
          /\ document'.kind = "damaged" \/ document' = document
      BY <1>1, <2>2 DEF DamageFile, process, Document, TypeOK
    <3>2. QED
      BY <1>1, <3>1 DEF ViewsPrecede, Serving
  <2>3. QED
    BY <1>3, <1>8, <2>1, <2>2
       DEF Environment, CopyDocument, RestoreDocument, DeleteDocument
<1>9. CASE UNCHANGED vars
  BY <1>1, <1>9 DEF vars, disk, process, ViewsPrecede, Serving
<1>10. QED
  BY <1>4, <1>5, <1>6, <1>7, <1>8, <1>9 DEF Next

\* A revision or a generation the operator read is a sound token for a
\* compare-and-swap: whatever crashes, whatever write fails and whatever
\* earlier state is repaired at boot, the same token means the same
\* installations and the same owner.
THEOREM TokensAreSound ==
  ASSUME "restore" \notin Faults, "delete" \notin Faults
  PROVE  Spec => []TokensIdentifyState
<1>1. DocumentStays
  BY DEF DocumentStays
<1>2. TokenInv => TokensIdentifyState
  BY <1>1 DEF TokenInv, ViewsPrecede, Precedes, TokensIdentifyState
<1>3. QED
  BY TokenInit, TokenStep, <1>2, PTL DEF Spec

-----------------------------------------------------------------------------
(***************************************************************************)
(* Grants are consented to.  The argument needs that two documents the     *)
(* watermark lets in never carry one revision: either every raise of the   *)
(* watermark succeeds, or nobody exchanges the document.                   *)
(***************************************************************************)

ConsentRegime == "io" \notin Faults \/ DocumentStays

\* Every grant of st is covered by the consent in force.
Agreed(st, given) == \A a \in AddOns : st.grants[a] # {} =>
  /\ Installed(st, a)
  /\ given[a].manifest = Migrated(st).manifest[a]
  /\ st.grants[a] \subseteq given[a].caps

\* An operator who saw st's revision saw the manifests of st.
Known(st, view) ==
  /\ view.revision <= st.revision
  /\ view.revision = st.revision => \A a \in AddOns :
       view.manifest[a] # None /\ Installed(st, a) =>
         view.manifest[a] = Migrated(st).manifest[a]

\* A boot would serve doc.
Servable(doc, mark) ==
  /\ doc.kind = "committed"
  /\ mark.kind # "damaged"
  /\ mark.revision <= doc.state.revision

Agrees(doc) ==
  Servable(doc, watermark) => Agreed(doc.state, consented) /\ Known(doc.state, seen)

ConsentHolds ==
  /\ Serving =>
       /\ watermark.kind # "damaged"
       /\ Agreed(state, consented)
       /\ Known(state, seen)
       /\ tx.stage \in {"idle", "pending"} /\ document.kind = "committed" =>
            Migrated(document.state).manifest = state.manifest
       /\ backup.kind = "committed" /\ backup.state.revision = state.revision =>
            \A a \in AddOns : Installed(backup.state, a) /\ Installed(state, a) =>
              Migrated(backup.state).manifest[a] = state.manifest[a]
  /\ Underway => Agreed(tx.next, consented)
  /\ Agrees(document)
  /\ Agrees(backup)
  /\ DocumentStays => backup.kind = "absent"
  /\ ~DocumentStays =>
       /\ seen.revision <= watermark.revision
       /\ Serving => state.revision <= watermark.revision

ConsentInv == TokenInv /\ (ConsentRegime => ConsentHolds)

\* Agreement and knowledge only look at grants, revision and manifests.
LEMMA AgreedOfRepaired ==
  ASSUME NEW st \in State, NEW given, NEW view, Agreed(st, given), Known(st, view)
  PROVE  Agreed(Repaired(st), given) /\ Known(Repaired(st), view)
<1>1. /\ Repaired(st).grants = st.grants /\ Repaired(st).revision = st.revision
      /\ Repaired(st).manifest = Migrated(st).manifest
  BY RepairedFields
<1>2. \A a \in AddOns : Installed(st, a) <=> Installed(Repaired(st), a)
  <2>1. Migrated(st).manifest = [a \in AddOns |->
          IF Installed(st, a) THEN MigrateManifest(st.manifest[a]) ELSE None]
    BY MigratedFields
  <2>2. ASSUME NEW a \in AddOns, Installed(st, a)
        PROVE  MigrateManifest(st.manifest[a]) # None
    BY <2>2, MigrateType, PolicyAssumption DEF Installed, State
  <2>3. QED
    BY <1>1, <2>1, <2>2 DEF Installed
<1>3. Migrated(Repaired(st)).manifest = Migrated(st).manifest
  <2>1. Settled(Repaired(st))
    BY RepairedIsSettled
  <2>2. Repaired(st).manifest \in [AddOns -> ManifestType \cup {None}]
    BY <1>1, MigratedType DEF State
  <2>3. Migrated(Repaired(st)).manifest = [a \in AddOns |->
          IF Installed(Repaired(st), a) THEN MigrateManifest(Repaired(st).manifest[a])
          ELSE None]
    <3>1. Migrated(st) \in State
      BY MigratedType
    <3>2. Repaired(st) = [Repaired(st) EXCEPT !.manifest = @]
      BY <3>1 DEF Repaired, State
    <3>3. QED
      BY <3>1 DEF Migrated, Repaired, State
  <2>4. QED
    BY <1>1, <2>1, <2>2, <2>3 DEF Settled, Installed, MigrateManifest
<1>4. QED
  BY <1>1, <1>2, <1>3 DEF Agreed, Known

LEMMA ConsentInit == Init => ConsentInv
<1> SUFFICES ASSUME Init PROVE ConsentHolds
  BY TokenInit DEF ConsentInv
<1>1. /\ ~Serving /\ ~Underway /\ backup.kind = "absent"
      /\ seen.revision = 0 /\ watermark.revision = 0
  BY DEF Init, Serving, Underway, Idle, Document, View, Empty
<1>2. Agrees(document)
  <2>1. CASE document = Document("absent", Empty)
    BY <2>1 DEF Document, Agrees, Servable
  <2>2. ASSUME NEW st \in LegacyStates, document = Document("committed", st),
               consented = [a \in AddOns |->
                 [manifest |-> Migrated(st).manifest[a], caps |-> st.grants[a]]]
        PROVE  Agrees(document)
    <3>1. /\ st.revision \in Nat /\ st.revision > 0 /\ document.state = st
          /\ \A a \in AddOns : st.grants[a] # {} => Installed(st, a)
      BY <2>2, RegistryAssumption, LegacyAssumption DEF Document, State, Counter
    <3>2. Agreed(st, consented) /\ Known(st, seen)
      BY <1>1, <2>2, <3>1 DEF Agreed, Known
    <3>3. QED
      BY <3>1, <3>2 DEF Agrees
  <2>3. QED
    BY <2>1, <2>2 DEF Init
<1>3. QED
  BY <1>1, <1>2 DEF ConsentHolds, Agrees, Servable

\* A request that gives nobody a grant leaves the agreement as it is.
LEMMA SilentRequestAgrees ==
  ASSUME CommitInv, Request, ConsentHolds, consented' = consented,
         \A a \in AddOns : tx'.next.grants[a] # {} =>
           /\ tx'.next.grants[a] = state.grants[a]
           /\ tx'.next.manifest[a] = state.manifest[a]
  PROVE  ConsentHolds'
<1>1. /\ TypeOK /\ TypeOK' /\ Serving /\ tx.stage = "idle" /\ tx'.stage = "pending"
      /\ UNCHANGED << document, watermark, backup, up, disabled, state, seen >>
  BY RequestFields DEF CommitInv, LoadableInv, Ready
<1>2. Settled(state) /\ Settled(tx'.next)
  BY <1>1, CommitStep DEF Next, CommitInv, Underway, Succeeds
<1>3. Migrated(state) = state /\ Migrated(tx'.next) = tx'.next
  BY <1>1, <1>2, SettledIsMigrated DEF TypeOK
<1>4. Agreed(tx'.next, consented)
  BY <1>1, <1>3 DEF ConsentHolds, Agreed, Installed
<1>5. QED
  BY <1>1, <1>4 DEF ConsentHolds, Agrees, Serving, Underway

\* Consent recorded for the manifest the operator saw keeps every agreement
\* about that manifest.
LEMMA RecordedConsentAgrees ==
  ASSUME NEW st, NEW a \in AddOns, NEW given,
         NEW later, NEW m,
         \A b \in AddOns \ {a} : later[b] = given[b],
         later[a].manifest = m,
         given[a].manifest = m => given[a].caps \subseteq later[a].caps,
         Agreed(st, given),
         st.grants[a] # {} => Migrated(st).manifest[a] = m
  PROVE  Agreed(st, later)
<1>1. ASSUME NEW b \in AddOns, st.grants[b] # {}
      PROVE  /\ later[b].manifest = Migrated(st).manifest[b]
             /\ st.grants[b] \subseteq later[b].caps
  <2>1. /\ given[b].manifest = Migrated(st).manifest[b]
        /\ st.grants[b] \subseteq given[b].caps
    BY <1>1 DEF Agreed
  <2>2. CASE b = a
    <3>1. given[a].manifest = m
      BY <1>1, <2>1, <2>2
    <3>2. QED
      BY <2>1, <2>2, <3>1
  <2>3. CASE b # a
    BY <2>1, <2>3
  <2>4. QED
    BY <2>2, <2>3
<1>2. QED
  BY <1>1 DEF Agreed

LEMMA SetGrantsAgrees ==
  ASSUME ConsentInv, ConsentHolds, NEW a \in AddOns,
         NEW granted \in SUBSET Caps, NEW withdrawn \in SUBSET Caps,
         SetGrants(a, granted, withdrawn)
  PROVE  ConsentHolds'
<1> DEFINE m     == seen.manifest[a]
           after == GrantsAfter(a, granted, withdrawn)
<1>1. /\ CommitInv /\ TypeOK /\ CopiesAreOlder /\ Request
  BY DEF ConsentInv, TokenInv, StorageInv, CommitInv, LoadableInv, Request
<1>2. /\ TypeOK' /\ Serving /\ tx.stage = "idle" /\ tx'.stage = "pending"
      /\ UNCHANGED << document, watermark, backup, up, disabled, state, seen >>
  BY <1>1, RequestFields DEF Ready
<1> HIDE DEF after
<1>3. /\ Installed(state, a) /\ RecordConsent(a, granted)
      /\ tx'.next.grants[a] = after
      /\ \A b \in AddOns \ {a} : tx'.next.grants[b] = state.grants[b]
      /\ tx'.next.manifest = state.manifest
      /\ seen.revision = state.revision
  BY <1>1, SetGrantsFields DEF after
<1>4. m # None
  BY DEF SetGrants
<1>5. Settled(state) /\ Settled(tx'.next)
  BY <1>1, <1>2, CommitStep DEF Next, CommitInv, Underway, Succeeds
<1>6. Migrated(state) = state /\ Migrated(tx'.next) = tx'.next
  BY <1>1, <1>2, <1>5, SettledIsMigrated DEF TypeOK
<1>7. state.manifest[a] = m
  BY <1>2, <1>3, <1>4, <1>6 DEF ConsentHolds, Known
<1>8. /\ \A b \in AddOns \ {a} : consented'[b] = consented[b]
      /\ consented'[a].manifest = m
      /\ granted \subseteq consented'[a].caps
      /\ consented[a].manifest = m => consented[a].caps \subseteq consented'[a].caps
  BY <1>1, <1>3 DEF RecordConsent, TypeOK
<1> HIDE DEF m
<1>9. Agreed(state, consented')
  BY <1>2, <1>6, <1>7, <1>8, RecordedConsentAgrees DEF ConsentHolds
<1>10. Agreed(tx'.next, consented')
  <2>1. ASSUME NEW b \in AddOns, tx'.next.grants[b] # {}
        PROVE  /\ Installed(state, b)
               /\ consented'[b].manifest = state.manifest[b]
               /\ tx'.next.grants[b] \subseteq consented'[b].caps
    <3>1. CASE b # a
      <4>1. tx'.next.grants[b] = state.grants[b]
        BY <1>3, <3>1
      <4>2. QED
        BY <1>6, <1>9, <2>1, <4>1 DEF Agreed
    <3>2. CASE b = a
      <4>1. tx'.next.grants[a] = after
        BY <1>3
      <4>2. state.grants[a] # {} => state.grants[a] \subseteq consented'[a].caps
        BY <1>9 DEF Agreed
      <4>3. after \subseteq state.grants[a] \cup granted
        BY DEF GrantsAfter, after
      <4>4. after \subseteq consented'[a].caps
        BY <1>8, <4>2, <4>3
      <4>5. QED
        BY <1>3, <1>7, <1>8, <3>2, <4>1, <4>4
    <3>3. QED
      BY <3>1, <3>2
  <2>2. QED
    BY <1>3, <1>6, <2>1 DEF Agreed, Installed
<1>11. ASSUME NEW st, Agreed(st, consented), Known(st, seen),
              st.revision = state.revision
       PROVE  Agreed(st, consented')
  <2>1. st.grants[a] # {} => Migrated(st).manifest[a] = m
    BY <1>3, <1>4, <1>11 DEF Agreed, Known, m
  <2>2. QED
    BY <1>8, <1>11, <2>1, RecordedConsentAgrees
<1>12. Agrees(document)'
  <2>1. document.kind = "committed" => document.state.revision = state.revision
    BY <1>1, <1>2 DEF CopiesAreOlder
  <2>2. Servable(document, watermark) => Agreed(document.state, consented')
    BY <1>11, <2>1 DEF ConsentHolds, Agrees, Servable
  <2>3. QED
    BY <1>2, <2>2 DEF ConsentHolds, Agrees
<1>13. Agrees(backup)'
  <2>1. ASSUME Servable(backup, watermark)
        PROVE  backup.state.revision = state.revision
    <3>1. backup.state.revision <= state.revision
      BY <1>1, <1>2 DEF CopiesAreOlder
    <3>2. /\ backup.state.revision \in Nat /\ state.revision \in Nat
          /\ watermark.revision \in Nat
      BY <1>1 DEF TypeOK, DocumentType, State, Counter
    <3>3. seen.revision <= backup.state.revision
      BY <2>1 DEF ConsentHolds, Agrees, Known
    <3>4. QED
      BY <1>3, <3>1, <3>2, <3>3
  <2>2. Servable(backup, watermark) => Agreed(backup.state, consented')
    BY <1>11, <2>1 DEF ConsentHolds, Agrees
  <2>3. QED
    BY <1>2, <2>2 DEF ConsentHolds, Agrees
<1>14. QED
  BY <1>2, <1>9, <1>10, <1>12, <1>13 DEF ConsentHolds, Serving, Underway

LEMMA RequestAgrees ==
  ASSUME ConsentInv, ConsentHolds, Request
  PROVE  ConsentHolds'
<1>1. CommitInv /\ TypeOK
  BY DEF ConsentInv, TokenInv, StorageInv, CommitInv, LoadableInv
<1>2. ASSUME NEW m \in Manifests, NEW enabled \in BOOLEAN, Install(m, enabled)
      PROVE  ConsentHolds'
  <2>1. /\ consented' = consented /\ m.id \in AddOns
        /\ tx'.next.grants = [state.grants EXCEPT ![m.id] = {}]
        /\ tx'.next.manifest = [state.manifest EXCEPT ![m.id] = m]
    BY <1>1, <1>2, InstallFields
  <2>2. \A a \in AddOns : tx'.next.grants[a] # {} =>
          /\ tx'.next.grants[a] = state.grants[a]
          /\ tx'.next.manifest[a] = state.manifest[a]
    BY <1>1, <2>1 DEF TypeOK, State
  <2>3. QED
    BY <1>1, <2>1, <2>2, SilentRequestAgrees
<1>3. ASSUME NEW records \in SUBSET Manifests, ImportLegacy(records)
      PROVE  ConsentHolds'
  <2>1. /\ consented' = consented
        /\ \A a \in AddOns : tx'.next.grants[a] # {} =>
             /\ tx'.next.grants[a] = state.grants[a]
             /\ tx'.next.manifest[a] = state.manifest[a]
    BY <1>1, <1>3, ImportFields
  <2>2. QED
    BY <1>1, <2>1, SilentRequestAgrees
<1>4. ASSUME NEW a \in AddOns, NEW enabled \in BOOLEAN, SetEnabled(a, enabled)
      PROVE  ConsentHolds'
  <2>1. /\ consented' = consented /\ tx'.next.grants = state.grants
        /\ tx'.next.manifest = state.manifest
    BY <1>1, <1>4, SetEnabledFields
  <2>2. QED
    BY <1>1, <2>1, SilentRequestAgrees
<1>5. ASSUME NEW slot \in Slots, NEW a \in AddOns \cup {None},
             NEW replace \in BOOLEAN, AssignSlot(slot, a, replace)
      PROVE  ConsentHolds'
  <2>1. /\ consented' = consented /\ tx'.next.grants = state.grants
        /\ tx'.next.manifest = state.manifest
    BY <1>1, <1>5, AssignSlotFields
  <2>2. QED
    BY <1>1, <2>1, SilentRequestAgrees
<1>6. ASSUME NEW a \in AddOns, Remove(a)
      PROVE  ConsentHolds'
  <2>1. /\ consented' = consented
        /\ tx'.next.grants = [state.grants EXCEPT ![a] = {}]
        /\ tx'.next.manifest = [state.manifest EXCEPT ![a] = None]
    BY <1>1, <1>6, RemoveFields
  <2>2. \A b \in AddOns : tx'.next.grants[b] # {} =>
          /\ tx'.next.grants[b] = state.grants[b]
          /\ tx'.next.manifest[b] = state.manifest[b]
    BY <1>1, <2>1 DEF TypeOK, State
  <2>3. QED
    BY <1>1, <2>1, <2>2, SilentRequestAgrees
<1>7. QED
  BY <1>2, <1>3, <1>4, <1>5, <1>6, SetGrantsAgrees DEF Request

LEMMA ObserveAgrees ==
  ASSUME ConsentInv, ConsentHolds, Observe
  PROVE  ConsentHolds'
<1>1. /\ CommitInv /\ TypeOK /\ CopiesAreOlder
      /\ Serving /\ seen' = View(state) /\ state \in State
      /\ UNCHANGED << document, watermark, backup, up, disabled, state, tx, consented >>
  BY DEF ConsentInv, TokenInv, StorageInv, CommitInv, LoadableInv, Observe, disk,
         process, history, TypeOK
<1>2. /\ seen'.revision = state.revision /\ seen'.manifest = state.manifest
  BY <1>1 DEF View
<1>3. Migrated(state) = state
  BY <1>1, SettledIsMigrated DEF CommitInv
<1>4. /\ document.state.revision \in Nat /\ backup.state.revision \in Nat
      /\ state.revision \in Nat /\ watermark.revision \in Nat
  BY <1>1 DEF TypeOK, DocumentType, State, Counter
<1>5. Known(state, seen')
  BY <1>2, <1>3, <1>4 DEF Known
<1>6. document.kind = "committed" => Known(document.state, seen')
  <2>1. CASE tx.stage \in {"idle", "pending"}
    BY <1>1, <1>2, <1>4, <2>1 DEF ConsentHolds, CopiesAreOlder, Known
  <2>2. CASE tx.stage \in {"cleanup", "commit"}
    BY <1>1, <2>2 DEF CommitInv, Document
  <2>3. CASE tx.stage \in {"raise", "finish"}
    <3>1. document.state = tx.next /\ tx.next.revision = state.revision + 1
      BY <1>1, <2>3 DEF CommitInv, Underway, Succeeds, Document
    <3>2. QED
      BY <1>2, <1>4, <3>1 DEF Known
  <2>4. QED
    BY <1>1, <2>1, <2>2, <2>3 DEF TypeOK, StageType
<1>7. Servable(backup, watermark) => Known(backup.state, seen')
  <2>1. ASSUME Servable(backup, watermark) PROVE state.revision <= backup.state.revision
    <3>1. ~DocumentStays
      BY <2>1 DEF ConsentHolds, Servable
    <3>2. QED
      BY <1>1, <1>4, <2>1, <3>1 DEF ConsentHolds, Servable
  <2>2. QED
    BY <1>1, <1>2, <1>4, <2>1 DEF ConsentHolds, Known, Servable, Installed
<1>8. QED
  BY <1>1, <1>2, <1>5, <1>6, <1>7
     DEF ConsentHolds, Agrees, Servable, Serving, Underway

LEMMA ProgressAgrees ==
  ASSUME ConsentInv, ConsentHolds, ConsentRegime, Progress
  PROVE  ConsentHolds'
<1>1. /\ CommitInv /\ TypeOK /\ CopiesAreOlder /\ SurvivalInv /\ SurvivalInv'
  BY SurvivalStep DEF ConsentInv, TokenInv, StorageInv, CommitInv, LoadableInv,
                      Next
<1>2. /\ document.state.revision \in Nat /\ backup.state.revision \in Nat
      /\ state.revision \in Nat /\ watermark.revision \in Nat
      /\ seen.revision \in Nat /\ tx.next \in State /\ state \in State
      /\ tx.next.revision \in Counter /\ tx.next.revision \in Nat
      /\ watermark'.revision \in Nat /\ tx \in TxType
  BY <1>1 DEF TypeOK, DocumentType, State, Counter, SurvivalInv, TxType
<1>3. /\ Underway /\ Serving
      /\ tx.next.revision = state.revision + 1
      /\ Settled(tx.next)
      /\ UNCHANGED << seen, backup, up >>
  BY <1>1 DEF Progress, WritePending, CleanupSettled, CleanupRejected,
              WriteCommitted, WriteFails, RaiseWatermark, RaiseFails, Finish,
              Underway, Abort, disk, CommitInv, Succeeds
<1>4. Migrated(tx.next) = tx.next
  BY <1>2, <1>3, SettledIsMigrated
<1>5. /\ Agreed(tx.next, consented)
      /\ Known(tx.next, seen)
  BY <1>2, <1>3 DEF ConsentHolds, Known
<1>6. /\ watermark' = watermark \/ watermark' = Raised(tx.next.revision)
      /\ watermark.kind # "damaged"
  BY <1>3 DEF Progress, WritePending, CleanupSettled, CleanupRejected,
              WriteCommitted, WriteFails, RaiseWatermark, RaiseFails, Finish, disk,
              ConsentHolds
<1>7. /\ watermark.revision <= watermark'.revision
      /\ watermark'.kind # "damaged"
  BY <1>1, <1>2, <1>6, RaisedCovers DEF Raised
<1>8. /\ Document("pending", tx.next).kind = "pending"
      /\ Document("committed", tx.next).kind = "committed"
      /\ Document("committed", tx.next).state = tx.next
  BY DEF Document
<1>9. CASE ~Finish
  <2>1. /\ state' = state /\ consented' = consented
        /\ document' \in {document, Document("pending", tx.next),
                          Document("committed", tx.next)}
        /\ disabled' \/ tx'.stage \notin {"idle", "pending"}
        /\ tx'.next = tx.next \/ tx'.stage = "idle"
    BY <1>1, <1>2, <1>9 DEF Progress, WritePending, CleanupSettled, CleanupRejected,
              WriteCommitted, WriteFails, RaiseWatermark, RaiseFails, Abort, Idle,
              Advance, TxType, history, disk
  <2>2. Agrees(document)'
    <3>1. CASE document' = document
      BY <1>2, <1>3, <1>6, <1>7, <2>1, <3>1 DEF ConsentHolds, Agrees, Servable
    <3>2. CASE document' # document
      BY <1>3, <1>5, <1>8, <2>1, <3>2 DEF Agrees, Servable
    <3>3. QED
      BY <3>1, <3>2
  <2>3. Agrees(backup)'
    BY <1>2, <1>3, <1>6, <1>7, <2>1 DEF ConsentHolds, Agrees, Servable
  <2>4. QED
    BY <1>2, <1>3, <1>5, <1>7, <2>1, <2>2, <2>3
       DEF ConsentHolds, Serving, Underway
<1>10. CASE Finish
  <2>1. /\ state' = tx.next /\ tx'.stage = "idle"
        /\ document = Document("committed", tx.next)
        /\ UNCHANGED << document, watermark, disabled >>
        /\ tx.stage = "finish"
        /\ tx.next.revision <= watermark.revision
    BY <1>1, <1>10 DEF Finish, Idle, CommitInv, SurvivalInv, WatermarkCovers, disk
  <2>2. consented' = [a \in AddOns |->
          [consented[a] EXCEPT !.caps = @ \cap tx.next.grants[a]]]
    BY <1>10 DEF Finish
  <2>3. ASSUME NEW a \in AddOns
        PROVE  /\ consented'[a].manifest = consented[a].manifest
               /\ consented'[a].caps = consented[a].caps \cap tx.next.grants[a]
    BY <1>1, <2>2 DEF TypeOK
  <2>4. Agreed(tx.next, consented')
    BY <1>5, <2>3 DEF Agreed
  <2>5. Agrees(document)'
    BY <1>3, <1>5, <1>8, <2>1, <2>4 DEF Agrees
  <2>6. backup.kind = "committed" /\ tx.next.revision <= backup.state.revision
          => backup = document
    BY <1>1, <1>2, <1>8, <2>1 DEF CopiesAreOlder
  <2>7. Agrees(backup)'
    BY <1>2, <1>3, <2>1, <2>5, <2>6 DEF Agrees, Servable
  <2>8. QED
    BY <1>2, <1>3, <1>4, <1>5, <1>6, <1>8, <2>1, <2>4, <2>5, <2>6, <2>7
       DEF ConsentHolds, Serving, Underway
<1>11. QED
  BY <1>9, <1>10

LEMMA BootAgrees ==
  ASSUME ConsentInv, ConsentHolds, ConsentRegime, Boot
  PROVE  ConsentHolds'
<1>1. /\ CommitInv /\ TypeOK /\ TypeOK' /\ CopiesAreOlder /\ SurvivalInv
  BY SurvivalStep DEF ConsentInv, TokenInv, StorageInv, CommitInv, LoadableInv,
                      Next, SurvivalInv
<1>2. /\ document.state \in State /\ watermark.revision \in Nat
      /\ document.state.revision \in Counter /\ document.state.revision \in Nat
      /\ seen.revision \in Nat /\ watermark'.revision \in Nat
      /\ backup.state.revision \in Nat
  BY <1>1 DEF TypeOK, DocumentType, State, Counter
<1>3. /\ tx'.stage = "idle" /\ UNCHANGED << document, backup, seen, consented >>
  BY <1>1 DEF Boot, Idle, history
<1>4. WatermarkRevision = watermark.revision
  BY <1>1 DEF WatermarkRevision, SurvivalInv, WatermarkCovers
<1>5. ASSUME watermark' = watermark, disabled'
      PROVE  ConsentHolds'
  BY <1>3, <1>5 DEF ConsentHolds, Agrees, Serving, Underway
<1>6. CASE BootFresh
  <2>1. /\ document.kind = "absent" /\ watermark.kind # "damaged"
        /\ state' = [Empty EXCEPT !.revision = watermark.revision]
        /\ watermark' = watermark
    BY <1>4, <1>6 DEF BootFresh
  <2>2. /\ state'.revision = watermark.revision
        /\ \A a \in AddOns : state'.grants[a] = {} /\ ~Installed(state', a)
    BY <2>1 DEF Empty, Installed
  <2>3. seen.revision <= watermark.revision
    <3>1. CASE DocumentStays
      <4>1. seen = View(Empty)
        BY <2>1, <3>1 DEF ConsentInv, TokenInv, ViewsPrecede
      <4>2. QED
        BY <1>2, <4>1 DEF View, Empty
    <3>2. CASE ~DocumentStays
      BY <3>2 DEF ConsentHolds
    <3>3. QED
      BY <3>1, <3>2
  <2>4. Agreed(state', consented) /\ Known(state', seen)
    BY <2>2, <2>3 DEF Agreed, Known
  <2>5. QED
    BY <1>2, <1>3, <2>1, <2>2, <2>4 DEF ConsentHolds, Agrees, Underway
<1>7. CASE BootCommitted
  <2>1. /\ document.kind = "committed" /\ state' = Repaired(document.state)
        /\ watermark.kind # "damaged"
        /\ watermark.revision <= document.state.revision
        /\ watermark' = watermark \/ watermark' = Raised(document.state.revision)
        /\ ~DocumentStays => watermark' = Raised(document.state.revision)
    BY <1>4, <1>7 DEF BootCommitted, Acceptable, ConsentRegime
  <2>2. Agreed(document.state, consented) /\ Known(document.state, seen)
    BY <2>1 DEF ConsentHolds, Agrees, Servable
  <2>3. Agreed(state', consented) /\ Known(state', seen)
    BY <1>2, <2>1, <2>2, AgreedOfRepaired
  <2>4. /\ watermark'.kind # "damaged"
        /\ watermark.revision <= watermark'.revision
        /\ ~DocumentStays => document.state.revision <= watermark'.revision
    BY <1>1, <1>2, <2>1, RaisedCovers DEF Raised
  <2>5. /\ state'.revision = document.state.revision
        /\ state'.manifest = Migrated(document.state).manifest
    BY <1>2, <2>1, RepairedFields
  <2>6. Agrees(document)' /\ Agrees(backup)'
    BY <1>2, <1>3, <2>1, <2>4 DEF ConsentHolds, Agrees, Servable
  <2>7. backup.kind = "committed" /\ backup.state.revision = state'.revision =>
          backup = document
    BY <1>1, <2>1, <2>5 DEF CopiesAreOlder
  <2>8. ~DocumentStays =>
          seen.revision <= watermark'.revision /\ state'.revision <= watermark'.revision
    BY <1>2, <2>4, <2>5 DEF ConsentHolds
  <2>9. QED
    BY <1>3, <2>3, <2>4, <2>5, <2>6, <2>7, <2>8 DEF ConsentHolds, Underway
<1>8. CASE BootPending \/ BootRefused
  BY <1>5, <1>8 DEF BootPending, BootRefused
<1>9. QED
  BY <1>6, <1>7, <1>8 DEF Boot

LEMMA EnvironmentAgrees ==
  ASSUME ConsentInv, ConsentHolds, Environment
  PROVE  ConsentHolds'
<1>1. /\ CommitInv /\ TypeOK /\ CopiesAreOlder
  BY DEF ConsentInv, TokenInv, StorageInv, CommitInv, LoadableInv
<1>2. CASE Crash
  BY <1>2 DEF Crash, Idle, disk, history, ConsentHolds, Agrees, Serving, Underway
<1>3. CASE CopyDocument
  <2>1. /\ document.kind = "committed" /\ backup' = document /\ ~DocumentStays
        /\ UNCHANGED << document, watermark, up, disabled, state, tx, seen, consented >>
    BY <1>3 DEF CopyDocument, process, history, DocumentStays
  <2>2. ASSUME Serving, document.state.revision = state.revision
        PROVE  Migrated(document.state).manifest = state.manifest
    <3>1. CASE tx.stage \in {"idle", "pending"}
      BY <2>1, <2>2, <3>1 DEF ConsentHolds
    <3>2. CASE tx.stage \in {"cleanup", "commit"}
      BY <1>1, <2>1, <3>2 DEF CommitInv, Document
    <3>3. CASE tx.stage \in {"raise", "finish"}
      <4>1. document.state = tx.next /\ tx.next.revision = state.revision + 1
        BY <1>1, <3>3 DEF CommitInv, Underway, Succeeds, Document
      <4>2. state.revision \in Nat
        BY <1>1 DEF TypeOK, State, Counter
      <4>3. QED
        BY <2>2, <4>1, <4>2
    <3>4. QED
      BY <1>1, <3>1, <3>2, <3>3 DEF TypeOK, StageType
  <2>3. QED
    BY <2>1, <2>2 DEF ConsentHolds, Agrees, Serving, Underway
<1>4. CASE RestoreDocument
  BY <1>1, <1>4 DEF RestoreDocument, process, history, ConsentHolds, Agrees,
                    Serving, Underway
<1>5. CASE DamageFile
  <2>1. /\ ~up /\ UNCHANGED << up, backup, seen, consented, tx >>
        /\ watermark'.revision = watermark.revision
        /\ watermark' = watermark \/ watermark'.kind = "damaged"
        /\ document'.kind = "damaged" \/ document' = document
    BY <1>1, <1>5 DEF DamageFile, process, history, Document, TypeOK
  <2>2. QED
    BY <2>1 DEF ConsentHolds, Agrees, Servable, Serving, Underway
<1>6. CASE DeleteDocument
  <2>1. /\ ~up /\ UNCHANGED << up, backup, seen, consented, tx, watermark >>
        /\ document'.kind = "absent"
    BY <1>6 DEF DeleteDocument, process, Document
  <2>2. QED
    BY <2>1 DEF ConsentHolds, Agrees, Servable, Serving, Underway
<1>7. QED
  BY <1>2, <1>3, <1>4, <1>5, <1>6 DEF Environment

LEMMA ConsentStep == ConsentInv /\ [Next]_vars => ConsentInv'
<1> SUFFICES ASSUME ConsentInv, [Next]_vars, ConsentRegime, ConsentHolds
             PROVE  ConsentHolds'
  BY TokenStep DEF ConsentInv
<1>1. CASE UNCHANGED vars
  BY <1>1 DEF vars, disk, process, history, ConsentHolds, Agrees, Serving, Underway
<1>2. QED
  BY <1>1, RequestAgrees, ObserveAgrees, ProgressAgrees, BootAgrees,
     EnvironmentAgrees DEF Next

\* No grant is in force that the operator did not consent to for the very
\* manifest installed: through stale views, re-installs, imports, crashes and
\* repairs, and through copies of the document put back, deleted folders and
\* damaged files as long as no write fails, or through failing writes as long
\* as nobody exchanges the document.
THEOREM ConsentIsGiven ==
  ASSUME "io" \notin Faults \/ ("restore" \notin Faults /\ "delete" \notin Faults)
  PROVE  Spec => []GrantsAreConsented
<1>1. ConsentRegime
  BY DEF ConsentRegime, DocumentStays
<1>2. ConsentInv => GrantsAreConsented
  <2>1. ASSUME ConsentInv, Serving PROVE Migrated(state) = state
    BY <2>1, SettledIsMigrated
       DEF ConsentInv, TokenInv, StorageInv, CommitInv, LoadableInv, TypeOK
  <2>2. QED
    BY <1>1, <2>1 DEF ConsentInv, ConsentHolds, Agreed, GrantsAreConsented
<1>3. QED
  BY ConsentInit, ConsentStep, <1>2, PTL DEF Spec

-----------------------------------------------------------------------------
(***************************************************************************)
(* The registry implements the tenancy contract.                           *)
(***************************************************************************)

\* A slot a transaction does not fence belongs to an owner it neither
\* disables nor, in the primary slot, deprives of the right to run.
RightsAreKept ==
  Underway => \A s \in Slots \ tx.changed :
    state.owner[s] # None =>
      /\ state.owner[s] \in state.enabled => state.owner[s] \in tx.next.enabled
      /\ s = Primary /\ AgentRuntime \in state.grants[state.owner[s]] =>
           AgentRuntime \in tx.next.grants[state.owner[s]]

TenancyInv == CommitInv /\ WithdrawalInv /\ RightsAreKept

LEMMA RequestKeepsRights ==
  ASSUME CommitInv, Request
  PROVE  RightsAreKept'
<1>1. /\ TypeOK /\ WellFormed(state) /\ state' = state
  BY RequestFields DEF CommitInv, LoadableInv, StatesAreLoadable
<1>2. SUFFICES ASSUME NEW s \in Slots, s \notin tx'.changed, state.owner[s] # None
               PROVE  /\ state.owner[s] \in state.enabled =>
                           state.owner[s] \in tx'.next.enabled
                      /\ s = Primary /\ AgentRuntime \in state.grants[state.owner[s]] =>
                           AgentRuntime \in tx'.next.grants[state.owner[s]]
  BY <1>1 DEF RightsAreKept
<1>3. PICK a \in AddOns : a = state.owner[s]
  BY <1>1, <1>2 DEF TypeOK, State
<1>4. Installed(state, a) /\ s \in Owned(state, a)
  BY <1>1, <1>2, <1>3 DEF WellFormed, Owned
<1>5. SUFFICES /\ a \in state.enabled => a \in tx'.next.enabled
               /\ s = Primary /\ AgentRuntime \in state.grants[a] =>
                    AgentRuntime \in tx'.next.grants[a]
  BY <1>3
<1>6. ASSUME NEW m \in Manifests, NEW enabled \in BOOLEAN, Install(m, enabled)
      PROVE  /\ a \in state.enabled => a \in tx'.next.enabled
             /\ tx'.next.grants[a] = state.grants[a]
  <2>1. /\ m.id \in AddOns /\ Owned(state, m.id) = {}
        /\ tx'.next.enabled = IF enabled THEN state.enabled \cup {m.id}
                               ELSE state.enabled \ {m.id}
        /\ tx'.next.grants = [state.grants EXCEPT ![m.id] = {}]
    BY <1>1, <1>6, InstallFields
  <2>2. a # m.id
    BY <1>4, <2>1
  <2>3. QED
    BY <1>1, <2>1, <2>2 DEF TypeOK, State
<1>7. ASSUME NEW records \in SUBSET Manifests, ImportLegacy(records)
      PROVE  /\ a \in state.enabled => a \in tx'.next.enabled
             /\ tx'.next.grants[a] = state.grants[a]
  BY <1>1, <1>4, <1>7, ImportFields
<1>8. ASSUME NEW b \in AddOns, NEW granted \in SUBSET Caps,
             NEW withdrawn \in SUBSET Caps, SetGrants(b, granted, withdrawn)
      PROVE  /\ a \in state.enabled => a \in tx'.next.enabled
             /\ s = Primary /\ AgentRuntime \in state.grants[a] =>
                  AgentRuntime \in tx'.next.grants[a]
  <2> DEFINE after   == GrantsAfter(b, granted, withdrawn)
             revoked == RevokedFrom(b, withdrawn)
  <2>1. /\ tx'.next.enabled = state.enabled
        /\ tx'.next.grants[b] = after
        /\ \A c \in AddOns \ {b} : tx'.next.grants[c] = state.grants[c]
        /\ tx'.changed = { t \in Owned(state, b) :
             HardStop(state.manifest[b], after, revoked, t) }
    BY <1>1, <1>8, SetGrantsFields
  <2>2. ASSUME a = b, s = Primary, AgentRuntime \in state.grants[a]
        PROVE  AgentRuntime \in after
    <3>1. ~HardStop(state.manifest[b], after, revoked, s)
      BY <1>2, <1>4, <2>1, <2>2
    <3>2. AgentRuntime \in state.manifest[b].requests
      BY <1>1, <1>4, <2>2 DEF WellFormed, Installations
    <3>3. AgentRuntime \notin after => AgentRuntime \in revoked
      BY <2>2 DEF GrantsAfter, RevokedFrom
    <3> HIDE DEF after, revoked
    <3>4. QED
      BY <2>2, <3>1, <3>2, <3>3 DEF HardStop
  <2>3. QED
    BY <2>1, <2>2
<1>9. ASSUME NEW b \in AddOns, NEW enabled \in BOOLEAN, SetEnabled(b, enabled)
      PROVE  /\ a \in state.enabled => a \in tx'.next.enabled
             /\ tx'.next.grants[a] = state.grants[a]
  <2>1. /\ tx'.changed = Owned(state, b)
        /\ tx'.next.enabled = IF enabled THEN state.enabled \cup {b}
                              ELSE state.enabled \ {b}
        /\ tx'.next.grants = state.grants
    BY <1>1, <1>9, SetEnabledFields
  <2>2. a # b
    BY <1>2, <1>4, <2>1
  <2>3. QED
    BY <2>1, <2>2
<1>10. ASSUME NEW slot \in Slots, NEW b \in AddOns \cup {None},
              NEW replace \in BOOLEAN, AssignSlot(slot, b, replace)
       PROVE  /\ a \in state.enabled => a \in tx'.next.enabled
              /\ tx'.next.grants[a] = state.grants[a]
  BY <1>1, <1>10, AssignSlotFields
<1>11. ASSUME NEW b \in AddOns, Remove(b)
       PROVE  /\ a \in state.enabled => a \in tx'.next.enabled
              /\ tx'.next.grants[a] = state.grants[a]
  <2>1. /\ Owned(state, b) = {} /\ tx'.next.enabled = state.enabled \ {b}
        /\ tx'.next.grants = [state.grants EXCEPT ![b] = {}]
    BY <1>1, <1>11, RemoveFields
  <2>2. a # b
    BY <1>4, <2>1
  <2>3. QED
    BY <1>1, <2>1, <2>2 DEF TypeOK, State
<1>12. QED
  BY <1>6, <1>7, <1>8, <1>9, <1>10, <1>11 DEF Request

LEMMA TenancyInvInit == Init => TenancyInv
<1>1. Init => ~Underway
  BY DEF Init, Underway, Idle
<1>2. QED
  BY <1>1, CommitInit, WithdrawalInit DEF TenancyInv, RightsAreKept

LEMMA TenancyInvStep == TenancyInv /\ [Next]_vars => TenancyInv'
<1> SUFFICES ASSUME TenancyInv, [Next]_vars PROVE RightsAreKept'
  BY CommitStep, WithdrawalStep DEF TenancyInv
<1>1. CommitInv /\ RightsAreKept /\ tx \in TxType
  BY DEF TenancyInv, CommitInv, LoadableInv, TypeOK, TxType
<1>2. CASE Request
  BY <1>1, <1>2, RequestKeepsRights
<1>3. ASSUME tx' = Idle PROVE RightsAreKept'
  BY <1>3 DEF RightsAreKept, Underway, Idle
<1>4. ASSUME Underway, tx'.next = tx.next, tx'.changed = tx.changed, state' = state
      PROVE  RightsAreKept'
  BY <1>1, <1>4 DEF RightsAreKept, Underway
<1>5. CASE Progress
  <2>1. CASE WritePending \/ CleanupSettled \/ WriteCommitted \/ RaiseWatermark
    BY <1>1, <1>4, <2>1 DEF WritePending, CleanupSettled, WriteCommitted,
       RaiseWatermark, Advance, TxType, Underway
  <2>2. CASE CleanupRejected \/ WriteFails \/ RaiseFails \/ Finish
    BY <1>3, <2>2 DEF CleanupRejected, WriteFails, RaiseFails, Finish, Abort
  <2>3. QED
    BY <1>5, <2>1, <2>2 DEF Progress
<1>6. CASE Boot \/ Crash
  BY <1>3, <1>6 DEF Boot, Crash
<1>7. CASE \/ Observe \/ CopyDocument \/ RestoreDocument \/ DamageFile
           \/ DeleteDocument \/ UNCHANGED vars
  BY <1>1, <1>7 DEF Observe, CopyDocument, RestoreDocument, DamageFile,
     DeleteDocument, vars, process, RightsAreKept, Underway
<1>8. QED
  BY <1>2, <1>5, <1>6, <1>7 DEF Next, Environment

\* What the answers mean keeps its type as long as the state is loadable.
LEMMA AnswersType ==
  LoadableInv =>
    /\ bootEpoch \in Nat
    /\ Serving \in BOOLEAN
    /\ [s \in Slots |-> Status(s)] \in [Slots -> {"live", "dormant", "fenced"}]
    /\ state.owner \in [Slots -> AddOns \cup {None}]
    /\ state.generation \in [Slots -> Nat]
    /\ [s \in Slots |-> Allowed(s)] \in [Slots -> SUBSET Ops]
<1> SUFFICES ASSUME LoadableInv
             PROVE  /\ bootEpoch \in Nat
                    /\ Serving \in BOOLEAN
                    /\ [s \in Slots |-> Status(s)] \in [Slots -> {"live", "dormant", "fenced"}]
                    /\ state.owner \in [Slots -> AddOns \cup {None}]
                    /\ state.generation \in [Slots -> Nat]
                    /\ [s \in Slots |-> Allowed(s)] \in [Slots -> SUBSET Ops]
  OBVIOUS
<1>1. TypeOK /\ WellFormed(state)
  BY DEF LoadableInv, StatesAreLoadable
<1>2. bootEpoch \in Nat /\ Serving \in BOOLEAN
  BY <1>1 DEF TypeOK, Serving
<1>3. [s \in Slots |-> Status(s)] \in [Slots -> {"live", "dormant", "fenced"}]
  BY DEF Status
<1>4. state.owner \in [Slots -> AddOns \cup {None}]
  BY <1>1 DEF TypeOK, State
<1>5. state.generation \in [Slots -> Nat]
  <2>1. state.generation \in [Slots -> Counter]
    BY <1>1 DEF TypeOK, State
  <2>2. Counter \subseteq Nat
    BY DEF Counter
  <2>3. QED
    BY <2>1, <2>2
<1>6. ASSUME NEW s \in Slots PROVE Allowed(s) \in SUBSET Ops
  <2>1. CASE state.owner[s] = None
    BY <2>1 DEF Allowed
  <2>2. CASE state.owner[s] # None
    <3>1. state.manifest[state.owner[s]] \in ManifestType
      BY <1>1, <2>2 DEF WellFormed, Installed, TypeOK, State
    <3>2. state.manifest[state.owner[s]].supported \subseteq Ops
      BY <3>1 DEF ManifestType
    <3>3. QED
      BY <2>2, <3>2 DEF Allowed
  <2>3. QED
    BY <2>1, <2>2
<1>7. QED
  BY <1>2, <1>3, <1>4, <1>5, <1>6

LEMMA TenancyInit == Init => Tenancy!Init
<1> SUFFICES ASSUME Init PROVE Tenancy!Init
  OBVIOUS
<1>1. /\ bootEpoch = 0 /\ up = FALSE /\ disabled = TRUE /\ state = Empty /\ fenced = {}
  BY DEF Init
<1>2. Serving = FALSE
  BY <1>1 DEF Serving
<1>3. state.owner = [s \in Slots |-> None] /\ state.generation = [s \in Slots |-> 0]
  BY <1>1 DEF Empty
<1>4. ASSUME NEW s \in Slots PROVE Status(s) = "dormant" /\ Allowed(s) = {}
  <2>1. state.owner[s] = None
    BY <1>3
  <2>2. ~Eligible(state, state.owner[s], s)
    BY <2>1, PolicyAssumption DEF Eligible
  <2>3. QED
    BY <1>1, <2>1, <2>2 DEF Status, Allowed
<1>5. QED
  BY <1>1, <1>2, <1>3, <1>4 DEF Tenancy!Init

\* A step that leaves everything the answers are made of alone is a stutter.
LEMMA AnswersUnchanged ==
  ASSUME UNCHANGED << bootEpoch, up, disabled, state, fenced, pendingPolicies >>
  PROVE  UNCHANGED Tenancy!vars
<1>1. \A s \in Slots : Status(s)' = Status(s) /\ Allowed(s)' = Allowed(s)
  BY DEF Status, Allowed, ProjectedDisabled
<1>2. Serving' = Serving
  BY DEF Serving
<1>3. QED
  BY <1>1, <1>2 DEF Tenancy!vars

LEMMA RequestIsFence ==
  ASSUME TenancyInv, Request
  PROVE  Tenancy!Fence
<1>1. CommitInv /\ CommitInv' /\ LoadableInv /\ LoadableInv' /\ TypeOK
  BY CommitStep DEF TenancyInv, Next, CommitInv, LoadableInv
<1>2. /\ Serving /\ tx.stage = "idle"
      /\ fenced' = fenced \cup tx'.changed
      /\ UNCHANGED << bootEpoch, up, disabled, state >>
  BY <1>1, RequestFields DEF Ready
<1>3. fenced = {} /\ tx'.changed \in SUBSET Slots
  BY <1>1, <1>2 DEF CommitInv, Underway, Idle, LoadableInv, TypeOK
<1>4. \A s \in Slots : Status(s)' = IF s \in tx'.changed THEN "fenced" ELSE Status(s)
  BY <1>2, <1>3 DEF Status
<1>5. [s \in Slots |-> Allowed(s)]' \in [Slots -> SUBSET Ops]
  <2>1. (LoadableInv => [s \in Slots |-> Allowed(s)] \in [Slots -> SUBSET Ops])'
    BY AnswersType, PTL
  <2>2. QED
    BY <1>1, <2>1
<1>6. Serving' = Serving
  BY <1>2 DEF Serving
<1>7. [s \in Slots |-> Status(s)]' = [s \in Slots |->
         IF s \in tx'.changed THEN "fenced" ELSE [t \in Slots |-> Status(t)][s]]
  BY <1>4
<1>8. QED
  BY <1>2, <1>3, <1>5, <1>6, <1>7 DEF Tenancy!Fence

\* The operations a slot's owner is not denied, from its manifest and grants.
Granted(m, granted) == m.supported \ DisabledOperations(m, granted)

LEMMA FinishIsSettle ==
  ASSUME TenancyInv, Finish
  PROVE  Tenancy!Settle
<1>1. /\ CommitInv /\ CommitInv' /\ LoadableInv /\ LoadableInv' /\ TypeOK /\ TypeOK'
      /\ WellFormed(state) /\ WellFormed(tx.next)
  BY CommitStep DEF TenancyInv, Next, Progress, CommitInv, LoadableInv, StatesAreLoadable
<1>2. /\ Underway /\ Serving /\ fenced = tx.changed
      /\ Succeeds(tx.next, state, tx.changed)
      /\ state' = tx.next /\ fenced' = {}
      /\ pendingPolicies' = [a \in AddOns |-> NoPolicy]
      /\ UNCHANGED << bootEpoch, up, disabled >>
  BY <1>1 DEF Finish, CommitInv, Underway
<1>3. Serving' = Serving
  BY <1>2 DEF Serving
<1>4. /\ [s \in Slots |-> Status(s)]' \in [Slots -> {"live", "dormant", "fenced"}]
      /\ state'.owner \in [Slots -> AddOns \cup {None}]
      /\ [s \in Slots |-> Allowed(s)]' \in [Slots -> SUBSET Ops]
  <2>1. (LoadableInv =>
           /\ [s \in Slots |-> Status(s)] \in [Slots -> {"live", "dormant", "fenced"}]
           /\ state.owner \in [Slots -> AddOns \cup {None}]
           /\ [s \in Slots |-> Allowed(s)] \in [Slots -> SUBSET Ops])'
    BY AnswersType, PTL
  <2>2. QED
    BY <1>1, <2>1
<1>5. \A s \in Slots : Status(s)' = IF Eligible(tx.next, tx.next.owner[s], s)
                                    THEN "live" ELSE "dormant"
  BY <1>2 DEF Status
<1>6. \A s \in Slots : Status(s) = "fenced" <=> s \in tx.changed
  BY <1>2 DEF Status
<1>7. tx.next.generation = [s \in Slots |->
         IF Status(s) = "fenced" THEN state.generation[s] + 1 ELSE state.generation[s]]
  <2>1. \A s \in Slots : tx.next.generation[s] =
          IF Status(s) = "fenced" THEN state.generation[s] + 1 ELSE state.generation[s]
    BY <1>2, <1>6 DEF Succeeds
  <2>2. tx.next.generation \in [Slots -> Counter]
    BY <1>1 DEF TypeOK, State
  <2>3. QED
    BY <2>1, <2>2
\* Outside the fences an owner keeps its slot, its manifest and its enablement,
\* and its pending policy says what the next grants withhold.
<1>8. ASSUME NEW s \in Slots, s \notin tx.changed, NEW a \in AddOns, state.owner[s] = a
      PROVE  /\ tx.next.owner[s] = a
             /\ tx.next.manifest[a] = state.manifest[a]
             /\ state.manifest[a] \in ManifestType
             /\ a \in state.enabled => a \in tx.next.enabled
             /\ s = Primary /\ AgentRuntime \in state.grants[a] =>
                  AgentRuntime \in tx.next.grants[a]
             /\ PolicyFollows(a)
  <2>1. a # None /\ Owned(state, a) # {}
    BY <1>8, PolicyAssumption DEF Owned
  <2>2. PolicyFollows(a)
    BY <1>2, <2>1 DEF TenancyInv, WithdrawalInv, PoliciesFollow, Underway
  <2>3. Installed(state, a)
    BY <1>1, <1>8, <2>1 DEF WellFormed
  <2>4. state.manifest[a] \in ManifestType
    BY <1>1, <2>3 DEF Installed, TypeOK, State
  <2>5. tx.next.owner[s] = a /\ tx.next.manifest[a] = state.manifest[a]
    BY <1>2, <1>8, <2>1 DEF Succeeds
  <2>6. /\ a \in state.enabled => a \in tx.next.enabled
        /\ s = Primary /\ AgentRuntime \in state.grants[a] =>
                  AgentRuntime \in tx.next.grants[a]
    BY <1>2, <1>8, <2>1 DEF TenancyInv, RightsAreKept
  <2>7. QED
    BY <2>2, <2>4, <2>5, <2>6
<1>9. ASSUME NEW s \in Slots, tx.next.owner[s] # None, tx.next.owner[s] \in tx.next.enabled
      PROVE  Allowed(s)' = Granted(tx.next.manifest[tx.next.owner[s]],
                                   tx.next.grants[tx.next.owner[s]])
  <2>1. tx.next.owner[s] \in AddOns
    BY <1>1, <1>9 DEF TypeOK, State
  <2>2. ~pendingPolicies'[tx.next.owner[s]].active
    BY <1>2, <2>1 DEF NoPolicy
  <2>3. ~disabled'
    BY <1>2 DEF Serving
  <2>4. QED
    BY <1>2, <1>9, <2>2, <2>3 DEF Allowed, ProjectedDisabled, Granted
<1>10. ASSUME NEW s \in Slots, Status(s) # "fenced"
       PROVE  tx.next.owner[s] = state.owner[s] /\ Allowed(s) \subseteq Allowed(s)'
  <2>1. s \notin tx.changed
    BY <1>6, <1>10
  <2>2. tx.next.owner[s] = state.owner[s]
    BY <1>2, <2>1 DEF Succeeds
  <2>3. CASE state.owner[s] = None
    BY <2>2, <2>3 DEF Allowed
  <2>4. CASE state.owner[s] # None
    <3>1. PICK a \in AddOns : a = state.owner[s]
      BY <1>1, <2>4 DEF TypeOK, State
    <3>2. a # None
      BY <2>4, <3>1
    <3>3. CASE a \notin state.enabled
      <4>1. Allowed(s) = {}
        BY <2>4, <3>1, <3>3 DEF Allowed, ProjectedDisabled
      <4>2. QED
        BY <2>2, <4>1
    <3>4. CASE a \in state.enabled
      <4>1. Allowed(s)' = Granted(state.manifest[a], tx.next.grants[a])
        BY <1>8, <1>9, <2>1, <2>2, <3>1, <3>2, <3>4
      <4>2. PolicyFollows(a)
        BY <1>8, <2>1, <3>1
      <4>3. ~disabled
        BY <1>2 DEF Serving
      <4>4. CASE pendingPolicies[a].active
        <5>1. Allowed(s) = Granted(state.manifest[a], tx.next.grants[a])
          BY <2>4, <3>1, <3>4, <4>2, <4>3, <4>4
             DEF Allowed, ProjectedDisabled, PolicyFollows, Granted
        <5>2. QED
          BY <2>2, <4>1, <5>1
      <4>5. CASE ~pendingPolicies[a].active
        <5>1. Allowed(s) = Granted(state.manifest[a], state.grants[a])
          BY <2>4, <3>1, <3>4, <4>3, <4>5
             DEF Allowed, ProjectedDisabled, Granted
        <5>2. state.grants[a] \subseteq tx.next.grants[a]
          BY <4>2, <4>5 DEF PolicyFollows
        <5>3. Granted(state.manifest[a], state.grants[a])
                \subseteq Granted(state.manifest[a], tx.next.grants[a])
          BY <5>2 DEF Granted, DisabledOperations
        <5>4. QED
          BY <2>2, <4>1, <5>1, <5>3
      <4>6. QED
        BY <4>4, <4>5
    <3>5. QED
      BY <3>3, <3>4
  <2>5. QED
    BY <2>3, <2>4
<1>11. ASSUME Status(Primary) = "live", Status(Primary)' = "dormant"
       PROVE  Allowed(Primary) = {}
  <2>1. Primary \in Slots /\ Primary \notin tx.changed
    BY <1>6, <1>11, PolicyAssumption
  <2>2. Eligible(state, state.owner[Primary], Primary)
    BY <1>11, <2>1 DEF Status
  <2>3. PICK a \in AddOns : a = state.owner[Primary]
    BY <2>2 DEF Eligible
  <2> DEFINE m == state.manifest[a]
  <2>4. /\ tx.next.owner[Primary] = a /\ tx.next.manifest[a] = m
        /\ m \in ManifestType /\ a \in tx.next.enabled
        /\ AgentRuntime \in state.grants[a] => AgentRuntime \in tx.next.grants[a]
        /\ PolicyFollows(a)
    BY <1>8, <2>1, <2>2, <2>3 DEF Eligible
  <2>5. /\ Primary \in m.systemSlots /\ m.bound /\ m # None
        /\ RequiredOf(m, Primary) \subseteq state.grants[a]
    BY <2>2, <2>3 DEF Eligible, Installed
  <2>6. ~Eligible(tx.next, a, Primary)
    BY <1>5, <1>11, <2>1, <2>4
  <2>7. ~(RequiredOf(m, Primary) \subseteq tx.next.grants[a])
    BY <2>4, <2>5, <2>6 DEF Eligible, Installed
  <2>8. /\ AgentRuntime \in tx.next.grants[a]
        /\ ~(state.grants[a] \subseteq tx.next.grants[a])
        /\ ~(m.required \cup m.floor \subseteq tx.next.grants[a])
    BY <2>4, <2>5, <2>7, SubmittedAssumption DEF RequiredOf
  <2>9. pendingPolicies[a].active /\
        pendingPolicies[a].disabledOperations = DisabledOperations(m, tx.next.grants[a])
    BY <2>4, <2>8 DEF PolicyFollows
  <2>10. m.supported \subseteq DisabledOperations(m, tx.next.grants[a])
    BY <2>8 DEF DisabledOperations, OperationDependencies
  <2>11. /\ ~disabled /\ a \in state.enabled /\ a # None
    BY <1>2, <2>2, <2>3, PolicyAssumption DEF Serving, Eligible
  <2>12. QED
    BY <2>3, <2>9, <2>10, <2>11 DEF Allowed, ProjectedDisabled
<1>12. ASSUME NEW s \in Slots, tx.next.owner[s] = None PROVE Status(s)' = "dormant"
  BY <1>5, <1>12, PolicyAssumption DEF Eligible
<1>13. [s \in Slots |-> Status(s)]' \in [Slots -> {"live", "dormant"}]
  BY <1>5
<1>14. Primary \in Slots
  BY PolicyAssumption
<1>15. QED
  BY <1>2, <1>3, <1>4, <1>7, <1>10, <1>11, <1>12, <1>13, <1>14 DEF Tenancy!Settle

LEMMA TenancyStep == TenancyInv /\ [Next]_vars => [Tenancy!Next]_(Tenancy!vars)
<1> SUFFICES ASSUME TenancyInv, [Next]_vars
             PROVE  Tenancy!Next \/ UNCHANGED Tenancy!vars
  OBVIOUS
<1>1. CommitInv /\ LoadableInv'
  BY CommitStep DEF TenancyInv, CommitInv
<1>2. /\ bootEpoch' \in Nat
      /\ Serving' \in BOOLEAN
      /\ [s \in Slots |-> Status(s)]' \in [Slots -> {"live", "dormant", "fenced"}]
      /\ state'.owner \in [Slots -> AddOns \cup {None}]
      /\ state'.generation \in [Slots -> Nat]
      /\ [s \in Slots |-> Allowed(s)]' \in [Slots -> SUBSET Ops]
  <2>1. (LoadableInv =>
           /\ bootEpoch \in Nat
           /\ Serving \in BOOLEAN
           /\ [s \in Slots |-> Status(s)] \in [Slots -> {"live", "dormant", "fenced"}]
           /\ state.owner \in [Slots -> AddOns \cup {None}]
           /\ state.generation \in [Slots -> Nat]
           /\ [s \in Slots |-> Allowed(s)] \in [Slots -> SUBSET Ops])'
    BY AnswersType, PTL
  <2>2. QED
    BY <1>1, <2>1
<1>3. ASSUME Serving' = FALSE, bootEpoch' = bootEpoch PROVE Tenancy!Close
  BY <1>2, <1>3 DEF Tenancy!Close
<1>4. CASE Request
  BY <1>4, RequestIsFence DEF Tenancy!Next
<1>5. CASE Finish
  BY <1>5, FinishIsSettle DEF Tenancy!Next
<1>6. CASE CleanupRejected \/ WriteFails \/ RaiseFails \/ Crash
  <2>1. Serving' = FALSE /\ bootEpoch' = bootEpoch
    BY <1>6 DEF CleanupRejected, WriteFails, RaiseFails, Crash, Abort, Serving
  <2>2. QED
    BY <1>3, <2>1 DEF Tenancy!Next
<1>7. CASE Boot
  <2>1. /\ ~Serving /\ bootEpoch' = bootEpoch + 1 /\ fenced' = {}
    BY <1>7 DEF Boot, Serving
  <2>2. [s \in Slots |-> Status(s)]' \in [Slots -> {"live", "dormant"}]
    BY <2>1 DEF Status
  <2>3. Tenancy!Reboot
    BY <1>2, <2>1, <2>2 DEF Tenancy!Reboot
  <2>4. QED
    BY <2>3 DEF Tenancy!Next
<1>8. CASE \/ Observe \/ WritePending \/ CleanupSettled \/ WriteCommitted
           \/ RaiseWatermark \/ CopyDocument \/ RestoreDocument \/ DamageFile
           \/ DeleteDocument \/ UNCHANGED vars
  <2>1. UNCHANGED << bootEpoch, up, disabled, state, fenced, pendingPolicies >>
    BY <1>8 DEF Observe, WritePending, CleanupSettled, WriteCommitted,
       RaiseWatermark, CopyDocument, RestoreDocument, DamageFile,
       DeleteDocument, vars, process, disk
  <2>2. QED
    BY <2>1, AnswersUnchanged
<1>9. QED
  BY <1>4, <1>5, <1>6, <1>7, <1>8 DEF Next, Progress, Environment

\* The registry implements the tenancy contract: a slot is taken back before
\* it changes hands, a fence ends only in a higher generation, and nobody
\* loses an operation silently.
THEOREM RegistryImplementsTenancy == Spec => TenancySpec
<1>1. QED
  BY TenancyInvInit, TenancyInvStep, TenancyInit, TenancyStep, PTL
     DEF Spec, TenancySpec, Tenancy!Spec
=============================================================================
