# ResonantOS: formal models, model checking and proofs

This directory holds TLA+ modules for the parts of ResonantOS 2.0.0-alpha
whose correctness depends on the order of events: who may act, what survives
a crash, what a reader is handed. Paths are relative to the repository root.

- [The system](#the-system) - components, state, operations, interactions
- [What is modelled](#what-is-modelled) - module by module, against the code
- [Runs](#runs) - what each configuration checks, its bounds and fairness
- [Proofs](#proofs) - theorems, inductive invariants, assumptions
- [Findings](#findings)
- [Not modelled](#not-modelled)
- [Plan](#plan)

## The system

ResonantOS is a Chrome extension (`browser-first/resonantos-side-panel-extension`)
and an authenticated Node bridge (`browser-first/host`). The bridge owns every
authority: it installs add-ons, records the operator's consent, lends slots to
one add-on at a time, runs agents for it and writes the user's files. The
ownership of each module is written down in
`docs/architecture/MODULE-OWNERSHIP.md`.

### The harness: governance and execution

| Component | State | Operations | Interacts with |
|---|---|---|---|
| `harness-policy.mjs` | none | replacement, capability floor, operation dependencies, hard stops | called by the registry |
| `harness-registry.mjs` | state (revision, installations, grants, owners, generations), fences, pending policies, a queue of transactions | install, importLegacy, setGrants, setEnabled, assignSlot, remove; authorize, isCurrent, assertOperation, snapshot; onFence | store below, fence listeners above |
| `harness-registry-store.mjs` | `registry.json`, a watermark in another directory | read, write, raise | file system |
| `harness-boundary.mjs` | sessions, pending creations, turns, running calls | createSession, events, invoke, cancel, history, status, modelCatalog, selectModel, dispose, retireRuntime, close | registry (authority, fences), adapters, event bus |
| `harness-event-bus.mjs` | sequence, readers with queues | publish, subscribe, next, return, close | boundary, stream consumers |
| `harness-host-service.mjs` | cached compatibility session, readiness per runtime epoch | harness routes, chat, readiness, close | boundary, runtime, registry |
| `dsh-runtime.mjs` | child process, leases, home lock | acquire, release, stop | host service, credentials |
| `harness-credentials.mjs`, `harness-transport.mjs` | one credential record per runtime epoch; open connections | begin, exchange, cleanup; request, stream | DSH runtime and adapters |
| `agent-adapters/*` | turns under way upstream | createSession, invoke, cancel, history, dispose | boundary above, transport below |

What is hard here: the registry answers questions synchronously while one of
its transactions waits for durable writes; the boundary must retire sessions
in the step that fences them, wherever their creation stands; adapters answer
late, after their authority came and went; the process dies between the two
durable writes of a commit; the user restores an old file.

### Other components of the bridge and the extension

| Component | State | Operations | What is hard |
|---|---|---|---|
| `browser-job-store.js`, `browser-job-scheduler.js`, job controllers, `agent-control-runner.js` (extension) | jobs with status and page lock, focus, executions, the action lock | submit, run, resume, continue, cancel, clear done; a pass of the scheduler; a run's loop | overlapping passes, a stop while a run waits, recovery after a reload |
| `memory-source-move.mjs`, `memory-source-settings-service.mjs` | two trees of files, ledger, manifest, settings file | preflight, execute, roll back; save settings | edits under the move, a stop of the host between a move and its ledger entry, rollback of half a move |
| `opencode-boundary.mjs`, `opencode-client.mjs`, event bus | contexts, one server, known sessions, subscriptions | start, list, use, delete, events, stop, dispose; execution switch | concurrent starts, retirement during any await, permission read before an await |
| `addon-delegation-service.mjs` | one Markdown file per packet, artifacts, audit | start, cancel, delete user data, settings | files rewritten from stale text, no lock, a crash under a run |
| `chat-session-store.js`, `chat-sync.js` (extension) | chats in memory of two surfaces and in `chrome.storage` | hydrate, send, new, switch, fork, delete, archive, projects, folders | whole-document writes over one another, late reads |
| bridge server, tokens, TLS, shutdown | sessions' tokens, list of services | request routing, close | order of shutdown |
| memory source versioning, intake | version snapshots, intake notes | snapshot, deduplicate | half a version |
| archive review, promotion, merge | review records, promoted files | request, decide, promote | a promotion of changed content |
| browser control (extension) | run loop, consent, site permissions | observe, plan, preflight, act | page changes between preflight and action |
| extension preferences | panel copy, host copy | push, pull | which copy is newer |
| provider fabric, diagnostics, wiki, SDK, interface, scripts | configuration or none | requests | nothing that depends on order |

`PROJECT.json` lists every component with its sources and the hazards at their
lines.

### What makes each component correct

- **Registry**: authority that is handed out is on disk; consent belongs to
  the manifest the operator saw; a withdrawal works at once; revision and
  generation identify what they guard; what was acknowledged survives crashes
  and restored files; a governed slot never looks unmanaged; every state it
  writes can be loaded again; every transaction settles.
- **Boundary**: no session outlives its authority, even for a moment; no answer
  or frame gets out across a gap in its permission; every turn ends visibly
  and once; every adapter is disposed of.
- **Event bus**: every reader sees a gapless run of one log, is told when it is
  cut off, and is handed nothing once the owner is no longer current.
- **DSH runtime**: a live child has its home locked, so there is never a second
  child on one home; a held lease is on the epoch in service; a fenced epoch
  brings nothing about any more; every acquire settles.
- **Browser jobs**: a job that says running has an execution; a stop is seen by
  the run and is not overwritten; a reload leaves no job running.
- **Source moves**: after any stop of the host every file that was moved is
  found from the ledger or the manifest; the bytes the owner approved are
  kept somewhere; no entry is left half copied.
- **OpenCode**: every running server belongs to the context in service or to a
  start under way, unless the code has forgotten it (see Findings); off is off, also for a request that asked before.
- **Delegation**: the status of a packet tells where its work stands, whatever
  requests overwrite; what ran is audited, or left no artifact; every request
  answers.
- **Chats**: every copy of the chats is sound and both surfaces end up showing
  what is stored; opening a surface erases nothing.

## What is modelled

```
HarnessPolicy ──extended by── HarnessRegistry ──implements──> HarnessTenancy
                                                                   │ actions of
                                                                   v
                                                           HarnessBoundary ── log of ── HarnessEventBus
                                                                                             │ implements
                                                                                             v
                                                                                        HarnessFeed

BrowserJobs  MemorySourceMove  DshRuntime  OpenCodeBoundary  AddonDelegation  ChatSessions
      └──────────────┴──────────────┴──────┬───────┴────────────────┴──────────────┘
                                      MCServices
```

The `MC` modules hold the instances. `MCBoundaryScenes` splits the boundary's
instance in two scenes, `MCServices` chooses one of six services per behaviour.
`X_proofs` holds the theorems about `X` for `HarnessRegistry`, `HarnessBoundary`,
`HarnessEventBus`, `MemorySourceMove` and `AddonDelegation`. `Extension_proofs`
holds those about the pages of the extension (`BrowserJobs`, `ChatSessions`),
`Runtimes_proofs` those about what the bridge starts (`DshRuntime`,
`OpenCodeBoundary`), and `Services_proofs` those about `MCServices`.

### HarnessPolicy: the pure decisions

A manifest is a record of what the decisions read: its id, an edition that
tells two manifests of one add-on apart, the slots it may serve and be
replaced in, the capabilities it requests, those whose loss hard-stops it,
whether it has a runtime bound to an approved endpoint, the operations it
supports, the capabilities they need. `DisabledOperations` is
`evaluateHarnessPolicy`'s list of operations, `HardStop` its decision per slot,
`UndeclaredCapabilities` the adapter's capability floor, `MigrateManifest` the
load-time upgrade of delegation consent. The list of hidden surfaces only
drives navigation and is left out.

### HarnessRegistry: the registry, its store, and what happens to its files

State: `state` is the registry's in-memory record; `document` and `watermark`
are the two files; `tx` is the transaction at the head of the queue with the
phase it has reached; `fenced`, `pendingPolicies` and `disabled` are the
variables of the same names.

A public call is one action up to its first `await` (`Install`, `SetGrants`,
...), guarded by every check that throws, and raises its fences in that step.
A call whose check throws changes nothing and is no step. The protocol then
runs `WritePending`, the listeners (`CleanupSettled` or `CleanupRejected`),
`WriteCommitted`, `RaiseWatermark` and `Finish`; a write fails before or after
its rename is visible (`WriteFails`, `RaiseFails`), and `Abort` is the
registry's self-disabling `catch`. Calls waiting in the queue have no state of
their own: the registry evaluates all their checks when they reach its head.

`Boot` is the constructor: a missing file, an acceptable committed or pending
document, or a refusal. `Crash` is possible in every state.
`CopyDocument`/`RestoreDocument` are a backup, `DamageFile` a corrupt file and
`DeleteDocument` an emptied user folder.

The operator reads snapshots (`Observe`) and decides on what was read: a
grant is only decided for an add-on the operator saw installed.
`consented`, `acknowledged`, `governedOnce` and `emptied` (the user folder was
emptied since a state was last governed) are history variables.

Decisions worth knowing:

- The snapshot of a disabled registry offers nothing to decide on, so
  `Observe` needs a serving registry.
- The watermark cannot tell a document of a former life from one of the new
  life: the user folder is emptied only once a watermark exists, and not while
  a kept copy lies above the watermark (before the first boot, or after a crash
  between a commit and its raise); nobody deletes the watermark itself.
  `registry_storage` has both an emptied folder and restored copies.
- An emptied folder boots as unmanaged (`harness-registry.mjs:91`; the test
  `harness-registry.test.mjs:699` wants it so), so `GovernanceIsSticky` makes an
  exception of it by name, until a state is governed again.
- An add-on that understates its adapter's capabilities cannot be installed
  today, but an earlier release may have left one. It may still be given a slot
  other than the primary one and loses it at the next boot
  (`harness-registry.mjs:67`), so `AuthorityIsDurable` speaks of the primary slot and of
  add-ons that declare what their adapter needs.
- Counters are bounded by the code's own safe-integer check (`RevisionFits`,
  `CanAdvance`), with `MaxCounter` in the place of 2^53 - 1.

### HarnessTenancy: what the registry promises

A slot is live, dormant or fenced. `Fence` withdraws authority over some slots
and operations, at once. `Settle` ends the fence: fenced slots enter their next
generation, no other slot changes hands or loses an operation, and the primary
holder keeps its eligibility unless every operation was denied before (a
disabled add-on's slot is always fenced; a grant can be lost without a fence
only after the policy has denied what it is for). `Close` and `Reboot` end and
begin a boot epoch. The registry is shown to implement it (`TenancySpec`), and
the boundary is built on its actions instead of on the registry's.

### HarnessBoundary: sessions over lent authority

`ctx` holds one record for each `createSession` call, through its stages:
resolving (the adapter factory works), creating (the adapter's own
`createSession` works), settling (a failed creation disposes of its adapter),
live, gone. The first three are the code's `pending` set. Authorizations are
records of holder and generation, and `Current` asks the contract about them.

A `Fence` of the contract and the boundary's listener are one step, because
the registry calls its listeners before it awaits anything; `Heard` is the
listener with both its branches. Between any two steps of a creation, a
call or a turn the registry may fence, settle, lend again, or close.

Adapters are untrusted: they answer, fail, ignore an abort or hang. A call's
race between answer, abort and deadline is `CallResolves`, `CallAnswers`,
`CallFails`; an answer that won the race is checked again a moment later, and
permission may have changed in between. A turn is queued (until the next
microtask), invoking, streaming, unwinding (a terminal frame or a stale turn
leaves the loop, and waits for the adapter's iterator) or failing (an invalid
frame waits for the same and then reports; so does an iterator that rejects
while it closes). An adapter may end its stream without a
terminal frame at any time (`TurnRunsDry`); the history field `silent` marks the
turns this happened to.

The boundary lives in memory, so it is modelled within one boot. One call per
operation runs at a time. The signature on session references is left out (it
lets a repeated `dispose` succeed and authorizes nothing). The session's bus is
a log and an open flag here; it has a module of its own. The host's adapter
factory refuses a runtime that has ended (`harness-host-service.mjs:214`).

### HarnessEventBus and HarnessFeed: the fan-out

One action per method; `next()` is four, by what it finds. Events carry a
size, and a queue is bounded in events and in bytes. Slow readers are cut off
inside `Publish`, in the order of the reader set (`place` is a reader's place in
it, 0 outside it), each with a terminal that takes a sequence number of its own.
`bytes` is the running total the code keeps; that it is the sum of the sizes
queued is an invariant (`Measures`). The owner's `isCurrent` answer may flip at
any time without the bus being told. `HarnessFeed` is the promise: one log, a
gapless run of it for every reader from the moment of subscription, one notice
when a reader is cut off.

### DshRuntime: one child per home

`epoch` has a record for each start of the child: the phase of `start`
(validating, locking, homing, reserving a port, verifying, spawned, announced),
whether it is fenced, the stage of its bounded stop (cancelling, terminating,
killing, releasing), the child, and whether its home holds the lock file. Taking
and releasing the lock may fail, which leaves the file (`TakesLock`, `Unlocks`,
`ReleasesHome`).
`lease` is what each caller of `acquire` has. Each await is a step, and each
continuation looks at the fence first (`Active`). A killed host leaves the lock
and the child behind; the next life finds both. The deadline and the grace
periods are steps that are possible whenever their timers may end. Parsing of
the announcement and file modes are left out.

### BrowserJobs: store, scheduler and runs

`job` is the live store (status and page lock), `tick` a pass of the scheduler
between its awaits, `running` its map of executions, `run` the executions with
their place in the control loop, `cmd` a command of the human between two
awaits. A pass plans from the jobs it read first; a run looks at the status of
its job between decision and action, and takes the one action lock. A reload
empties everything but the store and runs the recovery. The store saves in the
order it is asked to: whoever awaits a save goes on only after the passes whose
saves were asked for earlier (`behind`, `Saved`). A save settles, well or not.
What an action does to a page, summaries and steps are left out; "the most
recently updated job" is any job. Left out, too, is the panel's own picture of the
run it shows (`currentControlRun`, a run's `localRun`), and with it two writes to
another job than the one commanded: a page lock being prepared releases the page
of a conflicting job whose shown run is over
(`side-panel-control-command-controller.js:90`), and a pause or cancel finishes the
shown run (`app-command-handlers.js:535`, `642`), which after a change of focus may
be that of a job already finished.

### MemorySourceMove: a move with a ledger

`source` and `managed` give the version of each file in either tree, `op` the
move or the rollback under way, `hashes` what was computed for each file,
`ledger` and `manifest` the files on disk. `oneVolume` chooses between a rename
and copy-check-unlink. The human edits a file at any step (`MaxEdits`), the host
stops at any await (`MaxStops`), another request reads and writes the settings
(`saver`); `settings` and `saver` take part in no property, they are there so that
a save under way is interleaved as in the code. A hash is the version it was computed of. Every read, copy, rename
and unlink may fail (`Compares` is a read whose result is compared); a failure
after the copy undoes the one file if it can, and a restore goes on with the
files it can restore.

### OpenCodeBoundary: contexts, requests and the switch

A context is one generation of the boundary. Its start is a chain of awaits
(waiting for predecessors, ensuring the server, gate, event stream, gate), and
a request is a chain of gates and waits (`then` names the continuation). A
gate reads the switch of local execution at one step and uses the answer at a
later one, only in the same generation. Retirement (`Retires`) is one step: the
code fences, closes the streams and kills the server before it awaits. The
switch is modelled with its latch, its file, failing writes and damage. Of the
singleton client only ensure, exit and kill are kept, and OpenCode itself is
its list of sessions; adoption by process id is left out. A start may fail once
its server is up, because the record of its process cannot be written
(`opencode-client.mjs:327`): the client forgets such a server without ending it,
and the model calls it a stray.

### AddonDelegation: one packet

`packet` is the text on disk: a status line, blank between the truncation and
the write of a `writeFile` (readers take that for queued), and whether it names
an artifact. `work` has one record per request, with the text it read before
the last await; `purge` is one deletion of user data with the list it made.
`calm` says that no file operation failed and the host was not restarted; `lost`
that the error of an execution carries no record of it (`ReturnsUnread`: the CLI
left a result that is missing or no JSON). That the record is lost as well when the
sandbox profile cannot be removed after the run is left out. Hermes
and OpenCode packets have the same life and share only the audit file, so one
packet of either is modelled.

### ChatSessions: two surfaces, one storage

`held` is what each open surface has in memory, `stored` the document,
`due` and `reads` the hydrations a surface has to begin and those that have read
and are not used yet. Every change writes the whole document. Titles, pins and
attachments are left out. `belongs` (which message was said where) and `apart`
(a surface has changed something since the other's last write) are history
variables.

## Runs

Model values stand for add-ons, readers, contexts and callers; nothing compares
them except for equality. Deadlock is not checked: a bounded number of boots,
events, turns or calls ends every behaviour, and the bridge may stop.

| Run | Configuration | Checks |
|---|---|---|
| registry_core | two add-ons, one slot, crashes, failing writes, 2 boots, counters below 6 | `TypeOK`, `StatesAreLoadable`, `AuthorityIsDurable`, `TokensIdentifyState`, `WithdrawalIsImmediate` |
| registry_storage | one add-on in two editions; crashes, backups, damaged files, an emptied user folder, documents of an earlier release; 2 boots | `GrantsAreConsented`, `AcknowledgedSurvives`, `GovernanceIsSticky` |
| registry_slots | an add-on with two slots and one with the second only, crashes | `TenancySpec`, `TransactionsSettle` |
| registry_batch | one batch that grants and revokes; expected to fail | `GrantBatchIsAtomic` |
| bus | two readers, four events of one or two bytes | `TypeOK`, `SequencesNameEvents`, `NothingStale`, `FeedSpec`, `ReadersAreReleased` |
| boundary | scene "sessions": two creations, two holders, one runtime epoch; scene "work": one session, one call, two turns, logs of 3 | `TypeOK`, `SessionsAreCurrent`, `AdaptersAreReleased`, `OutputHeldAuthority`, `TurnsEndOnce` |
| services | the six services, see below | `ServicesTypeOK`; jobs: `RunningHasOwner`, `StopsAreSeen`, `StopsAreKept`; moves: `LedgerCoversMoves`, `ApprovedBytesAreKept`, `EntriesStayWhole`; runtime: `ChildrenHoldTheHome`, `HeldLeasesAreServed`, `FencedStaysDown`; OpenCode: `ServersAreOwned`, `OffIsOff`; delegation: `StatusTellsWork`, `ExecutionsAreAudited`; chats: `CopiesAreSound`, `OthersFollow` |
| services_liveness | runtime, OpenCode and delegation under fairness | `AcquireSettles`, `RequestsEnd`, `RequestsAnswer` |
| jobs_stop | the jobs of services with one command more; expected to fail | `OneStepAfterStop` |
| delegation_purge | the packet of services; expected to fail | `RunningPacketsAreKept` |
| delegation_audit | the packet of services; expected to fail | `EachRunIsAudited` |
| chat_launch | the chats of services; expected to fail | `LaunchErasesNothing` |

**Bounds.** *Registry.* Install, grant, assign takes three revisions; below 6
there is room for a withdrawal, a replacement or a removal after it and for the
refused increment at the end, and two boots let a transaction of the first be
interrupted and be found by the second. *Boundary.* Between generations a
slot is lent, fenced, lent again to somebody else and to the first holder again,
the shortest history in which an old authorization could be taken for a new
one; two contexts against one place make a creation wait for a retired one. Two
turns are enough for one turn's late frames to meet the next. A log of three
holds a delta, a terminal and a cancellation that crossed it. The two scenes
keep the product of sessions and work apart: work reads no other session, and
what is shared between them, the allowed operations and the fences, is in both.
*Bus.* A queue of two events or three bytes with events of one and two bytes lets
either bound bite first; four events overflow a queue after it was partly
drained. The number of readers never exceeds `MaxReaders` in this run, so the
refusal of one subscription too many is not reached.

*Services.* The six services share no state, so a behaviour of `MCServices` is a
behaviour of one of them while the others stay as they began (`Parts`); this
loses nothing and makes one run of six. Jobs: two jobs on one page, two passes
and two runs at once, two actions per run, three commands or reloads (`MaxActs`;
a fourth in jobs_stop: two submissions, a cancel, Clear done). Moves: two
files, so one can be moved and the other not; one edit, one stop, two
executions (the second finds what the first left), one settings save. Runtime:
two callers, two epochs, one restart of the host. OpenCode: `SafetyBounds` gives
the combinations of calls, context starts and changes of the switch; two calls
with one start and a change of the switch reach a permission withdrawn in every
gate, one call with two changes a permission withdrawn and given back while it is
under way, three calls with two starts a late server whose successor waits for it,
and a session created, used and deleted. Delegation: `SafetyLoads`
combines starts, cancels, a deletion and incidents, two or three of them at a
time. Chats: `SafetyVisits`, up to three changes, two surfaces, one failing
call of the storage.

**Fairness.** registry_slots assumes that the transaction at the head of
the queue moves: durable writes return or fail, and the only listener that
waits, the boundary's, is bounded by `cleanupTimeoutMs` (a listener that never
settles would stop the queue; the run assumes it away). bus assumes of a consumer that
it keeps pulling until its stream ends, which is what its property is about.
services_liveness assumes of the host that its continuations run, that timers
fire, that file operations return or fail, that a killed process dies, and that
a call to OpenCode or to a delegation CLI ends (both have a timeout or an abort
in the code); it assumes nothing of when the human acts, of a child that was not
killed, or of an exit.

Every property has a mutant in `PROJECT.json`: a plausible slip in one mapped
definition with which the property fails under the same configuration.

## Proofs

TLC checks small instances; the theorems below hold for every value of the
constants that satisfies the named assumptions, with the bounds of the runs
(readers, contexts, epochs, turns, jobs, files, edits, stops, boots) as
arbitrary parameters. Each inductive invariant was checked by TLC before it was
proved, and each theorem is `Spec => []...` or, for an action property or a
refinement, `Spec => ...`.

| Module | Theorem | Property | Inductive invariant |
|---|---|---|---|
| `HarnessRegistry_proofs` | `TypeCorrect` | `TypeOK` | `TypeOK` |
| | `AcknowledgedIsKept` | `AcknowledgedSurvives` | `SurvivalInv` |
| | `Loadable` | `StatesAreLoadable` | `LoadableInv` |
| | `WithdrawalTakesEffect` | `WithdrawalIsImmediate` | `WithdrawalInv` |
| | `PureGrantsWait` | (invariant, no run) | `BatchInv` |
| | `AuthorityIsOnDisk` | `AuthorityIsDurable` | `DurableInv` |
| | `GovernanceSticks` | `GovernanceIsSticky` | `GovernanceInv` |
| | `TokensAreSound` | `TokensIdentifyState` | `TokenInv` |
| | `ConsentIsGiven` | `GrantsAreConsented` | `ConsentInv` |
| | `RegistryImplementsTenancy` | `TenancySpec` (refinement) | `TenancyInv` |
| `HarnessBoundary_proofs` | `BoundaryTypeCorrect` | `TypeOK` | `BoundaryInv` |
| | `SessionsStand` | `SessionsAreCurrent` | |
| | `OutputIsEntitled` | `OutputHeldAuthority` | |
| | `AdaptersGo` | `AdaptersAreReleased` | |
| | `TurnsAreEnded` | `TurnsEndOnce` | |
| `HarnessEventBus_proofs` | `BusTypeCorrect` | `TypeOK` | `BusInv` |
| | `NumbersNameEvents` | `SequencesNameEvents` | |
| | `NothingStaleIsHanded` | `NothingStale` (action) | |
| | `BusImplementsFeed` | `FeedSpec` (refinement) | |
| `Extension_proofs` | `RunningIsOwned` | `RunningHasOwner` | `JobsInv` |
| | `StopsTakeHold` | `StopsAreSeen` | |
| | `StopsStand` | `StopsAreKept` (action) | |
| | `CopiesStaySound` | `CopiesAreSound` | `ChatInv` |
| | `SurfacesFollow` | `OthersFollow` | |
| | `OnlyDeletionErases` | (action, no run) | |
| `MemorySourceMove_proofs` | `LedgerIsEnough` | `LedgerCoversMoves` | `MoveInv` |
| | `ApprovedBytesSurvive` | `ApprovedBytesAreKept` (action) | |
| | `EntriesEndWhole` | `EntriesStayWhole` (action) | |
| `Runtimes_proofs` | `HomesAreLocked` | `ChildrenHoldTheHome` | `HomeInv` |
| | `LeasesAreServed` | `HeldLeasesAreServed` | `LeaseInv` |
| | `FencesHold` | `FencedStaysDown` (action) | `HomeInv` |
| | `NoServerIsLost` | `ServersAreOwned` | `OpenCodeInv` |
| | `OffStaysOff` | `OffIsOff` (action) | |
| `AddonDelegation_proofs` | `StatusIsTrue` | `StatusTellsWork` | `DelegationInv` |
| | `AuditIsComplete` | `ExecutionsAreAudited` | |
| `Services_proofs` | `ServicesStandAlone` | (each service's specification) | |
| | `ServicesTypeCorrect` | `ServicesTypeOK` | |

`ServicesStandAlone` says that a behaviour of the services side by side is one of
each of them, so the theorems about a service are about the run `services`. With
the type theorem of each service (`JobsTypeCorrect`, `ChatTypeCorrect`,
`MoveTypeCorrect`, `DshTypeCorrect`, `OpenCodeTypeCorrect`,
`DelegationTypeCorrect`) it gives `ServicesTypeCorrect`.

Two theorems say what holds of a promise that a run refutes. `PureGrantsWait`: an
operation that runs ahead of the commit of its grant rests on the one decision
under way, and that decision also withdraws something from the add-on, so a batch
that only grants is atomic. `OnlyDeletionErases`: a chat leaves the storage only
with a write of one surface, and if that surface had nothing more to read and had
changed nothing since the last write of another, only as the chat its human
deletes.

**Assumptions.** Most only type the constants. Those that say more:

- `PolicyAssumption` and `SubmittedAssumption` (`HarnessPolicy`): the manifests
  are those a human can submit, and each requests the capability of every slot it
  serves (`validateManifest` refuses others).
- `RegistryAssumption` and `LegacyAssumption` (`HarnessRegistry`): a document
  left by an earlier release is well formed, was written after a first revision,
  holds grants only with an installation and a generation for every owner.
- `TokensAreSound` excludes the faults `restore` and `delete`: with an exchanged
  document a number can be used twice, and the watermark only refuses older ones.
- `ConsentIsGiven` excludes failing writes when the document may be exchanged. A
  boot that cannot raise the watermark serves all the same, and with an emptied
  folder revisions then repeat (see Findings).
- `BoundaryAssumption`, `JobsAssumption`: `None` is not one of the things it
  stands beside. `JobsAssumption` and `MoveAssumption` number jobs and files,
  whose order the code fixes; a move has finitely many files.

**Why the invariants have to be stronger.**

- *Registry.* `TypeOK` is inductive only because `RevisionFits` and `CanAdvance`
  refuse the increments that would leave the counters, and because `Acceptable`
  bounds what loading adds. `AcknowledgedSurvives` says nothing of a process that
  is down; `WatermarkCovers` does (the watermark, unless damaged, covers what was
  acknowledged). `LoadableInv` has to speak of the user's backup, too.
  `PoliciesFollow` bridges the time between a decision and its commit, when the
  old grants are still in memory. `CommitInv` is the protocol: at each phase of a
  transaction, what memory, queue and disk hold, and that the next state succeeds
  the present one (`Succeeds`: one revision more, a new generation exactly for
  the slots the transaction changes). The rest is built on it: `OnDisk` (the document a
  crash would find has the owners and generations of every unfenced slot),
  `CopiesAreOlder` (a backup is never ahead of the document, and equal only when
  it is the same), `ViewsPrecede` (what the operator read comes from this history)
  and `ConsentHolds` (memory, transaction, document and backup agree with the
  consents given for the very manifests they hold, as far as a boot would serve
  them).
- *Tenancy.* Under the refinement mapping, a request is `Fence`, `Finish` is
  `Settle`, an aborted transaction is `Close`, a boot `Reboot`, and everything
  else stutters. That a settled slot keeps the rights of its holder is the one
  fact the contract demands and no phase states (`RightsAreKept`).
- *Boundary.* `BoundaryInv` is stated context by context (`Sound`), so that a
  step of a session only has to keep one, and a fence of the registry has one
  argument for all. `Standing` is the heart: a context that is not retired has
  its authority now, and work that nobody aborted may still be done; `Entitled`
  says that it had it without a gap. `Spoken` counts terminal events, and marks
  the turns that ran dry.
- *Bus.* `Following` ties what an open reader was handed and has queued to the
  end of the log, which gives the gapless run `FeedSpec` promises; `Cut` and
  `Told` say what is left after an overflow. `Placed` keeps places distinct, so
  that the terminals of several readers cut off by one event take different
  numbers. That the bytes sum up is kept by a lemma on sequences with a running
  total (`Measured`), as the sum itself would be a recursive operator.
- *Jobs.* `AllOwned` splits an execution that has yet to settle its job from one
  that only has to leave the map, and a pass that has marked its job from one that
  is focusing it. `Seen` says where a run may stand after an action under a stop:
  on a path that looks at the status before it acts again, or without a job in the
  store. All writes of the machine keep both because of what one `updateJob` does.
- *Move.* `StageFits` says what the operation has done, stage by stage: before the
  file under way the ledger has exactly the earlier files, each with the approved
  bytes in managed memory; `OneAway` that at most one file is in neither the
  source nor the ledger, whatever a stop left behind. Files are taken least first
  and put back greatest first, so the proof needs that a finite set of numbers has
  a least and a greatest element (by well-founded induction over its subsets).
- *DSH runtime.* `AccountedFor` follows the lock file through every phase of a
  start and every stage of a stop; `Served` ties a held lease to the epoch in
  service.
- *OpenCode.* A context waits for the earlier ones (`InTurn`), at most one server
  is up and it is the singleton's entry (`OneUp`), owned by the context in service
  or by a start that waits for it (`EntryOwned`); and a call past a gate has either
  seen every switching-off or is about to find its generation retired
  (`CallFits`), which is why no call acts after execution was switched off.
- *Chats.* A surface writes back what it once read, so the copies that are not
  yet in memory count as much as the stored one: `AllFit` bounds every one of
  them by what was made and said so far (`Fits`), which also makes the numbers a
  surface gives to its new chats new. `AllFollow` speaks of the last read under
  way: as long as none is to begin, it found what is stored now. Every change
  ends in one `persist`, so an action only has to say what it makes of the memory
  (`EndsInWrite`), and `WriteFits` is the one argument for what comes of it.
- *Delegation.* `Proven` and `WorkFits` tie what a request is about to write to
  what it has done; `Alone` follows the one start nobody interferes with, for
  which the audit is complete.

Three errors of the models were found by attempts at these proofs and corrected:
the deletion of the user folder had to leave out a kept copy above the watermark,
`AuthorityIsDurable` had promised too much for add-ons of an earlier release, and
the undo of a half-moved file could never happen because no read, rename or unlink
could fail.

**Model-checked only.** Every liveness property (`TransactionsSettle`,
`ReadersAreReleased`, `AcquireSettles`, `RequestsEnd`,
`RequestsAnswer`): liveness under fairness is beyond the prover. Every other
property of a passing run has a theorem. The properties that the code breaks have
runs that show it; what the proofs say about them is above.

## Findings

- **A mixed grant batch is not atomic** (`registry_batch`). `setGrants`
  publishes the policy of the next grants before anything is written. When the
  batch withdraws one capability and grants another, an operation that only
  needs the new one is allowed from that moment, before the pending record is
  on disk; `docs/architecture/MODULE-OWNERSHIP.md` line 49 says "atomic explicit
  grant batches". Only such mixed batches run ahead (`PureGrantsWait`).
- **A cancelled and cleared job goes on** (`jobs_stop`). A run looks its job up
  to see whether it was stopped (`agent-control-runner.js:425`); a job that is
  not in the store counts as not stopped. Cancel and Clear done, while the run
  waits for its next decision, leave a run that acts on.
  `agent-control-runner.js:440` says "No further browser actions ran after stop."
- **A deletion of user data removes a running packet** (`delegation_purge`). The
  status is read once in the listing (`addon-delegation-service.mjs:1026`,
  refused at 1046) and the files are removed later (1069);
  `docs/addons/addon-lifecycle-uninstall-design.md:112` says cleanup refuses
  running packets.
- **An execution that leaves no readable result is not audited**
  (`delegation_audit`). `runHermesCliDelegation` reads and parses the result after
  the CLI has run (`addon-delegation-service.mjs:1824`), and the error of either
  carries no record of the run, without which nothing is appended (`:1250`, from
  `:1958`); `docs/browser-first-bridge-setup-runbook.md:132` says "Each run appends
  a governance audit entry". Such an execution has made no artifact, which is what
  `ExecutionsAreAudited` and `AuditIsComplete` claim of it.
- **A message sent before the first hydration erases the stored chats**
  (`chat_launch`). The submit handlers are bound (`side-panel.js:1361`,
  `main-workspace.js:1024`) before the stored chats are read
  (`side-panel.js:1371`, `main-workspace.js:1157`), and `persist`
  (`chat-session-store.js:198`) writes what the surface holds.
  `browser-first/test/chat-session-store.test.mjs:119` is titled "... starts a
  fresh blank session on app launch without erasing history". What does hold is
  the theorem `OnlyDeletionErases`.

Behaviours that have no run of their own, kept in the models as they are:

*Harness*

- A boot that cannot raise the watermark serves all the same
  (`harness-registry.mjs:85` says why). If the user folder is emptied after
  that, revisions repeat, and a snapshot taken before may be decided on as if it
  were current (run registry_storage with `"io"` added to its faults).
- A turn can have two terminal events: a cancellation that crosses its final
  frame or is repeated, or an error reported because the adapter's iterator
  rejects its `return()` after the final frame (`harness-boundary.mjs:183`).
  `TurnsEndOnce` allows exactly these. The adapters in the repository
  never reject there.
- An adapter factory or an adapter's `createSession` that never settles keeps
  its place in the session limit: contexts may stay in resolving or creating for
  ever. A disposal is waited for no longer than `cleanupTimeoutMs`, and its failure
  is swallowed (`harness-boundary.mjs:145`); the model takes it for one step, so
  `AdaptersAreReleased` says that it is called once and in time, not that the
  adapter does its part.
- A turn whose adapter ends its stream without a terminal frame is over without a
  word (`harness-boundary.mjs:176`); `TurnsEndOnce` excepts exactly these turns.
- A `close` of the DSH runtime that races a start can leave the lock file
  (`dsh-runtime.mjs:280`, `340`), and a child that cannot be spawned or whose
  exit is not confirmed, or a home that cannot be released (`:261`), blocks the
  runtime until the host restarts.

*Services*

- Two overlapping passes of the scheduler each plan from the jobs they read, and
  may run two jobs on one page (`browser-job-scheduler.js:73`). Queued jobs are
  not resumed after a reload, and `/resume` leaves a queued job without a lock.
- An edit between the last comparison and the unlink of a copied file is lost
  (`memory-source-move.mjs:243`): `ApprovedBytesAreKept` speaks of the bytes the
  owner approved, and lets the last copy of them go only when the source holds a
  newer version. Two saves of the memory settings overwrite one another
  (`memory-source-settings-service.mjs:277`, `295`).
- A delegation whose outcome cannot be recorded twice in a row stays "running"
  (`addon-delegation-service.mjs:2018`), and one whose CLI is timed out answers
  before the process has ended (`:1714`). Until a rewritten packet's text
  arrives it reads as queued.
- An OpenCode server whose start fails after it became healthy runs on as nobody's
  (`opencode-client.mjs:245`, `327`). `ServersAreOwned` excepts these strays.
- An OpenCode `list` whose answer predates a concurrent `start` removes the new
  session from the context, and its awaits let a context know more sessions than
  the limit.
- Two surfaces that change chats at the same time lose one of the changes
  (`OthersFollow` excludes a surface that has changed something of its own). A
  failed read of the storage is taken for an empty one. The active chat after a
  deletion may be an archived one, and archiving a project makes the next
  hydration drop its chats' project.

## Not modelled

- Formats, validation of single fields, signatures, HTTP and TLS: checks on one
  value, with no history.
- Concurrency of two bridge processes on one user folder. The registry assumes
  it is alone.
- Of the partly modelled components, what their sections above leave out.
- Every component whose status in `PROJECT.json` is `not_modelled`, with its
  reason: interface, scripts and examples; text processing; request-response
  services without a protocol; and what the plan below still has to reach. By
  lines this is most of the repository: `contracts.ts`, the React and
  side-panel interfaces, the documentation and self-test scripts keep no state
  across steps. Their text is not what the models are about.

## Plan

1. Governance: policy, registry, store, tenancy contract. **Done.**
2. Sessions: event bus and feed, boundary over the tenancy contract. **Done.**
3. `BrowserJobs`: store, scheduler, runs and stops. **Done.**
4. `MemorySourceMove`: moves with a ledger, and the settings. **Done.**
5. `DshRuntime`: leases, epochs, the home lock, the bounded stop. **Done.**
6. `OpenCodeBoundary`, `AddonDelegation`, `ChatSessions`. **Done.**
7. The host service over one cached session, credentials of one epoch, and the
   DSH adapter's settlement of turns, composed from the boundary's and the
   runtime's promises.
8. Preference arbitration (which copy is newer), provenance of OpenCode's
   events, source versioning and intake, archive review, the chat turn
   controller, preflight and consent of the browser control loop.

Theorems next: those of the modules of 7 and 8; every safety property, action
property and refinement of the present runs has one. The liveness properties stay
with TLC.
