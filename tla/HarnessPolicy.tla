--------------------------- MODULE HarnessPolicy ---------------------------
(***************************************************************************)
(* The pure policy of the harness host: what a manifest asks for, what its *)
(* adapter reaches whatever the manifest says, which operations a set of   *)
(* grants leaves usable, and which revocations stop a slot's owner.        *)
(*                                                                         *)
(* A manifest is a record of the facts the policy reads.  A grant list is  *)
(* the set of requested capabilities whose "granted" flag is true.  The    *)
(* hidden-surface projection only drives navigation and is left out.       *)
(***************************************************************************)
EXTENDS Naturals, FiniteSets

CONSTANTS
  AddOns,            \* add-on identities
  Slots,             \* system slots
  Primary,           \* the primary-agent slot
  Caps,              \* capabilities
  AgentRuntime,      \* the agent-runtime capability
  AgentDelegation,   \* the agent-delegation capability
  SlotCapability,    \* the capability each slot requires of its owner
  Ops,               \* harness operations
  Manifests,         \* the manifests callers submit
  None               \* null

ManifestType ==
  [ id           : AddOns,
    edition      : Nat,                  \* tells two manifests of one id apart
    systemSlots  : SUBSET Slots,         \* declared slots
    replaceable  : SUBSET Slots,         \* ... of which replaceable
    requests     : SUBSET Caps,          \* requested capabilities
    hardStop     : SUBSET Caps,          \* ... revoked with a hard stop
    runtime      : BOOLEAN,              \* names an agent runtime
    bound        : BOOLEAN,              \* ... with a reviewed adapter and binding
    supported    : SUBSET Ops,
    required     : SUBSET Caps,          \* agentRuntime.requiredCapabilities
    floor        : SUBSET Caps,          \* what the named adapter reaches
    toolNeeds    : [Ops -> SUBSET Caps] ]\* what the operation's tool requires

ASSUME PolicyAssumption ==
  /\ Primary \in Slots
  /\ AgentRuntime \in Caps
  /\ AgentDelegation \in Caps
  /\ SlotCapability \in [Slots -> Caps]
  /\ Manifests \subseteq ManifestType
  /\ None \notin AddOns
  /\ None \notin ManifestType

\* What validateAddOnManifest demands of every manifest a caller submits: a
\* declared slot comes with a request for the capability behind it.
ASSUME SubmittedAssumption ==
  /\ SlotCapability[Primary] = AgentRuntime
  /\ \A m \in Manifests : \A slot \in m.systemSlots : SlotCapability[slot] \in m.requests

-----------------------------------------------------------------------------

ReplacementAllowed(m, slot) == slot \in m.systemSlots \cap m.replaceable

UndeclaredCapabilities(m) == m.floor \ m.requests

OperationDependencies(m, op) == m.required \cup m.floor \cup m.toolNeeds[op]

DisabledOperations(m, granted) ==
  { op \in m.supported : ~ OperationDependencies(m, op) \subseteq granted }

\* A revocation stops the slot's owner when the grant says so, or when it is
\* the primary agent's right to run.
HardStop(m, granted, revoked, slot) ==
  \E c \in (revoked \cap m.requests) \ granted :
     c \in m.hardStop \/ (slot = Primary /\ c = AgentRuntime)

(***************************************************************************)
(* Loading adds the runtime request a delegation-era manifest lacks, always *)
(* ungranted and always hard-stop.                                         *)
(***************************************************************************)
NeedsRuntimeRequest(m) ==
  /\ Primary \in m.systemSlots
  /\ AgentRuntime \notin m.requests
  /\ AgentDelegation \in m.requests

MigrateManifest(m) ==
  IF NeedsRuntimeRequest(m)
  THEN [m EXCEPT !.requests = @ \cup {AgentRuntime},
                 !.hardStop = @ \cup {AgentRuntime}]
  ELSE m
=============================================================================
