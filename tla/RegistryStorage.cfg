SPECIFICATION Spec
CONSTANTS
  A = A  B = B  None = None
  primary = primary  memory = memory
  run = run  delegate = delegate  remember = remember  tool = tool
  AddOns = {A}
  Slots = {primary}
  Primary = primary
  Caps = {run, delegate, tool}
  AgentRuntime = run
  AgentDelegation = delegate
  SlotCapability <- PrimaryOnly
  Ops = {"createSession", "invoke"}
  Manifests <- ConsentManifests
  LegacyStates <- StorageLegacy
  Faults = {"crash", "delete", "restore", "damage"}
  MaxCounter = 5
  MaxInstallations = 2
  MaxBoots = 2
CHECK_DEADLOCK FALSE
INVARIANTS
  GrantsAreConsented
  AcknowledgedSurvives
  GovernanceIsSticky
