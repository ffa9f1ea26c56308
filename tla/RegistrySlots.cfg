SPECIFICATION FairSpec
CONSTANTS
  A = A  B = B  None = None
  primary = primary  memory = memory
  run = run  delegate = delegate  remember = remember  tool = tool
  AddOns = {A, B}
  Slots = {primary, memory}
  Primary = primary
  Caps = {run, delegate, remember, tool}
  AgentRuntime = run
  AgentDelegation = delegate
  SlotCapability <- BothSlots
  Ops = {"createSession", "invoke"}
  Manifests <- SlotManifests
  LegacyStates <- CoreLegacy
  Faults = {"crash"}
  MaxCounter = 6
  MaxInstallations = 2
  MaxBoots = 1
CHECK_DEADLOCK FALSE
PROPERTIES
  TenancySpec
  TransactionsSettle
