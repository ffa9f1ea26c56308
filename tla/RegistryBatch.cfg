SPECIFICATION Spec
CONSTANTS
  A = A  B = B  None = None
  primary = primary  memory = memory
  run = run  delegate = delegate  remember = remember  tool = tool
  AddOns = {A, B}
  Slots = {primary}
  Primary = primary
  Caps = {run, delegate, tool, remember}
  AgentRuntime = run
  AgentDelegation = delegate
  SlotCapability <- PrimaryOnly
  Ops = {"createSession", "invoke"}
  Manifests <- BatchManifests
  LegacyStates <- CoreLegacy
  Faults = {}
  MaxCounter = 6
  MaxInstallations = 2
  MaxBoots = 1
CHECK_DEADLOCK FALSE
INVARIANT GrantBatchIsAtomic
