SPECIFICATION Spec
CONSTANTS
  A = A  B = B  None = None
  primary = primary  memory = memory
  run = run  delegate = delegate  remember = remember  tool = tool
  AddOns = {A, B}
  Slots = {primary}
  Primary = primary
  Caps = {run, delegate, tool}
  AgentRuntime = run
  AgentDelegation = delegate
  SlotCapability <- PrimaryOnly
  Ops = {"createSession", "invoke"}
  Manifests <- CoreManifests
  LegacyStates <- CoreLegacy
  Faults = {"crash", "io"}
  MaxCounter = 6
  MaxInstallations = 2
  MaxBoots = 2
CHECK_DEADLOCK FALSE
INVARIANTS
  TypeOK
  StatesAreLoadable
  AuthorityIsDurable
  TokensIdentifyState
  WithdrawalIsImmediate
