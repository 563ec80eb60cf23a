\* Any order of the calls, and one draft for each signature, run on the CPU; eight models compiled; three kinds of kernels on their own.
SPECIFICATION Spec
CONSTANTS
  Word = 64
  ImmediateBytes = 4
  MemoryBytes = 14
  SmallBytes = 4
  LargeValues = 2
  Declarations <- MCDeclarations
  Candidates <- MCCandidates
  Constants <- MCConstants
  Identifications <- MCIdentifications
  Regions <- MCRegions
  Channels <- MCChannels
  OutputDims <- MCOutputDims
  OutputLengths = {1, 8}
  Drafts <- MCDrafts
  Compilations <- MCCompilations
  CpuDevice <- MCCpuDevice
  Worst <- MCWorst
  MaxRestarts = 1
  Upgrades <- MCUpgrades
  Preferences = {0, 1}
  Graphs <- MCGraphs
  deviceCount = 3
  Calls = {}
  Detectors <- MCDetectors
  Exp <- MCExp
  Gaussian <- MCGaussian
  Cells <- MCCells
  Movers <- MCMovers
  Sigmoid <- MCSigmoid
  Activated <- MCActivated
  Normalized <- MCNormalized
  Rounded <- MCRounded
INVARIANTS
  NoLateRefusal
  ValuesAsGiven
  ReadsLiveBuffers
  AcceptedIsExecuted
  HeapIsOwned
  StepsAreTheModel
  OlderDriversUnderstand
  CachedIsSame
  DriversCannotFailIt
  KeepsTheBest
  DetectionsAreTheBest
  ComputesTheRecurrence
  ElementsAsDefined
PROPERTY
  ImplementsSchedule
CHECK_DEADLOCK FALSE
