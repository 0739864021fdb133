CONSTANTS
    a = a
    b = b
    c = c
    Agents <- MCAgents
    Registries <- MCRegistries
    MaxChain = 100
    MaxIterations = 3
    MaxMemoryEntries = 2
    MaxMemoryBytes = 3
    OutputSizes = {1, 2}
    HasPlugins = FALSE
    MaxForkTargets = 2
    MaxRuns = 1
SPECIFICATION FairPipelineSpec
INVARIANTS  PipelineTypeOK MemoryWithinLimits ForkCollectsInOrder SkippedAreTheSkippable FatalErrorsHalt ValidPipelinesMissNobody ValidPipelinesEnd
PROPERTIES ForksEnd
CHECK_DEADLOCK FALSE
