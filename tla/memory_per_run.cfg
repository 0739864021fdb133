CONSTANTS
    a = a
    b = b
    c = c
    Agents <- MCAgents
    Registries <- MCRegistries
    MaxChain = 100
    MaxIterations = 3
    MaxMemoryEntries = 2
    MaxMemoryBytes = 100
    OutputSizes = {1}
    HasPlugins = FALSE
    MaxForkTargets = 2
    MaxRuns = 2
SPECIFICATION PipelineSpec
PROPERTY EntriesAreCountedPerRun
CHECK_DEADLOCK FALSE
