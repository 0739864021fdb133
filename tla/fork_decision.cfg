CONSTANTS
    a = a
    b = b
    c = c
    Agents <- MCAgents
    Registries <- MCRegistries
    MaxChain = 100
    MaxIterations = 3
    MaxMemoryEntries = 2
    MaxMemoryBytes = 3
    OutputSizes = {1, 2}
    HasPlugins = FALSE
    MaxForkTargets = 2
    MaxRuns = 1
SPECIFICATION PipelineSpec
PROPERTY FirstBranchDecides
CHECK_DEADLOCK FALSE
