CONSTANTS
    d1 = d1
    d2 = d2
    n1 = n1
    n2 = n2
    p = p
    q = q
    f1 = f1
    f2 = f2
    s1 = s1
    s2 = s2
    s3 = s3
    Fork = fork
    NoTarget = none
    Entry = s1
    Dirs <- MCDirs
    AgentNames <- MCAgentNames
    MaxEdits = 2
    Plugins <- MCPlugins
    Builtins <- MCBuiltins
    Manifests <- MCManifests
    MaxPluginEdits = 2
    Slots <- MCSlots
    PluginOf <- MCPluginOf
    Behavior <- MCBehavior
    SlotTurns <- MCSlotTurns
    Edges <- MCEdges
    MaxTransitions = 2
    MaxSchemaRetries = 2
SPECIFICATION HostSpec

INVARIANT EditsAreServed
CHECK_DEADLOCK FALSE
