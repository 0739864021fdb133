CONSTANTS
    a = a
    k1 = k1
    k2 = k2
    Agents <- MCAgents
    Calls <- MCCalls
    Whitelist <- MCWhitelist
    MaxConcurrentRpc = 1
    ChannelBufferSize = 1
    MaxRegs = 2
SPECIFICATION MicroSpec
INVARIANT FailedSpawnIsUnregistered
CHECK_DEADLOCK FALSE
