CONSTANTS
    a = a
    b = b
    k1 = k1
    k2 = k2
    k3 = k3
    Agents <- MCAgents
    Calls <- MCCalls
    Whitelist <- MCWhitelist
    MaxConcurrentRpc = 2
    ChannelBufferSize = 1
    MaxRegs = 2
SPECIFICATION FairBusSpec
INVARIANTS BusTypeOK PermitAccounting WaitedRequestIsPending RequestsInOnePlace
PROPERTIES EveryCallReturns ImplementsRpc
CHECK_DEADLOCK FALSE
