CONSTANTS
    c1 = c1
    c2 = c2
    e1 = e1
    CallIds <- MCCallIds
    Events <- MCEvents
    ToolSizes <- MCToolSizes
    Seeds <- MCSeeds
    ContextLength = 8
    MaxInvocations = 2
    MaxTurns = 2
    MaxStreamRetries = 1
    MaxRetries = 1
    MaxDones = 1
SPECIFICATION FairSpec
INVARIANTS AgentTypeOK ConversationIsSound ToolsRunOnce RequestsAreSound
PROPERTIES InvocationsEnd
CHECK_DEADLOCK FALSE
