CONSTANTS
    r1 = r1
    r2 = r2
    ToolCalls <- MCCalls
    CallLists <- MCCallLists
    FunctionOf <- MCFunctionOf
    MaxMessages = 4
    Protocols = {"openai", "anthropic", "gemini", "gemini_sse", "other"}
    Answers <- MCAnswers
    MaxHuge = 1
    Resolvers <- MCResolvers
    Names <- MCNames
    Normal <- MCNormal
    Catalog <- MCCatalog
    CatalogAliases <- MCAliases
    Defaults <- MCDefaults
    Slashed <- MCSlashed
    KnownVars <- MCKnown
    External = {"X"}
    EnvVars = {"A", "B"}
    Custom <- MCCustom
    MaxSets = 1
    MaxCalls = 2
    NoKey = NoKey
    ContextLengths = {2, 8}
    SafetyMargin = 2
    Contributors <- MCContributors
    Small = {"s"}
    Large = {"l"}
    SectionTokens = {0, 3}
    InputTokens = {0, 2}
    MaxProviders = 2
    MaxPending = 1
    MaxDay = 1
    KeepDays = 0
    Values <- MCJson
    Documents <- MCDocuments
    RuleLists <- MCRuleLists
    NumberOf <- MCNumberOf
    BoolOf <- MCBoolOf
    IndexOf <- MCIndexOf
    TextOf <- MCTextOf
    Within <- MCWithin
    Epsilon = 2
    MaxJsonDepth = 2
    MaxForkTargets = 2
SPECIFICATION CoreSpec
SYMMETRY SymmetricResolvers
INVARIANTS StreamIsFaithful TurnsSurvive  PromptFits
    RoutingIsExact
CHECK_DEADLOCK FALSE
