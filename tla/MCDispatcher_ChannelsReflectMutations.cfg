CONSTANTS
    NodeInfo = NodeInfo
    Channels = Channels
    OpenChannel = OpenChannel
    Keys <- MCKeys
    PollOrder <- MCPollOrder
    FetchKeys <- MCFetchKeys
    ConnectFetches <- MCFetchKeys
    ChannelsKey = Channels
    RefetchKeys <- MCRefetchKeys
    ValidatedKeys <- MCValidatedKeys
    Native = TRUE
    MaxConnects = 2
    MaxSpawns = 1
SPECIFICATION Spec
INVARIANT ChannelsReflectMutations
