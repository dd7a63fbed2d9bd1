\* Two flows and a tunnel, a channel of two events, lists trimmed beyond two rows.
SPECIFICATION Spec
CONSTANTS
    Packets = {1, 2, 3}
    Tunnels = {3}
    Sessions <- CaptureSessions
    Queries <- SearchQueries
    Texts <- FullTexts
    Labels = {"mark"}
    MaxRows = 2
    TrimRows = 1
    Page = 2
    MaxResults = 2
    ExternalCommands = TRUE
    ChannelCap = 2
    MaxInputs = 2
    NoId = 0
INVARIANTS
    TypeOK
    IndexSound
    SearchShowsMatches
    TabIsOfDetail
PROPERTIES
    SelectionKeepsPacket
    CompletedIsShown
CHECK_DEADLOCK FALSE
