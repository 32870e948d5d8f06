\* A name of a static forwarder and one of the open internet, lists of two servers,
\* and two levels below the root servers.
CONSTANTS
    Names = {www, test}
    NoName = NoName
    StaticNames = {test}
    Modes = {"iterative", "forwarder"}
    MaxServers = 2
    MAX_RECURSION_DEPTH = 1
    Ports = {1}
    NoMsg = NoMsg
SPECIFICATION FairSpec
INVARIANTS
    QueriesBounded
    NoDangling
    LeakOnlyNegative
    AnswersQuestion
    StoredForSender
PROPERTIES
    Resolves
