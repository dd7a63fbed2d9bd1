\* Two flows, three sets of filters of which any may be installed at any moment, a
\* channel for one job, a client whose server hangs.
SPECIFICATION Spec
CONSTANTS
    Flows = {"f1", "f2"}
    Traffic <- Exchanges
    FilterSets <- Installations
    Responses <- Answers
    Clients = {"fast", "slow"}
    Hanging = {"slow"}
    QueueSize = 1
INVARIANTS
    TypeOK
    GlobSound
    ChainResult
    NoStaleIntegrity
PROPERTY
    JobsServed
CHECK_DEADLOCK FALSE
