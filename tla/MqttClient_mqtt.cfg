\* one client on two interfaces, the loop's own task and an application that
\* runs pending events, a queue of two, work items that may be refused
SPECIFICATION FairSpec
CONSTANTS
    QueueCapacity = 2
    MaxClients = 1
    MaxSubs = 1
    Netifs = {"sta", "ap"}
    Sta = "sta"
    Filters <- MCFilters
    Topics <- MCTopics
    Configs = {{"config"}}
    PostResults = {TRUE, FALSE}
    Rebinding = FALSE
    MaxToken = 4
CHECK_DEADLOCK FALSE
INVARIANTS LoopIsAwake DeliveriesAreDue
PROPERTIES TruthIsTold ComesBack
