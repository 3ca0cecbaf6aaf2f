SPECIFICATION FairSpec
CONSTANTS
    Frame <- MCFrame
    Length = 3
    MaxBatch = 2
    AuthOn = {TRUE, FALSE}
    ApiKey = "key"
    NoKey = ""
    Keyspace = {"cache", "other"}
    Default = "cache"
    Nothing = "nothing"
INVARIANTS TypeOK AnswersInOrder StoreFollowsRequests NothingLeftUnanswered
PROPERTIES ReadIsAnswered
CHECK_DEADLOCK FALSE
