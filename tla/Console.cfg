SPECIFICATION ConsoleSpec
CONSTANTS
    Name = {"a", "b"}
    Id = {1, 2}
    Version = {"", "v"}
    Reported <- MCReported
    Chosen = {"b"}
    Details <- MCDetails
    MaxJobs = 2
    MaxSteps = 2
    MaxFaults = 2
    MaxCounted = 2
    Token = {1}
    Filter = {"", "a"}
    Registered = {"a"}
INVARIANT CardsAddUp
PROPERTIES PollingCatchesUp NothingSpinsForever EmbeddedKeepsToken
CHECK_DEADLOCK FALSE
