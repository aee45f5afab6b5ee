CONSTANTS
    Name = {"a", "b"}
    Home = "a"
    Id = {1, 2}
    First = 1
    User = {"me", "u"}
    Me = "me"
    Text = {0, 1}
    Blank = 0
    MaxJobs = 2
    MaxSteps = 2
SPECIFICATION Spec
INVARIANTS
    TypeOK
    QuietMeansCurrent
    
    BlockHolds
CHECK_DEADLOCK FALSE
