CONSTANTS
    Scope <- MCScope
    Global = "global"
    Service <- MCService
    Types = {"string", "json"}
    Typed = {"1", "x"}
    Published <- MCPublished
    Before <- MCBefore
    Drafts <- MCDrafts
    Recent = 2
    Ahead = 2
    Key = {0, 1}
    MaxRows = 2
    MaxEdits = 2
    MaxWrites = 2
    MaxMounts = 2
    MaxJobs = 2
    MaxSteps = 4
SPECIFICATION Spec
PROPERTY
    RugStays
CHECK_DEADLOCK FALSE
