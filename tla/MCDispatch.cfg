SPECIFICATION Spec
CONSTANTS
    Index <- MCIndex
    Segments <- MCSegments
    ReadonlySegs = {"ls"}
    Unmemorable = {"rm"}
    Egress = {"push"}
    SafeWrites = {"mkdir"}
    Paths = {"in", "out"}
    Workspace = {"in"}
    AutoApprove = {"Read"}
    AlwaysAsk = {}
    DefaultAction = "ask"
    Scripts <- MCScripts
    SwitchTo = {"Default", "AutoMode"}
    AnswerScopes = {"Session", "Project"}
    Bypass = FALSE
    MaxParallel = 1
    MaxSwitches = 1
INVARIANTS
    RanWithConsent
    AwaitedIsShown
    OpenRequestHasOwner
CHECK_DEADLOCK FALSE
PROPERTIES
    LearnsWhatWasAllowed
    StopEndsCalls
