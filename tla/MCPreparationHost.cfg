CONSTANTS
    Variable <- MCVariable
    Parsed <- MCParsed
    Cases <- MCCases
    Drivers = {"mqtt"}
    Inputs <- MCInputs
    MaxCalls = 4
    Documents <- MCSettling
    Members <- MCMembers
    Literals <- MCLiterals
    Containers <- MCContainers
    Entry = "entry"
    Here = "here"
    Nowhere = "nowhere"
    Scenes <- MCScenes
    MaxCloses = 1
SPECIFICATION MCSpec
INVARIANT HostIsVerbatim
CHECK_DEADLOCK FALSE
