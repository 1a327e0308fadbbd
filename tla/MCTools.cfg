CONSTANTS
    w1 = w1
    w2 = w2
    s1 = s1
    out = out
    Absent = Absent
    Names = {"a", "b", "k"}
    Images = {out}
    PageWidth = 2
    PageLines = {2}
    SkillWidth = 3
    MaxFiles = 2
    Paths <- MCPaths
    Zone <- MCZone
    Resolved <- MCResolved
    Retargets <- MCRetargets
    Initial <- MCInitial
    Width <- MCWidth
    Patches <- MCPatches
    ForeignTexts <- MCForeignTexts
    Scenarios <- MCScenarios
    TaskIds = {"t"}
    MaxLog = 2
    Capture = 2
    Inline = 1
    MaxServers = 2
    MaxTools = 2
    Threshold = 2
    Listing <- MCListing
SPECIFICATION Spec
INVARIANT FilesTruthful  McpTruthful
PROPERTY CallsStayAdmitted 
CHECK_DEADLOCK FALSE
