SPECIFICATION Spec
CONSTANTS
    Docs <- MCDocs
    Blank <- MCBlank
    Spaces <- MCSpaces
    Titles <- MCTitles
    EntityTypes <- MCEntityTypes
    Mentions <- MCMentions
    Links <- MCLinks
    Clusters <- MCClusters
    Flaky <- MCFlaky
    Inputs <- MCInputsBlank
    Claims = TRUE
    FlushSize = 2
    MaxRuns = 3
    MaxFailures = 0
    None = None
    Dummy = Dummy
CHECK_DEADLOCK FALSE
INVARIANT
    IndexReplacesTextUnits
