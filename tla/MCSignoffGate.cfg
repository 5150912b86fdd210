SPECIFICATION Spec
CONSTANTS
    NRuns = 2
    Ids = {"c1", "c2"}
    Roles <- TheRoles
    Docs <- TheDocs
    Required <- TheRequired
    Lines <- TheLines
    DispatchInputs <- TheDispatches
    ResultInputs <- TheResults
    RunOf <- TheRunOf
    MaxUpsets = 1
CHECK_DEADLOCK FALSE
INVARIANTS AcceptedIsBacked OwnOutputIsTaken
PROPERTIES PassIsComplete
