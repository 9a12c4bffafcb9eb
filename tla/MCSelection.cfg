\* Every login message ends the selection, so the last state has no next step.
SPECIFICATION Spec
CONSTANTS
    NotGiven = NotGiven
    Modules <- MCModules
    ServerLists <- MCServerLists
    ClientLists <- MCClientLists
    UrlLists <- MCClientLists
    ServerNames = {"", "PLAIN", "SCRAM-SHA-256", "GSSAPI"}
    ClientNames = {"PASSWORD", "PLAIN", "GSSAPI", "unknown"}
INVARIANTS
    SelectionTypeOK
    UrlDecidesCommandLineRestricts
    PlainIsLastResort
CHECK_DEADLOCK FALSE
