SPECIFICATION Spec
CONSTANTS
    Events <- Three
    Frontends = {"web"}
    Worker = "worker"
PROPERTIES
    VerdictIsFinal
CHECK_DEADLOCK FALSE
