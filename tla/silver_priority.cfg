\* Events with two fields off against the whole catalogue.
SPECIFICATION Spec
CONSTANTS
    MaxDefects = 2
    Events <- DefectiveEvents
INVARIANTS ReasonHasPriority
CHECK_DEADLOCK FALSE
