\* Every event with up to two fields off, every generated record.
SPECIFICATION Spec
CONSTANTS
    MaxDefects = 2
    Events <- DefectiveEvents
INVARIANTS ScenarioIsRouted ModelledEventIsValid ParseStatusAgrees ValidIsComplete BronzeShieldsSilver ColumnsAreValidated ReasonHasPriorityElsewhere
CHECK_DEADLOCK FALSE
