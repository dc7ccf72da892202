SPECIFICATION Spec
CHECK_DEADLOCK FALSE
INVARIANTS
    NoOrphans
    SuccessIsEvidence
PROPERTIES
    DemoEnds
