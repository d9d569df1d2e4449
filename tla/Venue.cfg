SPECIFICATION AuditSpec
VIEW AuditView
SYMMETRY Symmetry
CONSTANTS
    Participants = {c1, c2}
    Cids = {a, b}
    EmptyCid = none
    Prices = {1, 2}
    Quantities = {1, 2}
    OrderIds = {1, 2, 3, 4}
    SoftCap = 3
    Messages <- MCMessages
INVARIANTS TypeOK NotCrossed TablesMatch DroppedLeavesNothing SelfMatchUnreachable PoolBounded ReportsTruthful
PROPERTIES RecordsFinal FillsFair CancelAnswersAgree
CHECK_DEADLOCK FALSE
