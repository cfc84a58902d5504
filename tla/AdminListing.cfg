CONSTANTS
    PerPage = 2
    MaxPages = 3
    MaxUsers = 6
SPECIFICATION Spec
INVARIANTS MissesNoMoreThanRemoved CandidatesWereDue
CHECK_DEADLOCK FALSE
