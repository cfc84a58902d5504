CONSTANTS
    u1 = u1
    all = all
    rls = rls
    budgets = budgets
    stray = stray
    Tab = {t1, t2}
    User = {u1}
    Owner <- MCOwner
    Topics <- MCTopics
    All = all
    Asked = {rls, stray}
    Window = 3
    Recent = 2
    MaxAttempts = 4
SPECIFICATION Spec
INVARIANTS TypeOK DoneMeansAll WidgetAddsUp
PROPERTIES EntryIsFresh
SYMMETRY Symmetry
CHECK_DEADLOCK FALSE
