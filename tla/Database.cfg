CONSTANTS
  Subs = {s1, s2}
  Emails = {e1}
  CardIds = {c1, c2}
  MaxUsers = 2
  MaxAttempts = 1
  User = {u1}
  Org = {o1, o2, o3}
  Tx = {t1, t2, t3}
SPECIFICATION MCSpec
SYMMETRY Symmetry
INVARIANTS OwnRowsOnly AddressKept AtMostOnePrimary
PROPERTY TargetIsPrimary
CHECK_DEADLOCK FALSE
