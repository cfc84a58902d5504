CONSTANTS
    Request = {r1, r2, r3}
    Reaper = reaper
    Conns = {c1, c2}
    Subject = {s1, s2}
    NoSub = none
SPECIFICATION Spec
INVARIANTS OwnIdentity CleanPool ServedToTheEnd GracefulExit
PROPERTIES UsesPool StopsWhenTold
