SPECIFICATION Spec
CONSTANTS
    None = None
    Absent = Absent
    Emp = {e1, e2}
    Base = {jane}
    Email = {m1, m2}
    Worker = {w1, w2}
    MaxSuffix = 2
SYMMETRY Alike
INVARIANTS
    TypeOK
    LoginFollowsEmployee
