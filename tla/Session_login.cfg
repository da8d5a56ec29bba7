SPECIFICATION Spec
CONSTANTS
    Conn = {k1, k2}
    Token = {t1, t2}
    Worker = {w1, w2}
    ClientWorkers = 2
    MaxLoad = 2
    MaxEvents = 1
    MaxTimers = 1
    Absent = Absent
    None = None
SYMMETRY Symmetry
INVARIANT TypeOK
INVARIANT ConnectedOnce
INVARIANT Agreement
INVARIANT WaitIsTimed
CHECK_DEADLOCK FALSE
