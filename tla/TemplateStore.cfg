SPECIFICATION Spec
CONSTANTS
    Writers = {w1, w2}
    Subjects = {s0, s1}
    Bodies = {b0, b1}
    Omitted = Omitted
    None = None
    MaxVersion = 3
INVARIANTS TypeOK EveryVersionHasARecord SequentialHistory
CHECK_DEADLOCK FALSE
