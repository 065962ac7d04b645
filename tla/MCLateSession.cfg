SPECIFICATION Spec
CONSTANTS
    a = a
    b = b
    Conn = {a, b}
    NoConn = NoConn
INVARIANT
    DrainedStaysEmpty
CHECK_DEADLOCK FALSE
