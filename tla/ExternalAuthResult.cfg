SPECIFICATION Spec
CONSTANTS
    Employees = {e1}
    Admin = admin
    Identities = {i1}
    Callbacks = {c1}
    Fetches = {f1, f2}
    MaxTxn = 2
INVARIANT ResultOnce
CHECK_DEADLOCK FALSE
