SPECIFICATION Spec
CONSTANTS
    Passwords = {p1, p2}
    Logins = {l1}
    Changes = {c1}
    MaxHashes = 3
    MaxTokens = 0
INVARIANT PasswordStays
CHECK_DEADLOCK FALSE
