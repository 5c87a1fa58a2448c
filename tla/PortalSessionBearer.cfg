SPECIFICATION Spec
CONSTANTS
    Passwords = {p1}
    Logins = {l1}
    Changes = {c1}
    MaxHashes = 2
    MaxTokens = 1
INVARIANT NoBearerSurvives
CHECK_DEADLOCK FALSE
