SPECIFICATION Spec
PROPERTIES LockEnds DueIsSent JobEnds WalkEnds Answered EditableAgain
CHECK_DEADLOCK FALSE
