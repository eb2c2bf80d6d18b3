SPECIFICATION Spec
INVARIANT IndexingServedWhileUp
CHECK_DEADLOCK FALSE
