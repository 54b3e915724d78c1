SPECIFICATION Spec
PROPERTY EventuallyNothingOwed
CHECK_DEADLOCK FALSE
