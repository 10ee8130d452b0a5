SPECIFICATION Spec
CONSTANT MaxSent = 2
INVARIANT Served
PROPERTY Filters
PROPERTY KilledInTheEnd
CHECK_DEADLOCK FALSE
