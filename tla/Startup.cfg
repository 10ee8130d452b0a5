SPECIFICATION Spec
CONSTANTS
  MUL = 3
  Args = {1, 2, 90}
  Garbage = {0, 7, 200}
INVARIANT GreetingOut
INVARIANT MissingReported
INVARIANT StatusTells
CHECK_DEADLOCK FALSE
