SPECIFICATION Spec
CONSTANTS
  Half = 8
  Unset = Unset
INVARIANT NamedBusIsOpened
CHECK_DEADLOCK FALSE
