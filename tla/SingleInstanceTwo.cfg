\* The message of the constructor, against a start during an exit.
SPECIFICATION Spec
CONSTANTS
  Process = {p1, p2, p3}
  File = {f1, f2, f3}
  Systems = {"linux"}
  None = none
INVARIANT OnlyOneInstance
CHECK_DEADLOCK FALSE
