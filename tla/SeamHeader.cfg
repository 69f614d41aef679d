\* An arm of a chain, its header on the first line of its span.
CONSTANTS
  Units <- MCUnits
  Menu = "own header"
SPECIFICATION Spec
CHECK_DEADLOCK FALSE
INVARIANT EchoIsAccepted
