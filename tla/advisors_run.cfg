CONSTANTS
  MaxItems <- MCMaxItems
  MaxFaults = 1
SPECIFICATION Spec
INVARIANTS TypeOK LessonsHeeded
