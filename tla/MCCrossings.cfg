CONSTANTS
  Data = {a, b}
  Zero = a
  Depth = 4
  AddrWidth = 3
  Half = 2
  Top = 3
  Loads = {2}
SPECIFICATION MCSpec
INVARIANTS NoOverrun OneInterruptEach
PROPERTIES ImplementsQueue FullClears ImplementsPointers InterruptsRecur
