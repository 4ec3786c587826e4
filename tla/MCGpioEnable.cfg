CONSTANTS
  Buttons = {0, 1, 2}
  Crowd = 1
SPECIFICATION DemoSpec
INVARIANT EnabledAtBothLevels
