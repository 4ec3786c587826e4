CONSTANTS
  Buttons = {1, 2}
  Crowd = 2
SPECIFICATION DemoSpec
INVARIANT GatewaysReopen
