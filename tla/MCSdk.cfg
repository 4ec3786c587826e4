CONSTANTS
  Seeds <- MCSeeds
  Iterations = 2
  Number_Of_Runs = 12
  Buttons = {1, 2}
  Crowd = 1
SPECIFICATION Spec
INVARIANTS Validated BackToOriginal NoItemLost ShouldBe NoUpdateLost NeverExits
PROPERTY PressesServed
