CONSTANTS
  Texts <- MCTexts
  Apps = {"A", "Q"}
  StackFrames = 4
SPECIFICATION Spec
INVARIANT ReturnsOrAborts
