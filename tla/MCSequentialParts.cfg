\* Gallery: a phone's screen and its rotation in any frame, one finger or the
\* mouse, two gestures, a trail and a log of two.  Values: words of 26 bits,
\* numbers about zero and the limits.  Structs: up to two mistakes in each.
CONSTANTS
  Screens <- MCScreens
  Points <- MCPoints
  MaxTouches = 1
  Gestures = {0, 1, 8}
  MaxCounter = 1
  maxPoints = 2
  maxLog = 2
  WordBits = 26
  Numbers <- MCNumbers
  Payloads = {0, 1, 5, 255}
  PortFlagSets <- MCPortFlagSets
  MaxEdits = 2
SPECIFICATION PartsSpec
CHECK_DEADLOCK FALSE
INVARIANTS
  SceneStateFits
  PressedSceneStays
  TrailKeepsClearOfBack
  LayoutIsSound
  WordsAreClassified
  Decoded
  VerifiedFieldsAreInPlace
PROPERTIES
  ImplementsGallery
