SPECIFICATION Spec
CONSTANTS
  MaxWindows = 2
  MaxOutputs = 2
INVARIANT PresentationInv
INVARIANT FullscreenAsAnswered
INVARIANT RestoredWhenShown
INVARIANT RaisedHasKeyboard
PROPERTY StacksInOrder
CHECK_DEADLOCK FALSE
