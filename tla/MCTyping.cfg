SPECIFICATION TypingSpec
CONSTANTS
  eX_KEYBOARD_BUFFER_SIZE = 3
  Scancodes <- AllBytes
  KBC_CAPACITY = 5
  A = A
  LShift = LShift
  RShift = RShift
  Caps = Caps
  Insert = Insert
  KeypadEnter = KeypadEnter
  Keys = {A, LShift, RShift, Caps, Insert, KeypadEnter}
  MakeCode <- MCMake
  BreakCode <- MCBreak
  MaxStrokes = 4
INVARIANTS
  CapsLockIsShiftForLetters
  DecodedAsTyped
  ModifiersFollowKeys
PROPERTY ImplementsQueue
