SPECIFICATION TerminalSpec
CONSTANTS
  eX_KEYBOARD_BUFFER_SIZE = 4
  Scancodes <- MCScancodes
  KBC_CAPACITY = 2
  Columns = 2
  Pitch = 2
  Rows = 2
  Garbled = Garbled
  eX_SHELL_BUFFER_SIZE = 3
  Prompt <- MCPrompt
  Help <- MCHelp
  HelpText <- MCHelpText
  Clear <- MCClear
  Version <- MCVersion
  VersionText <- MCVersionText
  UnknownText <- MCUnknownText
  MaxBytes = 5
INVARIANTS
  TranscriptExact
PROPERTIES
  LostOnlyInBursts
  EverythingHandled
