SPECIFICATION Spec
CONSTANTS
  Columns = 4
  Pitch = 5
  Rows = 4
  Garbled = Garbled
  eX_SHELL_BUFFER_SIZE = 4
  Prompt <- MCPrompt
  Help <- MCHelp
  HelpText <- MCHelpText
  Clear <- MCClear
  Version <- MCVersion
  VersionText <- MCVersionText
  UnknownText <- MCUnknownText
  Input <- MCInput
  MaxRow = 3
INVARIANTS
  TypeOK
  PromptTracksLine
  LineOnScreen
PROPERTIES
  ImplementsLineEditor
  OutsideOnlyBelow
