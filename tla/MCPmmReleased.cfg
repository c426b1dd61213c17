SPECIFICATION Spec
CONSTANTS
  PMM_PAGE_SIZE = 2
  PMM_MAX_PAGES = 4
  WORD = 16
  Types = {Usable, Reserved}
  USABLE = Usable
  Reserved = Reserved
  MemoryMaps <- SingleMaps
  NoResponse = NoResponse
  Addresses = {0, 2, 3, 4, 6, 8}
  MaxAllocs = 3
INVARIANT UsableFramesReleased
