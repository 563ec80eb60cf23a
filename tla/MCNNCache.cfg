\* Three values are set, in two lives of the process, and saves fail or are cut short.
SPECIFICATION Spec
CONSTANTS
  KeySize <- MCKeySize
  FileHeaderSize = 2
  EntryHeaderSize = 3
  Settings <- MCSettings
  Sizes = {1, 4}
  MaxSets = 3
  MaxDeaths = 1
INVARIANTS
  Accounting
  GetsWhatWasSet
PROPERTIES
  FitStores
  SavesEventually
CHECK_DEADLOCK FALSE
