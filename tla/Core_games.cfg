SPECIFICATION CoreSpec
CONSTANTS
  MaxGames = 2
  InitOutcomes = {"CreateVM", "AllocateRam", "MapRam", "MapFlash", "Done"}
  BiosSizes = {0, 1, 2, 3, 8, 9}
  FlashUnits = 8
  OptionDefs <- option_defs_us
  Length <- MCLength
  NoString = NoString
INVARIANTS
  NoUseAfterFree
  GuestMemoryLive
  NothingLeaked
  LoadedMirrored
  NoNullCall
  NothingKept
  TextFits
  OptionsComplete
PROPERTIES
  LoadReturns
CHECK_DEADLOCK FALSE
