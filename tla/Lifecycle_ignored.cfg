SPECIFICATION Spec
CONSTANTS
  MaxGames = 1
  InitOutcomes = {"CreateVM", "AllocateRam", "MapRam", "MapFlash", "Done"}
  BiosSizes = {1}
  FlashUnits = 4
INVARIANT TrueMeansComplete
CHECK_DEADLOCK FALSE
