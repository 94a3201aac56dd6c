\* Writes of the setting under power losses and refused commands.
CONSTANTS
  Slopes <- MCSlopes
  InitialSectors <- MCSectors
  Refusals = TRUE
  None = None
SPECIFICATION FairSpec
INVARIANT TypeOK
PROPERTIES ProgramsErased SettingStored SetEnds
