\* Three changes to two files; the executor came to a Sanic worker without its
\* timestamps.
SPECIFICATION FairSpec
CONSTANTS
  File = {1, 2}
  Spawned = TRUE
  MaxClock = 4
INVARIANTS
  TypeOK
  EditsAreNoticed
  RegisteredUnlessCutShort
PROPERTIES
  SavedFilesAreServed
