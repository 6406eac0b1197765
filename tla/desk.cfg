SPECIFICATION DeskSpec
CHECK_DEADLOCK FALSE
INVARIANTS
  DeskTypeOK
  KeptAsPromised
  TableFollowsTheLoop
  DoneAsAnswered
  AnnouncedIsWhole
  SubtitlesLookTheSame
PROPERTIES
  WaitsEnd
