SPECIFICATION ServicesSpec
CHECK_DEADLOCK FALSE
INVARIANTS
  ServicesTypeOK
  PurgeLosesNothing
  PublishedAsRecorded
  StudioKeepsItsWork
  
  OneDownloader
  ToolReportsTheEnd
  LinksAndFilesAgree
PROPERTIES
  OnlyForCause
  WorkersReport
