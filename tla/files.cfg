SPECIFICATION FtSpec
CONSTANTS
  Total = 2
  MaxAttempts = 2
  MaxConn = 2
  Download <- OneDownload
  MaxCrash = 1
  Expires = TRUE
CHECK_DEADLOCK FALSE
INVARIANTS FtTypeOK SentIsStored  ReceivedIsComplete
PROPERTIES UploadEnds
