SPECIFICATION DownloadsSpec
CONSTANTS
    Chunks = 4
INVARIANTS
    ExtractsWhatWasVerified
    ReturnIsFinal
    NoErrorWithoutCause
PROPERTIES
    DownloadReturns
    CsvDownloadReturns
CHECK_DEADLOCK FALSE
