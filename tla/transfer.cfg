SPECIFICATION FairSpec
CONSTANTS
    Size <- TwoFiles
    FullChunk = 1
    LastChunk <- LastChunks
    Protected = TRUE
    MaxAttempts = 2
    MaxDownloads = 1
    MaxPauses = 1
    MaxGuesses = 2
INVARIANTS TypeOK WrittenIsPrefix FilesInOrder DoneIsDelivered StartIsAccepted

CHECK_DEADLOCK FALSE
PROPERTIES DownloadSettles UndisturbedCompletes
