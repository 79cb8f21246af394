SPECIFICATION Spec
CONSTANTS
    Size <- TwoFiles
    FullChunk = 1
    LastChunk <- LastChunks
    Protected = FALSE
    MaxAttempts = 1
    MaxDownloads = 0
    MaxPauses = 0
    MaxGuesses = 0
INVARIANT DoneMeansComplete
CHECK_DEADLOCK FALSE
