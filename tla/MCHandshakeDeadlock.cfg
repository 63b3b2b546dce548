SPECIFICATION FairHandshakeSpec
CONSTANTS
    Lengths = {1}
    MaxPayloads = 1
    MaxTransports = 2
    MaxClientFrames = 2
PROPERTY AttemptsTaken
CHECK_DEADLOCK FALSE
