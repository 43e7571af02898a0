SPECIFICATION ReactionSpec
CONSTANTS
    ReviewMaxNudge = 1
    MaxVersions = 1
    MaxChanges = 1
    MaxReactionFaults = 0
CHECK_DEADLOCK FALSE
PROPERTY SuppressedRefires
