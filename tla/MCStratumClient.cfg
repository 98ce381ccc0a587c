SPECIFICATION ForgottenSpec
CONSTANTS
    MaxNotify = 2
    MaxFound = 1
    ResultDepth = 1
    ByteMod = 2
    WordBytes = 2
    Sizes = {1, 3}
INVARIANTS NoNotifyWaits WorkMovesForward
PROPERTIES ExtranonceRolls MinerRefilled SharesSubmitted UnwantedEnds
