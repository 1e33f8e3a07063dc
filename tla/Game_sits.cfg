\* A bot captures, and its opponent answers at once.
CONSTANTS
    LineUps <- TeamOfBots
    ColorFlip = TRUE
    MaxMoves <- FewMoves
    MaxDrops = 0
SPECIFICATION GameSpec
CHECK_DEADLOCK FALSE
INVARIANTS
    BotIsAwake
