\* A human with three bots, two humans each partnered by a bot, and four bots;
\* one call may be cancelled.
CONSTANTS
    LineUps <- LineUpsInPlay
    ColorFlip = FALSE
    MaxMoves <- FewMoves
    MaxDrops = 1
SPECIFICATION FairGameSpec
CHECK_DEADLOCK FALSE
INVARIANTS
    GameTypeOK
    ClockOfMover
    GameIsTimed
    QuietAfterEnd
PROPERTIES
    MoverHasTurn
    DecidedOnce
    GameComesToAnEnd
