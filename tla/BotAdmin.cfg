\* Two superusers edit one bot, also twice, while the core seats it.
CONSTANTS
    Bots = {b1}
    Admins = {a1, a2}
SPECIFICATION BotSpec
SYMMETRY Symmetry
INVARIANTS
    BotTypeOK
    EngineNeedsEnabled
    CoreFollowsRedis
    DisabledIsEvicted
