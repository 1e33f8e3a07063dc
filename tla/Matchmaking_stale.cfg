\* Four queued pairs, so that one tick starts two games.
CONSTANTS
    u1 = u1
    u2 = u2
    u3 = u3
    u4 = u4
    u5 = u5
    u6 = u6
    u7 = u7
    u8 = u8
    b1 = b1
    l1 = l1
    l2 = l2
    l3 = l3
    l4 = l4
    l5 = l5
    Users = {u1, u2, u3, u4, u5, u6, u7, u8}
    Bots = {}
    LobbyIds = {l1, l2, l3, l4}
    Nobody = Nobody
    NoLobby = NoLobby
    NoEntry = NoEntry
    InviteSlots = {1}
    Disconnects = {}
    Active = {u1}
    Requests = {}
SPECIFICATION FourPairsSpec
CHECK_DEADLOCK FALSE
PROPERTIES
    OnlyQueuedAreFired
