\* Four humans, a bot and one lobby that is being formed, queued and played.
CONSTANTS
    u1 = u1
    u2 = u2
    u3 = u3
    u4 = u4
    u5 = u5
    u6 = u6
    u7 = u7
    u8 = u8
    b1 = b1
    l1 = l1
    l2 = l2
    l3 = l3
    l4 = l4
    l5 = l5
    Users = {u1, u2, u3, u4}
    Bots = {b1}
    LobbyIds = {l1}
    Nobody = Nobody
    NoLobby = NoLobby
    NoEntry = NoEntry
    InviteSlots = {1}
    Disconnects = {"create", "join", "seat_bot", "invite", "leave", "cleanup",
                   "enqueue", "queued"}
    Active = {u1, u2, u4}
    Requests = {"create", "invite", "answer", "leave"}
SPECIFICATION FormingSpec
SYMMETRY Outsiders
CHECK_DEADLOCK FALSE
INVARIANTS
    MatchTypeOK
    QueuedIsControllable
PROPERTIES
    DissolvedOnlyDeserted
