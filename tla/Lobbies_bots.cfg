\* Two humans, one bot that may be evicted, one lobby at a time; every call
\* is fair; connections drop in every call but leave and StartMatchmaking.
CONSTANTS
    u1 = u1
    u2 = u2
    b1 = b1
    l1 = l1
    Users = {u1, u2}
    Bots = {b1}
    LobbyIds = {l1}
    Nobody = Nobody
    NoLobby = NoLobby
    InviteSlots = {1, 2}
    Disconnects = {"create", "join", "seat_bot", "invite", "cleanup"}
SPECIFICATION FairSpec
CHECK_DEADLOCK FALSE
INVARIANTS
    TypeOK
    OneSeatPerHuman
    DesertedIsClosing
    QueuedHasNoInvites
    SeatedIsMapped
PROPERTIES
    KeepsMembership
    LeadershipPasses
    DesertedGoes
