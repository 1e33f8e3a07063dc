\* Invitees accept while others accept the same seat, or leave.
CONSTANTS
    u1 = u1
    u2 = u2
    u3 = u3
    l1 = l1
    Users = {u1, u2, u3}
    Bots = {}
    LobbyIds = {l1}
    Nobody = Nobody
    NoLobby = NoLobby
    InviteSlots = {1}
    Disconnects = {}
SPECIFICATION Spec
CHECK_DEADLOCK FALSE
INVARIANTS
    MappedIsSeated
