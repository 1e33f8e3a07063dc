\* A user, an old and a new connection, two marks of the core in flight; the
\* actions about a user never read what is kept about another one.
CONSTANTS
    Users = {u1}
    Conns = {c1, c2}
    NoConn = NoConn
    MaxMarks = 2
SPECIFICATION PresenceSpec
INVARIANTS
    PresenceTypeOK
    AvailableIsExact
PROPERTIES
    NobodyElseReleases
    LockFollowsConnection
    LostConnectionEnds
    IdleBecomesAvailable
