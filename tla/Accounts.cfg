\* Two requests at a time over two users, two addresses and one account at a
\* provider; one login through the provider is started at a time.
CONSTANTS
    Users = {u1, u2}
    Emails = {e1, e2}
    ProviderIds = {a1}
    States = {s1}
    Requests = {c1, c2}
    NoUser = NoUser
    NoEmail = NoEmail
    NoProviderId = NoProviderId
    NoState = NoState
    MaxSecret = 2
SPECIFICATION Spec
SYMMETRY Symmetry
INVARIANTS
    AccountsTypeOK
    OneOwner
    LoggedOutStaysOut
    SessionMatchesLink
PROPERTIES
    NoHalfAccount
