------------------------------ MODULE Accounts ------------------------------
(***************************************************************************)
(* Accounts and sessions: the requests of AuthService that write           *)
(* (services/backend/services/auth.py), the edit of UserService, and the   *)
(* database and Redis under them.                                          *)
(*                                                                         *)
(* A request is one database transaction at READ COMMITTED.  An action is  *)
(* the code from one query, Redis command or call of the provider to the   *)
(* next.  The session commits when the dependency of the request is closed *)
(* (shared/database/main.py), which is after the response was sent.        *)
(***************************************************************************)
EXTENDS Naturals, FiniteSets

CONSTANTS
    Users,          \* ids of rows of users
    Emails,         \* addresses; a username is unique like an address
    ProviderIds,    \* accounts at one third-party provider
    States,         \* OAuth states, each the key of one login at a time
    Requests,       \* BOUND: requests that run together
    NoUser, NoEmail, NoProviderId, NoState,
    MaxSecret       \* BOUND: changes of a user's secret

ASSUME AccountsAssumption ==
    /\ NoUser \notin Users
    /\ NoEmail \notin Emails
    /\ NoProviderId \notin ProviderIds
    /\ NoState \notin States
    /\ MaxSecret \in Nat

VARIABLES
    email,          \* users.email; NoEmail: there is no such row
    secret,         \* users.secret, as the number of its changes
    links,          \* auth_providers that are not deleted, <<account, user>>
    invalidated,    \* Redis: invalidated_access_token:<user>
    oauth,          \* Redis: oauth_state:<state>, who started what
    registrations,  \* accounts with a registration token that is not expired
    req             \* the requests

vars == <<email, secret, links, invalidated, oauth, registrations, req>>

(* Redis: an OAuth login that was started.                                 *)
Payload == [intent : {"none", "authenticate", "link"},
            user : Users \cup {NoUser}]

NoPayload == [intent |-> "none", user |-> NoUser]

(* wrote: what the transaction flushed and did not commit.                 *)
(* drops: the accounts whose links an unlink loaded.                       *)
(* stale: HISTORY: a link of its account was deleted since it looked.      *)
Request == [kind : {"none", "register", "callback", "complete", "unlink",
                    "logout_all", "edit"},
            pc : {"none", "delete", "identity", "account", "email",
                  "insert_user", "insert_link", "edit_user", "links", "drop",
                  "redis", "secret", "respond", "commit"},
            intent : {"none", "authenticate", "link"},
            state : States \cup {NoState},
            user : Users \cup {NoUser},
            account : ProviderIds \cup {NoProviderId},
            email : Emails \cup {NoEmail},
            wrote : SUBSET {"user", "link", "drop", "secret"},
            drops : SUBSET ProviderIds,
            stale : BOOLEAN]

Idle == [kind |-> "none", pc |-> "none", intent |-> "none", state |-> NoState,
         user |-> NoUser, account |-> NoProviderId, email |-> NoEmail,
         wrote |-> {}, drops |-> {}, stale |-> FALSE]

Exists(u) == email[u] # NoEmail

(* The last part is the foreign key of auth_providers.                     *)
AccountsTypeOK ==
    /\ email \in [Users -> Emails \cup {NoEmail}]
    /\ secret \in [Users -> 0..MaxSecret]
    /\ links \subseteq ProviderIds \X Users
    /\ invalidated \subseteq Users
    /\ oauth \in [States -> Payload]
    /\ registrations \subseteq ProviderIds
    /\ req \in [Requests -> Request]
    /\ \A a \in ProviderIds, u \in Users : <<a, u>> \in links => Exists(u)

----------------------------------------------------------------------------
Set(c, r) == req' = [req EXCEPT ![c] = r]

Goto(c, pc) == Set(c, [req[c] EXCEPT !.pc = pc])

(* The request ends without a commit: an exception, or the process dies.   *)
End(c) == Set(c, Idle)

Begin(c, kind, pc) ==
    /\ req[c] = Idle
    /\ Set(c, [Idle EXCEPT !.kind = kind, !.pc = pc])

BeginFor(c, kind, pc, u) ==
    /\ Exists(u)
    /\ req[c] = Idle
    /\ Set(c, [Idle EXCEPT !.kind = kind, !.pc = pc, !.user = u])

(* A row of users or auth_providers that another transaction has written   *)
(* and not committed: a statement that meets it waits.                     *)
RowLocked(c, u) ==
    \E d \in Requests \ {c} :
        req[d].user = u /\ req[d].wrote \cap {"user", "secret"} # {}

DropPending(c, a) ==
    \E d \in Requests \ {c} : "drop" \in req[d].wrote /\ a \in req[d].drops

(* The unique indexes.  A key that an open transaction inserts, or gives   *)
(* up, makes the statement wait.                                           *)
EmailPending(c, e) ==
    \E d \in Requests \ {c} :
        "user" \in req[d].wrote /\ (req[d].email = e \/ email[req[d].user] = e)

EmailTaken(u, e) == \E v \in Users \ {u} : email[v] = e

LinkPending(c, a) ==
    DropPending(c, a)
    \/ \E d \in Requests \ {c} : "link" \in req[d].wrote /\ req[d].account = a

Linked(a) == \E u \in Users : <<a, u>> \in links

(* Mutant: no unique index over the links that are not deleted.            *)
NeverTaken(a) == FALSE

LinkTaken(a) == Linked(a)

----------------------------------------------------------------------------
(* register, and the first half of oauth_complete                          *)

BeginRegister(c) ==
    /\ Begin(c, "register", "insert_user")
    /\ UNCHANGED <<email, secret, links, invalidated, oauth, registrations>>

(* Mutant: the new user is committed at once.                              *)
InsertUserCommits(c, u, e) ==
    /\ req[c].pc = "insert_user"
    /\ ~Exists(u)
    /\ \A d \in Requests : req[d].user # u
    /\ ~EmailPending(c, e)
    /\ ~EmailTaken(u, e)
    /\ email' = [email EXCEPT ![u] = e]
    /\ Set(c, [req[c] EXCEPT
              !.user = u, !.email = e,
              !.pc = IF req[c].kind = "complete" THEN "insert_link" ELSE "respond"])
    /\ UNCHANGED <<secret, links, invalidated, oauth, registrations>>

(* UserRepository.create.  A conflict is reported and rolls back.          *)
InsertUser(c, u, e) ==
    /\ req[c].pc = "insert_user"
    /\ ~Exists(u)
    /\ \A d \in Requests : req[d].user # u
    /\ ~EmailPending(c, e)
    /\ IF EmailTaken(u, e) THEN End(c)
       ELSE Set(c, [req[c] EXCEPT
              !.user = u, !.email = e, !.wrote = @ \cup {"user"},
              !.pc = IF req[c].kind = "complete" THEN "insert_link" ELSE "respond"])
    /\ UNCHANGED <<email, secret, links, invalidated, oauth, registrations>>

----------------------------------------------------------------------------
(* Login through a provider                                                *)

(* A state is a fresh token: no request refers to it.                      *)
OAuthStart(s, intent, u) ==
    /\ oauth[s] = NoPayload
    /\ \A c \in Requests : req[c].state # s
    /\ IF intent = "link" THEN u \in Users \ invalidated /\ Exists(u) ELSE u = NoUser
    /\ oauth' = [oauth EXCEPT ![s] = [intent |-> intent, user |-> u]]
    /\ UNCHANGED <<email, secret, links, invalidated, registrations, req>>

(* oauth_state_lifetime has passed.                                        *)
StateExpires(s) ==
    /\ oauth[s] # NoPayload
    /\ oauth' = [oauth EXCEPT ![s] = NoPayload]
    /\ UNCHANGED <<email, secret, links, invalidated, registrations, req>>

(* oauth_callback: GET.  Without a payload the state is invalid.           *)
GetState(c, s) ==
    /\ req[c] = Idle
    /\ oauth[s] # NoPayload
    /\ Set(c, [Idle EXCEPT !.kind = "callback", !.pc = "delete", !.state = s,
                           !.intent = oauth[s].intent, !.user = oauth[s].user])
    /\ UNCHANGED <<email, secret, links, invalidated, oauth, registrations>>

(* DEL, which does not tell whether the state was still there; then the    *)
(* callback of another provider is refused.                                *)
DeleteState(c) ==
    /\ req[c].pc = "delete"
    /\ oauth' = [oauth EXCEPT ![req[c].state] = NoPayload]
    /\ \/ Set(c, [req[c] EXCEPT !.pc = "identity", !.state = NoState])
       \/ End(c)
    /\ UNCHANGED <<email, secret, links, invalidated, registrations>>

(* fetch_identity: an account, and an address if it is verified.           *)
FetchIdentity(c) ==
    /\ req[c].pc = "identity"
    /\ \E a \in ProviderIds, e \in Emails \cup {NoEmail} :
          Set(c, [req[c] EXCEPT !.pc = "account", !.account = a, !.email = e])
    /\ UNCHANGED <<email, secret, links, invalidated, oauth, registrations>>

(* oauth_complete with a registration token.                               *)
BeginComplete(c, a) ==
    /\ req[c] = Idle
    /\ a \in registrations
    /\ Set(c, [Idle EXCEPT !.kind = "complete", !.pc = "account", !.account = a])
    /\ UNCHANGED <<email, secret, links, invalidated, oauth, registrations>>

(* get_by_account finds the link of the account to u.                      *)
FindsLink(c, u) ==
    /\ req[c].pc = "account"
    /\ <<req[c].account, u>> \in links
    /\ \/ /\ req[c].intent = "authenticate"
          /\ Set(c, [req[c] EXCEPT !.pc = "respond", !.user = u])
       \/ req[c].intent = "link" /\ u = req[c].user /\ Goto(c, "respond")
       \/ req[c].intent = "link" /\ u # req[c].user /\ End(c)
       \/ req[c].kind = "complete" /\ End(c)
    /\ UNCHANGED <<email, secret, links, invalidated, oauth, registrations>>

FindsNoLink(c) ==
    /\ req[c].pc = "account"
    /\ ~Linked(req[c].account)
    /\ Goto(c, CASE req[c].kind = "complete" -> "insert_user"
                 [] req[c].intent = "link" -> "insert_link"
                 [] OTHER -> "email")
    /\ UNCHANGED <<email, secret, links, invalidated, oauth, registrations>>

(* Mutant: no address matches no address.                                  *)
FindsAnyEmail(c, u) ==
    /\ req[c].pc = "email"
    /\ email[u] = req[c].email
    /\ Set(c, [req[c] EXCEPT !.pc = "insert_link", !.user = u])
    /\ UNCHANGED <<email, secret, links, invalidated, oauth, registrations>>

(* A verified address of a user: the account is linked to that user.       *)
FindsEmail(c, u) ==
    /\ req[c].pc = "email"
    /\ Exists(u)
    /\ email[u] = req[c].email
    /\ Set(c, [req[c] EXCEPT !.pc = "insert_link", !.user = u])
    /\ UNCHANGED <<email, secret, links, invalidated, oauth, registrations>>

(* Otherwise the response is a registration token.  Nothing was written.   *)
FindsNoEmail(c) ==
    /\ req[c].pc = "email"
    /\ req[c].email = NoEmail \/ ~\E u \in Users : email[u] = req[c].email
    /\ registrations' = registrations \cup {req[c].account}
    /\ End(c)
    /\ UNCHANGED <<email, secret, links, invalidated, oauth>>

RegistrationExpires(a) ==
    /\ a \in registrations
    /\ registrations' = registrations \ {a}
    /\ UNCHANGED <<email, secret, links, invalidated, oauth, req>>

(* Mutant: an account that was linked meanwhile counts as linked by us.    *)
InsertLinkOrGoOn(c) ==
    /\ req[c].pc = "insert_link"
    /\ ~LinkPending(c, req[c].account)
    /\ IF LinkTaken(req[c].account) THEN Goto(c, "respond")
       ELSE Set(c, [req[c] EXCEPT !.pc = "respond", !.wrote = @ \cup {"link"}])
    /\ UNCHANGED <<email, secret, links, invalidated, oauth, registrations>>

(* AuthProviderRepository.create.  A conflict is not caught: everything    *)
(* the request wrote is rolled back.                                       *)
InsertLink(c) ==
    /\ req[c].pc = "insert_link"
    /\ ~LinkPending(c, req[c].account)
    /\ IF LinkTaken(req[c].account) THEN End(c)
       ELSE Set(c, [req[c] EXCEPT !.pc = "respond", !.wrote = @ \cup {"link"}])
    /\ UNCHANGED <<email, secret, links, invalidated, oauth, registrations>>

----------------------------------------------------------------------------
(* oauth_unlink                                                            *)

BeginUnlink(c, u) ==
    /\ u \notin invalidated
    /\ BeginFor(c, "unlink", "links", u)
    /\ UNCHANGED <<email, secret, links, invalidated, oauth, registrations>>

LoadLinks(c) ==
    LET mine == {a \in ProviderIds : <<a, req[c].user>> \in links} IN
    /\ req[c].pc = "links"
    /\ IF mine = {} THEN End(c)
       ELSE Set(c, [req[c] EXCEPT !.pc = "drop", !.drops = mine])
    /\ UNCHANGED <<email, secret, links, invalidated, oauth, registrations>>

DropLinks(c) ==
    /\ req[c].pc = "drop"
    /\ \A a \in req[c].drops : ~DropPending(c, a)
    /\ Set(c, [req[c] EXCEPT !.pc = "respond", !.wrote = @ \cup {"drop"}])
    /\ UNCHANGED <<email, secret, links, invalidated, oauth, registrations>>

----------------------------------------------------------------------------
(* logout_all and the edit of a user                                       *)

BeginLogoutAll(c, u) ==
    /\ u \notin invalidated
    /\ BeginFor(c, "logout_all", "redis", u)
    /\ UNCHANGED <<email, secret, links, invalidated, oauth, registrations>>

(* Mutant: an error of Redis is ignored.                                   *)
InvalidateIfPossible(c) ==
    /\ req[c].pc = "redis"
    /\ invalidated' \in {invalidated, invalidated \cup {req[c].user}}
    /\ Goto(c, "secret")
    /\ UNCHANGED <<email, secret, links, oauth, registrations>>

(* The key has no expiry and nothing deletes it.                           *)
Invalidate(c) ==
    /\ req[c].pc = "redis"
    /\ invalidated' = invalidated \cup {req[c].user}
    /\ Goto(c, "secret")
    /\ UNCHANGED <<email, secret, links, oauth, registrations>>

UpdateSecret(c) ==
    /\ req[c].pc = "secret"
    /\ secret[req[c].user] < MaxSecret
    /\ ~RowLocked(c, req[c].user)
    /\ Set(c, [req[c] EXCEPT !.pc = "respond", !.wrote = @ \cup {"secret"}])
    /\ UNCHANGED <<email, secret, links, invalidated, oauth, registrations>>

(* update_user, after the old password was checked: another address.       *)
BeginEdit(c, u) ==
    /\ u \notin invalidated
    /\ BeginFor(c, "edit", "edit_user", u)
    /\ UNCHANGED <<email, secret, links, invalidated, oauth, registrations>>

EditUser(c, e) ==
    LET u == req[c].user IN
    /\ req[c].pc = "edit_user"
    /\ ~RowLocked(c, u)
    /\ ~EmailPending(c, e)
    /\ IF EmailTaken(u, e) THEN End(c)
       ELSE Set(c, [req[c] EXCEPT !.email = e, !.wrote = @ \cup {"user"},
                                  !.pc = "respond"])
    /\ UNCHANGED <<email, secret, links, invalidated, oauth, registrations>>

----------------------------------------------------------------------------
(* The end of a request                                                    *)

(* The response, with the tokens of user if it was a login.                *)
Respond(c) ==
    /\ req[c].pc = "respond"
    /\ Goto(c, "commit")
    /\ UNCHANGED <<email, secret, links, invalidated, oauth, registrations>>

Wrote(c, what) == what \in req[c].wrote

(* Links that are deleted were not deleted when others looked.             *)
AfterDrop(r, dropped) ==
    [r EXCEPT !.drops = @ \ dropped,
              !.stale = @ \/ (r.pc \in {"respond", "commit"} /\ r.account \in dropped)]

Commit(c) ==
    LET r == req[c]
        dropped == IF Wrote(c, "drop") THEN r.drops ELSE {}
    IN
    /\ r.pc = "commit"
    /\ email' = IF Wrote(c, "user") THEN [email EXCEPT ![r.user] = r.email] ELSE email
    /\ secret' = IF Wrote(c, "secret") THEN [secret EXCEPT ![r.user] = @ + 1] ELSE secret
    /\ links' = (links \ (dropped \X {r.user}))
                \cup (IF Wrote(c, "link") THEN {<<r.account, r.user>>} ELSE {})
    /\ req' = [d \in Requests |->
                 IF d = c THEN Idle ELSE AfterDrop(req[d], dropped)]
    /\ UNCHANGED <<invalidated, oauth, registrations>>

(* A query, the provider, Redis or the commit fails, or the process dies.  *)
Fails(c) ==
    /\ req[c] # Idle
    /\ End(c)
    /\ UNCHANGED <<email, secret, links, invalidated, oauth, registrations>>

----------------------------------------------------------------------------
Init ==
    /\ email = [u \in Users |-> NoEmail]
    /\ secret = [u \in Users |-> 0]
    /\ links = {}
    /\ invalidated = {}
    /\ oauth = [s \in States |-> NoPayload]
    /\ registrations = {}
    /\ req = [c \in Requests |-> Idle]

RequestNext(c) ==
    \/ BeginRegister(c)
    \/ \E u \in Users, e \in Emails : InsertUser(c, u, e)
    \/ \E s \in States : GetState(c, s)
    \/ DeleteState(c) \/ FetchIdentity(c)
    \/ \E a \in ProviderIds : BeginComplete(c, a)
    \/ \E u \in Users : FindsLink(c, u) \/ FindsEmail(c, u)
    \/ FindsNoLink(c) \/ FindsNoEmail(c) \/ InsertLink(c)
    \/ \E u \in Users : BeginUnlink(c, u) \/ BeginLogoutAll(c, u) \/ BeginEdit(c, u)
    \/ LoadLinks(c) \/ DropLinks(c) \/ Invalidate(c) \/ UpdateSecret(c)
    \/ \E e \in Emails : EditUser(c, e)
    \/ Respond(c) \/ Commit(c) \/ Fails(c)

Next ==
    \/ \E c \in Requests : RequestNext(c)
    \/ \E s \in States, u \in Users \cup {NoUser}, i \in {"authenticate", "link"} :
          OAuthStart(s, i, u)
    \/ \E s \in States : StateExpires(s)
    \/ \E a \in ProviderIds : RegistrationExpires(a)

Spec == Init /\ [][Next]_vars

----------------------------------------------------------------------------
(* An account at a provider is linked to one user, and an address belongs  *)
(* to one user, although every request looks before it writes and others   *)
(* commit in between.                                                      *)
OneOwner ==
    /\ \A a \in ProviderIds, u, v \in Users :
          <<a, u>> \in links /\ <<a, v>> \in links => u = v
    /\ \A u, v \in Users : Exists(u) /\ email[u] = email[v] => u = v

(* get_user accepts an access token of u, whenever it was issued.          *)
AccessAccepted(u) == u \notin invalidated

(* refresh accepts a token that carries secret n of u.                     *)
RefreshAccepted(u, n) == Exists(u) /\ n = secret[u]

(* Once logout_all changed the secret nothing from before it is accepted:  *)
(* neither an access token, which does not carry the secret and may even   *)
(* be issued by a refresh that is running, nor an older refresh token.     *)
LoggedOutStaysOut ==
    \A u \in Users, n \in 0..MaxSecret :
        n < secret[u] => ~AccessAccepted(u) /\ ~RefreshAccepted(u, n)

(* A provider account never logs in as anybody but the user it is linked   *)
(* to, except when a link was deleted while the request ran.               *)
SessionMatchesLink ==
    \A c \in Requests, v \in Users :
        /\ req[c].pc \in {"respond", "commit"}
        /\ req[c].account # NoProviderId
        /\ ~req[c].stale
        /\ <<req[c].account, v>> \in links
        => v = req[c].user

(* oauth_complete creates the user and the link, or neither.               *)
NoHalfAccount ==
    [][\A c \in Requests, u \in Users :
         /\ req[c].kind = "complete"
         /\ req'[c] # req[c]
         /\ ~Exists(u)
         /\ email'[u] # NoEmail
         => <<req[c].account, u>> \in links']_vars
=============================================================================
