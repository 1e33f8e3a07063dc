--------------------------- MODULE AccountsProofs ---------------------------
(***************************************************************************)
(* What holds of accounts and sessions for any number of users, accounts,  *)
(* addresses and requests.                                                 *)
(*                                                                         *)
(* OneOwner speaks of what is committed.  It is kept because of what is    *)
(* not: no two open transactions hold the same address or account, and     *)
(* none holds one that is taken.  LoggedOutStaysOut is kept because        *)
(* logout_all invalidates access tokens before it writes the secret.       *)
(***************************************************************************)
EXTENDS Accounts, TLAPS

Responding == {"respond", "commit"}

(* The steps of requests for a user who has a session.                     *)
Session == {"redis", "secret", "links", "drop", "edit_user"}

(* What a request has written by the time it takes each step.              *)
WroteInv(r) ==
    /\ r.pc \notin Responding \cup {"insert_link"} => r.wrote = {}
    /\ r.pc = "insert_link" =>
          r.wrote = IF r.kind = "complete" THEN {"user"} ELSE {}
    /\ r.kind = "complete" /\ r.pc \in Responding => r.wrote = {"user", "link"}
    /\ "drop" \in r.wrote => r.wrote = {"drop"}

(* Which account a request has to do with.                                 *)
AccountInv(r) ==
    /\ r.pc \in {"account", "email", "insert_link"} => r.account \in ProviderIds
    /\ r.pc \in Session => r.account = NoProviderId
    /\ r.pc = "insert_user" =>
          r.intent = "none" /\ (r.kind # "complete" => r.account = NoProviderId)
    /\ r.kind = "complete" =>
          r.intent = "none" /\ r.pc # "email" /\ r.account \in ProviderIds
    /\ r.pc \in {"none", "delete", "identity"} => r.kind # "complete"

(* The user of a request is there, or is created by it.                    *)
UserInv(r) ==
    /\ r.pc \in Session => r.user \in Users /\ Exists(r.user)
    /\ r.intent = "link" => r.user \in Users /\ Exists(r.user)
    /\ r.pc = "insert_link" \/ "link" \in r.wrote =>
          r.user \in Users /\ (Exists(r.user) \/ "user" \in r.wrote)

(* What a request wrote can be committed.                                  *)
PendingInv(r) ==
    /\ "user" \in r.wrote =>
          r.user \in Users /\ r.email \in Emails /\ ~EmailTaken(r.user, r.email)
    /\ "link" \in r.wrote => r.account \in ProviderIds /\ ~Linked(r.account)
    /\ "secret" \in r.wrote => r.user \in Users /\ secret[r.user] < MaxSecret
    /\ r.pc = "secret" \/ "secret" \in r.wrote => r.user \in invalidated

(* Who answers with a session of the user of an account relies on a link.  *)
SessionInv(r) ==
    r.pc \in Responding /\ r.account # NoProviderId /\ ~r.stale =>
        <<r.account, r.user>> \in links \/ "link" \in r.wrote

RequestInv(r) ==
    /\ r \in Request
    /\ WroteInv(r) /\ AccountInv(r) /\ UserInv(r) /\ PendingInv(r) /\ SessionInv(r)

(* Two open transactions do not hold the same row or key.                  *)
Apart(r, q) ==
    /\ r.wrote \cap {"user", "secret"} # {} /\ q.wrote \cap {"user", "secret"} # {}
         => r.user # q.user
    /\ "user" \in r.wrote /\ "user" \in q.wrote => r.email # q.email
    /\ "link" \in r.wrote /\ "link" \in q.wrote => r.account # q.account

StoresInv ==
    /\ \A u \in Users : secret[u] > 0 => u \in invalidated
    /\ \A s \in States : oauth[s].intent = "link" =>
          oauth[s].user \in Users /\ Exists(oauth[s].user)

AccountsInv ==
    /\ AccountsTypeOK
    /\ OneOwner
    /\ StoresInv
    /\ \A c \in Requests : RequestInv(req[c])
    /\ \A c, d \in Requests : c # d => Apart(req[c], req[d])

----------------------------------------------------------------------------
LEMMA IdleIsFine == RequestInv(Idle)
BY AccountsAssumption DEF RequestInv, Request, Idle, WroteInv, AccountInv,
   UserInv, PendingInv, SessionInv, Responding, Session

LEMMA InitHolds == Init => AccountsInv
<1> SUFFICES ASSUME Init PROVE AccountsInv
  OBVIOUS
<1>1. AccountsTypeOK
  BY AccountsAssumption DEF Init, AccountsTypeOK, Request, Idle, Payload, NoPayload
<1>2. OneOwner /\ StoresInv
  BY AccountsAssumption DEF Init, OneOwner, Exists, StoresInv, NoPayload
<1>3. \A c \in Requests : RequestInv(req[c])
  BY IdleIsFine DEF Init
<1>4. \A c, d \in Requests : c # d => Apart(req[c], req[d])
  BY DEF Init, Apart, Idle
<1> QED
  BY <1>1, <1>2, <1>3, <1>4 DEF AccountsInv

(* Between commits users lose access only.                                 *)
Grown ==
    /\ UNCHANGED <<email, secret, links>>
    /\ invalidated \subseteq invalidated'
    /\ invalidated' \subseteq Users

LEMMA GrownKeeps ==
  ASSUME Grown, NEW r, RequestInv(r)
  PROVE  RequestInv(r)'
BY DEF Grown, RequestInv, Request, WroteInv, AccountInv, UserInv, PendingInv,
   SessionInv, Exists, EmailTaken, Linked

(* A step of one request that commits nothing.                             *)
LEMMA OneRequest ==
  ASSUME AccountsInv, NEW c \in Requests, NEW r, Set(c, r), Grown,
         RequestInv(r)', \A d \in Requests \ {c} : Apart(r, req[d]),
         registrations' \subseteq ProviderIds,
         oauth' = oauth \/ \E s \in States : oauth' = [oauth EXCEPT ![s] = NoPayload]
  PROVE  AccountsInv'
<1>1. req \in [Requests -> Request] /\ req' \in [Requests -> Request]
  BY DEF AccountsInv, AccountsTypeOK, Set, RequestInv, Request
<1>2. \A d \in Requests : req'[d] = IF d = c THEN r ELSE req[d]
  BY <1>1 DEF Set
<1>3. AccountsTypeOK'
  BY <1>1 DEF AccountsInv, AccountsTypeOK, Grown, Exists, Payload, NoPayload
<1>4. OneOwner' /\ StoresInv'
  BY DEF AccountsInv, OneOwner, StoresInv, Grown, Exists, NoPayload, AccountsTypeOK
<1>5. \A d \in Requests : RequestInv(req[d])'
  <2> SUFFICES ASSUME NEW d \in Requests PROVE RequestInv(req[d])'
    OBVIOUS
  <2>1. CASE d = c
    BY <2>1, <1>2
  <2>2. CASE d # c
    <3>1. RequestInv(req[d])
      BY DEF AccountsInv
    <3> DEFINE q == req[d]
    <3>2. q = req'[d]
      BY <2>2, <1>2
    <3> HIDE DEF q
    <3> QED
      BY <3>1, <3>2, GrownKeeps DEF q
  <2> QED
    BY <2>1, <2>2
<1>6. \A d, e \in Requests : d # e => Apart(req'[d], req'[e])
  BY <1>2 DEF AccountsInv, Apart
<1> QED
  BY <1>3, <1>4, <1>5, <1>6 DEF AccountsInv

(* What requests touch besides their own record and what they commit.      *)
Stores == <<email, secret, links, invalidated, oauth, registrations>>

(* A step that writes nothing, or goes on with what the request wrote.     *)
LEMMA QuietStep ==
  ASSUME AccountsInv, NEW c \in Requests, NEW r, Set(c, r), UNCHANGED Stores,
         RequestInv(r),
         \/ r.wrote = {}
         \/ /\ r.wrote = req[c].wrote
            /\ r.user = req[c].user
            /\ r.email = req[c].email
            /\ r.account = req[c].account
  PROVE  AccountsInv'
<1>1. Grown /\ registrations' \subseteq ProviderIds /\ oauth' = oauth
  BY DEF Stores, Grown, AccountsInv, AccountsTypeOK
<1>2. \A d \in Requests \ {c} : Apart(r, req[d])
  BY DEF AccountsInv, Apart
<1>3. RequestInv(r)'
  BY <1>1, GrownKeeps
<1> QED
  BY <1>1, <1>2, <1>3, OneRequest

----------------------------------------------------------------------------
(* The invariant of a request, and of its successor, in all its parts.     *)
LEMMA ReqHolds ==
  ASSUME AccountsInv, NEW c \in Requests
  PROVE  RequestInv(req[c])
BY DEF AccountsInv

LEMMA EndHolds ==
  ASSUME AccountsInv, NEW c \in Requests, End(c), UNCHANGED Stores
  PROVE  AccountsInv'
BY IdleIsFine, QuietStep DEF End, Idle

LEMMA BeginRegisterHolds ==
  ASSUME AccountsInv, NEW c \in Requests,
         BeginRegister(c)
  PROVE  AccountsInv'
<1> DEFINE r == [Idle EXCEPT !.kind = "register", !.pc = "insert_user"]
<1>1. RequestInv(r)
  BY ReqHolds, AccountsAssumption
     DEF BeginRegister, RequestInv, WroteInv, AccountInv, UserInv,
     PendingInv, SessionInv, Request, Responding, Session, Idle
<1>2. r.wrote = {} \/ (r.wrote = req[c].wrote /\ r.user = req[c].user
        /\ r.email = req[c].email /\ r.account = req[c].account)
  BY ReqHolds DEF RequestInv, WroteInv, Responding, BeginRegister, Request, Idle
<1> QED
  BY <1>1, <1>2, QuietStep DEF BeginRegister, Begin, BeginFor, Goto, Stores

LEMMA BeginUnlinkHolds ==
  ASSUME AccountsInv, NEW c \in Requests, NEW u \in Users,
         BeginUnlink(c, u)
  PROVE  AccountsInv'
<1> DEFINE r == [Idle EXCEPT !.kind = "unlink", !.pc = "links", !.user = u]
<1>1. RequestInv(r)
  BY ReqHolds, AccountsAssumption
     DEF BeginUnlink, RequestInv, WroteInv, AccountInv, UserInv,
     PendingInv, SessionInv, Request, Responding, Session, Idle, BeginFor
<1>2. r.wrote = {} \/ (r.wrote = req[c].wrote /\ r.user = req[c].user
        /\ r.email = req[c].email /\ r.account = req[c].account)
  BY ReqHolds DEF RequestInv, WroteInv, Responding, BeginUnlink, Request, Idle
<1> QED
  BY <1>1, <1>2, QuietStep DEF BeginUnlink, Begin, BeginFor, Goto, Stores

LEMMA BeginLogoutAllHolds ==
  ASSUME AccountsInv, NEW c \in Requests, NEW u \in Users,
         BeginLogoutAll(c, u)
  PROVE  AccountsInv'
<1> DEFINE r == [Idle EXCEPT !.kind = "logout_all", !.pc = "redis", !.user = u]
<1>1. RequestInv(r)
  BY ReqHolds, AccountsAssumption
     DEF BeginLogoutAll, RequestInv, WroteInv, AccountInv, UserInv,
     PendingInv, SessionInv, Request, Responding, Session, Idle, BeginFor
<1>2. r.wrote = {} \/ (r.wrote = req[c].wrote /\ r.user = req[c].user
        /\ r.email = req[c].email /\ r.account = req[c].account)
  BY ReqHolds DEF RequestInv, WroteInv, Responding, BeginLogoutAll, Request, Idle
<1> QED
  BY <1>1, <1>2, QuietStep DEF BeginLogoutAll, Begin, BeginFor, Goto, Stores

LEMMA BeginEditHolds ==
  ASSUME AccountsInv, NEW c \in Requests, NEW u \in Users,
         BeginEdit(c, u)
  PROVE  AccountsInv'
<1> DEFINE r == [Idle EXCEPT !.kind = "edit", !.pc = "edit_user", !.user = u]
<1>1. RequestInv(r)
  BY ReqHolds, AccountsAssumption
     DEF BeginEdit, RequestInv, WroteInv, AccountInv, UserInv,
     PendingInv, SessionInv, Request, Responding, Session, Idle, BeginFor
<1>2. r.wrote = {} \/ (r.wrote = req[c].wrote /\ r.user = req[c].user
        /\ r.email = req[c].email /\ r.account = req[c].account)
  BY ReqHolds DEF RequestInv, WroteInv, Responding, BeginEdit, Request, Idle
<1> QED
  BY <1>1, <1>2, QuietStep DEF BeginEdit, Begin, BeginFor, Goto, Stores

LEMMA GetStateHolds ==
  ASSUME AccountsInv, NEW c \in Requests, NEW s \in States,
         GetState(c, s)
  PROVE  AccountsInv'
<1> DEFINE r == [Idle EXCEPT !.kind = "callback", !.pc = "delete", !.state = s,
                            !.intent = oauth[s].intent, !.user = oauth[s].user]
<1>1. RequestInv(r)
  BY ReqHolds, AccountsAssumption
     DEF GetState, RequestInv, WroteInv, AccountInv, UserInv,
     PendingInv, SessionInv, Request, Responding, Session, Idle,
     AccountsInv, AccountsTypeOK, Payload, StoresInv, Exists
<1>2. r.wrote = {} \/ (r.wrote = req[c].wrote /\ r.user = req[c].user
        /\ r.email = req[c].email /\ r.account = req[c].account)
  BY ReqHolds DEF RequestInv, WroteInv, Responding, GetState, Request, Idle
<1> QED
  BY <1>1, <1>2, QuietStep DEF GetState, Begin, BeginFor, Goto, Stores

LEMMA BeginCompleteHolds ==
  ASSUME AccountsInv, NEW c \in Requests, NEW a \in ProviderIds,
         BeginComplete(c, a)
  PROVE  AccountsInv'
<1> DEFINE r == [Idle EXCEPT !.kind = "complete", !.pc = "account", !.account = a]
<1>1. RequestInv(r)
  BY ReqHolds, AccountsAssumption
     DEF BeginComplete, RequestInv, WroteInv, AccountInv, UserInv,
     PendingInv, SessionInv, Request, Responding, Session, Idle
<1>2. r.wrote = {} \/ (r.wrote = req[c].wrote /\ r.user = req[c].user
        /\ r.email = req[c].email /\ r.account = req[c].account)
  BY ReqHolds DEF RequestInv, WroteInv, Responding, BeginComplete, Request, Idle
<1> QED
  BY <1>1, <1>2, QuietStep DEF BeginComplete, Begin, BeginFor, Goto, Stores

LEMMA RespondHolds ==
  ASSUME AccountsInv, NEW c \in Requests,
         Respond(c)
  PROVE  AccountsInv'
<1> DEFINE r == [req[c] EXCEPT !.pc = "commit"]
<1>1. RequestInv(r)
  BY ReqHolds, AccountsAssumption
     DEF Respond, RequestInv, WroteInv, AccountInv, UserInv,
     PendingInv, SessionInv, Request, Responding, Session, Linked
<1>2. r.wrote = {} \/ (r.wrote = req[c].wrote /\ r.user = req[c].user
        /\ r.email = req[c].email /\ r.account = req[c].account)
  BY ReqHolds DEF RequestInv, WroteInv, Responding, Respond, Request
<1> QED
  BY <1>1, <1>2, QuietStep DEF Respond, Begin, BeginFor, Goto, Stores

(* What is left to show of a request that has not written anything yet.    *)
LEMMA Unwritten ==
  ASSUME NEW r \in Request, r.wrote = {}, r.pc # "secret",
         r.pc \in Responding \cup {"insert_link"} => r.kind # "complete",
         r.pc \in Responding => <<r.account, r.user>> \in links,
         AccountInv(r), UserInv(r)
  PROVE  RequestInv(r)
BY DEF RequestInv, WroteInv, PendingInv, SessionInv

LEMMA FetchIdentityHolds ==
  ASSUME AccountsInv, NEW c \in Requests, FetchIdentity(c)
  PROVE  AccountsInv'
<1>1. PICK a \in ProviderIds, e \in Emails \cup {NoEmail} :
        Set(c, [req[c] EXCEPT !.pc = "account", !.account = a, !.email = e])
  BY DEF FetchIdentity
<1> DEFINE q == req[c]
           r == [q EXCEPT !.pc = "account", !.account = a, !.email = e]
<1>2. RequestInv(q) /\ q.pc = "identity"
  BY ReqHolds DEF FetchIdentity
<1> HIDE DEF q
<1>3. /\ r \in Request /\ r.pc = "account" /\ r.account = a /\ r.kind = q.kind
      /\ r.intent = q.intent /\ r.user = q.user /\ r.wrote = q.wrote
  BY <1>2 DEF RequestInv, Request
<1> HIDE DEF r
<1>4. r.wrote = {}
  BY <1>2, <1>3 DEF RequestInv, WroteInv, Responding
<1>5. AccountInv(r) /\ UserInv(r)
  BY <1>2, <1>3, <1>4 DEF RequestInv, AccountInv, UserInv, Session
<1>6. RequestInv(r)
  BY <1>3, <1>4, <1>5, Unwritten DEF Responding
<1> QED
  BY <1>1, <1>4, <1>6, QuietStep DEF FetchIdentity, Stores, r, q

LEMMA FindsLinkHolds ==
  ASSUME AccountsInv, NEW c \in Requests, NEW u \in Users, FindsLink(c, u)
  PROVE  AccountsInv'
<1> DEFINE q == req[c]
           r == [q EXCEPT !.pc = "respond", !.user = u]
<1>1. RequestInv(q) /\ q.pc = "account" /\ <<q.account, u>> \in links
  BY ReqHolds DEF FindsLink
<1>2. Exists(u)
  BY <1>1 DEF AccountsInv, AccountsTypeOK, RequestInv, AccountInv
<1> HIDE DEF q
<1>3. /\ r \in Request /\ r.pc = "respond" /\ r.account = q.account
      /\ r.kind = q.kind /\ r.intent = q.intent /\ r.user = u /\ r.wrote = q.wrote
  BY <1>1 DEF RequestInv, Request
<1>4. [q EXCEPT !.pc = "respond"] = r \/ u # q.user
  BY <1>1 DEF RequestInv, Request
<1> HIDE DEF r
<1>5. r.wrote = {}
  BY <1>1, <1>3 DEF RequestInv, WroteInv, Responding
<1>6. CASE End(c)
  BY <1>6, EndHolds DEF FindsLink, Stores
<1>7. CASE q.intent \in {"authenticate", "link"} /\ Set(c, r)
  <2>1. q.kind # "complete"
    BY <1>1, <1>7 DEF RequestInv, AccountInv
  <2>2. AccountInv(r) /\ UserInv(r)
    BY <1>2, <1>3, <1>5, <2>1 DEF AccountInv, UserInv, Session
  <2>3. RequestInv(r)
    BY <1>1, <1>3, <1>5, <2>1, <2>2, Unwritten
  <2> QED
    BY <1>5, <1>7, <2>3, QuietStep DEF FindsLink, Stores
<1> QED
  BY <1>4, <1>6, <1>7 DEF FindsLink, Goto, r, q

LEMMA FindsNoLinkHolds ==
  ASSUME AccountsInv, NEW c \in Requests, FindsNoLink(c)
  PROVE  AccountsInv'
<1> DEFINE q == req[c]
<1>1. RequestInv(q) /\ q.pc = "account"
  BY ReqHolds DEF FindsNoLink
<1>2. \E next \in {"insert_user", "insert_link", "email"} :
        /\ next = "insert_user" => q.kind = "complete"
        /\ next = "insert_link" => q.kind # "complete" /\ q.intent = "link"
        /\ next = "email" => q.kind # "complete"
        /\ Goto(c, next)
  <2>1. q.kind = "complete" => q.intent # "link"
    BY <1>1 DEF RequestInv, AccountInv
  <2>2. CASE q.kind = "complete"
    BY <2>1, <2>2 DEF FindsNoLink
  <2>3. CASE q.kind # "complete" /\ q.intent = "link"
    BY <2>3 DEF FindsNoLink
  <2>4. CASE q.kind # "complete" /\ q.intent # "link"
    BY <2>4 DEF FindsNoLink
  <2> QED
    BY <2>2, <2>3, <2>4
<1>3. PICK next \in {"insert_user", "insert_link", "email"} :
        /\ next = "insert_user" => q.kind = "complete"
        /\ next = "insert_link" => q.kind # "complete" /\ q.intent = "link"
        /\ next = "email" => q.kind # "complete"
        /\ Goto(c, next)
  BY <1>2
<1> DEFINE r == [q EXCEPT !.pc = next]
<1> HIDE DEF q
<1>4. /\ r \in Request /\ r.pc = next /\ r.account = q.account /\ r.kind = q.kind
      /\ r.intent = q.intent /\ r.user = q.user /\ r.wrote = q.wrote
  BY <1>1 DEF RequestInv, Request
<1> HIDE DEF r
<1>5. r.wrote = {}
  BY <1>1, <1>4 DEF RequestInv, WroteInv, Responding
<1>6. AccountInv(r) /\ UserInv(r)
  BY <1>1, <1>3, <1>4, <1>5 DEF RequestInv, AccountInv, UserInv, Session
<1>7. RequestInv(r)
  BY <1>3, <1>4, <1>5, <1>6, Unwritten DEF Responding
<1> QED
  BY <1>3, <1>5, <1>7, QuietStep DEF FindsNoLink, Goto, Stores, r, q

LEMMA FindsEmailHolds ==
  ASSUME AccountsInv, NEW c \in Requests, NEW u \in Users, FindsEmail(c, u)
  PROVE  AccountsInv'
<1> DEFINE q == req[c]
           r == [q EXCEPT !.pc = "insert_link", !.user = u]
<1>1. RequestInv(q) /\ q.pc = "email" /\ Exists(u) /\ Set(c, r)
  BY ReqHolds DEF FindsEmail
<1> HIDE DEF q
<1>2. /\ r \in Request /\ r.pc = "insert_link" /\ r.account = q.account
      /\ r.kind = q.kind /\ r.intent = q.intent /\ r.user = u /\ r.wrote = q.wrote
  BY <1>1 DEF RequestInv, Request
<1> HIDE DEF r
<1>3. r.wrote = {} /\ q.kind # "complete"
  BY <1>1, <1>2 DEF RequestInv, WroteInv, AccountInv, Responding
<1>4. AccountInv(r) /\ UserInv(r)
  BY <1>1, <1>2, <1>3 DEF RequestInv, AccountInv, UserInv, Session
<1>5. RequestInv(r)
  BY <1>2, <1>3, <1>4, Unwritten DEF Responding
<1> QED
  BY <1>1, <1>3, <1>5, QuietStep DEF FindsEmail, Stores

LEMMA LoadLinksHolds ==
  ASSUME AccountsInv, NEW c \in Requests, LoadLinks(c)
  PROVE  AccountsInv'
<1>1. CASE End(c)
  BY <1>1, EndHolds DEF LoadLinks, Stores
<1>2. ASSUME NEW mine \in SUBSET ProviderIds,
             Set(c, [req[c] EXCEPT !.pc = "drop", !.drops = mine])
      PROVE  AccountsInv'
  <2> DEFINE q == req[c]
             r == [q EXCEPT !.pc = "drop", !.drops = mine]
  <2>1. RequestInv(q) /\ q.pc = "links" /\ Set(c, r)
    BY <1>2, ReqHolds DEF LoadLinks
  <2> HIDE DEF q
  <2>2. /\ r \in Request /\ r.pc = "drop" /\ r.account = q.account
        /\ r.kind = q.kind /\ r.intent = q.intent /\ r.user = q.user
        /\ r.wrote = q.wrote
    BY <2>1 DEF RequestInv, Request
  <2> HIDE DEF r
  <2>3. r.wrote = {}
    BY <2>1, <2>2 DEF RequestInv, WroteInv, Responding
  <2>4. AccountInv(r) /\ UserInv(r)
    BY <2>1, <2>2, <2>3 DEF RequestInv, AccountInv, UserInv, Session
  <2>5. RequestInv(r)
    BY <2>2, <2>3, <2>4, Unwritten DEF Responding
  <2> QED
    BY <2>1, <2>3, <2>5, QuietStep DEF LoadLinks, Stores
<1> QED
  BY <1>1, <1>2 DEF LoadLinks

(* Steps that also write to Redis.                                         *)
LEMMA DeleteStateHolds ==
  ASSUME AccountsInv, NEW c \in Requests, DeleteState(c)
  PROVE  AccountsInv'
<1>1. Grown /\ registrations' \subseteq ProviderIds
  BY DEF DeleteState, Grown, AccountsInv, AccountsTypeOK
<1>2. oauth' = oauth \/ \E s \in States : oauth' = [oauth EXCEPT ![s] = NoPayload]
  <2>1. CASE req[c].state \in States
    BY <2>1 DEF DeleteState
  <2>2. CASE req[c].state \notin States
    BY <2>2 DEF DeleteState, AccountsInv, AccountsTypeOK
  <2> QED
    BY <2>1, <2>2
<1>3. ASSUME NEW r, RequestInv(r), r.wrote = {}, Set(c, r)
      PROVE  AccountsInv'
  <2>1. RequestInv(r)' /\ \A d \in Requests \ {c} : Apart(r, req[d])
    BY <1>1, <1>3, GrownKeeps DEF Apart
  <2> QED
    BY <1>1, <1>2, <1>3, <2>1, OneRequest
<1> DEFINE q == req[c]
           r == [q EXCEPT !.pc = "identity", !.state = NoState]
<1>4. RequestInv(q) /\ q.pc = "delete"
  BY ReqHolds DEF DeleteState
<1> HIDE DEF q
<1>5. /\ r \in Request /\ r.pc = "identity" /\ r.account = q.account
      /\ r.kind = q.kind /\ r.intent = q.intent /\ r.user = q.user
      /\ r.wrote = q.wrote
  BY <1>4 DEF RequestInv, Request
<1> HIDE DEF r
<1>6. r.wrote = {}
  BY <1>4, <1>5 DEF RequestInv, WroteInv, Responding
<1>7. AccountInv(r) /\ UserInv(r)
  BY <1>4, <1>5, <1>6 DEF RequestInv, AccountInv, UserInv, Session
<1>8. RequestInv(r)
  BY <1>5, <1>6, <1>7, Unwritten DEF Responding
<1>9. Idle.wrote = {}
  BY DEF Idle
<1>10. CASE Set(c, r)
  BY <1>3, <1>6, <1>8, <1>10
<1>11. CASE End(c)
  BY <1>3, <1>9, <1>11, IdleIsFine DEF End
<1> QED
  BY <1>10, <1>11 DEF DeleteState, r, q

LEMMA FindsNoEmailHolds ==
  ASSUME AccountsInv, NEW c \in Requests, FindsNoEmail(c)
  PROVE  AccountsInv'
<1>1. req[c].account \in ProviderIds
  BY ReqHolds DEF FindsNoEmail, RequestInv, AccountInv
<1>2. Grown /\ registrations' \subseteq ProviderIds /\ oauth' = oauth
  BY <1>1 DEF FindsNoEmail, Grown, AccountsInv, AccountsTypeOK
<1>3. RequestInv(Idle)' /\ \A d \in Requests \ {c} : Apart(Idle, req[d])
  BY <1>2, IdleIsFine, GrownKeeps DEF Apart, Idle
<1> QED
  BY <1>2, <1>3, OneRequest DEF FindsNoEmail, End

LEMMA InvalidateHolds ==
  ASSUME AccountsInv, NEW c \in Requests, Invalidate(c)
  PROVE  AccountsInv'
<1> PICK q : q = req[c]
  OBVIOUS
<1> PICK r : r = [q EXCEPT !.pc = "secret"]
  OBVIOUS
<1>1. RequestInv(q) /\ q.pc = "redis" /\ Set(c, r)
  BY ReqHolds DEF Invalidate, Goto
<1>2. q.user \in Users /\ Exists(q.user) /\ q.wrote = {}
  BY <1>1 DEF RequestInv, UserInv, Session, WroteInv, Responding
<1>3. Grown /\ registrations' \subseteq ProviderIds /\ oauth' = oauth
  BY <1>2 DEF Invalidate, Grown, AccountsInv, AccountsTypeOK
<1>4. q.user \in invalidated'
  BY DEF Invalidate
<1>5. /\ r \in Request /\ r.pc = "secret" /\ r.account = q.account
      /\ r.kind = q.kind /\ r.intent = q.intent /\ r.user = q.user
      /\ r.wrote = {}
  BY <1>1, <1>2 DEF RequestInv, Request
<1>6. AccountInv(r) /\ UserInv(r)
  BY <1>1, <1>2, <1>5 DEF RequestInv, AccountInv, UserInv, Session
<1>7. RequestInv(r)'
  <2>1. r \in Request' /\ WroteInv(r)' /\ SessionInv(r)'
    BY <1>5 DEF Request, WroteInv, SessionInv, Responding
  <2>2. AccountInv(r)' /\ UserInv(r)'
    BY <1>3, <1>6 DEF AccountInv, UserInv, Grown, Exists
  <2>3. PendingInv(r)'
    BY <1>4, <1>5 DEF PendingInv
  <2> QED
    BY <2>1, <2>2, <2>3 DEF RequestInv
<1>8. \A d \in Requests \ {c} : Apart(r, req[d])
  BY <1>5 DEF Apart
<1> QED
  BY <1>1, <1>3, <1>7, <1>8, OneRequest

----------------------------------------------------------------------------
(* Steps that write to the database, which others see after the commit.    *)
LEMMA WritingStep ==
  ASSUME AccountsInv, NEW c \in Requests, NEW r, Set(c, r), UNCHANGED Stores,
         RequestInv(r), \A d \in Requests \ {c} : Apart(r, req[d])
  PROVE  AccountsInv'
<1>1. Grown /\ registrations' \subseteq ProviderIds /\ oauth' = oauth
  BY DEF Stores, Grown, AccountsInv, AccountsTypeOK
<1>2. RequestInv(r)'
  BY <1>1, GrownKeeps
<1> QED
  BY <1>1, <1>2, OneRequest

LEMMA Inserted ==
  ASSUME NEW q \in Request, NEW u \in Users, NEW e \in Emails,
         NEW next \in {"insert_link", "respond"}
  PROVE  [q EXCEPT !.user = u, !.email = e, !.wrote = {"user"}, !.pc = next] \in Request
BY DEF Request

LEMMA InsertUserHolds ==
  ASSUME AccountsInv, NEW c \in Requests, NEW u \in Users, NEW e \in Emails,
         InsertUser(c, u, e)
  PROVE  AccountsInv'
<1>1. CASE End(c)
  BY <1>1, EndHolds DEF InsertUser, Stores
<1>2. CASE ~EmailTaken(u, e)
  <2> PICK q : q = req[c]
    OBVIOUS
  <2> PICK next \in {"insert_link", "respond"} :
             next = IF q.kind = "complete" THEN "insert_link" ELSE "respond"
    OBVIOUS
  <2> PICK r : r = [q EXCEPT !.user = u, !.email = e, !.wrote = @ \cup {"user"},
                             !.pc = next]
    OBVIOUS
  <2>1. RequestInv(q) /\ q.pc = "insert_user" /\ Set(c, r)
    BY <1>2, ReqHolds DEF InsertUser
  <2>2. q.wrote = {}
    BY <2>1 DEF RequestInv, WroteInv, Responding
  <2>3. /\ r \in Request /\ r.pc = next /\ r.account = q.account /\ r.kind = q.kind
        /\ r.intent = q.intent /\ r.user = u /\ r.email = e /\ r.wrote = {"user"}
    <3>1. /\ r.pc = next /\ r.account = q.account /\ r.kind = q.kind
          /\ r.intent = q.intent /\ r.user = u /\ r.email = e /\ r.wrote = {"user"}
          /\ r.state = q.state /\ r.drops = q.drops /\ r.stale = q.stale
      BY <2>1, <2>2 DEF RequestInv, Request
    <3>2. r = [q EXCEPT !.user = u, !.email = e, !.wrote = {"user"}, !.pc = next]
      BY <2>2
    <3>3. q \in Request
      BY <2>1 DEF RequestInv
    <3>4. [q EXCEPT !.user = u, !.email = e, !.wrote = {"user"}, !.pc = next] \in Request
      BY <3>3, Inserted
    <3>5. r \in Request
      BY <3>2, <3>4
    <3> QED
      BY <3>1, <3>5
  <2>4. WroteInv(r) /\ AccountInv(r)
    BY <2>1, <2>3 DEF RequestInv, WroteInv, AccountInv, Responding, Session
  <2>5. UserInv(r) /\ PendingInv(r)
    BY <1>2, <2>1, <2>3 DEF RequestInv, AccountInv, UserInv, PendingInv, Session
  <2>6. SessionInv(r)
    BY <2>1, <2>3 DEF RequestInv, AccountInv, SessionInv, Responding
  <2>7. \A d \in Requests \ {c} : Apart(r, req[d])
    BY <2>3 DEF InsertUser, Apart, EmailPending
  <2> QED
    BY <2>1, <2>3, <2>4, <2>5, <2>6, <2>7, WritingStep
       DEF InsertUser, Stores, RequestInv
<1> QED
  BY <1>1, <1>2 DEF InsertUser

LEMMA InsertLinkHolds ==
  ASSUME AccountsInv, NEW c \in Requests, InsertLink(c)
  PROVE  AccountsInv'
<1>1. CASE End(c)
  BY <1>1, EndHolds DEF InsertLink, Stores
<1>2. CASE ~Linked(req[c].account)
  <2> PICK q : q = req[c]
    OBVIOUS
  <2> PICK r : r = [q EXCEPT !.pc = "respond", !.wrote = @ \cup {"link"}]
    OBVIOUS
  <2>1. RequestInv(q) /\ q.pc = "insert_link" /\ Set(c, r)
    BY <1>2, ReqHolds DEF InsertLink, LinkTaken
  <2>2. q.wrote = IF q.kind = "complete" THEN {"user"} ELSE {}
    BY <2>1 DEF RequestInv, WroteInv
  <2>3. /\ r \in Request /\ r.pc = "respond" /\ r.account = q.account
        /\ r.kind = q.kind /\ r.intent = q.intent /\ r.user = q.user
        /\ r.email = q.email /\ r.wrote = q.wrote \cup {"link"}
    BY <2>1 DEF RequestInv, Request
  <2>4. WroteInv(r)
    BY <2>2, <2>3 DEF WroteInv, Responding
  <2>5. AccountInv(r) /\ UserInv(r)
    BY <2>1, <2>3 DEF RequestInv, AccountInv, UserInv, Session
  <2>6. PendingInv(r) /\ SessionInv(r)
    BY <1>2, <2>1, <2>2, <2>3 DEF RequestInv, AccountInv, PendingInv, SessionInv
  <2>7. ASSUME NEW d \in Requests \ {c} PROVE Apart(r, req[d])
    <3>1. Apart(q, req[d])
      BY DEF AccountsInv
    <3>2. "link" \in req[d].wrote => req[d].account # q.account
      BY DEF InsertLink, LinkPending
    <3> QED
      BY <2>3, <3>1, <3>2 DEF Apart
  <2> QED
    BY <2>1, <2>3, <2>4, <2>5, <2>6, <2>7, WritingStep
       DEF InsertLink, Stores, RequestInv
<1> QED
  BY <1>1, <1>2 DEF InsertLink, LinkTaken

LEMMA DropLinksHolds ==
  ASSUME AccountsInv, NEW c \in Requests, DropLinks(c)
  PROVE  AccountsInv'
<1> PICK q : q = req[c]
  OBVIOUS
<1> PICK r : r = [q EXCEPT !.pc = "respond", !.wrote = @ \cup {"drop"}]
  OBVIOUS
<1>1. RequestInv(q) /\ q.pc = "drop" /\ Set(c, r)
  BY ReqHolds DEF DropLinks
<1>2. q.wrote = {}
  BY <1>1 DEF RequestInv, WroteInv, Responding
<1>3. /\ r \in Request /\ r.pc = "respond" /\ r.account = q.account /\ r.kind = q.kind
      /\ r.intent = q.intent /\ r.user = q.user /\ r.wrote = {"drop"}
  BY <1>1, <1>2 DEF RequestInv, Request
<1>4. /\ r.account = NoProviderId /\ r.kind # "complete"
  BY <1>1, <1>3, AccountsAssumption DEF RequestInv, AccountInv, Session
<1>5. WroteInv(r) /\ AccountInv(r) /\ UserInv(r) /\ PendingInv(r) /\ SessionInv(r)
  BY <1>1, <1>3, <1>4 DEF RequestInv, WroteInv, AccountInv, UserInv, PendingInv,
     SessionInv, Responding, Session
<1>6. \A d \in Requests \ {c} : Apart(r, req[d])
  BY <1>3 DEF Apart
<1> QED
  BY <1>1, <1>3, <1>5, <1>6, WritingStep DEF DropLinks, Stores, RequestInv

LEMMA UpdateSecretHolds ==
  ASSUME AccountsInv, NEW c \in Requests, UpdateSecret(c)
  PROVE  AccountsInv'
<1> PICK q : q = req[c]
  OBVIOUS
<1> PICK r : r = [q EXCEPT !.pc = "respond", !.wrote = @ \cup {"secret"}]
  OBVIOUS
<1>1. RequestInv(q) /\ q.pc = "secret" /\ Set(c, r)
  BY ReqHolds DEF UpdateSecret
<1>2. q.wrote = {}
  BY <1>1 DEF RequestInv, WroteInv, Responding
<1>3. /\ r \in Request /\ r.pc = "respond" /\ r.account = q.account /\ r.kind = q.kind
      /\ r.intent = q.intent /\ r.user = q.user /\ r.wrote = {"secret"}
  BY <1>1, <1>2 DEF RequestInv, Request
<1>4. r.account = NoProviderId /\ r.kind # "complete"
  BY <1>1, <1>3, AccountsAssumption DEF RequestInv, AccountInv, Session
<1>5. WroteInv(r) /\ AccountInv(r) /\ UserInv(r) /\ SessionInv(r)
  BY <1>1, <1>3, <1>4 DEF RequestInv, WroteInv, AccountInv, UserInv, SessionInv,
     Responding, Session
<1>6. PendingInv(r)
  BY <1>1, <1>3 DEF RequestInv, UserInv, PendingInv, Session, UpdateSecret
<1>7. \A d \in Requests \ {c} : Apart(r, req[d])
  BY <1>3 DEF Apart, UpdateSecret, RowLocked
<1> QED
  BY <1>1, <1>3, <1>5, <1>6, <1>7, WritingStep DEF UpdateSecret, Stores, RequestInv

LEMMA EditUserHolds ==
  ASSUME AccountsInv, NEW c \in Requests, NEW e \in Emails, EditUser(c, e)
  PROVE  AccountsInv'
<1>1. CASE End(c)
  BY <1>1, EndHolds DEF EditUser, Stores
<1>2. CASE ~EmailTaken(req[c].user, e)
  <2> PICK q : q = req[c]
    OBVIOUS
  <2> PICK r : r = [q EXCEPT !.email = e, !.wrote = @ \cup {"user"},
                             !.pc = "respond"]
    OBVIOUS
  <2>1. RequestInv(q) /\ q.pc = "edit_user" /\ Set(c, r)
    BY <1>2, ReqHolds DEF EditUser
  <2>2. q.wrote = {}
    BY <2>1 DEF RequestInv, WroteInv, Responding
  <2>3. /\ r \in Request /\ r.pc = "respond" /\ r.account = q.account
        /\ r.kind = q.kind /\ r.intent = q.intent /\ r.user = q.user
        /\ r.email = e /\ r.wrote = {"user"}
    BY <2>1, <2>2 DEF RequestInv, Request
  <2>4. r.account = NoProviderId /\ r.kind # "complete"
    BY <2>1, <2>3, AccountsAssumption DEF RequestInv, AccountInv, Session
  <2>5. WroteInv(r) /\ AccountInv(r) /\ UserInv(r) /\ SessionInv(r)
    BY <2>1, <2>3, <2>4 DEF RequestInv, WroteInv, AccountInv, UserInv, SessionInv,
       Responding, Session
  <2>6. PendingInv(r)
    BY <1>2, <2>1, <2>3 DEF RequestInv, UserInv, PendingInv, Session
  <2>7. \A d \in Requests \ {c} : Apart(r, req[d])
    BY <2>3 DEF EditUser, Apart, EmailPending, RowLocked
  <2> QED
    BY <2>1, <2>3, <2>5, <2>6, <2>7, WritingStep DEF EditUser, Stores, RequestInv
<1> QED
  BY <1>1, <1>2 DEF EditUser

----------------------------------------------------------------------------
(* The commit                                                              *)
LEMMA CommitHolds ==
  ASSUME AccountsInv, NEW c \in Requests, Commit(c)
  PROVE  AccountsInv'
<1> PICK q : q = req[c]
  OBVIOUS
<1> PICK dropped : dropped = IF "drop" \in q.wrote THEN q.drops ELSE {}
  OBVIOUS
<1>1. /\ email' = IF "user" \in q.wrote THEN [email EXCEPT ![q.user] = q.email] ELSE email
      /\ secret' = IF "secret" \in q.wrote THEN [secret EXCEPT ![q.user] = @ + 1]
                                            ELSE secret
      /\ links' = (links \ (dropped \X {q.user}))
                   \cup (IF "link" \in q.wrote THEN {<<q.account, q.user>>} ELSE {})
      /\ req' = [d \in Requests |-> IF d = c THEN Idle ELSE AfterDrop(req[d], dropped)]
      /\ UNCHANGED <<invalidated, oauth, registrations>>
  BY DEF Commit, Wrote
<1>2. RequestInv(q) /\ AccountsTypeOK
  BY DEF AccountsInv
<1>3. q \in Request /\ dropped \subseteq ProviderIds
  BY <1>2 DEF RequestInv, Request
<1>4. "drop" \in q.wrote => q.wrote = {"drop"}
  BY <1>2 DEF RequestInv, WroteInv
<1>5. email' \in [Users -> Emails \cup {NoEmail}]
  BY <1>1, <1>2 DEF RequestInv, PendingInv, AccountsTypeOK
<1>6. \A u \in Users : email'[u] = IF "user" \in q.wrote /\ u = q.user
                                    THEN q.email ELSE email[u]
  BY <1>1, <1>2 DEF AccountsTypeOK
<1>7. \A u \in Users : Exists(u) => Exists(u)'
  BY <1>2, <1>6, AccountsAssumption DEF Exists, RequestInv, PendingInv
<1>8. secret' \in [Users -> 0 .. MaxSecret]
  BY <1>1, <1>2, AccountsAssumption DEF RequestInv, PendingInv, AccountsTypeOK
<1>9. \A u \in Users : secret'[u] = IF "secret" \in q.wrote /\ u = q.user
                                     THEN secret[u] + 1 ELSE secret[u]
  BY <1>1, <1>2 DEF AccountsTypeOK
<1>10. "link" \in q.wrote => /\ q.account \in ProviderIds
                             /\ q.user \in Users
                             /\ Exists(q.user)'
                             /\ ~Linked(q.account)
  BY <1>2, <1>6, <1>7, AccountsAssumption DEF RequestInv, UserInv, PendingInv, Exists
<1>11. \A a, u : <<a, u>> \in links' =>
          <<a, u>> \in links \/ ("link" \in q.wrote /\ a = q.account /\ u = q.user)
  BY <1>1
<1>12. links' \subseteq ProviderIds \X Users
  BY <1>1, <1>2, <1>10 DEF AccountsTypeOK
<1>13. \A a \in ProviderIds, u \in Users : <<a, u>> \in links' => Exists(u)'
  BY <1>2, <1>7, <1>10, <1>11 DEF AccountsTypeOK
<1>14. \A d \in Requests : req'[d] = IF d = c THEN Idle ELSE AfterDrop(req[d], dropped)
  BY <1>1
<1>15. ASSUME NEW d \in Requests, d # c, NEW p, p = req[d], NEW r, r = req'[d]
       PROVE  /\ p \in Request
              /\ r \in Request
              /\ r.kind = p.kind /\ r.pc = p.pc /\ r.intent = p.intent
              /\ r.user = p.user /\ r.account = p.account /\ r.email = p.email
              /\ r.wrote = p.wrote
              /\ r.stale = (p.stale \/ (p.pc \in {"respond", "commit"} /\ p.account \in dropped))
  <2>1. p \in Request /\ r = AfterDrop(p, dropped)
    BY <1>14, <1>15, ReqHolds DEF RequestInv
  <2> QED
    BY <2>1 DEF AfterDrop, Request
<1>16. AccountsTypeOK'
  <2>1. req' \in [Requests -> Request]
    BY <1>1, <1>14, <1>15, IdleIsFine DEF RequestInv
  <2> QED
    BY <1>1, <1>2, <1>5, <1>8, <1>12, <1>13, <2>1 DEF AccountsTypeOK
<1>17. OneOwner'
  <2>1. ASSUME NEW a \in ProviderIds, NEW u \in Users, NEW v \in Users,
               <<a, u>> \in links', <<a, v>> \in links'
        PROVE  u = v
    BY <1>10, <1>11, <2>1 DEF AccountsInv, OneOwner, Linked
  <2>2. ASSUME NEW u \in Users, NEW v \in Users, Exists(u)', email'[u] = email'[v]
        PROVE  u = v
    BY <1>2, <1>6, <2>2 DEF AccountsInv, OneOwner, Exists, RequestInv, PendingInv,
       EmailTaken
  <2> QED
    BY <2>1, <2>2 DEF OneOwner
<1>18. StoresInv'
  BY <1>1, <1>2, <1>7, <1>9 DEF AccountsInv, StoresInv, RequestInv, PendingInv,
     AccountsTypeOK
<1>19. ASSUME NEW d \in Requests, d # c, NEW p, p = req[d], NEW r, r = req'[d]
       PROVE  RequestInv(r)'
  <2>1. RequestInv(p) /\ Apart(q, p)
    BY <1>19 DEF AccountsInv
  <2>a. /\ r.wrote = p.wrote /\ r.account = p.account /\ r.user = p.user
        /\ r.pc = p.pc
    BY <1>15, <1>19
  <2>b. ~r.stale => ~p.stale /\ (p.pc \in {"respond", "commit"} => p.account \notin dropped)
    BY <1>15, <1>19
  <2>2. WroteInv(r)' /\ AccountInv(r)' /\ r \in Request'
    BY <1>15, <1>19, <2>1 DEF RequestInv, WroteInv, AccountInv, Request
  <2>3. UserInv(r)'
    BY <1>7, <1>15, <1>19, <2>1 DEF RequestInv, UserInv
  <2>4. "user" \in r.wrote =>
           r.user \in Users /\ r.email \in Emails /\ ~EmailTaken(r.user, r.email)'
    BY <1>6, <1>15, <1>19, <2>1 DEF RequestInv, PendingInv, EmailTaken, Apart
  <2>5. "link" \in r.wrote => r.account \in ProviderIds /\ ~Linked(r.account)'
    <3>1. ASSUME "link" \in p.wrote, NEW u \in Users, <<p.account, u>> \in links'
          PROVE  FALSE
      <4>1. ~Linked(p.account) /\ ("link" \in q.wrote => q.account # p.account)
        BY <2>1, <3>1 DEF RequestInv, PendingInv, Apart
      <4> QED
        BY <1>11, <3>1, <4>1 DEF Linked
    <3> QED
      BY <2>a, <2>1, <3>1 DEF RequestInv, PendingInv, Linked
  <2>6. "secret" \in r.wrote => r.user \in Users /\ secret'[r.user] < MaxSecret
    BY <1>9, <1>15, <1>19, <2>1 DEF RequestInv, PendingInv, Apart
  <2>7. r.pc = "secret" \/ "secret" \in r.wrote => r.user \in invalidated'
    BY <1>1, <1>15, <1>19, <2>1 DEF RequestInv, PendingInv
  <2>8. SessionInv(r)'
    <3>1. SUFFICES ASSUME p.pc \in Responding, p.account # NoProviderId,
                          ~p.stale, p.account \notin dropped
                   PROVE  <<p.account, p.user>> \in links' \/ "link" \in p.wrote
      BY <2>a, <2>b DEF SessionInv, Responding
    <3>2. <<p.account, p.user>> \in links \/ "link" \in p.wrote
      BY <2>1, <3>1 DEF RequestInv, SessionInv
    <3> QED
      BY <1>1, <3>1, <3>2
  <2> QED
    BY <2>2, <2>3, <2>4, <2>5, <2>6, <2>7, <2>8 DEF RequestInv, PendingInv
<1>20. \A d \in Requests : RequestInv(req[d])'
  <2> SUFFICES ASSUME NEW d \in Requests PROVE RequestInv(req[d])'
    OBVIOUS
  <2> PICK r : r = req'[d]
    OBVIOUS
  <2>1. CASE d = c
    <3>1. RequestInv(Idle)'
      BY <1>1, IdleIsFine, AccountsAssumption
         DEF RequestInv, Request, Idle, WroteInv, AccountInv, UserInv, PendingInv,
         SessionInv, Responding, Session
    <3> QED
      BY <1>14, <2>1, <3>1
  <2>2. CASE d # c
    BY <1>19, <2>2
  <2> QED
    BY <2>1, <2>2
<1>21. \A d, e \in Requests : d # e => Apart(req'[d], req'[e])
  <2> SUFFICES ASSUME NEW d \in Requests, NEW e \in Requests, d # e
               PROVE  Apart(req'[d], req'[e])
    OBVIOUS
  <2>1. Apart(req[d], req[e])
    BY DEF AccountsInv
  <2>2. Idle.wrote = {}
    BY DEF Idle
  <2>3. CASE d = c \/ e = c
    BY <1>14, <2>2, <2>3 DEF Apart
  <2>4. CASE d # c /\ e # c
    BY <1>15, <2>1, <2>4 DEF Apart
  <2> QED
    BY <2>3, <2>4
<1> QED
  BY <1>16, <1>17, <1>18, <1>20, <1>21 DEF AccountsInv

----------------------------------------------------------------------------
LEMMA StepHolds == AccountsInv /\ [Next]_vars => AccountsInv'
<1> SUFFICES ASSUME AccountsInv, [Next]_vars PROVE AccountsInv'
  OBVIOUS
<1>1. ASSUME NEW c \in Requests, RequestNext(c)
      PROVE  AccountsInv'
  <2>1. CASE Fails(c)
    BY <1>1, <2>1, EndHolds DEF Fails, Stores
  <2> QED
    BY <1>1, <2>1, BeginRegisterHolds, BeginUnlinkHolds, BeginLogoutAllHolds,
       BeginEditHolds, GetStateHolds, BeginCompleteHolds, RespondHolds,
       FetchIdentityHolds, FindsLinkHolds, FindsNoLinkHolds, FindsEmailHolds,
       FindsNoEmailHolds, LoadLinksHolds, DeleteStateHolds, InvalidateHolds,
       InsertUserHolds, InsertLinkHolds, DropLinksHolds, UpdateSecretHolds,
       EditUserHolds, CommitHolds DEF RequestNext
(* Steps of Redis and of OAuth logins that begin.                          *)
<1>2. ASSUME UNCHANGED <<email, secret, links, invalidated, req>>,
             registrations' \subseteq ProviderIds, oauth' \in [States -> Payload],
             StoresInv'
      PROVE  AccountsInv'
  <2>1. Grown
    BY <1>2 DEF Grown, AccountsInv, AccountsTypeOK
  <2>2. \A c \in Requests : RequestInv(req[c])'
    <3> SUFFICES ASSUME NEW c \in Requests PROVE RequestInv(req[c])'
      OBVIOUS
    <3> PICK q : q = req[c]
      OBVIOUS
    <3> QED
      BY <1>2, <2>1, ReqHolds, GrownKeeps
  <2>3. AccountsTypeOK' /\ OneOwner'
    BY <1>2 DEF AccountsInv, AccountsTypeOK, OneOwner, Exists
  <2> QED
    BY <1>2, <2>2, <2>3 DEF AccountsInv, Apart
<1>3. ASSUME NEW s \in States, NEW u \in Users \cup {NoUser},
             NEW i \in {"authenticate", "link"}, OAuthStart(s, i, u)
      PROVE  AccountsInv'
  <2>1. oauth' \in [States -> Payload]
    BY <1>3 DEF OAuthStart, AccountsInv, AccountsTypeOK, Payload
  <2>2. StoresInv'
    BY <1>3 DEF OAuthStart, AccountsInv, AccountsTypeOK, StoresInv, Exists
  <2> QED
    BY <1>2, <1>3, <2>1, <2>2 DEF OAuthStart, AccountsInv, AccountsTypeOK
<1>4. ASSUME NEW s \in States, StateExpires(s)
      PROVE  AccountsInv'
  <2>1. oauth' \in [States -> Payload]
    BY <1>4 DEF StateExpires, AccountsInv, AccountsTypeOK, Payload, NoPayload
  <2>2. StoresInv'
    BY <1>4 DEF StateExpires, AccountsInv, AccountsTypeOK, StoresInv, Exists, NoPayload
  <2> QED
    BY <1>2, <1>4, <2>1, <2>2 DEF StateExpires, AccountsInv, AccountsTypeOK
<1>5. ASSUME NEW a \in ProviderIds, RegistrationExpires(a)
      PROVE  AccountsInv'
  BY <1>2, <1>5 DEF RegistrationExpires, AccountsInv, AccountsTypeOK, StoresInv, Exists
<1>6. CASE UNCHANGED vars
  BY <1>2, <1>6 DEF vars, AccountsInv, AccountsTypeOK, StoresInv, Exists
<1> QED
  BY <1>1, <1>3, <1>4, <1>5, <1>6 DEF Next

LEMMA InvHolds == Spec => []AccountsInv
BY InitHolds, StepHolds, PTL DEF Spec

(* Rows, links, stores and requests in flight keep their types, whatever   *)
(* the requests in flight do to each other.                                *)
THEOREM AccountsTypeCorrect == Spec => []AccountsTypeOK
<1>1. AccountsInv => AccountsTypeOK
  BY DEF AccountsInv
<1> QED
  BY InvHolds, <1>1, PTL

(* Links and addresses have one owner for any number of users, accounts    *)
(* and requests, whatever they looked at before others committed.          *)
THEOREM OneOwnerEach == Spec => []OneOwner
<1>1. AccountsInv => OneOwner
  BY DEF AccountsInv
<1> QED
  BY InvHolds, <1>1, PTL

(* After logout_all has changed the secret of a user, no older access or   *)
(* refresh token is accepted again.                                        *)
THEOREM LogoutIsFinal == Spec => []LoggedOutStaysOut
<1>1. AccountsInv => LoggedOutStaysOut
  <2> SUFFICES ASSUME AccountsInv, NEW u \in Users, NEW n \in 0 .. MaxSecret,
                      n < secret[u]
               PROVE  ~AccessAccepted(u) /\ ~RefreshAccepted(u, n)
    BY DEF LoggedOutStaysOut
  <2>1. secret[u] > 0 /\ n # secret[u]
    BY AccountsAssumption DEF AccountsInv, AccountsTypeOK
  <2> QED
    BY <2>1 DEF AccountsInv, StoresInv, AccessAccepted, RefreshAccepted
<1> QED
  BY InvHolds, <1>1, PTL

(* Whoever answers a login through a provider answers with a session of    *)
(* the user the account is linked to.                                      *)
THEOREM SessionsMatchLinks == Spec => []SessionMatchesLink
<1>1. AccountsInv => SessionMatchesLink
  <2> SUFFICES ASSUME AccountsInv, NEW c \in Requests, NEW v \in Users,
                      req[c].pc \in {"respond", "commit"},
                      req[c].account # NoProviderId,
                      ~req[c].stale,
                      <<req[c].account, v>> \in links
               PROVE  v = req[c].user
    BY DEF SessionMatchesLink
  <2>1. <<req[c].account, req[c].user>> \in links \/ "link" \in req[c].wrote
    BY ReqHolds DEF RequestInv, SessionInv, Responding
  <2>2. "link" \notin req[c].wrote
    BY ReqHolds DEF RequestInv, PendingInv, Linked
  <2> QED
    BY <2>1, <2>2 DEF AccountsInv, OneOwner, AccountsTypeOK
<1> QED
  BY InvHolds, <1>1, PTL

LEMMA OnlyCommitsCreate ==
  [Next]_vars => email' = email \/ \E d \in Requests : Commit(d)
<1>1. ASSUME NEW c \in Requests, RequestNext(c), ~Commit(c)
      PROVE  email' = email
  BY <1>1 DEF RequestNext, BeginRegister, InsertUser, GetState, DeleteState,
     FetchIdentity, BeginComplete, FindsLink, FindsEmail, FindsNoLink, FindsNoEmail,
     InsertLink, BeginUnlink, BeginLogoutAll, BeginEdit, LoadLinks, DropLinks,
     Invalidate, UpdateSecret, EditUser, Respond, Fails
<1> QED
  BY <1>1 DEF Next, vars, OAuthStart, StateExpires, RegistrationExpires

(* oauth_complete never leaves a user without the link behind.             *)
THEOREM NoAccountIsHalf == Spec => NoHalfAccount
<1> DEFINE Whole == \A c \in Requests, u \in Users :
                      /\ req[c].kind = "complete"
                      /\ req'[c] # req[c]
                      /\ ~Exists(u)
                      /\ email'[u] # NoEmail
                      => <<req[c].account, u>> \in links'
<1>1. AccountsInv /\ [Next]_vars => [Whole]_vars
  <2> SUFFICES ASSUME AccountsInv, [Next]_vars,
                      NEW c \in Requests, NEW u \in Users,
                      req[c].kind = "complete", req'[c] # req[c],
                      ~Exists(u), email'[u] # NoEmail
               PROVE  <<req[c].account, u>> \in links'
    OBVIOUS
  <2>1. PICK d \in Requests : Commit(d)
    BY OnlyCommitsCreate DEF Exists
  <2>2. "user" \in req[d].wrote /\ u = req[d].user
    BY <2>1 DEF Commit, Wrote, Exists, AccountsInv, AccountsTypeOK
  <2>3. "drop" \notin req[d].wrote
    BY <2>2, ReqHolds DEF RequestInv, WroteInv
  <2>4. CASE d # c
    <3> PICK p : p = req[c]
      OBVIOUS
    <3>1. req'[c] = AfterDrop(p, {})
      BY <2>1, <2>3, <2>4 DEF Commit, Wrote
    <3>2. p \in Request
      BY ReqHolds DEF RequestInv
    <3>3. AfterDrop(p, {}) = [p EXCEPT !.drops = p.drops, !.stale = p.stale]
      BY <3>2 DEF AfterDrop, Request
    <3>4. [p EXCEPT !.drops = p.drops, !.stale = p.stale] = p
      BY <3>2 DEF Request
    <3> QED
      BY <3>1, <3>3, <3>4
  <2>5. CASE d = c
    <3>1. "link" \in req[c].wrote
      BY <2>1, <2>5, ReqHolds DEF Commit, RequestInv, WroteInv, Responding
    <3> QED
      BY <2>1, <2>2, <2>5, <3>1 DEF Commit, Wrote
  <2> QED
    BY <2>4, <2>5
<1> QED
  BY InvHolds, <1>1, PTL DEF Spec, NoHalfAccount
=============================================================================
