----------------------------- MODULE Membership -----------------------------
(***************************************************************************)
(* Who is with whom, as the lobbies promise it to their users, whatever    *)
(* their handlers wait for: a user is in one lobby at most, comes in only  *)
(* from outside and goes out only from a seat, one at a time; a lobby      *)
(* passes to a member when its leader has gone, and is closed when nobody  *)
(* sits in it.                                                             *)
(*                                                                         *)
(* It promises no more than the program keeps.  A seat may be given twice, *)
(* and whoever had it first then is in the lobby without being a member    *)
(* (out in Enter); and a lobby may be entered after it was closed.         *)
(***************************************************************************)
CONSTANTS
    Persons,        \* those who may be in a lobby
    Rooms,          \* the lobbies there may ever be
    Outside,        \* where those are who are in no lobby
    NoLeader        \* the leader of a lobby that has never been opened

VARIABLES
    place,          \* the lobby a person is in, or Outside
    members,        \* those who sit in a lobby
    leader,         \* who leads it
    opened          \* the lobbies that are open

membership == <<place, members, leader, opened>>

MembershipInit ==
    /\ place = [p \in Persons |-> Outside]
    /\ members = [r \in Rooms |-> {}]
    /\ leader = [r \in Rooms |-> NoLeader]
    /\ opened = {}

Found(p, r) ==
    /\ place[p] = Outside
    /\ r \notin opened
    /\ \A q \in Persons : place[q] # r
    /\ members[r] = {}
    /\ place' = [place EXCEPT ![p] = r]
    /\ members' = [members EXCEPT ![r] = {p}]
    /\ leader' = [leader EXCEPT ![r] = p]
    /\ opened' = opened \cup {r}

(* out: the one who loses the seat that p is given, or nobody.             *)
Enter(p, r, out) ==
    /\ place[p] = Outside
    /\ place' = [place EXCEPT ![p] = r]
    /\ members' = [members EXCEPT ![r] = (@ \ out) \cup {p}]
    /\ UNCHANGED <<leader, opened>>

(* p leaves, or the leader sends p away.                                   *)
Exit(p, r) ==
    /\ r \in opened
    /\ place[p] = r
    /\ p \in members[r]
    /\ place' = [place EXCEPT ![p] = Outside]
    /\ members' = [members EXCEPT ![r] = @ \ {p}]
    /\ UNCHANGED <<leader, opened>>

(* The leader has gone, and p takes over.                                  *)
Succeed(p, r) ==
    /\ leader[r] \notin members[r]
    /\ p \in members[r]
    /\ leader' = [leader EXCEPT ![r] = p]
    /\ UNCHANGED <<place, members, opened>>

Close(r) ==
    /\ r \in opened
    /\ members[r] = {}
    /\ opened' = opened \ {r}
    /\ UNCHANGED <<place, members, leader>>

MembershipNext ==
    \/ \E p \in Persons, r \in Rooms :
          \/ Found(p, r) \/ Exit(p, r) \/ Succeed(p, r)
          \/ \E out \in {{}} \cup {{q} : q \in members[r]} : Enter(p, r, out)
    \/ \E r \in Rooms : Close(r)

MembershipSpec == MembershipInit /\ [][MembershipNext]_membership
=============================================================================
