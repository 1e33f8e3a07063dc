--------------------------- MODULE MCMatchmaking ---------------------------
(* Small instances of Matchmaking.  They start when the users have formed  *)
(* and queued their lobbies: each is led by its first player, nobody waits *)
(* for a reply and the queue loop sleeps.                                  *)
EXTENDS Matchmaking, TLC

CONSTANTS u1, u2, u3, u4, u5, u6, u7, u8, b1, l1, l2, l3, l4, l5

SeatList(a, b, c, d) == (0 :> a) @@ (1 :> b) @@ (2 :> c) @@ (3 :> d)

(* Queued lobbies with the given seats.                                    *)
QueuedInit(seats) ==
    /\ lobby = [l \in LobbyIds |->
                  [leader |-> seats[l][0], seats |-> seats[l],
                   rated |-> FALSE, state |-> "in_queue"]]
    /\ live = LobbyIds
    /\ userToLobby = [u \in Users |-> CHOOSE l \in LobbyIds : Seated(u, l)]
    /\ invites = {}
    /\ rpc = [u \in Users |-> NoCall]
    /\ evict = NoEviction
    /\ load = [u \in Users |-> NoLoad]
    /\ entries = [l \in LobbyIds |->
                    [lobby |-> l, size |-> Cardinality(Taken(seats[l])),
                     seats |-> seats[l], rated |-> FALSE,
                     known |-> Taken(seats[l])]]
    /\ tick = Sleeping
    /\ games = {}

(* Two single humans and a team of three, which can form two games, and    *)
(* two humans with three bots each whose lobbies are games of their own.   *)
MixedSeats ==
    l1 :> SeatList(u1, Nobody, Nobody, Nobody) @@
    l2 :> SeatList(u2, u3, u4, Nobody) @@
    l3 :> SeatList(u5, Nobody, Nobody, Nobody) @@
    l4 :> SeatList(u6, b1, b1, b1) @@
    l5 :> SeatList(u7, b1, b1, b1)

MixedSpec == QueuedInit(MixedSeats) /\ [][MatchNext]_allVars /\ MatchFairness

(* Entries of one configuration that can form a game do not wait for ever: *)
(* whatever the ranker prefers, one tick goes on until no such set is      *)
(* left.  Checked for the matches of this instance.                         *)
MatchableIsFired ==
    \A S \in {{l1, l2}, {l3, l2}, {l4}} : IsFired(S)

(* Four pairs, for two games in one tick.                                  *)
FourPairs ==
    l1 :> SeatList(u1, u2, Nobody, Nobody) @@
    l2 :> SeatList(u3, u4, Nobody, Nobody) @@
    l3 :> SeatList(u5, u6, Nobody, Nobody) @@
    l4 :> SeatList(u7, u8, Nobody, Nobody)

FourPairsSpec == QueuedInit(FourPairs) /\ [][MatchNext]_allVars

(* Two humans and a bot form a lobby that is not queued yet; two more      *)
(* humans are outside.                                                     *)
FormingInit ==
    LET seats == SeatList(u1, Nobody, u3, b1) IN
    /\ lobby = [l \in LobbyIds |-> [leader |-> u1, seats |-> seats,
                                    rated |-> FALSE, state |-> "idle"]]
    /\ live = LobbyIds
    /\ userToLobby = [u \in Users |-> IF u \in {u1, u3} THEN l1 ELSE NoLobby]
    /\ invites = {}
    /\ rpc = [u \in Users |-> NoCall]
    /\ evict = NoEviction
    /\ load = [u \in Users |-> NoLoad]
    /\ entries = [l \in LobbyIds |-> NoEntry]
    /\ tick = Sleeping
    /\ games = {}

FormingSpec == FormingInit /\ [][MatchNext]_allVars

Outsiders == Permutations({u2, u4})
=============================================================================
