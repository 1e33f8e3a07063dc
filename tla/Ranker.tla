------------------------------- MODULE Ranker -------------------------------
(***************************************************************************)
(* Which queue entries can form a game (services/core/queue/ranker.py).    *)
(*                                                                         *)
(* An entry is a record with at least the fields size, seats, rated and    *)
(* known.  size is what enqueue counted before its database loads, seats   *)
(* what the lobby held after them, and known the seats it has loaded       *)
(* sigmas and colours for.                                                 *)
(***************************************************************************)
EXTENDS Topology, FiniteSets

CONSTANT Nobody         \* an empty seat

(* The permutations of the positions that keep teammates, boards and       *)
(* cross-board pairs.                                                      *)
Automorphisms ==
    {[p \in Positions |-> p],
     [p \in Positions |-> PartnerPos[p]],
     [p \in Positions |-> (p + 2) % 4],
     [p \in Positions |-> 3 - p]}

TakenSeats(e) == {i \in Positions : e.seats[i] # Nobody}

(* The game positions the players of entry e take under perm.              *)
Image(e, perm) == {perm[i] : i \in TakenSeats(e)}

(* A placement maps every entry by an automorphism so that each game       *)
(* position is taken exactly once.                                         *)
IsPlacement(place, E) ==
    /\ \A e, f \in E : e # f => Image(e, place[e]) \cap Image(f, place[f]) = {}
    /\ UNION {Image(e, place[e]) : e \in E} = Positions

Placements(E) == {place \in [E -> Automorphisms] : IsPlacement(place, E)}

OfSize(E, n) == Cardinality({e \in E : e.size = n})

(* The partitions of four players the exact search looks at.               *)
Shapes == {<<0, 0, 0, 1>>, <<1, 0, 1, 0>>, <<0, 2, 0, 0>>, <<2, 1, 0, 0>>,
           <<4, 0, 0, 0>>}

HasShape(E) ==
    LET shape == [n \in 1 .. 4 |-> OfSize(E, n)] IN
    /\ shape \in Shapes
    /\ shape = <<1, 0, 1, 0>> => \A e \in E : ~e.rated

(* find_best_assignment returns some set of entries iff one of its subsets *)
(* is such a set; which one depends on ratings and waiting times.          *)
Matchable(E) == HasShape(E) /\ Placements(E) # {}

(* The score of a placement adds up the colours of all players; one that   *)
(* was never loaded is None, and the search raises TypeError.  Every match *)
(* that is possible in a group is scored (of a group of more than 24       *)
(* entries only some).                                                     *)
SearchRaises(group) ==
    \E E \in SUBSET group :
        /\ Matchable(E)
        /\ \E e \in E : ~(TakenSeats(e) \subseteq e.known)
=============================================================================
