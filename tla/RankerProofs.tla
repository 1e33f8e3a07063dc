---------------------------- MODULE RankerProofs ----------------------------
(* What the topology of positions and the placements of the ranker promise *)
(* to the players of a game.                                               *)
EXTENDS Ranker, TLAPS

(* Partners play on different boards in different colours, and the two     *)
(* players of a board are of different teams and colours, with either      *)
(* colour flip (the comment on topology in game/models.py).                *)
THEOREM TopologyHolds ==
    ASSUME NEW p \in Positions, NEW flip \in BOOLEAN
    PROVE  LET q == PartnerPos[p]  o == (p + 2) % 4 IN
           /\ q \in Positions
           /\ TeamOfPos(q) = TeamOfPos(p)
           /\ PosToBoard(q) # PosToBoard(p)
           /\ PosToColour(q, flip) # PosToColour(p, flip)
           /\ TeamOfPos(o) = OtherTeam(TeamOfPos(p))
           /\ PosToBoard(o) = PosToBoard(p)
           /\ PosToColour(o, flip) # PosToColour(p, flip)
<1>1. p = 0 \/ p = 1 \/ p = 2 \/ p = 3
  BY DEF Positions
<1>2. CASE p = 0
  BY <1>2 DEF Positions, PartnerPos, TeamOfPos, OtherTeam, PosToBoard,
              PosToColour, OtherColour
<1>3. CASE p = 1
  BY <1>3 DEF Positions, PartnerPos, TeamOfPos, OtherTeam, PosToBoard,
              PosToColour, OtherColour
<1>4. CASE p = 2
  BY <1>4 DEF Positions, PartnerPos, TeamOfPos, OtherTeam, PosToBoard,
              PosToColour, OtherColour
<1>5. CASE p = 3
  BY <1>5 DEF Positions, PartnerPos, TeamOfPos, OtherTeam, PosToBoard,
              PosToColour, OtherColour
<1>. QED
  BY <1>1, <1>2, <1>3, <1>4, <1>5

(* A board and a colour determine the position: pos_for inverts            *)
(* pos_to_board and pos_to_color.                                          *)
THEOREM PosForInverts ==
    ASSUME NEW p \in Positions, NEW flip \in BOOLEAN
    PROVE  PosFor(PosToBoard(p), PosToColour(p, flip), flip) = p
<1>1. ASSUME NEW q \in Positions, PosToBoard(q) = PosToBoard(p),
             PosToColour(q, flip) = PosToColour(p, flip)
      PROVE  q = p
  <2>1. /\ p \in {0, 1, 2, 3}
        /\ q \in {0, 1, 2, 3}
    BY DEF Positions
  <2>2. (p \in {0, 3}) <=> (q \in {0, 3})
    BY <1>1 DEF PosToColour, OtherColour
  <2>3. p % 2 = q % 2
    BY <1>1 DEF PosToBoard
  <2>. QED
    BY <2>1, <2>2, <2>3
<1>. QED
  BY <1>1 DEF PosFor

(* The mappings of the ranker keep what the lobby shows: partners stay     *)
(* partners, and the players opposite each other stay on one board.        *)
LEMMA AutomorphismsKeepTopology ==
    ASSUME NEW a \in Automorphisms, NEW p \in Positions
    PROVE  /\ a[p] \in Positions
           /\ a[PartnerPos[p]] = PartnerPos[a[p]]
           /\ a[(p + 2) % 4] = (a[p] + 2) % 4
<1>1. p = 0 \/ p = 1 \/ p = 2 \/ p = 3
  BY DEF Positions
<1>2. /\ PartnerPos[0] = 1 /\ PartnerPos[1] = 0
      /\ PartnerPos[2] = 3 /\ PartnerPos[3] = 2
  BY DEF PartnerPos, Positions
<1>3. CASE a = [x \in Positions |-> x]
  BY <1>1, <1>2, <1>3 DEF Positions
<1>4. CASE a = [x \in Positions |-> PartnerPos[x]]
  BY <1>1, <1>2, <1>4 DEF Positions
<1>5. CASE a = [x \in Positions |-> (x + 2) % 4]
  BY <1>1, <1>2, <1>5 DEF Positions
<1>6. CASE a = [x \in Positions |-> 3 - x]
  BY <1>1, <1>2, <1>6 DEF Positions
<1>. QED
  BY <1>3, <1>4, <1>5, <1>6 DEF Automorphisms

(* A placement of entries gives every game position to exactly one seat of *)
(* one entry, and two partners of a lobby are partners in the game.        *)
THEOREM PlacementSeatsEverybody ==
    ASSUME NEW E, NEW place \in [E -> Automorphisms], IsPlacement(place, E)
    PROVE  /\ \A p \in Positions : \E e \in E : \E i \in TakenSeats(e) :
                 place[e][i] = p
           /\ \A e, f \in E : \A i \in TakenSeats(e), j \in TakenSeats(f) :
                 place[e][i] = place[f][j] => e = f /\ i = j
           /\ \A e \in E : \A i \in TakenSeats(e) :
                 place[e][PartnerPos[i]] = PartnerPos[place[e][i]]
<1>1. ASSUME NEW p \in Positions
      PROVE  \E e \in E : \E i \in TakenSeats(e) : place[e][i] = p
  <2>1. PICK e \in E : p \in Image(e, place[e])
    BY DEF IsPlacement
  <2>. QED
    BY <2>1 DEF Image
<1>2. ASSUME NEW e \in E, NEW f \in E, NEW i \in TakenSeats(e),
             NEW j \in TakenSeats(f), place[e][i] = place[f][j]
      PROVE  e = f /\ i = j
  <2>1. place[e][i] \in Image(e, place[e]) /\ place[f][j] \in Image(f, place[f])
    BY DEF Image
  <2>2. e = f
    BY <1>2, <2>1 DEF IsPlacement
  <2>3. /\ i \in Positions
        /\ j \in Positions
        /\ place[e] \in Automorphisms
    BY DEF TakenSeats
  <2>4. ASSUME NEW a \in Automorphisms, NEW x \in Positions,
               NEW y \in Positions, a[x] = a[y]
        PROVE  x = y
    <3>1. /\ PartnerPos[0] = 1 /\ PartnerPos[1] = 0
          /\ PartnerPos[2] = 3 /\ PartnerPos[3] = 2
      BY DEF PartnerPos, Positions
    <3>2. CASE a = [p \in Positions |-> p]
      BY <2>4, <3>2
    <3>3. CASE a = [p \in Positions |-> PartnerPos[p]]
      BY <2>4, <3>1, <3>3 DEF Positions
    <3>4. CASE a = [p \in Positions |-> (p + 2) % 4]
      BY <2>4, <3>4 DEF Positions
    <3>5. CASE a = [p \in Positions |-> 3 - p]
      BY <2>4, <3>5 DEF Positions
    <3>. QED
      BY <3>2, <3>3, <3>4, <3>5 DEF Automorphisms
  <2>. QED
    BY <1>2, <2>2, <2>3, <2>4
<1>3. ASSUME NEW e \in E, NEW i \in TakenSeats(e)
      PROVE  place[e][PartnerPos[i]] = PartnerPos[place[e][i]]
  BY AutomorphismsKeepTopology DEF TakenSeats
<1>. QED
  BY <1>1, <1>2, <1>3
=============================================================================
