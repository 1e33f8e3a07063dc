----------------------------- MODULE GameProofs -----------------------------
(***************************************************************************)
(* What holds of every game, for every line-up and any number of moves.    *)
(*                                                                         *)
(* None of the properties is inductive.  ClockOfMover needs to know that a *)
(* clock runs, or is being stopped, only after two moves of its board were *)
(* recorded: then the next move finds it and stops it.  QuietAfterEnd      *)
(* needs nothing else.  GameLife needs both, because it is the absence of  *)
(* thinking bots that keeps a finished game from moving, and that _finish  *)
(* is entered, and has its stages, with a result.  MoverHasTurn needs that *)
(* a task of a board is the one of the bot to move (TaskInv).  GameIsTimed *)
(* needs to know which calls no wake-up cancels (WatchInv).                *)
(***************************************************************************)
EXTENDS Game, TLAPS

(* When the clock of a board may run or be waited for, and what a call     *)
(* that ends the game carries.                                             *)
CallInv ==
    /\ \A b \in Boards : clock[b] # "off" => count[b] >= 2
    /\ \A p \in Positions :
          /\ call[p].pc = "stop" => count[PosToBoard(p)] >= 2
          /\ call[p].pc = "decide" => call[p].result \in Results

EndInv == ending.stage = "none" <=> ~Finished

GameInv == GameTypeOK /\ CallInv /\ EndInv /\ ClockOfMover /\ QuietAfterEnd

(* A step of GameLife, or none.                                            *)
LifeStep == [Life!Move \/ Life!Decide \/ Life!Close]_Life!lifeVars

LEMMA BoardOfPosition == \A p \in Positions : PosToBoard(p) \in Boards
BY DEF Positions, PosToBoard, Boards

LEMMA TeamsLose == \A t : OtherTeam(t) \in Results
BY DEF OtherTeam, Results, Teams

LEMMA ColoursMove == \A n : TurnAfter(n) \in Colours
BY DEF TurnAfter, Colours

LEMMA FirstIsMember ==
  ASSUME NEW H \in SUBSET (0 .. 3), H # {}
  PROVE  FirstOf(H) \in H
<1>1. \E p \in H : \A q \in H : p <= q
  <2>1. CASE 0 \in H
    BY <2>1
  <2>2. CASE 0 \notin H /\ 1 \in H
    BY <2>2
  <2>3. CASE 0 \notin H /\ 1 \notin H /\ 2 \in H
    BY <2>3
  <2>4. CASE 0 \notin H /\ 1 \notin H /\ 2 \notin H
    <3>1. \A x \in 0 .. 3 : x \in {0, 1, 2, 3}
      OBVIOUS
    <3>2. \A x \in H : x = 3
      BY <2>4, <3>1
    <3>3. PICK x \in H : TRUE
      OBVIOUS
    <3>4. \A y \in H : x <= y
      BY <3>2
    <3> QED
      BY <3>4
  <2> QED
    BY <2>1, <2>2, <2>3, <2>4
<1> QED
  BY <1>1 DEF FirstOf

LEMMA InitHolds == GameInit => GameInv /\ Life!LifeInit
<1> SUFFICES ASSUME GameInit PROVE GameInv /\ Life!LifeInit
  OBVIOUS
<1> USE GameAssumption DEF GameInit
<1>1. mapped \subseteq Humans
  OBVIOUS
<1>2. GameTypeOK
  BY <1>1 DEF GameTypeOK, Boards, Situations, Thinking, Applying, Idle, Ending,
     Timer, Nobody, Positions, NoResult
<1>3. CallInv /\ EndInv /\ ClockOfMover /\ QuietAfterEnd
  BY DEF CallInv, EndInv, ClockOfMover, QuietAfterEnd, Finished, Idle
<1>4. Life!LifeInit
  BY DEF Life!LifeInit, Finished, NoResult, Boards
<1> QED
  BY <1>2, <1>3, <1>4 DEF GameInv

(* A cancelled task waits at most for what it waited for.                  *)
LEMMA CancelledIsTyped ==
  ASSUME NEW c \in Applying
  PROVE  /\ Cancelled(c) \in Applying /\ Idle \in Applying
         /\ Cancelled(c).pc \in {"none", "stop"}
         /\ Cancelled(c).pc = "stop" => c.pc = "stop"
         /\ Idle.pc = "none"
BY DEF Cancelled, Applying, Idle, NoResult

LEMMA FinishKeeps ==
  ASSUME GameInv, NEW q \in Positions \cup {Timer}, NEW r \in Results,
         Finish(q, r), UNCHANGED <<setup, chess, drops>>
  PROVE  GameInv' /\ LifeStep
<1> USE DEF GameInv, GameTypeOK, setup, chess
<1>0. Results \cup {NoResult} = Results \cup {"none"} /\ "none" \notin Results
  BY DEF Results, Teams, NoResult
<1>1. CASE Finished
  <2>1. /\ call' = [p \in Positions |-> IF p = q THEN Idle ELSE call[p]]
        /\ UNCHANGED <<result, armed, clock, think, ending>>
    BY <1>1 DEF Finish
  <2>2. \A p \in Positions : call'[p] = Idle \/ call'[p] = call[p]
    BY <2>1
  <2>3. call' \in [Positions -> Applying]
    BY <2>1, CancelledIsTyped
  <2>4. GameTypeOK' /\ EndInv' /\ ClockOfMover' /\ QuietAfterEnd'
    BY <2>1, <2>3 DEF EndInv, ClockOfMover, QuietAfterEnd, Finished, Turn, Humans
  <2>5. CallInv'
    BY <2>1, <2>2 DEF CallInv, Idle
  <2>6. UNCHANGED Life!lifeVars
    BY <2>1 DEF Life!lifeVars, Finished
  <2> QED
    BY <2>4, <2>5, <2>6 DEF LifeStep
<1>2. CASE ~Finished
  <2>1. /\ result' = r
        /\ armed' = [b \in Boards |-> FALSE]
        /\ clock' = [b \in Boards |-> "off"]
        /\ think' = [b \in Boards |-> {}]
        /\ call' = [p \in Positions |->
                      IF p = q THEN Idle
                      ELSE IF call[p].own THEN Cancelled(call[p]) ELSE call[p]]
        /\ ending' = [stage |-> "closing", by |-> q]
    BY <1>2 DEF Finish
  <2>2. \A p \in Positions : call'[p] \in {Idle, Cancelled(call[p]), call[p]}
    BY <2>1
  <2>3. \A p \in Positions :
          /\ call'[p] \in Applying
          /\ call'[p].pc = "stop" => call[p].pc = "stop"
          /\ call'[p].pc = "decide" => call'[p] = call[p]
    BY <2>2, CancelledIsTyped
  <2>4. call' \in [Positions -> Applying]
    BY <2>1, <2>3
  <2>5. Finished' /\ ending'.stage = "closing"
    BY <2>1, <1>0 DEF Finished, NoResult
  <2>6. GameTypeOK'
    BY <2>1, <2>4 DEF Ending, Humans
  <2>7. CallInv'
    BY <2>1, <2>3 DEF CallInv
  <2>8. EndInv' /\ ClockOfMover' /\ QuietAfterEnd'
    BY <2>1, <2>5 DEF EndInv, ClockOfMover, QuietAfterEnd
  <2>9. Life!Decide
    BY <1>2, <2>1, <2>5 DEF Life!Decide, Finished
  <2> QED
    BY <2>6, <2>7, <2>8, <2>9 DEF LifeStep
<1> QED
  BY <1>1, <1>2

(* The rest of _apply_move keeps clocks right: it starts the one of the    *)
(* player to move, on a board with two recorded moves.                     *)
LEMMA RecordKeeps ==
  ASSUME GameInv, NEW p \in Positions, NEW m \in Nat,
         NEW captured \in BOOLEAN, NEW own \in BOOLEAN,
         m >= 2 => count[PosToBoard(p)] >= 2,
         m < 2 => count[PosToBoard(p)] = m,
         made' \in [Boards -> Nat],
         \A b \in Boards : clock[b] \in {"off", TurnAfter(made'[b])},
         Record(p, m, captured, own)
  PROVE  /\ count' \in [Boards -> Nat]
         /\ armed' \in [Boards -> BOOLEAN]
         /\ clock' \in [Boards -> Colours \cup {"off"}]
         /\ call' \in [Positions -> Applying]
         /\ \A b \in Boards : clock'[b] \in {"off", TurnAfter(made'[b])}
         /\ Finished => clock' = clock
         /\ CallInv'
<1> USE DEF GameInv, GameTypeOK
<1> DEFINE b == PosToBoard(p)
           next == ToMoveNow(p)
           mated == position'[b] = "mate"
           drawn == \E c \in Boards : position'[c] = "draw"
           winner == OtherTeam(TeamOfPos(PosFor(b, next, ColorFlip)))
           res == IF mated THEN winner ELSE IF drawn THEN "draw" ELSE NoResult
           new == [pc |-> IF mated \/ drawn THEN "decide" ELSE "publish",
                   captured |-> captured, own |-> own, result |-> res]
<1>1. /\ count' = [count EXCEPT ![b] = @ + 1]
      /\ armed' = [armed EXCEPT ![b] = StaysArmed(m, @)]
      /\ clock' = [clock EXCEPT ![b] =
                     IF ~mated /\ ~drawn /\ ClockStarts(m) THEN next ELSE @]
      /\ call' = [call EXCEPT ![p] = new]
  BY DEF Record
<1>2. b \in Boards /\ count[b] \in Nat
  BY BoardOfPosition
<1>3. next = TurnAfter(made'[b]) /\ next \in Colours
  BY ColoursMove DEF ToMoveNow
<1>4. count' \in [Boards -> Nat] /\ \A c \in Boards : count'[c] >= count[c]
  BY <1>1, <1>2
<1>5. armed' \in [Boards -> BOOLEAN]
  BY <1>1 DEF StaysArmed
<1>6. clock' \in [Boards -> Colours \cup {"off"}]
  BY <1>1, <1>3
<1>7. /\ \A c \in Boards : clock'[c] \in {"off", TurnAfter(made'[c])}
      /\ Finished => clock' = clock
  BY <1>1, <1>2, <1>3 DEF ClockStarts
<1>8. res \in Results \cup {NoResult} /\ (mated \/ drawn => res \in Results)
  BY TeamsLose DEF Results
<1>9. new \in Applying /\ new.pc # "stop" /\ (new.pc = "decide" => new.result \in Results)
  BY <1>8 DEF Applying
<1>10. call' \in [Positions -> Applying]
  BY <1>1, <1>9
<1>11. \A c \in Boards : clock'[c] # "off" => count'[c] >= 2
  <2>1. TAKE c \in Boards
  <2>2. CASE c = b /\ ClockStarts(m)
    BY <2>2, <1>1, <1>2 DEF ClockStarts
  <2>3. CASE c # b \/ ~ClockStarts(m)
    BY <2>3, <1>1, <1>2, <1>4 DEF CallInv
  <2> QED
    BY <2>2, <2>3
<1>12. \A q \in Positions :
          /\ call'[q].pc = "stop" => count'[PosToBoard(q)] >= 2
          /\ call'[q].pc = "decide" => call'[q].result \in Results
  <2>1. TAKE q \in Positions
  <2>2. CASE q = p
    BY <2>2, <1>1, <1>9
  <2>3. CASE q # p
    BY <2>3, <1>1, <1>4, BoardOfPosition DEF CallInv
  <2> QED
    BY <2>2, <2>3
<1> QED
  BY <1>4, <1>5, <1>6, <1>7, <1>10, <1>11, <1>12 DEF CallInv

(* A move that is made while the game is not over.                         *)
LEMMA ApplyKeeps ==
  ASSUME GameInv, ~Finished, NEW p \in Positions, NEW own \in BOOLEAN,
         Apply(p, own)
  PROVE  /\ made' \in [Boards -> Nat] /\ count' \in [Boards -> Nat]
         /\ position' \in [Boards -> Situations]
         /\ armed' \in [Boards -> BOOLEAN]
         /\ clock' \in [Boards -> Colours \cup {"off"}]
         /\ call' \in [Positions -> Applying]
         /\ CallInv' /\ ClockOfMover'
         /\ UNCHANGED <<setup, result, ending, drops>>
         /\ Life!Move
<1> USE DEF GameInv, GameTypeOK
<1> DEFINE b == PosToBoard(p)
<1>1. b \in Boards /\ made[b] \in Nat /\ count[b] \in Nat
  BY BoardOfPosition
<1>2. PICK after \in Outcomes(b), captured \in Captures(b) :
      \E fed \in (IF captured THEN Fed(b) ELSE {position[1 - b]}) :
         /\ made' = [made EXCEPT ![b] = @ + 1]
         /\ position' = [position EXCEPT ![b] = after, ![1 - b] = fed]
         /\ StopOrRecord(p, captured, own)
  BY DEF Apply
<1>3. PICK fed \in (IF captured THEN Fed(b) ELSE {position[1 - b]}) :
         /\ made' = [made EXCEPT ![b] = @ + 1]
         /\ position' = [position EXCEPT ![b] = after, ![1 - b] = fed]
         /\ StopOrRecord(p, captured, own)
  BY <1>2
<1>4. UNCHANGED <<setup, result, ending, drops>>
  BY DEF Apply
<1>5. captured \in BOOLEAN /\ after \in Situations /\ fed \in Situations
  <2>1. 1 - b \in Boards
    BY <1>1 DEF Boards
  <2> QED
    BY <2>1 DEF Captures, Outcomes, Fed, Situations
<1>6. made' \in [Boards -> Nat] /\ made'[b] = made[b] + 1
  BY <1>1, <1>3
<1>7. position' \in [Boards -> Situations]
  BY <1>3, <1>5
<1>8. \A c \in Boards \ {b} : made'[c] = made[c]
  BY <1>1, <1>3
<1>9. Life!Move
  <2>1. made'[0] + made'[1] = made[0] + made[1] + 1
    <3>1. b = 0 \/ b = 1
      BY <1>1 DEF Boards
    <3> QED
      BY <3>1, <1>6, <1>8 DEF Boards
  <2> QED
    BY <2>1, <1>4 DEF Life!Move, Finished
<1>10. CASE /\ count[b] >= 2 /\ clock[b] # "off"
            /\ clock' = [clock EXCEPT ![b] = "off"]
            /\ call' = [call EXCEPT ![p] =
                          [Idle EXCEPT !.pc = "stop", !.captured = captured,
                                       !.own = own]]
            /\ UNCHANGED <<count, armed>>
  <2> DEFINE new == [Idle EXCEPT !.pc = "stop", !.captured = captured,
                                 !.own = own]
  <2>1. new \in Applying /\ new.pc = "stop"
    BY <1>5 DEF Idle, Applying, NoResult
  <2>2. call' \in [Positions -> Applying]
    BY <1>10, <2>1
  <2>3. ClockOfMover'
    BY <1>1, <1>8, <1>10 DEF ClockOfMover, Turn
  <2>4. \A q \in Positions :
          /\ call'[q].pc = "stop" => count[PosToBoard(q)] >= 2
          /\ call'[q].pc = "decide" => call'[q].result \in Results
    BY <1>10, <2>1 DEF CallInv
  <2>5. \A c \in Boards : clock'[c] # "off" => count'[c] >= 2
    BY <1>10 DEF CallInv
  <2>6. CallInv'
    BY <1>10, <2>4, <2>5 DEF CallInv
  <2> QED
    BY <1>4, <1>6, <1>7, <1>9, <1>10, <2>2, <2>3, <2>6
<1>11. CASE (count[b] < 2 \/ clock[b] = "off") /\ Record(p, count[b], captured, own)
  <2>1. \A c \in Boards : clock[c] \in {"off", TurnAfter(made'[c])}
    BY <1>8, <1>11 DEF CallInv, ClockOfMover, Turn
  <2>2. /\ count' \in [Boards -> Nat]
        /\ armed' \in [Boards -> BOOLEAN]
        /\ clock' \in [Boards -> Colours \cup {"off"}]
        /\ call' \in [Positions -> Applying]
        /\ \A c \in Boards : clock'[c] \in {"off", TurnAfter(made'[c])}
        /\ CallInv'
    BY <1>1, <1>5, <1>6, <1>11, <2>1, RecordKeeps
  <2>3. ClockOfMover'
    BY <2>2 DEF ClockOfMover, Turn
  <2> QED
    BY <1>4, <1>6, <1>7, <1>9, <2>2, <2>3
<1> QED
  BY <1>3, <1>10, <1>11 DEF StopOrRecord

(* The tasks that a wake-up cancels or starts.                             *)
LEMMA WakeKeeps ==
  ASSUME GameInv, NEW boards \in SUBSET Boards,
         NEW q \in Positions \cup {Nobody}, WakeBots(boards, q)
  PROVE  /\ think' \in [Boards -> SUBSET Thinking]
         /\ call' \in [Positions -> Applying]
         /\ Finished => think' = think
         /\ \A p \in Positions :
               /\ call'[p].pc = "stop" => call[p].pc = "stop"
               /\ call'[p].pc = "decide" => call'[p] = call[p]
<1> USE DEF GameInv, GameTypeOK
<1> DEFINE woken == {b \in boards : BotToMove(b) /\ ~Finished}
<1>1. /\ think' = [b \in Boards |-> IF b \in woken THEN NewTask(b) ELSE think[b]]
      /\ call' = [p \in Positions |->
                    IF p = q THEN Idle
                    ELSE IF call[p].own /\ PosToBoard(p) \in woken
                         THEN Cancelled(call[p]) ELSE call[p]]
  BY DEF WakeBots
<1>2. think' \in [Boards -> SUBSET Thinking] /\ (Finished => think' = think)
  <2>1. \A b \in woken : NewTask(b) \in SUBSET Thinking
    BY GameAssumption DEF NewTask, BotToMove, Thinking
  <2> QED
    BY <1>1, <2>1
<1>3. \A p \in Positions : call'[p] \in {Idle, Cancelled(call[p]), call[p]}
  BY <1>1
<1>4. \A p \in Positions :
         /\ call'[p] \in Applying
         /\ call'[p].pc = "stop" => call[p].pc = "stop"
         /\ call'[p].pc = "decide" => call'[p] = call[p]
  <2>1. TAKE p \in Positions
  <2>2. call[p] \in Applying /\ call'[p] \in {Idle, Cancelled(call[p]), call[p]}
    BY <1>3
  <2> HIDE DEF woken, GameInv, GameTypeOK
  <2> QED
    BY <2>2, CancelledIsTyped
<1>5. call' \in [Positions -> Applying]
  BY <1>1, <1>4
<1> QED
  BY <1>2, <1>4, <1>5

----------------------------------------------------------------------------
(* Steps that leave the board, the clocks and the calls alone.             *)
LEMMA ThinkingKeeps ==
  ASSUME GameInv, ~Finished, think' \in [Boards -> SUBSET Thinking],
         UNCHANGED <<setup, chess, clock, armed, call, result, ending, drops>>
  PROVE  GameInv' /\ LifeStep
<1> USE DEF GameInv, GameTypeOK, setup, chess
<1>1. GameTypeOK'
  BY DEF Humans
<1>2. CallInv' /\ EndInv' /\ ClockOfMover' /\ QuietAfterEnd'
  BY DEF CallInv, EndInv, ClockOfMover, QuietAfterEnd, Finished, Turn
<1>3. UNCHANGED Life!lifeVars
  BY DEF Life!lifeVars, Finished
<1> QED
  BY <1>1, <1>2, <1>3 DEF LifeStep

LEMMA WakingKeeps ==
  ASSUME GameInv, NEW boards \in SUBSET Boards,
         NEW q \in Positions \cup {Nobody}, WakeBots(boards, q),
         bots' = bots, mapped' = mapped,
         creation' \in {"mapping", "starting", "running"},
         UNCHANGED <<chess, clock, armed, result, ending, drops>>
  PROVE  GameInv' /\ LifeStep
<1> USE DEF GameInv, GameTypeOK, chess
<1>1. /\ think' \in [Boards -> SUBSET Thinking]
      /\ call' \in [Positions -> Applying]
      /\ Finished => think' = think
      /\ \A p \in Positions :
            /\ call'[p].pc = "stop" => call[p].pc = "stop"
            /\ call'[p].pc = "decide" => call'[p] = call[p]
  BY WakeKeeps
<1>2. GameTypeOK'
  BY <1>1 DEF Humans
<1>3. CallInv'
  BY <1>1 DEF CallInv
<1>4. EndInv' /\ ClockOfMover' /\ QuietAfterEnd'
  BY <1>1 DEF EndInv, ClockOfMover, QuietAfterEnd, Finished, Turn
<1>5. UNCHANGED Life!lifeVars
  BY DEF Life!lifeVars, Finished
<1> QED
  BY <1>2, <1>3, <1>4, <1>5 DEF LifeStep

LEMMA MovingKeeps ==
  ASSUME GameInv, ~Finished, NEW p \in Positions, NEW own \in BOOLEAN,
         Apply(p, own), think' \in [Boards -> SUBSET Thinking]
  PROVE  GameInv' /\ LifeStep
<1>1. /\ made' \in [Boards -> Nat] /\ count' \in [Boards -> Nat]
      /\ position' \in [Boards -> Situations]
      /\ armed' \in [Boards -> BOOLEAN]
      /\ clock' \in [Boards -> Colours \cup {"off"}]
      /\ call' \in [Positions -> Applying]
      /\ CallInv' /\ ClockOfMover'
      /\ UNCHANGED <<setup, result, ending, drops>>
      /\ Life!Move
  BY ApplyKeeps
<1>2. GameTypeOK'
  BY <1>1 DEF GameInv, GameTypeOK, Humans, setup
<1>3. EndInv' /\ QuietAfterEnd'
  BY <1>1 DEF GameInv, EndInv, QuietAfterEnd, Finished
<1> QED
  BY <1>1, <1>2, <1>3 DEF GameInv, LifeStep

(* _finish ends, or its call is cancelled.                                 *)
LEMMA ClosingKeeps ==
  ASSUME GameInv, NEW stage \in {"done", "cut"},
         ending.stage = "closing", ending' = [ending EXCEPT !.stage = stage],
         drops' \in 0 .. MaxDrops,
         UNCHANGED <<setup, chess, clock, armed, think, call, result>>
  PROVE  GameInv' /\ LifeStep
<1> USE DEF GameInv, setup, chess
<1>1. ending' \in Ending /\ ending'.stage = stage
  BY DEF GameTypeOK, Ending
<1>2. GameTypeOK'
  BY <1>1 DEF GameTypeOK, Humans
<1>3. CallInv' /\ EndInv' /\ ClockOfMover' /\ QuietAfterEnd'
  BY <1>1 DEF CallInv, EndInv, ClockOfMover, QuietAfterEnd, Finished, Turn
<1>4. Life!Close
  BY <1>1 DEF Life!Close, EndInv, Finished
<1> QED
  BY <1>2, <1>3, <1>4 DEF LifeStep

LEMMA StepHolds == GameInv /\ [GameNext]_gameVars => GameInv' /\ LifeStep
<1> SUFFICES ASSUME GameInv, [GameNext]_gameVars
             PROVE  GameInv' /\ LifeStep
  OBVIOUS
<1> USE DEF GameInv
<1>1. CASE CreateMaps
  <2>1. /\ mapped' = mapped \cup {FirstOf(HumansLeft)} /\ HumansLeft # {}
        /\ UNCHANGED <<bots, creation, chess, clock, armed, think, call,
                        result, ending, drops>>
    BY <1>1 DEF CreateMaps
  <2>2. FirstOf(HumansLeft) \in Humans
    <3>1. HumansLeft \subseteq 0 .. 3 /\ HumansLeft \subseteq Humans
      BY DEF HumansLeft, Humans, Positions
    <3> QED
      BY <2>1, <3>1, FirstIsMember DEF FirstOf
  <2>3. GameTypeOK'
    BY <2>1, <2>2 DEF GameTypeOK, Humans, chess
  <2>4. CallInv' /\ EndInv' /\ ClockOfMover' /\ QuietAfterEnd'
    BY <2>1 DEF CallInv, EndInv, ClockOfMover, QuietAfterEnd, Finished, Turn, chess
  <2>5. UNCHANGED Life!lifeVars
    BY <2>1 DEF Life!lifeVars, Finished, chess
  <2> QED
    BY <2>3, <2>4, <2>5 DEF LifeStep
<1>2. CASE CreateArms
  <2>1. /\ creation' = "starting" /\ armed' = [b \in Boards |-> TRUE]
        /\ UNCHANGED <<bots, mapped, chess, clock, think, call, result,
                        ending, drops>>
    BY <1>2 DEF CreateArms
  <2>2. GameTypeOK'
    BY <2>1 DEF GameTypeOK, Humans, chess
  <2>3. CallInv' /\ EndInv' /\ ClockOfMover' /\ QuietAfterEnd'
    BY <2>1 DEF CallInv, EndInv, ClockOfMover, QuietAfterEnd, Finished, Turn, chess
  <2>4. UNCHANGED Life!lifeVars
    BY <2>1 DEF Life!lifeVars, Finished, chess
  <2> QED
    BY <2>2, <2>3, <2>4 DEF LifeStep
<1>3. CASE CreateStarts
  <2> QED
    BY <1>3, WakingKeeps DEF CreateStarts
<1>4. ASSUME NEW p \in Humans, MakeMove(p)
      PROVE  GameInv' /\ LifeStep
  <2>1. ~Finished /\ Apply(p, FALSE) /\ think' = think /\ p \in Positions
    BY <1>4 DEF MakeMove, HasTurn, Humans
  <2>2. think' \in [Boards -> SUBSET Thinking]
    BY <2>1 DEF GameTypeOK
  <2> QED
    BY <2>1, <2>2, MovingKeeps
<1>5. ASSUME NEW p \in Humans, Resign(p)
      PROVE  GameInv' /\ LifeStep
  BY <1>5, FinishKeeps, TeamsLose DEF Resign, Humans
<1>6. ASSUME NEW p \in Positions, Stopped(p)
      PROVE  GameInv' /\ LifeStep
  <2>1. /\ call[p].pc = "stop" /\ UNCHANGED <<made, position>>
        /\ Record(p, 2, call[p].captured, call[p].own)
        /\ UNCHANGED <<setup, think, result, ending, drops>>
    BY <1>6 DEF Stopped
  <2>2. /\ call[p].captured \in BOOLEAN /\ call[p].own \in BOOLEAN
        /\ count[PosToBoard(p)] >= 2
        /\ made' \in [Boards -> Nat]
    BY <2>1 DEF GameTypeOK, Applying, CallInv
  <2>3. \A b \in Boards : clock[b] \in {"off", TurnAfter(made'[b])}
    BY <2>1 DEF ClockOfMover, Turn
  <2>4. /\ count' \in [Boards -> Nat]
        /\ armed' \in [Boards -> BOOLEAN]
        /\ clock' \in [Boards -> Colours \cup {"off"}]
        /\ call' \in [Positions -> Applying]
        /\ \A b \in Boards : clock'[b] \in {"off", TurnAfter(made'[b])}
        /\ Finished => clock' = clock
        /\ CallInv'
    <3> HIDE DEF GameInv
    <3>1. GameInv /\ 2 \in Nat /\ ~(2 < 2)
      BY DEF GameInv
    <3> QED
      BY <2>1, <2>2, <2>3, <3>1, RecordKeeps
  <2>5. GameTypeOK'
    BY <2>1, <2>2, <2>4 DEF GameTypeOK, Humans, setup
  <2>6. EndInv' /\ ClockOfMover' /\ QuietAfterEnd'
    BY <2>1, <2>4 DEF EndInv, ClockOfMover, QuietAfterEnd, Finished, Turn
  <2>7. UNCHANGED Life!lifeVars
    BY <2>1 DEF Life!lifeVars, Finished
  <2> QED
    BY <2>4, <2>5, <2>6, <2>7 DEF LifeStep
<1>7. ASSUME NEW p \in Positions, Published(p)
      PROVE  GameInv' /\ LifeStep
  <2>1. PICK boards \in SUBSET Boards : WakeBots(boards, p)
    BY <1>7, BoardOfPosition DEF Published
  <2>2. UNCHANGED <<setup, chess, clock, armed, result, ending, drops>>
    BY <1>7 DEF Published
  <2> QED
    BY <2>1, <2>2, WakingKeeps DEF setup, GameTypeOK
<1>8. ASSUME NEW p \in Positions, Decided(p)
      PROVE  GameInv' /\ LifeStep
  <2>1. call[p].result \in Results
    BY <1>8 DEF Decided, CallInv
  <2> QED
    BY <1>8, <2>1, FinishKeeps DEF Decided
<1>9. ASSUME NEW b \in Boards, BotGoesOn(b)
      PROVE  GameInv' /\ LifeStep
  <2>1. PICK t \in think[b] : BotLooks(b, t) \/ BotWakes(b, t) \/ BotMoves(b, t)
    BY <1>9 DEF BotGoesOn
  <2>2. t \in Thinking /\ ~Finished
    BY <2>1 DEF GameTypeOK, QuietAfterEnd
  <2>3. /\ [t EXCEPT !.pc = "sleep"] \in Thinking
        /\ [t EXCEPT !.pc = "search"] \in Thinking
        /\ t.pos \in Positions
    BY <2>2 DEF Thinking
  <2>4. CASE BotLooks(b, t) \/ BotWakes(b, t)
    <3>1. think' \in [Boards -> SUBSET Thinking]
      BY <2>3, <2>4 DEF GameTypeOK, BotLooks, BotWakes
    <3> QED
      BY <2>2, <2>4, <3>1, ThinkingKeeps DEF BotLooks, BotWakes
  <2>5. CASE BotMoves(b, t)
    <3>1. think' \in [Boards -> SUBSET Thinking] /\ Apply(t.pos, TRUE)
      BY <2>5 DEF GameTypeOK, BotMoves
    <3> QED
      BY <2>2, <2>3, <3>1, MovingKeeps
  <2> QED
    BY <2>1, <2>4, <2>5
<1>10. ASSUME NEW b \in Boards, Flag(b) \/ Abort(b)
       PROVE  GameInv' /\ LifeStep
  BY <1>10, FinishKeeps, TeamsLose DEF Flag, Abort, Results
<1>11. CASE FinishEnds
  <2>1. /\ ending.stage = "closing" /\ ending' = [ending EXCEPT !.stage = "done"]
        /\ UNCHANGED <<setup, chess, clock, armed, think, call, result, drops>>
    BY <1>11 DEF FinishEnds
  <2>2. drops' \in 0 .. MaxDrops
    BY <2>1 DEF GameTypeOK
  <2> QED
    BY <2>1, <2>2, ClosingKeeps
<1>12. ASSUME NEW p \in Humans, Drop(p)
       PROVE  GameInv' /\ LifeStep
  <2>1. /\ drops < MaxDrops /\ drops' = drops + 1
        /\ UNCHANGED <<setup, chess, clock, armed, think, result>>
    BY <1>12 DEF Drop
  <2>2. CASE call' = [call EXCEPT ![p] = Idle] /\ UNCHANGED ending
    <3>1. call' \in [Positions -> Applying]
      BY <2>2 DEF GameTypeOK, Idle, Applying, NoResult
    <3>2. drops' \in 0 .. MaxDrops
      BY <2>1, GameAssumption DEF GameTypeOK
    <3>3. GameTypeOK'
      BY <2>1, <2>2, <3>1, <3>2 DEF GameTypeOK, Humans, setup, chess
    <3>4. CallInv' /\ EndInv' /\ ClockOfMover' /\ QuietAfterEnd'
      BY <2>1, <2>2 DEF CallInv, EndInv, ClockOfMover, QuietAfterEnd, Finished,
         Turn, chess, GameTypeOK, Idle
    <3>5. UNCHANGED Life!lifeVars
      BY <2>1, <2>2 DEF Life!lifeVars, Finished, chess
    <3> QED
      BY <3>3, <3>4, <3>5 DEF LifeStep
  <2>3. CASE /\ ending.stage = "closing" /\ ending' = [ending EXCEPT !.stage = "cut"]
             /\ UNCHANGED call
    <3>1. drops' \in 0 .. MaxDrops
      BY <2>1, GameAssumption DEF GameTypeOK
    <3> QED
      BY <2>1, <2>3, <3>1, ClosingKeeps
  <2> QED
    BY <1>12, <2>2, <2>3 DEF Drop
<1>13. CASE UNCHANGED gameVars
  <2>1. GameTypeOK'
    BY <1>13 DEF GameTypeOK, Humans, gameVars, setup, chess
  <2>2. CallInv' /\ EndInv' /\ ClockOfMover' /\ QuietAfterEnd'
    BY <1>13 DEF CallInv, EndInv, ClockOfMover, QuietAfterEnd, Finished, Turn,
       gameVars, setup, chess
  <2>3. UNCHANGED Life!lifeVars
    BY <1>13 DEF Life!lifeVars, Finished, gameVars, chess
  <2> QED
    BY <2>1, <2>2, <2>3 DEF LifeStep
<1> QED
  BY <1>1, <1>2, <1>3, <1>4, <1>5, <1>6, <1>7, <1>8, <1>9, <1>10, <1>11, <1>12,
     <1>13 DEF GameNext, CreateGoesOn, CallGoesOn

(* The clock that runs is always the one of the player to move, for every  *)
(* line-up and number of moves, whatever calls are cancelled.              *)
THEOREM ClocksOfMovers == GameSpec => []ClockOfMover
<1>1. GameInv => ClockOfMover
  BY DEF GameInv
<1> QED
  BY InitHolds, StepHolds, <1>1, PTL DEF GameSpec

(* Nothing runs in a game that is over.                                    *)
THEOREM QuietAfterEnds == GameSpec => []QuietAfterEnd
<1>1. GameInv => QuietAfterEnd
  BY DEF GameInv
<1> QED
  BY InitHolds, StepHolds, <1>1, PTL DEF GameSpec

(* Every game is decided once, with a result that stays, and nobody moves  *)
(* after that: a game in the manager implements the abstract one.          *)
THEOREM GameImplementsLife == GameSpec => DecidedOnce
<1>1. LifeStep => [Life!Move \/ Life!Decide \/ Life!Close]_Life!lifeVars
  BY DEF LifeStep
<1> QED
  BY InitHolds, StepHolds, <1>1, PTL DEF GameSpec, DecidedOnce, Life!LifeSpec

(* Every variable of a game keeps its type.                                *)
THEOREM GameTypeCorrect == GameSpec => []GameTypeOK
<1>1. GameInv => GameTypeOK
  BY DEF GameInv
<1> QED
  BY InitHolds, StepHolds, <1>1, PTL DEF GameSpec

----------------------------------------------------------------------------
(* A board has one task at most, and it is of the bot to move: a human     *)
(* cannot move while it is there, and it ends when it moves.               *)
TaskInv ==
    \A b \in Boards : \A t \in think[b] :
        /\ t.pos = ToMove(b) /\ t.pos \in bots
        /\ \A s \in think[b] : s = t

LEMMA BoardOfMover == \A b \in Boards : PosToBoard(ToMove(b)) = b
<1>1. ASSUME NEW b \in Boards, NEW c \in Colours
      PROVE  PosToBoard(PosFor(b, c, ColorFlip)) = b
  <2>1. /\ \A p \in Positions : p \in {0, 1, 2, 3}
        /\ 0 \in Positions /\ 1 \in Positions /\ 2 \in Positions /\ 3 \in Positions
        /\ PosToBoard(0) = 0 /\ PosToBoard(2) = 0
        /\ PosToBoard(1) = 1 /\ PosToBoard(3) = 1
    BY DEF Positions, PosToBoard
  <2>2. \E p \in Positions : PosToBoard(p) = b /\ PosToColour(p, ColorFlip) = c
    <3>1. {PosToColour(0, ColorFlip), PosToColour(2, ColorFlip)} = Colours
      BY DEF PosToColour, OtherColour, Colours
    <3>2. {PosToColour(1, ColorFlip), PosToColour(3, ColorFlip)} = Colours
      BY DEF PosToColour, OtherColour, Colours
    <3> QED
      BY <1>1, <2>1, <3>1, <3>2 DEF Boards
  <2> QED
    BY <2>2 DEF PosFor
<1> QED
  BY <1>1, ColoursMove DEF ToMove, Turn

LEMMA TasksKept ==
  ASSUME TaskInv, UNCHANGED <<bots, made>>,
         \A b \in Boards : think'[b] \subseteq think[b]
  PROVE  TaskInv'
BY DEF TaskInv, ToMove, Turn

LEMMA TasksWoken ==
  ASSUME TaskInv, UNCHANGED <<bots, made>>,
         NEW boards \in SUBSET Boards, NEW q \in Positions \cup {Nobody},
         WakeBots(boards, q)
  PROVE  TaskInv'
<1>1. \A b \in Boards : think'[b] \in {think[b], NewTask(b)}
                        /\ (think'[b] # think[b] => ToMove(b) \in bots)
  BY DEF WakeBots, BotToMove
<1>2. \A b \in Boards : ToMove(b)' = ToMove(b)
  BY DEF ToMove, Turn
<1> QED
  BY <1>1, <1>2 DEF TaskInv, NewTask

(* What a move changes of the boards and the calls.                        *)
LEMMA ApplyFacts ==
  ASSUME GameInv, NEW p \in Positions, NEW own \in BOOLEAN, Apply(p, own)
  PROVE  /\ \A q \in Positions \ {p} : call'[q] = call[q]
         /\ \A b \in Boards \ {PosToBoard(p)} : ToMove(b)' = ToMove(b)
         /\ bots' = bots
<1> DEFINE b == PosToBoard(p)
<1>1. made' = [made EXCEPT ![b] = @ + 1]
  BY DEF Apply
<1>2. \E captured \in BOOLEAN : StopOrRecord(p, captured, own)
  BY DEF Apply, Captures
<1>3. \E new : call' = [call EXCEPT ![p] = new]
  BY <1>2 DEF StopOrRecord, Record
<1>4. \A q \in Positions \ {p} : call'[q] = call[q]
  BY <1>3 DEF GameInv, GameTypeOK
<1>5. \A c \in Boards \ {b} : ToMove(c)' = ToMove(c)
  BY <1>1 DEF GameInv, GameTypeOK, ToMove, Turn
<1> QED
  BY <1>4, <1>5 DEF Apply, setup

LEMMA TaskStep ==
  ASSUME GameInv, TaskInv, [GameNext]_gameVars
  PROVE  TaskInv'
<1>1. ASSUME NEW q \in Positions \cup {Timer}, NEW r,
             Finish(q, r), UNCHANGED <<setup, chess, drops>>
      PROVE  TaskInv'
  <2>1. \A b \in Boards : think'[b] \subseteq think[b]
    BY <1>1 DEF Finish
  <2> QED
    BY <1>1, <2>1, TasksKept DEF setup, chess
<1>2. ASSUME NEW p \in Humans, MakeMove(p)
      PROVE  TaskInv'
  <2>1. p \in Positions /\ p \notin bots /\ PosToBoard(p) \in Boards
    BY BoardOfPosition DEF Humans
  <2>2. ToMove(PosToBoard(p)) = p /\ Apply(p, FALSE) /\ UNCHANGED think
    BY <1>2 DEF MakeMove, HasTurn
  <2>3. think[PosToBoard(p)] = {}
    BY <2>1, <2>2 DEF TaskInv
  <2>4. bots' = bots /\ \A b \in Boards \ {PosToBoard(p)} : ToMove(b)' = ToMove(b)
    BY <2>1, <2>2, ApplyFacts
  <2> QED
    BY <2>2, <2>3, <2>4 DEF TaskInv
<1>3. ASSUME NEW b \in Boards, NEW t \in think[b], BotMoves(b, t)
      PROVE  TaskInv'
  <2>1. /\ think' = [think EXCEPT ![b] = @ \ {t}] /\ Apply(t.pos, TRUE)
        /\ think \in [Boards -> SUBSET Thinking] /\ t.pos \in Positions
    <3>1. think \in [Boards -> SUBSET Thinking]
      BY DEF GameInv, GameTypeOK
    <3>2. t.pos \in Positions
      BY <3>1 DEF Thinking
    <3> QED
      BY <1>3, <3>1, <3>2 DEF BotMoves
  <2>2. PosToBoard(t.pos) = b
    BY BoardOfMover DEF TaskInv
  <2>3. think'[b] = {} /\ \A c \in Boards \ {b} : think'[c] = think[c]
    BY <2>1 DEF TaskInv
  <2>4. bots' = bots /\ \A c \in Boards \ {b} : ToMove(c)' = ToMove(c)
    BY <2>1, <2>2, ApplyFacts
  <2> QED
    BY <2>3, <2>4 DEF TaskInv
<1>4. ASSUME NEW b \in Boards, NEW t \in think[b], BotLooks(b, t) \/ BotWakes(b, t)
      PROVE  TaskInv'
  <2>1. /\ think \in [Boards -> SUBSET Thinking] /\ t \in Thinking
        /\ think[b] = {t} /\ t.pos = ToMove(b) /\ t.pos \in bots
    BY DEF GameInv, GameTypeOK, TaskInv
  <2>2. \A c \in Boards \ {b} : think'[c] = think[c]
    BY <1>4, <2>1 DEF BotLooks, BotWakes
  <2>3. think'[b] \in {{}, {[t EXCEPT !.pc = "sleep"]}, {[t EXCEPT !.pc = "search"]}}
    BY <1>4, <2>1 DEF BotLooks, BotWakes
  <2>4. /\ [t EXCEPT !.pc = "sleep"].pos = t.pos
        /\ [t EXCEPT !.pc = "search"].pos = t.pos
    BY <2>1 DEF Thinking
  <2>5. UNCHANGED <<bots, made>>
    BY <1>4 DEF BotLooks, BotWakes, setup, chess
  <2>6. \A c \in Boards : ToMove(c)' = ToMove(c)
    BY <2>5 DEF ToMove, Turn
  <2>7. \A s \in think'[b] : s.pos = t.pos /\ \A r \in think'[b] : r = s
    BY <2>3, <2>4
  <2> QED
    BY <2>1, <2>2, <2>5, <2>6, <2>7 DEF TaskInv
<1>5. ASSUME NEW p \in Positions, CallGoesOn(p)
      PROVE  TaskInv'
  <2>1. CASE Stopped(p)
    BY <2>1, TasksKept DEF Stopped, setup
  <2>2. CASE Published(p)
    <3>1. PICK boards \in SUBSET Boards : WakeBots(boards, p)
      BY <2>2, BoardOfPosition DEF Published
    <3> QED
      BY <2>2, <3>1, TasksWoken DEF Published, setup, chess
  <2>3. CASE Decided(p)
    BY <2>3, <1>1 DEF Decided
  <2> QED
    BY <1>5, <2>1, <2>2, <2>3 DEF CallGoesOn
<1>6. ASSUME NEW p \in Humans, Resign(p)
      PROVE  TaskInv'
  BY <1>1, <1>6 DEF Resign, Humans
<1>7. ASSUME NEW b \in Boards, Flag(b) \/ Abort(b)
      PROVE  TaskInv'
  BY <1>1, <1>7 DEF Flag, Abort
<1>8. CASE CreateStarts
  BY <1>8, TasksWoken DEF CreateStarts, chess
<1>9. CASE \/ CreateMaps \/ CreateArms \/ FinishEnds \/ UNCHANGED gameVars
           \/ \E p \in Humans : Drop(p)
  BY <1>9, TasksKept DEF CreateMaps, CreateArms, FinishEnds, Drop, gameVars, setup, chess
<1> QED
  BY <1>2, <1>3, <1>4, <1>5, <1>6, <1>7, <1>8, <1>9
     DEF GameNext, CreateGoesOn, BotGoesOn

(* Who moves has the turn, although _apply_move does not ask and a bot's   *)
(* search was started for an earlier position.                             *)
THEOREM MoversHaveTheTurn == GameSpec => MoverHasTurn
<1> DEFINE Moves == \A p \in Positions :
                      call[p] = Idle /\ call'[p].pc # "none"
                         => ToMove(PosToBoard(p)) = p
<1>1. GameInit => TaskInv
  BY DEF GameInit, TaskInv
<1>2. GameInv /\ TaskInv /\ [GameNext]_gameVars => [Moves]_gameVars
  <2> SUFFICES ASSUME GameInv, TaskInv, GameNext, NEW p \in Positions,
                      call[p] = Idle, call'[p].pc # "none"
               PROVE  ToMove(PosToBoard(p)) = p
    OBVIOUS
  <2>1. Idle.pc = "none" /\ Cancelled(Idle) = Idle
    BY DEF Idle, Cancelled
  <2>2. ASSUME NEW q, NEW r, Finish(q, r) PROVE FALSE
    BY <2>1, <2>2 DEF Finish
  <2>3. ASSUME NEW boards, NEW q, WakeBots(boards, q) PROVE FALSE
    BY <2>1, <2>3 DEF WakeBots
  <2>4. ASSUME UNCHANGED call PROVE FALSE
    BY <2>1, <2>4
  <2>5. ASSUME NEW q \in Humans, MakeMove(q)
        PROVE  ToMove(PosToBoard(p)) = p
    <3>1. q \in Positions /\ ToMove(PosToBoard(q)) = q /\ Apply(q, FALSE)
      BY <2>5 DEF MakeMove, HasTurn, Humans
    <3>2. q # p => call'[p] = call[p]
      BY <3>1, ApplyFacts
    <3> QED
      BY <3>1, <3>2, <2>1
  <2>6. ASSUME NEW b \in Boards, NEW t \in think[b], BotMoves(b, t)
        PROVE  ToMove(PosToBoard(p)) = p
    <3>1. t.pos \in Positions /\ Apply(t.pos, TRUE)
      <4>1. t \in Thinking
        BY DEF GameInv, GameTypeOK
      <4> QED
        BY <2>6, <4>1 DEF BotMoves, Thinking
    <3>2. t.pos # p => call'[p] = call[p]
      BY <3>1, ApplyFacts
    <3>3. t.pos = ToMove(b) /\ PosToBoard(t.pos) = b
      BY BoardOfMover DEF TaskInv
    <3> QED
      BY <3>2, <3>3, <2>1
  <2>7. ASSUME NEW q \in Positions, CallGoesOn(q) PROVE FALSE
    <3>1. CASE Stopped(q)
      <4>1. q # p
        BY <3>1, <2>1 DEF Stopped
      <4>2. call'[p] = call[p]
        BY <3>1, <4>1 DEF Stopped, Record, GameInv, GameTypeOK
      <4> QED
        BY <4>2, <2>1
    <3> QED
      BY <3>1, <2>2, <2>3, <2>7 DEF CallGoesOn, Published, Decided
  <2>8. ASSUME NEW q \in Humans, Drop(q) PROVE FALSE
    <3>1. call'[p] = call[p] \/ call'[p] = Idle
      BY <2>8 DEF Drop, GameInv, GameTypeOK, Humans
    <3> QED
      BY <3>1, <2>1
  <2> QED
    BY <2>2, <2>3, <2>4, <2>5, <2>6, <2>7, <2>8
       DEF GameNext, CreateGoesOn, CreateMaps, CreateArms, CreateStarts, Resign,
           BotGoesOn, BotLooks, BotWakes, Flag, Abort, FinishEnds
<1> QED
  BY InitHolds, StepHolds, TaskStep, <1>1, <1>2, PTL DEF GameSpec, MoverHasTurn

----------------------------------------------------------------------------
(* Somebody watches the board of every human.  A call that waits for a     *)
(* watchdog or is about to end the game counts, unless it is a bot's and   *)
(* may be cancelled because a bot is to move on its board.  On a board     *)
(* with two bots both may happen, and then the other board has a human.    *)
OwnInv == \A p \in Positions : call[p].own => p \in bots

Watches(p, b) ==
    /\ PosToBoard(p) = b /\ call[p].pc \in {"stop", "decide"}
    /\ p \in bots => ~BotToMove(b)

Watched(b) ==
    armed[b] \/ clock[b] # "off" \/ \E p \in Positions : Watches(p, b)

WatchInv ==
    creation # "mapping" /\ ~Finished /\ drops = 0 =>
        \A h \in Humans : Watched(PosToBoard(h))

(* After the move of a bot against a human, the human is to move.          *)
LEMMA HumanReplies ==
  ASSUME GameInv, NEW b \in Boards, NEW p \in bots, ToMove(b) = p,
         NEW h \in Humans, PosToBoard(h) = b, PosToBoard(p) = b,
         made'[b] = made[b] + 1, bots' = bots
  PROVE  ~BotToMove(b)'
<1>1. /\ p \in Positions /\ h \in Positions /\ h \notin bots
      /\ made[b] \in Nat
  BY GameAssumption DEF GameInv, GameTypeOK, Humans
<1>2. Turn(b)' # Turn(b) /\ Turn(b) \in Colours /\ Turn(b)' \in Colours
  BY <1>1 DEF Turn, TurnAfter, Colours
<1>3. ASSUME NEW c \in Colours
      PROVE  /\ PosFor(b, c, ColorFlip) \in Positions
             /\ PosToBoard(PosFor(b, c, ColorFlip)) = b
             /\ PosToColour(PosFor(b, c, ColorFlip), ColorFlip) = c
  <2>1. /\ 0 \in Positions /\ 1 \in Positions /\ 2 \in Positions /\ 3 \in Positions
        /\ PosToBoard(0) = 0 /\ PosToBoard(2) = 0
        /\ PosToBoard(1) = 1 /\ PosToBoard(3) = 1
    BY DEF Positions, PosToBoard
  <2>2. \E x \in Positions : PosToBoard(x) = b /\ PosToColour(x, ColorFlip) = c
    <3>1. {PosToColour(0, ColorFlip), PosToColour(2, ColorFlip)} = Colours
      BY DEF PosToColour, OtherColour, Colours
    <3>2. {PosToColour(1, ColorFlip), PosToColour(3, ColorFlip)} = Colours
      BY DEF PosToColour, OtherColour, Colours
    <3> QED
      BY <1>3, <2>1, <3>1, <3>2 DEF Boards
  <2> QED
    BY <2>2 DEF PosFor
<1> DEFINE r == ToMove(b)'
<1>4. r \in Positions /\ PosToBoard(r) = b /\ r # p
  BY <1>2, <1>3 DEF ToMove
<1>5. r = h
  <2>1. p # h
    BY <1>1
  <2>2. \A x, y, z \in Positions :
           PosToBoard(x) = PosToBoard(y) /\ PosToBoard(z) = PosToBoard(y)
             => x = y \/ z = y \/ x = z
    BY DEF Positions, PosToBoard
  <2> QED
    BY <1>1, <1>4, <2>1, <2>2
<1> QED
  BY <1>1, <1>5 DEF BotToMove

LEMMA RecordWatches ==
  ASSUME GameInv, ~Finished, NEW p \in Positions, NEW m \in Nat,
         NEW captured, NEW own, made'[PosToBoard(p)] \in Nat,
         Record(p, m, captured, own)
  PROVE  /\ \/ armed'[PosToBoard(p)]
            \/ clock'[PosToBoard(p)] # "off"
            \/ call'[p].pc = "decide"
         /\ clock[PosToBoard(p)] # "off" => clock'[PosToBoard(p)] # "off"
         /\ m = 2 /\ armed[PosToBoard(p)] => armed'[PosToBoard(p)]
         /\ call'[p].own = own
         /\ \A q \in Positions \ {p} : call'[q] = call[q]
         /\ \A c \in Boards \ {PosToBoard(p)} :
               armed'[c] = armed[c] /\ clock'[c] = clock[c]
<1> DEFINE b == PosToBoard(p)
           next == ToMoveNow(p)
           ends == position'[b] = "mate" \/ \E c \in Boards : position'[c] = "draw"
<1>1. /\ armed' = [armed EXCEPT ![b] = StaysArmed(m, @)]
      /\ clock' = [clock EXCEPT ![b] = IF ~ends /\ ClockStarts(m) THEN next ELSE @]
  BY DEF Record
<1>2. \E res : call' = [call EXCEPT ![p] =
                  [pc |-> IF ends THEN "decide" ELSE "publish",
                   captured |-> captured, own |-> own, result |-> res]]
  BY DEF Record
<1>3. PICK res : call' = [call EXCEPT ![p] =
                  [pc |-> IF ends THEN "decide" ELSE "publish",
                   captured |-> captured, own |-> own, result |-> res]]
  BY <1>2
<1>4. /\ b \in Boards /\ armed \in [Boards -> BOOLEAN]
      /\ clock \in [Boards -> Colours \cup {"off"}]
      /\ call \in [Positions -> Applying]
  BY BoardOfPosition DEF GameInv, GameTypeOK
<1>5. next # "off"
  BY DEF ToMoveNow, TurnAfter
<1> HIDE DEF b, next, ends
<1>6. /\ call'[p].pc = IF ends THEN "decide" ELSE "publish"
      /\ call'[p].own = own
      /\ \A q \in Positions \ {p} : call'[q] = call[q]
  BY <1>3, <1>4
<1>7. /\ armed'[b] = StaysArmed(m, armed[b])
      /\ clock'[b] = IF ~ends /\ ClockStarts(m) THEN next ELSE clock[b]
      /\ \A c \in Boards \ {b} : armed'[c] = armed[c] /\ clock'[c] = clock[c]
  BY <1>1, <1>4
<1>8. armed'[b] \/ clock'[b] # "off" \/ call'[p].pc = "decide"
  <2>1. CASE m = 0
    BY <1>7, <2>1 DEF StaysArmed
  <2>2. CASE m # 0
    BY <1>5, <1>6, <1>7, <2>2 DEF ClockStarts
  <2> QED
    BY <2>1, <2>2
<1>9. m = 2 /\ armed[b] => armed'[b]
  <2>1. m = 2 => m # 1
    OBVIOUS
  <2> QED
    BY <1>7, <2>1, Zenon DEF StaysArmed
<1> QED
  BY <1>5, <1>6, <1>7, <1>8, <1>9 DEF b

(* A move leaves its board watched, unless it is the call itself that does *)
(* it and may be cancelled.                                                *)
LEMMA ApplyWatches ==
  ASSUME GameInv, ~Finished, NEW p \in Positions, NEW own \in BOOLEAN,
         Apply(p, own)
  PROVE  /\ \/ armed'[PosToBoard(p)]
            \/ clock'[PosToBoard(p)] # "off"
            \/ call'[p].pc \in {"stop", "decide"}
         /\ call'[p].own = own
         /\ \A q \in Positions \ {p} : call'[q] = call[q]
         /\ \A c \in Boards \ {PosToBoard(p)} :
               armed'[c] = armed[c] /\ clock'[c] = clock[c]
         /\ made'[PosToBoard(p)] = made[PosToBoard(p)] + 1
<1> DEFINE b == PosToBoard(p)
<1>1. /\ b \in Boards /\ made \in [Boards -> Nat] /\ count[b] \in Nat
      /\ armed \in [Boards -> BOOLEAN]
      /\ clock \in [Boards -> Colours \cup {"off"}]
      /\ call \in [Positions -> Applying]
  BY BoardOfPosition DEF GameInv, GameTypeOK
<1>2. made' = [made EXCEPT ![b] = @ + 1]
  BY DEF Apply
<1>3. PICK captured \in BOOLEAN : StopOrRecord(p, captured, own)
  BY DEF Apply, Captures
<1> HIDE DEF b
<1>4. made'[b] = made[b] + 1 /\ made'[b] \in Nat
  BY <1>1, <1>2
<1>5. CASE Record(p, count[b], captured, own)
  BY <1>1, <1>4, <1>5, RecordWatches DEF b
<1>6. CASE /\ clock' = [clock EXCEPT ![b] = "off"]
           /\ call' = [call EXCEPT ![p] =
                         [Idle EXCEPT !.pc = "stop", !.captured = captured,
                                      !.own = own]]
           /\ UNCHANGED <<count, armed>>
  <2> DEFINE new == [Idle EXCEPT !.pc = "stop", !.captured = captured,
                                 !.own = own]
  <2>1. new.pc = "stop" /\ new.own = own
    BY DEF Idle
  <2> HIDE DEF new
  <2>2. /\ call'[p] = new
        /\ \A q \in Positions \ {p} : call'[q] = call[q]
    BY <1>1, <1>6 DEF new
  <2> QED
    BY <1>1, <1>4, <1>6, <2>1, <2>2 DEF b
<1> QED
  BY <1>3, <1>5, <1>6 DEF StopOrRecord, b

LEMMA OwnStep ==
  ASSUME GameInv, TaskInv, OwnInv, [GameNext]_gameVars
  PROVE  OwnInv'
<1>1. ~Idle.own /\ \A c \in Applying : Cancelled(c).own => c.own
  BY DEF Idle, Cancelled, Applying
<1>2. call \in [Positions -> Applying]
  BY DEF GameInv, GameTypeOK
<1>3. ASSUME bots' = bots, \A q \in Positions :
                call'[q] \in {Idle, call[q], Cancelled(call[q])}
      PROVE  OwnInv'
  BY <1>1, <1>2, <1>3 DEF OwnInv
<1>4. ASSUME NEW q, NEW r, Finish(q, r), UNCHANGED <<setup, chess, drops>>
      PROVE  OwnInv'
  BY <1>3, <1>4 DEF Finish, setup
<1>5. ASSUME NEW boards, NEW q, WakeBots(boards, q), bots' = bots
      PROVE  OwnInv'
  BY <1>3, <1>5 DEF WakeBots
<1>6. ASSUME NEW p \in Positions, NEW own \in BOOLEAN, Apply(p, own),
             ~Finished, own => p \in bots
      PROVE  OwnInv'
  BY <1>6, ApplyWatches, ApplyFacts DEF OwnInv
<1>7. ASSUME NEW p \in Humans, MakeMove(p)
      PROVE  OwnInv'
  BY <1>6, <1>7 DEF MakeMove, HasTurn, Humans
<1>8. ASSUME NEW b \in Boards, BotGoesOn(b)
      PROVE  OwnInv'
  <2>1. PICK t \in think[b] : BotLooks(b, t) \/ BotWakes(b, t) \/ BotMoves(b, t)
    BY <1>8 DEF BotGoesOn
  <2>2. t.pos \in bots /\ t.pos \in Positions /\ ~Finished
    BY GameAssumption DEF TaskInv, GameInv, GameTypeOK, QuietAfterEnd
  <2>3. CASE BotMoves(b, t)
    BY <1>6, <2>2, <2>3 DEF BotMoves
  <2>4. CASE BotLooks(b, t) \/ BotWakes(b, t)
    BY <1>3, <2>4 DEF BotLooks, BotWakes, setup
  <2> QED
    BY <2>1, <2>3, <2>4
<1>9. ASSUME NEW p \in Positions, CallGoesOn(p)
      PROVE  OwnInv'
  <2>1. CASE Stopped(p)
    <3>1. Record(p, 2, call[p].captured, call[p].own) /\ bots' = bots
      BY <2>1 DEF Stopped, setup
    <3>2. \E pc, captured, res :
             call' = [call EXCEPT ![p] =
                       [pc |-> pc, captured |-> captured, own |-> call[p].own,
                        result |-> res]]
      BY <3>1 DEF Record
    <3>3. \A q \in Positions : call'[q].own = call[q].own
      BY <1>2, <3>2
    <3> QED
      BY <3>1, <3>3 DEF OwnInv
  <2>2. CASE Published(p)
    BY <1>5, <2>2 DEF Published, setup
  <2>3. CASE Decided(p)
    BY <1>4, <2>3 DEF Decided
  <2> QED
    BY <1>9, <2>1, <2>2, <2>3 DEF CallGoesOn
<1>10. ASSUME NEW p \in Humans, Resign(p) PROVE OwnInv'
  BY <1>4, <1>10 DEF Resign
<1>11. ASSUME NEW b \in Boards, Flag(b) \/ Abort(b) PROVE OwnInv'
  BY <1>4, <1>11 DEF Flag, Abort
<1>12. CASE CreateStarts
  BY <1>5, <1>12 DEF CreateStarts
<1>13. CASE CreateMaps \/ CreateArms \/ FinishEnds \/ UNCHANGED gameVars
  BY <1>3, <1>13 DEF CreateMaps, CreateArms, FinishEnds, gameVars, setup
<1>14. ASSUME NEW p \in Humans, Drop(p) PROVE OwnInv'
  <2>1. bots' = bots /\ \A q \in Positions : call'[q] \in {Idle, call[q]}
    BY <1>2, <1>14 DEF Drop, setup
  <2> QED
    BY <1>3, <2>1
<1> QED
  BY <1>7, <1>8, <1>9, <1>10, <1>11, <1>12, <1>13, <1>14
     DEF GameNext, CreateGoesOn

LEMMA MoveWatches ==
  ASSUME GameInv, WatchInv, ~Finished, NEW p \in Positions,
         NEW own \in BOOLEAN, Apply(p, own), ToMove(PosToBoard(p)) = p
  PROVE  WatchInv'
<1> DEFINE b == PosToBoard(p)
<1>1. UNCHANGED <<setup, result, ending, drops>>
  BY DEF Apply
<1>2. SUFFICES ASSUME NEW h \in Humans, Watched(PosToBoard(h))
               PROVE  Watched(PosToBoard(h))'
  BY <1>1 DEF WatchInv, Humans, Finished, setup
<1>3. b \in Boards /\ PosToBoard(h) \in Boards
  BY BoardOfPosition DEF Humans
<1>4. CASE PosToBoard(h) = b
  <2>1. p \in bots => ~BotToMove(b)'
    BY <1>1, <1>3, <1>4, ApplyWatches, HumanReplies DEF setup
  <2>2. \/ armed'[b] \/ clock'[b] # "off" \/ call'[p].pc \in {"stop", "decide"}
    BY ApplyWatches
  <2> QED
    BY <1>1, <1>4, <2>1, <2>2 DEF Watched, Watches, setup
<1>5. CASE PosToBoard(h) # b
  <2> DEFINE c == PosToBoard(h)
  <2>1. armed'[c] = armed[c] /\ clock'[c] = clock[c]
    BY <1>3, <1>5, ApplyWatches
  <2>2. BotToMove(c)' = BotToMove(c)
    BY <1>3, <1>5, ApplyFacts DEF BotToMove
  <2>3. ASSUME NEW q \in Positions, Watches(q, c) PROVE Watches(q, c)'
    <3>1. q # p
      BY <1>5, <2>3 DEF Watches
    <3>2. call'[q] = call[q]
      BY <3>1, ApplyWatches
    <3> HIDE DEF c
    <3> QED
      BY <1>1, <2>2, <2>3, <3>2 DEF Watches, setup
  <2> HIDE DEF c
  <2>4. Watched(c) => Watched(c)'
    BY <2>1, <2>3 DEF Watched
  <2> QED
    BY <1>2, <2>4 DEF c
<1> QED
  BY <1>4, <1>5

LEMMA StopWatches ==
  ASSUME GameInv, WatchInv, ~Finished, NEW p \in Positions, Stopped(p)
  PROVE  WatchInv'
<1> DEFINE b == PosToBoard(p)
<1>1. /\ call[p].pc = "stop" /\ UNCHANGED <<made, position>>
      /\ Record(p, 2, call[p].captured, call[p].own)
      /\ UNCHANGED <<setup, think, result, ending, drops>>
  BY DEF Stopped
<1>2. SUFFICES ASSUME NEW h \in Humans, Watched(PosToBoard(h))
               PROVE  Watched(PosToBoard(h))'
  BY <1>1 DEF WatchInv, Humans, Finished, setup
<1>3. b \in Boards /\ PosToBoard(h) \in Boards /\ made'[b] \in Nat
  BY <1>1, BoardOfPosition DEF Humans, GameInv, GameTypeOK
<1>4. /\ armed'[b] \/ clock'[b] # "off" \/ call'[p].pc = "decide"
      /\ clock[b] # "off" => clock'[b] # "off"
      /\ armed[b] => armed'[b]
      /\ \A q \in Positions \ {p} : call'[q] = call[q]
      /\ \A c \in Boards \ {b} : armed'[c] = armed[c] /\ clock'[c] = clock[c]
  BY <1>1, <1>3, RecordWatches
<1>5. \A c \in Boards : BotToMove(c)' = BotToMove(c)
  BY <1>1 DEF BotToMove, ToMove, Turn, setup
<1>6. ASSUME NEW c \in Boards, NEW q \in Positions, Watches(q, c)
      PROVE  Watches(q, c)' \/ armed'[c] \/ clock'[c] # "off"
  <2>1. CASE q = p
    BY <1>1, <1>3, <1>4, <1>5, <1>6, <2>1 DEF Watches, setup
  <2>2. CASE q # p
    BY <1>1, <1>4, <1>5, <1>6, <2>2 DEF Watches, setup
  <2> QED
    BY <2>1, <2>2
<1> HIDE DEF b
<1>7. ASSUME NEW c \in Boards, Watched(c) PROVE Watched(c)'
  BY <1>4, <1>6, <1>7 DEF Watched
<1> QED
  BY <1>2, <1>3, <1>7

(* A wake-up cancels no call that counts.                                  *)
LEMMA WakeWatches ==
  ASSUME GameInv, OwnInv, WatchInv, creation # "mapping",
         NEW boards \in SUBSET Boards, NEW q \in Positions \cup {Nobody},
         q \in Positions => call[q].pc = "publish",
         WakeBots(boards, q),
         UNCHANGED <<bots, chess, clock, armed, result, ending, drops>>
  PROVE  WatchInv'
<1>1. SUFFICES ASSUME NEW h \in Humans, Watched(PosToBoard(h))
               PROVE  Watched(PosToBoard(h))'
  BY DEF WatchInv, Humans, Finished
<1>2. \A c : BotToMove(c)' = BotToMove(c)
  BY DEF BotToMove, ToMove, Turn, chess
<1>3. ASSUME NEW c, NEW p \in Positions, Watches(p, c)
      PROVE  Watches(p, c)'
  <2>1. p # q
    BY <1>3 DEF Watches
  <2>2. ~(call[p].own /\ BotToMove(PosToBoard(p)))
    BY <1>3 DEF Watches, OwnInv
  <2>3. call'[p] = call[p]
    BY <2>1, <2>2 DEF WakeBots
  <2> QED
    BY <1>2, <1>3, <2>3 DEF Watches
<1> QED
  BY <1>1, <1>3 DEF Watched

LEMMA WatchStep ==
  ASSUME GameInv, TaskInv, OwnInv, WatchInv, [GameNext]_gameVars
  PROVE  WatchInv'
<1>1. ASSUME NEW q, NEW r \in Results, Finish(q, r) PROVE WatchInv'
  <2>1. NoResult \notin Results
    BY DEF NoResult, Results, Teams
  <2>2. Finished'
    BY <1>1, <2>1 DEF Finish, Finished
  <2> QED
    BY <2>2 DEF WatchInv
<1>2. ASSUME NEW p \in Humans, MakeMove(p) PROVE WatchInv'
  BY <1>2, MoveWatches DEF MakeMove, HasTurn, Humans
<1>3. ASSUME NEW b \in Boards, BotGoesOn(b) PROVE WatchInv'
  <2>1. PICK t \in think[b] : BotLooks(b, t) \/ BotWakes(b, t) \/ BotMoves(b, t)
    BY <1>3 DEF BotGoesOn
  <2>2. t.pos \in Positions /\ ~Finished /\ ToMove(PosToBoard(t.pos)) = t.pos
    BY GameAssumption, BoardOfMover
       DEF TaskInv, GameInv, GameTypeOK, QuietAfterEnd
  <2>3. CASE BotMoves(b, t)
    BY <2>2, <2>3, MoveWatches DEF BotMoves
  <2>4. CASE BotLooks(b, t) \/ BotWakes(b, t)
    <3>1. UNCHANGED <<setup, chess, clock, armed, call, result, ending, drops>>
      BY <2>4 DEF BotLooks, BotWakes
    <3> QED
      BY <3>1 DEF WatchInv, Watched, Watches, BotToMove, ToMove, Turn,
                  Finished, Humans, setup, chess
  <2> QED
    BY <2>1, <2>3, <2>4
<1>4. ASSUME NEW p \in Positions, CallGoesOn(p) PROVE WatchInv'
  <2>1. CASE Stopped(p)
    <3>1. CASE ~Finished
      BY <2>1, <3>1, StopWatches
    <3>2. CASE Finished
      BY <2>1, <3>2 DEF Stopped, WatchInv, Finished
    <3> QED
      BY <3>1, <3>2
  <2>2. CASE Published(p)
    <3>1. PICK boards \in SUBSET Boards : WakeBots(boards, p)
      BY <2>2, BoardOfPosition DEF Published
    <3>2. /\ call[p].pc = "publish"
          /\ UNCHANGED <<bots, creation, chess, clock, armed, result, ending, drops>>
      BY <2>2 DEF Published, setup
    <3>3. CASE creation # "mapping"
      BY <3>1, <3>2, <3>3, WakeWatches
    <3>4. CASE creation = "mapping"
      BY <3>2, <3>4 DEF WatchInv
    <3> QED
      BY <3>3, <3>4
  <2>3. CASE Decided(p)
    <3>1. call[p].result \in Results
      BY <2>3 DEF Decided, GameInv, CallInv
    <3> QED
      BY <1>1, <2>3, <3>1 DEF Decided
  <2> QED
    BY <1>4, <2>1, <2>2, <2>3 DEF CallGoesOn
<1>5. ASSUME NEW p \in Humans, Resign(p) PROVE WatchInv'
  BY <1>1, <1>5, TeamsLose DEF Resign
<1>6. ASSUME NEW b \in Boards, Flag(b) \/ Abort(b) PROVE WatchInv'
  BY <1>1, <1>6, TeamsLose DEF Flag, Abort, Results
<1>7. CASE CreateStarts
  <2>1. /\ creation = "starting" /\ WakeBots(Boards, Nobody)
        /\ UNCHANGED <<bots, chess, clock, armed, result, ending, drops>>
    BY <1>7 DEF CreateStarts
  <2>2. Nobody \notin Positions
    BY DEF Nobody, Positions
  <2> QED
    BY <2>1, <2>2, WakeWatches
<1>8. CASE CreateArms
  <2>1. \A b \in Boards : armed'[b]
    BY <1>8 DEF CreateArms
  <2> QED
    BY <1>8, <2>1, BoardOfPosition DEF CreateArms, WatchInv, Watched, Humans
<1>9. CASE CreateMaps
  <2>1. creation' = "mapping"
    BY <1>9 DEF CreateMaps
  <2> QED
    BY <2>1 DEF WatchInv
<1>10. CASE FinishEnds \/ UNCHANGED gameVars
  <2>1. UNCHANGED <<setup, chess, clock, armed, call, result, drops>>
    BY <1>10 DEF FinishEnds, gameVars
  <2> QED
    BY <2>1 DEF WatchInv, Watched, Watches, BotToMove, ToMove, Turn,
                Finished, Humans, setup, chess
<1>11. ASSUME NEW p \in Humans, Drop(p) PROVE WatchInv'
  <2>1. drops' # 0
    BY <1>11 DEF Drop, GameInv, GameTypeOK
  <2> QED
    BY <2>1 DEF WatchInv
<1> QED
  BY <1>2, <1>3, <1>4, <1>5, <1>6, <1>7, <1>8, <1>9, <1>10, <1>11
     DEF GameNext, CreateGoesOn

(* A game that has begun never waits for nothing: a watchdog or a clock    *)
(* runs or a call will start one or end it, as long as no connection       *)
(* dropped, because the board of some human is watched.                    *)
THEOREM GamesAreTimed == GameSpec => []GameIsTimed
<1>1. GameInit => TaskInv /\ OwnInv /\ WatchInv
  BY DEF GameInit, TaskInv, OwnInv, WatchInv, Idle
<1>2. GameInv /\ WatchInv => GameIsTimed
  <2> SUFFICES ASSUME GameInv, WatchInv, creation = "running", ~Finished,
                      drops = 0, Humans # {}
               PROVE  \/ \E b \in Boards : armed[b] \/ clock[b] # "off"
                      \/ \E p \in Positions : call[p].pc \in {"stop", "decide"}
    BY DEF GameIsTimed
  <2>1. PICK h \in Humans : TRUE
    OBVIOUS
  <2>2. Watched(PosToBoard(h)) /\ PosToBoard(h) \in Boards
    BY BoardOfPosition DEF WatchInv, Humans
  <2> QED
    BY <2>2 DEF Watched, Watches
<1> QED
  BY InitHolds, StepHolds, TaskStep, OwnStep, WatchStep, <1>1, <1>2, PTL
     DEF GameSpec
=============================================================================
