-------------------------------- MODULE Game --------------------------------
(***************************************************************************)
(* One game in GameManager (services/core/game/manager.py) with its clocks *)
(* (clocks.py): moves of humans and bots, the timers of both boards, and   *)
(* the end of the game.                                                    *)
(*                                                                         *)
(* All tasks run on one event loop, so a step here is the code between two *)
(* awaits that really suspend.  The lock of Clocks is only held where      *)
(* nothing suspends, so it is always free; what suspends is the await of a *)
(* cancelled watchdog in stop_and_apply, publishing, saving, the delay of  *)
(* a bot and its search.                                                   *)
(*                                                                         *)
(* Chess is abstracted to what these handlers ask of a board: whose turn   *)
(* it is, and whether the player to move can move, sits (no move now, but  *)
(* one may come with a piece from the other board), is mated or has        *)
(* reached a draw by rule.  Times are abstracted: a clock that runs may    *)
(* run out whenever it is looked at.                                       *)
(***************************************************************************)
EXTENDS Topology, FiniteSets

CONSTANTS
    LineUps,       \* BOUND: the sets of positions that bots may play
    ColorFlip,      \* color_flip of the game
    MaxMoves,       \* BOUND: moves on each board; from the third on, a move
                    \*   stands for any odd number of moves
    MaxDrops        \* BOUND: calls that are cancelled with their connection

ASSUME GameAssumption ==
    /\ LineUps \subseteq SUBSET Positions
    /\ ColorFlip \in BOOLEAN
    /\ MaxMoves \in [Boards -> Nat]
    /\ MaxDrops \in Nat

VARIABLES
    bots,           \* the positions with is_bot
    creation,       \* where create_game is
    mapped,         \* positions in _user_to_game while the game is in _games
    made,           \* moves pushed, per board
    count,          \* moves recorded in game.moves, per board
    position,       \* what the player to move is in for, per board
    clock,          \* Clocks._active: the colour whose time runs
    armed,          \* the boards with an abort watchdog
    think,          \* tasks in _bot_move that have not pushed, per board
    call,           \* calls of _apply_move that have pushed, per position
    result,         \* game.result; the game is finished when there is one
    ending,         \* where _finish is, and whose call it is in
    drops           \* how many calls were cancelled

setup == <<bots, creation, mapped>>
chess == <<made, count, position>>
gameVars == <<setup, chess, clock, armed, think, call, result, ending, drops>>

Situations == {"open", "sits", "mate", "draw"}
Results == Teams \cup {"draw", "abort"}
NoResult == "none"

(* A call of _apply_move waits for the watchdog it cancelled ("stop") or   *)
(* publishes its move, after which it wakes bots ("publish") or finishes   *)
(* the game ("decide").  own: _bot_tasks holds its task.                   *)
Applying == [pc : {"none", "stop", "publish", "decide"}, captured : BOOLEAN,
             result : Results \cup {NoResult}, own : BOOLEAN]

Idle == [pc |-> "none", captured |-> FALSE, result |-> NoResult, own |-> FALSE]

Thinking == [pos : Positions, pc : {"new", "sleep", "search"}]

(* Who calls _finish beside the players.                                   *)
Timer == 4
Nobody == 5

Ending == [stage : {"none", "closing", "done", "cut"},
           by : Positions \cup {Timer, Nobody}]

Humans == Positions \ bots

TurnAfter(n) == IF n % 2 = 0 THEN "white" ELSE "black"
Turn(b) == TurnAfter(made[b])
ToMove(b) == PosFor(b, Turn(b), ColorFlip)
CanMove(b) == position[b] \in {"open", "draw"}
Finished == result # NoResult

FirstOf(S) == CHOOSE p \in S : \A q \in S : p <= q

----------------------------------------------------------------------------
(* Waking bots                                                             *)

BotToMove(b) == ToMove(b) \in bots

(* A cancelled task.  The CancelledError that reaches stop_and_apply in    *)
(* its await of the watchdog is swallowed there; anywhere else it ends the *)
(* task.                                                                   *)
Cancelled(c) == IF c.pc = "stop" THEN [c EXCEPT !.own = FALSE] ELSE Idle

(* _clear_bot_task and create_task in _maybe_schedule_bot.                 *)
NewTask(b) == {[pos |-> ToMove(b), pc |-> "new"]}

(* _maybe_schedule_bot for each of the boards, in a task that is not a     *)
(* bot's or in the one of position q, which ends.                          *)
WakeBots(boards, q) ==
    LET woken == {b \in boards : BotToMove(b) /\ ~Finished} IN
    /\ think' = [b \in Boards |-> IF b \in woken THEN NewTask(b) ELSE think[b]]
    /\ call' = [p \in Positions |->
                  IF p = q THEN Idle
                  ELSE IF call[p].own /\ PosToBoard(p) \in woken
                       THEN Cancelled(call[p])
                       ELSE call[p]]

----------------------------------------------------------------------------
(* The end of a game                                                       *)

(* Mutant: _finish does not ask whether the game is finished.              *)
FinishAgain(q, r) ==
    /\ result' = r
    /\ armed' = [b \in Boards |-> FALSE]
    /\ clock' = [b \in Boards |-> "off"]
    /\ think' = [b \in Boards |-> {}]
    /\ call' = [p \in Positions |->
                  IF p = q THEN Idle
                  ELSE IF call[p].own THEN Cancelled(call[p]) ELSE call[p]]
    /\ ending' = [stage |-> "closing", by |-> q]

(* _finish up to its first suspension, in the call of position q or in the *)
(* task of a timer.                                                        *)
Finish(q, r) ==
    IF Finished
    THEN /\ call' = [p \in Positions |-> IF p = q THEN Idle ELSE call[p]]
         /\ UNCHANGED <<result, armed, clock, think, ending>>
    ELSE /\ result' = r
         /\ armed' = [b \in Boards |-> FALSE]
         /\ clock' = [b \in Boards |-> "off"]
         /\ think' = [b \in Boards |-> {}]
         /\ call' = [p \in Positions |->
                       IF p = q THEN Idle
                       ELSE IF call[p].own THEN Cancelled(call[p]) ELSE call[p]]
         /\ ending' = [stage |-> "closing", by |-> q]

(* The rest of _finish: the game is saved, or that fails, its end is       *)
(* published, and its lobbies are released.                                *)
FinishEnds ==
    /\ ending.stage = "closing"
    /\ ending' = [ending EXCEPT !.stage = "done"]
    /\ UNCHANGED <<setup, chess, clock, armed, think, call, result, drops>>

(* The watchdog of a clock: it takes its entry out and calls handle_flag.  *)
Flag(b) ==
    /\ clock[b] # "off"
    /\ Finish(Timer, OtherTeam(TeamOfPos(PosFor(b, clock[b], ColorFlip))))
    /\ UNCHANGED <<setup, chess, drops>>

(* _abort_watchdog.                                                        *)
Abort(b) ==
    /\ armed[b]
    /\ ~Finished
    /\ Finish(Timer, "abort")
    /\ UNCHANGED <<setup, chess, drops>>

Resign(p) ==
    /\ p \in mapped /\ ~Finished
    /\ call[p] = Idle
    /\ Finish(p, OtherTeam(TeamOfPos(p)))
    /\ UNCHANGED <<setup, chess, drops>>

----------------------------------------------------------------------------
(* Moves                                                                   *)

(* What a move may do.  Nobody is mated or sits within the first two moves *)
(* of a board.  The second move can only capture a piece the first one     *)
(* dropped: White had it from the partner, who is Black on the other board *)
(* and captures there with its fourth move at the earliest.                *)
Outcomes(b) == IF made[b] < 2 THEN {"open"} ELSE Situations
Captures(b) ==
    IF made[b] = 0 \/ (made[b] = 1 /\ made[1 - b] < 4) THEN {FALSE}
    ELSE BOOLEAN

(* What a piece taken on board b does to the other one: it goes to the     *)
(* partner's pocket, so that a partner who sits may have a move, and a     *)
(* position that was a repetition is not one any more.                     *)
Fed(b) ==
    LET c == 1 - b IN
    {position[c]} \cup
    IF \/ position[c] = "sits" /\ Turn(c) = OtherColour(Turn(b))
       \/ position[c] = "draw"
    THEN {"open"} ELSE {}

(* Mutant: the clock starts one move late.                                 *)
ClockStartsLate(m) == m >= 2 /\ ~Finished

(* Mutant: Clocks.start does not ask for _shutdown.                        *)
ClockStartsAlways(m) == m >= 1

(* A move after the first one of its board starts the clock of the player  *)
(* who is to move next, unless the clocks are shut down.                   *)
ClockStarts(m) == m >= 1 /\ ~Finished

(* Mutant: the colour is taken from the one who moved, not from the board. *)
OpponentOf(p) == OtherColour(PosToColour(p, ColorFlip))

(* Whose clock starts: who is to move by now, which need not be the        *)
(* opponent of the one whose move this is.                                 *)
ToMoveNow(p) == TurnAfter(made'[PosToBoard(p)])

(* Mutant: the first move stops the abort watchdog like the second.        *)
FirstMoveDisarms(m, was) == m > 1 /\ was

(* The first move of a board starts its abort watchdog again, the second   *)
(* stops it.                                                               *)
StaysArmed(m, was) == m = 0 \/ (m # 1 /\ was)

(* _apply_move from the record of the move to its publication; m moves     *)
(* were recorded when it began.                                            *)
Record(p, m, captured, own) ==
    LET b == PosToBoard(p)
        next == ToMoveNow(p)
        mated == position'[b] = "mate"
        drawn == \E c \in Boards : position'[c] = "draw"
        winner == OtherTeam(TeamOfPos(PosFor(b, next, ColorFlip)))
    IN
    /\ count' = [count EXCEPT ![b] = @ + 1]
    /\ armed' = [armed EXCEPT ![b] = StaysArmed(m, @)]
    /\ clock' = [clock EXCEPT ![b] =
                   IF ~mated /\ ~drawn /\ ClockStarts(m) THEN next ELSE @]
    /\ call' = [call EXCEPT ![p] =
                  [pc |-> IF mated \/ drawn THEN "decide" ELSE "publish",
                   captured |-> captured, own |-> own,
                   result |-> IF mated THEN winner
                              ELSE IF drawn THEN "draw" ELSE NoResult]]

(* Where the clock of the board runs, the move waits for its watchdog.     *)
StopOrRecord(p, captured, own) ==
    LET b == PosToBoard(p) IN
    \/ /\ count[b] >= 2 /\ clock[b] # "off"
       /\ clock' = [clock EXCEPT ![b] = "off"]
       /\ call' = [call EXCEPT ![p] =
                     [Idle EXCEPT !.pc = "stop", !.captured = captured,
                                  !.own = own]]
       /\ UNCHANGED <<count, armed>>
    \/ /\ count[b] < 2 \/ clock[b] = "off"
       /\ Record(p, count[b], captured, own)

(* _apply_move of a legal move.  It is made for the player to move, which  *)
(* it is up to the caller to compare with p.                               *)
Apply(p, own) ==
    LET b == PosToBoard(p) IN
    /\ made[b] < MaxMoves[b]
    /\ CanMove(b)
    /\ \E after \in Outcomes(b), captured \in Captures(b) :
       \E fed \in (IF captured THEN Fed(b) ELSE {position[1 - b]}) :
          /\ made' = [made EXCEPT ![b] = @ + 1]
          /\ position' = [position EXCEPT ![b] = after, ![1 - b] = fed]
          /\ StopOrRecord(p, captured, own)
    /\ UNCHANGED <<setup, result, ending, drops>>

(* Mutant: a player may move while the opponent's turn lasts.              *)
InThisGame(p) == p \in mapped /\ ~Finished

(* The checks of make_move.                                                *)
HasTurn(p) == p \in mapped /\ ~Finished /\ ToMove(PosToBoard(p)) = p

MakeMove(p) ==
    /\ call[p] = Idle
    /\ HasTurn(p)
    /\ Apply(p, FALSE)
    /\ UNCHANGED think

(* stop_and_apply returns.  The game may be over by now, and the opponent  *)
(* may have moved: the situation is the one of the board as it is now.     *)
Stopped(p) ==
    /\ call[p].pc = "stop"
    /\ UNCHANGED <<made, position>>
    /\ Record(p, 2, call[p].captured, call[p].own)
    /\ UNCHANGED <<setup, think, result, ending, drops>>

(* The move is published; the bots that may move now are woken.            *)
Published(p) ==
    LET b == PosToBoard(p) IN
    /\ call[p].pc = "publish"
    /\ WakeBots(IF call[p].captured THEN Boards ELSE {b}, p)
    /\ UNCHANGED <<setup, chess, clock, armed, result, ending, drops>>

Decided(p) ==
    /\ call[p].pc = "decide"
    /\ Finish(p, call[p].result)
    /\ UNCHANGED <<setup, chess, drops>>

----------------------------------------------------------------------------
(* _bot_move.  A task that has pushed goes on as a call of its position.   *)

BotLooks(b, t) ==
    /\ t \in think[b] /\ t.pc = "new"
    /\ think' = [think EXCEPT ![b] =
                   (@ \ {t}) \cup IF CanMove(b) THEN {[t EXCEPT !.pc = "sleep"]}
                                ELSE {}]
    /\ UNCHANGED <<setup, chess, clock, armed, call, result, ending, drops>>

BotWakes(b, t) ==
    /\ t \in think[b] /\ t.pc = "sleep"
    /\ think' = [think EXCEPT ![b] =
                   (@ \ {t}) \cup IF ToMove(b) = t.pos /\ CanMove(b)
                                THEN {[t EXCEPT !.pc = "search"]} ELSE {}]
    /\ UNCHANGED <<setup, chess, clock, armed, call, result, ending, drops>>

(* The search ends, or there is none and a random move is made at once.    *)
(* A bot that has moved is not as fast as to move again within its own     *)
(* _apply_move: it sleeps for bot_move_delay_min at least.                 *)
BotMoves(b, t) ==
    /\ t \in think[b] /\ t.pc = "search"
    /\ call[t.pos] = Idle
    /\ Apply(t.pos, TRUE)
    /\ think' = [think EXCEPT ![b] = @ \ {t}]

----------------------------------------------------------------------------
(* create_game from the insertion in _games on                             *)

(* Mutant: bots are entered in _user_to_game too.                          *)
AnybodyLeft == Positions \ mapped

(* Bots can be in many games at once, so they are left out.                *)
HumansLeft == Humans \ mapped

CreateMaps ==
    /\ creation = "mapping"
    /\ HumansLeft # {}
    /\ mapped' = mapped \cup {FirstOf(HumansLeft)}
    /\ UNCHANGED <<bots, creation, chess, clock, armed, think, call, result,
                   ending, drops>>

CreateArms ==
    /\ creation = "mapping"
    /\ HumansLeft = {}
    /\ creation' = "starting"
    /\ armed' = [b \in Boards |-> TRUE]
    /\ UNCHANGED <<bots, mapped, chess, clock, think, call, result, ending,
                   drops>>

CreateStarts ==
    /\ creation = "starting"
    /\ creation' = "running"
    /\ WakeBots(Boards, Nobody)
    /\ UNCHANGED <<bots, mapped, chess, clock, armed, result, ending, drops>>

(* The connection of a player drops, which cancels the call in flight.     *)
Drop(p) ==
    /\ drops < MaxDrops
    /\ p \in Humans
    /\ \/ /\ call[p].pc \in {"publish", "decide"}
          /\ call' = [call EXCEPT ![p] = Idle]
          /\ UNCHANGED ending
       \/ /\ ending.stage = "closing" /\ ending.by = p
          /\ ending' = [ending EXCEPT !.stage = "cut"]
          /\ UNCHANGED call
    /\ drops' = drops + 1
    /\ UNCHANGED <<setup, chess, clock, armed, think, result>>

----------------------------------------------------------------------------
GameInit ==
    /\ bots \in LineUps
    /\ creation = "mapping"
    /\ mapped = {p \in Humans : \A q \in Humans : p <= q}
    /\ made = [b \in Boards |-> 0]
    /\ count = [b \in Boards |-> 0]
    /\ position = [b \in Boards |-> "open"]
    /\ clock = [b \in Boards |-> "off"]
    /\ armed = [b \in Boards |-> FALSE]
    /\ think = [b \in Boards |-> {}]
    /\ call = [p \in Positions |-> Idle]
    /\ result = NoResult
    /\ ending = [stage |-> "none", by |-> Nobody]
    /\ drops = 0

CreateGoesOn == CreateMaps \/ CreateArms \/ CreateStarts

CallGoesOn(p) == Stopped(p) \/ Published(p) \/ Decided(p)

BotGoesOn(b) == \E t \in think[b] :
    BotLooks(b, t) \/ BotWakes(b, t) \/ BotMoves(b, t)

GameNext ==
    \/ CreateGoesOn
    \/ \E p \in Humans : MakeMove(p) \/ Resign(p)
    \/ \E p \in Positions : CallGoesOn(p)
    \/ \E b \in Boards : BotGoesOn(b) \/ Flag(b) \/ Abort(b)
    \/ FinishEnds
    \/ \E p \in Humans : Drop(p)

GameSpec == GameInit /\ [][GameNext]_gameVars

(* Every task goes on, and time passes: a clock that is not stopped runs   *)
(* out.  Nobody has to move.                                               *)
GameFairness ==
    /\ WF_gameVars(CreateGoesOn)
    /\ WF_gameVars(FinishEnds)
    /\ \A p \in Positions : WF_gameVars(CallGoesOn(p))
    /\ \A b \in Boards : WF_gameVars(BotGoesOn(b))
    /\ \A b \in Boards : WF_gameVars(Flag(b)) /\ WF_gameVars(Abort(b))

FairGameSpec == GameSpec /\ GameFairness

----------------------------------------------------------------------------
(* Properties                                                              *)

(* Every variable of the game has its type.                                *)
GameTypeOK ==
    /\ bots \in LineUps
    /\ creation \in {"mapping", "starting", "running"}
    /\ mapped \subseteq Humans
    /\ made \in [Boards -> Nat]
    /\ count \in [Boards -> Nat]
    /\ position \in [Boards -> Situations]
    /\ clock \in [Boards -> Colours \cup {"off"}]
    /\ armed \in [Boards -> BOOLEAN]
    /\ think \in [Boards -> SUBSET Thinking]
    /\ call \in [Positions -> Applying]
    /\ result \in Results \cup {NoResult}
    /\ ending \in Ending
    /\ drops \in 0 .. MaxDrops

(* The clock that runs on a board is the one of the player to move, in     *)
(* whatever order two moves of the board pass the awaits of _apply_move.   *)
ClockOfMover == \A b \in Boards : clock[b] \in {"off", Turn(b)}

(* A game that has begun is always watched: on one of its boards an abort  *)
(* watchdog or a clock runs, or a call on its way will start one or end    *)
(* the game.  A move that is about to end it stops the clock of its board, *)
(* and its task may be cancelled to wake the board's next bot; that only   *)
(* happens where two bots play, and the board of a human is watched.  Four *)
(* bots, whom no human watches, may cancel each other's last move on both  *)
(* boards, and nothing watches that game.                                  *)
GameIsTimed ==
    Humans # {} /\ creation = "running" /\ ~Finished /\ drops = 0 =>
        \/ \E b \in Boards : armed[b] \/ clock[b] # "off"
        \/ \E p \in Positions : call[p].pc \in {"stop", "decide"}

(* After the end no clock runs and no bot thinks: neither a move that was  *)
(* in its awaits when the game ended nor create_game starts them again.    *)
QuietAfterEnd ==
    Finished =>
        \A b \in Boards : clock[b] = "off" /\ think[b] = {}

(* Who moves has the turn.  _apply_move does not ask: a bot's search was   *)
(* started for a position of a while ago.                                  *)
MoverHasTurn ==
    [][\A p \in Positions :
          call[p] = Idle /\ call'[p].pc # "none"
              => ToMove(PosToBoard(p)) = p]_gameVars

(* The game as its players know it.                                        *)
Life == INSTANCE GameLife WITH
    phase <- IF ~Finished THEN "playing"
             ELSE IF ending.stage = "closing" THEN "decided" ELSE "closed",
    outcome <- result,
    plies <- made[0] + made[1]

(* Checkmates, flags, resignations and aborts that meet decide the game    *)
(* once, and no move is made after that: Game implements GameLife.         *)
DecidedOnce == Life!LifeSpec

(* Whatever the players do, a game with a human ends, if no connection     *)
(* drops.                                                                  *)
GameComesToAnEnd == Humans # {} => <>(Finished \/ drops > 0)

(* game/manager.py, _apply_move: a capture can hand a piece to a bot that  *)
(* sits, "so wake/restart that board too": a bot that is to move and can   *)
(* move is at it, or the call that will wake it is on its way.             *)
BotIsAwake ==
    creation = "running" /\ ~Finished =>
        \A b \in Boards :
            BotToMove(b) /\ CanMove(b) =>
                \/ think[b] # {}
                \/ \E p \in Positions :
                      /\ call[p].pc # "none"
                      /\ PosToBoard(p) = b \/ call[p].captured
=============================================================================
