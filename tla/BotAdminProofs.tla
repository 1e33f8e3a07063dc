--------------------------- MODULE BotAdminProofs ---------------------------
(***************************************************************************)
(* What bot administration keeps, for any number of bots and superusers.   *)
(*                                                                         *)
(* An update that is alone knows what it wrote: the flag it is about to    *)
(* write agrees with the one it wrote before.  A sync that is missing is   *)
(* one that will come, or whose answer is the newest one.                  *)
(***************************************************************************)
EXTENDS BotAdmin, TLAPS

botState == <<available, botVars>>

(* What an update knows and has decided.                                   *)
DecidedInv ==
    \A a \in Admins :
        /\ update[a].pc \in {"engine", "write", "write_engine"} =>
              update[a].enabled \in {"on", "off"}
        /\ update[a].pc \in {"write", "write_engine"} =>
              /\ update[a].engine \in {"on", "off"}
              /\ update[a].enabled = "off" => update[a].engine = "off"
        /\ update[a].pc = "enabled" => update[a].engine \in Settings

(* Which updates run together, and what they leave.                        *)
RaceInv ==
    /\ \A a, x \in Admins :
          /\ a # x /\ Writing(a) /\ Writing(x) /\ update[a].bot = update[x].bot
          => ~update[a].alone
    /\ \A a \in Admins :
          /\ Writing(a) /\ ~update[a].alone => update[a].bot \in raced
          /\ update[a].pc = "write_engine" /\ update[a].alone =>
                (update[a].enabled = "on" <=> update[a].bot \in available)
    /\ \A b \in Bots \ raced :
          b \in engineOn =>
             \/ b \in available
             \/ \E a \in Admins : update[a].bot = b /\ update[a].pc = "write_engine"

(* Which sync is still to come.                                            *)
Coming == \E a \in Admins : update[a].pc = "sync"

SyncInv ==
    ~behind =>
        /\ \A a, x \in Admins :
              update[a].pc = "apply" /\ update[x].pc = "apply" => a = x
        /\ \A a \in Admins :
              update[a].pc = "apply" => update[a].got = engineOn \/ Coming
        /\ \/ known = engineOn \/ Coming
           \/ \E a \in Admins : update[a].pc = "apply"

(* Which eviction is still to come.                                        *)
Evicting(b) ==
    \E a \in Admins :
        /\ update[a].bot = b
        /\ update[a].pc \in {"write_engine", "sync", "apply", "check", "evict"}

SeatInv == \A b \in seated \ late : b \in available \/ Evicting(b)

BotInv == BotTypeOK /\ DecidedInv /\ RaceInv /\ SyncInv /\ SeatInv

Keep(a) == \A x \in Admins \ {a} : update'[x] = update[x]

Untouched == UNCHANGED <<available, engineOn, known, behind>>

----------------------------------------------------------------------------
LEMMA InitHolds == BotInit => BotInv
<1> SUFFICES ASSUME BotInit PROVE BotInv
  OBVIOUS
<1>1. \A a \in Admins : update[a].pc = "none"
  BY DEF BotInit
<1>2. BotTypeOK
  BY <1>1 DEF BotInit, BotTypeOK
<1> QED
  BY <1>1, <1>2 DEF BotInit, BotInv, DecidedInv, RaceInv, SyncInv, SeatInv, Writing

(* What a step of one update does to the updates.                          *)
LEMMA SetUpdateFacts ==
  ASSUME BotInv, NEW a \in Admins, NEW call \in Update, SetUpdate(a, call)
  PROVE  /\ update' \in [Admins -> Update]
         /\ update'[a] = call
         /\ Keep(a)
BY DEF BotInv, BotTypeOK, SetUpdate, Keep

LEMMA GotoFacts ==
  ASSUME BotInv, NEW a \in Admins,
         NEW pc \in {"none", "write_engine", "sync", "evict"},
         UpdateGoto(a, pc)
  PROVE  /\ update' \in [Admins -> Update]
         /\ update'[a].pc = pc
         /\ update'[a].bot = update[a].bot
         /\ update'[a].enabled = update[a].enabled
         /\ update'[a].engine = update[a].engine
         /\ update'[a].alone = update[a].alone
         /\ Keep(a)
BY DEF BotInv, BotTypeOK, UpdateGoto, SetUpdate, Update, Keep

(* What an update decides.                                                 *)
LEMMA DecidedFacts ==
  ASSUME NEW call \in Update, NEW enabled \in {"on", "off"},
         NEW engine \in {"on", "off"}
  PROVE  LET done == Decided(call, enabled, engine) IN
         /\ done \in Update
         /\ done.pc \in {"none", "write"}
         /\ done.bot = call.bot /\ done.alone = call.alone
         /\ done.pc = "write" =>
               /\ done.enabled = enabled /\ done.engine \in {"on", "off"}
               /\ done.enabled = "off" => done.engine = "off"
BY DEF Decided, Update, Settings

----------------------------------------------------------------------------
(* A step that reads or decides: the update of a has written nothing yet.  *)
LEMMA ReadingHolds ==
  ASSUME BotInv, NEW a \in Admins, NEW call \in Update,
         SetUpdate(a, call),
         update[a].pc \in {"enabled", "engine"},
         call.pc \in {"none", "engine", "write"},
         call.bot = update[a].bot, call.alone = update[a].alone,
         call.pc \in {"engine", "write"} => call.enabled \in {"on", "off"},
         call.pc = "write" =>
            /\ call.engine \in {"on", "off"}
            /\ call.enabled = "off" => call.engine = "off",
         UNCHANGED <<available, engineOn, known, seated, coming, raced, behind, late>>
  PROVE  BotInv'
<1>1. update' \in [Admins -> Update] /\ update'[a] = call /\ Keep(a)
  BY SetUpdateFacts
<1>2. BotTypeOK'
  BY <1>1 DEF BotInv, BotTypeOK, Keep
<1>3. DecidedInv'
  BY <1>1 DEF BotInv, DecidedInv, Keep
<1>4. RaceInv'
  <2>1. \A x \in Admins : /\ update'[x].bot = update[x].bot
                          /\ update'[x].alone = update[x].alone
                          /\ Writing(x)' => Writing(x)
                          /\ update'[x].pc = "write_engine" <=> update[x].pc = "write_engine"
                          /\ update[x].pc = "write_engine" => update'[x] = update[x]
    BY <1>1 DEF Keep, Writing
  <2> QED
    BY <2>1 DEF BotInv, RaceInv
<1>5. SyncInv'
  BY <1>1 DEF BotInv, SyncInv, Coming, Keep
<1>6. SeatInv'
  BY <1>1 DEF BotInv, SeatInv, Evicting, Keep
<1> QED
  BY <1>2, <1>3, <1>4, <1>5, <1>6 DEF BotInv

LEMMA ReadEnabledHolds ==
  ASSUME BotInv, NEW a \in Admins, ReadEnabled(a)
  PROVE  BotInv'
<1> DEFINE call == update[a]
           enabled == Flag(available, call.bot)
<1>1. call \in Update /\ enabled \in {"on", "off"} /\ call.pc = "enabled"
  BY DEF BotInv, BotTypeOK, ReadEnabled, Flag
<1>2. UNCHANGED <<available, engineOn, known, seated, coming, raced, behind, late>>
  BY DEF ReadEnabled
<1>3. CASE call.engine = "keep"
  <2> DEFINE next == [call EXCEPT !.pc = "engine", !.enabled = enabled]
  <2>1. SetUpdate(a, next)
    BY <1>3 DEF ReadEnabled
  <2>2. /\ next \in Update /\ next.pc = "engine" /\ next.enabled = enabled
        /\ next.bot = call.bot /\ next.alone = call.alone
    BY <1>1 DEF Update, Settings
  <2> HIDE DEF next
  <2> QED
    BY <1>1, <1>2, <2>1, <2>2, ReadingHolds
<1>4. CASE call.engine # "keep"
  <2> DEFINE next == Decided(call, enabled, call.engine)
  <2>1. SetUpdate(a, next)
    BY <1>4 DEF ReadEnabled
  <2>2. call.engine \in {"on", "off"}
    BY <1>1, <1>4 DEF Update, Settings
  <2>3. /\ next \in Update /\ next.pc \in {"none", "write"}
        /\ next.bot = call.bot /\ next.alone = call.alone
        /\ next.pc = "write" =>
              /\ next.enabled = enabled /\ next.engine \in {"on", "off"}
              /\ next.enabled = "off" => next.engine = "off"
    BY <1>1, <2>2, DecidedFacts
  <2> HIDE DEF next
  <2> QED
    BY <1>1, <1>2, <2>1, <2>3, ReadingHolds
<1> QED
  BY <1>3, <1>4

LEMMA ReadEngineHolds ==
  ASSUME BotInv, NEW a \in Admins, ReadEngine(a)
  PROVE  BotInv'
<1> DEFINE call == update[a]
           engine == Flag(engineOn, call.bot)
           next == Decided(call, call.enabled, engine)
<1>1. call \in Update /\ engine \in {"on", "off"} /\ call.pc = "engine"
  BY DEF BotInv, BotTypeOK, ReadEngine, Flag
<1>2. call.enabled \in {"on", "off"}
  BY <1>1 DEF BotInv, DecidedInv
<1>3. /\ next \in Update /\ next.pc \in {"none", "write"}
      /\ next.bot = call.bot /\ next.alone = call.alone
      /\ next.pc = "write" =>
            /\ next.enabled = call.enabled /\ next.engine \in {"on", "off"}
            /\ next.enabled = "off" => next.engine = "off"
  BY <1>1, <1>2, DecidedFacts
<1>4. /\ SetUpdate(a, next)
      /\ UNCHANGED <<available, engineOn, known, seated, coming, raced, behind, late>>
  BY DEF ReadEngine
<1> HIDE DEF next
<1> QED
  BY <1>1, <1>2, <1>3, <1>4, ReadingHolds

----------------------------------------------------------------------------
(* The call up to its first suspension.                                    *)
LEMMA RequestFacts ==
  ASSUME NEW b \in Bots, NEW enabled \in Settings, NEW engine \in Settings,
         NEW alone \in BOOLEAN
  PROVE  LET call == Request([pc |-> "none", bot |-> b, enabled |-> enabled,
                              engine |-> engine, got |-> {}, alone |-> alone]) IN
         /\ call \in Update
         /\ call.pc \in {"none", "enabled", "engine", "write"}
         /\ call.bot = b /\ call.alone = alone
         /\ call.pc = "engine" => call.enabled \in {"on", "off"}
         /\ call.pc = "write" =>
               /\ call.enabled \in {"on", "off"} /\ call.engine \in {"on", "off"}
               /\ call.enabled = "off" => call.engine = "off"
<1> DEFINE asked == [pc |-> "none", bot |-> b, enabled |-> enabled,
                     engine |-> engine, got |-> {}, alone |-> alone]
<1>1. asked \in Update /\ asked.enabled = enabled /\ asked.engine = engine
      /\ asked.bot = b /\ asked.alone = alone
  BY DEF Update
<1> HIDE DEF asked
<1>2. CASE enabled = "keep"
  BY <1>1, <1>2 DEF Request, Update
<1>3. CASE enabled # "keep" /\ engine = "keep"
  <2>1. Request(asked) = [asked EXCEPT !.pc = "engine"]
    BY <1>1, <1>3 DEF Request
  <2>2. enabled \in {"on", "off"}
    BY <1>3 DEF Settings
  <2> QED
    BY <2>1, <2>2, <1>1 DEF Update, asked
<1>4. CASE enabled # "keep" /\ engine # "keep"
  <2>1. Request(asked) = Decided(asked, enabled, engine)
    BY <1>1, <1>4 DEF Request
  <2>2. enabled \in {"on", "off"} /\ engine \in {"on", "off"}
    BY <1>4 DEF Settings
  <2>3. LET done == Decided(asked, enabled, engine) IN
         /\ done \in Update
         /\ done.pc \in {"none", "write"}
         /\ done.bot = asked.bot /\ done.alone = asked.alone
         /\ done.pc = "write" =>
               /\ done.enabled = enabled /\ done.engine \in {"on", "off"}
               /\ done.enabled = "off" => done.engine = "off"
    BY <1>1, <2>2, DecidedFacts
  <2> QED
    BY <2>1, <2>2, <2>3, <1>1 DEF asked
<1> QED
  BY <1>2, <1>3, <1>4 DEF asked

LEMMA BeginUpdateHolds ==
  ASSUME BotInv, NEW a \in Admins, NEW b \in Bots, BeginUpdate(a, b)
  PROVE  BotInv'
<1> DEFINE others == OthersWriting(a, b)
<1>1. PICK enabled \in Settings, engine \in Settings :
        LET call == Request([pc |-> "none", bot |-> b, enabled |-> enabled,
                             engine |-> engine, got |-> {}, alone |-> others = {}])
        IN  /\ call.pc # "none"
            /\ update' = [x \in Admins |->
                            IF x = a THEN call
                            ELSE IF x \in others
                                 THEN [update[x] EXCEPT !.alone = FALSE]
                                 ELSE update[x]]
            /\ raced' = IF others = {} THEN raced ELSE raced \cup {b}
  BY DEF BeginUpdate
<1>2. PICK alone \in BOOLEAN : alone = (others = {})
  OBVIOUS
<1>3. PICK call : call = Request([pc |-> "none", bot |-> b, enabled |-> enabled,
                                  engine |-> engine, got |-> {}, alone |-> alone])
  OBVIOUS
<1>4. /\ call \in Update
      /\ call.pc \in {"enabled", "engine", "write"}
      /\ call.bot = b /\ call.alone = alone
      /\ call.pc = "engine" => call.enabled \in {"on", "off"}
      /\ call.pc = "write" =>
            /\ call.enabled \in {"on", "off"} /\ call.engine \in {"on", "off"}
            /\ call.enabled = "off" => call.engine = "off"
  <2>1. call.pc # "none"
    BY <1>1, <1>2, <1>3
  <2>2. call \in Update /\ call.pc \in {"none", "enabled", "engine", "write"}
    BY <1>3, RequestFacts
  <2>3. call.bot = b /\ call.alone = alone
    BY <1>3, RequestFacts
  <2>4. call.pc = "engine" => call.enabled \in {"on", "off"}
    BY <1>3, RequestFacts
  <2>5. call.pc = "write" =>
            /\ call.enabled \in {"on", "off"} /\ call.engine \in {"on", "off"}
            /\ call.enabled = "off" => call.engine = "off"
    BY <1>3, RequestFacts
  <2> QED
    BY <2>1, <2>2, <2>3, <2>4, <2>5
<1>5. update' = [x \in Admins |->
                   IF x = a THEN call
                   ELSE IF x \in others THEN [update[x] EXCEPT !.alone = FALSE]
                   ELSE update[x]]
  BY <1>1, <1>2, <1>3
<1>6. /\ update[a].pc = "none"
      /\ raced' = IF others = {} THEN raced ELSE raced \cup {b}
      /\ UNCHANGED <<available, engineOn, known, seated, coming, behind, late>>
  BY <1>1 DEF BeginUpdate
<1>7. update \in [Admins -> Update] /\ others \subseteq Admins \ {a}
  BY DEF BotInv, BotTypeOK, OthersWriting
<1>8. \A x \in Admins : update'[x] \in Update
  BY <1>4, <1>5, <1>7 DEF Update
<1>9. update' \in [Admins -> Update]
  BY <1>5, <1>8
<1>10. update'[a] = call
  BY <1>5
<1>11. \A x \in Admins \ {a} :
          /\ update'[x].pc = update[x].pc /\ update'[x].bot = update[x].bot
          /\ update'[x].enabled = update[x].enabled
          /\ update'[x].engine = update[x].engine
          /\ update'[x].got = update[x].got
          /\ x \in others => update'[x].alone = FALSE
          /\ x \notin others => update'[x].alone = update[x].alone
  BY <1>5, <1>7 DEF Update
<1> HIDE DEF others
<1>12. \A x \in Admins : x \in others <=> x # a /\ Writing(x) /\ update[x].bot = b
  BY DEF others, OthersWriting
<1>13. BotTypeOK'
  BY <1>4, <1>6, <1>9, <1>10, <1>11 DEF BotInv, BotTypeOK
<1>14. DecidedInv'
  <2>1. call.engine \in Settings
    BY <1>4 DEF Update
  <2>2. DecidedInv
    BY DEF BotInv
  <2> QED
    BY <2>1, <2>2, <1>4, <1>10, <1>11 DEF DecidedInv
<1>15. RaceInv'
  <2>1. \A x \in Admins \ {a} : Writing(x)' <=> Writing(x)
    BY <1>11 DEF Writing
  <2>2. \A x, y \in Admins :
          x # y /\ Writing(x)' /\ Writing(y)' /\ update'[x].bot = update'[y].bot
             => ~update'[x].alone
    <3> SUFFICES ASSUME NEW x \in Admins, NEW y \in Admins, x # y, Writing(x)', Writing(y)',
                        update'[x].bot = update'[y].bot
                 PROVE  ~update'[x].alone
      OBVIOUS
    <3>1. CASE x = a
      <4>1. y \in others
        BY <3>1, <2>1, <1>4, <1>10, <1>11, <1>12
      <4> QED
        BY <3>1, <4>1, <1>2, <1>4, <1>10
    <3>2. CASE y = a
      <4>1. x \in others
        BY <3>2, <2>1, <1>4, <1>10, <1>11, <1>12
      <4> QED
        BY <3>2, <4>1, <1>11
    <3>3. CASE x # a /\ y # a
      <4>1. ~update[x].alone
        BY <3>3, <2>1, <1>11 DEF BotInv, RaceInv
      <4>2. CASE x \in others
        BY <4>2, <3>3, <1>11
      <4>3. CASE x \notin others
        <5>1. update'[x].alone = update[x].alone
          BY <4>3, <3>3, <1>11
        <5> QED
          BY <5>1, <4>1
      <4> QED
        BY <4>2, <4>3
    <3> QED
      BY <3>1, <3>2, <3>3
  <2>3. ASSUME NEW x \in Admins
        PROVE  /\ Writing(x)' /\ ~update'[x].alone => update'[x].bot \in raced'
               /\ update'[x].pc = "write_engine" /\ update'[x].alone =>
                     (update'[x].enabled = "on" <=> update'[x].bot \in available')
    <3>1. CASE x = a
      BY <3>1, <1>2, <1>4, <1>6, <1>10
    <3>2. CASE x \in others
      BY <3>2, <1>6, <1>11, <1>12
    <3>3. CASE x # a /\ x \notin others
      <4>1. update'[x].alone = update[x].alone
        BY <3>3, <1>11
      <4>2. Writing(x)' /\ ~update'[x].alone => update'[x].bot \in raced'
        BY <3>3, <4>1, <2>1, <1>6, <1>11 DEF BotInv, RaceInv
      <4>3. update'[x].pc = "write_engine" /\ update'[x].alone =>
               (update'[x].enabled = "on" <=> update'[x].bot \in available')
        BY <3>3, <4>1, <1>6, <1>11 DEF BotInv, RaceInv
      <4> QED
        BY <4>2, <4>3
    <3> QED
      BY <3>1, <3>2, <3>3
  <2>4. \A d \in Bots \ raced' : d \in engineOn' =>
           \/ d \in available'
           \/ \E x \in Admins : update'[x].bot = d /\ update'[x].pc = "write_engine"
    BY <1>6, <1>11 DEF BotInv, RaceInv
  <2> QED
    BY <2>2, <2>3, <2>4 DEF RaceInv
<1>16. SyncInv'
  <2>1. Coming => Coming'
    BY <1>6, <1>11 DEF Coming
  <2> QED
    BY <2>1, <1>4, <1>6, <1>10, <1>11 DEF BotInv, SyncInv
<1>17. SeatInv'
  BY <1>6, <1>11 DEF BotInv, SeatInv, Evicting
<1> QED
  BY <1>13, <1>14, <1>15, <1>16, <1>17 DEF BotInv

----------------------------------------------------------------------------
LEMMA WriteEnabledHolds ==
  ASSUME BotInv, NEW a \in Admins, WriteEnabled(a)
  PROVE  BotInv'
<1>1. PICK b : b = update[a].bot
  OBVIOUS
<1>2. PICK enabled : enabled = update[a].enabled
  OBVIOUS
<1>3. /\ update' \in [Admins -> Update]
      /\ update'[a].pc = "write_engine"
      /\ update'[a].bot = b /\ update'[a].enabled = enabled
      /\ update'[a].engine = update[a].engine
      /\ update'[a].alone = update[a].alone
      /\ Keep(a)
  BY <1>1, <1>2, GotoFacts DEF WriteEnabled
<1>4. /\ update[a].pc = "write"
      /\ b \in Bots /\ enabled \in {"on", "off"}
      /\ enabled = "off" => update[a].engine = "off"
      /\ update[a].engine \in {"on", "off"}
  BY <1>1, <1>2 DEF BotInv, BotTypeOK, DecidedInv, WriteEnabled, Update
<1>5. /\ available' = IF enabled = "on" THEN available \cup {b} ELSE available \ {b}
      /\ UNCHANGED <<engineOn, known, seated, coming, raced, behind, late>>
  BY <1>1, <1>2 DEF WriteEnabled, Sadd, Srem
<1>6. BotTypeOK'
  BY <1>3, <1>4, <1>5 DEF BotInv, BotTypeOK, Keep
<1>7. DecidedInv'
  BY <1>3, <1>4 DEF BotInv, DecidedInv, Keep
<1>8. RaceInv'
  <2>1. \A x \in Admins : /\ Writing(x)' <=> Writing(x)
                          /\ update'[x].bot = update[x].bot
                          /\ update'[x].alone = update[x].alone
    BY <1>1, <1>3, <1>4 DEF Keep, Writing
  <2>2. ASSUME NEW x \in Admins, update'[x].pc = "write_engine", update'[x].alone
        PROVE  update'[x].enabled = "on" <=> update'[x].bot \in available'
    <3>1. CASE x = a
      BY <3>1, <1>3, <1>4, <1>5
    <3>2. CASE x # a
      <4>1. update'[x] = update[x]
        BY <3>2, <1>3 DEF Keep
      <4>2. update[x].bot # b
        BY <3>2, <4>1, <2>2, <1>1, <1>4 DEF BotInv, RaceInv, Writing
      <4> QED
        BY <4>1, <4>2, <2>2, <1>5 DEF BotInv, RaceInv
    <3> QED
      BY <3>1, <3>2
  <2>3. \A d \in Bots \ raced' : d \in engineOn' =>
           \/ d \in available'
           \/ \E x \in Admins : update'[x].bot = d /\ update'[x].pc = "write_engine"
    BY <1>3, <1>4, <1>5 DEF BotInv, RaceInv, Keep
  <2> QED
    BY <2>1, <2>2, <2>3, <1>5 DEF BotInv, RaceInv
<1>9. SyncInv'
  <2>1. Coming' <=> Coming
    BY <1>3, <1>4 DEF Coming, Keep
  <2>2. \A x \in Admins : /\ update'[x].pc = "apply" <=> update[x].pc = "apply"
                          /\ update[x].pc = "apply" => update'[x] = update[x]
    BY <1>3, <1>4 DEF Keep
  <2> QED
    BY <2>1, <2>2, <1>5 DEF BotInv, SyncInv
<1>10. SeatInv'
  BY <1>1, <1>3, <1>4, <1>5 DEF BotInv, SeatInv, Evicting, Keep
<1> QED
  BY <1>6, <1>7, <1>8, <1>9, <1>10 DEF BotInv

LEMMA WriteEngineHolds ==
  ASSUME BotInv, NEW a \in Admins, WriteEngine(a)
  PROVE  BotInv'
<1>1. PICK b : b = update[a].bot
  OBVIOUS
<1>2. PICK engine : engine = update[a].engine
  OBVIOUS
<1>3. /\ update' \in [Admins -> Update]
      /\ update'[a].pc = "sync"
      /\ update'[a].bot = b
      /\ update'[a].alone = update[a].alone
      /\ Keep(a)
  BY <1>1, GotoFacts DEF WriteEngine
<1>4. update[a].pc = "write_engine" /\ b \in Bots /\ engine \in {"on", "off"}
  BY <1>1, <1>2 DEF BotInv, BotTypeOK, DecidedInv, WriteEngine, Update
<1>5. /\ engineOn' = IF engine = "on" THEN engineOn \cup {b} ELSE engineOn \ {b}
      /\ raced' = IF update[a].alone THEN raced \ {b} ELSE raced
      /\ UNCHANGED <<available, known, seated, coming, behind, late>>
  BY <1>1, <1>2 DEF WriteEngine
<1>6. BotTypeOK'
  BY <1>3, <1>4, <1>5 DEF BotInv, BotTypeOK, Keep
<1>7. DecidedInv'
  BY <1>3, <1>4 DEF BotInv, DecidedInv, Keep
<1>8. RaceInv'
  <2>1. \A x \in Admins : /\ Writing(x)' => Writing(x) /\ x # a /\ update'[x] = update[x]
                          /\ update'[x].bot = update[x].bot
                          /\ update'[x].alone = update[x].alone
    BY <1>1, <1>3, <1>4 DEF Keep, Writing
  <2>2. ASSUME NEW x \in Admins, Writing(x)', ~update'[x].alone
        PROVE  update'[x].bot \in raced'
    <3>1. update[x].bot \in raced /\ Writing(x) /\ x # a
      BY <2>1, <2>2 DEF BotInv, RaceInv
    <3>2. update[a].alone => update[x].bot # b
      BY <3>1, <1>1, <1>4 DEF BotInv, RaceInv, Writing
    <3> QED
      BY <3>1, <3>2, <2>1, <1>5
  <2>3. \A x \in Admins : update'[x].pc = "write_engine" =>
             /\ update[x].pc = "write_engine" /\ update'[x] = update[x]
    BY <1>3 DEF Keep
  <2>4. ASSUME NEW d \in Bots \ raced', d \in engineOn'
        PROVE  \/ d \in available'
               \/ \E x \in Admins : update'[x].bot = d /\ update'[x].pc = "write_engine"
    <3>1. CASE d = b
      <4>1. engine = "on"
        BY <3>1, <2>4, <1>4, <1>5
      <4>2. update[a].alone
        <5>1. ~update[a].alone => b \in raced
          BY <1>1, <1>4 DEF BotInv, RaceInv, Writing
        <5> QED
          BY <5>1, <3>1, <2>4, <1>5
      <4>3. update[a].enabled = "on"
        BY <4>1, <1>2, <1>4 DEF BotInv, DecidedInv
      <4>4. b \in available
        BY <4>2, <4>3, <1>1, <1>4 DEF BotInv, RaceInv
      <4> QED
        BY <4>4, <3>1, <1>5
    <3>2. CASE d # b
      BY <3>2, <2>4, <1>1, <1>3, <1>5 DEF BotInv, RaceInv, Keep
    <3> QED
      BY <3>1, <3>2
  <2>5. \A x, y \in Admins :
          x # y /\ Writing(x)' /\ Writing(y)' /\ update'[x].bot = update'[y].bot
             => ~update'[x].alone
    BY <2>1 DEF BotInv, RaceInv
  <2>6. \A x \in Admins : update'[x].pc = "write_engine" /\ update'[x].alone =>
                (update'[x].enabled = "on" <=> update'[x].bot \in available')
    BY <2>3, <1>5 DEF BotInv, RaceInv
  <2> QED
    BY <2>2, <2>4, <2>5, <2>6 DEF RaceInv
<1>9. SyncInv'
  <2>1. Coming'
    BY <1>3 DEF Coming
  <2>2. \A x \in Admins : update'[x].pc = "apply" => update[x].pc = "apply"
    BY <1>3 DEF Keep
  <2> QED
    BY <2>1, <2>2, <1>5 DEF BotInv, SyncInv
<1>10. SeatInv'
  <2>1. \A d \in Bots : Evicting(d) => Evicting(d)'
    BY <1>1, <1>3 DEF Evicting, Keep
  <2> QED
    BY <2>1, <1>5 DEF BotInv, BotTypeOK, SeatInv
<1> QED
  BY <1>6, <1>7, <1>8, <1>9, <1>10 DEF BotInv

LEMMA UpdateFailsHolds ==
  ASSUME BotInv, NEW a \in Admins, UpdateFails(a)
  PROVE  BotInv'
<1>1. PICK b : b = update[a].bot
  OBVIOUS
<1>2. /\ update' \in [Admins -> Update]
      /\ update'[a].pc = "none" /\ update'[a].bot = b
      /\ Keep(a)
  BY <1>1, GotoFacts DEF UpdateFails
<1>3. /\ Writing(a) /\ b \in Bots
      /\ raced' = IF update[a].pc = "write_engine" THEN raced \cup {b} ELSE raced
      /\ late' = IF update[a].pc = "write_engine" THEN late \cup (seated \cap {b}) ELSE late
      /\ UNCHANGED <<available, engineOn, known, seated, coming, behind>>
  BY <1>1 DEF BotInv, BotTypeOK, UpdateFails, Update
<1>4. BotTypeOK'
  BY <1>2, <1>3 DEF BotInv, BotTypeOK, Keep
<1>5. DecidedInv'
  BY <1>2 DEF BotInv, DecidedInv, Keep
<1>6. RaceInv'
  <2>1. \A x \in Admins : Writing(x)' => x # a /\ Writing(x) /\ update'[x] = update[x]
    BY <1>2 DEF Keep, Writing
  <2>2. \A x, y \in Admins :
          x # y /\ Writing(x)' /\ Writing(y)' /\ update'[x].bot = update'[y].bot
             => ~update'[x].alone
    BY <2>1 DEF BotInv, RaceInv
  <2>3. \A x \in Admins : Writing(x)' /\ ~update'[x].alone => update'[x].bot \in raced'
    BY <2>1, <1>3 DEF BotInv, RaceInv
  <2>4. \A x \in Admins : update'[x].pc = "write_engine" /\ update'[x].alone =>
                (update'[x].enabled = "on" <=> update'[x].bot \in available')
    BY <1>2, <1>3 DEF BotInv, RaceInv, Keep
  <2>5. \A d \in Bots \ raced' : d \in engineOn' =>
           \/ d \in available'
           \/ \E x \in Admins : update'[x].bot = d /\ update'[x].pc = "write_engine"
    BY <1>1, <1>2, <1>3 DEF BotInv, RaceInv, Keep
  <2> QED
    BY <2>2, <2>3, <2>4, <2>5 DEF RaceInv
<1>7. SyncInv'
  BY <1>2, <1>3 DEF BotInv, SyncInv, Coming, Keep, Writing
<1>8. SeatInv'
  <2>1. \A d \in Bots : Evicting(d) => Evicting(d)' \/ (d = b /\ update[a].pc = "write_engine")
    BY <1>1, <1>2, <1>3 DEF Evicting, Keep, Writing
  <2> QED
    BY <2>1, <1>3 DEF BotInv, BotTypeOK, SeatInv
<1> QED
  BY <1>4, <1>5, <1>6, <1>7, <1>8 DEF BotInv

----------------------------------------------------------------------------
(* SyncBot, which writes no flag.                                          *)
LEMMA SyncHolds ==
  ASSUME BotInv, NEW a \in Admins, BotTypeOK', Keep(a),
         ~Writing(a), ~Writing(a)', update'[a].pc # "write_engine",
         UNCHANGED <<available, engineOn, raced>>, SyncInv', SeatInv'
  PROVE  BotInv'
<1>1. \A x \in Admins : Writing(x)' => Writing(x) /\ update'[x] = update[x]
  BY DEF Keep, Writing
<1>2. \A x \in Admins : update[x].pc = "write_engine" => update'[x] = update[x]
  BY DEF Keep, Writing
<1>3. DecidedInv'
  BY <1>1 DEF BotInv, DecidedInv, Writing
<1>4. \A x, y \in Admins :
        x # y /\ Writing(x)' /\ Writing(y)' /\ update'[x].bot = update'[y].bot
           => ~update'[x].alone
  BY <1>1 DEF BotInv, RaceInv
<1>5. \A x \in Admins :
        /\ Writing(x)' /\ ~update'[x].alone => update'[x].bot \in raced'
        /\ update'[x].pc = "write_engine" /\ update'[x].alone =>
              (update'[x].enabled = "on" <=> update'[x].bot \in available')
  <2>1. \A x \in Admins :
           Writing(x)' /\ ~update'[x].alone => update'[x].bot \in raced'
    BY <1>1 DEF BotInv, RaceInv
  <2>2. \A x \in Admins : update'[x].pc = "write_engine" => update'[x] = update[x]
    BY <1>1 DEF Writing
  <2> QED
    BY <2>1, <2>2 DEF BotInv, RaceInv
<1>6. \A d \in Bots \ raced' : d \in engineOn' =>
         \/ d \in available'
         \/ \E x \in Admins : update'[x].bot = d /\ update'[x].pc = "write_engine"
  BY <1>2 DEF BotInv, RaceInv
<1> QED
  BY <1>3, <1>4, <1>5, <1>6 DEF BotInv, RaceInv

LEMMA SyncReadHolds ==
  ASSUME BotInv, NEW a \in Admins, SyncRead(a) \/ SyncReadFails(a)
  PROVE  BotInv'
<1>1. PICK got \in SUBSET Bots :
        /\ SetUpdate(a, [update[a] EXCEPT !.pc = "apply", !.got = got])
        /\ \/ got = engineOn /\ behind' = (\E x \in Admins \ {a} : update[x].pc = "apply")
           \/ behind' = TRUE
  <2>1. engineOn \in SUBSET Bots /\ {} \in SUBSET Bots
    BY DEF BotInv, BotTypeOK
  <2>2. CASE SyncRead(a)
    BY <2>1, <2>2 DEF SyncRead
  <2>3. CASE SyncReadFails(a)
    BY <2>1, <2>3 DEF SyncReadFails
  <2> QED
    BY <2>2, <2>3
<1>2. PICK call : call = [update[a] EXCEPT !.pc = "apply", !.got = got]
  OBVIOUS
<1>3. call \in Update /\ call.pc = "apply" /\ call.got = got /\ call.bot = update[a].bot
  BY <1>2 DEF BotInv, BotTypeOK, Update
<1>4. update' \in [Admins -> Update] /\ update'[a] = call /\ Keep(a)
  BY <1>1, <1>2, <1>3, SetUpdateFacts
<1>5. /\ update[a].pc = "sync"
      /\ UNCHANGED <<available, engineOn, known, seated, coming, raced, late>>
  BY DEF SyncRead, SyncReadFails
<1>6. BotTypeOK'
  BY <1>1, <1>3, <1>4, <1>5 DEF BotInv, BotTypeOK, Keep
<1>7. ASSUME ~behind' PROVE SyncInv'
  <2>1. got = engineOn /\ \A x \in Admins \ {a} : update'[x].pc # "apply"
    BY <1>1, <1>4, <1>7 DEF Keep
  <2> QED
    BY <2>1, <1>3, <1>4, <1>5 DEF SyncInv
<1>8. SyncInv'
  BY <1>7 DEF SyncInv
<1>9. SeatInv'
  BY <1>3, <1>4, <1>5 DEF BotInv, SeatInv, Evicting, Keep
<1> QED
  BY <1>3, <1>4, <1>5, <1>6, <1>8, <1>9, SyncHolds DEF Writing

LEMMA SyncApplyHolds ==
  ASSUME BotInv, NEW a \in Admins, SyncApply(a)
  PROVE  BotInv'
<1>1. PICK call : call = [update[a] EXCEPT !.pc = "check", !.got = {}]
  OBVIOUS
<1>2. call \in Update /\ call.pc = "check" /\ call.bot = update[a].bot
  BY <1>1 DEF BotInv, BotTypeOK, Update
<1>3. update' \in [Admins -> Update] /\ update'[a] = call /\ Keep(a)
  BY <1>1, <1>2, SetUpdateFacts DEF SyncApply
<1>4. /\ update[a].pc = "apply" /\ known' = update[a].got
      /\ update[a].got \in SUBSET Bots
      /\ UNCHANGED <<available, engineOn, seated, coming, raced, behind, late>>
  BY DEF SyncApply, BotInv, BotTypeOK, Update
<1>5. BotTypeOK'
  BY <1>2, <1>3, <1>4 DEF BotInv, BotTypeOK, Keep
<1>6. SyncInv'
  <2>1. Coming' <=> Coming
    BY <1>2, <1>3, <1>4 DEF Coming, Keep
  <2>2. ~behind => \A x \in Admins : update'[x].pc # "apply"
    BY <1>2, <1>3, <1>4 DEF BotInv, SyncInv, Keep
  <2>3. ~behind => update[a].got = engineOn \/ Coming
    BY <1>4 DEF BotInv, SyncInv
  <2> QED
    BY <2>1, <2>2, <2>3, <1>4 DEF SyncInv
<1>7. SeatInv'
  BY <1>2, <1>3, <1>4 DEF BotInv, SeatInv, Evicting, Keep
<1> QED
  BY <1>2, <1>3, <1>4, <1>5, <1>6, <1>7, SyncHolds DEF Writing

(* A step of a sync that changes the pc only.                              *)
LEMMA AfterSyncKeeps ==
  ASSUME BotInv, NEW a \in Admins, Keep(a),
         update[a].pc \in {"sync", "apply", "check", "evict"},
         update'[a].pc \in {"none", "evict"},
         UNCHANGED <<engineOn, known>>,
         behind' = (behind \/ update[a].pc \in {"sync", "apply"})
  PROVE  SyncInv'
<1> SUFFICES ASSUME ~behind' PROVE SyncInv'
  BY DEF SyncInv
<1>1. ~behind /\ update[a].pc \in {"check", "evict"}
  OBVIOUS
<1>2. \A x \in Admins : /\ update'[x].pc = "apply" <=> update[x].pc = "apply"
                        /\ update'[x].pc = "sync" <=> update[x].pc = "sync"
                        /\ update[x].pc = "apply" => update'[x] = update[x]
  BY <1>1 DEF Keep
<1>3. Coming' <=> Coming
  BY <1>2 DEF Coming
<1> QED
  BY <1>1, <1>2, <1>3 DEF BotInv, SyncInv

LEMMA CheckAvailableHolds ==
  ASSUME BotInv, NEW a \in Admins, CheckAvailable(a)
  PROVE  BotInv'
<1>1. PICK pc \in {"none", "evict"} :
        UpdateGoto(a, pc) /\ (pc = "none" => update[a].bot \in available)
  BY DEF CheckAvailable
<1>2. PICK b : b = update[a].bot
  OBVIOUS
<1>3. /\ update' \in [Admins -> Update]
      /\ update'[a].pc = pc /\ update'[a].bot = b
      /\ Keep(a)
  BY <1>1, <1>2, GotoFacts
<1>4. /\ update[a].pc = "check"
      /\ UNCHANGED <<available, engineOn, known, seated, coming, raced, behind, late>>
  BY DEF CheckAvailable
<1>5. BotTypeOK'
  BY <1>1, <1>3, <1>4 DEF BotInv, BotTypeOK, Keep
<1>6. SyncInv'
  BY <1>3, <1>4, AfterSyncKeeps DEF BotInv, BotTypeOK
<1>7. SeatInv'
  <2>1. \A d \in Bots : Evicting(d) => Evicting(d)' \/ d \in available
    BY <1>1, <1>2, <1>3 DEF Evicting, Keep
  <2> QED
    BY <2>1, <1>4 DEF BotInv, BotTypeOK, SeatInv
<1> QED
  BY <1>1, <1>3, <1>4, <1>5, <1>6, <1>7, SyncHolds DEF Writing

LEMMA EvictBotHolds ==
  ASSUME BotInv, NEW a \in Admins, EvictBot(a)
  PROVE  BotInv'
<1>1. PICK b : b = update[a].bot
  OBVIOUS
<1>2. /\ update' \in [Admins -> Update]
      /\ update'[a].pc = "none" /\ update'[a].bot = b
      /\ Keep(a)
  BY <1>1, GotoFacts DEF EvictBot
<1>3. /\ update[a].pc = "evict"
      /\ seated' = seated \ {b} /\ late' = late \ {b}
      /\ UNCHANGED <<available, engineOn, known, coming, raced, behind>>
  BY <1>1 DEF EvictBot
<1>4. BotTypeOK'
  BY <1>2, <1>3 DEF BotInv, BotTypeOK, Keep
<1>5. SyncInv'
  BY <1>2, <1>3, AfterSyncKeeps DEF BotInv, BotTypeOK
<1>6. SeatInv'
  <2>1. \A d \in Bots : Evicting(d) => Evicting(d)' \/ d = b
    BY <1>1, <1>2 DEF Evicting, Keep
  <2> QED
    BY <2>1, <1>3 DEF BotInv, BotTypeOK, SeatInv
<1> QED
  BY <1>2, <1>3, <1>4, <1>5, <1>6, SyncHolds DEF Writing

LEMMA SyncFailsHolds ==
  ASSUME BotInv, NEW a \in Admins, SyncFails(a)
  PROVE  BotInv'
<1>1. PICK b : b = update[a].bot
  OBVIOUS
<1>2. /\ update' \in [Admins -> Update]
      /\ update'[a].pc = "none" /\ update'[a].bot = b
      /\ Keep(a)
  BY <1>1, GotoFacts DEF SyncFails
<1>3. /\ update[a].pc \in {"sync", "apply", "check", "evict"}
      /\ behind' = (behind \/ update[a].pc \in {"sync", "apply"})
      /\ late' = late \cup (seated \cap {b})
      /\ UNCHANGED <<available, engineOn, known, seated, coming, raced>>
  BY <1>1 DEF SyncFails
<1>4. behind' \in BOOLEAN
  BY <1>3 DEF BotInv, BotTypeOK
<1>5. BotTypeOK'
  BY <1>2, <1>3, <1>4 DEF BotInv, BotTypeOK, Keep
<1>6. SyncInv'
  BY <1>2, <1>3, AfterSyncKeeps
<1>7. SeatInv'
  <2>1. \A d \in Bots : Evicting(d) => Evicting(d)' \/ d = b
    BY <1>1, <1>2 DEF Evicting, Keep
  <2> QED
    BY <2>1, <1>3 DEF BotInv, BotTypeOK, SeatInv
<1> QED
  BY <1>2, <1>3, <1>5, <1>6, <1>7, SyncHolds DEF Writing

----------------------------------------------------------------------------
LEMMA SeatsHold ==
  ASSUME BotInv, NEW b \in Bots,
         InviteRead(b) \/ LobbyQueued(b) \/ TakesSeat(b) \/ Unseat(b)
  PROVE  BotInv'
<1>1. UNCHANGED <<available, engineOn, known, update, raced, behind>>
  BY DEF InviteRead, LobbyQueued, TakesSeat, Unseat
<1>2. /\ seated' \in SUBSET Bots /\ coming' \in SUBSET Bots /\ late' \in SUBSET Bots
      /\ \/ seated' \ late' \subseteq seated \ late
         \/ /\ b \in available
            /\ seated' \ late' \subseteq (seated \ late) \cup {b}
  BY DEF BotInv, BotTypeOK, InviteRead, LobbyQueued, TakesSeat, Unseat
<1>3. BotTypeOK' /\ DecidedInv'
  BY <1>1, <1>2 DEF BotInv, BotTypeOK, DecidedInv
<1>4. RaceInv'
  <2>1. \A a \in Admins : Writing(a)' <=> Writing(a)
    BY <1>1 DEF Writing
  <2> QED
    BY <2>1, <1>1 DEF BotInv, RaceInv
<1>5. SyncInv'
  <2>1. Coming' <=> Coming
    BY <1>1 DEF Coming
  <2> QED
    BY <2>1, <1>1 DEF BotInv, SyncInv
<1>6. SeatInv'
  <2>1. \A d \in Bots : Evicting(d)' <=> Evicting(d)
    BY <1>1 DEF Evicting
  <2> QED
    BY <2>1, <1>1, <1>2 DEF BotInv, SeatInv
<1> QED
  BY <1>3, <1>4, <1>5, <1>6 DEF BotInv

(* After a start of the core nothing is in flight there.                   *)
LEMMA CoreSyncsHolds ==
  ASSUME BotInv, CoreSyncs
  PROVE  BotInv'
<1>1. /\ known' = engineOn /\ seated' = {} /\ coming' = {} /\ behind' = FALSE /\ late' = {}
      /\ UNCHANGED <<available, engineOn, raced>>
  BY DEF CoreSyncs
<1>2. \A a \in Admins : update'[a] \in Update /\ update'[a].bot = update[a].bot
  BY DEF CoreSyncs, BotInv, BotTypeOK, Update
<1>3. update' \in [Admins -> Update]
  BY <1>2 DEF CoreSyncs
<1>4. \A a \in Admins : /\ Writing(a)' <=> Writing(a)
                        /\ Writing(a) => update'[a] = update[a]
                        /\ update'[a].pc # "apply"
  BY DEF CoreSyncs, BotInv, BotTypeOK, Update, Writing
<1>5. \A a \in Admins : /\ Writing(a)' => update'[a].pc = update[a].pc
                        /\ update'[a].pc = "write_engine" => Writing(a)'
                        /\ update[a].pc = "write_engine" => Writing(a)
  BY <1>4 DEF Writing
<1>6. BotTypeOK'
  BY <1>1, <1>3, <1>4, <1>5 DEF BotInv, BotTypeOK
<1>7. DecidedInv'
  BY <1>4 DEF BotInv, DecidedInv, Writing
<1>8. RaceInv'
  <2>1. \A x, y \in Admins :
          x # y /\ Writing(x)' /\ Writing(y)' /\ update'[x].bot = update'[y].bot
             => ~update'[x].alone
    BY <1>4 DEF BotInv, RaceInv
  <2>2. \A x \in Admins :
          /\ Writing(x)' /\ ~update'[x].alone => update'[x].bot \in raced'
          /\ update'[x].pc = "write_engine" /\ update'[x].alone =>
                (update'[x].enabled = "on" <=> update'[x].bot \in available')
    BY <1>1, <1>4, <1>5 DEF BotInv, RaceInv
  <2>3. \A d \in Bots \ raced' : d \in engineOn' =>
           \/ d \in available'
           \/ \E x \in Admins : update'[x].bot = d /\ update'[x].pc = "write_engine"
    BY <1>1, <1>4, <1>5 DEF BotInv, RaceInv
  <2> QED
    BY <2>1, <2>2, <2>3 DEF RaceInv
<1>9. SyncInv' /\ SeatInv'
  BY <1>1, <1>4 DEF SyncInv, SeatInv
<1> QED
  BY <1>6, <1>7, <1>8, <1>9 DEF BotInv

LEMMA StackStartsHolds ==
  ASSUME BotInv, StackStarts
  PROVE  BotInv'
<1>1. /\ known' = engineOn' /\ seated' = {} /\ coming' = {} /\ behind' = FALSE /\ late' = {}
      /\ \/ available' = {} /\ engineOn' = {} /\ raced' = {}
         \/ /\ raced' = raced \cup {update[a].bot : a \in {x \in Admins : update[x].pc = "write_engine"}}
            /\ UNCHANGED <<available, engineOn>>
  BY DEF StackStarts
<1>2. \A a \in Admins : update'[a] \in Update /\ update'[a].pc = "none"
  BY DEF StackStarts, BotInv, BotTypeOK, Update
<1>3. update' \in [Admins -> Update]
  BY <1>2 DEF StackStarts
<1>4. raced' \in SUBSET Bots
  BY <1>1 DEF BotInv, BotTypeOK, Update
<1>5. engineOn' \in SUBSET Bots
  BY <1>1 DEF BotInv, BotTypeOK
<1>6. BotTypeOK' /\ DecidedInv' /\ SyncInv' /\ SeatInv'
  BY <1>1, <1>2, <1>3, <1>4, <1>5 DEF BotTypeOK, DecidedInv, SyncInv, SeatInv
<1>7. \A d \in Bots \ raced' : d \in engineOn' => d \in available'
  BY <1>1 DEF BotInv, RaceInv
<1>8. RaceInv'
  BY <1>2, <1>7 DEF RaceInv, Writing
<1> QED
  BY <1>6, <1>8 DEF BotInv

----------------------------------------------------------------------------
LEMMA StepHolds == BotInv /\ [BotNext]_botState => BotInv'
<1> SUFFICES ASSUME BotInv, [BotNext]_botState PROVE BotInv'
  OBVIOUS
<1>1. CASE UNCHANGED botState
  <2>1. \A b \in Bots : Evicting(b)' <=> Evicting(b)
    BY <1>1 DEF Evicting, botState, botVars
  <2>2. \A a \in Admins : Writing(a)' <=> Writing(a)
    BY <1>1 DEF Writing, botState, botVars
  <2>3. Coming' <=> Coming
    BY <1>1 DEF Coming, botState, botVars
  <2>4. BotTypeOK' /\ DecidedInv' /\ SyncInv' /\ SeatInv'
    BY <1>1, <2>1, <2>3 DEF BotInv, BotTypeOK, DecidedInv, SyncInv, SeatInv, botState, botVars
  <2>5. RaceInv'
    BY <1>1, <2>2 DEF BotInv, RaceInv, botState, botVars
  <2> QED
    BY <2>4, <2>5 DEF BotInv
<1>2. CASE BotStep
  BY <1>2, BeginUpdateHolds, ReadEnabledHolds, ReadEngineHolds, WriteEnabledHolds,
     WriteEngineHolds, SyncReadHolds, SyncApplyHolds, CheckAvailableHolds, EvictBotHolds,
     UpdateFailsHolds, SyncFailsHolds, SeatsHold DEF BotStep, SyncStep
<1>3. CASE CoreSyncs
  BY <1>3, CoreSyncsHolds
<1>4. CASE StackStarts
  BY <1>4, StackStartsHolds
<1> QED
  BY <1>1, <1>2, <1>3, <1>4 DEF BotNext

LEMMA InvHolds == BotSpec => []BotInv
  BY InitHolds, StepHolds, PTL DEF BotSpec, botState

(* Updates and syncs under way keep their types, whatever order they run   *)
(* in.                                                                     *)
THEOREM BotTypeCorrect == BotSpec => []BotTypeOK
<1>1. BotInv => BotTypeOK
  BY DEF BotInv
<1> QED
  BY <1>1, InvHolds, PTL

(* BotService.update: once nobody writes its flags, a bot whose engine is  *)
(* on is enabled, unless two updates wrote them together or one failed     *)
(* half way since the last that was alone.                                 *)
THEOREM EnginesAreEnabled == BotSpec => []EngineNeedsEnabled
<1>1. BotInv => EngineNeedsEnabled
  BY DEF BotInv, RaceInv, EngineNeedsEnabled, Unwritten, Writing
<1> QED
  BY <1>1, InvHolds, PTL

(* BotEngine.sync: with no update running, the core's copy is the set in   *)
(* Redis, unless syncs crossed or one failed.                              *)
THEOREM CoreIsInStep == BotSpec => []CoreFollowsRedis
<1>1. BotInv => CoreFollowsRedis
  BY DEF BotInv, SyncInv, CoreFollowsRedis, Coming
<1> QED
  BY <1>1, InvHolds, PTL

(* SyncBot: with no update running, a disabled bot sits in no idle lobby,  *)
(* unless it took its seat after it was disabled or its eviction failed.   *)
THEOREM DisabledSitNowhere == BotSpec => []DisabledIsEvicted
<1>1. BotInv => DisabledIsEvicted
  BY DEF BotInv, SeatInv, Evicting, DisabledIsEvicted
<1> QED
  BY <1>1, InvHolds, PTL
=============================================================================
