------------------------- MODULE PokerStatesProofs -------------------------
(***************************************************************************)
(* Proofs about what the program reads in the states of PokerStates, for   *)
(* every hand that PokerTable plays.                                       *)
(*                                                                         *)
(* The parts prove that the chart answers the spot that hero is in         *)
(* (ContextIsTrue), that a stored state which misses nothing it is asked   *)
(* for is answered by the estimate (AcceptedIsSolvable), that the wagers   *)
(* the estimate works with are those of the hand, but for a reraise told   *)
(* by its open (WagersAreTrue), that the advice of the chart is allowed by *)
(* the rules (AdviceIsLegal), that what is told truly of the streets after *)
(* the flop (TrueHistoryIsAccepted) and of the wagers                      *)
(* (TrueWagersAreAccepted) passes the validators, where these do not fail  *)
(* themselves, and that the ranges a solve starts from are those of the    *)
(* hand (RangesFollowTheHand).                                             *)
(*                                                                         *)
(* None of them is an invariant of its own: each follows from TableInv,    *)
(* the last three from HandInv too, by a lemma about any state that has    *)
(* it.                                                                     *)
(* The states a reviewer may make of a hand are many, so IsPreflopView,    *)
(* IsStreetView and IsWholeView first say what they have in common; then   *)
(* each context of preflop_context.py, each source of wager_context.py,    *)
(* each policy of preflop_chart.py, each line of models.py and each pot of *)
(* postflop_ranges.py has a lemma.                                         *)
(***************************************************************************)
EXTENDS PokerStates, PokerTableProofs

-----------------------------------------------------------------------------
(***************************************************************************)
(* What a view of a decision shows                                         *)
(***************************************************************************)

Fields == DOMAIN Shown

Effective == Min({stack[seat] : seat \in live})

\* Whatever is left out, this is shown as it is.
IsView(s) ==
    /\ DOMAIN s = Fields
    /\ s.street = street
    /\ s.pot_size = pot
    /\ s.current_bet = AmountToCall
    /\ s.hero_stack \in {stack[Hero], None}
    /\ s.effective_stack = Effective
    /\ s.players_in_hand = Cardinality(live)
    /\ s.opponents_at_current_bet = None
    /\ s.opponent_wager = None
    /\ s.opponent_commitment_total = None
    /\ s.hero_position = Hero
    /\ s.facing_action = FacingAction
    /\ s.completed_postflop_streets = <<>>
    /\ s.action_context = None

\* The betting is on record, and the opener may be told besides.
IsRecorded(s) ==
    /\ s.preflop_action_history = log
    /\ \/ s.preflop_opener_position = None /\ s.preflop_open_size = None
       \/ /\ log # <<>> /\ log[1].action = "raise"
          /\ s.preflop_opener_position = log[1].actor
          /\ s.preflop_open_size \in {None, log[1].amount}

\* Only the first raise is told, with or without its size.
IsUnrecorded(s) ==
    /\ s.preflop_action_history = <<>>
    /\ IF RaisesMade = 0
       THEN s.preflop_opener_position = None /\ s.preflop_open_size = None
       ELSE /\ s.preflop_opener_position = FirstRaise.actor
            /\ s.preflop_open_size \in {None, FirstRaise.amount}

IsPreflopView(s) == IsView(s) /\ (IsRecorded(s) \/ IsUnrecorded(s))

\* The views of a decision before the flop are such views.
LEMMA PreflopViewsAreViews ==
    ASSUME NEW s \in PreflopViews
    PROVE  IsPreflopView(s)
<1>1. IsView(Shown) /\ IsRecorded(Shown) /\ Shown.hero_stack = stack[Hero]
  BY DEF IsView, IsRecorded, Shown, Fields, Effective
<1>2. {"street", "hero_cards", "board_cards", "pot_size", "current_bet", "hero_stack", "opponent_stack",
       "effective_stack", "players_in_hand", "opponents_at_current_bet", "opponent_wager",
       "opponent_commitment_total", "hero_position", "opponent_position",
       "preflop_opener_position", "preflop_open_size", "preflop_action_history", "facing_action",
       "postflop_action_history", "completed_postflop_streets", "action_context"} = Fields
  BY DEF Fields, Shown
<1> HIDE DEF Fields
<1>3. ASSUME NEW v \in OpenerFields(Shown) \union Unrecorded(Shown)
      PROVE  IsPreflopView(v)
  <2>1. CASE v = Shown
    BY <1>1, <2>1 DEF IsPreflopView
  <2>2. CASE log # <<>> /\ log[1].action = "raise"
             /\ v = [Shown EXCEPT !.preflop_opener_position = log[1].actor]
    <3>1. IsView(v)
      BY <1>1, <1>2, <2>2 DEF IsView
    <3>2. IsRecorded(v)
      BY <1>1, <1>2, <2>2 DEF IsView, IsRecorded, Shown
    <3> QED
      BY <3>1, <3>2 DEF IsPreflopView
  <2>3. CASE log # <<>> /\ log[1].action = "raise"
             /\ v = [Shown EXCEPT !.preflop_opener_position = log[1].actor,
                                  !.preflop_open_size = log[1].amount]
    <3>1. IsView(v)
      BY <1>1, <1>2, <2>3 DEF IsView
    <3>2. IsRecorded(v)
      BY <1>1, <1>2, <2>3 DEF IsView, IsRecorded, Shown
    <3> QED
      BY <3>1, <3>2 DEF IsPreflopView
  <2>4. CASE RaisesMade = 0 /\ v = [Shown EXCEPT !.preflop_action_history = <<>>]
    <3>1. IsView(v)
      BY <1>1, <1>2, <2>4 DEF IsView
    <3>2. IsUnrecorded(v)
      BY <1>1, <1>2, <2>4 DEF IsView, IsUnrecorded, Shown
    <3> QED
      BY <3>1, <3>2 DEF IsPreflopView
  <2>5. CASE RaisesMade # 0 /\ \E size \in {None, FirstRaise.amount} :
               v = [Shown EXCEPT !.preflop_action_history = <<>>,
                                 !.preflop_opener_position = FirstRaise.actor,
                                 !.preflop_open_size = size]
    <3>0. PICK size \in {None, FirstRaise.amount} :
               v = [Shown EXCEPT !.preflop_action_history = <<>>,
                                 !.preflop_opener_position = FirstRaise.actor,
                                 !.preflop_open_size = size]
      BY <2>5
    <3>1. IsView(v)
      BY <1>1, <1>2, <3>0 DEF IsView
    <3>2. IsUnrecorded(v)
      BY <1>1, <1>2, <2>5, <3>0 DEF IsView, IsUnrecorded
    <3> QED
      BY <3>1, <3>2 DEF IsPreflopView
  <2> QED
    BY <2>1, <2>2, <2>3, <2>4, <2>5 DEF OpenerFields, Unrecorded
<1>4. ASSUME NEW v, IsPreflopView(v)
      PROVE  IsPreflopView([v EXCEPT !.hero_stack = None])
  <2>1. DOMAIN v = Fields
    BY <1>4 DEF IsPreflopView, IsView
  <2>2. IsView([v EXCEPT !.hero_stack = None])
    BY <1>2, <1>4, <2>1 DEF IsPreflopView, IsView
  <2>3. IsRecorded(v) => IsRecorded([v EXCEPT !.hero_stack = None])
    BY <1>2, <2>1 DEF IsRecorded
  <2>4. IsUnrecorded(v) => IsUnrecorded([v EXCEPT !.hero_stack = None])
    BY <1>2, <2>1 DEF IsUnrecorded
  <2> QED
    BY <1>4, <2>2, <2>3, <2>4 DEF IsPreflopView
<1> QED
  BY <1>3, <1>4 DEF PreflopViews

-----------------------------------------------------------------------------
(***************************************************************************)
(* What the table tells of a decision before the flop                      *)
(***************************************************************************)

\* Who decides, against how many.
LEMMA DecisionFacts ==
    ASSUME TableInv, Decides
    PROVE  /\ TypeInv /\ Hero \in owes /\ Hero \in live /\ Hero \in Dealt
           /\ Dealt \subseteq 1 .. 6 /\ live \subseteq Dealt
           /\ Cardinality(live) \in 2 .. 6
           /\ stack[Hero] \in Nat /\ stack[Hero] > 0
           /\ put[Hero] \in Nat /\ wager \in Nat /\ put[Hero] <= wager /\ pot \in Nat
           /\ ToCall \in Nat
<1>1. /\ TypeInv /\ Hero \in owes /\ Hero \in live /\ Hero \in Dealt
      /\ live \subseteq Dealt /\ stack[Hero] > 0 /\ Cardinality(live) > 1
      /\ put \in [Dealt -> Nat] /\ stack \in [Dealt -> Nat] /\ wager \in Nat /\ pot \in Nat
      /\ put[Hero] <= wager
  BY DEF Decides, Acts, Hero, TableInv, TypeInv, ChipsInv
<1>2. Dealt \subseteq 1 .. 6
  BY <1>1, DealtFacts DEF TypeInv, Seats
<1>3. Cardinality(live) \in Nat /\ Cardinality(live) <= 6
  <2>1. 1 \in Int /\ 6 \in Int /\ 6 - 1 + 1 = 6 /\ ~ (1 > 6)
    OBVIOUS
  <2>2. IsFiniteSet(1 .. 6) /\ Cardinality(1 .. 6) = 6
    BY <2>1, FS_Interval, Zenon
  <2>3. live \in SUBSET (1 .. 6)
    BY <1>1, <1>2
  <2>4. IsFiniteSet(live) /\ Cardinality(live) <= 6
    BY <2>2, <2>3, FS_Subset
  <2> QED
    BY <2>4, FS_CardinalityType
<1> QED
  BY <1>1, <1>2, <1>3 DEF ToCall

\* No raise is made exactly if none is on record.
LEMMA RaisesFacts ==
    ASSUME TypeInv
    PROVE  /\ RaisesMade = 0 <=> Raised = {}
           /\ Raised \in SUBSET (1 .. Len(log)) /\ IsFiniteSet(Raised) /\ RaisesMade \in Nat
<1>1. Len(log) \in Nat /\ DOMAIN log = 1 .. Len(log)
  BY LogFacts
<1>2. Raised \in SUBSET (1 .. Len(log))
  BY <1>1 DEF Raised
<1>3. IsFiniteSet(1 .. Len(log))
  <2>1. 1 \in Int /\ Len(log) \in Int
    BY <1>1
  <2> QED
    BY <2>1, FS_Interval, Zenon
<1>4. IsFiniteSet(Raised)
  BY <1>2, <1>3, FS_Subset
<1> QED
  BY <1>2, <1>4, FS_EmptySet, FS_CardinalityType DEF RaisesMade

\* The first and the last raise, and what the last raiser has in.
LEMMA RaiserFacts ==
    ASSUME TableInv, Decides, street = "preflop", Raised # {}
    PROVE  /\ Min(Raised) \in Raised /\ \A i \in Raised : Min(Raised) <= i
           /\ Max(Raised) \in Raised /\ \A i \in Raised : i <= Max(Raised)
           /\ LastRaise.amount = wager /\ LastRaise.actor \in live /\ LastRaise.actor # Hero
           /\ put[LastRaise.actor] = wager /\ LastRaise.actor \notin owes
<1>1. TypeInv /\ Hero \in owes /\ live \subseteq Dealt
  BY DecisionFacts
<1>2. /\ Raised \in SUBSET (1 .. Len(log)) /\ IsFiniteSet(Raised)
      /\ Len(log) \in Nat /\ DOMAIN log = 1 .. Len(log)
  BY <1>1, RaisesFacts, LogFacts
<1>3. Raised \in SUBSET Nat /\ Raised \in SUBSET Int
  BY <1>2
<1>4. Min(Raised) \in Raised /\ \A i \in Raised : Min(Raised) <= i
  BY <1>3, MinIsLeast
<1>5. Max(Raised) \in Raised /\ \A i \in Raised : i <= Max(Raised)
  BY <1>2, <1>3, MaxIsGreatest
<1>6. LastRaise.amount = wager /\ LastRaise.actor \in live \ owes
  BY <1>5 DEF TableInv, WagerInv, LastRaise
<1>7. put[LastRaise.actor] = wager
  <2>1. Max(Raised) \in DOMAIN log
    BY <1>5 DEF Raised
  <2>2. LastRaise.amount <= put[LastRaise.actor]
    BY <2>1 DEF TableInv, BookInv, LastRaise
  <2>3. /\ put[LastRaise.actor] \in Nat /\ wager \in Nat
        /\ put[LastRaise.actor] <= wager
    BY <1>1, <1>6 DEF TableInv, TypeInv, ChipsInv
  <2> QED
    BY <1>6, <2>2, <2>3
<1> QED
  BY <1>1, <1>4, <1>5, <1>6, <1>7

\* What a seat has put in besides its blind.
Extra(seat) == IF seat \in Dealt THEN put[seat] - Posted[seat] ELSE 0

\* Before the flop the pot is the blinds and what was put in besides.
LEMMA PotFacts ==
    ASSUME TableInv, street = "preflop"
    PROVE  /\ \A seat \in 1 .. 6 : Extra(seat) \in Nat
           /\ pot = 150 + Extra(1) + Extra(2) + Extra(3) + Extra(4) + Extra(5) + Extra(6)
<1>1. /\ Dealt \subseteq 1 .. 6 /\ SmallBlind \in Dealt /\ BigBlind \in Dealt
      /\ \A seat \in Dealt : start[seat] \in Nat /\ Posted[seat] \in {0, 50, 100}
  BY DealtFacts DEF TableInv, TypeInv, Seats
<1>2. \A seat \in Dealt : /\ put[seat] \in Nat /\ stack[seat] \in Nat
                          /\ put[seat] + stack[seat] = start[seat] /\ put[seat] >= Posted[seat]
  BY DEF TableInv, TypeInv, ChipsInv
<1>3. \A seat \in 1 .. 6 : Extra(seat) \in Nat
  <2> TAKE seat \in 1 .. 6
  <2>1. CASE seat \in Dealt
    <3>1. put[seat] \in Nat /\ put[seat] >= Posted[seat] /\ Posted[seat] \in {0, 50, 100}
      BY <1>1, <1>2, <2>1
    <3> QED
      BY <2>1, <3>1 DEF Extra
  <2>2. CASE seat \notin Dealt
    BY <2>2 DEF Extra
  <2> QED
    BY <2>1, <2>2
<1>4. \A seat \in 1 .. 6 : Spent(seat) = Extra(seat) + Posted[seat]
  <2> TAKE seat \in 1 .. 6
  <2>1. CASE seat \in Dealt
    <3>1. /\ put[seat] \in Nat /\ stack[seat] \in Nat /\ Posted[seat] \in {0, 50, 100}
          /\ put[seat] + stack[seat] = start[seat]
      BY <1>1, <1>2, <2>1
    <3> QED
      BY <2>1, <3>1 DEF Extra, Spent
  <2>2. CASE seat \notin Dealt
    <3>1. seat # 5 /\ seat # 6
      BY <1>1, <2>2 DEF SmallBlind, BigBlind
    <3>2. Posted[seat] = 0
      BY <3>1 DEF Posted
    <3> QED
      BY <2>2, <3>2 DEF Extra, Spent
  <2> QED
    BY <2>1, <2>2
<1>5. pot = Spent(1) + Spent(2) + Spent(3) + Spent(4) + Spent(5) + Spent(6)
  BY DEF TableInv, ChipsInv
<1>6. \A seat \in 1 .. 6 : Extra(seat) \in Nat /\ Spent(seat) = Extra(seat) + Posted[seat]
  BY <1>3, <1>4
<1>7. /\ Posted[1] = 0 /\ Posted[2] = 0 /\ Posted[3] = 0 /\ Posted[4] = 0
      /\ Posted[5] = 50 /\ Posted[6] = 100
  BY DEF Posted
<1>8. pot = 150 + Extra(1) + Extra(2) + Extra(3) + Extra(4) + Extra(5) + Extra(6)
  <2>1. 1 \in 1 .. 6 /\ 2 \in 1 .. 6 /\ 3 \in 1 .. 6 /\ 4 \in 1 .. 6 /\ 5 \in 1 .. 6 /\ 6 \in 1 .. 6
    OBVIOUS
  <2> HIDE DEF Posted
  <2> QED
    BY <1>5, <1>6, <1>7, <2>1
<1> QED
  BY <1>3, <1>8

\* What three seats have put in besides their blinds is in the pot.
LEMMA PotHolds ==
    ASSUME TableInv, street = "preflop", NEW a \in Dealt, NEW b \in Dealt, NEW c \in Dealt
    PROVE  /\ Extra(a) \in Nat /\ pot >= 150 + Extra(a)
           /\ a # b => pot >= 150 + Extra(a) + Extra(b)
           /\ a # b /\ a # c /\ b # c => pot >= 150 + Extra(a) + Extra(b) + Extra(c)
<1>1. /\ \A seat \in 1 .. 6 : Extra(seat) \in Nat
      /\ pot = 150 + Extra(1) + Extra(2) + Extra(3) + Extra(4) + Extra(5) + Extra(6)
  BY PotFacts
<1>2. a \in 1 .. 6 /\ b \in 1 .. 6 /\ c \in 1 .. 6
  BY DealtFacts DEF TableInv, TypeInv, Seats
<1>3. /\ Extra(1) \in Nat /\ Extra(2) \in Nat /\ Extra(3) \in Nat
      /\ Extra(4) \in Nat /\ Extra(5) \in Nat /\ Extra(6) \in Nat
  BY <1>1
<1>4. Extra(a) \in Nat /\ pot >= 150 + Extra(a)
  BY <1>1, <1>2, <1>3
<1>5. a # b => pot >= 150 + Extra(a) + Extra(b)
  BY <1>1, <1>2, <1>3
<1>6. a # b /\ a # c /\ b # c => pot >= 150 + Extra(a) + Extra(b) + Extra(c)
  <2> SUFFICES ASSUME a # b, a # c, b # c
               PROVE  pot >= 150 + Extra(a) + Extra(b) + Extra(c)
    OBVIOUS
  <2>1. CASE a = 1
    BY <1>1, <1>2, <1>3, <2>1
  <2>2. CASE a = 2
    BY <1>1, <1>2, <1>3, <2>2
  <2>3. CASE a = 3
    BY <1>1, <1>2, <1>3, <2>3
  <2>4. CASE a = 4
    BY <1>1, <1>2, <1>3, <2>4
  <2>5. CASE a = 5
    BY <1>1, <1>2, <1>3, <2>5
  <2>6. CASE a = 6
    BY <1>1, <1>2, <1>3, <2>6
  <2> QED
    BY <1>2, <2>1, <2>2, <2>3, <2>4, <2>5, <2>6
<1> QED
  BY <1>4, <1>5, <1>6

\* A seat that is on record has put in half a big blind besides its blind, and
\* no less than any of its entries; with one entry only it has that in.
LEMMA EntryFacts ==
    ASSUME TableInv, street = "preflop", NEW i \in DOMAIN log
    PROVE  /\ log[i].actor \in Dealt /\ log[i].amount \in Nat /\ Posted[log[i].actor] \in {0, 50, 100}
           /\ put[log[i].actor] \in Nat /\ log[i].amount <= put[log[i].actor]
           /\ log[i].amount >= Posted[log[i].actor] + 50
           /\ Extra(log[i].actor) = put[log[i].actor] - Posted[log[i].actor]
           /\ Extra(log[i].actor) >= 50
           /\ i \in Raised => log[i].amount >= 200
           /\ (\A j \in DOMAIN log : log[j].actor = log[i].actor => j = i) =>
                put[log[i].actor] = log[i].amount
<1>1. log[i].actor \in Dealt /\ log[i].amount \in Nat
  BY LogFacts DEF TableInv
<1>2. Posted[log[i].actor] \in {0, 50, 100} /\ put[log[i].actor] \in Nat
  <2>1. start \in Profiles /\ put \in [Dealt -> Nat]
    BY DEF TableInv, TypeInv
  <2>2. \A seat \in Dealt : Posted[seat] \in {0, 50, 100} /\ put[seat] \in Nat
    BY <2>1, DealtFacts
  <2> QED
    BY <1>1, <2>2
<1>3. /\ log[i].amount >= Posted[log[i].actor] + 50
      /\ log[i].amount <= put[log[i].actor]
      /\ log[i].action = "raise" => log[i].amount >= 200
  BY DEF TableInv, BookInv
<1>4. Extra(log[i].actor) = put[log[i].actor] - Posted[log[i].actor]
  BY <1>1 DEF Extra
<1>5. Extra(log[i].actor) >= 50
  BY <1>1, <1>2, <1>3, <1>4
<1>6. ASSUME \A j \in DOMAIN log : log[j].actor = log[i].actor => j = i
      PROVE  put[log[i].actor] = log[i].amount
  <2>1. put[log[i].actor] # Posted[log[i].actor]
    BY <1>1, <1>2, <1>3
  <2>2. PICK j \in DOMAIN log : log[j].actor = log[i].actor /\ log[j].amount = put[log[i].actor]
    BY <1>1, <2>1 DEF TableInv, BookInv
  <2> QED
    BY <1>6, <2>2
<1> QED
  BY <1>1, <1>2, <1>3, <1>4, <1>5, <1>6 DEF Raised

-----------------------------------------------------------------------------
(***************************************************************************)
(* The contexts of the preflop chart                                       *)
(***************************************************************************)

\* The amount hero is asked for, and whether a raise is faced.
LEMMA CallFacts ==
    ASSUME TableInv, Decides, street = "preflop"
    PROVE  /\ AmountToCall \in Nat
           /\ log # <<>> => AmountToCall = wager - put[Hero]
           /\ log = <<>> => AmountToCall = 0 /\ Raised = {} /\ RaisesMade = 0
           /\ FacingAction = "raise" <=> Raised # {}
           /\ FacingAction = None <=> Raised = {}
<1>1. ToCall \in Nat /\ TypeInv
  BY DecisionFacts
<1>2. RaisesMade = 0 <=> Raised = {}
  BY <1>1, RaisesFacts
<1>3. RaisesMade \in Nat
  BY <1>1, RaisesFacts
<1>4. None # "raise"
  BY NoneAssumption
<1>5. log = <<>> => Raised = {}
  BY DEF Raised
<1> QED
  BY <1>1, <1>2, <1>3, <1>4, <1>5 DEF AmountToCall, ToCall, FacingAction

\* Where nobody has come in the scenario is the one of the seat, and a pot with
\* a limper in it is not the blinds alone.
LEMMA UnopenedIsTheSpot ==
    ASSUME TableInv, Decides, street = "preflop", NEW s, IsPreflopView(s),
           s.preflop_action_history = <<>>,
           UnopenedContext(s, Hero) # None
    PROVE  IsTheSpot(UnopenedContext(s, Hero))
<1>1. s.pot_size = pot /\ s.facing_action = FacingAction
  BY DEF IsPreflopView, IsView
<1>2. /\ s.facing_action = None /\ Known(s.pot_size, 0) \in BlindOnlyPot
      /\ UnopenedContext(s, Hero) =
            Context(IF Hero = BigBlind THEN "big_blind_option" ELSE "first_in", Hero)
  BY DEF UnopenedContext
<1>3. Raised = {}
  BY <1>1, <1>2, CallFacts
<1>4. pot \in Nat /\ pot <= 175
  <2>1. pot \in Nat
    BY DecisionFacts
  <2>2. pot # None
    BY <2>1, NoneAssumption
  <2> QED
    BY <1>1, <1>2, <2>1, <2>2 DEF Known, BlindOnlyPot
<1>5. log = <<>>
  <2> SUFFICES ASSUME log # <<>> PROVE FALSE
    OBVIOUS
  <2>1. 1 \in DOMAIN log
    <3>1. Len(log) \in Nat /\ DOMAIN log = 1 .. Len(log)
      BY LogFacts DEF TableInv
    <3>2. log \in Seq([actor : Dealt, action : {"call", "raise"}, amount : Nat])
      BY DEF TableInv, TypeInv
    <3>3. Len(log) # 0
      BY <3>2, EmptySeq
    <3> QED
      BY <3>1, <3>3
  <2>2. log[1].actor \in Dealt /\ Extra(log[1].actor) >= 50
    BY <2>1, EntryFacts
  <2>3. pot >= 150 + Extra(log[1].actor) /\ Extra(log[1].actor) \in Nat
    BY <2>2, PotHolds
  <2> QED
    BY <1>4, <2>2, <2>3
<1> DEFINE scenario == IF Hero = BigBlind THEN "big_blind_option" ELSE "first_in"
<1>6. /\ Context(scenario, Hero).scenario = scenario
      /\ Context(scenario, Hero).aggressor = None /\ Context(scenario, Hero).opener = None
      /\ Context(scenario, Hero).hero_prior = None /\ Context(scenario, Hero).three_bet = None
      /\ Context(scenario, Hero).isolation = None
  BY DEF Context
<1>7. ScenarioIsTrue(Context(scenario, Hero))
  <2>1. CASE Hero = BigBlind
    BY <1>5, <1>6, <2>1 DEF ScenarioIsTrue
  <2>2. CASE Hero # BigBlind
    BY <1>5, <1>6, <2>2 DEF ScenarioIsTrue
  <2> QED
    BY <2>1, <2>2
<1> QED
  BY <1>2, <1>6, <1>7 DEF IsTheSpot

\* The limpers are those on record.
LEMMA LimpedIsTheSpot ==
    ASSUME TableInv, Decides, street = "preflop", NEW s, IsPreflopView(s), IsRecorded(s),
           LimpedContext(s, Hero) # None
    PROVE  IsTheSpot(LimpedContext(s, Hero))
<1> DEFINE limpers == [i \in 1 .. Len(log) |-> log[i].actor]
           context == [Context("limped_big_blind", Hero) EXCEPT !.limpers = limpers]
<1>1. s.facing_action = FacingAction /\ s.preflop_action_history = log
  BY DEF IsPreflopView, IsView, IsRecorded
<1>2. s.facing_action = None /\ LimpedContext(s, Hero) = context
  BY <1>1 DEF LimpedContext, Actor
<1>3. Raised = {} /\ RaisesMade = 0
  <2>1. Raised = {}
    BY <1>1, <1>2, CallFacts
  <2> QED
    BY <2>1, RaisesFacts DEF TableInv
<1>4. /\ context.scenario = "limped_big_blind" /\ context.limpers = limpers
      /\ context.aggressor = None /\ context.opener = None
      /\ context.hero_prior = None /\ context.three_bet = None /\ context.isolation = None
  BY DEF Context
<1>5. limpers = [i \in DOMAIN log |-> log[i].actor]
  BY LogFacts DEF TableInv
<1> HIDE DEF context, limpers
<1>6. ScenarioIsTrue(context)
  BY <1>3, <1>4, <1>5 DEF ScenarioIsTrue
<1> QED
  BY <1>2, <1>4, <1>6 DEF IsTheSpot

\* Where only one seat has come in there is one entry: nobody acts twice in a row.
LEMMA OneSeatOneEntry ==
    ASSUME TableInv, street = "preflop", log # <<>>, NEW seat,
           \A i \in DOMAIN log : log[i].actor = seat
    PROVE  Len(log) = 1 /\ DOMAIN log = {1} /\ log[1].actor = seat
<1>1. Len(log) \in Nat /\ DOMAIN log = 1 .. Len(log)
  BY LogFacts DEF TableInv
<1>2. Len(log) # 0
  <2>1. log \in Seq([actor : Dealt, action : {"call", "raise"}, amount : Nat])
    BY DEF TableInv, TypeInv
  <2> QED
    BY <2>1, EmptySeq
<1>3. \A i \in 1 .. Len(log) - 1 : log[i].actor # log[i + 1].actor
  BY DEF TableInv, LapInv
<1>4. ~ (Len(log) > 1)
  <2> SUFFICES ASSUME Len(log) > 1 PROVE FALSE
    OBVIOUS
  <2>1. 1 \in 1 .. Len(log) - 1 /\ 1 \in DOMAIN log /\ 2 \in DOMAIN log /\ 1 + 1 = 2
    BY <1>1
  <2> QED
    BY <1>3, <2>1
<1>5. Len(log) = 1
  BY <1>1, <1>2, <1>4
<1>6. DOMAIN log = {1}
  BY <1>1, <1>5
<1> QED
  BY <1>5, <1>6

\* A log of one raise, as the contexts see it.
LEMMA OneRaiseFacts ==
    ASSUME TableInv, Decides, street = "preflop", DOMAIN log = {1}, 1 \in Raised
    PROVE  /\ [i \in DOMAIN log |-> log[i].action] = <<"raise">>
           /\ FirstRaise = log[1] /\ LastRaise = log[1] /\ log[1].amount = wager
           /\ log[1].actor # Hero /\ put[Hero] = Posted[Hero] /\ Posted[Hero] \in {0, 50, 100}
<1>1. Raised = {1} /\ log[1].action = "raise"
  BY DEF Raised
<1>2. FirstRaise = log[1] /\ LastRaise = log[1] /\ log[1].amount = wager /\ log[1].actor # Hero
  <2>1. Raised # {}
    BY <1>1
  <2>2. Min(Raised) = 1 /\ Max(Raised) = 1
    BY <1>1, <2>1, RaiserFacts
  <2> QED
    BY <2>1, <2>2, RaiserFacts DEF FirstRaise, LastRaise
<1>3. Hero \in Dealt /\ Posted[Hero] \in {0, 50, 100}
  BY DecisionFacts, DealtFacts DEF TypeInv
<1>4. put[Hero] = Posted[Hero]
  <2> SUFFICES ASSUME put[Hero] # Posted[Hero] PROVE FALSE
    OBVIOUS
  <2>1. \E i \in DOMAIN log : log[i].actor = Hero
    BY <1>3 DEF TableInv, BookInv
  <2> QED
    BY <1>2, <2>1
<1>5. [i \in DOMAIN log |-> log[i].action] = <<"raise">>
  <2>1. [i \in {1} |-> log[i].action] = <<"raise">>
    BY <1>1
  <2> QED
    BY <2>1
<1> QED
  BY <1>2, <1>3, <1>4, <1>5

\* Facing one open without a call is that spot.
LEMMA OpenIsTheSpot ==
    ASSUME TableInv, Decides, street = "preflop", DOMAIN log = {1}, 1 \in Raised
    PROVE  IsTheSpot(FacingOpen("facing_open_raise", Hero, log[1].actor, wager, <<>>))
<1> DEFINE context == FacingOpen("facing_open_raise", Hero, log[1].actor, wager, <<>>)
<1>1. /\ context.scenario = "facing_open_raise"
      /\ context.aggressor = log[1].actor /\ context.raise_size = wager
      /\ context.opener = log[1].actor /\ context.open_size = wager
      /\ context.hero_prior = None /\ context.three_bet = None /\ context.isolation = None
  BY DEF FacingOpen, FacingRaise, Context
<1> HIDE DEF context
<1>2. ScenarioIsTrue(context)
  BY <1>1, OneRaiseFacts DEF ScenarioIsTrue
<1> QED
  BY <1>1, <1>2, OneRaiseFacts DEF IsTheSpot, context

\* The pot that UnrecordedOpenContext asks for, where the opener has 2 big blinds
\* in and a later raiser the wager.
LEMMA RoomForNobody ==
    ASSUME NEW p \in Nat, NEW w \in Nat, NEW h \in Nat, NEW o \in Nat,
           NEW hb \in {0, 50, 100}, NEW rb \in {0, 50, 100}, NEW ob \in {0, 50, 100},
           o >= 200, h - hb \in Nat,
           p - (w - h) - hb + ob <= 175,
           p >= 150 + (o - ob) + (w - rb) + (h - hb)
    PROVE  FALSE
OBVIOUS

\* The same where hero has come in as well.
LEMMA RoomForHero ==
    ASSUME NEW p \in Nat, NEW w \in Nat, NEW h \in Nat,
           NEW hb \in {0, 50, 100}, NEW rb \in {0, 50, 100},
           h - hb >= 50, p - (w - h) - hb + rb <= 175,
           p >= 150 + (w - rb) + (h - hb)
    PROVE  FALSE
OBVIOUS

\* The same where another seat has come in as well.
LEMMA RoomForAnother ==
    ASSUME NEW p \in Nat, NEW w \in Nat, NEW h \in Nat, NEW x \in Nat,
           NEW hb \in {0, 50, 100}, NEW rb \in {0, 50, 100},
           h - hb \in Nat, x >= 50, p - (w - h) - hb + rb <= 175,
           p >= 150 + (w - rb) + (h - hb) + x
    PROVE  FALSE
OBVIOUS

\* One open told by its seat alone: the pot has no room for anybody else.
LEMMA UnrecordedIsTheSpot ==
    ASSUME TableInv, Decides, street = "preflop", NEW s, IsPreflopView(s),
           s.preflop_action_history = <<>>, AmountToCall > 0, s.facing_action = "raise",
           UnrecordedOpenContext(s, Hero) # None
    PROVE  IsTheSpot(UnrecordedOpenContext(s, Hero))
<1> DEFINE opener == s.preflop_opener_position
           size == Known(s.preflop_open_size, AmountToCall + Posted[Hero])
<1>1. s.pot_size = pot /\ s.facing_action = FacingAction /\ s.action_context = None
      /\ s.current_bet = AmountToCall
  BY DEF IsPreflopView, IsView
<1>2. Raised # {} /\ log # <<>> /\ AmountToCall = wager - put[Hero] /\ AmountToCall \in Nat
  BY <1>1, CallFacts
<1>3. /\ opener = FirstRaise.actor /\ s.preflop_open_size \in {None, FirstRaise.amount}
  <2>1. RaisesMade # 0
    BY <1>2, RaisesFacts DEF TableInv
  <2>2. IsUnrecorded(s)
    BY <1>2 DEF IsPreflopView, IsRecorded
  <2> QED
    BY <2>1, <2>2 DEF IsUnrecorded
<1>4. /\ Hero \in Dealt /\ put[Hero] \in Nat /\ wager \in Nat /\ pot \in Nat
      /\ Posted[Hero] \in {0, 50, 100} /\ Extra(Hero) = put[Hero] - Posted[Hero]
      /\ Extra(Hero) \in Nat
  <2>1. Hero \in Dealt /\ put[Hero] \in Nat /\ wager \in Nat /\ pot \in Nat
    BY DecisionFacts
  <2> QED
    BY <2>1, DealtFacts, PotHolds DEF TableInv, TypeInv, Extra
<1> DEFINE r == LastRaise.actor
<1>5. /\ Min(Raised) \in DOMAIN log /\ Max(Raised) \in DOMAIN log
      /\ Min(Raised) \in Raised /\ Max(Raised) \in Raised
      /\ LastRaise.amount = wager /\ r # Hero /\ put[r] = wager
  BY <1>2, RaiserFacts DEF Raised
<1>6. /\ r \in Dealt /\ Posted[r] \in {0, 50, 100} /\ Extra(r) = wager - Posted[r]
      /\ opener \in Dealt /\ FirstRaise.amount \in Nat
      /\ Posted[opener] \in {0, 50, 100} /\ put[opener] >= 200 /\ put[opener] \in Nat
      /\ Extra(opener) = put[opener] - Posted[opener]
  <2>1. /\ log[Max(Raised)].actor \in Dealt /\ Posted[log[Max(Raised)].actor] \in {0, 50, 100}
        /\ Extra(log[Max(Raised)].actor) = put[log[Max(Raised)].actor] - Posted[log[Max(Raised)].actor]
    BY <1>5, EntryFacts
  <2>2. /\ log[Min(Raised)].actor \in Dealt /\ Posted[log[Min(Raised)].actor] \in {0, 50, 100}
        /\ log[Min(Raised)].amount \in Nat /\ log[Min(Raised)].amount >= 200
        /\ log[Min(Raised)].amount <= put[log[Min(Raised)].actor]
        /\ put[log[Min(Raised)].actor] \in Nat
        /\ Extra(log[Min(Raised)].actor) = put[log[Min(Raised)].actor] - Posted[log[Min(Raised)].actor]
    BY <1>5, EntryFacts
  <2>3. put[log[Min(Raised)].actor] >= 200
    BY <2>2
  <2> QED
    BY <1>3, <1>5, <2>1, <2>2, <2>3 DEF FirstRaise, LastRaise
<1>7. /\ opener # None /\ Known(s.pot_size, 0) = pot
  <2>1. opener \in 1 .. 6
    BY <1>6, DecisionFacts
  <2> HIDE DEF opener
  <2> QED
    BY <1>1, <1>4, <2>1, NoneAssumption DEF Known
<1>8. /\ opener < Hero /\ Near(size, AmountToCall + Posted[Hero])
      /\ pot - AmountToCall - Posted[Hero] + Posted[opener] \in BlindOnlyPot
      /\ UnrecordedOpenContext(s, Hero) = FacingOpen("facing_open_raise", Hero, opener, size, <<>>)
  BY <1>1, <1>7 DEF UnrecordedOpenContext, Known
<1>9. pot - (wager - put[Hero]) - Posted[Hero] + Posted[opener] <= 175
  <2>1. pot - AmountToCall - Posted[Hero] + Posted[opener] \in 125 .. 175
    BY <1>8 DEF BlindOnlyPot
  <2> DEFINE e == pot - AmountToCall - Posted[Hero] + Posted[opener]
  <2>2. Posted[opener] \in Int /\ Posted[Hero] \in Int /\ pot \in Int /\ AmountToCall \in Int
    BY <1>2, <1>4, <1>6
  <2>3. e <= 175
    <3>1. e \in Int
      BY <2>2
    <3>2. e \in 125 .. 175
      BY <2>1
    <3> HIDE DEF e
    <3> QED
      BY <3>1, <3>2
  <2> QED
    BY <1>2, <2>3 DEF e
<1>10. opener # Hero
  <2>1. Hero \in 1 .. 6
    BY DecisionFacts
  <2> QED
    BY <1>8, <2>1
<1>11. opener = r
  <2> SUFFICES ASSUME opener # r PROVE FALSE
    OBVIOUS
  <2>1. pot >= 150 + Extra(opener) + Extra(r) + Extra(Hero)
    BY <1>4, <1>5, <1>6, <1>10, PotHolds
  <2> DEFINE o == put[opener] h == put[Hero]
             ob == Posted[opener] hb == Posted[Hero] rb == Posted[r]
  <2>2. /\ o \in Nat /\ h \in Nat /\ ob \in {0, 50, 100} /\ hb \in {0, 50, 100} /\ rb \in {0, 50, 100}
        /\ o >= 200 /\ h - hb \in Nat
    BY <1>4, <1>6
  <2>3. pot - (wager - h) - hb + ob <= 175
    BY <1>9
  <2>4. pot >= 150 + (o - ob) + (wager - rb) + (h - hb)
    BY <1>4, <1>6, <2>1
  <2>5. pot \in Nat /\ wager \in Nat
    BY <1>4
  <2> HIDE DEF o, h, ob, hb, rb
  <2> QED
    BY <2>2, <2>3, <2>4, <2>5, RoomForNobody
<1>12. \A i \in DOMAIN log : log[i].actor = r
  <2> SUFFICES ASSUME NEW i \in DOMAIN log, log[i].actor # r PROVE FALSE
    OBVIOUS
  <2>1. log[i].actor \in Dealt /\ Extra(log[i].actor) >= 50
    BY EntryFacts
  <2>2. CASE log[i].actor = Hero
    <3>1. pot >= 150 + Extra(r) + Extra(Hero)
      BY <1>4, <1>5, <1>6, PotHolds
    <3>2. Extra(Hero) >= 50
      BY <2>1, <2>2
    <3>3. Posted[opener] = Posted[r]
      BY <1>11
    <3> DEFINE h == put[Hero] hb == Posted[Hero] rb == Posted[r]
    <3>4. h \in Nat /\ hb \in {0, 50, 100} /\ rb \in {0, 50, 100} /\ pot \in Nat /\ wager \in Nat
      BY <1>4, <1>6
    <3>5. h - hb >= 50 /\ pot >= 150 + (wager - rb) + (h - hb)
      BY <1>4, <1>6, <3>1, <3>2
    <3>6. pot - (wager - h) - hb + rb <= 175
      BY <1>9, <3>3
    <3> HIDE DEF h, hb, rb
    <3> QED
      BY <3>4, <3>5, <3>6, RoomForHero
  <2>3. CASE log[i].actor # Hero
    <3>1. /\ pot >= 150 + Extra(r) + Extra(Hero) + Extra(log[i].actor)
          /\ Extra(log[i].actor) \in Nat
      BY <1>4, <1>5, <1>6, <2>1, <2>3, PotHolds
    <3>2. Posted[opener] = Posted[r]
      BY <1>11
    <3> DEFINE extra == Extra(log[i].actor)
    <3>3. extra >= 50 /\ pot >= 150 + Extra(r) + Extra(Hero) + extra /\ extra \in Nat
      BY <2>1, <3>1
    <3> DEFINE h == put[Hero] hb == Posted[Hero] rb == Posted[r]
    <3>4. /\ h \in Nat /\ hb \in {0, 50, 100} /\ rb \in {0, 50, 100} /\ pot \in Nat /\ wager \in Nat
          /\ h - hb \in Nat
      BY <1>4, <1>6
    <3>5. pot >= 150 + (wager - rb) + (h - hb) + extra
      <4> HIDE DEF extra
      <4> QED
        BY <1>4, <1>6, <3>3
    <3>6. pot - (wager - h) - hb + rb <= 175
      BY <1>9, <3>2
    <3> HIDE DEF h, hb, rb, extra
    <3> QED
      BY <3>3, <3>4, <3>5, <3>6, RoomForAnother
  <2> QED
    BY <2>2, <2>3
<1>13. DOMAIN log = {1} /\ log[1].actor = r
  <2> HIDE DEF r
  <2> QED
    BY <1>2, <1>12, OneSeatOneEntry
<1>14. 1 \in Raised
  BY <1>2, <1>13 DEF Raised
<1>15. FirstRaise = log[1] /\ log[1].amount = wager /\ put[Hero] = Posted[Hero]
  BY <1>13, <1>14, OneRaiseFacts
<1>16. size = wager
  <2>1. CASE s.preflop_open_size = None
    <3>1. size = AmountToCall + Posted[Hero]
      BY <2>1 DEF Known
    <3> HIDE DEF size
    <3> QED
      BY <1>2, <1>4, <1>15, <3>1
  <2>2. CASE s.preflop_open_size # None
    BY <1>3, <1>15, <2>2 DEF Known
  <2> QED
    BY <2>1, <2>2
<1>17. opener = log[1].actor
  BY <1>11, <1>13
<1>18. IsTheSpot(FacingOpen("facing_open_raise", Hero, log[1].actor, wager, <<>>))
  BY <1>13, <1>14, OpenIsTheSpot
<1> QED
  BY <1>8, <1>16, <1>17, <1>18

-----------------------------------------------------------------------------
(***************************************************************************)
(* The contexts that are read from the record                              *)
(***************************************************************************)

\* What the entries of a log of two or three are, as sequences.
LEMMA KindsOfTwo ==
    ASSUME DOMAIN log = {1, 2}
    PROVE  [i \in DOMAIN log |-> log[i].action] = <<log[1].action, log[2].action>>
<1>1. [i \in {1, 2} |-> log[i].action] = <<log[1].action, log[2].action>>
  OBVIOUS
<1> QED
  BY <1>1

\* The same for three.
LEMMA KindsOfThree ==
    ASSUME DOMAIN log = {1, 2, 3}
    PROVE  [i \in DOMAIN log |-> log[i].action] = <<log[1].action, log[2].action, log[3].action>>
<1>1. [i \in {1, 2, 3} |-> log[i].action] = <<log[1].action, log[2].action, log[3].action>>
  OBVIOUS
<1> QED
  BY <1>1

\* What a recorded view shows of the betting, and how many entries there are.
LEMMA RecordFactsOf ==
    ASSUME TableInv, NEW s, IsRecorded(s)
    PROVE  /\ s.preflop_action_history = log
           /\ Len(log) \in Nat /\ DOMAIN log = 1 .. Len(log)
           /\ \A i : /\ Actor(s, i) = log[i].actor /\ Amount(s, i) = log[i].amount
                     /\ Calls(s, i) <=> log[i].action = "call"
                     /\ Raises(s, i) <=> log[i].action = "raise"
           /\ \A i \in DOMAIN log : /\ log[i].action \in {"call", "raise"}
                                    /\ i \in Raised <=> log[i].action = "raise"
                                    /\ log[i].actor \in 1 .. 6
<1>1. TypeInv
  BY DEF TableInv
<1>2. \A i \in DOMAIN log : log[i].actor \in 1 .. 6
  BY <1>1, LogFacts, DealtFacts DEF TypeInv, Seats
<1> QED
  BY <1>1, <1>2, LogFacts DEF IsRecorded, Actor, Amount, Calls, Raises, Raised

\* The last entry, when it is a raise, is the wager and its seat the last to raise.
LEMMA LastEntryRaises ==
    ASSUME TableInv, Decides, street = "preflop", Len(log) \in Raised
    PROVE  LastRaise = log[Len(log)] /\ log[Len(log)].amount = wager
<1>1. Raised \in SUBSET (1 .. Len(log)) /\ Len(log) \in Nat
  BY RaisesFacts, LogFacts DEF TableInv
<1>2. Raised # {}
  OBVIOUS
<1>3. Max(Raised) \in Raised /\ \A i \in Raised : i <= Max(Raised)
  BY <1>2, RaiserFacts
<1>4. Max(Raised) = Len(log)
  <2> DEFINE m == Max(Raised)
  <2>1. m \in 1 .. Len(log) /\ Len(log) <= m
    BY <1>1, <1>3
  <2> HIDE DEF m
  <2> QED
    BY <1>1, <2>1 DEF m
<1> QED
  BY <1>2, <1>4, RaiserFacts DEF LastRaise

\* The first raise on record.
LEMMA FirstEntryRaises ==
    ASSUME TableInv, Decides, street = "preflop", 1 \in Raised
    PROVE  FirstRaise = log[1]
<1>1. Raised \in SUBSET (1 .. Len(log)) /\ Len(log) \in Nat
  BY RaisesFacts, LogFacts DEF TableInv
<1>2. Min(Raised) \in Raised /\ \A i \in Raised : Min(Raised) <= i
  BY RaiserFacts
<1>3. Min(Raised) = 1
  <2> DEFINE m == Min(Raised)
  <2>1. m \in 1 .. Len(log) /\ m <= 1
    BY <1>1, <1>2
  <2> HIDE DEF m
  <2> QED
    BY <1>1, <2>1 DEF m
<1> QED
  BY <1>3 DEF FirstRaise

\* What hero has in is the one entry that hero has.
LEMMA HeroEntry ==
    ASSUME TableInv, street = "preflop", NEW i \in DOMAIN log, log[i].actor = Hero,
           \A j \in DOMAIN log : j # i => log[j].actor # Hero
    PROVE  put[Hero] = log[i].amount
<1>1. \A j \in DOMAIN log : log[j].actor = log[i].actor => j = i
  OBVIOUS
<1> QED
  BY <1>1, EntryFacts

\* A single open on record.
LEMMA OpenContextIsTheSpot ==
    ASSUME TableInv, Decides, street = "preflop", NEW s, IsPreflopView(s), IsRecorded(s),
           Len(log) = 1, ~ Calls(s, 1), OpenContext(s, Hero) # None
    PROVE  IsTheSpot(OpenContext(s, Hero))
<1>1. /\ DOMAIN log = 1 .. 1 /\ Actor(s, 1) = log[1].actor /\ Amount(s, 1) = log[1].amount
      /\ 1 \in DOMAIN log /\ 1 \in Raised
  BY RecordFactsOf
<1>2. DOMAIN log = {1}
  BY <1>1
<1>3. log[1].amount = wager
  BY <1>1, <1>2, OneRaiseFacts
<1>4. OpenContext(s, Hero) = FacingOpen("facing_open_raise", Hero, log[1].actor, wager, <<>>)
  BY <1>1, <1>3 DEF OpenContext
<1> QED
  BY <1>1, <1>2, <1>4, OpenIsTheSpot

\* An open and its callers.
LEMMA CallersContextIsTheSpot ==
    ASSUME TableInv, Decides, street = "preflop", NEW s, IsPreflopView(s), IsRecorded(s),
           Len(log) > 1, ~ Calls(s, 1), CallersContext(s, Hero) # None
    PROVE  IsTheSpot(CallersContext(s, Hero))
<1> DEFINE callers == [i \in 1 .. Len(log) - 1 |-> log[i + 1].actor]
           context == FacingOpen("facing_open_with_callers", Hero, log[1].actor, log[1].amount, callers)
           kinds == [i \in DOMAIN log |-> log[i].action]
           seats == [i \in DOMAIN log |-> log[i].actor]
<1>1. /\ s.preflop_action_history = log /\ Len(log) \in Nat /\ DOMAIN log = 1 .. Len(log)
      /\ \A i : /\ Actor(s, i) = log[i].actor /\ Amount(s, i) = log[i].amount
                /\ Calls(s, i) <=> log[i].action = "call"
      /\ \A i \in DOMAIN log : /\ log[i].action \in {"call", "raise"}
                               /\ i \in Raised <=> log[i].action = "raise"
  BY RecordFactsOf
<1>2. (\A i \in 2 .. Len(log) : Calls(s, i)) /\ CallersContext(s, Hero) = context
  BY <1>1 DEF CallersContext
<1>3. 1 \in DOMAIN log /\ 1 \in Raised /\ log[1].action = "raise"
  BY <1>1
<1>4. \A i \in DOMAIN log : log[i].action = IF i = 1 THEN "raise" ELSE "call"
  BY <1>1, <1>2, <1>3
<1>5. Raised = {1}
  BY <1>1, <1>3, <1>4 DEF Raised
<1>6. FirstRaise = log[1] /\ LastRaise = log[1] /\ log[1].amount = wager
  <2>1. Raised # {}
    BY <1>5
  <2>2. Min(Raised) = 1 /\ Max(Raised) = 1
    BY <1>5, <2>1, RaiserFacts
  <2> QED
    BY <2>1, <2>2, RaiserFacts DEF FirstRaise, LastRaise
<1>7. /\ context.scenario = "facing_open_with_callers" /\ context.callers = callers
      /\ context.aggressor = log[1].actor /\ context.raise_size = log[1].amount
      /\ context.opener = log[1].actor /\ context.open_size = log[1].amount
      /\ context.hero_prior = None /\ context.three_bet = None /\ context.isolation = None
  BY DEF FacingOpen, FacingRaise, Context
<1>8. kinds = [i \in DOMAIN log |-> IF i = 1 THEN "raise" ELSE "call"]
  BY <1>4
<1>9. callers = Tail(seats)
  <2>1. seats \in [1 .. Len(log) -> {seats[i] : i \in 1 .. Len(log)}]
    BY <1>1
  <2>2. seats \in Seq({seats[i] : i \in 1 .. Len(log)}) /\ Len(seats) = Len(log)
    BY <1>1, <2>1
  <2>3. Tail(seats) = [i \in 1 .. Len(seats) - 1 |-> seats[i + 1]]
    BY <2>2
  <2>4. \A i \in 1 .. Len(log) - 1 : seats[i + 1] = log[i + 1].actor
    BY <1>1
  <2> HIDE DEF seats
  <2> QED
    BY <2>2, <2>3, <2>4
<1> HIDE DEF context, callers
<1>10. ScenarioIsTrue(context)
  BY <1>7, <1>8, <1>9 DEF ScenarioIsTrue
<1> QED
  BY <1>2, <1>6, <1>7, <1>10 DEF IsTheSpot

\* Two entries of which the second is a raise.
LEMMA SecondRaises ==
    ASSUME TableInv, Decides, street = "preflop", Len(log) = 2, 2 \in Raised
    PROVE  /\ DOMAIN log = {1, 2}
           /\ LastRaise = log[2] /\ log[2].amount = wager
           /\ [i \in DOMAIN log |-> log[i].action] = <<log[1].action, "raise">>
           /\ log[1].actor = Hero => put[Hero] = log[1].amount
<1>1. DOMAIN log = 1 .. Len(log)
  BY LogFacts DEF TableInv
<1>2. DOMAIN log = {1, 2}
  BY <1>1
<1>3. LastRaise = log[2] /\ log[2].amount = wager
  BY LastEntryRaises
<1>4. log[2].action = "raise"
  BY DEF Raised
<1>5. log[2].actor # Hero
  BY <1>3, RaiserFacts
<1>6. ASSUME log[1].actor = Hero
      PROVE  put[Hero] = log[1].amount
  <2>1. 1 \in DOMAIN log /\ \A j \in DOMAIN log : j # 1 => log[j].actor # Hero
    BY <1>2, <1>5
  <2> QED
    BY <1>6, <2>1, HeroEntry
<1> QED
  BY <1>2, <1>3, <1>4, <1>6, KindsOfTwo

\* Three entries, hero's among two others, of which the last is a raise.
LEMMA ThirdRaises ==
    ASSUME TableInv, Decides, street = "preflop", Len(log) = 3, 3 \in Raised,
           log[2].actor = Hero
    PROVE  /\ DOMAIN log = {1, 2, 3}
           /\ LastRaise = log[3] /\ log[3].amount = wager
           /\ [i \in DOMAIN log |-> log[i].action] = <<log[1].action, log[2].action, "raise">>
           /\ put[Hero] = log[2].amount
<1>1. DOMAIN log = 1 .. Len(log)
  BY LogFacts DEF TableInv
<1>2. DOMAIN log = {1, 2, 3}
  BY <1>1
<1>3. LastRaise = log[3] /\ log[3].amount = wager
  BY LastEntryRaises
<1>4. log[3].action = "raise"
  BY DEF Raised
<1>5. log[3].actor # Hero
  BY <1>3, RaiserFacts
<1>6. log[1].actor # Hero
  <2>1. 1 \in 1 .. Len(log) - 1 /\ 1 + 1 = 2
    OBVIOUS
  <2>2. log[1].actor # log[1 + 1].actor
    BY <2>1 DEF TableInv, LapInv
  <2> QED
    BY <2>1, <2>2
<1>7. put[Hero] = log[2].amount
  <2>1. 2 \in DOMAIN log /\ \A j \in DOMAIN log : j # 2 => log[j].actor # Hero
    BY <1>2, <1>5, <1>6
  <2> QED
    BY <2>1, HeroEntry
<1> QED
  BY <1>2, <1>3, <1>4, <1>7, KindsOfThree

\* A squeeze behind hero's call of an open.
LEMMA SqueezeContextIsTheSpot ==
    ASSUME TableInv, Decides, street = "preflop", NEW s, IsPreflopView(s), IsRecorded(s),
           Len(log) = 3, ~ Calls(s, 1), Calls(s, 2), Raises(s, 3), SqueezeContext(s, Hero) # None
    PROVE  IsTheSpot(SqueezeContext(s, Hero))
<1> DEFINE context == [FacingRaise("facing_squeeze_after_call", Hero, log[3].actor, log[3].amount) EXCEPT
                          !.opener = log[1].actor, !.open_size = log[1].amount,
                          !.hero_prior = log[2].amount]
<1>1. /\ DOMAIN log = 1 .. 3
      /\ \A i : /\ Actor(s, i) = log[i].actor /\ Amount(s, i) = log[i].amount
                /\ Calls(s, i) <=> log[i].action = "call"
                /\ Raises(s, i) <=> log[i].action = "raise"
      /\ \A i \in DOMAIN log : /\ log[i].action \in {"call", "raise"}
                               /\ i \in Raised <=> log[i].action = "raise"
  BY RecordFactsOf
<1>2. SqueezeContext(s, Hero) = context /\ log[2].actor = Hero
  BY <1>1 DEF SqueezeContext
<1>3. 1 \in Raised /\ 3 \in Raised /\ log[1].action = "raise" /\ log[2].action = "call"
  BY <1>1
<1>4. /\ context.scenario = "facing_squeeze_after_call"
      /\ context.aggressor = log[3].actor /\ context.raise_size = log[3].amount
      /\ context.opener = log[1].actor /\ context.open_size = log[1].amount
      /\ context.hero_prior = log[2].amount
      /\ context.three_bet = None /\ context.isolation = None
  BY DEF FacingRaise, Context
<1> HIDE DEF context
<1>5. ScenarioIsTrue(context)
  BY <1>2, <1>3, <1>4, ThirdRaises DEF ScenarioIsTrue
<1> QED
  BY <1>2, <1>3, <1>4, <1>5, ThirdRaises, FirstEntryRaises DEF IsTheSpot

\* A 4-bet of hero's 3-bet, by the opener or by a later seat.
LEMMA FourBetContextIsTheSpot ==
    ASSUME TableInv, Decides, street = "preflop", NEW s, IsPreflopView(s), IsRecorded(s),
           Len(log) = 3, ~ Calls(s, 1), ~ Calls(s, 2), FourBetContext(s, Hero) # None
    PROVE  IsTheSpot(FourBetContext(s, Hero))
<1> DEFINE scenario == IF log[3].actor # log[1].actor THEN "facing_cold_four_bet" ELSE "facing_four_bet"
           context == [FacingRaise(scenario, Hero, log[3].actor, log[3].amount) EXCEPT
                          !.opener = log[1].actor, !.open_size = log[1].amount,
                          !.three_bet = log[2].amount]
<1>1. /\ DOMAIN log = 1 .. 3
      /\ \A i : /\ Actor(s, i) = log[i].actor /\ Amount(s, i) = log[i].amount
                /\ Calls(s, i) <=> log[i].action = "call"
                /\ Raises(s, i) <=> log[i].action = "raise"
      /\ \A i \in DOMAIN log : /\ log[i].action \in {"call", "raise"}
                               /\ i \in Raised <=> log[i].action = "raise"
  BY RecordFactsOf
<1>2. FourBetContext(s, Hero) = context /\ log[2].actor = Hero /\ Raises(s, 3)
  <2>1. /\ Actor(s, 1) = log[1].actor /\ Actor(s, 2) = log[2].actor /\ Actor(s, 3) = log[3].actor
        /\ Amount(s, 1) = log[1].amount /\ Amount(s, 2) = log[2].amount
        /\ Amount(s, 3) = log[3].amount
    BY <1>1
  <2>2. log[2].actor = Hero /\ Raises(s, 3)
    BY <2>1 DEF FourBetContext
  <2>3. CASE log[3].actor # log[1].actor
    BY <2>1, <2>3 DEF FourBetContext
  <2>4. CASE log[3].actor = log[1].actor
    BY <2>1, <2>4 DEF FourBetContext
  <2> QED
    BY <2>2, <2>3, <2>4
<1>3. /\ 1 \in Raised /\ 3 \in Raised /\ log[1].action = "raise" /\ log[2].action = "raise"
  BY <1>1, <1>2
<1>4. /\ context.scenario = scenario
      /\ context.aggressor = log[3].actor /\ context.raise_size = log[3].amount
      /\ context.opener = log[1].actor /\ context.open_size = log[1].amount
      /\ context.three_bet = log[2].amount
      /\ context.hero_prior = None /\ context.isolation = None
  BY DEF FacingRaise, Context
<1> HIDE DEF context
<1>5. ScenarioIsTrue(context)
  <2>1. CASE log[3].actor # log[1].actor
    BY <1>2, <1>3, <1>4, <2>1, ThirdRaises DEF ScenarioIsTrue
  <2>2. CASE log[3].actor = log[1].actor
    BY <1>2, <1>3, <1>4, <2>2, ThirdRaises DEF ScenarioIsTrue
  <2> QED
    BY <2>1, <2>2
<1> QED
  BY <1>2, <1>3, <1>4, <1>5, ThirdRaises, FirstEntryRaises DEF IsTheSpot

\* A 3-bet of hero's open, or one before hero has acted.
LEMMA ThreeBetContextIsTheSpot ==
    ASSUME TableInv, Decides, street = "preflop", NEW s, IsPreflopView(s), IsRecorded(s),
           Len(log) = 2, ~ Calls(s, 1), ~ Calls(s, 2), ThreeBetContext(s, Hero) # None
    PROVE  IsTheSpot(ThreeBetContext(s, Hero))
<1> DEFINE scenario == IF log[1].actor = Hero THEN "facing_three_bet" ELSE "facing_cold_three_bet"
           context == [FacingRaise(scenario, Hero, log[2].actor, log[2].amount) EXCEPT
                          !.opener = log[1].actor, !.open_size = log[1].amount]
<1>1. /\ DOMAIN log = 1 .. 2
      /\ \A i : /\ Actor(s, i) = log[i].actor /\ Amount(s, i) = log[i].amount
                /\ Calls(s, i) <=> log[i].action = "call"
      /\ \A i \in DOMAIN log : /\ log[i].action \in {"call", "raise"}
                               /\ i \in Raised <=> log[i].action = "raise"
  BY RecordFactsOf
<1>2. ThreeBetContext(s, Hero) = context
  BY <1>1 DEF ThreeBetContext
<1>3. 1 \in Raised /\ 2 \in Raised /\ log[1].action = "raise" /\ log[2].action = "raise"
  BY <1>1
<1>4. /\ context.scenario = scenario
      /\ context.aggressor = log[2].actor /\ context.raise_size = log[2].amount
      /\ context.opener = log[1].actor /\ context.open_size = log[1].amount
      /\ context.three_bet = None /\ context.hero_prior = None /\ context.isolation = None
  BY DEF FacingRaise, Context
<1> HIDE DEF context
<1>5. ScenarioIsTrue(context)
  <2>1. CASE log[1].actor = Hero
    BY <1>2, <1>3, <1>4, <2>1, SecondRaises DEF ScenarioIsTrue
  <2>2. CASE log[1].actor # Hero
    BY <1>2, <1>3, <1>4, <2>2, SecondRaises DEF ScenarioIsTrue
  <2> QED
    BY <2>1, <2>2
<1> QED
  BY <1>2, <1>3, <1>4, <1>5, SecondRaises, FirstEntryRaises DEF IsTheSpot

\* A raise behind hero's limp.
LEMMA IsolationContextIsTheSpot ==
    ASSUME TableInv, Decides, street = "preflop", NEW s, IsPreflopView(s), IsRecorded(s),
           Len(log) = 2, Calls(s, 1), IsolationContext(s, Hero) # None
    PROVE  IsTheSpot(IsolationContext(s, Hero))
<1> DEFINE context == [FacingRaise("facing_isolation_raise_after_limp", Hero, log[2].actor, log[2].amount)
                          EXCEPT !.limpers = <<Hero>>, !.hero_prior = log[1].amount]
<1>1. /\ DOMAIN log = 1 .. 2
      /\ \A i : /\ Actor(s, i) = log[i].actor /\ Amount(s, i) = log[i].amount
                /\ Calls(s, i) <=> log[i].action = "call"
                /\ Raises(s, i) <=> log[i].action = "raise"
      /\ \A i \in DOMAIN log : i \in Raised <=> log[i].action = "raise"
  BY RecordFactsOf
<1>2. IsolationContext(s, Hero) = context /\ log[1].actor = Hero /\ Raises(s, 2)
  BY <1>1 DEF IsolationContext
<1>3. 2 \in Raised /\ log[1].action = "call"
  BY <1>1, <1>2
<1>4. /\ context.scenario = "facing_isolation_raise_after_limp"
      /\ context.aggressor = log[2].actor /\ context.raise_size = log[2].amount
      /\ context.opener = None /\ context.hero_prior = log[1].amount
      /\ context.three_bet = None /\ context.isolation = None
  BY DEF FacingRaise, Context
<1> HIDE DEF context
<1>5. ScenarioIsTrue(context)
  BY <1>2, <1>3, <1>4, SecondRaises DEF ScenarioIsTrue
<1> QED
  BY <1>2, <1>3, <1>4, <1>5, SecondRaises DEF IsTheSpot

\* A limper's raise of hero's raise.
LEMMA LimpReraiseContextIsTheSpot ==
    ASSUME TableInv, Decides, street = "preflop", NEW s, IsPreflopView(s), IsRecorded(s),
           Len(log) = 3, Calls(s, 1), LimpReraiseContext(s, Hero) # None
    PROVE  IsTheSpot(LimpReraiseContext(s, Hero))
<1> DEFINE context == [FacingRaise("facing_limp_reraise", Hero, log[1].actor, log[3].amount)
                          EXCEPT !.limpers = <<log[1].actor>>, !.hero_prior = log[2].amount,
                                 !.isolation = log[2].amount]
<1>1. /\ DOMAIN log = 1 .. 3
      /\ \A i : /\ Actor(s, i) = log[i].actor /\ Amount(s, i) = log[i].amount
                /\ Calls(s, i) <=> log[i].action = "call"
                /\ Raises(s, i) <=> log[i].action = "raise"
      /\ \A i \in DOMAIN log : i \in Raised <=> log[i].action = "raise"
  BY RecordFactsOf
<1>2. /\ LimpReraiseContext(s, Hero) = context /\ log[2].actor = Hero
      /\ Raises(s, 2) /\ Raises(s, 3) /\ log[3].actor = log[1].actor
  BY <1>1 DEF LimpReraiseContext
<1>3. 3 \in Raised /\ log[1].action = "call" /\ log[2].action = "raise"
  BY <1>1, <1>2
<1>4. /\ context.scenario = "facing_limp_reraise"
      /\ context.aggressor = log[1].actor /\ context.raise_size = log[3].amount
      /\ context.opener = None
      /\ context.hero_prior = log[2].amount /\ context.isolation = log[2].amount
      /\ context.three_bet = None
  BY DEF FacingRaise, Context
<1> HIDE DEF context
<1>5. ScenarioIsTrue(context)
  BY <1>2, <1>3, <1>4, ThirdRaises DEF ScenarioIsTrue
<1> QED
  BY <1>2, <1>3, <1>4, <1>5, ThirdRaises DEF IsTheSpot

\* Whatever the record amounts to, it is the spot hero is in.
LEMMA RecordedIsTheSpot ==
    ASSUME TableInv, Decides, street = "preflop", NEW s, IsPreflopView(s), IsRecorded(s),
           s.preflop_action_history # <<>>, RecordedContext(s, Hero) # None
    PROVE  IsTheSpot(RecordedContext(s, Hero))
<1>1. /\ s.preflop_action_history = log /\ Len(log) \in Nat
      /\ \A i : /\ Actor(s, i) = log[i].actor /\ Amount(s, i) = log[i].amount
                /\ Calls(s, i) <=> log[i].action = "call"
                /\ Raises(s, i) <=> log[i].action = "raise"
  BY RecordFactsOf
<1>2. Len(log) # 0
  <2>1. log \in Seq([actor : Dealt, action : {"call", "raise"}, amount : Nat])
    BY DEF TableInv, TypeInv
  <2> QED
    BY <1>1, <2>1, EmptySeq
<1>3. CASE Calls(s, 1)
  <2>1. \/ Len(log) = 2 /\ RecordedContext(s, Hero) = IsolationContext(s, Hero)
        \/ Len(log) = 3 /\ RecordedContext(s, Hero) = LimpReraiseContext(s, Hero)
    BY <1>1, <1>3 DEF RecordedContext
  <2> QED
    BY <1>3, <2>1, IsolationContextIsTheSpot, LimpReraiseContextIsTheSpot
<1>4. CASE ~ Calls(s, 1)
  <2>1. CASE Len(log) = 1
    <3>1. RecordedContext(s, Hero) = OpenContext(s, Hero)
      BY <1>1, <1>4, <2>1 DEF RecordedContext
    <3> QED
      BY <1>4, <2>1, <3>1, OpenContextIsTheSpot
  <2>2. CASE Len(log) # 1 /\ Calls(s, 2) /\ Len(log) = 3 /\ Raises(s, 3)
    <3>1. RecordedContext(s, Hero) = SqueezeContext(s, Hero)
      BY <1>1, <1>4, <2>2 DEF RecordedContext
    <3> QED
      BY <1>4, <2>2, <3>1, SqueezeContextIsTheSpot
  <2>3. CASE Len(log) # 1 /\ Calls(s, 2) /\ ~ (Len(log) = 3 /\ Raises(s, 3))
    <3>1. RecordedContext(s, Hero) = CallersContext(s, Hero)
      BY <1>1, <1>4, <2>3 DEF RecordedContext
    <3>2. Len(log) > 1
      <4>1. Len(log) \in Nat
        BY <1>1
      <4> DEFINE n == Len(log)
      <4>2. n \in Nat /\ n # 0 /\ n # 1
        BY <1>2, <2>3, <4>1
      <4> HIDE DEF n
      <4>3. n > 1
        BY <4>2
      <4> QED
        BY <4>3 DEF n
    <3> QED
      BY <1>4, <3>1, <3>2, CallersContextIsTheSpot
  <2>4. CASE Len(log) = 3 /\ ~ Calls(s, 2)
    <3>1. RecordedContext(s, Hero) = FourBetContext(s, Hero)
      BY <1>1, <1>4, <2>4 DEF RecordedContext
    <3> QED
      BY <1>4, <2>4, <3>1, FourBetContextIsTheSpot
  <2>5. CASE Len(log) # 1 /\ Len(log) # 3 /\ ~ Calls(s, 2)
    <3>1. RecordedContext(s, Hero) = ThreeBetContext(s, Hero) /\ ~ (Len(log) >= 4)
      BY <1>1, <1>4, <2>5 DEF RecordedContext
    <3>2. Len(log) = 2
      <4>1. Len(log) \in Nat
        BY <1>1
      <4> DEFINE n == Len(log)
      <4>2. n \in Nat /\ n # 0 /\ n # 1 /\ n # 3 /\ ~ (n >= 4)
        BY <1>2, <2>5, <3>1, <4>1
      <4> HIDE DEF n
      <4>3. n = 2
        BY <4>2
      <4> QED
        BY <4>3 DEF n
    <3> QED
      BY <1>4, <2>5, <3>1, <3>2, ThreeBetContextIsTheSpot
  <2> QED
    BY <2>1, <2>2, <2>3, <2>4, <2>5
<1> QED
  BY <1>3, <1>4

\* What the chart makes of any view, with whatever hand, is the spot hero is in.
LEMMA ResolvedIsTheSpot ==
    ASSUME TableInv, Decides, street = "preflop", NEW s, IsPreflopView(s),
           ResolveContext(s) # None
    PROVE  /\ IsTheSpot(ResolveContext(s))
           /\ s.effective_stack # None /\ s.effective_stack > 0
<1>1. /\ s.hero_position = Hero /\ s.current_bet = AmountToCall
      /\ s.street = "preflop" /\ (IsRecorded(s) \/ IsUnrecorded(s))
  BY DEF IsPreflopView, IsView
<1>2. AmountToCall \in Nat /\ Known(s.current_bet, 0) = AmountToCall
  <2>1. AmountToCall \in Nat
    BY CallFacts
  <2> QED
    BY <1>1, <2>1, NoneAssumption DEF Known
<1>3. s.effective_stack # None /\ ~ (s.effective_stack <= 0)
  BY DEF ResolveContext
<1>4. s.effective_stack > 0
  <2>1. s.effective_stack = Effective
    BY DEF IsPreflopView, IsView
  <2>2. Effective \in Nat
    <3>1. {stack[seat] : seat \in live} \in SUBSET Nat /\ {stack[seat] : seat \in live} # {}
      BY DecisionFacts DEF TypeInv
    <3> QED
      BY <3>1, MinIsLeast DEF Effective
  <2> QED
    BY <1>3, <2>1, <2>2
<1>5. s.preflop_action_history # <<>> => IsRecorded(s)
  BY <1>1 DEF IsUnrecorded
<1>6. CASE AmountToCall <= 0 /\ s.preflop_action_history # <<>>
  <2>1. ResolveContext(s) = LimpedContext(s, Hero)
    BY <1>1, <1>2, <1>6 DEF ResolveContext
  <2> QED
    BY <1>3, <1>4, <1>5, <1>6, <2>1, LimpedIsTheSpot
<1>7. CASE AmountToCall <= 0 /\ s.preflop_action_history = <<>>
  <2>1. ResolveContext(s) = UnopenedContext(s, Hero)
    BY <1>1, <1>2, <1>7 DEF ResolveContext
  <2> QED
    BY <1>3, <1>4, <1>7, <2>1, UnopenedIsTheSpot
<1>8. CASE ~ (AmountToCall <= 0) /\ s.preflop_action_history # <<>>
  <2>1. ResolveContext(s) = RecordedContext(s, Hero)
    BY <1>1, <1>2, <1>8 DEF ResolveContext
  <2> QED
    BY <1>3, <1>4, <1>5, <1>8, <2>1, RecordedIsTheSpot
<1>9. CASE ~ (AmountToCall <= 0) /\ s.preflop_action_history = <<>>
  <2>1. ResolveContext(s) = UnrecordedOpenContext(s, Hero) /\ s.facing_action = "raise"
    BY <1>1, <1>2, <1>9 DEF ResolveContext
  <2>2. AmountToCall > 0
    BY <1>2, <1>9
  <2> QED
    BY <1>3, <1>4, <1>9, <2>1, <2>2, UnrecordedIsTheSpot
<1> QED
  BY <1>6, <1>7, <1>8, <1>9

\* The invariant of the table implies it.
LEMMA ContextIsTrueHolds ==
    ASSUME TableInv
    PROVE  ContextIsTrue
<1> SUFFICES ASSUME Decides, street = "preflop", NEW s \in PreflopViews, ResolveContext(s) # None
             PROVE  IsTheSpot(ResolveContext(s))
  BY DEF ContextIsTrue
<1> QED
  BY PreflopViewsAreViews, ResolvedIsTheSpot

\* Whatever part of the evidence the chart is shown, the spot it answers is the
\* one hero is in (resolve_preflop_chart_context), at every table and with all
\* stacks from one and a half big blinds.
THEOREM ContextIsTheSpot == Spec => []ContextIsTrue
BY TableInvariant, ContextIsTrueHolds, PTL

-----------------------------------------------------------------------------
(***************************************************************************)
(* Wagers                                                                  *)
(***************************************************************************)

\* A view with what it may tell of the opponents' wagers.
IsWagerView(s) ==
    /\ s.street = street /\ s.pot_size = pot /\ s.current_bet = AmountToCall
    /\ s.effective_stack = Effective
    /\ s.players_in_hand = Cardinality(live) /\ s.hero_position = Hero
    /\ s.facing_action = FacingAction /\ s.action_context = None
    /\ s.preflop_action_history \in {log, <<>>}
    /\ street = "preflop" => IsRecorded(s) \/ IsUnrecorded(s)
    /\ street # "preflop" => s.postflop_action_history \in {actions, <<>>}
    /\ s.completed_postflop_streets = IF street = "preflop" THEN <<>> ELSE done
    /\ s.opponents_at_current_bet \in {None, Matched} \ {0}
    /\ s.opponent_wager \in {None, wager}
    /\ s.opponent_commitment_total \in {None, OpponentsPut}
    /\ AmountToCall = 0 =>
         /\ s.opponents_at_current_bet = None /\ s.opponent_wager = None
         /\ s.opponent_commitment_total = None

\* All the views are, with what WagersSent adds to them.
LEMMA WagersSentAreViews ==
    ASSUME NEW v \in Views, NEW s \in WagersSent(v)
    PROVE  IsWagerView(s)
<1>1. {"street", "hero_cards", "board_cards", "pot_size", "current_bet", "hero_stack", "opponent_stack",
       "effective_stack", "players_in_hand", "opponents_at_current_bet", "opponent_wager",
       "opponent_commitment_total", "hero_position", "opponent_position",
       "preflop_opener_position", "preflop_open_size", "preflop_action_history", "facing_action",
       "postflop_action_history", "completed_postflop_streets", "action_context"} = Fields
  BY DEF Fields, Shown
<1> DEFINE Said(w) ==
             /\ DOMAIN w = Fields
             /\ w.street = street /\ w.pot_size = pot /\ w.current_bet = AmountToCall
             /\ w.effective_stack = Effective
             /\ w.players_in_hand = Cardinality(live) /\ w.hero_position = Hero
             /\ w.facing_action = FacingAction /\ w.action_context = None
             /\ w.preflop_action_history \in {log, <<>>}
             /\ street = "preflop" => IsRecorded(w) \/ IsUnrecorded(w)
             /\ street # "preflop" => w.postflop_action_history \in {actions, <<>>}
             /\ w.completed_postflop_streets = IF street = "preflop" THEN <<>> ELSE done
<1>2. Said(v) /\ v.opponents_at_current_bet = None /\ v.opponent_wager = None
              /\ v.opponent_commitment_total = None
  <2>1. CASE street = "preflop"
    <3>1. v \in PreflopViews
      BY <2>1 DEF Views
    <3>2. IsPreflopView(v)
      BY <3>1, PreflopViewsAreViews
    <3>3. v.preflop_action_history \in {log, <<>>}
      BY <3>2 DEF IsPreflopView, IsRecorded, IsUnrecorded
    <3> HIDE DEF Fields
    <3> QED
      BY <2>1, <3>2, <3>3 DEF IsPreflopView, IsView
  <2>2. CASE street # "preflop"
    <3>1. /\ DOMAIN Shown = Fields
          /\ Shown.street = street /\ Shown.pot_size = pot /\ Shown.current_bet = AmountToCall
          /\ Shown.effective_stack = Effective
          /\ Shown.players_in_hand = Cardinality(live) /\ Shown.hero_position = Hero
          /\ Shown.facing_action = FacingAction /\ Shown.action_context = None
          /\ Shown.preflop_action_history = log
          /\ Shown.opponents_at_current_bet = None /\ Shown.opponent_wager = None
          /\ Shown.opponent_commitment_total = None
      BY DEF Shown, Fields, Effective
    <3> HIDE DEF Fields
    <3>2. /\ DOMAIN PostflopShown = Fields
          /\ PostflopShown.street = street /\ PostflopShown.pot_size = pot
          /\ PostflopShown.current_bet = AmountToCall
          /\ PostflopShown.effective_stack = Effective
          /\ PostflopShown.players_in_hand = Cardinality(live) /\ PostflopShown.hero_position = Hero
          /\ PostflopShown.facing_action = FacingAction /\ PostflopShown.action_context = None
          /\ PostflopShown.preflop_action_history = log
          /\ PostflopShown.postflop_action_history = actions
          /\ PostflopShown.completed_postflop_streets = done
          /\ PostflopShown.opponents_at_current_bet = None /\ PostflopShown.opponent_wager = None
          /\ PostflopShown.opponent_commitment_total = None
      BY <1>1, <3>1 DEF PostflopShown
    <3>3. v \in {PostflopShown, [PostflopShown EXCEPT !.postflop_action_history = <<>>]}
      BY <2>2 DEF Views
    <3> QED
      BY <1>1, <2>2, <3>2, <3>3
  <2> QED
    BY <2>1, <2>2
<1> HIDE DEF Fields
<1>3. CASE AmountToCall = 0
  <2>1. s = v
    BY <1>3 DEF WagersSent
  <2>2. None # 0
    BY NoneAssumption
  <2> QED
    BY <1>2, <2>1, <2>2 DEF IsWagerView
<1>4. CASE AmountToCall # 0
  <2>0. PICK told \in ({None, Matched} \ {0}) \X {None, wager} \X {None, OpponentsPut} :
           s = [v EXCEPT !.opponents_at_current_bet = told[1], !.opponent_wager = told[2],
                         !.opponent_commitment_total = told[3]]
    BY <1>4 DEF WagersSent
  <2>1. /\ told[1] \in {None, Matched} \ {0} /\ told[2] \in {None, wager}
        /\ told[3] \in {None, OpponentsPut}
    OBVIOUS
  <2>2. /\ s.street = v.street /\ s.pot_size = v.pot_size /\ s.current_bet = v.current_bet
        /\ s.effective_stack = v.effective_stack
        /\ s.players_in_hand = v.players_in_hand /\ s.hero_position = v.hero_position
        /\ s.facing_action = v.facing_action /\ s.action_context = v.action_context
        /\ s.preflop_action_history = v.preflop_action_history
        /\ s.preflop_opener_position = v.preflop_opener_position
        /\ s.preflop_open_size = v.preflop_open_size
        /\ s.postflop_action_history = v.postflop_action_history
        /\ s.completed_postflop_streets = v.completed_postflop_streets
        /\ s.opponents_at_current_bet = told[1] /\ s.opponent_wager = told[2]
        /\ s.opponent_commitment_total = told[3]
    BY <1>1, <1>2, <2>0
  <2>3. /\ IsRecorded(v) => IsRecorded(s)
        /\ IsUnrecorded(v) => IsUnrecorded(s)
    BY <2>2 DEF IsRecorded, IsUnrecorded
  <2> QED
    BY <1>2, <1>4, <2>1, <2>2, <2>3 DEF IsWagerView
<1> QED
  BY <1>3, <1>4

\* The number of these seats, one by one.
Counts(seats, seat) == IF seat \in seats THEN 1 ELSE 0

\* Six seats are counted one by one.
LEMMA SeatCount ==
    ASSUME NEW seats \in SUBSET (1 .. 6)
    PROVE  /\ IsFiniteSet(seats) /\ Cardinality(seats) \in Nat
           /\ Cardinality(seats) = Counts(seats, 1) + Counts(seats, 2) + Counts(seats, 3)
                                 + Counts(seats, 4) + Counts(seats, 5) + Counts(seats, 6)
<1> DEFINE upTo(n) == {seat \in seats : seat <= n}
<1>0. \A seat \in seats : seat \in Int /\ ~ (seat <= 0) /\ seat <= 6
  <2>1. \A seat \in 1 .. 6 : seat \in Int /\ ~ (seat <= 0) /\ seat <= 6
    OBVIOUS
  <2> QED
    BY <2>1
<1>1. IsFiniteSet(upTo(0)) /\ Cardinality(upTo(0)) = 0
  <2>1. upTo(0) = {}
    BY <1>0
  <2> QED
    BY <2>1, FS_EmptySet
<1>2. ASSUME NEW n \in 0 .. 5, IsFiniteSet(upTo(n)), Cardinality(upTo(n)) \in Nat
      PROVE  /\ IsFiniteSet(upTo(n + 1))
             /\ Cardinality(upTo(n + 1)) = Cardinality(upTo(n)) + Counts(seats, n + 1)
  <2>0. n \in Int
    OBVIOUS
  <2>1. \A seat \in seats : seat <= n + 1 <=> (seat <= n \/ seat = n + 1)
    <3> TAKE seat \in seats
    <3>1. seat \in Int
      BY <1>0
    <3> QED
      BY <2>0, <3>1
  <2>11. ~ (n + 1 <= n)
    BY <2>0
  <2>2. CASE n + 1 \in seats
    <3>0. n + 1 <= n + 1
      BY <2>0
    <3>1. upTo(n + 1) = upTo(n) \union {n + 1} /\ n + 1 \notin upTo(n)
      BY <2>1, <2>11, <2>2, <3>0, Zenon
    <3> HIDE DEF upTo
    <3>2. IsFiniteSet(upTo(n) \union {n + 1}) /\ Cardinality(upTo(n) \union {n + 1}) = Cardinality(upTo(n)) + 1
      BY <1>2, <3>1, FS_AddElement
    <3> QED
      BY <2>2, <3>1, <3>2 DEF Counts
  <2>3. CASE n + 1 \notin seats
    <3>1. upTo(n + 1) = upTo(n)
      BY <2>1, <2>3, Zenon
    <3> HIDE DEF upTo
    <3> QED
      BY <1>2, <2>3, <3>1 DEF Counts
  <2> QED
    BY <2>2, <2>3
<1>3. seats = upTo(6)
  BY <1>0
<1>4. \A seat : Counts(seats, seat) \in Nat
  BY DEF Counts
<1> HIDE DEF upTo
<1>5. IsFiniteSet(upTo(1)) /\ Cardinality(upTo(1)) \in Nat /\ Cardinality(upTo(1)) = Counts(seats, 1)
  <2>1. 0 \in 0 .. 5 /\ 0 + 1 = 1
    OBVIOUS
  <2>2. Cardinality(upTo(0)) \in Nat
    BY <1>1
  <2>3. IsFiniteSet(upTo(0 + 1)) /\ Cardinality(upTo(0 + 1)) = Cardinality(upTo(0)) + Counts(seats, 0 + 1)
    BY <1>1, <1>2, <2>1, <2>2
  <2> QED
    BY <1>1, <1>4, <2>1, <2>3
<1>6. IsFiniteSet(upTo(2)) /\ Cardinality(upTo(2)) \in Nat
      /\ Cardinality(upTo(2)) = Counts(seats, 1) + Counts(seats, 2)
  <2>1. 1 \in 0 .. 5 /\ 1 + 1 = 2
    OBVIOUS
  <2>2. IsFiniteSet(upTo(1 + 1)) /\ Cardinality(upTo(1 + 1)) = Cardinality(upTo(1)) + Counts(seats, 1 + 1)
    BY <1>2, <1>5, <2>1
  <2> QED
    BY <1>4, <1>5, <2>1, <2>2
<1>7. IsFiniteSet(upTo(3)) /\ Cardinality(upTo(3)) \in Nat
      /\ Cardinality(upTo(3)) = Counts(seats, 1) + Counts(seats, 2) + Counts(seats, 3)
  <2>1. 2 \in 0 .. 5 /\ 2 + 1 = 3
    OBVIOUS
  <2>2. IsFiniteSet(upTo(2 + 1)) /\ Cardinality(upTo(2 + 1)) = Cardinality(upTo(2)) + Counts(seats, 2 + 1)
    BY <1>2, <1>6, <2>1
  <2> QED
    BY <1>4, <1>6, <2>1, <2>2
<1>8. IsFiniteSet(upTo(4)) /\ Cardinality(upTo(4)) \in Nat
      /\ Cardinality(upTo(4)) = Counts(seats, 1) + Counts(seats, 2) + Counts(seats, 3) + Counts(seats, 4)
  <2>1. 3 \in 0 .. 5 /\ 3 + 1 = 4
    OBVIOUS
  <2>2. IsFiniteSet(upTo(3 + 1)) /\ Cardinality(upTo(3 + 1)) = Cardinality(upTo(3)) + Counts(seats, 3 + 1)
    BY <1>2, <1>7, <2>1
  <2> QED
    BY <1>4, <1>7, <2>1, <2>2
<1>9. IsFiniteSet(upTo(5)) /\ Cardinality(upTo(5)) \in Nat
      /\ Cardinality(upTo(5)) = Counts(seats, 1) + Counts(seats, 2) + Counts(seats, 3) + Counts(seats, 4)
                                + Counts(seats, 5)
  <2>1. 4 \in 0 .. 5 /\ 4 + 1 = 5
    OBVIOUS
  <2>2. IsFiniteSet(upTo(4 + 1)) /\ Cardinality(upTo(4 + 1)) = Cardinality(upTo(4)) + Counts(seats, 4 + 1)
    BY <1>2, <1>8, <2>1
  <2> QED
    BY <1>4, <1>8, <2>1, <2>2
<1>10. 5 \in 0 .. 5 /\ 5 + 1 = 6
  OBVIOUS
<1>11. IsFiniteSet(upTo(5 + 1)) /\ Cardinality(upTo(5 + 1)) = Cardinality(upTo(5)) + Counts(seats, 5 + 1)
  BY <1>2, <1>9, <1>10
<1> QED
  BY <1>3, <1>4, <1>9, <1>10, <1>11

\* The opponents, and how many of them have put in the wager.
LEMMA OpponentsFacts ==
    ASSUME TableInv, Decides
    PROVE  /\ live \ {Hero} \in SUBSET (1 .. 6) /\ IsFiniteSet(live \ {Hero})
           /\ Cardinality(live) = Cardinality(live \ {Hero}) + 1
           /\ Cardinality(live \ {Hero}) \in 1 .. 5
           /\ Matched \in Nat /\ Matched <= Cardinality(live \ {Hero})
           /\ \A seat \in live \ {Hero} : put[seat] \in Nat /\ put[seat] <= wager
<1>1. /\ Hero \in live /\ live \subseteq Dealt /\ Dealt \subseteq 1 .. 6
      /\ Cardinality(live) \in 2 .. 6
  BY DecisionFacts
<1>2. live \in SUBSET (1 .. 6) /\ live \ {Hero} \in SUBSET (1 .. 6)
  BY <1>1
<1>3. IsFiniteSet(live) /\ IsFiniteSet(live \ {Hero}) /\ Cardinality(live \ {Hero}) \in Nat
  BY <1>2, SeatCount
<1>4. Cardinality(live \ {Hero}) = Cardinality(live) - 1
  BY <1>1, <1>3, FS_RemoveElement
<1>5. Matched \in Nat /\ Matched <= Cardinality(live \ {Hero})
  <2>1. {seat \in live \ {Hero} : put[seat] = wager} \in SUBSET (live \ {Hero})
    OBVIOUS
  <2> QED
    BY <1>3, <2>1, FS_Subset, FS_CardinalityType DEF Matched
<1>6. \A seat \in live \ {Hero} : put[seat] \in Nat /\ put[seat] <= wager
  BY <1>1 DEF TableInv, TypeInv, ChipsInv
<1> QED
  BY <1>1, <1>2, <1>3, <1>4, <1>5, <1>6

\* So many opponents are asked about.
LEMMA OpponentsOf ==
    ASSUME TableInv, Decides, NEW s, IsWagerView(s)
    PROVE  Opponents(s) = Cardinality(live \ {Hero}) /\ Opponents(s) \in 1 .. 5
<1>1. /\ Cardinality(live) = Cardinality(live \ {Hero}) + 1
      /\ Cardinality(live \ {Hero}) \in 1 .. 5
  BY OpponentsFacts
<1> DEFINE n == Cardinality(live \ {Hero})
<1>2. s.players_in_hand = n + 1 /\ n \in 1 .. 5
  BY <1>1 DEF IsWagerView
<1> HIDE DEF n
<1>3. Known(s.players_in_hand, 2) = n + 1
  BY <1>2, NoneAssumption DEF Known
<1>4. Opponents(s) = n
  BY <1>2, <1>3 DEF Opponents, Bigger, Smaller
<1> QED
  BY <1>2, <1>4 DEF n

\* The amounts of these entries of the history.
AmountsOf(s, entries) == {Amount(s, i) : i \in entries}

\* The amounts of entries of a history are finitely many integers.
LEMMA AmountsFacts ==
    ASSUME TableInv, NEW s, s.preflop_action_history \in {log, <<>>},
           NEW own \in SUBSET DOMAIN s.preflop_action_history
    PROVE  IsFiniteSet(AmountsOf(s, own)) /\ AmountsOf(s, own) \in SUBSET Int
<1>1. CASE s.preflop_action_history = <<>>
  <2>1. AmountsOf(s, own) = {}
    BY <1>1 DEF AmountsOf
  <2> QED
    BY <2>1, FS_EmptySet
<1>2. CASE s.preflop_action_history = log
  <2>1. 1 \in Int /\ Len(log) \in Int /\ DOMAIN log = 1 .. Len(log)
    BY LogFacts DEF TableInv
  <2>2. IsFiniteSet(DOMAIN log)
    BY <2>1, FS_Interval, Zenon
  <2>3. IsFiniteSet(own)
    BY <1>2, <2>2, FS_Subset
  <2> DEFINE amounts == AmountsOf(s, own)
             f == [i \in own |-> Amount(s, i)]
  <2>4. f \in Surjection(own, amounts)
    BY DEF Surjection, AmountsOf
  <2>5. IsFiniteSet(amounts)
    <3> HIDE DEF amounts, f
    <3> QED
      BY <2>3, <2>4, FS_Surjection
  <2>6. \A i \in own : Amount(s, i) \in Int
    BY <1>2, LogFacts DEF TableInv, Amount
  <2> QED
    BY <2>5, <2>6 DEF AmountsOf
<1> QED
  BY <1>1, <1>2

\* What the seats on record have in at most, and what these have in together.
LEMMA CommitmentFacts ==
    ASSUME TableInv, NEW s, s.preflop_action_history \in {log, <<>>},
           NEW seats \in SUBSET {Actor(s, i) : i \in DOMAIN s.preflop_action_history}
    PROVE  Total(Commitments(s, seats)) \in Int
<1> DEFINE amounts(seat) ==
             {Amount(s, i) : i \in {j \in DOMAIN s.preflop_action_history : Actor(s, j) = seat}}
<1>1. CASE seats = {}
  <2>1. DOMAIN Commitments(s, seats) = {}
    BY <1>1 DEF Commitments
  <2> QED
    BY <2>1, SixSeats DEF Total, SumOfSix
<1>2. CASE s.preflop_action_history = log
  <2>1. \A seat \in seats : Max(amounts(seat)) \in Int
    <3> TAKE seat \in seats
    <3>1. amounts(seat) # {} /\ amounts(seat) \in SUBSET Int
      BY <1>2, LogFacts DEF TableInv, Actor, Amount
    <3>3. IsFiniteSet(amounts(seat))
      <4> DEFINE own == {j \in DOMAIN s.preflop_action_history : Actor(s, j) = seat}
      <4>1. own \in SUBSET DOMAIN s.preflop_action_history
        OBVIOUS
      <4>2. amounts(seat) = AmountsOf(s, own)
        BY DEF AmountsOf
      <4> HIDE DEF amounts, own
      <4>3. IsFiniteSet(AmountsOf(s, own))
        BY <4>1, AmountsFacts
      <4> QED
        BY <4>2, <4>3
    <3> HIDE DEF amounts
    <3> QED
      BY <3>1, <3>3, MaxIsGreatest
  <2>2. Commitments(s, seats) = [seat \in seats |-> Max(amounts(seat))]
    BY DEF Commitments
  <2> HIDE DEF amounts
  <2>3. \A seat \in Seats : (IF seat \in DOMAIN Commitments(s, seats)
                             THEN Commitments(s, seats)[seat] ELSE 0) \in Int
    BY <2>1, <2>2
  <2> DEFINE in(seat) == IF seat \in DOMAIN Commitments(s, seats) THEN Commitments(s, seats)[seat] ELSE 0
  <2>4. Total(Commitments(s, seats)) = in(1) + in(2) + in(3) + in(4) + in(5) + in(6)
    BY SixSeats DEF Total, SumOfSix
  <2>5. in(1) \in Int /\ in(2) \in Int /\ in(3) \in Int /\ in(4) \in Int /\ in(5) \in Int /\ in(6) \in Int
    BY <2>3 DEF Seats
  <2> HIDE DEF in
  <2> QED
    BY <2>4, <2>5
<1> QED
  BY <1>1, <1>2

\* Where nothing is called for, what hero has in is an amount.
LEMMA HeroWagerIsKnown ==
    ASSUME TableInv, Decides, NEW s, IsWagerView(s), AmountToCall = 0
    PROVE  HeroWager(s, 0) \in Int
<1>1. Known(s.current_bet, 0) = 0 /\ s.hero_position = Hero /\ s.preflop_action_history \in {log, <<>>}
  BY NoneAssumption DEF IsWagerView, Known
<1>2. Hero \in 1 .. 6 /\ Posted[Hero] \in Int
  <2>1. Hero \in Dealt /\ Hero \in 1 .. 6 /\ start \in Profiles
    BY DecisionFacts DEF TypeInv
  <2>2. Posted[Hero] \in {0, 50, 100}
    BY <2>1, DealtFacts
  <2> QED
    BY <2>1, <2>2
<1> DEFINE own == {i \in DOMAIN s.preflop_action_history : Actor(s, i) = s.hero_position}
           amounts == {Posted[s.hero_position]} \union {Amount(s, i) : i \in own}
<1>3. own \in SUBSET DOMAIN s.preflop_action_history
  OBVIOUS
<1>5. IsFiniteSet(amounts) /\ amounts \in SUBSET Int /\ amounts # {}
  <2>1. IsFiniteSet({Amount(s, i) : i \in own}) /\ {Amount(s, i) : i \in own} \in SUBSET Int
    <3> HIDE DEF own
    <3>1. IsFiniteSet(AmountsOf(s, own)) /\ AmountsOf(s, own) \in SUBSET Int
      BY <1>1, <1>3, AmountsFacts
    <3> QED
      BY <3>1 DEF AmountsOf
  <2>2. IsFiniteSet({Posted[s.hero_position]})
    BY FS_Singleton
  <2>3. IsFiniteSet(amounts)
    BY <2>1, <2>2, FS_Union
  <2> QED
    BY <1>1, <1>2, <2>1, <2>3
<1>6. HeroWager(s, 0) = 0 \/ HeroWager(s, 0) = Max(amounts)
  BY <1>1 DEF HeroWager
<1> HIDE DEF amounts
<1>7. Max(amounts) \in Int
  BY <1>5, MaxIsGreatest
<1> QED
  BY <1>6, <1>7

\* A view that misses none of its fields is one the estimate answers.
LEMMA SolvableView ==
    ASSUME TableInv, Decides, NEW s, IsWagerView(s), MissingFields(s) = {}, Route(s) = "local_ev"
    PROVE  EstimateAccepts(s)
<1>1. AmountToCall \in Nat /\ Known(s.current_bet, 0) = AmountToCall
  <2>1. AmountToCall \in Nat
    BY DecisionFacts DEF AmountToCall
  <2> QED
    BY <2>1, NoneAssumption DEF IsWagerView, Known
<1>2. Opponents(s) = Cardinality(live \ {Hero}) /\ Opponents(s) \in 1 .. 5
  BY OpponentsOf
<1>3. None \notin Int
  BY NoneAssumption
<1>4. CASE AmountToCall = 0
  <2>1. OpponentsAtCurrentBet(s) = 0 /\ OpponentWager(s) = 0
    BY <1>1, <1>4 DEF OpponentsAtCurrentBet, OpponentWager
  <2>2. OpponentCommitment(s, 0, 0, HeroWager(s, 0)) # None
    <3> DEFINE others == {Actor(s, i) : i \in DOMAIN s.preflop_action_history} \ {s.hero_position}
    <3>1. Total(Commitments(s, others)) \in Int
      BY CommitmentFacts DEF IsWagerView
    <3>2. s.hero_position # None
      <4>1. Hero \in 1 .. 6
        BY DecisionFacts
      <4> QED
        BY <1>3, <4>1 DEF IsWagerView
    <3>3. Bigger(0, Known(s.pot_size, 0) - HeroWager(s, 0)) # None
      <4>1. Known(s.pot_size, 0) \in Int
        BY DecisionFacts DEF IsWagerView, Known
      <4>2. Bigger(0, Known(s.pot_size, 0) - HeroWager(s, 0)) \in Int
        BY <1>4, <4>1, HeroWagerIsKnown DEF Bigger
      <4> QED
        BY <1>3, <4>2
    <3>4. /\ Total(Commitments(s, others)) # None /\ 0 # None
      BY <1>3, <3>1
    <3>5. Known(s.current_bet, 0) <= 0
      BY <1>1, <1>4
    <3> HIDE DEF others
    <3> QED
      BY <3>2, <3>3, <3>4, <3>5 DEF OpponentCommitment, others
  <2> QED
    BY <1>3, <2>1, <2>2 DEF EstimateAccepts
<1>5. CASE AmountToCall # 0
  <2>1. ~ (Known(s.current_bet, 0) <= 0) /\ Known(s.current_bet, 0) > 0
    BY <1>1, <1>5
  <2>2. RequiredFields(s) = EstimateFields(s)
    <3>1. ~ ChartSupports(s)
      BY DEF Route
    <3>2. ~ RequiresHeroStack(s) \/ s.street # "preflop"
      <4> SUFFICES ASSUME RequiresHeroStack(s), s.street = "preflop" PROVE FALSE
        OBVIOUS
      <4>1. s.hero_stack = None
        BY DEF RequiresHeroStack
      <4>2. RequiredFields(s) = {"hero_stack"}
        BY DEF RequiredFields
      <4>3. "hero_stack" \in MissingFields(s)
        BY <4>1, <4>2 DEF MissingFields
      <4> QED
        BY <4>3
    <3> QED
      BY <2>1, <3>1, <3>2 DEF RequiredFields
  <2>3. \A f \in EstimateFields(s) : s[f] # None
    BY <2>2 DEF MissingFields
  <2>4. OpponentWager(s) # None
    <3> SUFFICES ASSUME OpponentWager(s) = None PROVE FALSE
      OBVIOUS
    <3>1. "opponent_wager" \in EstimateFields(s)
      BY DEF EstimateFields
    <3>2. s.opponent_wager # None
      BY <2>3, <3>1
    <3> QED
      BY <2>1, <3>2 DEF OpponentWager
  <2> DEFINE told == IF Known(s.players_in_hand, 0) = 2 THEN 1 ELSE s.opponents_at_current_bet
             n == Cardinality(live \ {Hero})
  <2>5. /\ s.players_in_hand = n + 1 /\ Opponents(s) = n /\ n \in 1 .. 5
        /\ Matched \in Nat /\ Matched <= n
    BY <1>2, OpponentsFacts DEF IsWagerView
  <2> HIDE DEF n
  <2>6. Known(s.players_in_hand, 0) = n + 1
    BY <1>3, <2>5 DEF Known
  <2>7. OpponentsAtCurrentBet(s) = told /\ told \in Int
    <3>1. CASE n = 1
      BY <2>1, <2>5, <2>6, <3>1 DEF OpponentsAtCurrentBet
    <3>2. CASE n # 1
      <4>1. Known(s.players_in_hand, 0) > 2
        BY <2>5, <2>6, <3>2
      <4>2. "opponents_at_current_bet" \in EstimateFields(s)
        BY <4>1 DEF EstimateFields
      <4>3. s.opponents_at_current_bet # None
        BY <2>3, <4>2
      <4>4. s.opponents_at_current_bet = Matched /\ Matched # 0
        BY <4>3 DEF IsWagerView
      <4>5. Bigger(1, Smaller(Matched, n)) = Matched
        BY <2>5, <4>4 DEF Bigger, Smaller
      <4>6. OpponentsAtCurrentBet(s) = Matched
        BY <2>1, <2>5, <3>2, <4>3, <4>4, <4>5 DEF OpponentsAtCurrentBet
      <4>7. told = Matched
        BY <2>5, <2>6, <3>2, <4>4
      <4> QED
        BY <2>5, <4>6, <4>7
    <3> QED
      BY <3>1, <3>2
  <2>8. OpponentCommitment(s, OpponentWager(s), told, HeroWager(s, OpponentWager(s))) # None
    <3> SUFFICES ASSUME OpponentCommitment(s, OpponentWager(s), told, HeroWager(s, OpponentWager(s))) = None
                 PROVE  FALSE
      OBVIOUS
    <3>1. told # None
      BY <1>3, <2>7
    <3>2. "opponent_commitment_total" \in EstimateFields(s)
      BY <2>4, <3>1 DEF EstimateFields
    <3>3. s.opponent_commitment_total # None
      BY <2>3, <3>2
    <3> QED
      BY <3>3 DEF OpponentCommitment
  <2> QED
    BY <1>3, <2>4, <2>7, <2>8 DEF EstimateAccepts
<1> QED
  BY <1>4, <1>5

\* The invariant of the table implies it.
LEMMA AcceptedIsSolvableHolds ==
    ASSUME TableInv
    PROVE  AcceptedIsSolvable
<1> SUFFICES ASSUME Decides, NEW v \in Views, NEW s \in WagerFields(v),
                    MissingFields(s) = {}, Route(s) = "local_ev"
             PROVE  EstimateAccepts(s)
  BY DEF AcceptedIsSolvable
<1> QED
  BY WagersSentAreViews, SolvableView DEF WagerFields

\* A stored state that misses none of the fields it is asked for is one that the
\* estimate answers, where the route leads there (required_fields_for and the
\* checks of ev_solver_cli agree).  It is about states the validators have let
\* through: that a state which misses a field can be stored once it is told is
\* not claimed, and false (CompletedIsAccepted).
THEOREM AcceptedIsAnswered == Spec => []AcceptedIsSolvable
BY TableInvariant, AcceptedIsSolvableHolds, PTL

\* An upper bound that is in the set is its Max.
LEMMA MaxIs ==
    ASSUME NEW S \in SUBSET Int, NEW w \in S, \A k \in S : k <= w
    PROVE  Max(S) = w
<1>1. \E x \in S : \A y \in S : x >= y
  OBVIOUS
<1>2. Max(S) \in S /\ \A y \in S : Max(S) >= y
  BY <1>1 DEF Max
<1> DEFINE m == Max(S)
<1>3. m \in Int /\ w \in Int /\ m >= w /\ m <= w
  BY <1>2
<1> HIDE DEF m
<1>4. m = w
  BY <1>3
<1> QED
  BY <1>4 DEF m

\* Before the flop the wager is on record once anybody has come in, and nothing
\* above it.
LEMMA WagerIsOnRecord ==
    ASSUME TableInv, Decides, street = "preflop", log # <<>>
    PROVE  /\ \E i \in DOMAIN log : log[i].amount = wager
           /\ \A i \in DOMAIN log : log[i].amount \in Nat /\ log[i].amount <= wager
<1>1. \A i \in DOMAIN log : log[i].amount \in Nat /\ log[i].amount <= wager
  <2> TAKE i \in DOMAIN log
  <2>1. /\ log[i].actor \in Dealt /\ log[i].amount \in Nat /\ put[log[i].actor] \in Nat
        /\ log[i].amount <= put[log[i].actor]
    BY EntryFacts
  <2>2. put[log[i].actor] <= wager /\ wager \in Nat
    BY <2>1 DEF TableInv, TypeInv, ChipsInv
  <2> QED
    BY <2>1, <2>2
<1>2. CASE Raised = {}
  <2>1. wager = 100 /\ \A i \in DOMAIN log : log[i].amount = 100
    BY <1>2 DEF TableInv, WagerInv
  <2>2. Len(log) # 0 /\ Len(log) \in Nat /\ DOMAIN log = 1 .. Len(log)
    <3>1. log \in Seq([actor : Dealt, action : {"call", "raise"}, amount : Nat])
      BY DEF TableInv, TypeInv
    <3>2. Len(log) # 0
      BY <3>1, EmptySeq
    <3> QED
      BY <3>2, LogFacts DEF TableInv
  <2>3. 1 \in DOMAIN log
    BY <2>2
  <2> QED
    BY <1>1, <2>1, <2>3
<1>3. CASE Raised # {}
  <2>1. Max(Raised) \in DOMAIN log /\ log[Max(Raised)].amount = wager
    BY <1>3, RaiserFacts DEF Raised, LastRaise
  <2> QED
    BY <1>1, <2>1
<1> QED
  BY <1>2, <1>3

\* After the flop, where something is owed: the wager is on record, nothing is
\* above it, the opponent has it in, and hero has nothing in against a bet.
LEMMA StreetWager ==
    ASSUME TableInv, Decides, street # "preflop", ToCall > 0
    PROVE  /\ \E i \in DOMAIN actions : actions[i].amount = wager
           /\ \A i \in DOMAIN actions :
                actions[i].amount = None \/ (actions[i].amount \in Nat /\ actions[i].amount <= wager)
           /\ \A seat \in live \ {Hero} : put[seat] = wager
           /\ FacingAction = "bet" => put[Hero] = 0
<1>1. /\ TypeInv /\ StreetLine /\ \E a, b \in Dealt : a # b /\ live = {a, b}
      /\ Hero \in live /\ put[Hero] \in Nat /\ wager \in Nat /\ put[Hero] <= wager
  BY DecisionFacts DEF TableInv, StreetInv, Decides, Acts
<1>2. /\ OopSeat \in Dealt /\ IpSeat \in Dealt /\ OopSeat # IpSeat /\ live = {OopSeat, IpSeat}
      /\ put[OopSeat] \in Nat /\ put[IpSeat] \in Nat
  BY <1>1, TwoLeft DEF TypeInv
<1>3. ~ NothingIn
  <2> SUFFICES ASSUME NothingIn PROVE FALSE
    OBVIOUS
  <2>1. put[Hero] = 0 /\ wager = 0
    BY <1>1, <1>2 DEF NothingIn
  <2> QED
    BY <2>1 DEF ToCall
<1>4. ASSUME NEW bettor, NEW other, OneBet(bettor, other), live = {bettor, other}
      PROVE  /\ put[bettor] = wager /\ put[Hero] = 0
             /\ \A seat \in live \ {Hero} : put[seat] = wager
  BY <1>4 DEF OneBet, Hero
<1>5. ASSUME NEW raiser, NEW other, OneRaise(raiser, other), live = {raiser, other}
      PROVE  /\ put[raiser] = wager /\ put[other] <= wager
             /\ \A seat \in live \ {Hero} : put[seat] = wager
  <2>1. put[raiser] = wager /\ put[other] < wager /\ Hero = other
    BY <1>5 DEF OneRaise, Hero
  <2> QED
    BY <1>1, <1>5, <2>1
<1>6. FacingAction = LastAggression(actions)
  BY DEF FacingAction
<1> DEFINE wagers == {i \in DOMAIN actions : actions[i].action # "check"}
<1>7. ASSUME NEW n \in {2, 3}, DOMAIN actions = 1 .. n, actions[n].action = "raise"
      PROVE  FacingAction = "raise"
  <2>1. wagers \in SUBSET (1 .. n) /\ n \in wagers
    BY <1>7
  <2>2. \A k \in wagers : k <= n
    BY <2>1
  <2>3. wagers \in SUBSET Int
    BY <2>1
  <2> HIDE DEF wagers
  <2>4. Max(wagers) = n /\ wagers # {}
    BY <2>1, <2>2, <2>3, MaxIs
  <2> QED
    BY <1>6, <1>7, <2>4 DEF LastAggression, wagers
<1>8. CASE actions = <<Did("oop", "bet", put[OopSeat])>> /\ OneBet(OopSeat, IpSeat)
  <2>1. DOMAIN actions = {1} /\ actions[1].amount = put[OopSeat]
    BY <1>8 DEF Did
  <2> QED
    BY <1>1, <1>2, <1>4, <1>8, <2>1
<1>9. CASE /\ actions = <<Did("oop", "check", None), Did("ip", "bet", put[IpSeat])>>
           /\ OneBet(IpSeat, OopSeat)
  <2>1. DOMAIN actions = {1, 2} /\ actions[1].amount = None /\ actions[2].amount = put[IpSeat]
    BY <1>9 DEF Did
  <2> QED
    BY <1>1, <1>2, <1>4, <1>9, <2>1
<1>10. CASE /\ actions = <<Did("oop", "bet", put[OopSeat]), Did("ip", "raise", put[IpSeat])>>
            /\ OneRaise(IpSeat, OopSeat)
  <2>1. /\ DOMAIN actions = {1, 2} /\ actions[1].amount = put[OopSeat]
        /\ actions[2].amount = put[IpSeat] /\ actions[2].action = "raise"
    BY <1>10 DEF Did
  <2>2. FacingAction = "raise"
    BY <1>7, <2>1
  <2> QED
    BY <1>1, <1>2, <1>5, <1>10, <2>1, <2>2
<1>11. CASE /\ actions = <<Did("oop", "check", None), Did("ip", "bet", put[IpSeat]),
                          Did("oop", "raise", put[OopSeat])>>
            /\ OneRaise(OopSeat, IpSeat)
  <2>1. /\ DOMAIN actions = {1, 2, 3} /\ actions[1].amount = None /\ actions[2].amount = put[IpSeat]
        /\ actions[3].amount = put[OopSeat] /\ actions[3].action = "raise"
    BY <1>11 DEF Did
  <2>2. FacingAction = "raise"
    BY <1>7, <2>1
  <2> QED
    BY <1>1, <1>2, <1>5, <1>11, <2>1, <2>2
<1> QED
  BY <1>1, <1>3, <1>8, <1>9, <1>10, <1>11 DEF StreetLine

\* What is taken for the wager is the wager.
LEMMA WagerIsTold ==
    ASSUME TableInv, Decides, AmountToCall > 0, NEW s, IsWagerView(s), ~ ReusesOpen(s),
           OpponentWager(s) # None
    PROVE  OpponentWager(s) = wager
<1>1. /\ AmountToCall = wager - put[Hero] /\ wager \in Nat /\ put[Hero] \in Nat /\ put[Hero] <= wager
      /\ street = "preflop" => log # <<>>
      /\ AmountToCall \in Nat /\ AmountToCall <= wager
  <2>1. wager \in Nat /\ put[Hero] \in Nat /\ put[Hero] <= wager /\ ToCall \in Nat
    BY DecisionFacts
  <2>2. ~ (street = "preflop" /\ log = <<>>)
    BY DEF AmountToCall
  <2> QED
    BY <2>1, <2>2 DEF AmountToCall, ToCall
<1>2. Known(s.current_bet, 0) = AmountToCall /\ ~ (Known(s.current_bet, 0) <= 0)
  BY <1>1, NoneAssumption DEF IsWagerView, Known
<1> DEFINE recorded == Recorded(s)
           amounts == {recorded[i].amount : i \in DOMAIN recorded} \ {None}
           wagers == {amount \in amounts : amount >= AmountToCall}
           open == Known(s.preflop_open_size, None)
<1>3. wagers # {} => Max(wagers) = wager
  <2>1. CASE recorded = <<>>
    BY <2>1
  <2>2. CASE recorded # <<>>
    <3>1. /\ \E i \in DOMAIN recorded : recorded[i].amount = wager
          /\ \A i \in DOMAIN recorded :
               recorded[i].amount = None \/ (recorded[i].amount \in Nat /\ recorded[i].amount <= wager)
      <4>1. CASE street = "preflop"
        <5>1. recorded = log
          BY <2>2, <4>1 DEF IsWagerView, Recorded
        <5> HIDE DEF recorded
        <5> QED
          BY <1>1, <4>1, <5>1, WagerIsOnRecord
      <4>2. CASE street # "preflop"
        <5>1. recorded = actions
          BY <2>2, <4>2 DEF IsWagerView, Recorded
        <5>2. ToCall > 0
          BY <4>2 DEF AmountToCall
        <5> HIDE DEF recorded
        <5> QED
          BY <4>2, <5>1, <5>2, StreetWager
      <4> QED
        BY <4>1, <4>2
    <3> HIDE DEF recorded
    <3>2. wagers \in SUBSET Int /\ \A k \in wagers : k <= wager
      BY <3>1
    <3>3. wager \in wagers
      BY <1>1, <3>1, NoneAssumption
    <3> HIDE DEF wagers
    <3> QED
      BY <3>2, <3>3, MaxIs
  <2> QED
    BY <2>1, <2>2
<1>4. /\ s.opponent_wager = None /\ s.preflop_open_size # None
      /\ Near(s.preflop_open_size, AmountToCall + Posted[Hero])
      /\ street = "preflop" /\ s.facing_action = "raise" /\ recorded = <<>>
      => s.preflop_open_size = wager
  <2> SUFFICES ASSUME s.opponent_wager = None, s.preflop_open_size # None,
                      Near(s.preflop_open_size, AmountToCall + Posted[Hero]),
                      street = "preflop", s.facing_action = "raise", recorded = <<>>
               PROVE  s.preflop_open_size = wager
    OBVIOUS
  <2>1. s.preflop_action_history = <<>>
    BY DEF Recorded, IsWagerView
  <2>2. Raised # {}
    BY CallFacts DEF IsWagerView
  <2>3. ~ (RaisesMade > 1)
    BY <2>1 DEF ReusesOpen
  <2>4. Raised \in SUBSET (1 .. Len(log)) /\ IsFiniteSet(Raised) /\ RaisesMade \in Nat /\ RaisesMade # 0
    BY <2>2, RaisesFacts DEF TableInv
  <2>5. Cardinality(Raised) = 1
    BY <2>3, <2>4 DEF RaisesMade
  <2>6. PICK only : Raised = {only}
    BY <2>4, <2>5, FS_Singleton
  <2>7. FirstRaise.amount = wager
    BY <2>2, <2>6, RaiserFacts DEF FirstRaise, LastRaise
  <2>8. s.preflop_open_size \in {None, FirstRaise.amount}
    <3>1. log # <<>>
      BY <1>1
    <3>2. IsUnrecorded(s)
      BY <2>1, <3>1 DEF IsWagerView, IsRecorded
    <3> QED
      BY <2>4, <3>2 DEF IsUnrecorded
  <2> QED
    BY <2>7, <2>8
<1>5. street # "preflop" /\ s.facing_action = "bet" => AmountToCall = wager
  <2> SUFFICES ASSUME street # "preflop", s.facing_action = "bet"
               PROVE  AmountToCall = wager
    OBVIOUS
  <2>1. ToCall > 0
    BY DEF AmountToCall
  <2>2. put[Hero] = 0
    BY <2>1, StreetWager DEF IsWagerView
  <2> QED
    BY <1>1, <2>2
<1>6. /\ s.street = street /\ s.action_context = None /\ s.opponent_wager \in {None, wager}
      /\ s.hero_position = Hero
  BY DEF IsWagerView
<1>7. wagers = {} => recorded = <<>> \/ street # "preflop"
  <2> SUFFICES ASSUME wagers = {}, recorded # <<>>, street = "preflop" PROVE FALSE
    OBVIOUS
  <2>1. recorded = log
    BY DEF IsWagerView, Recorded
  <2> HIDE DEF recorded
  <2>2. PICK i \in DOMAIN recorded : recorded[i].amount = wager
    BY <1>1, <2>1, WagerIsOnRecord
  <2>3. wager \in wagers
    BY <1>1, <2>2, NoneAssumption
  <2> QED
    BY <2>3
<1>8. \/ OpponentWager(s) = s.opponent_wager /\ s.opponent_wager # None
      \/ wagers # {} /\ OpponentWager(s) = Max(wagers)
      \/ /\ s.opponent_wager = None /\ wagers = {}
         /\ street = "preflop" /\ s.facing_action = "raise" /\ s.preflop_open_size # None
         /\ Near(s.preflop_open_size, AmountToCall + Posted[Hero])
         /\ OpponentWager(s) = s.preflop_open_size
      \/ street # "preflop" /\ s.facing_action = "bet" /\ OpponentWager(s) = AmountToCall
  BY <1>2, <1>6 DEF OpponentWager, Known
<1> HIDE DEF recorded, wagers, amounts
<1> QED
  BY <1>3, <1>4, <1>5, <1>6, <1>7, <1>8

\* And what is left of it after the amount to call is what hero has in.
LEMMA HeroWagerIsTold ==
    ASSUME TableInv, Decides, AmountToCall > 0, NEW s, IsWagerView(s)
    PROVE  HeroWager(s, wager) = put[Hero]
<1>1. wager \in Nat /\ put[Hero] \in Nat /\ put[Hero] <= wager /\ ToCall \in Nat
  BY DecisionFacts
<1>2. AmountToCall = wager - put[Hero]
  BY <1>1 DEF AmountToCall, ToCall
<1>3. Known(s.current_bet, 0) = AmountToCall
  BY <1>1, <1>2, NoneAssumption DEF IsWagerView, Known
<1>4. HeroWager(s, wager) = Bigger(0, wager - AmountToCall)
  BY <1>3 DEF HeroWager
<1> QED
  BY <1>1, <1>2, <1>4 DEF Bigger

\* What one seat of the opponents has in.
OpponentPut(seat) == IF seat \in live \ {Hero} THEN put[seat] ELSE 0

\* What the opponents have in, seat by seat.
LEMMA OpponentsPutFacts ==
    ASSUME TableInv, Decides
    PROVE  /\ OpponentsPut = OpponentPut(1) + OpponentPut(2) + OpponentPut(3)
                           + OpponentPut(4) + OpponentPut(5) + OpponentPut(6)
           /\ \A seat \in 1 .. 6 : OpponentPut(seat) \in Nat
           /\ OpponentsPut \in Nat
<1>1. OpponentsPut = OpponentPut(1) + OpponentPut(2) + OpponentPut(3)
                   + OpponentPut(4) + OpponentPut(5) + OpponentPut(6)
  BY SixSeats DEF OpponentsPut, SumOfSix, OpponentPut
<1>2. \A seat \in 1 .. 6 : OpponentPut(seat) \in Nat
  BY OpponentsFacts DEF OpponentPut
<1>3. /\ OpponentPut(1) \in Nat /\ OpponentPut(2) \in Nat /\ OpponentPut(3) \in Nat
      /\ OpponentPut(4) \in Nat /\ OpponentPut(5) \in Nat /\ OpponentPut(6) \in Nat
  BY <1>2
<1> QED
  BY <1>1, <1>2, <1>3

\* Where all opponents are at the wager, they have it in as many times.
LEMMA AllAtTheWager ==
    ASSUME TableInv, Decides, Matched = Cardinality(live \ {Hero})
    PROVE  OpponentsPut = wager * Cardinality(live \ {Hero})
<1> DEFINE others == live \ {Hero}
           matched == {seat \in live \ {Hero} : put[seat] = wager}
           w == wager
           n == Cardinality(others)
<1>1. others \in SUBSET (1 .. 6) /\ IsFiniteSet(others) /\ n \in 1 .. 5
  BY OpponentsFacts
<1>2. matched = others
  <2>1. matched \in SUBSET others
    OBVIOUS
  <2>2. Cardinality(matched) = Cardinality(others)
    BY DEF Matched
  <2> HIDE DEF matched, others
  <2> QED
    BY <1>1, <2>1, <2>2, FS_Subset
<1>3. \A seat \in others : put[seat] = w
  BY <1>2
<1>4. \A seat : OpponentPut(seat) = IF Counts(others, seat) = 1 THEN w ELSE 0
  BY <1>3 DEF OpponentPut, Counts
<1>5. w \in Nat
  BY DecisionFacts
<1>6. n = Counts(others, 1) + Counts(others, 2) + Counts(others, 3)
        + Counts(others, 4) + Counts(others, 5) + Counts(others, 6)
  <2> HIDE DEF others
  <2> QED
    BY <1>1, SeatCount
<1>7. \A seat : Counts(others, seat) \in {0, 1}
  BY DEF Counts
<1>8. OpponentsPut = OpponentPut(1) + OpponentPut(2) + OpponentPut(3)
                   + OpponentPut(4) + OpponentPut(5) + OpponentPut(6)
  BY OpponentsPutFacts
<1> HIDE DEF w, n, others
<1> DEFINE c1 == Counts(others, 1) c2 == Counts(others, 2) c3 == Counts(others, 3)
           c4 == Counts(others, 4) c5 == Counts(others, 5) c6 == Counts(others, 6)
<1>9. /\ c1 \in {0, 1} /\ c2 \in {0, 1} /\ c3 \in {0, 1}
      /\ c4 \in {0, 1} /\ c5 \in {0, 1} /\ c6 \in {0, 1}
  BY <1>7
<1>10. n = c1 + c2 + c3 + c4 + c5 + c6
  BY <1>6
<1>11. OpponentsPut = (IF c1 = 1 THEN w ELSE 0) + (IF c2 = 1 THEN w ELSE 0) + (IF c3 = 1 THEN w ELSE 0)
                    + (IF c4 = 1 THEN w ELSE 0) + (IF c5 = 1 THEN w ELSE 0) + (IF c6 = 1 THEN w ELSE 0)
  BY <1>4, <1>8
<1> HIDE DEF c1, c2, c3, c4, c5, c6
<1>12. OpponentsPut = w * n
  <2>1. CASE n = 1
    BY <1>5, <1>9, <1>10, <1>11, <2>1
  <2>2. CASE n = 2
    BY <1>5, <1>9, <1>10, <1>11, <2>2
  <2>3. CASE n = 3
    BY <1>5, <1>9, <1>10, <1>11, <2>3
  <2>4. CASE n = 4
    BY <1>5, <1>9, <1>10, <1>11, <2>4
  <2>5. CASE n = 5
    BY <1>5, <1>9, <1>10, <1>11, <2>5
  <2> QED
    BY <1>1, <2>1, <2>2, <2>3, <2>4, <2>5
<1> QED
  BY <1>12 DEF w, n, others

\* As many others on record as opponents are the opponents.
LEMMA OthersAreOpponents ==
    ASSUME TableInv, Decides, street = "preflop",
           Cardinality(Actors \ {Hero}) = Cardinality(live \ {Hero})
    PROVE  Actors \ {Hero} = live \ {Hero}
<1>1. Actors \in SUBSET (1 .. 6)
  BY LogFacts, DecisionFacts DEF Actors
<1> HIDE DEF Actors
<1>2. IsFiniteSet(Actors \ {Hero}) /\ IsFiniteSet(live \ {Hero})
  BY <1>1, SeatCount, OpponentsFacts
<1>3. CASE live \subseteq Actors
  <2>1. live \ {Hero} \in SUBSET (Actors \ {Hero})
    BY <1>3
  <2> QED
    BY <1>2, <2>1, FS_Subset
<1>4. CASE ~ (live \subseteq Actors)
  <2>1. owes # {}
    BY DEF Decides, Acts
  <2>2. \A seat \in Actors : seat \in live
    BY <1>4, <2>1, FirstLapFacts
  <2>3. Actors \ {Hero} \in SUBSET (live \ {Hero})
    BY <2>2
  <2> QED
    BY <1>2, <2>3, FS_Subset
<1> QED
  BY <1>3, <1>4

\* What a seat on record has put in at most is what it has in.
LEMMA MostIsPut ==
    ASSUME TableInv, street = "preflop", NEW s, s.preflop_action_history = log, NEW seat \in Actors
    PROVE  Max({Amount(s, i) : i \in {j \in DOMAIN s.preflop_action_history : Actor(s, j) = seat}})
              = put[seat]
<1> DEFINE own == {j \in DOMAIN s.preflop_action_history : Actor(s, j) = seat}
           amounts == {Amount(s, i) : i \in own}
<1>1. PICK j \in DOMAIN log : log[j].actor = seat
  BY DEF Actors
<1>2. /\ seat \in Dealt /\ Posted[seat] \in {0, 50, 100} /\ put[seat] \in Nat
      /\ log[j].amount \in Nat /\ log[j].amount >= Posted[seat] + 50 /\ log[j].amount <= put[seat]
  BY <1>1, EntryFacts
<1>3. put[seat] # Posted[seat]
  BY <1>2
<1>4. \E i \in DOMAIN log : log[i].actor = seat /\ log[i].amount = put[seat]
  BY <1>2, <1>3 DEF TableInv, BookInv
<1>5. \A i \in own : Amount(s, i) \in Nat /\ Amount(s, i) <= put[seat]
  BY EntryFacts DEF Actor, Amount
<1>6. put[seat] \in amounts
  BY <1>4 DEF Actor, Amount
<1>7. amounts \in SUBSET Int /\ \A k \in amounts : k <= put[seat]
  BY <1>5
<1> HIDE DEF amounts
<1>8. Max(amounts) = put[seat]
  BY <1>6, <1>7, MaxIs
<1> QED
  BY <1>8 DEF amounts

\* What all opponents have in is what is taken for it.
LEMMA CommitmentIsTold ==
    ASSUME TableInv, Decides, AmountToCall > 0, NEW s, IsWagerView(s), NEW own,
           OpponentCommitment(s, wager, Matched, own) # None
    PROVE  OpponentCommitment(s, wager, Matched, own) = OpponentsPut
<1>1. AmountToCall \in Nat /\ ~ (Known(s.current_bet, 0) <= 0)
  <2>1. AmountToCall \in Nat
    BY DecisionFacts DEF AmountToCall
  <2> QED
    BY <2>1, NoneAssumption DEF IsWagerView, Known
<1>2. Opponents(s) = Cardinality(live \ {Hero}) /\ Opponents(s) \in 1 .. 5
  BY OpponentsOf
<1>3. s.hero_position = Hero /\ s.hero_position # None
  <2>1. Hero \in 1 .. 6
    BY DecisionFacts
  <2> QED
    BY <2>1, NoneAssumption DEF IsWagerView
<1> DEFINE actors == {Actor(s, i) : i \in DOMAIN s.preflop_action_history}
           others == actors \ {Hero}
           known == Commitments(s, others)
<1>4. ASSUME street = "preflop", s.preflop_action_history # <<>>, Cardinality(others) = Opponents(s)
      PROVE  Total(known) = OpponentsPut
  <2>1. s.preflop_action_history = log
    BY <1>4 DEF IsWagerView
  <2>2. actors = Actors
    BY <2>1 DEF Actors, Actor
  <2>3. others = live \ {Hero} /\ others \in SUBSET Actors
    <3> HIDE DEF actors
    <3> QED
      BY <1>2, <1>4, <2>2, OthersAreOpponents
  <2>4. \A seat \in others : known[seat] = put[seat]
    <3> TAKE seat \in others
    <3>1. seat \in Actors
      BY <2>3
    <3>2. known[seat] = Max({Amount(s, i) :
                          i \in {j \in DOMAIN s.preflop_action_history : Actor(s, j) = seat}})
      BY DEF Commitments
    <3> QED
      BY <1>4, <2>1, <3>1, <3>2, MostIsPut
  <2>5. DOMAIN known = others
    BY DEF Commitments
  <2> DEFINE in(seat) == IF seat \in DOMAIN known THEN known[seat] ELSE 0
  <2>6. Total(known) = in(1) + in(2) + in(3) + in(4) + in(5) + in(6)
    <3> HIDE DEF known
    <3> QED
      BY SixSeats DEF Total, SumOfSix
  <2>7. \A seat : in(seat) = OpponentPut(seat)
    <3> HIDE DEF known, others
    <3> QED
      BY <2>3, <2>4, <2>5 DEF OpponentPut
  <2> HIDE DEF in
  <2> QED
    BY <2>6, <2>7, OpponentsPutFacts
<1>5. ASSUME Matched = Opponents(s)
      PROVE  wager * Opponents(s) = OpponentsPut
  BY <1>2, <1>5, AllAtTheWager
<1>6. street # "preflop" => Matched = Opponents(s)
  <2> SUFFICES ASSUME street # "preflop" PROVE Matched = Opponents(s)
    OBVIOUS
  <2>1. ToCall > 0
    BY DEF AmountToCall
  <2>2. {seat \in live \ {Hero} : put[seat] = wager} = live \ {Hero}
    BY <2>1, StreetWager
  <2> QED
    BY <1>2, <2>2 DEF Matched
<1>7. s.street = street /\ s.opponent_commitment_total \in {None, OpponentsPut}
  BY DEF IsWagerView
<1>8. \/ /\ s.opponent_commitment_total # None
         /\ OpponentCommitment(s, wager, Matched, own) = s.opponent_commitment_total
      \/ /\ street = "preflop" /\ s.preflop_action_history # <<>> /\ Cardinality(others) = Opponents(s)
         /\ OpponentCommitment(s, wager, Matched, own) = Total(known)
      \/ Matched = Opponents(s) /\ OpponentCommitment(s, wager, Matched, own) = wager * Opponents(s)
      \/ street # "preflop" /\ Matched # Opponents(s)
  BY <1>1, <1>3, <1>7 DEF OpponentCommitment
<1> HIDE DEF known, others
<1> QED
  BY <1>4, <1>5, <1>6, <1>7, <1>8

\* A share of all callers is all there is.
LEMMA AllOfIt ==
    ASSUME NEW total \in Int, NEW own \in Int, NEW size \in Int, NEW chips \in Int, NEW n \in 1 .. 5
    PROVE  chips + size + n * (size + own) - (total * n) \div n
             = chips + size + n * (own + size) - total
<1>1. CASE n = 1
  BY <1>1
<1>2. CASE n = 2
  BY <1>2
<1>3. CASE n = 3
  BY <1>3
<1>4. CASE n = 4
  BY <1>4
<1>5. CASE n = 5
  BY <1>5
<1> QED
  BY <1>1, <1>2, <1>3, <1>4, <1>5

\* What hero may add is an amount.
LEMMA SizesAreAmounts ==
    ASSUME TableInv, Decides, AmountToCall > 0, NEW s, IsWagerView(s), NEW size \in Sizes(s)
    PROVE  size \in Int
<1>1. /\ pot \in Nat /\ AmountToCall \in Nat /\ Known(s.pot_size, 0) = pot
      /\ Known(s.current_bet, 0) = AmountToCall
  <2>1. pot \in Nat /\ AmountToCall \in Nat
    BY DecisionFacts DEF AmountToCall
  <2> QED
    BY <2>1, NoneAssumption DEF IsWagerView, Known
<1>2. EffectiveStack(s) \in Int
  <2>1. Effective \in Nat
    <3>1. {stack[seat] : seat \in live} \in SUBSET Nat /\ {stack[seat] : seat \in live} # {}
      BY DecisionFacts DEF TypeInv
    <3> QED
      BY <3>1, MinIsLeast DEF Effective
  <2>2. s.effective_stack \in Int
    BY <2>1 DEF IsWagerView
  <2> QED
    BY <1>1, <2>2 DEF EffectiveStack, Bigger
<1>3. /\ Part(270, AmountToCall) \in Int /\ Part(340, AmountToCall) \in Int
      /\ Part(65, pot) \in Int /\ Part(90, pot) \in Int
  BY <1>1 DEF Part
<1> DEFINE targets == {Bigger(Part(270, AmountToCall), Part(65, pot)),
                       Bigger(Part(340, AmountToCall), Part(90, pot))}
<1>4. Sizes(s) = {Smaller(target, EffectiveStack(s)) : target \in targets}
  BY <1>1 DEF Sizes
<1>5. targets \subseteq Int
  BY <1>3 DEF Bigger
<1> HIDE DEF targets
<1>6. PICK target \in targets : size = Smaller(target, EffectiveStack(s))
  BY <1>4
<1>7. target \in Int
  BY <1>5
<1> QED
  BY <1>2, <1>6, <1>7 DEF Smaller

\* The invariant of the table implies it.
LEMMA WagersAreTrueHolds ==
    ASSUME TableInv
    PROVE  WagersAreTrue
<1> SUFFICES ASSUME Decides, AmountToCall > 0, NEW v \in Views, NEW s \in WagerFields(v),
                    OpponentWager(s) # None, ~ ReusesOpen(s)
             PROVE  LET told == OpponentWager(s)
                        own == HeroWager(s, told)
                        total == OpponentCommitment(s, told, Matched, own)
                    IN /\ told = wager
                       /\ own = put[Hero]
                       /\ total # None =>
                            /\ total = OpponentsPut
                            /\ \A size \in Sizes(s) :
                                 BranchPot(s, size, Opponents(s), total, own) = CalledPot(size)
  BY DEF WagersAreTrue
<1>1. IsWagerView(s)
  BY WagersSentAreViews DEF WagerFields
<1>2. OpponentWager(s) = wager /\ HeroWager(s, wager) = put[Hero]
  BY <1>1, WagerIsTold, HeroWagerIsTold
<1>3. OpponentCommitment(s, wager, Matched, put[Hero]) # None =>
        OpponentCommitment(s, wager, Matched, put[Hero]) = OpponentsPut
  BY <1>1, CommitmentIsTold
<1>4. \A size \in Sizes(s) : BranchPot(s, size, Opponents(s), OpponentsPut, put[Hero]) = CalledPot(size)
  <2> TAKE size \in Sizes(s)
  <2> DEFINE n == Cardinality(live \ {Hero})
             own == put[Hero]
  <2>1. Opponents(s) = n /\ n \in 1 .. 5
    BY <1>1, OpponentsOf
  <2>2. size \in Int
    BY <1>1, SizesAreAmounts
  <2>3. own \in Int /\ pot \in Int /\ OpponentsPut \in Int
    BY DecisionFacts, OpponentsPutFacts
  <2>4. Known(s.pot_size, 0) = pot
    BY <1>1, <2>3, NoneAssumption DEF IsWagerView, Known
  <2>5. CalledPot(size) = pot + size + n * (own + size) - OpponentsPut
    BY DEF CalledPot
  <2>6. BranchPot(s, size, Opponents(s), OpponentsPut, put[Hero])
          = pot + size + n * (size + own) - (OpponentsPut * n) \div n
    BY <2>1, <2>4 DEF BranchPot
  <2> HIDE DEF n, own
  <2> QED
    BY <2>1, <2>2, <2>3, <2>5, <2>6, AllOfIt
<1> QED
  BY <1>2, <1>3, <1>4

\* Where hero faces a wager, what the estimate takes for it, for hero's part of
\* it and for what all opponents have in is what they are, and the pot it
\* expects when all of them call is the one there would be (wager_context.py
\* and _continuation_branches).  Excepted is a reraise told by its open alone,
\* with no history and no wager, that asks of hero what the open would have
\* asked (ReusesOpen): the code takes the open for the wager there.
THEOREM WagersAreToldTruly == Spec => []WagersAreTrue
BY TableInvariant, WagersAreTrueHolds, PTL

-----------------------------------------------------------------------------
(***************************************************************************)
(* The advice of the chart                                                 *)
(***************************************************************************)

\* The hand that advice is asked for changes nothing else in a view.
LEMMA HandIsFree ==
    ASSUME NEW v, IsPreflopView(v), NEW hand
    PROVE  IsPreflopView([v EXCEPT !.hero_cards = hand])
<1>1. {"street", "hero_cards", "board_cards", "pot_size", "current_bet", "hero_stack", "opponent_stack",
       "effective_stack", "players_in_hand", "opponents_at_current_bet", "opponent_wager",
       "opponent_commitment_total", "hero_position", "opponent_position",
       "preflop_opener_position", "preflop_open_size", "preflop_action_history", "facing_action",
       "postflop_action_history", "completed_postflop_streets", "action_context"} = Fields
  BY DEF Fields, Shown
<1> HIDE DEF Fields
<1>2. DOMAIN v = Fields
  BY DEF IsPreflopView, IsView
<1>3. IsView([v EXCEPT !.hero_cards = hand])
  BY <1>1, <1>2 DEF IsPreflopView, IsView
<1>4. IsRecorded(v) => IsRecorded([v EXCEPT !.hero_cards = hand])
  BY <1>1, <1>2 DEF IsRecorded
<1>5. IsUnrecorded(v) => IsUnrecorded([v EXCEPT !.hero_cards = hand])
  BY <1>1, <1>2 DEF IsUnrecorded
<1> QED
  BY <1>3, <1>4, <1>5 DEF IsPreflopView

\* The shortest stack in the hand.
LEMMA EffectiveFacts ==
    ASSUME TableInv, Decides
    PROVE  /\ Effective \in Nat
           /\ \A seat \in live : stack[seat] \in Nat /\ Effective <= stack[seat]
           /\ \E seat \in live : Effective = stack[seat]
<1> DEFINE stacks == {stack[seat] : seat \in live}
<1>1. stacks \in SUBSET Nat /\ stacks # {} /\ \A seat \in live : stack[seat] \in Nat
  BY DecisionFacts DEF TypeInv
<1>2. Min(stacks) \in stacks /\ \A k \in stacks : Min(stacks) <= k
  <2> HIDE DEF stacks
  <2> QED
    BY <1>1, MinIsLeast
<1>3. Effective = Min(stacks)
  BY DEF Effective
<1>4. Effective \in stacks /\ \A k \in stacks : Effective <= k
  <2> HIDE DEF stacks
  <2> QED
    BY <1>2, <1>3
<1> QED
  BY <1>1, <1>4

\* Stacks of ten big blinds or more.
TenBlinds == \A p \in Profiles : \A seat \in DOMAIN p : p[seat] >= 1000

\* What the shortest stack has left of ten big blinds.
LEMMA DeepEnough ==
    ASSUME TableInv, Decides, street = "preflop", TenBlinds
    PROVE  Effective >= 1000 - wager
<1>1. PICK seat \in live : Effective = stack[seat]
  BY EffectiveFacts
<1>2. seat \in Dealt /\ wager \in Nat
  BY DecisionFacts
<1>3. /\ put[seat] \in Nat /\ stack[seat] \in Nat /\ put[seat] <= wager
      /\ put[seat] + stack[seat] = start[seat]
  BY <1>2 DEF TableInv, TypeInv, ChipsInv
<1>4. start[seat] >= 1000 /\ start[seat] \in Nat
  BY <1>2, ProfilesAssumption DEF TenBlinds, Dealt, TableInv, TypeInv
<1> QED
  BY <1>1, <1>2, <1>3, <1>4

\* Alone against the one who raised.
LEMMA OneOpponent ==
    ASSUME TableInv, Decides, street = "preflop", Raised # {}, Cardinality(live) = 2
    PROVE  \E r \in live : /\ r # Hero /\ live = {Hero, r} /\ r = LastRaise.actor
                           /\ stack[r] \in Nat /\ put[r] = wager
                           /\ OpponentTotal = wager + stack[r]
                           /\ Effective \in {stack[Hero], stack[r]}
<1> DEFINE r == LastRaise.actor
<1>1. r \in live /\ r # Hero /\ put[r] = wager
  BY RaiserFacts
<1>2. Hero \in live /\ wager \in Nat /\ \A seat \in live : stack[seat] \in Nat
  BY DecisionFacts, EffectiveFacts
<1> HIDE DEF r
<1>3. live = {Hero, r}
  <2>1. TypeInv /\ live \in SUBSET Dealt
    BY DecisionFacts
  <2>2. PICK a, b \in Dealt : a # b /\ live = {a, b}
    BY <2>1, PairOfSeats
  <2> QED
    BY <1>1, <1>2, <2>2
<1>4. OpponentTotal = wager + stack[r]
  <2> DEFINE totals == {put[seat] + stack[seat] : seat \in live \ {Hero}}
  <2>1. live \ {Hero} = {r}
    BY <1>1, <1>3
  <2>2. totals = {wager + stack[r]}
    BY <1>1, <2>1
  <2>3. wager + stack[r] \in Int
    BY <1>1, <1>2
  <2> HIDE DEF totals
  <2>4. Max(totals) = wager + stack[r]
    BY <2>2, <2>3, MaxIs
  <2> QED
    BY <2>4 DEF OpponentTotal, totals
<1>5. Effective \in {stack[Hero], stack[r]}
  BY <1>3, EffectiveFacts
<1> QED
  BY <1>1, <1>2, <1>3, <1>4, <1>5 DEF r

\* A raise of this size is legal.
Allows(size) ==
    /\ size > wager
    /\ size <= HeroTotal
    /\ Cardinality(live) = 2 =>
         size >= wager + added \/ size = HeroTotal \/ size = OpponentTotal

\* An answer to the wager is, if its raise is.
LEMMA LegalResponse ==
    ASSUME ToCall \in Nat, ToCall > 0, NEW strength, NEW policy, NEW size,
           size > wager => Allows(size)
    PROVE  IsLegal(Respond(strength, policy, size, wager))
<1>1. CASE size > wager /\ strength <= policy.raise
  BY <1>1 DEF Respond, Advice, IsLegal, Allows
<1>2. CASE ~ (size > wager /\ strength <= policy.raise)
  BY <1>2 DEF Respond, Advice, IsLegal
<1> QED
  BY <1>1, <1>2

\* A reraise by one whose stack is known, to twice the wager, or to all that
\* it has or the raiser can match.
LEMMA LegalReraise ==
    ASSUME TableInv, Decides, street = "preflop", Raised # {},
           NEW s, IsPreflopView(s), s.hero_stack # None,
           NEW own \in Nat, own <= put[Hero], Cardinality(live) = 2 => own = put[Hero],
           NEW size \in Int, size > wager, size <= MaximumTotal(s, own, wager),
           size = MaximumTotal(s, own, wager) \/ size >= 2 * wager
    PROVE  Allows(size)
<1> DEFINE most == MaximumTotal(s, own, wager)
<1>1. /\ wager \in Nat /\ put[Hero] \in Nat /\ stack[Hero] \in Nat /\ put[Hero] <= wager
      /\ Effective \in Nat /\ Effective <= stack[Hero]
  BY DecisionFacts, EffectiveFacts
<1>2. s.hero_stack = stack[Hero] /\ s.effective_stack = Effective
  BY DEF IsPreflopView, IsView
<1>3. most = IF stack[Hero] + own <= Effective + wager THEN stack[Hero] + own ELSE Effective + wager
  BY <1>2 DEF MaximumTotal, Smaller
<1>4. added \in Nat /\ added <= wager
  BY DEF TableInv, TypeInv, WagerInv
<1>5. size <= HeroTotal
  <2>1. most <= stack[Hero] + own
    BY <1>1, <1>3
  <2> HIDE DEF most
  <2>2. most \in Int
    BY <1>1, <1>3
  <2>3. size <= most
    BY DEF most
  <2> QED
    BY <1>1, <2>1, <2>2, <2>3 DEF HeroTotal
<1>6. ASSUME Cardinality(live) = 2
      PROVE  size >= wager + added \/ size = HeroTotal \/ size = OpponentTotal
  <2>1. PICK r \in live : /\ stack[r] \in Nat /\ OpponentTotal = wager + stack[r]
                          /\ Effective \in {stack[Hero], stack[r]}
    BY <1>6, OneOpponent
  <2>2. CASE size >= 2 * wager
    BY <1>1, <1>4, <2>2
  <2>3. CASE size = most
    <3>1. own = put[Hero]
      BY <1>6
    <3>2. CASE Effective = stack[Hero]
      BY <1>1, <1>3, <2>3, <3>1, <3>2 DEF HeroTotal
    <3>3. CASE Effective = stack[r]
      BY <1>1, <1>3, <2>1, <2>3, <3>1, <3>3 DEF HeroTotal
    <3> QED
      BY <2>1, <3>2, <3>3
  <2> QED
    BY <2>2, <2>3
<1> QED
  BY <1>5, <1>6 DEF Allows

\* The size of a reraise is not above the most, and is that or the multiple.
LEMMA ReraiseFacts ==
    ASSUME TableInv, Decides, street = "preflop", NEW s, IsPreflopView(s),
           NEW multiple \in 3 .. 7, NEW most \in Int
    PROVE  LET size == ReraiseSize(s, wager, multiple, most)
           IN  size \in Int /\ size <= most /\ (size = most \/ size >= 3 * wager)
<1>1. s.pot_size = pot /\ pot \in Nat /\ wager \in Nat
  BY DecisionFacts DEF IsPreflopView, IsView
<1> DEFINE target == Bigger(multiple * wager, (11 * pot + 5) \div 10)
<1>2. (11 * pot + 5) \div 10 \in Int
  BY <1>1
<1>3. multiple * wager \in Int /\ multiple * wager >= 3 * wager
  <2>1. multiple \in {3, 4, 5, 6, 7}
    OBVIOUS
  <2> QED
    BY <1>1, <2>1
<1>4. target \in Int /\ target >= 3 * wager
  <2> DEFINE m == multiple * wager e == (11 * pot + 5) \div 10
  <2>1. m \in Int /\ e \in Int /\ m >= 3 * wager
    BY <1>2, <1>3
  <2>2. target = Bigger(m, e)
    OBVIOUS
  <2> HIDE DEF m, e, target
  <2> QED
    BY <1>1, <2>1, <2>2 DEF Bigger
<1>5. ReraiseSize(s, wager, multiple, most) = Smaller(target, most)
  BY <1>1 DEF ReraiseSize
<1> HIDE DEF target
<1> QED
  BY <1>1, <1>4, <1>5 DEF Smaller

\* The same of a 4-bet.
LEMMA FourBetFacts ==
    ASSUME TableInv, Decides, street = "preflop", NEW s, IsPreflopView(s), NEW most \in Int
    PROVE  LET size == FourBetSize(s, wager, most)
           IN  size \in Int /\ size <= most /\ (size = most \/ size >= 2 * wager)
<1>1. s.pot_size = pot /\ pot \in Nat /\ wager \in Nat
  BY DecisionFacts DEF IsPreflopView, IsView
<1> DEFINE m == (22 * wager + 5) \div 10 e == (9 * pot + 5) \div 10
           target == Bigger(m, e)
<1>2. m \in Int /\ e \in Int /\ m >= 2 * wager
  BY <1>1
<1>3. FourBetSize(s, wager, most) = Smaller(target, most)
  BY <1>1 DEF FourBetSize
<1> HIDE DEF m, e
<1>4. target \in Int /\ target >= 2 * wager
  BY <1>1, <1>2 DEF Bigger
<1> HIDE DEF target
<1> QED
  BY <1>1, <1>3, <1>4 DEF Smaller

\* The most is an amount.
LEMMA MostIsAmount ==
    ASSUME TableInv, Decides, street = "preflop", NEW s, IsPreflopView(s), NEW own \in Nat
    PROVE  MaximumTotal(s, own, wager) \in Int
<1>1. /\ wager \in Nat /\ stack[Hero] \in Nat /\ Effective \in Nat
  BY DecisionFacts, EffectiveFacts
<1>2. s.hero_stack \in {stack[Hero], None} /\ s.effective_stack = Effective
  BY DEF IsPreflopView, IsView
<1> QED
  BY <1>1, <1>2 DEF MaximumTotal, Smaller

\* Which of the solvers answers a spot.
LEMMA Dispatch ==
    ASSUME NEW s, NEW c
    PROVE  LET strength == TopFraction[s.hero_cards]
               depth == DepthFor(s.effective_stack)
           IN /\ c.scenario = "big_blind_option" => AdviceIn(s, c) = Advice("check", None)
              /\ c.scenario = "first_in" => AdviceIn(s, c) = SolveFirstIn(s, c, strength, depth)
              /\ c.scenario = "limped_big_blind" => AdviceIn(s, c) = SolveLimped(s, c, strength, depth)
              /\ c.scenario = "facing_isolation_raise_after_limp" =>
                    AdviceIn(s, c) = SolveIsolation(s, c, strength, depth)
              /\ c.scenario = "facing_limp_reraise" =>
                    AdviceIn(s, c) = SolveLimpReraise(s, c, strength, depth)
              /\ c.scenario \in {"facing_three_bet", "facing_cold_three_bet",
                                 "facing_squeeze_after_call"} =>
                    AdviceIn(s, c) = SolveThreeBet(s, c, strength, depth)
              /\ c.scenario \in {"facing_four_bet", "facing_cold_four_bet"} =>
                    AdviceIn(s, c) = SolveFourBet(s, c, strength, depth)
              /\ c.scenario \in {"facing_open_raise", "facing_open_with_callers"} =>
                    AdviceIn(s, c) = SolveOpen(s, c, strength, depth)
BY DEF AdviceIn

\* An answer of one whose stack is known to a raise, as LegalReraise has it.
LEMMA AnswerIsLegal ==
    ASSUME TableInv, Decides, street = "preflop", AmountToCall > 0, Raised # {},
           NEW s, IsPreflopView(s), s.hero_stack # None,
           NEW own \in Nat, own <= put[Hero], Cardinality(live) = 2 => own = put[Hero],
           NEW size \in Int, size <= MaximumTotal(s, own, wager),
           size = MaximumTotal(s, own, wager) \/ size >= 2 * wager,
           NEW strength, NEW policy
    PROVE  IsLegal(Respond(strength, policy, size, wager))
<1>1. ToCall \in Nat /\ ToCall > 0
  BY DecisionFacts DEF AmountToCall
<1>2. size > wager => Allows(size)
  BY LegalReraise
<1> QED
  BY <1>1, <1>2, LegalResponse

\* The answer to a raise behind hero's limp.
LEMMA IsolationAdviceIsLegal ==
    ASSUME TableInv, Decides, street = "preflop", AmountToCall > 0, Raised # {},
           NEW s, IsPreflopView(s), s.hero_stack # None,
           NEW c, c.scenario = "facing_isolation_raise_after_limp",
           c.raise_size = wager, c.hero_prior = put[Hero], AdviceIn(s, c) # None
    PROVE  IsLegal(AdviceIn(s, c))
<1> DEFINE most == MaximumTotal(s, put[Hero], wager)
           size == ReraiseSize(s, wager, 3, most)
<1>1. \E strength, policy : AdviceIn(s, c) = Respond(strength, policy, size, wager)
  BY Dispatch DEF SolveIsolation
<1>2. put[Hero] \in Nat /\ wager \in Nat
  BY DecisionFacts
<1>3. most \in Int
  BY <1>2, MostIsAmount
<1> HIDE DEF most
<1>4. size \in Int /\ size <= most /\ (size = most \/ size >= 3 * wager)
  BY <1>3, ReraiseFacts
<1> HIDE DEF size
<1>5. size = most \/ size >= 2 * wager
  BY <1>2, <1>4
<1> QED
  BY <1>1, <1>2, <1>4, <1>5, AnswerIsLegal DEF most

\* The answer to a limper's raise of hero's raise.
LEMMA LimpReraiseAdviceIsLegal ==
    ASSUME TableInv, Decides, street = "preflop", AmountToCall > 0, Raised # {},
           NEW s, IsPreflopView(s), s.hero_stack # None,
           NEW c, c.scenario = "facing_limp_reraise",
           c.raise_size = wager, c.isolation = put[Hero], AdviceIn(s, c) # None
    PROVE  IsLegal(AdviceIn(s, c))
<1> DEFINE most == MaximumTotal(s, put[Hero], wager)
           size == FourBetSize(s, wager, most)
<1>1. \E strength, policy : AdviceIn(s, c) = Respond(strength, policy, size, wager)
  BY Dispatch DEF SolveLimpReraise
<1>2. put[Hero] \in Nat
  BY DecisionFacts
<1>3. most \in Int
  BY <1>2, MostIsAmount
<1> HIDE DEF most
<1>4. size \in Int /\ size <= most /\ (size = most \/ size >= 2 * wager)
  BY <1>3, FourBetFacts
<1> HIDE DEF size
<1> QED
  BY <1>1, <1>2, <1>4, AnswerIsLegal DEF most

\* What SolveThreeBet takes for what hero has in.
Committed(c) ==
    CASE c.scenario = "facing_squeeze_after_call" -> c.hero_prior
      [] c.scenario = "facing_cold_three_bet" -> Posted[c.hero]
      [] OTHER -> c.open_size

\* The answer to a 3-bet or a squeeze.
LEMMA ThreeBetAdviceIsLegal ==
    ASSUME TableInv, Decides, street = "preflop", AmountToCall > 0, Raised # {},
           NEW s, IsPreflopView(s), s.hero_stack # None,
           NEW c, c.scenario \in {"facing_three_bet", "facing_cold_three_bet",
                                  "facing_squeeze_after_call"},
           c.raise_size = wager, Committed(c) \in Nat, Committed(c) <= put[Hero],
           Cardinality(live) = 2 => Committed(c) = put[Hero], AdviceIn(s, c) # None
    PROVE  IsLegal(AdviceIn(s, c))
<1> DEFINE own == Committed(c)
           most == MaximumTotal(s, own, wager)
           size == FourBetSize(s, wager, most)
<1>1. \E strength, policy : AdviceIn(s, c) = Respond(strength, policy, size, wager)
  BY Dispatch DEF SolveThreeBet, Committed
<1>2. own \in Nat /\ own <= put[Hero] /\ (Cardinality(live) = 2 => own = put[Hero])
  OBVIOUS
<1> HIDE DEF own
<1>3. most \in Int
  BY <1>2, MostIsAmount
<1> HIDE DEF most
<1>4. size \in Int /\ size <= most /\ (size = most \/ size >= 2 * wager)
  BY <1>3, FourBetFacts
<1> HIDE DEF size
<1> QED
  BY <1>1, <1>2, <1>4, AnswerIsLegal DEF most

\* The answer to a 4-bet is all in.
LEMMA FourBetAdviceIsLegal ==
    ASSUME TableInv, Decides, street = "preflop", AmountToCall > 0, Raised # {},
           NEW s, IsPreflopView(s), s.hero_stack # None,
           NEW c, c.scenario \in {"facing_four_bet", "facing_cold_four_bet"},
           c.raise_size = wager, c.three_bet = put[Hero], AdviceIn(s, c) # None
    PROVE  IsLegal(AdviceIn(s, c))
<1> DEFINE most == MaximumTotal(s, put[Hero], wager)
<1>1. \E strength, policy : AdviceIn(s, c) = Respond(strength, policy, most, wager)
  BY Dispatch DEF SolveFourBet
<1>2. put[Hero] \in Nat
  BY DecisionFacts
<1>3. most \in Int /\ most <= most
  BY <1>2, MostIsAmount
<1> QED
  BY <1>1, <1>2, <1>3, AnswerIsLegal

\* Where one raise is on record, whoever is alone against the raiser is the big
\* blind: a seat behind hero has not acted yet.
LEMMA LastToAct ==
    ASSUME TableInv, Decides, street = "preflop", DOMAIN log = {1}, 1 \in Raised,
           Cardinality(live) = 2
    PROVE  Hero = BigBlind
<1>1. Raised # {} /\ LastRaise = log[1] /\ log[1].actor # Hero
  BY OneRaiseFacts
<1>2. PICK r \in live : live = {Hero, r} /\ r = log[1].actor
  BY <1>1, OneOpponent
<1>3. r \notin owes
  BY <1>1, <1>2, RaiserFacts
<1>4. Actors = {r}
  BY <1>2 DEF Actors
<1>5. Hero \in live /\ Hero \in owes /\ owes \subseteq live
  BY DecisionFacts DEF TypeInv
<1>6. ~ (live \subseteq Actors)
  BY <1>1, <1>2, <1>4, <1>5
<1>7. \A seat \in Dealt : seat >= Hero => seat \in owes
  BY <1>5, <1>6, FirstLapFacts DEF Hero
<1>8. BigBlind \in Dealt /\ BigBlind >= Hero
  <2>1. Hero \in 1 .. 6
    BY DecisionFacts
  <2> QED
    BY <2>1, DealtFacts DEF TableInv, TypeInv, BigBlind
<1>9. BigBlind \in owes
  BY <1>7, <1>8
<1> QED
  BY <1>2, <1>3, <1>5, <1>9

\* The raise of one whose stack is not known, to three times an open or to all
\* that the shorter one of the two has.
LEMMA LegalUnknown ==
    ASSUME TableInv, Decides, street = "preflop", TenBlinds, Raised # {}, wager <= 400,
           Cardinality(live) = 2 => DOMAIN log = {1} /\ 1 \in Raised,
           NEW size \in Int, size > wager, size <= Effective + Posted[Hero],
           size = Effective + Posted[Hero] \/ size >= 3 * wager
    PROVE  Allows(size)
<1>1. /\ wager \in Nat /\ put[Hero] \in Nat /\ stack[Hero] \in Nat /\ Hero \in live /\ Hero \in Dealt
      /\ Effective \in Nat /\ Effective <= stack[Hero]
  BY DecisionFacts, EffectiveFacts
<1>2. added \in Nat /\ added <= wager - 100
  <2>1. wager # 100 /\ added \in Nat
    BY RaisedFacts
  <2> QED
    BY <2>1 DEF TableInv, WagerInv
<1>3. Posted[Hero] \in Nat /\ put[Hero] >= Posted[Hero]
  <2>1. Posted[Hero] \in {0, 50, 100}
    BY <1>1, DealtFacts DEF TableInv, TypeInv
  <2> QED
    BY <1>1, <2>1 DEF TableInv, ChipsInv
<1>4. size <= HeroTotal
  <2> DEFINE posted == Posted[Hero]
  <2>1. posted \in Nat /\ size <= Effective + posted /\ put[Hero] >= posted
    BY <1>3
  <2> HIDE DEF posted
  <2> QED
    BY <1>1, <2>1 DEF HeroTotal
<1>5. ASSUME Cardinality(live) = 2
      PROVE  size >= wager + added
  <2>1. CASE size >= 3 * wager
    BY <1>1, <1>2, <2>1
  <2>2. CASE size = Effective + Posted[Hero]
    <3>1. Hero = BigBlind
      BY <1>5, LastToAct
    <3>2. Posted[Hero] = 100
      BY <3>1 DEF Posted, BigBlind
    <3>3. Effective >= 1000 - wager
      BY DeepEnough
    <3>4. size = Effective + 100
      BY <2>2, <3>2
    <3> QED
      BY <1>1, <1>2, <3>3, <3>4
  <2> QED
    BY <2>1, <2>2
<1> QED
  BY <1>4, <1>5 DEF Allows

\* The answer to an open, with or without callers.
LEMMA OpenAdviceIsLegal ==
    ASSUME TableInv, Decides, street = "preflop", TenBlinds, AmountToCall > 0, Raised # {}, wager <= 400,
           Cardinality(live) = 2 => DOMAIN log = {1} /\ 1 \in Raised,
           NEW s, IsPreflopView(s),
           NEW c, c.scenario \in {"facing_open_raise", "facing_open_with_callers"},
           c.hero = Hero, c.open_size = wager, Len(c.callers) \in 0 .. 4
    PROVE  IsLegal(AdviceIn(s, c))
<1> DEFINE own == Posted[Hero]
           most == MaximumTotal(s, own, wager)
           multiple == IF Len(c.callers) = 0 THEN 3 ELSE CALLERS[Len(c.callers)].multiple
           size == ReraiseSize(s, wager, multiple, most)
<1>1. \E strength, policy : AdviceIn(s, c) = Respond(strength, policy, size, wager)
  BY Dispatch DEF SolveOpen
<1>2. /\ wager \in Nat /\ put[Hero] \in Nat /\ Hero \in Dealt
      /\ ToCall \in Nat /\ ToCall > 0
  BY DecisionFacts DEF AmountToCall
<1>3. own \in Nat /\ own <= put[Hero] /\ (Cardinality(live) = 2 => own = put[Hero])
  <2>1. own \in {0, 50, 100}
    BY <1>2, DealtFacts DEF TableInv, TypeInv
  <2>2. own <= put[Hero]
    BY <1>2, <2>1 DEF TableInv, ChipsInv
  <2> QED
    BY <2>1, <2>2, OneRaiseFacts
<1>4. multiple \in 3 .. 7
  <2> DEFINE n == Len(c.callers)
  <2>1. n \in {0, 1, 2, 3, 4}
    OBVIOUS
  <2>2. multiple = IF n = 0 THEN 3 ELSE CALLERS[n].multiple
    OBVIOUS
  <2> HIDE DEF n, multiple
  <2> QED
    BY <2>1, <2>2 DEF CALLERS
<1> HIDE DEF multiple
<1>5. most \in Int /\ (s.hero_stack = None => most = Effective + own)
  <2>1. s.effective_stack = Effective
    BY DEF IsPreflopView, IsView
  <2>2. most \in Int
    BY <1>3, MostIsAmount
  <2> QED
    BY <2>1, <2>2 DEF MaximumTotal
<1> HIDE DEF most
<1>6. size \in Int /\ size <= most /\ (size = most \/ size >= 3 * wager)
  <2>1. multiple \in 3 .. 7 /\ most \in Int
    BY <1>4, <1>5
  <2> QED
    BY <2>1, ReraiseFacts, Zenon
<1> HIDE DEF size
<1>7. CASE s.hero_stack # None
  <2>1. size = most \/ size >= 2 * wager
    BY <1>2, <1>6
  <2> HIDE DEF own
  <2> QED
    BY <1>1, <1>3, <1>6, <1>7, <2>1, AnswerIsLegal DEF most
<1>8. CASE s.hero_stack = None
  <2>1. size > wager => Allows(size)
    BY <1>5, <1>6, <1>8, LegalUnknown
  <2> QED
    BY <1>1, <1>2, <2>1, LegalResponse
<1> QED
  BY <1>7, <1>8

\* The size of an open is one of three.
LEMMA OpeningFacts ==
    ASSUME NEW n \in Nat
    PROVE  DepthFor(n).opening \in {220, 230, 250}
<1> DEFINE fit == {i \in DOMAIN STACK_DEPTHS : \/ STACK_DEPTHS[i].maximum = None
                                               \/ 100 * n <= STACK_DEPTHS[i].maximum * 100}
<1>1. DOMAIN STACK_DEPTHS = {1, 2, 3, 4}
  BY DEF STACK_DEPTHS
<1>2. STACK_DEPTHS[4].maximum = None
  BY DEF STACK_DEPTHS, Depth
<1>3. 4 \in fit /\ fit \in SUBSET {1, 2, 3, 4}
  BY <1>1, <1>2
<1>4. DepthFor(n) = IF fit = {} THEN None ELSE STACK_DEPTHS[CHOOSE i \in fit : \A j \in fit : i <= j]
  BY DEF DepthFor, BandFor
<1> HIDE DEF fit
<1>5. fit \in SUBSET Nat /\ fit # {}
  BY <1>3
<1>6. \E i \in fit : \A j \in fit : i <= j
  BY <1>5, MinIsLeast
<1>7. PICK i \in fit : DepthFor(n) = STACK_DEPTHS[i]
  BY <1>4, <1>5, <1>6
<1>8. i \in {1, 2, 3, 4}
  BY <1>3
<1> QED
  BY <1>7, <1>8 DEF STACK_DEPTHS, Depth

\* Nobody has raised: the wager is the big blind, and who has not come in has
\* the blind in.
LEMMA UnraisedFacts ==
    ASSUME TableInv, Decides, street = "preflop", Raised = {}
    PROVE  /\ wager = 100 /\ added = 100
           /\ log = <<>> => put[Hero] = Posted[Hero]
           /\ Posted[Hero] \in {0, 50, 100} /\ (Posted[Hero] = 100 <=> Hero = BigBlind)
<1>1. wager = 100 /\ added = 100
  BY DEF TableInv, WagerInv
<1>2. Hero \in Dealt /\ Hero \in 1 .. 6
  BY DecisionFacts
<1>3. ASSUME log = <<>>
      PROVE  put[Hero] = Posted[Hero]
  <2>1. DOMAIN log = {}
    BY <1>3
  <2> QED
    BY <1>2, <2>1 DEF TableInv, BookInv
<1>4. Posted[Hero] \in {0, 50, 100} /\ (Posted[Hero] = 100 <=> Hero = BigBlind)
  BY <1>2 DEF Posted, BigBlind
<1> QED
  BY <1>1, <1>3, <1>4

\* The open of a seat that nobody came in before.
LEMMA FirstInAdviceIsLegal ==
    ASSUME TableInv, Decides, street = "preflop", TenBlinds, log = <<>>, Raised = {}, Hero # BigBlind,
           NEW s, IsPreflopView(s), NEW c, c.scenario = "first_in"
    PROVE  IsLegal(AdviceIn(s, c))
<1>1. s.effective_stack = Effective
  BY DEF IsPreflopView, IsView
<1>2. /\ Effective \in Nat /\ Effective <= stack[Hero] /\ stack[Hero] \in Nat
      /\ put[Hero] \in Nat /\ ToCall = wager - put[Hero]
  BY DecisionFacts, EffectiveFacts DEF ToCall
<1>3. wager = 100 /\ added = 100 /\ put[Hero] \in {0, 50}
  BY UnraisedFacts
<1>4. Effective >= 900
  BY <1>2, <1>3, DeepEnough
<1> DEFINE opening == DepthFor(Effective).opening
           size == Smaller(opening, Effective)
<1>5. opening \in {220, 230, 250}
  BY <1>2, OpeningFacts
<1>6. AdviceIn(s, c) = Advice("raise", size) \/ AdviceIn(s, c) = Advice("fold", None)
  BY <1>1, Dispatch DEF SolveFirstIn
<1> HIDE DEF opening
<1>7. size \in {220, 230, 250} /\ size <= stack[Hero]
  BY <1>2, <1>4, <1>5 DEF Smaller
<1> HIDE DEF size
<1>8. ToCall > 0 /\ size > wager /\ size <= HeroTotal /\ size >= wager + added
  BY <1>2, <1>3, <1>7 DEF HeroTotal
<1> QED
  BY <1>6, <1>8 DEF Advice, IsLegal

\* The big blind's isolation of limpers.
LEMMA LimpedAdviceIsLegal ==
    ASSUME TableInv, Decides, street = "preflop", TenBlinds, Raised = {}, ToCall = 0,
           NEW s, IsPreflopView(s),
           NEW c, c.scenario = "limped_big_blind", Len(c.limpers) \in Nat
    PROVE  IsLegal(AdviceIn(s, c))
<1>1. s.effective_stack = Effective /\ s.pot_size = pot
  BY DEF IsPreflopView, IsView
<1>2. /\ Effective \in Nat /\ Effective <= stack[Hero] /\ stack[Hero] \in Nat
      /\ put[Hero] \in Nat /\ pot \in Nat
  BY DecisionFacts, EffectiveFacts
<1>3. wager = 100 /\ added = 100 /\ put[Hero] = 100
  <2>1. wager = 100 /\ added = 100
    BY UnraisedFacts
  <2> QED
    BY <1>2, <2>1 DEF ToCall
<1>4. Effective >= 900
  BY <1>2, <1>3, DeepEnough
<1> DEFINE n == Len(c.limpers)
           a == 100 * (3 + n)
           b == (3 * pot + 1) \div 2
           size == Smaller(Bigger(a, b), Effective + 100)
<1>5. AdviceIn(s, c) = Advice("raise", size) \/ AdviceIn(s, c) = Advice("check", None)
  <2>1. \E strength, depth : AdviceIn(s, c) = SolveLimped(s, c, strength, depth)
    BY Dispatch
  <2>2. PICK strength, depth : AdviceIn(s, c) = SolveLimped(s, c, strength, depth)
    BY <2>1
  <2>3. SolveLimped(s, c, strength, depth) \in {Advice("raise", size), Advice("check", None)}
    <3> DEFINE strong == strength <= LimpRaiseFraction(LimpResponse(c.limpers), depth)
    <3>1. SolveLimped(s, c, strength, depth) =
             IF size > 100 /\ strong THEN Advice("raise", size) ELSE Advice("check", None)
      BY <1>1 DEF SolveLimped
    <3> HIDE DEF strong, size
    <3> QED
      BY <3>1
  <2> QED
    BY <2>2, <2>3
<1>6. a \in Int /\ a >= 300 /\ b \in Int
  <2>1. n \in Nat
    OBVIOUS
  <2> HIDE DEF n
  <2> QED
    BY <1>2, <2>1
<1> HIDE DEF a, b
<1>7. size \in Int /\ size >= 300 /\ size <= Effective + 100
  BY <1>2, <1>4, <1>6 DEF Smaller, Bigger
<1> HIDE DEF size
<1>8. size > wager /\ size <= HeroTotal /\ size >= wager + added
  BY <1>2, <1>3, <1>7 DEF HeroTotal
<1> QED
  BY <1>5, <1>8 DEF Advice, IsLegal

\* A raise behind hero's limp is answered as the rules allow.
LEMMA IsolationIsAnswered ==
    ASSUME TableInv, Decides, street = "preflop", AmountToCall > 0,
           NEW s, IsPreflopView(s), IsRecorded(s), Len(log) = 2, Calls(s, 1),
           IsolationContext(s, Hero) # None, AdviceIn(s, IsolationContext(s, Hero)) # None
    PROVE  IsLegal(AdviceIn(s, IsolationContext(s, Hero)))
<1> DEFINE context == [FacingRaise("facing_isolation_raise_after_limp", Hero, log[2].actor, log[2].amount)
                          EXCEPT !.limpers = <<Hero>>, !.hero_prior = log[1].amount]
<1>1. /\ DOMAIN log = 1 .. 2
      /\ \A i : /\ Actor(s, i) = log[i].actor /\ Amount(s, i) = log[i].amount
                /\ Calls(s, i) <=> log[i].action = "call"
                /\ Raises(s, i) <=> log[i].action = "raise"
      /\ \A i \in DOMAIN log : /\ log[i].action \in {"call", "raise"}
                               /\ i \in Raised <=> log[i].action = "raise"
  BY RecordFactsOf
<1>2. /\ IsolationContext(s, Hero) = context /\ log[1].actor = Hero /\ Raises(s, 2)
      /\ s.hero_stack # None
  BY <1>1 DEF IsolationContext, StackSupportsResponse
<1>3. 2 \in Raised /\ Raised # {}
  BY <1>1, <1>2
<1>4. /\ context.scenario = "facing_isolation_raise_after_limp"
      /\ context.raise_size = log[2].amount /\ context.hero_prior = log[1].amount
  BY DEF FacingRaise, Context
<1> HIDE DEF context
<1>5. log[2].amount = wager /\ log[1].amount = put[Hero]
  BY <1>2, <1>3, SecondRaises
<1> QED
  BY <1>2, <1>3, <1>4, <1>5, IsolationAdviceIsLegal

\* So is a limper's raise of hero's raise.
LEMMA LimpReraiseIsAnswered ==
    ASSUME TableInv, Decides, street = "preflop", AmountToCall > 0,
           NEW s, IsPreflopView(s), IsRecorded(s), Len(log) = 3, Calls(s, 1),
           LimpReraiseContext(s, Hero) # None, AdviceIn(s, LimpReraiseContext(s, Hero)) # None
    PROVE  IsLegal(AdviceIn(s, LimpReraiseContext(s, Hero)))
<1> DEFINE context == [FacingRaise("facing_limp_reraise", Hero, log[1].actor, log[3].amount)
                          EXCEPT !.limpers = <<log[1].actor>>, !.hero_prior = log[2].amount,
                                 !.isolation = log[2].amount]
<1>1. /\ DOMAIN log = 1 .. 3
      /\ \A i : /\ Actor(s, i) = log[i].actor /\ Amount(s, i) = log[i].amount
                /\ Calls(s, i) <=> log[i].action = "call"
                /\ Raises(s, i) <=> log[i].action = "raise"
      /\ \A i \in DOMAIN log : /\ log[i].action \in {"call", "raise"}
                               /\ i \in Raised <=> log[i].action = "raise"
  BY RecordFactsOf
<1>2. /\ LimpReraiseContext(s, Hero) = context /\ log[2].actor = Hero /\ Raises(s, 3)
      /\ s.hero_stack # None
  BY <1>1 DEF LimpReraiseContext, StackSupportsResponse
<1>3. 3 \in Raised /\ Raised # {}
  BY <1>1, <1>2
<1>4. /\ context.scenario = "facing_limp_reraise"
      /\ context.raise_size = log[3].amount /\ context.isolation = log[2].amount
  BY DEF FacingRaise, Context
<1> HIDE DEF context
<1>5. log[3].amount = wager /\ log[2].amount = put[Hero]
  BY <1>2, <1>3, ThirdRaises
<1> QED
  BY <1>2, <1>3, <1>4, <1>5, LimpReraiseAdviceIsLegal

\* So is a squeeze behind hero's call.
LEMMA SqueezeIsAnswered ==
    ASSUME TableInv, Decides, street = "preflop", AmountToCall > 0,
           NEW s, IsPreflopView(s), IsRecorded(s), Len(log) = 3, Raises(s, 3),
           SqueezeContext(s, Hero) # None, AdviceIn(s, SqueezeContext(s, Hero)) # None
    PROVE  IsLegal(AdviceIn(s, SqueezeContext(s, Hero)))
<1> DEFINE context == [FacingRaise("facing_squeeze_after_call", Hero, log[3].actor, log[3].amount) EXCEPT
                          !.opener = log[1].actor, !.open_size = log[1].amount,
                          !.hero_prior = log[2].amount]
<1>1. /\ DOMAIN log = 1 .. 3
      /\ \A i : /\ Actor(s, i) = log[i].actor /\ Amount(s, i) = log[i].amount
                /\ Calls(s, i) <=> log[i].action = "call"
                /\ Raises(s, i) <=> log[i].action = "raise"
      /\ \A i \in DOMAIN log : /\ log[i].action \in {"call", "raise"}
                               /\ i \in Raised <=> log[i].action = "raise"
  BY RecordFactsOf
<1>2. SqueezeContext(s, Hero) = context /\ log[2].actor = Hero /\ s.hero_stack # None
  BY <1>1 DEF SqueezeContext, StackSupportsResponse
<1>3. 3 \in Raised /\ Raised # {}
  BY <1>1
<1>4. /\ context.scenario = "facing_squeeze_after_call"
      /\ context.raise_size = log[3].amount /\ context.hero_prior = log[2].amount
  BY DEF FacingRaise, Context
<1> HIDE DEF context
<1>5. log[3].amount = wager /\ log[2].amount = put[Hero]
  BY <1>2, <1>3, ThirdRaises
<1>6. Committed(context) = put[Hero]
  BY <1>4, <1>5 DEF Committed
<1>7. put[Hero] \in Nat
  BY DecisionFacts
<1> QED
  BY <1>2, <1>3, <1>4, <1>5, <1>6, <1>7, ThreeBetAdviceIsLegal

\* What the context of a 4-bet is made of.
LEMMA FourBetShape ==
    ASSUME NEW s, NEW hero, FourBetContext(s, hero) # None
    PROVE  /\ Actor(s, 2) = hero /\ Raises(s, 3) /\ s.hero_stack # None
           /\ FourBetContext(s, hero).scenario \in {"facing_four_bet", "facing_cold_four_bet"}
           /\ FourBetContext(s, hero).raise_size = Amount(s, 3)
           /\ FourBetContext(s, hero).three_bet = Amount(s, 2)
<1> DEFINE scenario == IF Actor(s, 3) # Actor(s, 1) THEN "facing_cold_four_bet" ELSE "facing_four_bet"
           context == [FacingRaise(scenario, hero, Actor(s, 3), Amount(s, 3)) EXCEPT
                          !.opener = Actor(s, 1), !.open_size = Amount(s, 1),
                          !.three_bet = Amount(s, 2)]
<1>1. /\ FourBetContext(s, hero) = context /\ Actor(s, 2) = hero /\ Raises(s, 3)
      /\ s.hero_stack # None
  BY DEF FourBetContext, StackSupportsResponse
<1>2. /\ context.scenario = scenario /\ context.raise_size = Amount(s, 3)
      /\ context.three_bet = Amount(s, 2)
  BY DEF FacingRaise, Context
<1> HIDE DEF context
<1> QED
  BY <1>1, <1>2

\* So is a 4-bet of hero's 3-bet.
LEMMA FourBetIsAnswered ==
    ASSUME TableInv, Decides, street = "preflop", AmountToCall > 0,
           NEW s, IsPreflopView(s), IsRecorded(s), Len(log) = 3,
           FourBetContext(s, Hero) # None, AdviceIn(s, FourBetContext(s, Hero)) # None
    PROVE  IsLegal(AdviceIn(s, FourBetContext(s, Hero)))
<1> DEFINE c == FourBetContext(s, Hero)
<1>1. /\ DOMAIN log = 1 .. 3
      /\ \A i : /\ Actor(s, i) = log[i].actor /\ Amount(s, i) = log[i].amount
                /\ Raises(s, i) <=> log[i].action = "raise"
      /\ \A i \in DOMAIN log : i \in Raised <=> log[i].action = "raise"
  BY RecordFactsOf
<1>2. /\ Actor(s, 2) = Hero /\ Raises(s, 3) /\ s.hero_stack # None
      /\ c.scenario \in {"facing_four_bet", "facing_cold_four_bet"}
      /\ c.raise_size = Amount(s, 3) /\ c.three_bet = Amount(s, 2)
  BY FourBetShape
<1>3. c # None /\ AdviceIn(s, c) # None
  OBVIOUS
<1> HIDE DEF c
<1>4. 3 \in Raised /\ Raised # {} /\ log[2].actor = Hero
  BY <1>1, <1>2
<1>5. c.raise_size = wager /\ c.three_bet = put[Hero]
  BY <1>1, <1>2, <1>4, ThirdRaises
<1>6. IsLegal(AdviceIn(s, c))
  BY <1>2, <1>3, <1>4, <1>5, FourBetAdviceIsLegal
<1> QED
  BY <1>6 DEF c

\* So is a 3-bet, of hero's open or before hero acts; in the latter case three are
\* in the hand.
LEMMA ThreeBetIsAnswered ==
    ASSUME TableInv, Decides, street = "preflop", AmountToCall > 0,
           NEW s, IsPreflopView(s), IsRecorded(s), Len(log) = 2, ~ Calls(s, 2),
           ThreeBetContext(s, Hero) # None, AdviceIn(s, ThreeBetContext(s, Hero)) # None
    PROVE  IsLegal(AdviceIn(s, ThreeBetContext(s, Hero)))
<1> DEFINE scenario == IF log[1].actor = Hero THEN "facing_three_bet" ELSE "facing_cold_three_bet"
           context == [FacingRaise(scenario, Hero, log[2].actor, log[2].amount) EXCEPT
                          !.opener = log[1].actor, !.open_size = log[1].amount]
<1>1. /\ DOMAIN log = 1 .. 2
      /\ \A i : /\ Actor(s, i) = log[i].actor /\ Amount(s, i) = log[i].amount
                /\ Calls(s, i) <=> log[i].action = "call"
                /\ Raises(s, i) <=> log[i].action = "raise"
      /\ \A i \in DOMAIN log : /\ log[i].action \in {"call", "raise"}
                               /\ i \in Raised <=> log[i].action = "raise"
  BY RecordFactsOf
<1>2. /\ ThreeBetContext(s, Hero) = context /\ s.hero_stack # None
      /\ log[1].actor # Hero => s.players_in_hand = 3
  <2>1. /\ Actor(s, 1) = log[1].actor /\ Actor(s, 2) = log[2].actor
        /\ Amount(s, 1) = log[1].amount /\ Amount(s, 2) = log[2].amount
    BY <1>1
  <2>2. CASE log[1].actor = Hero
    BY <2>1, <2>2 DEF ThreeBetContext, StackSupportsResponse
  <2>3. CASE log[1].actor # Hero
    BY <2>1, <2>3 DEF ThreeBetContext, StackSupportsResponse
  <2> QED
    BY <2>2, <2>3
<1>3. 2 \in Raised /\ Raised # {}
  BY <1>1
<1>4. /\ context.scenario = scenario /\ context.hero = Hero
      /\ context.raise_size = log[2].amount /\ context.open_size = log[1].amount
  BY DEF FacingRaise, Context
<1> HIDE DEF context
<1>5. log[2].amount = wager /\ (log[1].actor = Hero => log[1].amount = put[Hero])
  BY <1>3, SecondRaises
<1>6. put[Hero] \in Nat /\ Hero \in Dealt /\ s.players_in_hand = Cardinality(live)
  BY DecisionFacts DEF IsPreflopView, IsView
<1>7. /\ Committed(context) \in Nat /\ Committed(context) <= put[Hero]
      /\ Cardinality(live) = 2 => Committed(context) = put[Hero]
  <2>1. CASE log[1].actor = Hero
    <3>1. Committed(context) = put[Hero]
      BY <1>4, <1>5, <2>1 DEF Committed
    <3> QED
      BY <1>6, <3>1
  <2>2. CASE log[1].actor # Hero
    <3>1. Committed(context) = Posted[Hero]
      BY <1>4, <2>2 DEF Committed
    <3>2. Posted[Hero] \in {0, 50, 100} /\ put[Hero] >= Posted[Hero]
      BY <1>6, DealtFacts DEF TableInv, TypeInv, ChipsInv
    <3>3. Cardinality(live) # 2
      BY <1>2, <1>6, <2>2
    <3> QED
      BY <1>6, <3>1, <3>2, <3>3
  <2> QED
    BY <2>1, <2>2
<1> QED
  BY <1>2, <1>3, <1>4, <1>5, <1>7, ThreeBetAdviceIsLegal

\* What a context of an open holds.
LEMMA FacingOpenFields ==
    ASSUME NEW scenario, NEW hero, NEW opener, NEW size, NEW callers
    PROVE  LET context == FacingOpen(scenario, hero, opener, size, callers)
           IN /\ context.scenario = scenario /\ context.hero = hero /\ context.opener = opener
              /\ context.open_size = size /\ context.aggressor = opener /\ context.raise_size = size
              /\ context.callers = callers
BY DEF FacingOpen, FacingRaise, Context

\* An open on record is answered as the rules allow.
LEMMA OpenIsAnswered ==
    ASSUME TableInv, Decides, street = "preflop", TenBlinds, AmountToCall > 0,
           NEW s, IsPreflopView(s), IsRecorded(s),
           Len(log) = 1, ~ Calls(s, 1), Amount(s, 1) \in SingleOpenSizes, OpenContext(s, Hero) # None
    PROVE  IsLegal(AdviceIn(s, OpenContext(s, Hero)))
<1> DEFINE context == FacingOpen("facing_open_raise", Hero, log[1].actor, log[1].amount, <<>>)
<1>1. /\ DOMAIN log = 1 .. 1 /\ Actor(s, 1) = log[1].actor /\ Amount(s, 1) = log[1].amount
      /\ 1 \in DOMAIN log /\ 1 \in Raised
  BY RecordFactsOf
<1>2. DOMAIN log = {1} /\ Raised # {}
  BY <1>1
<1>3. log[1].amount = wager /\ wager <= 400
  <2>1. log[1].amount = wager
    BY <1>1, <1>2, OneRaiseFacts
  <2> QED
    BY <1>1, <2>1 DEF SingleOpenSizes
<1>4. OpenContext(s, Hero) = context
  BY <1>1 DEF OpenContext
<1>5. /\ context.scenario = "facing_open_raise" /\ context.hero = Hero
      /\ context.open_size = log[1].amount /\ context.callers = <<>>
  BY FacingOpenFields
<1> HIDE DEF context
<1>6. Len(context.callers) \in 0 .. 4
  BY <1>5
<1> QED
  BY <1>1, <1>2, <1>3, <1>4, <1>5, <1>6, OpenAdviceIsLegal

\* What the context of an open that is not on record is made of.
LEMMA UnrecordedShape ==
    ASSUME NEW s, NEW hero, UnrecordedOpenContext(s, hero) # None
    PROVE  \E opener, size :
              /\ size \in SingleOpenSizes /\ opener # None
              /\ UnrecordedOpenContext(s, hero) =
                    FacingOpen("facing_open_raise", hero, opener, size, <<>>)
<1> DEFINE text == s.action_context
           opener == IF s.preflop_opener_position # None THEN s.preflop_opener_position
                     ELSE IF text = None THEN None ELSE text.opener
           told == IF text = None THEN None ELSE text.size
           size == Known(s.preflop_open_size, Known(told, s.current_bet + Posted[hero]))
<1>1. /\ size \in SingleOpenSizes /\ opener # None
      /\ UnrecordedOpenContext(s, hero) = FacingOpen("facing_open_raise", hero, opener, size, <<>>)
  BY Zenon DEF UnrecordedOpenContext
<1> QED
  BY <1>1, Zenon

\* So is one that is not on record.
LEMMA UnrecordedIsAnswered ==
    ASSUME TableInv, Decides, street = "preflop", TenBlinds, AmountToCall > 0, NEW s, IsPreflopView(s),
           s.preflop_action_history = <<>>, s.facing_action = "raise",
           UnrecordedOpenContext(s, Hero) # None
    PROVE  IsLegal(AdviceIn(s, UnrecordedOpenContext(s, Hero)))
<1>1. PICK opener, size : /\ size \in SingleOpenSizes /\ opener # None
                          /\ UnrecordedOpenContext(s, Hero) =
                                FacingOpen("facing_open_raise", Hero, opener, size, <<>>)
  BY UnrecordedShape
<1> DEFINE context == FacingOpen("facing_open_raise", Hero, opener, size, <<>>)
<1>2. /\ context.scenario = "facing_open_raise" /\ context.hero = Hero /\ context.opener = opener
      /\ context.open_size = size /\ context.aggressor = opener /\ context.raise_size = size
      /\ context.callers = <<>>
  BY FacingOpenFields
<1>3. IsTheSpot(context)
  BY <1>1, UnrecordedIsTheSpot
<1> HIDE DEF context
<1>4. size = wager /\ wager <= 400
  <2>1. context.aggressor # None
    BY <1>1, <1>2
  <2>2. context.raise_size = wager
    BY <1>3, <2>1, Zenon DEF IsTheSpot
  <2>3. size = wager
    BY <1>2, <2>2
  <2>4. size \in SingleOpenSizes
    BY <1>1
  <2>5. size <= 400
    BY <2>4 DEF SingleOpenSizes
  <2> QED
    BY <2>3, <2>5
<1>5. [i \in DOMAIN log |-> log[i].action] = <<"raise">>
  BY <1>2, <1>3 DEF IsTheSpot, ScenarioIsTrue
<1>6. DOMAIN log = {1} /\ log[1].action = "raise"
  <2> DEFINE kinds == [i \in DOMAIN log |-> log[i].action]
  <2>1. DOMAIN kinds = DOMAIN log /\ \A i \in DOMAIN log : kinds[i] = log[i].action
    OBVIOUS
  <2>2. kinds = <<"raise">>
    BY <1>5
  <2> HIDE DEF kinds
  <2>3. DOMAIN kinds = {1} /\ kinds[1] = "raise"
    BY <2>2
  <2> QED
    BY <2>1, <2>3
<1>7. 1 \in Raised /\ Raised # {}
  BY <1>6 DEF Raised
<1>8. Len(context.callers) \in 0 .. 4
  BY <1>2
<1> QED
  BY <1>1, <1>2, <1>4, <1>6, <1>7, <1>8, OpenAdviceIsLegal DEF context

\* What the context of an open with callers is made of.
LEMMA CallersShape ==
    ASSUME NEW s, NEW hero, CallersContext(s, hero) # None
    PROVE  LET history == s.preflop_action_history
               callers == [i \in 1 .. Len(history) - 1 |-> Actor(s, i + 1)]
           IN /\ \A i \in 2 .. Len(history) : Calls(s, i)
              /\ s.players_in_hand = Len(callers) + 2
              /\ CallersContext(s, hero) =
                    FacingOpen("facing_open_with_callers", hero, Actor(s, 1), Amount(s, 1), callers)
BY Zenon DEF CallersContext

\* So is one with callers: three or more are in the hand.
LEMMA CallersIsAnswered ==
    ASSUME TableInv, Decides, street = "preflop", TenBlinds, AmountToCall > 0,
           NEW s, IsPreflopView(s), IsRecorded(s), Len(log) \in 2 .. 5,
           ~ Calls(s, 1), Amount(s, 1) \in SingleOpenSizes, CallersContext(s, Hero) # None
    PROVE  IsLegal(AdviceIn(s, CallersContext(s, Hero)))
<1> DEFINE callers == [i \in 1 .. Len(log) - 1 |-> log[i + 1].actor]
           context == FacingOpen("facing_open_with_callers", Hero, log[1].actor, log[1].amount, callers)
<1>1. /\ s.preflop_action_history = log /\ DOMAIN log = 1 .. Len(log)
      /\ \A i : /\ Actor(s, i) = log[i].actor /\ Amount(s, i) = log[i].amount
                /\ Calls(s, i) <=> log[i].action = "call"
      /\ \A i \in DOMAIN log : /\ log[i].action \in {"call", "raise"}
                               /\ i \in Raised <=> log[i].action = "raise"
  BY RecordFactsOf
<1>2. /\ CallersContext(s, Hero) = context /\ \A i \in 2 .. Len(log) : Calls(s, i)
      /\ s.players_in_hand = Len(callers) + 2
  <2>1. callers = [i \in 1 .. Len(log) - 1 |-> Actor(s, i + 1)]
    BY <1>1
  <2>2. context = FacingOpen("facing_open_with_callers", Hero, Actor(s, 1), Amount(s, 1), callers)
    BY <1>1
  <2> HIDE DEF context, callers
  <2> QED
    BY <1>1, <2>1, <2>2, CallersShape
<1>3. 1 \in DOMAIN log /\ Raised = {1}
  <2>1. 1 \in DOMAIN log /\ 1 \in Raised
    BY <1>1
  <2>2. \A i \in DOMAIN log : i = 1 \/ log[i].action = "call"
    BY <1>1, <1>2
  <2>3. \A i \in DOMAIN log : i \in Raised => i = 1
    BY <1>1, <2>2
  <2> QED
    BY <2>1, <2>3 DEF Raised
<1>4. log[1].amount = wager /\ wager <= 400
  <2>1. Max(Raised) \in Raised /\ LastRaise.amount = wager
    BY <1>3, RaiserFacts
  <2>2. log[1].amount = wager
    BY <1>3, <2>1 DEF LastRaise
  <2>3. log[1].amount \in SingleOpenSizes
    BY <1>1
  <2> QED
    BY <2>2, <2>3 DEF SingleOpenSizes
<1>5. /\ context.scenario = "facing_open_with_callers" /\ context.hero = Hero
      /\ context.open_size = log[1].amount /\ context.callers = callers
  BY FacingOpenFields
<1>6. Len(callers) \in 1 .. 4
  <2> DEFINE n == Len(log)
  <2>1. n \in 2 .. 5 /\ callers = [i \in 1 .. n - 1 |-> log[i + 1].actor]
    OBVIOUS
  <2> HIDE DEF n
  <2>2. Len(callers) = n - 1
    BY <2>1
  <2> QED
    BY <2>1, <2>2
<1> HIDE DEF context, callers
<1>7. Cardinality(live) # 2
  <2>1. Cardinality(live) = Len(callers) + 2
    BY <1>2 DEF IsPreflopView, IsView
  <2>2. \A k \in 1 .. 4 : k + 2 # 2
    OBVIOUS
  <2> QED
    BY <1>6, <2>1, <2>2
<1>8. Len(context.callers) \in 0 .. 4
  BY <1>5, <1>6
<1> QED
  BY <1>2, <1>3, <1>4, <1>5, <1>7, <1>8, OpenAdviceIsLegal

\* Limpers are answered as the rules allow.
LEMMA LimpedIsAnswered ==
    ASSUME TableInv, Decides, street = "preflop", TenBlinds, AmountToCall <= 0,
           NEW s, IsPreflopView(s), IsRecorded(s), s.preflop_action_history # <<>>,
           LimpedContext(s, Hero) # None
    PROVE  IsLegal(AdviceIn(s, LimpedContext(s, Hero)))
<1> DEFINE limpers == [i \in 1 .. Len(log) |-> log[i].actor]
           context == [Context("limped_big_blind", Hero) EXCEPT !.limpers = limpers]
<1>1. s.facing_action = FacingAction /\ s.preflop_action_history = log /\ Len(log) \in Nat
  BY LogFacts DEF IsPreflopView, IsView, IsRecorded, TableInv
<1>2. s.facing_action = None /\ LimpedContext(s, Hero) = context
  BY <1>1 DEF LimpedContext, Actor
<1>3. Raised = {}
  BY <1>1, <1>2, CallFacts
<1>4. ToCall = 0
  <2>1. AmountToCall \in Nat /\ log # <<>>
    BY <1>1, CallFacts
  <2>2. AmountToCall = ToCall
    BY <2>1, CallFacts DEF ToCall
  <2> QED
    BY <2>1, <2>2
<1>5. context.scenario = "limped_big_blind" /\ context.limpers = limpers
  BY DEF Context
<1> HIDE DEF context
<1>6. Len(limpers) \in Nat
  <2> DEFINE n == Len(log)
  <2>1. n \in Nat /\ limpers = [i \in 1 .. n |-> log[i].actor]
    BY <1>1
  <2> HIDE DEF n, limpers
  <2>2. Len(limpers) = n
    BY <2>1
  <2> QED
    BY <2>1, <2>2
<1> HIDE DEF limpers
<1> QED
  BY <1>2, <1>3, <1>4, <1>5, <1>6, LimpedAdviceIsLegal

\* So is a pot that nobody has come in to.
LEMMA UnopenedIsAnswered ==
    ASSUME TableInv, Decides, street = "preflop", TenBlinds, NEW s, IsPreflopView(s),
           s.preflop_action_history = <<>>, UnopenedContext(s, Hero) # None
    PROVE  IsLegal(AdviceIn(s, UnopenedContext(s, Hero)))
<1> DEFINE context == UnopenedContext(s, Hero)
<1>1. context.scenario \in {"first_in", "big_blind_option"}
  BY DEF UnopenedContext, Context
<1>2. ScenarioIsTrue(context)
  BY UnopenedIsTheSpot DEF IsTheSpot
<1> HIDE DEF context
<1>3. CASE context.scenario = "first_in"
  <2>1. log = <<>> /\ Hero # BigBlind
    BY <1>2, <1>3 DEF ScenarioIsTrue
  <2>2. Raised = {}
    BY <2>1, CallFacts
  <2>3. IsLegal(AdviceIn(s, context))
    BY <1>3, <2>1, <2>2, FirstInAdviceIsLegal
  <2> QED
    BY <2>3 DEF context
<1>4. CASE context.scenario = "big_blind_option"
  <2>1. log = <<>> /\ Hero = BigBlind
    BY <1>2, <1>4 DEF ScenarioIsTrue
  <2>2. Raised = {}
    BY <2>1, CallFacts
  <2>3. ToCall = 0
    BY <2>1, <2>2, UnraisedFacts DEF ToCall
  <2>4. AdviceIn(s, context) = Advice("check", None)
    BY <1>4, Dispatch
  <2>5. IsLegal(Advice("check", None))
    BY <2>3 DEF Advice, IsLegal
  <2> QED
    BY <2>4, <2>5 DEF context
<1> QED
  BY <1>1, <1>3, <1>4

\* Whatever is on record is answered as the rules allow.
LEMMA RecordedIsAnswered ==
    ASSUME TableInv, Decides, street = "preflop", TenBlinds, AmountToCall > 0,
           NEW s, IsPreflopView(s), IsRecorded(s), s.preflop_action_history # <<>>,
           RecordedContext(s, Hero) # None, AdviceIn(s, RecordedContext(s, Hero)) # None
    PROVE  IsLegal(AdviceIn(s, RecordedContext(s, Hero)))
<1>1. s.preflop_action_history = log /\ Len(log) \in Nat
  BY RecordFactsOf
<1>2. Len(log) # 0
  <2>1. log \in Seq([actor : Dealt, action : {"call", "raise"}, amount : Nat])
    BY DEF TableInv, TypeInv
  <2> QED
    BY <1>1, <2>1, EmptySeq
<1>3. ~ (Len(log) > 5)
  BY <1>1 DEF RecordedContext
<1>4. CASE Calls(s, 1)
  <2>1. \/ Len(log) = 2 /\ RecordedContext(s, Hero) = IsolationContext(s, Hero)
        \/ Len(log) = 3 /\ RecordedContext(s, Hero) = LimpReraiseContext(s, Hero)
    BY <1>1, <1>4 DEF RecordedContext
  <2> QED
    BY <1>4, <2>1, IsolationIsAnswered, LimpReraiseIsAnswered
<1>5. CASE ~ Calls(s, 1)
  <2>1. Amount(s, 1) \in SingleOpenSizes
    BY <1>1, <1>5 DEF RecordedContext
  <2>2. CASE Len(log) = 1
    <3>1. RecordedContext(s, Hero) = OpenContext(s, Hero)
      BY <1>1, <1>5, <2>2 DEF RecordedContext
    <3> QED
      BY <1>5, <2>1, <2>2, <3>1, OpenIsAnswered
  <2>3. CASE Len(log) # 1 /\ Calls(s, 2) /\ Len(log) = 3 /\ Raises(s, 3)
    <3>1. RecordedContext(s, Hero) = SqueezeContext(s, Hero)
      BY <1>1, <1>5, <2>3 DEF RecordedContext
    <3> QED
      BY <2>3, <3>1, SqueezeIsAnswered
  <2>4. CASE Len(log) # 1 /\ Calls(s, 2) /\ ~ (Len(log) = 3 /\ Raises(s, 3))
    <3>1. RecordedContext(s, Hero) = CallersContext(s, Hero)
      BY <1>1, <1>5, <2>4 DEF RecordedContext
    <3>2. Len(log) \in 2 .. 5
      <4> DEFINE n == Len(log)
      <4>1. n \in Nat /\ n # 0 /\ n # 1 /\ ~ (n > 5)
        BY <1>1, <1>2, <1>3, <2>4
      <4> HIDE DEF n
      <4>2. n \in 2 .. 5
        BY <4>1
      <4> QED
        BY <4>2 DEF n
    <3> QED
      BY <1>5, <2>1, <3>1, <3>2, CallersIsAnswered
  <2>5. CASE Len(log) = 3 /\ ~ Calls(s, 2)
    <3>1. RecordedContext(s, Hero) = FourBetContext(s, Hero)
      BY <1>1, <1>5, <2>5 DEF RecordedContext
    <3> QED
      BY <2>5, <3>1, FourBetIsAnswered
  <2>6. CASE Len(log) # 1 /\ Len(log) # 3 /\ ~ Calls(s, 2)
    <3>1. RecordedContext(s, Hero) = ThreeBetContext(s, Hero) /\ ~ (Len(log) >= 4)
      BY <1>1, <1>5, <2>6 DEF RecordedContext
    <3>2. Len(log) = 2
      <4> DEFINE n == Len(log)
      <4>1. n \in Nat /\ n # 0 /\ n # 1 /\ n # 3 /\ ~ (n >= 4)
        BY <1>1, <1>2, <2>6, <3>1
      <4> HIDE DEF n
      <4>2. n = 2
        BY <4>1
      <4> QED
        BY <4>2 DEF n
    <3> QED
      BY <2>6, <3>1, <3>2, ThreeBetIsAnswered
  <2> QED
    BY <2>2, <2>3, <2>4, <2>5, <2>6
<1> QED
  BY <1>4, <1>5

\* Whatever view of the decision the chart is given, its advice is legal.
LEMMA ResolvedIsAnswered ==
    ASSUME TableInv, Decides, street = "preflop", TenBlinds, NEW s, IsPreflopView(s),
           ResolveContext(s) # None, AdviceIn(s, ResolveContext(s)) # None
    PROVE  IsLegal(AdviceIn(s, ResolveContext(s)))
<1>1. /\ s.hero_position = Hero /\ s.current_bet = AmountToCall
      /\ s.street = "preflop" /\ (s.preflop_action_history # <<>> => IsRecorded(s))
  BY DEF IsPreflopView, IsView, IsUnrecorded
<1>2. AmountToCall \in Nat /\ Known(s.current_bet, 0) = AmountToCall
  <2>1. AmountToCall \in Nat
    BY CallFacts
  <2> QED
    BY <1>1, <2>1, NoneAssumption DEF Known
<1>3. CASE AmountToCall <= 0 /\ s.preflop_action_history # <<>>
  <2>1. ResolveContext(s) = LimpedContext(s, Hero)
    BY <1>1, <1>2, <1>3 DEF ResolveContext
  <2> QED
    BY <1>1, <1>3, <2>1, LimpedIsAnswered
<1>4. CASE AmountToCall <= 0 /\ s.preflop_action_history = <<>>
  <2>1. ResolveContext(s) = UnopenedContext(s, Hero)
    BY <1>1, <1>2, <1>4 DEF ResolveContext
  <2> QED
    BY <1>4, <2>1, UnopenedIsAnswered
<1>5. CASE ~ (AmountToCall <= 0) /\ s.preflop_action_history # <<>>
  <2>1. ResolveContext(s) = RecordedContext(s, Hero) /\ AmountToCall > 0
    BY <1>1, <1>2, <1>5 DEF ResolveContext
  <2> QED
    BY <1>1, <1>5, <2>1, RecordedIsAnswered
<1>6. CASE ~ (AmountToCall <= 0) /\ s.preflop_action_history = <<>>
  <2>1. /\ ResolveContext(s) = UnrecordedOpenContext(s, Hero) /\ s.facing_action = "raise"
        /\ AmountToCall > 0
    BY <1>1, <1>2, <1>6 DEF ResolveContext
  <2> QED
    BY <1>6, <2>1, UnrecordedIsAnswered
<1> QED
  BY <1>3, <1>4, <1>5, <1>6

\* The invariant of the table implies it, with stacks of ten big blinds.
LEMMA AdviceIsLegalHolds ==
    ASSUME TableInv, TenBlinds
    PROVE  AdviceIsLegal
<1> SUFFICES ASSUME Decides, street = "preflop", NEW v \in PreflopViews, NEW hand \in Hands,
                    SolveChart([v EXCEPT !.hero_cards = hand]) # None
             PROVE  IsLegal(SolveChart([v EXCEPT !.hero_cards = hand]))
  BY DEF AdviceIsLegal
<1> DEFINE s == [v EXCEPT !.hero_cards = hand]
<1>1. IsPreflopView(s)
  BY PreflopViewsAreViews, HandIsFree
<1>2. SolveChart(s) # None
  OBVIOUS
<1> HIDE DEF s
<1>3. ResolveContext(s) # None /\ SolveChart(s) = AdviceIn(s, ResolveContext(s))
  BY <1>2 DEF SolveChart
<1>4. IsLegal(SolveChart(s))
  BY <1>1, <1>2, <1>3, ResolvedIsAnswered
<1> QED
  BY <1>4 DEF s

\* With all stacks from ten big blinds the chart advises only what the rules
\* allow, whatever part of the evidence it is shown and with any hand
\* (solve_preflop_chart and its sizes).
THEOREM ChartAdviceIsLegal ==
    ASSUME TenBlinds
    PROVE  Spec => []AdviceIsLegal
<1>1. TableInv => AdviceIsLegal
  BY AdviceIsLegalHolds
<1> QED
  BY <1>1, TableInvariant, PTL
-----------------------------------------------------------------------------
(***************************************************************************)
(* What a view of a decision after the flop shows                          *)
(***************************************************************************)

\* The parts of a state after the flop, when the two go by these names.
IsStreetView(s, p) ==
    /\ s.street = street
    /\ s.pot_size = pot
    /\ s.current_bet = AmountToCall
    /\ s.hero_stack \in {stack[Hero], None}
    /\ s.opponent_stack \in {stack[Opponent], None}
    /\ s.effective_stack = Effective
    /\ s.players_in_hand = Cardinality(live)
    /\ s.opponents_at_current_bet = None
    /\ s.opponent_wager = None
    /\ s.opponent_commitment_total = None
    /\ s.hero_position = p[1]
    /\ s.opponent_position = p[2]
    /\ s.preflop_opener_position = None
    /\ s.preflop_open_size = None
    /\ s.preflop_action_history = log
    /\ s.facing_action = FacingAction
    /\ s.postflop_action_history \in {actions, <<>>}
    /\ s.completed_postflop_streets \in {done, <<>>}

\* Nothing is left out.
IsWholeView(s, p) ==
    /\ IsStreetView(s, p)
    /\ s.hero_stack = stack[Hero]
    /\ s.opponent_stack = stack[Opponent]
    /\ s.postflop_action_history = actions
    /\ s.completed_postflop_streets = done

\* A whole state is a view.
LEMMA WholeViewIsView ==
    ASSUME NEW p
    PROVE  IsWholeView([PostflopShown EXCEPT !.hero_position = p[1], !.opponent_position = p[2]], p)
BY DEF IsWholeView, IsStreetView, PostflopShown, Shown, Effective

\* Every view of a decision after the flop shows what it shows as it is.
LEMMA PostflopViewsAreViews ==
    ASSUME NEW s \in PostflopViews
    PROVE  \E p \in Positions : IsStreetView(s, p)
<1> DEFINE whole(p) == [PostflopShown EXCEPT !.hero_position = p[1], !.opponent_position = p[2]]
<1>1. \E p \in Positions :
        s \in {whole(p), [whole(p) EXCEPT !.opponent_stack = None],
               [whole(p) EXCEPT !.hero_stack = None],
               [whole(p) EXCEPT !.postflop_action_history = <<>>],
               [whole(p) EXCEPT !.completed_postflop_streets = <<>>]}
  BY DEF PostflopViews
<1>2. PICK p \in Positions :
        \/ s = whole(p) \/ s = [whole(p) EXCEPT !.opponent_stack = None]
        \/ s = [whole(p) EXCEPT !.hero_stack = None]
        \/ s = [whole(p) EXCEPT !.postflop_action_history = <<>>]
        \/ s = [whole(p) EXCEPT !.completed_postflop_streets = <<>>]
  <2> HIDE DEF whole
  <2> QED
    BY <1>1, Zenon
<1>3. CASE s = whole(p)
  BY <1>3, WholeViewIsView DEF IsWholeView
<1>4. CASE s = [whole(p) EXCEPT !.opponent_stack = None]
  BY <1>4 DEF IsStreetView, PostflopShown, Shown, Effective
<1>5. CASE s = [whole(p) EXCEPT !.hero_stack = None]
  BY <1>5 DEF IsStreetView, PostflopShown, Shown, Effective
<1>6. CASE s = [whole(p) EXCEPT !.postflop_action_history = <<>>]
  BY <1>6 DEF IsStreetView, PostflopShown, Shown, Effective
<1>7. CASE s = [whole(p) EXCEPT !.completed_postflop_streets = <<>>]
  BY <1>7 DEF IsStreetView, PostflopShown, Shown, Effective
<1> HIDE DEF whole
<1> QED
  BY <1>2, <1>3, <1>4, <1>5, <1>6, <1>7, Zenon

\* Hero and the opponent are the two that are left, one of them acts first, and
\* the other one last.
LEMMA TwoPlayers ==
    ASSUME TableInv, Decides, street # "preflop"
    PROVE  /\ Hero \in Dealt /\ Opponent \in Dealt /\ Hero # Opponent /\ live = {Hero, Opponent}
           /\ Hero \in 1 .. 6 /\ Opponent \in 1 .. 6 /\ live \in SUBSET Seats
           /\ Role(Hero) \in {"oop", "ip"} /\ Role(Opponent) = Other(Role(Hero))
           /\ Role(Hero) = "oop" <=> Hero = FirstOf(live)
           /\ Role(Hero) = "ip" <=> Opponent = FirstOf(live)
           /\ \/ Hero = OopSeat /\ Opponent = IpSeat
              \/ Hero = IpSeat /\ Opponent = OopSeat
<1>1. /\ TypeInv /\ Hero \in live /\ live \subseteq Dealt /\ Dealt \subseteq 1 .. 6
      /\ \E a, b \in Dealt : a # b /\ live = {a, b}
  BY DecisionFacts DEF TableInv, StreetInv
<1>2. /\ OopSeat \in Dealt /\ IpSeat \in Dealt /\ OopSeat # IpSeat /\ live = {OopSeat, IpSeat}
      /\ Role(OopSeat) = "oop" /\ Role(IpSeat) = "ip"
  BY <1>1, TwoLeft
<1>3. \E seat \in live : seat # Hero
  BY <1>1
<1>4. Opponent \in live /\ Opponent # Hero
  BY <1>3 DEF Opponent
<1>5. live \in SUBSET Seats
  BY <1>1 DEF Seats
<1>6. \/ Hero = OopSeat /\ Opponent = IpSeat
      \/ Hero = IpSeat /\ Opponent = OopSeat
  BY <1>1, <1>2, <1>4
<1>7. Role(Hero) \in {"oop", "ip"} /\ Role(Opponent) = Other(Role(Hero))
  BY <1>2, <1>6 DEF Other
<1>8. /\ Role(Hero) = "oop" <=> Hero = FirstOf(live)
      /\ Role(Hero) = "ip" <=> Opponent = FirstOf(live)
  BY <1>2, <1>6 DEF Role, OopSeat
<1> QED
  BY <1>1, <1>2, <1>4, <1>5, <1>6, <1>7, <1>8

-----------------------------------------------------------------------------
(***************************************************************************)
(* Position                                                                *)
(***************************************************************************)

\* What comes first is nothing, or one of the candidates.
LEMMA FirstKnownAmong ==
    ASSUME NEW candidates, DOMAIN candidates \subseteq Nat, FirstKnown(candidates) # None
    PROVE  \E i \in DOMAIN candidates : FirstKnown(candidates) = candidates[i]
<1> DEFINE known == {i \in DOMAIN candidates : candidates[i] # None}
<1>1. known \in SUBSET Nat /\ known \subseteq DOMAIN candidates
  OBVIOUS
<1>2. FirstKnown(candidates) = IF known = {} THEN None ELSE candidates[Min(known)]
  BY DEF FirstKnown
<1> HIDE DEF known
<1>3. known # {}
  BY <1>2
<1>4. Min(known) \in known
  BY <1>1, <1>3, MinIsLeast
<1> QED
  BY <1>1, <1>2, <1>3, <1>4

\* What is known first comes first.
LEMMA FirstKnownFirst ==
    ASSUME NEW c1, c1 # None, NEW c2, NEW c3, NEW c4, NEW c5
    PROVE  FirstKnown(<<c1, c2, c3, c4, c5>>) = c1
<1> DEFINE c == <<c1, c2, c3, c4, c5>>
           known == {i \in DOMAIN c : c[i] # None}
<1>1. DOMAIN c = 1 .. 5 /\ c[1] = c1
  OBVIOUS
<1>2. known \in SUBSET Nat /\ known \subseteq 1 .. 5 /\ 1 \in known
  BY <1>1
<1>3. Min(known) = 1
  <2> HIDE DEF known
  <2>1. Min(known) \in known /\ Min(known) <= 1
    BY <1>2, MinIsLeast
  <2>2. Min(known) \in 1 .. 5
    BY <1>2, <2>1
  <2> QED
    BY <2>1, <2>2
<1>4. FirstKnown(c) = c[Min(known)]
  <2> HIDE DEF c
  <2> QED
    BY <1>2 DEF FirstKnown
<1> HIDE DEF known
<1> QED
  BY <1>1, <1>3, <1>4

\* The order of the program is that of the places at a table of six; the dealer
\* of two players acts last.
LEMMA OrderIsPlace ==
    ASSUME NEW a \in 1 .. 6, NEW b \in 1 .. 6, Blinds \subseteq Dealt
    PROVE  /\ ~ HeadsUp => Place(a) < Place(b) <=> PostflopOrder[a] < PostflopOrder[b]
           /\ ~ HeadsUp /\ a # b => Place(a) # Place(b)
           /\ Place(a) \in Int /\ Place(b) \in Int
           /\ PostflopOrder[a] \in Int
           /\ ~ HeadsUp /\ a # Button => Place(a) < Place(Button)
           /\ HeadsUp => Place(BigBlind) < Place(SmallBlind)
<1>1. \A seat \in {1, 2, 3, 4, 5, 6} :
        ~ HeadsUp => Place(seat) = PostflopOrder[seat] - 1
  BY DEF Place, PostflopOrder
<1>2. a \in {1, 2, 3, 4, 5, 6} /\ b \in {1, 2, 3, 4, 5, 6}
  OBVIOUS
<1>3. \A seat \in {1, 2, 3, 4, 5, 6} : PostflopOrder[seat] = IF seat >= 5 THEN seat - 4 ELSE seat + 2
  BY DEF PostflopOrder
<1>4. \A seat \in {1, 2, 3, 4, 5, 6} : Place(seat) \in Int
  BY DEF Place
<1>5. HeadsUp => Place(BigBlind) < Place(SmallBlind)
  BY DEF Place, BigBlind, SmallBlind
<1> HIDE DEF HeadsUp, Place, PostflopOrder
<1> QED
  BY <1>1, <1>2, <1>3, <1>4, <1>5 DEF Button

\* Who acts first of the two, when their places are known.
LEMMA RoleByPlace ==
    ASSUME TableInv, Decides, street # "preflop"
    PROVE  /\ Place(Hero) < Place(Opponent) => Role(Hero) = "oop"
           /\ Place(Opponent) < Place(Hero) => Role(Hero) = "ip"
<1>1. /\ Hero \in 1 .. 6 /\ Opponent \in 1 .. 6 /\ live = {Hero, Opponent} /\ live \in SUBSET Seats
      /\ Role(Hero) \in {"oop", "ip"}
      /\ Role(Hero) = "oop" <=> Hero = FirstOf(live)
      /\ Role(Hero) = "ip" <=> Opponent = FirstOf(live)
  BY TwoPlayers
<1>2. \A other \in live : Place(FirstOf(live)) <= Place(other)
  BY <1>1, FirstOfIsFirst
<1>3. Place(Hero) \in Int /\ Place(Opponent) \in Int
  <2>1. \A seat \in 1 .. 6 : Place(seat) \in Int
    BY DEF Place
  <2> QED
    BY <1>1, <2>1
<1>4. /\ Role(Hero) = "ip" => Place(Opponent) <= Place(Hero)
      /\ Role(Hero) = "oop" => Place(Hero) <= Place(Opponent)
  BY <1>1, <1>2
<1> QED
  BY <1>1, <1>3, <1>4

\* What a name says of who acts first.
LEMMA NamesTell ==
    ASSUME TableInv, Decides, street # "preflop", NEW p \in Positions
    PROVE  /\ p[1] = InPosition \/ p[1] = Button => Role(Hero) = "ip"
           /\ p[1] = OutOfPosition => Role(Hero) = "oop"
           /\ p[2] = InPosition \/ p[2] = Button => Role(Hero) = "oop"
           /\ p[2] = OutOfPosition => Role(Hero) = "ip"
           /\ p[1] \in {Hero, Button, InPosition, OutOfPosition}
           /\ p[2] \in {Opponent, Button, InPosition, OutOfPosition}
           /\ p[1] = Button => Hero = Button \/ (HeadsUp /\ Hero = SmallBlind)
           /\ p[2] = Button => Opponent = Button \/ (HeadsUp /\ Opponent = SmallBlind)
           /\ HeadsUp => /\ {Hero, Opponent} = Blinds
                         /\ p[1] \in Seats \/ p[2] \in Seats
                         /\ p[1] # SmallBlind /\ p[2] # SmallBlind
<1>1. /\ Hero \in Dealt /\ Opponent \in Dealt /\ Hero # Opponent
      /\ Hero \in 1 .. 6 /\ Opponent \in 1 .. 6
      /\ Role(Hero) \in {"oop", "ip"} /\ Role(Opponent) = Other(Role(Hero))
      /\ Blinds \subseteq Dealt
  <2>1. Blinds \subseteq Dealt
    BY DealtFacts DEF TableInv, TypeInv, Blinds
  <2> QED
    BY <2>1, TwoPlayers
<1>2. /\ p[1] \in Names(Hero) /\ p[2] \in Names(Opponent)
      /\ HeadsUp => {p[1], p[2]} \cap Seats # {}
  BY DEF Positions
<1>3. /\ p[1] \in {IF HeadsUp /\ Hero = SmallBlind THEN Button ELSE Hero,
                   IF Role(Hero) = "ip" THEN InPosition ELSE OutOfPosition}
      /\ p[2] \in {IF HeadsUp /\ Opponent = SmallBlind THEN Button ELSE Opponent,
                   IF Role(Opponent) = "ip" THEN InPosition ELSE OutOfPosition}
  BY <1>2 DEF Names
<1>4. /\ p[1] = InPosition => Role(Hero) = "ip"
      /\ p[1] = OutOfPosition => Role(Hero) = "oop"
      /\ p[2] = InPosition => Role(Hero) = "oop"
      /\ p[2] = OutOfPosition => Role(Hero) = "ip"
  BY <1>1, <1>3 DEF InPosition, OutOfPosition, Button, SmallBlind, Other
<1>5. /\ p[1] \in {Hero, Button, InPosition, OutOfPosition}
      /\ p[2] \in {Opponent, Button, InPosition, OutOfPosition}
      /\ p[1] = Button => Hero = Button \/ (HeadsUp /\ Hero = SmallBlind)
      /\ p[2] = Button => Opponent = Button \/ (HeadsUp /\ Opponent = SmallBlind)
      /\ HeadsUp => p[1] # SmallBlind /\ p[2] # SmallBlind
  BY <1>1, <1>3 DEF InPosition, OutOfPosition, Button, SmallBlind
<1>6. HeadsUp => {Hero, Opponent} = Blinds
  BY <1>1 DEF HeadsUp, Blinds, SmallBlind, BigBlind
<1>7. HeadsUp => p[1] \in Seats \/ p[2] \in Seats
  BY <1>2
<1>8. ASSUME NEW a \in {Hero, Opponent}, NEW b \in {Hero, Opponent}, a # b,
             a = Button \/ (HeadsUp /\ a = SmallBlind)
      PROVE  Place(b) < Place(a)
  <2>1. a \in 1 .. 6 /\ b \in 1 .. 6 /\ a \in Dealt
    BY <1>1
  <2>2. CASE HeadsUp
    <3>1. a = SmallBlind /\ b = BigBlind
      BY <1>6, <1>8, <2>1, <2>2 DEF HeadsUp, Blinds, Button, SmallBlind, BigBlind
    <3> QED
      BY <1>1, <2>1, <2>2, <3>1, OrderIsPlace
  <2>3. CASE ~ HeadsUp
    BY <1>1, <1>8, <2>1, <2>3, OrderIsPlace
  <2> QED
    BY <2>2, <2>3
<1>9. /\ p[1] = Button => Role(Hero) = "ip"
      /\ p[2] = Button => Role(Hero) = "oop"
  <2>1. p[1] = Button => Place(Opponent) < Place(Hero)
    BY <1>1, <1>5, <1>8
  <2>2. p[2] = Button => Place(Hero) < Place(Opponent)
    BY <1>1, <1>5, <1>8
  <2> QED
    BY <2>1, <2>2, RoleByPlace
<1> QED
  BY <1>4, <1>5, <1>6, <1>7, <1>9

\* The position that the program works out is the one hero has, if it works out
\* any.
LEMMA PositionIsRole ==
    ASSUME TableInv, Decides, street # "preflop", NEW p \in Positions,
           NEW s, s.hero_position = p[1], s.opponent_position = p[2]
    PROVE  PostflopPositionForState(s) \in {None, Role(Hero)}
<1> DEFINE inferred ==
             {rel \in {"ip"} : p[1] \in {InPosition, Button} \/ p[2] = OutOfPosition}
             \union
             {rel \in {"oop"} : p[1] = OutOfPosition \/ p[2] \in {InPosition, Button}}
           rel == IF p[1] = BigBlind THEN "ip" ELSE "oop"
<1>1. /\ Hero \in 1 .. 6 /\ Opponent \in 1 .. 6 /\ Hero # Opponent /\ Blinds \subseteq Dealt
  <2>1. Blinds \subseteq Dealt
    BY DealtFacts DEF TableInv, TypeInv, Blinds
  <2> QED
    BY <2>1, TwoPlayers
<1>2. inferred \subseteq {Role(Hero)}
  BY NamesTell
<1>3. inferred = {} => p[1] = Hero /\ p[2] = Opponent /\ ~ HeadsUp
  <2> SUFFICES ASSUME inferred = {} PROVE p[1] = Hero /\ p[2] = Opponent /\ ~ HeadsUp
    OBVIOUS
  <2>1. /\ p[1] # InPosition /\ p[1] # OutOfPosition /\ p[1] # Button
        /\ p[2] # InPosition /\ p[2] # OutOfPosition /\ p[2] # Button
    <3>1. "ip" \notin inferred /\ "oop" \notin inferred
      OBVIOUS
    <3> QED
      BY <3>1
  <2>2. p[1] = Hero /\ p[2] = Opponent
    BY <2>1, NamesTell
  <2>3. ~ HeadsUp
    <3> SUFFICES ASSUME HeadsUp PROVE FALSE
      OBVIOUS
    <3>1. {Hero, Opponent} = Blinds /\ p[1] # SmallBlind /\ p[2] # SmallBlind
      BY NamesTell
    <3> QED
      BY <2>2, <3>1 DEF Blinds
  <2> QED
    BY <2>2, <2>3
<1>4. ~ HeadsUp => /\ PostflopOrder[Hero] > PostflopOrder[Opponent] => Role(Hero) = "ip"
                   /\ ~ (PostflopOrder[Hero] > PostflopOrder[Opponent]) => Role(Hero) = "oop"
  <2> SUFFICES ASSUME ~ HeadsUp
               PROVE  /\ PostflopOrder[Hero] > PostflopOrder[Opponent] => Role(Hero) = "ip"
                      /\ ~ (PostflopOrder[Hero] > PostflopOrder[Opponent]) => Role(Hero) = "oop"
    OBVIOUS
  <2>1. /\ PostflopOrder[Hero] \in Int /\ PostflopOrder[Opponent] \in Int
        /\ Place(Hero) \in Int /\ Place(Opponent) \in Int /\ Place(Hero) # Place(Opponent)
        /\ Place(Opponent) < Place(Hero) <=> PostflopOrder[Opponent] < PostflopOrder[Hero]
    BY <1>1, OrderIsPlace
  <2> QED
    BY <2>1, RoleByPlace
<1>5. PostflopPosition(p[1], p[2]) \in {None, Role(Hero)}
  <2> DEFINE chosen == CHOOSE r \in inferred : TRUE
  <2>1. CASE inferred # {}
    <3>1. chosen \in inferred
      BY <2>1
    <3>2. PostflopPosition(p[1], p[2]) \in {None, chosen}
      BY <2>1 DEF PostflopPosition
    <3> HIDE DEF inferred, chosen
    <3> QED
      BY <1>2, <3>1, <3>2
  <2>2. CASE inferred = {}
    <3>1. p[1] = Hero /\ p[2] = Opponent /\ ~ HeadsUp
      BY <1>3, <2>2
    <3>2. PostflopPosition(p[1], p[2]) \in
            {None, IF PostflopOrder[p[1]] > PostflopOrder[p[2]] THEN "ip" ELSE "oop"}
      BY <2>2 DEF PostflopPosition
    <3> HIDE DEF PostflopOrder
    <3> QED
      BY <1>4, <3>1, <3>2
  <2> QED
    BY <2>1, <2>2
<1>6. inferred # {} => PostflopPosition(p[1], p[2]) # None
  <2> SUFFICES ASSUME inferred # {} PROVE PostflopPosition(p[1], p[2]) # None
    OBVIOUS
  <2>1. inferred = {Role(Hero)}
    <3> HIDE DEF inferred
    <3> QED
      BY <1>2
  <2>2. Cardinality({Role(Hero)}) = 1 /\ (CHOOSE r \in {Role(Hero)} : TRUE) = Role(Hero)
    BY FS_Singleton
  <2>3. PostflopPosition(p[1], p[2]) = Role(Hero)
    BY <2>1, <2>2 DEF PostflopPosition
  <2> QED
    BY <2>3, TwoPlayers, NoneAssumption
<1>7. PostflopPosition(p[1], p[2]) = None => {Hero, Opponent} = Blinds
  <2> SUFFICES ASSUME PostflopPosition(p[1], p[2]) = None, {Hero, Opponent} # Blinds PROVE FALSE
    OBVIOUS
  <2>1. inferred = {} /\ p[1] = Hero /\ p[2] = Opponent
    BY <1>3, <1>6
  <2>2. Hero \in Seats /\ Opponent \in Seats
    BY <1>1 DEF Seats
  <2>3. PostflopPosition(p[1], p[2]) \in {"ip", "oop"}
    BY <1>1, <2>1, <2>2 DEF PostflopPosition
  <2> QED
    BY <2>3, NoneAssumption
<1>8. {p[1], p[2]} = Blinds => rel = Role(Hero)
  <2> SUFFICES ASSUME {p[1], p[2]} = Blinds PROVE rel = Role(Hero)
    OBVIOUS
  <2>1. inferred = {} /\ p[1] = Hero /\ p[2] = Opponent /\ ~ HeadsUp
    <3>1. p[1] \in {SmallBlind, BigBlind} /\ p[2] \in {SmallBlind, BigBlind}
      BY DEF Blinds
    <3>2. inferred = {}
      BY <3>1 DEF SmallBlind, BigBlind, Button, InPosition, OutOfPosition
    <3> HIDE DEF inferred
    <3> QED
      BY <1>3, <3>2
  <2>2. PostflopOrder[SmallBlind] = 1 /\ PostflopOrder[BigBlind] = 2
    BY DEF PostflopOrder, SmallBlind, BigBlind
  <2>3. \/ Hero = SmallBlind /\ Opponent = BigBlind
        \/ Hero = BigBlind /\ Opponent = SmallBlind
    BY <1>1, <2>1 DEF Blinds
  <2> HIDE DEF inferred
  <2> QED
    BY <1>4, <2>1, <2>2, <2>3 DEF SmallBlind, BigBlind
<1>9. PostflopPosition(p[1], p[2]) = None => LimpReraisePosition(s) \in {None, Role(Hero)}
  <2> DEFINE a == Actor(s, 1)
             b == Actor(s, 2)
  <2> SUFFICES ASSUME PostflopPosition(p[1], p[2]) = None, LimpReraisePosition(s) # None
               PROVE  LimpReraisePosition(s) = Role(Hero)
    OBVIOUS
  <2>1. inferred = {} /\ p[1] = Hero /\ p[2] = Opponent /\ ~ HeadsUp /\ {Hero, Opponent} = Blinds
    BY <1>3, <1>6, <1>7
  <2>2. ReviewedSeats(s, a, b) # None /\ LimpReraisePosition(s) = ReviewedSeats(s, a, b)[3]
    BY DEF LimpReraisePosition
  <2> HIDE DEF inferred, rel
  <2>3. /\ Hero # Button /\ Opponent # Button
        /\ Hero \notin {InPosition, OutOfPosition} /\ Opponent \notin {InPosition, OutOfPosition}
    BY <2>1 DEF Blinds, SmallBlind, BigBlind, Button, InPosition, OutOfPosition
  <2> HIDE DEF a, b
  <2>4. /\ Hero \in {a, b} /\ Opponent \in {a, b} \ {Hero}
        /\ ReviewedSeats(s, a, b)[3] =
              IF Hero = (IF PostflopOrder[a] < PostflopOrder[b] THEN a ELSE b) THEN "oop" ELSE "ip"
    BY <2>1, <2>2, <2>3 DEF ReviewedSeats
  <2>5. \/ a = Hero /\ b = Opponent
        \/ a = Opponent /\ b = Hero
    BY <2>4
  <2>6. PostflopOrder[SmallBlind] = 1 /\ PostflopOrder[BigBlind] = 2
    BY DEF PostflopOrder, SmallBlind, BigBlind
  <2>7. \/ Hero = SmallBlind /\ Opponent = BigBlind
        \/ Hero = BigBlind /\ Opponent = SmallBlind
    BY <1>1, <2>1 DEF Blinds
  <2> HIDE DEF PostflopOrder
  <2> QED
    BY <1>1, <1>4, <2>1, <2>2, <2>4, <2>5, <2>6, <2>7
<1> DEFINE pair(line) == BlindPairPosition(s, rel, line)
<1>10. \A one : pair(one) \in {None, Role(Hero)}
  <2> HIDE DEF rel
  <2> QED
    BY <1>8 DEF BlindPairPosition
<1> DEFINE second == BlindPairPosition(s, rel, IsolationRaisedPot(s, rel))
           fourth == BlindPairPosition(s, rel, SqueezePot(s, rel))
           fifth == BlindPairPosition(s, rel, ColdFourBetPot(s, rel))
           first == PostflopPosition(p[1], p[2])
           third == LimpReraisePosition(s)
<1>11. second \in {None, Role(Hero)} /\ fourth \in {None, Role(Hero)} /\ fifth \in {None, Role(Hero)}
  <2> HIDE DEF rel
  <2> QED
    BY <1>10
<1>12. PostflopPositionForState(s) = FirstKnown(<<first, second, third, fourth, fifth>>)
  BY DEF PostflopPositionForState
<1> HIDE DEF first, second, third, fourth, fifth, rel, inferred
<1>13. CASE first # None
  <2>1. FirstKnown(<<first, second, third, fourth, fifth>>) = first
    BY <1>13, FirstKnownFirst
  <2> QED
    BY <1>5, <1>12, <2>1 DEF first
<1>14. CASE first = None
  <2>1. third \in {None, Role(Hero)} /\ first \in {None, Role(Hero)}
    BY <1>9, <1>14 DEF first, third
  <2>2. FirstKnown(<<first, second, third, fourth, fifth>>) \in {None, Role(Hero)}
    <3> DEFINE r == Role(Hero)
    <3> HIDE DEF r
    <3> DEFINE candidates == <<first, second, third, fourth, fifth>>
    <3>1. /\ first \in {None, r} /\ second \in {None, r} /\ third \in {None, r}
          /\ fourth \in {None, r} /\ fifth \in {None, r}
      BY <1>11, <2>1 DEF r
    <3>2. DOMAIN candidates = 1 .. 5 /\ \A i \in 1 .. 5 : candidates[i] \in {None, r}
      BY <3>1
    <3>3. DOMAIN candidates \subseteq Nat
      BY <3>2
    <3> HIDE DEF candidates
    <3>4. FirstKnown(candidates) \in {None, r}
      <4>1. CASE FirstKnown(candidates) # None
        <5>1. \E i \in DOMAIN candidates : FirstKnown(candidates) = candidates[i]
          BY <3>3, <4>1, FirstKnownAmong
        <5> QED
          BY <3>2, <5>1
      <4>2. CASE FirstKnown(candidates) = None
        BY <4>2
      <4> QED
        BY <4>1, <4>2
    <3>5. FirstKnown(<<first, second, third, fourth, fifth>>) \in {None, r}
      BY <3>4 DEF candidates
    <3> QED
      BY <3>5 DEF r
  <2> QED
    BY <1>12, <2>2
<1> QED
  BY <1>13, <1>14

-----------------------------------------------------------------------------
(***************************************************************************)
(* What is put in on a street                                              *)
(***************************************************************************)

\* What the two have in.
Puts(oop, ip) == [rel \in {"oop", "ip"} |-> IF rel = "oop" THEN oop ELSE ip]

\* What the two have in after one more action.
Further(put2, action) ==
    [rel \in {"oop", "ip"} |->
        IF action.actor = rel /\ action.amount # None THEN action.amount ELSE put2[rel]]

\* Before the first action nothing is put in.
LEMMA PutInNothing ==
    ASSUME NEW S, NEW line \in Seq(S)
    PROVE  /\ PutIn(SubSeq(line, 1, 0)) = Puts(0, 0)
           /\ PutIn(<<>>) = Puts(0, 0)
           /\ PutIn(SubSeq(line, 1, Len(line))) = PutIn(line)
<1>1. SubSeq(line, 1, 0) = <<>> /\ SubSeq(line, 1, Len(line)) = line
  BY EmptySeq, SubSeqProperties
<1>2. PutIn(<<>>) = Puts(0, 0)
  BY DEF PutIn, Puts
<1> QED
  BY <1>1, <1>2

\* Each action adds what it says.
LEMMA PutInNext ==
    ASSUME NEW S, NEW line \in Seq(S), NEW i \in 1 .. Len(line)
    PROVE  PutIn(SubSeq(line, 1, i)) = Further(PutIn(SubSeq(line, 1, i - 1)), line[i])
<1> DEFINE own(k, rel) == {j \in DOMAIN SubSeq(line, 1, k) :
                              SubSeq(line, 1, k)[j].actor = rel /\ SubSeq(line, 1, k)[j].amount # None}
           some(k, rel) == {j \in 1 .. k : line[j].actor = rel /\ line[j].amount # None}
           value(k, rel) == IF some(k, rel) = {} THEN 0 ELSE line[Max(some(k, rel))].amount
<1>1. ASSUME NEW k \in 0 .. Len(line)
      PROVE  /\ DOMAIN SubSeq(line, 1, k) = 1 .. k
             /\ \A j \in 1 .. k : SubSeq(line, 1, k)[j] = line[j]
  <2>1. Len(line) \in Nat /\ k \in Nat /\ k <= Len(line)
    OBVIOUS
  <2> QED
    BY <2>1
<1>2. ASSUME NEW k \in 0 .. Len(line), NEW rel
      PROVE  /\ own(k, rel) = some(k, rel)
             /\ some(k, rel) \subseteq 1 .. k
             /\ some(k, rel) # {} =>
                   Max(some(k, rel)) \in some(k, rel) /\ \A j \in some(k, rel) : j <= Max(some(k, rel))
  <2>1. own(k, rel) = some(k, rel) /\ some(k, rel) \subseteq 1 .. k
    BY <1>1
  <2>2. k \in Int /\ 1 \in Int
    OBVIOUS
  <2>3. IsFiniteSet(1 .. k)
    BY <2>2, FS_Interval, Zenon
  <2>4. IsFiniteSet(some(k, rel))
    BY <2>1, <2>3, FS_Subset
  <2>5. some(k, rel) \in SUBSET Int
    BY <2>1
  <2> HIDE DEF own, some
  <2> QED
    BY <2>1, <2>4, <2>5, MaxIsGreatest
<1>3. ASSUME NEW k \in 0 .. Len(line)
      PROVE  PutIn(SubSeq(line, 1, k)) = [rel \in {"oop", "ip"} |-> value(k, rel)]
  <2>1. PutIn(SubSeq(line, 1, k)) =
          [rel \in {"oop", "ip"} |->
              IF own(k, rel) = {} THEN 0 ELSE SubSeq(line, 1, k)[Max(own(k, rel))].amount]
    BY DEF PutIn
  <2>2. \A rel \in {"oop", "ip"} :
          (IF own(k, rel) = {} THEN 0 ELSE SubSeq(line, 1, k)[Max(own(k, rel))].amount) = value(k, rel)
    <3> TAKE rel \in {"oop", "ip"}
    <3>1. own(k, rel) = some(k, rel)
      BY <1>2
    <3>2. CASE some(k, rel) = {}
      <4> HIDE DEF own, some
      <4> QED
        BY <3>1, <3>2
    <3>3. CASE some(k, rel) # {}
      <4>1. Max(some(k, rel)) \in 1 .. k
        <5> HIDE DEF own, some, value
        <5>1. Max(some(k, rel)) \in some(k, rel) /\ some(k, rel) \subseteq 1 .. k
          BY <1>2, <3>3
        <5> QED
          BY <5>1
      <4>2. SubSeq(line, 1, k)[Max(some(k, rel))] = line[Max(some(k, rel))]
        <5> HIDE DEF some
        <5> QED
          BY <1>1, <4>1
      <4> HIDE DEF own, some
      <4> QED
        BY <3>1, <3>3, <4>2
    <3> QED
      BY <3>2, <3>3
  <2> HIDE DEF own, value
  <2> QED
    BY <2>1, <2>2
<1>4. i \in 0 .. Len(line) /\ i - 1 \in 0 .. Len(line) /\ i \in Nat /\ 1 .. i = (1 .. i - 1) \union {i}
  OBVIOUS
<1>5. ASSUME NEW rel \in {"oop", "ip"}
      PROVE  value(i, rel) = IF line[i].actor = rel /\ line[i].amount # None
                             THEN line[i].amount ELSE value(i - 1, rel)
  <2>1. some(i, rel) = some(i - 1, rel) \union {j \in {i} : line[j].actor = rel /\ line[j].amount # None}
    BY <1>4
  <2>2. CASE line[i].actor = rel /\ line[i].amount # None
    <3>1. i \in some(i, rel)
      BY <1>4, <2>2
    <3>2. Max(some(i, rel)) = i
      <4>1. some(i, rel) \subseteq 1 .. i
        BY <1>2, <1>4
      <4> HIDE DEF some
      <4>2. some(i, rel) \in SUBSET Int /\ \A j \in some(i, rel) : j <= i
        BY <4>1
      <4> QED
        BY <3>1, <4>2, MaxIs
    <3> HIDE DEF some
    <3> QED
      BY <2>2, <3>1, <3>2
  <2>3. CASE ~ (line[i].actor = rel /\ line[i].amount # None)
    <3>1. some(i, rel) = some(i - 1, rel)
      BY <2>1, <2>3
    <3> HIDE DEF some
    <3> QED
      BY <2>3, <3>1
  <2> QED
    BY <2>2, <2>3
<1>6. PutIn(SubSeq(line, 1, i)) = [rel \in {"oop", "ip"} |-> value(i, rel)]
  BY <1>3, <1>4
<1>7. PutIn(SubSeq(line, 1, i - 1)) = [rel \in {"oop", "ip"} |-> value(i - 1, rel)]
  BY <1>3, <1>4
<1> HIDE DEF value
<1>8. \A rel \in {"oop", "ip"} : PutIn(SubSeq(line, 1, i - 1))[rel] = value(i - 1, rel)
  BY <1>7
<1> QED
  BY <1>5, <1>6, <1>8 DEF Further

\* What the actions of a street add.
LEMMA FurtherIs ==
    ASSUME NEW o, NEW i, NEW total \in Nat, NEW action
    PROVE  /\ Further(Puts(o, i), Did("oop", action, total)) = Puts(total, i)
           /\ Further(Puts(o, i), Did("ip", action, total)) = Puts(o, total)
           /\ Further(Puts(o, i), Did("oop", action, None)) = Puts(o, i)
           /\ Further(Puts(o, i), Did("ip", action, None)) = Puts(o, i)
           /\ Puts(o, i)["oop"] = o /\ Puts(o, i)["ip"] = i
           /\ Puts(o, i).oop = o /\ Puts(o, i).ip = i
<1>1. total # None
  BY NoneAssumption
<1> QED
  BY <1>1 DEF Further, Puts, Did

\* What is in before each action of a street, and after the last one.
Before(line, i) == PutIn(SubSeq(line, 1, i - 1))

\* One action.
LEMMA PutInOne ==
    ASSUME NEW a
    PROVE  Before(<<a>>, 1) = Puts(0, 0) /\ PutIn(<<a>>) = Further(Puts(0, 0), a)
<1> DEFINE line == <<a>>
<1>1. line \in Seq({a}) /\ Len(line) = 1 /\ line[1] = a
  OBVIOUS
<1> HIDE DEF line
<1>2. 1 - 1 = 0 /\ 1 \in 1 .. 1
  OBVIOUS
<1>3. Before(line, 1) = Puts(0, 0)
  BY <1>1, <1>2, PutInNothing DEF Before
<1>4. PutIn(SubSeq(line, 1, 1)) = Further(PutIn(SubSeq(line, 1, 1 - 1)), line[1])
  BY <1>1, <1>2, PutInNext
<1>5. PutIn(SubSeq(line, 1, 1)) = PutIn(line)
  BY <1>1, PutInNothing
<1>6. PutIn(line) = Further(Puts(0, 0), a)
  BY <1>1, <1>3, <1>4, <1>5 DEF Before
<1> QED
  BY <1>3, <1>6 DEF line

\* Up to four actions.
LEMMA PutInFirst ==
    ASSUME NEW S, NEW line \in Seq(S), Len(line) >= 2
    PROVE  /\ Before(line, 1) = Puts(0, 0)
           /\ Before(line, 2) = Further(Puts(0, 0), line[1])
           /\ Before(line, 3) = Further(Before(line, 2), line[2])
           /\ Len(line) >= 3 => Before(line, 4) = Further(Before(line, 3), line[3])
           /\ PutIn(line) = Further(Before(line, Len(line)), line[Len(line)])
<1>1. 1 - 1 = 0 /\ 2 - 1 = 1 /\ 3 - 1 = 2 /\ 4 - 1 = 3 /\ Len(line) \in Nat
  OBVIOUS
<1>2. /\ 1 \in 1 .. Len(line) /\ 2 \in 1 .. Len(line) /\ Len(line) \in 1 .. Len(line)
      /\ Len(line) >= 3 => 3 \in 1 .. Len(line)
  OBVIOUS
<1>3. Before(line, 1) = Puts(0, 0)
  BY <1>1, PutInNothing DEF Before
<1>4. Before(line, 2) = Further(Puts(0, 0), line[1])
  BY <1>1, <1>2, <1>3, PutInNext DEF Before
<1>5. Before(line, 3) = Further(Before(line, 2), line[2])
  BY <1>1, <1>2, PutInNext DEF Before
<1>6. Len(line) >= 3 => Before(line, 4) = Further(Before(line, 3), line[3])
  BY <1>1, <1>2, PutInNext DEF Before
<1>7. PutIn(line) = Further(Before(line, Len(line)), line[Len(line)])
  <2>1. PutIn(SubSeq(line, 1, Len(line))) = Further(PutIn(SubSeq(line, 1, Len(line) - 1)), line[Len(line)])
    BY <1>2, PutInNext
  <2>2. PutIn(SubSeq(line, 1, Len(line))) = PutIn(line)
    BY PutInNothing
  <2> QED
    BY <2>1, <2>2 DEF Before
<1> QED
  BY <1>3, <1>4, <1>5, <1>6, <1>7

\* Two actions.
LEMMA PutInTwo ==
    ASSUME NEW a, NEW b
    PROVE  /\ Before(<<a, b>>, 1) = Puts(0, 0)
           /\ Before(<<a, b>>, 2) = Further(Puts(0, 0), a)
           /\ PutIn(<<a, b>>) = Further(Further(Puts(0, 0), a), b)
<1> DEFINE line == <<a, b>>
<1>1. line \in Seq({a, b}) /\ Len(line) = 2 /\ line[1] = a /\ line[2] = b
  OBVIOUS
<1> HIDE DEF line
<1>2. /\ Before(line, 1) = Puts(0, 0)
      /\ Before(line, 2) = Further(Puts(0, 0), a)
      /\ PutIn(line) = Further(Before(line, 2), b)
  BY <1>1, PutInFirst
<1>3. PutIn(line) = Further(Further(Puts(0, 0), a), b)
  BY <1>2
<1> QED
  BY <1>2, <1>3 DEF line

\* Three actions.
LEMMA PutInThree ==
    ASSUME NEW a, NEW b, NEW c
    PROVE  /\ Before(<<a, b, c>>, 1) = Puts(0, 0)
           /\ Before(<<a, b, c>>, 2) = Further(Puts(0, 0), a)
           /\ Before(<<a, b, c>>, 3) = Further(Further(Puts(0, 0), a), b)
           /\ PutIn(<<a, b, c>>) = Further(Further(Further(Puts(0, 0), a), b), c)
<1> DEFINE line == <<a, b, c>>
<1>1. line \in Seq({a, b, c}) /\ Len(line) = 3 /\ line[1] = a /\ line[2] = b /\ line[3] = c
  OBVIOUS
<1> HIDE DEF line
<1>2. /\ Before(line, 1) = Puts(0, 0)
      /\ Before(line, 2) = Further(Puts(0, 0), a)
      /\ Before(line, 3) = Further(Before(line, 2), b)
      /\ PutIn(line) = Further(Before(line, 3), c)
  <2>1. Len(line) >= 2 /\ Len(line) >= 3 /\ line \in Seq({a, b, c})
    BY <1>1
  <2>2. /\ Before(line, 1) = Puts(0, 0)
        /\ Before(line, 2) = Further(Puts(0, 0), line[1])
        /\ Before(line, 3) = Further(Before(line, 2), line[2])
        /\ Before(line, 4) = Further(Before(line, 3), line[3])
        /\ PutIn(line) = Further(Before(line, Len(line)), line[Len(line)])
    BY <2>1, PutInFirst
  <2> QED
    BY <1>1, <2>2
<1>3. Before(line, 3) = Further(Further(Puts(0, 0), a), b)
  BY <1>2
<1>4. PutIn(line) = Further(Further(Further(Puts(0, 0), a), b), c)
  BY <1>2, <1>3
<1> QED
  BY <1>2, <1>3, <1>4 DEF line

\* Four actions.
LEMMA PutInFour ==
    ASSUME NEW a, NEW b, NEW c, NEW d
    PROVE  /\ Before(<<a, b, c, d>>, 1) = Puts(0, 0)
           /\ Before(<<a, b, c, d>>, 2) = Further(Puts(0, 0), a)
           /\ Before(<<a, b, c, d>>, 3) = Further(Further(Puts(0, 0), a), b)
           /\ Before(<<a, b, c, d>>, 4) = Further(Further(Further(Puts(0, 0), a), b), c)
           /\ PutIn(<<a, b, c, d>>) = Further(Further(Further(Further(Puts(0, 0), a), b), c), d)
<1> DEFINE line == <<a, b, c, d>>
<1>1. /\ line \in Seq({a, b, c, d}) /\ Len(line) = 4
      /\ line[1] = a /\ line[2] = b /\ line[3] = c /\ line[4] = d
  OBVIOUS
<1> HIDE DEF line
<1>2. /\ Before(line, 1) = Puts(0, 0)
      /\ Before(line, 2) = Further(Puts(0, 0), a)
      /\ Before(line, 3) = Further(Before(line, 2), b)
      /\ Before(line, 4) = Further(Before(line, 3), c)
      /\ PutIn(line) = Further(Before(line, 4), d)
  <2>1. Len(line) >= 2 /\ Len(line) >= 3 /\ line \in Seq({a, b, c, d})
    BY <1>1
  <2>2. /\ Before(line, 1) = Puts(0, 0)
        /\ Before(line, 2) = Further(Puts(0, 0), line[1])
        /\ Before(line, 3) = Further(Before(line, 2), line[2])
        /\ Before(line, 4) = Further(Before(line, 3), line[3])
        /\ PutIn(line) = Further(Before(line, Len(line)), line[Len(line)])
    BY <2>1, PutInFirst
  <2> QED
    BY <1>1, <2>2
<1>3. Before(line, 3) = Further(Further(Puts(0, 0), a), b)
  BY <1>2
<1>4. Before(line, 4) = Further(Further(Further(Puts(0, 0), a), b), c)
  BY <1>2, <1>3
<1>5. PutIn(line) = Further(Further(Further(Further(Puts(0, 0), a), b), c), d)
  BY <1>2, <1>4
<1> QED
  BY <1>2, <1>3, <1>4, <1>5 DEF line

-----------------------------------------------------------------------------
(***************************************************************************)
(* The record of the street                                                *)
(***************************************************************************)

\* An action that the wagers before it allow; a raise is a full one, unless
\* it is the last action and its actor has nothing left.
Sound(line, i, last) ==
    LET a == line[i]
        own == Before(line, i)[a.actor]
        faced == Before(line, i)[Other(a.actor)]
    IN \/ a.action = "check" /\ i = 1
       \/ a.action = "bet" /\ own = faced /\ a.amount > 0
       \/ /\ a.action = "raise" /\ own < faced /\ a.amount > faced
          /\ a.amount - faced >= faced - own \/ (i = Len(line) /\ last = 0)

\* A street on which nobody has acted, or of which only a check is on record.
LEMMA SoundCheck ==
    ASSUME NEW line, line = <<Did("oop", "check", None)>>
    PROVE  /\ PutIn(line) = Puts(0, 0) /\ Turns(line) /\ Len(line) = 1 /\ DOMAIN line = {1}
           /\ line # <<>> /\ line[Len(line)].actor = "oop"
           /\ \A last : \A i \in DOMAIN line : Sound(line, i, last)
<1>1. Did("oop", "check", None).actor = "oop" /\ Did("oop", "check", None).action = "check"
  BY DEF Did
<1>2. Further(Puts(0, 0), Did("oop", "check", None)) = Puts(0, 0)
  BY FurtherIs
<1> HIDE DEF Did
<1>3. DOMAIN line = {1} /\ line[1] = Did("oop", "check", None) /\ Len(line) = 1 /\ line # <<>>
  OBVIOUS
<1>4. PutIn(line) = Puts(0, 0)
  BY <1>2, PutInOne
<1>5. Turns(line)
  BY <1>1, <1>3 DEF Turns
<1>6. \A last : \A i \in DOMAIN line : Sound(line, i, last)
  BY <1>1, <1>3 DEF Sound
<1> QED
  BY <1>1, <1>3, <1>4, <1>5, <1>6

\* A bet.
LEMMA SoundBet ==
    ASSUME NEW line, NEW x \in Nat, x > 0, line = <<Did("oop", "bet", x)>>
    PROVE  /\ PutIn(line) = Puts(x, 0) /\ Turns(line) /\ Len(line) = 1 /\ DOMAIN line = {1}
           /\ line # <<>> /\ line[Len(line)].actor = "oop"
           /\ \A last : \A i \in DOMAIN line : Sound(line, i, last)
<1> DEFINE a == Did("oop", "bet", x)
<1>1. a.actor = "oop" /\ a.action = "bet" /\ a.amount = x
  BY DEF Did
<1>2. Further(Puts(0, 0), a) = Puts(x, 0)
  BY FurtherIs
<1> HIDE DEF a
<1>3. DOMAIN line = {1} /\ line[1] = a /\ Len(line) = 1 /\ line # <<>>
  BY DEF a
<1>4. PutIn(line) = Puts(x, 0) /\ Before(line, 1) = Puts(0, 0)
  BY <1>2, PutInOne DEF a
<1>5. Turns(line)
  BY <1>1, <1>3 DEF Turns
<1>6. Puts(0, 0)["oop"] = 0 /\ Puts(0, 0)["ip"] = 0 /\ Other("oop") = "ip"
  BY FurtherIs DEF Other
<1>7. \A last : Sound(line, 1, last)
  BY <1>1, <1>3, <1>4, <1>6 DEF Sound
<1> QED
  BY <1>1, <1>3, <1>4, <1>5, <1>7

\* A check and a bet.
LEMMA SoundCheckBet ==
    ASSUME NEW line, NEW x \in Nat, x > 0,
           line = <<Did("oop", "check", None), Did("ip", "bet", x)>>
    PROVE  /\ PutIn(line) = Puts(0, x) /\ Turns(line) /\ Len(line) = 2 /\ DOMAIN line = {1, 2}
           /\ line # <<>> /\ line[Len(line)].actor = "ip"
           /\ \A last : \A i \in DOMAIN line : Sound(line, i, last)
<1> DEFINE a == Did("oop", "check", None)
           b == Did("ip", "bet", x)
<1>1. a.actor = "oop" /\ a.action = "check" /\ b.actor = "ip" /\ b.action = "bet" /\ b.amount = x
  BY DEF Did
<1>2. Further(Puts(0, 0), a) = Puts(0, 0) /\ Further(Puts(0, 0), b) = Puts(0, x)
  BY FurtherIs
<1> HIDE DEF a, b
<1>3. DOMAIN line = {1, 2} /\ line[1] = a /\ line[2] = b /\ Len(line) = 2 /\ line # <<>>
  BY DEF a, b
<1>4. PutIn(line) = Puts(0, x) /\ Before(line, 2) = Puts(0, 0)
  BY <1>2, PutInTwo DEF a, b
<1>5. Turns(line)
  BY <1>1, <1>3 DEF Turns
<1>6. Puts(0, 0)["oop"] = 0 /\ Puts(0, 0)["ip"] = 0 /\ Other("ip") = "oop"
  BY FurtherIs DEF Other
<1>7. \A last : Sound(line, 1, last) /\ Sound(line, 2, last)
  BY <1>1, <1>3, <1>4, <1>6 DEF Sound
<1> QED
  BY <1>1, <1>3, <1>4, <1>5, <1>7

\* A bet and a raise.
LEMMA SoundBetRaise ==
    ASSUME NEW line, NEW x \in Nat, x > 0, NEW y \in Nat, x < y, NEW last, y >= 2 * x \/ last = 0,
           line = <<Did("oop", "bet", x), Did("ip", "raise", y)>>
    PROVE  /\ PutIn(line) = Puts(x, y) /\ Turns(line) /\ Len(line) = 2 /\ DOMAIN line = {1, 2}
           /\ line # <<>> /\ line[Len(line)].actor = "ip"
           /\ \A i \in DOMAIN line : Sound(line, i, last)
<1> DEFINE a == Did("oop", "bet", x)
           b == Did("ip", "raise", y)
<1>1. /\ a.actor = "oop" /\ a.action = "bet" /\ a.amount = x
      /\ b.actor = "ip" /\ b.action = "raise" /\ b.amount = y
  BY DEF Did
<1>2. Further(Puts(0, 0), a) = Puts(x, 0) /\ Further(Puts(x, 0), b) = Puts(x, y)
  BY FurtherIs
<1> HIDE DEF a, b
<1>3. DOMAIN line = {1, 2} /\ line[1] = a /\ line[2] = b /\ Len(line) = 2 /\ line # <<>>
  BY DEF a, b
<1>4. PutIn(line) = Puts(x, y) /\ Before(line, 1) = Puts(0, 0) /\ Before(line, 2) = Puts(x, 0)
  BY <1>2, PutInTwo DEF a, b
<1>5. Turns(line)
  BY <1>1, <1>3 DEF Turns
<1>6. /\ Puts(0, 0)["oop"] = 0 /\ Puts(0, 0)["ip"] = 0 /\ Other("ip") = "oop" /\ Other("oop") = "ip"
      /\ Puts(x, 0)["oop"] = x /\ Puts(x, 0)["ip"] = 0
  BY FurtherIs DEF Other
<1>7. Sound(line, 1, last)
  BY <1>1, <1>3, <1>4, <1>6 DEF Sound
<1>8. Sound(line, 2, last)
  BY <1>1, <1>3, <1>4, <1>6 DEF Sound
<1> QED
  BY <1>1, <1>3, <1>4, <1>5, <1>7, <1>8

\* A check, a bet and a raise.
LEMMA SoundCheckBetRaise ==
    ASSUME NEW line, NEW x \in Nat, x > 0, NEW y \in Nat, x < y, NEW last, y >= 2 * x \/ last = 0,
           line = <<Did("oop", "check", None), Did("ip", "bet", x), Did("oop", "raise", y)>>
    PROVE  /\ PutIn(line) = Puts(y, x) /\ Turns(line) /\ Len(line) = 3 /\ DOMAIN line = {1, 2, 3}
           /\ line # <<>> /\ line[Len(line)].actor = "oop"
           /\ \A i \in DOMAIN line : Sound(line, i, last)
<1> DEFINE a == Did("oop", "check", None)
           b == Did("ip", "bet", x)
           c == Did("oop", "raise", y)
<1>1. /\ a.actor = "oop" /\ a.action = "check"
      /\ b.actor = "ip" /\ b.action = "bet" /\ b.amount = x
      /\ c.actor = "oop" /\ c.action = "raise" /\ c.amount = y
  BY DEF Did
<1>2. /\ Further(Puts(0, 0), a) = Puts(0, 0) /\ Further(Puts(0, 0), b) = Puts(0, x)
      /\ Further(Puts(0, x), c) = Puts(y, x)
  BY FurtherIs
<1> HIDE DEF a, b, c
<1>3. DOMAIN line = {1, 2, 3} /\ line[1] = a /\ line[2] = b /\ line[3] = c /\ Len(line) = 3 /\ line # <<>>
  BY DEF a, b, c
<1>4. PutIn(line) = Puts(y, x) /\ Before(line, 2) = Puts(0, 0) /\ Before(line, 3) = Puts(0, x)
  BY <1>2, PutInThree DEF a, b, c
<1>5. Turns(line)
  BY <1>1, <1>3 DEF Turns
<1>6. /\ Puts(0, 0)["oop"] = 0 /\ Puts(0, 0)["ip"] = 0 /\ Other("ip") = "oop" /\ Other("oop") = "ip"
      /\ Puts(0, x)["oop"] = 0 /\ Puts(0, x)["ip"] = x
  BY FurtherIs DEF Other
<1>7. Sound(line, 1, last)
  BY <1>1, <1>3 DEF Sound
<1>8. Sound(line, 2, last)
  BY <1>1, <1>3, <1>4, <1>6 DEF Sound
<1>9. Sound(line, 3, last)
  BY <1>1, <1>3, <1>4, <1>6 DEF Sound
<1> QED
  BY <1>1, <1>3, <1>4, <1>5, <1>7, <1>8, <1>9

\* Where hero decides, the record of the street has what the two have in, the
\* two act by turns, the opponent acted last, and every action is sound.
LEMMA StreetIsSound ==
    ASSUME TableInv, Decides, street # "preflop"
    PROVE  /\ PutIn(actions) = Puts(put[OopSeat], put[IpSeat])
           /\ Turns(actions)
           /\ actions # <<>> => actions[Len(actions)].actor = Other(Role(Hero))
           /\ \A i \in DOMAIN actions : Sound(actions, i, stack[Opponent])
<1>1. /\ TypeInv /\ StreetLine /\ \E a, b \in Dealt : a # b /\ live = {a, b}
  BY DecisionFacts DEF TableInv, StreetInv, Decides, Acts
<1>2. /\ OopSeat # IpSeat /\ put[OopSeat] \in Nat /\ put[IpSeat] \in Nat /\ wager \in Nat
      /\ Role(OopSeat) = "oop" /\ Role(IpSeat) = "ip" /\ Other("oop") = "ip" /\ Other("ip") = "oop"
  BY <1>1, TwoLeft DEF TypeInv, Other
<1>3. \/ Hero = OopSeat /\ Opponent = IpSeat
      \/ Hero = IpSeat /\ Opponent = OopSeat
  BY TwoPlayers
<1> HIDE DEF Did
<1>4. CASE actions = <<>> /\ turn = OopSeat /\ owes = live /\ NothingIn
  <2>1. PutIn(actions) = Puts(put[OopSeat], put[IpSeat])
    <3>1. <<>> \in Seq({1})
      OBVIOUS
    <3> QED
      BY <1>4, <3>1, PutInNothing DEF NothingIn
  <2>2. DOMAIN actions = {}
    BY <1>4
  <2> QED
    BY <1>4, <2>1, <2>2 DEF Turns
<1>5. CASE actions = <<Did("oop", "check", None)>> /\ turn = IpSeat /\ owes = {IpSeat} /\ NothingIn
  <2>1. /\ PutIn(actions) = Puts(0, 0) /\ Turns(actions) /\ actions[Len(actions)].actor = "oop"
        /\ \A i \in DOMAIN actions : Sound(actions, i, stack[Opponent])
    BY <1>5, SoundCheck
  <2> QED
    BY <1>2, <1>5, <2>1 DEF NothingIn, Hero
<1>6. CASE actions = <<Did("oop", "bet", put[OopSeat])>> /\ OneBet(OopSeat, IpSeat)
  <2>1. put[OopSeat] > 0 /\ put[IpSeat] = 0 /\ turn = IpSeat
    BY <1>6 DEF OneBet
  <2>2. /\ PutIn(actions) = Puts(put[OopSeat], 0) /\ Turns(actions) /\ actions[Len(actions)].actor = "oop"
        /\ \A i \in DOMAIN actions : Sound(actions, i, stack[Opponent])
    BY <1>2, <1>6, <2>1, SoundBet
  <2> QED
    BY <1>2, <2>1, <2>2 DEF Hero
<1>7. CASE /\ actions = <<Did("oop", "check", None), Did("ip", "bet", put[IpSeat])>>
           /\ OneBet(IpSeat, OopSeat)
  <2>1. put[IpSeat] > 0 /\ put[OopSeat] = 0 /\ turn = OopSeat
    BY <1>7 DEF OneBet
  <2>2. /\ PutIn(actions) = Puts(0, put[IpSeat]) /\ Turns(actions) /\ actions[Len(actions)].actor = "ip"
        /\ \A i \in DOMAIN actions : Sound(actions, i, stack[Opponent])
    BY <1>2, <1>7, <2>1, SoundCheckBet
  <2> QED
    BY <1>2, <2>1, <2>2 DEF Hero
<1>8. CASE /\ actions = <<Did("oop", "bet", put[OopSeat]), Did("ip", "raise", put[IpSeat])>>
           /\ OneRaise(IpSeat, OopSeat)
  <2>1. /\ put[OopSeat] > 0 /\ put[OopSeat] < put[IpSeat] /\ turn = OopSeat
        /\ put[IpSeat] >= 2 * put[OopSeat] \/ stack[IpSeat] = 0
    BY <1>8 DEF OneRaise
  <2>2. /\ PutIn(actions) = Puts(put[OopSeat], put[IpSeat]) /\ Turns(actions)
        /\ actions[Len(actions)].actor = "ip"
        /\ \A i \in DOMAIN actions : Sound(actions, i, stack[IpSeat])
    BY <1>2, <1>8, <2>1, SoundBetRaise
  <2>3. Opponent = IpSeat /\ Role(Hero) = "oop"
    BY <1>2, <1>3, <2>1 DEF Hero
  <2> QED
    BY <1>2, <2>2, <2>3
<1>9. CASE /\ actions = <<Did("oop", "check", None), Did("ip", "bet", put[IpSeat]),
                         Did("oop", "raise", put[OopSeat])>>
           /\ OneRaise(OopSeat, IpSeat)
  <2>1. /\ put[IpSeat] > 0 /\ put[IpSeat] < put[OopSeat] /\ turn = IpSeat
        /\ put[OopSeat] >= 2 * put[IpSeat] \/ stack[OopSeat] = 0
    BY <1>9 DEF OneRaise
  <2>2. /\ PutIn(actions) = Puts(put[OopSeat], put[IpSeat]) /\ Turns(actions)
        /\ actions[Len(actions)].actor = "oop"
        /\ \A i \in DOMAIN actions : Sound(actions, i, stack[OopSeat])
    BY <1>2, <1>9, <2>1, SoundCheckBetRaise
  <2>3. Opponent = OopSeat /\ Role(Hero) = "ip"
    BY <1>2, <1>3, <2>1 DEF Hero
  <2> QED
    BY <1>2, <2>2, <2>3
<1> QED
  BY <1>1, <1>4, <1>5, <1>6, <1>7, <1>8, <1>9 DEF StreetLine

\* A true record of the street passes the checks before a postflop solve.
LEMMA WholeViewIsSupported ==
    ASSUME TableInv, Decides, street # "preflop", NEW p, NEW s, IsWholeView(s, p)
    PROVE  HistoryIsSupported(s, Role(Hero))
<1> DEFINE rel == Role(Hero)
           both == Puts(put[OopSeat], put[IpSeat])
<1>1. /\ s.street = street /\ s.pot_size = pot /\ s.current_bet = ToCall
      /\ s.hero_stack = stack[Hero] /\ s.opponent_stack = stack[Opponent]
      /\ s.effective_stack = Effective /\ s.postflop_action_history = actions
      /\ s.facing_action = IF ToCall > 0 THEN LastAggression(actions) ELSE None
  BY DEF IsWholeView, IsStreetView, AmountToCall, FacingAction
<1>2. /\ Hero \in Dealt /\ Opponent \in Dealt /\ Hero # Opponent /\ live = {Hero, Opponent}
      /\ rel \in {"oop", "ip"} /\ Role(Opponent) = Other(rel)
      /\ \/ Hero = OopSeat /\ Opponent = IpSeat
         \/ Hero = IpSeat /\ Opponent = OopSeat
      /\ TypeInv /\ \E a, b \in Dealt : a # b /\ live = {a, b}
      /\ wager \in Nat /\ pot \in Nat /\ put[Hero] \in Nat /\ stack[Hero] \in Nat /\ stack[Hero] > 0
      /\ put[Hero] <= wager /\ ToCall \in Nat /\ ToCall = wager - put[Hero]
  BY TwoPlayers, DecisionFacts DEF TableInv, StreetInv, ToCall
<1>3. /\ put[Opponent] \in Nat /\ stack[Opponent] \in Nat /\ put[Opponent] <= wager
      /\ wager <= put[Hero] + stack[Hero] /\ wager <= put[Opponent] + stack[Opponent]
      /\ pot >= put[OopSeat] + put[IpSeat] + 150
  BY <1>2 DEF TypeInv, TableInv, ChipsInv, StreetInv
<1>4. Role(OopSeat) = "oop" /\ Role(IpSeat) = "ip"
  BY <1>2, TwoLeft
<1>5. /\ both[rel] = put[Hero] /\ both[Other(rel)] = put[Opponent]
      /\ both.oop = put[OopSeat] /\ both.ip = put[IpSeat]
  <2>1. both["oop"] = put[OopSeat] /\ both["ip"] = put[IpSeat] /\ both.oop = put[OopSeat] /\ both.ip = put[IpSeat]
    BY FurtherIs
  <2> HIDE DEF both
  <2> QED
    BY <1>2, <1>4, <2>1 DEF Other
<1>6. put[Opponent] = wager
  <2>1. CASE ToCall > 0
    BY <1>2, <2>1, StreetWager
  <2>2. CASE ToCall = 0
    <3>1. StreetLine
      BY <1>2 DEF TableInv, StreetInv, Decides, Acts
    <3>2. put[turn] = wager
      BY <1>2, <2>2 DEF Hero
    <3>3. NothingIn
      BY <1>2, <3>1, <3>2 DEF StreetLine, OneBet, OneRaise
    <3> QED
      BY <1>2, <3>3 DEF NothingIn
  <2> QED
    BY <1>2, <2>1, <2>2
<1>7. /\ PutIn(actions) = both
      /\ Turns(actions)
      /\ actions # <<>> => actions[Len(actions)].actor = Other(rel)
      /\ \A i \in DOMAIN actions : Sound(actions, i, stack[Opponent])
  BY StreetIsSound
<1>8. Effective = Smaller(stack[Hero], stack[Opponent])
  <2>1. Effective \in {stack[Hero], stack[Opponent]} /\ Effective <= stack[Hero] /\ Effective <= stack[Opponent]
    BY <1>2, EffectiveFacts
  <2> QED
    BY <1>2, <1>3, <2>1 DEF Smaller
<1>9. /\ Known(s.current_bet, 0) = ToCall /\ s.hero_stack # None /\ s.opponent_stack # None
      /\ rel # None /\ rel # Other(rel)
  BY <1>1, <1>2, <1>3, NoneAssumption DEF Known, Other
<1>10. actions = <<>> => ToCall = 0
  <2> SUFFICES ASSUME actions = <<>> PROVE ToCall = 0
    OBVIOUS
  <2>1. <<>> \in Seq({1})
    OBVIOUS
  <2>2. PutIn(actions) = Puts(0, 0)
    BY <2>1, PutInNothing
  <2>3. Puts(0, 0)["oop"] = 0 /\ Puts(0, 0)["ip"] = 0
    BY FurtherIs
  <2>4. both[rel] = 0 /\ both[Other(rel)] = 0
    <3> HIDE DEF both
    <3> QED
      BY <1>2, <1>7, <2>2, <2>3 DEF Other
  <2> HIDE DEF both
  <2> QED
    BY <1>2, <1>5, <1>6, <2>4
<1>11. ASSUME NEW i \in DOMAIN actions
       PROVE  LET a == actions[i]
                  before == PutIn(SubSeq(actions, 1, i - 1))
                  own == before[a.actor]
                  faced == before[Other(a.actor)]
              IN CASE a.action = "check" -> i = 1
                   [] a.action = "bet" -> own = faced /\ a.amount > 0
                   [] a.action = "raise" ->
                        own < faced /\ a.amount > faced /\ RaiseIsFull(s, actions, i, rel)
  <2> DEFINE a == actions[i]
             before == PutIn(SubSeq(actions, 1, i - 1))
             own == before[a.actor]
             faced == before[Other(a.actor)]
  <2>1. Sound(actions, i, stack[Opponent]) /\ Before(actions, i) = before
    BY <1>7 DEF Before
  <2>2. \/ a.action = "check" /\ i = 1
        \/ a.action = "bet" /\ own = faced /\ a.amount > 0
        \/ /\ a.action = "raise" /\ own < faced /\ a.amount > faced
           /\ a.amount - faced >= faced - own \/ (i = Len(actions) /\ stack[Opponent] = 0)
    BY <2>1 DEF Sound
  <2>3. a.amount - faced >= faced - own \/ (i = Len(actions) /\ stack[Opponent] = 0)
          => RaiseIsFull(s, actions, i, rel)
    <3>1. a.amount - faced >= faced - own => RaiseIsFull(s, actions, i, rel)
      BY DEF RaiseIsFull
    <3>2. i = Len(actions) /\ stack[Opponent] = 0 => RaiseIsFull(s, actions, i, rel)
      <4> SUFFICES ASSUME i = Len(actions), stack[Opponent] = 0 PROVE RaiseIsFull(s, actions, i, rel)
        OBVIOUS
      <4>1. actions # <<>>
        OBVIOUS
      <4>2. actions[i].actor # rel
        BY <1>7, <1>9, <4>1
      <4>3. 0 = IF actions[i].actor = rel THEN s.hero_stack ELSE s.opponent_stack
        BY <1>1, <4>2
      <4> HIDE DEF a, before, own, faced, rel
      <4> QED
        BY <4>3 DEF RaiseIsFull
    <3> QED
      BY <3>1, <3>2
  <2> HIDE DEF before, own, faced, a
  <2>4. CASE a.action = "check" /\ i = 1
    BY <2>4 DEF a, before, own, faced
  <2>5. CASE a.action = "bet" /\ own = faced /\ a.amount > 0
    BY <2>5 DEF a, before, own, faced
  <2>6. CASE a.action = "raise" /\ own < faced /\ a.amount > faced /\ RaiseIsFull(s, actions, i, rel)
    BY <2>6 DEF a, before, own, faced
  <2> QED
    BY <2>2, <2>3, <2>4, <2>5, <2>6
<1>12. Bigger(both.oop, both.ip) <=
         Smaller(s.hero_stack + both[rel], s.opponent_stack + both[Other(rel)])
  <2>1. put[OopSeat] <= wager /\ put[IpSeat] <= wager
    BY <1>2, <1>3
  <2>2. Bigger(put[OopSeat], put[IpSeat]) <= wager
    BY <2>1 DEF Bigger
  <2>3. Smaller(stack[Hero] + put[Hero], stack[Opponent] + put[Opponent]) >= wager
    BY <1>2, <1>3 DEF Smaller
  <2>4. put[OopSeat] \in Nat /\ put[IpSeat] \in Nat
    BY <1>2, <1>3
  <2>5. Bigger(put[OopSeat], put[IpSeat]) \in Int
        /\ Smaller(stack[Hero] + put[Hero], stack[Opponent] + put[Opponent]) \in Int
    BY <1>2, <1>3, <2>4 DEF Bigger, Smaller
  <2>6. Bigger(put[OopSeat], put[IpSeat]) <= Smaller(stack[Hero] + put[Hero], stack[Opponent] + put[Opponent])
    BY <1>2, <2>2, <2>3, <2>5
  <2> HIDE DEF both
  <2> QED
    BY <1>1, <1>5, <2>6
<1>13. /\ both[Other(rel)] - both[rel] = ToCall /\ ToCall >= 0
       /\ s.pot_size > both.oop + both.ip
  <2>1. put[OopSeat] \in Nat /\ put[IpSeat] \in Nat
    BY <1>2, <1>3
  <2> HIDE DEF both
  <2> QED
    BY <1>1, <1>2, <1>3, <1>5, <1>6, <2>1
<1>14. ToCall <= 0 => s.facing_action = None
  BY <1>1, <1>2
<1> HIDE DEF both, rel
<1>15. CASE actions = <<>>
  BY <1>1, <1>9, <1>10, <1>14, <1>15 DEF HistoryIsSupported, rel
<1>16. CASE actions # <<>>
  BY <1>1, <1>2, <1>7, <1>8, <1>9, <1>11, <1>12, <1>13, <1>14, <1>16 DEF HistoryIsSupported, rel
<1> QED
  BY <1>15, <1>16

-----------------------------------------------------------------------------
(***************************************************************************)
(* The streets that are over                                               *)
(***************************************************************************)

\* An action of a street that is over fits: the wagers before it allow it, and
\* it closes the street if it is the last one.
Fits(line, i) ==
    LET a == line[i]
        own == Before(line, i)[a.actor]
        faced == Before(line, i)[Other(a.actor)]
        closes == \/ a.action = "call"
                  \/ a.action = "check" /\ i > 1 /\ line[i - 1].action = "check"
    IN /\ CASE a.action = "check" -> Close(own, faced)
            [] a.action = "bet" -> Close(own, faced) /\ own <= 1
            [] a.action = "raise" -> own < faced - 1 /\ a.amount > faced + 1
            [] a.action = "call" -> own < faced - 1 /\ Close(a.amount, faced)
       /\ closes <=> i = Len(line)

\* A check that comes first fits.
LEMMA CheckFits ==
    ASSUME NEW line, line[1].action = "check", 1 # Len(line),
           Before(line, 1)[line[1].actor] = 0, Before(line, 1)[Other(line[1].actor)] = 0
    PROVE  Fits(line, 1)
BY DEF Fits, Close

\* A bet with nothing in fits.
LEMMA BetFits ==
    ASSUME NEW line, NEW i, line[i].action = "bet", i # Len(line),
           Before(line, i)[line[i].actor] = 0, Before(line, i)[Other(line[i].actor)] = 0
    PROVE  Fits(line, i)
BY DEF Fits, Close

\* A raise of a real bet fits.
LEMMA RaiseFits ==
    ASSUME NEW line, NEW i, line[i].action = "raise", i # Len(line), line[i].amount \in Nat,
           Before(line, i)[line[i].actor] = 0, Before(line, i)[Other(line[i].actor)] \in Nat,
           Before(line, i)[Other(line[i].actor)] >= 75,
           line[i].amount >= 2 * Before(line, i)[Other(line[i].actor)]
    PROVE  Fits(line, i)
<1> DEFINE x == Before(line, i)[Other(line[i].actor)]
           y == line[i].amount
<1>1. x \in Nat /\ y \in Nat /\ x >= 75 /\ y >= 2 * x
  OBVIOUS
<1> HIDE DEF x, y
<1>2. 0 < x - 1 /\ y > x + 1
  BY <1>1
<1> QED
  BY <1>2 DEF Fits, x, y

\* A call fits at the end.
LEMMA CallFits ==
    ASSUME NEW line, NEW i, line[i].action = "call", i = Len(line), line[i].amount \in Nat,
           Before(line, i)[Other(line[i].actor)] = line[i].amount,
           Before(line, i)[line[i].actor] < line[i].amount - 1
    PROVE  Fits(line, i)
<1>1. Close(line[i].amount, line[i].amount)
  BY DEF Close
<1> QED
  BY <1>1 DEF Fits

\* A line is valid if each of its actions fits.
LEMMA FitsAreValid ==
    ASSUME NEW line, Len(line) \in 2 .. 8, Turns(line), \A i \in DOMAIN line : Fits(line, i)
    PROVE  CompletedLineIsValid(line)
BY DEF CompletedLineIsValid, Fits, Before

\* Two checks.
LEMMA CheckedLineIsValid ==
    ASSUME NEW line,
           line = <<Did("oop", "check", None),
                    Did("ip", "check", None)>>
    PROVE  CompletedLineIsValid(line)
<1> DEFINE a == Did("oop", "check", None)
           b == Did("ip", "check", None)
<1>1. /\ a.actor = "oop" /\ a.action = "check" /\ a.amount = None
      /\ b.actor = "ip" /\ b.action = "check" /\ b.amount = None
  BY DEF Did
<1>2. /\ Further(Puts(0, 0), a) = Puts(0, 0)
      /\ Further(Puts(0, 0), b) = Puts(0, 0)
  BY FurtherIs
<1> HIDE DEF a, b
<1>3. /\ DOMAIN line = {1, 2} /\ Len(line) = 2
      /\ line[1] = a /\ line[2] = b
  BY DEF a, b
<1>4. /\ Before(line, 1) = Puts(0, 0)
      /\ Before(line, 2) = Puts(0, 0)
  BY <1>2, PutInTwo DEF a, b
<1>5. Turns(line)
  BY <1>1, <1>3 DEF Turns
<1>6. /\ Other("ip") = "oop" /\ Other("oop") = "ip"
      /\ Puts(0, 0)["oop"] = 0 /\ Puts(0, 0)["ip"] = 0
  BY FurtherIs DEF Other
<1>7. Fits(line, 1)
  <2>1. /\ line[1].actor = "oop" /\ line[1].action = "check" /\ line[1].amount = None
        /\ Before(line, 1)[line[1].actor] = 0 /\ Before(line, 1)[Other(line[1].actor)] = 0 /\ 1 # Len(line)
    BY <1>1, <1>3, <1>4, <1>6
  <2> QED
    BY <1>3, <2>1, CheckFits
<1>8. Fits(line, 2)
  <2>1. line[2].actor = "ip" /\ line[2].action = "check" /\ line[2 - 1].action = "check"
    <3>1. 2 - 1 = 1
      OBVIOUS
    <3> QED
      BY <1>1, <1>3, <3>1
  <2>2. Before(line, 2)["ip"] = 0 /\ Before(line, 2)[Other("ip")] = 0 /\ Len(line) = 2 /\ 2 > 1
    BY <1>3, <1>4, <1>6
  <2>3. Close(0, 0)
    BY DEF Close
  <2> HIDE DEF Other
  <2> QED
    BY <1>3, <2>1, <2>2, <2>3 DEF Fits
<1> QED
  BY <1>3, <1>5, <1>7, <1>8, FitsAreValid

\* A bet that is called.
LEMMA BetLineIsValid ==
    ASSUME NEW line, NEW x \in Nat, x >= 75,
           line = <<Did("oop", "bet", x),
                    Did("ip", "call", x)>>
    PROVE  CompletedLineIsValid(line)
<1> DEFINE a == Did("oop", "bet", x)
           b == Did("ip", "call", x)
<1>1. /\ a.actor = "oop" /\ a.action = "bet" /\ a.amount = x
      /\ b.actor = "ip" /\ b.action = "call" /\ b.amount = x
  BY DEF Did
<1>2. /\ Further(Puts(0, 0), a) = Puts(x, 0)
      /\ Further(Puts(x, 0), b) = Puts(x, x)
  BY FurtherIs
<1> HIDE DEF a, b
<1>3. /\ DOMAIN line = {1, 2} /\ Len(line) = 2
      /\ line[1] = a /\ line[2] = b
  BY DEF a, b
<1>4. /\ Before(line, 1) = Puts(0, 0)
      /\ Before(line, 2) = Puts(x, 0)
  BY <1>2, PutInTwo DEF a, b
<1>5. Turns(line)
  BY <1>1, <1>3 DEF Turns
<1>6. /\ Other("ip") = "oop" /\ Other("oop") = "ip"
      /\ Puts(0, 0)["oop"] = 0 /\ Puts(0, 0)["ip"] = 0
      /\ Puts(x, 0)["oop"] = x /\ Puts(x, 0)["ip"] = 0
  BY FurtherIs DEF Other
<1>7. Fits(line, 1)
  <2>1. /\ line[1].actor = "oop" /\ line[1].action = "bet" /\ line[1].amount = x
        /\ Before(line, 1)[line[1].actor] = 0 /\ Before(line, 1)[Other(line[1].actor)] = 0
    BY <1>1, <1>3, <1>4, <1>6
  <2> QED
    BY <1>3, <2>1, BetFits
<1>8. Fits(line, 2)
  <2>1. /\ line[2].actor = "ip" /\ line[2].action = "call" /\ line[2].amount = x
        /\ Before(line, 2)[line[2].actor] = 0 /\ Before(line, 2)[Other(line[2].actor)] = x
    BY <1>1, <1>3, <1>4, <1>6
  <2>2. 0 < x - 1
    OBVIOUS
  <2> QED
    BY <1>3, <2>1, <2>2, CallFits
<1> QED
  BY <1>3, <1>5, <1>7, <1>8, FitsAreValid

\* A bet after a check that is called.
LEMMA CheckBetLineIsValid ==
    ASSUME NEW line, NEW x \in Nat, x >= 75,
           line = <<Did("oop", "check", None),
                    Did("ip", "bet", x),
                    Did("oop", "call", x)>>
    PROVE  CompletedLineIsValid(line)
<1> DEFINE a == Did("oop", "check", None)
           b == Did("ip", "bet", x)
           c == Did("oop", "call", x)
<1>1. /\ a.actor = "oop" /\ a.action = "check" /\ a.amount = None
      /\ b.actor = "ip" /\ b.action = "bet" /\ b.amount = x
      /\ c.actor = "oop" /\ c.action = "call" /\ c.amount = x
  BY DEF Did
<1>2. /\ Further(Puts(0, 0), a) = Puts(0, 0)
      /\ Further(Puts(0, 0), b) = Puts(0, x)
      /\ Further(Puts(0, x), c) = Puts(x, x)
  BY FurtherIs
<1> HIDE DEF a, b, c
<1>3. /\ DOMAIN line = {1, 2, 3} /\ Len(line) = 3
      /\ line[1] = a /\ line[2] = b /\ line[3] = c
  BY DEF a, b, c
<1>4. /\ Before(line, 1) = Puts(0, 0)
      /\ Before(line, 2) = Puts(0, 0)
      /\ Before(line, 3) = Puts(0, x)
  BY <1>2, PutInThree DEF a, b, c
<1>5. Turns(line)
  BY <1>1, <1>3 DEF Turns
<1>6. /\ Other("ip") = "oop" /\ Other("oop") = "ip"
      /\ Puts(0, 0)["oop"] = 0 /\ Puts(0, 0)["ip"] = 0
      /\ Puts(0, x)["oop"] = 0 /\ Puts(0, x)["ip"] = x
  BY FurtherIs DEF Other
<1>7. Fits(line, 1)
  <2>1. /\ line[1].actor = "oop" /\ line[1].action = "check" /\ line[1].amount = None
        /\ Before(line, 1)[line[1].actor] = 0 /\ Before(line, 1)[Other(line[1].actor)] = 0 /\ 1 # Len(line)
    BY <1>1, <1>3, <1>4, <1>6
  <2> QED
    BY <1>3, <2>1, CheckFits
<1>8. Fits(line, 2)
  <2>1. /\ line[2].actor = "ip" /\ line[2].action = "bet" /\ line[2].amount = x
        /\ Before(line, 2)[line[2].actor] = 0 /\ Before(line, 2)[Other(line[2].actor)] = 0
    BY <1>1, <1>3, <1>4, <1>6
  <2> QED
    BY <1>3, <2>1, BetFits
<1>9. Fits(line, 3)
  <2>1. /\ line[3].actor = "oop" /\ line[3].action = "call" /\ line[3].amount = x
        /\ Before(line, 3)[line[3].actor] = 0 /\ Before(line, 3)[Other(line[3].actor)] = x
    BY <1>1, <1>3, <1>4, <1>6
  <2>2. 0 < x - 1
    OBVIOUS
  <2> QED
    BY <1>3, <2>1, <2>2, CallFits
<1> QED
  BY <1>3, <1>5, <1>7, <1>8, <1>9, FitsAreValid

\* A raise that is called.
LEMMA RaiseLineIsValid ==
    ASSUME NEW line, NEW x \in Nat, x >= 75, NEW y \in Nat, y >= 2 * x,
           line = <<Did("oop", "bet", x),
                    Did("ip", "raise", y),
                    Did("oop", "call", y)>>
    PROVE  CompletedLineIsValid(line)
<1> DEFINE a == Did("oop", "bet", x)
           b == Did("ip", "raise", y)
           c == Did("oop", "call", y)
<1>1. /\ a.actor = "oop" /\ a.action = "bet" /\ a.amount = x
      /\ b.actor = "ip" /\ b.action = "raise" /\ b.amount = y
      /\ c.actor = "oop" /\ c.action = "call" /\ c.amount = y
  BY DEF Did
<1>2. /\ Further(Puts(0, 0), a) = Puts(x, 0)
      /\ Further(Puts(x, 0), b) = Puts(x, y)
      /\ Further(Puts(x, y), c) = Puts(y, y)
  BY FurtherIs
<1> HIDE DEF a, b, c
<1>3. /\ DOMAIN line = {1, 2, 3} /\ Len(line) = 3
      /\ line[1] = a /\ line[2] = b /\ line[3] = c
  BY DEF a, b, c
<1>4. /\ Before(line, 1) = Puts(0, 0)
      /\ Before(line, 2) = Puts(x, 0)
      /\ Before(line, 3) = Puts(x, y)
  BY <1>2, PutInThree DEF a, b, c
<1>5. Turns(line)
  BY <1>1, <1>3 DEF Turns
<1>6. /\ Other("ip") = "oop" /\ Other("oop") = "ip"
      /\ Puts(0, 0)["oop"] = 0 /\ Puts(0, 0)["ip"] = 0
      /\ Puts(x, 0)["oop"] = x /\ Puts(x, 0)["ip"] = 0
      /\ Puts(x, y)["oop"] = x /\ Puts(x, y)["ip"] = y
  BY FurtherIs DEF Other
<1>7. Fits(line, 1)
  <2>1. /\ line[1].actor = "oop" /\ line[1].action = "bet" /\ line[1].amount = x
        /\ Before(line, 1)[line[1].actor] = 0 /\ Before(line, 1)[Other(line[1].actor)] = 0
    BY <1>1, <1>3, <1>4, <1>6
  <2> QED
    BY <1>3, <2>1, BetFits
<1>8. Fits(line, 2)
  <2>1. /\ line[2].actor = "ip" /\ line[2].action = "raise" /\ line[2].amount = y
        /\ Before(line, 2)[line[2].actor] = 0 /\ Before(line, 2)[Other(line[2].actor)] = x
    BY <1>1, <1>3, <1>4, <1>6
  <2> QED
    BY <1>3, <2>1, RaiseFits
<1>9. Fits(line, 3)
  <2>1. /\ line[3].actor = "oop" /\ line[3].action = "call" /\ line[3].amount = y
        /\ Before(line, 3)[line[3].actor] = x /\ Before(line, 3)[Other(line[3].actor)] = y
    BY <1>1, <1>3, <1>4, <1>6
  <2>2. x < y - 1
    OBVIOUS
  <2> QED
    BY <1>3, <2>1, <2>2, CallFits
<1> QED
  BY <1>3, <1>5, <1>7, <1>8, <1>9, FitsAreValid

\* A raise of a bet after a check that is called.
LEMMA CheckRaiseLineIsValid ==
    ASSUME NEW line, NEW x \in Nat, x >= 75, NEW y \in Nat, y >= 2 * x,
           line = <<Did("oop", "check", None),
                    Did("ip", "bet", x),
                    Did("oop", "raise", y),
                    Did("ip", "call", y)>>
    PROVE  CompletedLineIsValid(line)
<1> DEFINE a == Did("oop", "check", None)
           b == Did("ip", "bet", x)
           c == Did("oop", "raise", y)
           d == Did("ip", "call", y)
<1>1. /\ a.actor = "oop" /\ a.action = "check" /\ a.amount = None
      /\ b.actor = "ip" /\ b.action = "bet" /\ b.amount = x
      /\ c.actor = "oop" /\ c.action = "raise" /\ c.amount = y
      /\ d.actor = "ip" /\ d.action = "call" /\ d.amount = y
  BY DEF Did
<1>2. /\ Further(Puts(0, 0), a) = Puts(0, 0)
      /\ Further(Puts(0, 0), b) = Puts(0, x)
      /\ Further(Puts(0, x), c) = Puts(y, x)
      /\ Further(Puts(y, x), d) = Puts(y, y)
  <2>1. Further(Puts(0, 0), a) = Puts(0, 0)
    BY FurtherIs
  <2>2. Further(Puts(0, 0), b) = Puts(0, x)
    BY FurtherIs
  <2>3. Further(Puts(0, x), c) = Puts(y, x)
    <3>1. y # None
      BY NoneAssumption
    <3> QED
      BY <1>1, <3>1 DEF Further, Puts
  <2>4. Further(Puts(y, x), d) = Puts(y, y)
    BY FurtherIs
  <2> QED
    BY <2>1, <2>2, <2>3, <2>4
<1> HIDE DEF a, b, c, d
<1>3. /\ DOMAIN line = {1, 2, 3, 4} /\ Len(line) = 4
      /\ line[1] = a /\ line[2] = b /\ line[3] = c /\ line[4] = d
  BY DEF a, b, c, d
<1>4. /\ Before(line, 1) = Puts(0, 0)
      /\ Before(line, 2) = Puts(0, 0)
      /\ Before(line, 3) = Puts(0, x)
      /\ Before(line, 4) = Puts(y, x)
  BY <1>2, PutInFour DEF a, b, c, d
<1>5. Turns(line)
  BY <1>1, <1>3 DEF Turns
<1>6. /\ Other("ip") = "oop" /\ Other("oop") = "ip"
      /\ Puts(0, 0)["oop"] = 0 /\ Puts(0, 0)["ip"] = 0
      /\ Puts(0, x)["oop"] = 0 /\ Puts(0, x)["ip"] = x
      /\ Puts(y, x)["oop"] = y /\ Puts(y, x)["ip"] = x
  BY FurtherIs DEF Other
<1>7. Fits(line, 1)
  <2>1. /\ line[1].actor = "oop" /\ line[1].action = "check" /\ line[1].amount = None
        /\ Before(line, 1)[line[1].actor] = 0 /\ Before(line, 1)[Other(line[1].actor)] = 0 /\ 1 # Len(line)
    BY <1>1, <1>3, <1>4, <1>6
  <2> QED
    BY <1>3, <2>1, CheckFits
<1>8. Fits(line, 2)
  <2>1. /\ line[2].actor = "ip" /\ line[2].action = "bet" /\ line[2].amount = x
        /\ Before(line, 2)[line[2].actor] = 0 /\ Before(line, 2)[Other(line[2].actor)] = 0
    BY <1>1, <1>3, <1>4, <1>6
  <2> QED
    BY <1>3, <2>1, BetFits
<1>9. Fits(line, 3)
  <2>1. /\ line[3].actor = "oop" /\ line[3].action = "raise" /\ line[3].amount = y
        /\ Before(line, 3)[line[3].actor] = 0 /\ Before(line, 3)[Other(line[3].actor)] = x
    BY <1>1, <1>3, <1>4, <1>6
  <2> QED
    BY <1>3, <2>1, RaiseFits
<1>10. Fits(line, 4)
  <2>1. /\ line[4].actor = "ip" /\ line[4].action = "call" /\ line[4].amount = y
        /\ Before(line, 4)[line[4].actor] = x /\ Before(line, 4)[Other(line[4].actor)] = y
    BY <1>1, <1>3, <1>4, <1>6
  <2>2. x < y - 1 /\ y \in Nat
    OBVIOUS
  <2>3. /\ 4 = Len(line) /\ line[4].amount \in Nat
        /\ Before(line, 4)[Other(line[4].actor)] = line[4].amount
        /\ Before(line, 4)[line[4].actor] < line[4].amount - 1
    BY <1>3, <2>1, <2>2
  <2> QED
    BY <2>1, <2>3, CallFits
<1> QED
  BY <1>3, <1>5, <1>7, <1>8, <1>9, <1>10, FitsAreValid

\* A street that is closed is one that the validators take.
LEMMA ClosedIsValid ==
    ASSUME NEW line, NEW total \in Nat, ClosedStreet(line, total)
    PROVE  CompletedLineIsValid(line)
<1> HIDE DEF Did
<1>1. ASSUME NEW bet \in 75 .. total \div 2
      PROVE  bet \in Nat /\ bet >= 75 /\ total >= 2 * bet
  OBVIOUS
<1> QED
  BY <1>1, CheckedLineIsValid, BetLineIsValid, CheckBetLineIsValid, RaiseLineIsValid,
     CheckRaiseLineIsValid DEF ClosedStreet

\* The validators take the streets that are over.
LEMMA DoneIsValid ==
    ASSUME TableInv, HandInv, street # "preflop", NEW s, s.street = street,
           s.completed_postflop_streets = done
    PROVE  CompletedStreetsAreValid(s)
<1> DEFINE names == [i \in DOMAIN done |-> done[i].street]
           before == IF street \in DOMAIN StreetsBefore THEN StreetsBefore[street] ELSE <<>>
<1>1. street \in {"flop", "turn"}
  BY DEF TableInv, TypeInv
<1>2. CASE street = "flop"
  <2>1. done = <<>>
    BY <1>2 DEF HandInv, StreetsInv
  <2>2. names = <<>> /\ before = <<>>
    BY <1>2, <2>1 DEF StreetsBefore
  <2>3. IsPrefix(<<>>, <<>>)
    BY DEF IsPrefix
  <2> QED
    BY <2>1, <2>2, <2>3 DEF CompletedStreetsAreValid
<1>3. CASE street = "turn"
  <2>1. /\ done = <<[street |-> "flop", actions |-> done[1].actions]>>
        /\ ClosedStreet(done[1].actions, FlopTotal) /\ FlopTotal \in Nat
    BY <1>3 DEF HandInv, StreetsInv
  <2>2. DOMAIN done = {1} /\ done[1].street = "flop"
    BY <2>1
  <2>3. names = <<"flop">> /\ before = <<"flop">>
    BY <1>3, <2>2 DEF StreetsBefore
  <2>4. IsPrefix(<<"flop">>, <<"flop">>)
    BY DEF IsPrefix
  <2>5. CompletedLineIsValid(done[1].actions)
    BY <2>1, ClosedIsValid
  <2> QED
    BY <2>2, <2>3, <2>4, <2>5 DEF CompletedStreetsAreValid
<1> QED
  BY <1>1, <1>2, <1>3

\* The validators take a true state.
LEMMA WholeViewIsValid ==
    ASSUME TableInv, HandInv, street # "preflop", NEW p, NEW s, IsWholeView(s, p)
    PROVE  StateIsValid(s)
<1>1. /\ s.completed_postflop_streets = done /\ s.street = street /\ s.opponents_at_current_bet = None
      /\ s.opponent_wager = None /\ s.opponent_commitment_total = None
  BY DEF IsWholeView, IsStreetView
<1>2. OpponentsAtBetAreValid(s) /\ OpponentWagerIsValid(s) /\ CommitmentTotalIsValid(s)
  BY <1>1 DEF OpponentsAtBetAreValid, OpponentWagerIsValid, CommitmentTotalIsValid
<1>3. CompletedStreetsAreValid(s)
  BY <1>1, DoneIsValid
<1> QED
  BY <1>2, <1>3 DEF StateIsValid

\* In any hand a true record of a street is accepted.
LEMMA TrueHistoryIsAcceptedHolds ==
    ASSUME TableInv, HandInv
    PROVE  TrueHistoryIsAccepted
<1> SUFFICES ASSUME Decides, street # "preflop", NEW p \in Positions
             PROVE  LET s == [PostflopShown EXCEPT !.hero_position = p[1], !.opponent_position = p[2]]
                    IN /\ StateIsValid(s)
                       /\ PostflopPositionForState(s) # None =>
                            HistoryIsSupported(s, PostflopPositionForState(s))
  BY ZenonT(30) DEF TrueHistoryIsAccepted
<1> DEFINE s == [PostflopShown EXCEPT !.hero_position = p[1], !.opponent_position = p[2]]
<1>1. IsWholeView(s, p)
  BY WholeViewIsView, ZenonT(30)
<1> HIDE DEF s
<1>2. StateIsValid(s)
  BY <1>1, WholeViewIsValid
<1>3. PostflopPositionForState(s) \in {None, Role(Hero)}
  BY <1>1, PositionIsRole DEF IsWholeView, IsStreetView
<1>4. HistoryIsSupported(s, Role(Hero))
  BY <1>1, WholeViewIsSupported
<1> QED
  BY <1>2, <1>3, <1>4 DEF s

\* Safety: TrueHistoryIsAccepted. In every hand that is played, a complete and
\* true record of a street passes the validators of a state and the checks
\* before a postflop solve (_postflop_history_unsupported_reason).
THEOREM TrueHistoriesAreAccepted == Spec => []TrueHistoryIsAccepted
<1>1. TableInv /\ HandInv => TrueHistoryIsAccepted
  BY TrueHistoryIsAcceptedHolds
<1> QED
  BY <1>1, HandInvariant, PTL

-----------------------------------------------------------------------------
\* The opponents' wagers told truly.

\* What has been recorded of the wager hero faces: the wager, and nothing above.
LEMMA RecordedAmountsFacts ==
    ASSUME TableInv, Decides, AmountToCall > 0, NEW s, IsWagerView(s), RecordedAmounts(s) # {}
    PROVE  /\ RecordedAmounts(s) \in SUBSET Int /\ wager \in RecordedAmounts(s)
           /\ \A amount \in RecordedAmounts(s) : amount <= wager
<1> DEFINE recorded == Recorded(s)
<1>1. RecordedAmounts(s) = {recorded[i].amount : i \in DOMAIN recorded} \ {None}
  BY DEF RecordedAmounts
<1>2. recorded # <<>>
  BY <1>1
<1>3. wager \in Nat /\ wager # None
  BY DecisionFacts, NoneAssumption
<1>4. /\ \E i \in DOMAIN recorded : recorded[i].amount = wager
      /\ \A i \in DOMAIN recorded :
           recorded[i].amount = None \/ (recorded[i].amount \in Nat /\ recorded[i].amount <= wager)
  <2>1. CASE street = "preflop"
    <3>1. recorded = log
      BY <1>2, <2>1 DEF IsWagerView, Recorded
    <3> HIDE DEF recorded
    <3> QED
      BY <1>2, <2>1, <3>1, WagerIsOnRecord
  <2>2. CASE street # "preflop"
    <3>1. recorded = actions
      BY <1>2, <2>2 DEF IsWagerView, Recorded
    <3>2. ToCall > 0
      BY <2>2 DEF AmountToCall
    <3> HIDE DEF recorded
    <3> QED
      BY <2>2, <3>1, <3>2, StreetWager
  <2> QED
    BY <2>1, <2>2
<1> HIDE DEF recorded
<1> QED
  BY <1>1, <1>3, <1>4

\* Where hero faces a wager, one of the opponents has it in.
LEMMA SomebodyAtTheWager ==
    ASSUME TableInv, Decides, AmountToCall > 0
    PROVE  Matched >= 1
<1>1. Hero \in owes /\ live \subseteq Dealt /\ wager \in Nat /\ Cardinality(live \ {Hero}) \in 1 .. 5
  BY DecisionFacts, OpponentsFacts
<1>2. IsFiniteSet({}) /\ Cardinality({}) = 0
  BY FS_EmptySet
<1>3. PICK other : other \in live \ {Hero}
  BY <1>1, <1>2
<1>4. \E seat \in live \ {Hero} : put[seat] = wager
  <2>1. CASE street # "preflop"
    <3>1. ToCall > 0
      BY <2>1 DEF AmountToCall
    <3> QED
      BY <1>3, <2>1, <3>1, StreetWager
  <2>2. CASE street = "preflop" /\ Raised # {}
    BY <2>2, RaiserFacts
  <2>3. CASE street = "preflop" /\ Raised = {}
    <3>1. log # <<>>
      BY <2>3 DEF AmountToCall
    <3>2. 1 \in DOMAIN log
      <4>1. log \in Seq([actor : Dealt, action : {"call", "raise"}, amount : Nat])
        BY DEF TableInv, TypeInv
      <4>2. Len(log) # 0
        BY <3>1, <4>1, EmptySeq
      <4> QED
        BY <4>2, LogFacts DEF TableInv
    <3>3. wager = 100 /\ \A i \in DOMAIN log : log[i].amount = 100 /\ log[i].actor \notin owes
      BY <2>3 DEF TableInv, WagerInv
    <3>4. ASSUME NEW i \in DOMAIN log
          PROVE  log[i].actor # Hero /\ put[log[i].actor] = wager
      <4>1. /\ log[i].actor \in Dealt /\ log[i].amount = 100 /\ put[log[i].actor] \in Nat
            /\ log[i].amount <= put[log[i].actor]
        BY <2>3, <3>3, EntryFacts
      <4>2. put[log[i].actor] <= wager
        BY <4>1 DEF TableInv, ChipsInv
      <4> QED
        BY <1>1, <3>3, <4>1, <4>2
    <3>5. CASE live \subseteq Actors
      BY <1>3, <3>4, <3>5 DEF Actors
    <3>6. CASE ~ (live \subseteq Actors)
      <4>1. log[1].actor \in live
        BY <1>1, <2>3, <3>2, <3>6, FirstLapFacts DEF Actors
      <4> QED
        BY <3>2, <3>4, <4>1
    <3> QED
      BY <3>5, <3>6
  <2> QED
    BY <2>1, <2>2, <2>3
<1>5. PICK seat \in live \ {Hero} : put[seat] = wager
  BY <1>4
<1>6. {other2 \in live \ {Hero} : put[other2] = wager} # {}
  BY <1>5
<1>7. Matched \in Nat /\ IsFiniteSet(live \ {Hero})
  BY OpponentsFacts
<1>8. Matched # 0
  <2>1. IsFiniteSet({other2 \in live \ {Hero} : put[other2] = wager})
    BY <1>7, FS_Subset
  <2> QED
    BY <1>6, <2>1, FS_EmptySet DEF Matched
<1> QED
  BY <1>7, <1>8

\* What the opponents have in: the wager for each of those at it, and no more
\* than the wager for any.
LEMMA OpponentsPutBounds ==
    ASSUME TableInv, Decides
    PROVE  /\ OpponentsPut >= wager * Matched
           /\ OpponentsPut <= wager * Cardinality(live \ {Hero})
<1> DEFINE others == live \ {Hero}
           matched == {seat \in live \ {Hero} : put[seat] = wager}
           w == wager
           n == Cardinality(others)
           m == Cardinality(matched)
<1>1. others \in SUBSET (1 .. 6) /\ n \in 1 .. 5 /\ m \in 0 .. 5
  BY OpponentsFacts DEF Matched
<1>2. w \in Nat
  BY DecisionFacts
<1>3. \A seat \in 1 .. 6 :
        /\ OpponentPut(seat) \in Nat
        /\ Counts(others, seat) \in {0, 1} /\ Counts(matched, seat) \in {0, 1}
        /\ Counts(others, seat) = 0 => OpponentPut(seat) = 0
        /\ Counts(matched, seat) = 1 => OpponentPut(seat) = w
        /\ OpponentPut(seat) <= w
  <2> TAKE seat \in 1 .. 6
  <2>1. OpponentPut(seat) \in Nat
    BY OpponentsPutFacts
  <2>2. seat \in others => put[seat] \in Nat /\ put[seat] <= w
    BY OpponentsFacts
  <2> QED
    BY <1>2, <2>1, <2>2 DEF OpponentPut, Counts
<1>4. /\ n = Counts(others, 1) + Counts(others, 2) + Counts(others, 3)
           + Counts(others, 4) + Counts(others, 5) + Counts(others, 6)
      /\ m = Counts(matched, 1) + Counts(matched, 2) + Counts(matched, 3)
           + Counts(matched, 4) + Counts(matched, 5) + Counts(matched, 6)
  <2>1. matched \in SUBSET (1 .. 6)
    BY <1>1
  <2> HIDE DEF others, matched
  <2> QED
    BY <1>1, <2>1, SeatCount
<1>5. OpponentsPut = OpponentPut(1) + OpponentPut(2) + OpponentPut(3)
                   + OpponentPut(4) + OpponentPut(5) + OpponentPut(6)
  BY OpponentsPutFacts
<1> HIDE DEF w, n, m, others, matched
<1> DEFINE Fits6(p, c, d) ==
             p \in Nat /\ c \in {0, 1} /\ d \in {0, 1}
             /\ (c = 0 => p = 0) /\ (d = 1 => p = w) /\ p <= w
<1>6. /\ Fits6(OpponentPut(1), Counts(others, 1), Counts(matched, 1))
      /\ Fits6(OpponentPut(2), Counts(others, 2), Counts(matched, 2))
      /\ Fits6(OpponentPut(3), Counts(others, 3), Counts(matched, 3))
      /\ Fits6(OpponentPut(4), Counts(others, 4), Counts(matched, 4))
      /\ Fits6(OpponentPut(5), Counts(others, 5), Counts(matched, 5))
      /\ Fits6(OpponentPut(6), Counts(others, 6), Counts(matched, 6))
  BY <1>3
<1>7. ASSUME NEW p1, NEW p2, NEW p3, NEW p4, NEW p5, NEW p6,
             NEW c1, NEW c2, NEW c3, NEW c4, NEW c5, NEW c6,
             NEW d1, NEW d2, NEW d3, NEW d4, NEW d5, NEW d6,
             Fits6(p1, c1, d1), Fits6(p2, c2, d2), Fits6(p3, c3, d3),
             Fits6(p4, c4, d4), Fits6(p5, c5, d5), Fits6(p6, c6, d6),
             n = c1 + c2 + c3 + c4 + c5 + c6, m = d1 + d2 + d3 + d4 + d5 + d6
      PROVE  /\ p1 + p2 + p3 + p4 + p5 + p6 <= w * n
             /\ p1 + p2 + p3 + p4 + p5 + p6 >= w * m
  <2> DEFINE share(c) == IF c = 1 THEN w ELSE 0
  <2>1. /\ p1 <= share(c1) /\ p2 <= share(c2) /\ p3 <= share(c3)
        /\ p4 <= share(c4) /\ p5 <= share(c5) /\ p6 <= share(c6)
        /\ p1 >= share(d1) /\ p2 >= share(d2) /\ p3 >= share(d3)
        /\ p4 >= share(d4) /\ p5 >= share(d5) /\ p6 >= share(d6)
    BY <1>2, <1>7
  <2>2. /\ w * n = share(c1) + share(c2) + share(c3) + share(c4) + share(c5) + share(c6)
        /\ w * m = share(d1) + share(d2) + share(d3) + share(d4) + share(d5) + share(d6)
    <3>1. /\ c1 \in {0, 1} /\ c2 \in {0, 1} /\ c3 \in {0, 1} /\ c4 \in {0, 1} /\ c5 \in {0, 1} /\ c6 \in {0, 1}
          /\ d1 \in {0, 1} /\ d2 \in {0, 1} /\ d3 \in {0, 1} /\ d4 \in {0, 1} /\ d5 \in {0, 1} /\ d6 \in {0, 1}
      BY <1>7
    <3>2. n \in 0 .. 6 /\ m \in 0 .. 6 /\ n = c1 + c2 + c3 + c4 + c5 + c6 /\ m = d1 + d2 + d3 + d4 + d5 + d6
      BY <1>1, <1>7
    <3> HIDE DEF Fits6
    <3>3. w * n = share(c1) + share(c2) + share(c3) + share(c4) + share(c5) + share(c6)
      <4>1. CASE n \in {0, 1, 2}
        BY <1>2, <3>1, <3>2, <4>1
      <4>2. CASE n \in {3, 4}
        BY <1>2, <3>1, <3>2, <4>2
      <4>3. CASE n \in {5, 6}
        BY <1>2, <3>1, <3>2, <4>3
      <4> QED
        BY <3>2, <4>1, <4>2, <4>3
    <3>4. w * m = share(d1) + share(d2) + share(d3) + share(d4) + share(d5) + share(d6)
      <4>1. CASE m \in {0, 1, 2}
        BY <1>2, <3>1, <3>2, <4>1
      <4>2. CASE m \in {3, 4}
        BY <1>2, <3>1, <3>2, <4>2
      <4>3. CASE m \in {5, 6}
        BY <1>2, <3>1, <3>2, <4>3
      <4> QED
        BY <3>2, <4>1, <4>2, <4>3
    <3> QED
      BY <3>3, <3>4
  <2>3. /\ share(c1) \in Int /\ share(c2) \in Int /\ share(c3) \in Int
        /\ share(c4) \in Int /\ share(c5) \in Int /\ share(c6) \in Int
        /\ share(d1) \in Int /\ share(d2) \in Int /\ share(d3) \in Int
        /\ share(d4) \in Int /\ share(d5) \in Int /\ share(d6) \in Int
        /\ p1 \in Int /\ p2 \in Int /\ p3 \in Int /\ p4 \in Int /\ p5 \in Int /\ p6 \in Int
    BY <1>2, <1>7
  <2> HIDE DEF share
  <2> QED
    BY <2>1, <2>2, <2>3
<1> HIDE DEF Fits6
<1>8. /\ OpponentsPut <= w * n
      /\ OpponentsPut >= w * m
  BY <1>4, <1>5, <1>6, <1>7
<1> QED
  BY <1>8 DEF w, n, m, others, matched, Matched

\* And all of it is in the pot.
LEMMA OpponentsPutInPot ==
    ASSUME TableInv, Decides
    PROVE  OpponentsPut <= pot
<1>1. /\ live \subseteq Dealt /\ Dealt \subseteq 1 .. 6 /\ pot \in Nat
  BY DecisionFacts
<1>2. OpponentsPut = OpponentPut(1) + OpponentPut(2) + OpponentPut(3)
                   + OpponentPut(4) + OpponentPut(5) + OpponentPut(6)
      /\ \A seat \in 1 .. 6 : OpponentPut(seat) \in Nat
  BY OpponentsPutFacts
<1>3. CASE street = "preflop"
  <2>1. \A seat \in 1 .. 6 : Spent(seat) \in Nat /\ OpponentPut(seat) <= Spent(seat)
    <3> TAKE seat \in 1 .. 6
    <3>1. CASE seat \in Dealt
      <4>1. /\ put[seat] \in Nat /\ stack[seat] \in Nat /\ start[seat] \in Nat
            /\ put[seat] + stack[seat] = start[seat]
        BY <1>3, <3>1, DealtFacts DEF TableInv, TypeInv, ChipsInv
      <4> QED
        BY <3>1, <4>1 DEF Spent, OpponentPut
    <3>2. CASE seat \notin Dealt
      BY <1>1, <3>2 DEF Spent, OpponentPut
    <3> QED
      BY <3>1, <3>2
  <2>2. pot = Spent(1) + Spent(2) + Spent(3) + Spent(4) + Spent(5) + Spent(6)
    BY DEF TableInv, ChipsInv
  <2>3. /\ OpponentPut(1) \in Nat /\ OpponentPut(2) \in Nat /\ OpponentPut(3) \in Nat
        /\ OpponentPut(4) \in Nat /\ OpponentPut(5) \in Nat /\ OpponentPut(6) \in Nat
        /\ Spent(1) \in Nat /\ Spent(2) \in Nat /\ Spent(3) \in Nat
        /\ Spent(4) \in Nat /\ Spent(5) \in Nat /\ Spent(6) \in Nat
        /\ OpponentPut(1) <= Spent(1) /\ OpponentPut(2) <= Spent(2) /\ OpponentPut(3) <= Spent(3)
        /\ OpponentPut(4) <= Spent(4) /\ OpponentPut(5) <= Spent(5) /\ OpponentPut(6) <= Spent(6)
    BY <1>2, <2>1
  <2> QED
    BY <1>2, <2>2, <2>3
<1>4. CASE street # "preflop"
  <2>1. /\ \E a, b \in Dealt : a # b /\ live = {a, b}
        /\ pot >= put[OopSeat] + put[IpSeat] + 150 /\ TypeInv /\ Hero \in live
    BY <1>4, DecisionFacts DEF TableInv, StreetInv
  <2>2. /\ OopSeat \in Dealt /\ IpSeat \in Dealt /\ OopSeat # IpSeat /\ live = {OopSeat, IpSeat}
    BY <2>1, TwoLeft DEF TypeInv
  <2>3. put[OopSeat] \in Nat /\ put[IpSeat] \in Nat
    BY <2>1, <2>2 DEF TypeInv
  <2>4. PICK other \in {OopSeat, IpSeat} : live \ {Hero} = {other}
    BY <2>1, <2>2
  <2>5. \A seat \in 1 .. 6 : OpponentPut(seat) = IF seat = other THEN put[other] ELSE 0
    BY <2>4 DEF OpponentPut
  <2>6. other \in 1 .. 6 /\ put[other] \in Nat /\ put[other] <= pot
    BY <1>1, <2>1, <2>2, <2>3
  <2>7. OpponentsPut = put[other]
    <3> DEFINE share(seat) == IF seat = other THEN put[other] ELSE 0
    <3>1. /\ OpponentPut(1) = share(1) /\ OpponentPut(2) = share(2) /\ OpponentPut(3) = share(3)
          /\ OpponentPut(4) = share(4) /\ OpponentPut(5) = share(5) /\ OpponentPut(6) = share(6)
      BY <2>5
    <3>2. OpponentsPut = share(1) + share(2) + share(3) + share(4) + share(5) + share(6)
      BY <1>2, <3>1
    <3> QED
      BY <2>6, <3>2
  <2> QED
    BY <2>6, <2>7
<1> QED
  BY <1>3, <1>4

\* The validators take what is told truly of the wagers.
LEMMA WagersSentAreValid ==
    ASSUME TableInv, HandInv, Decides, NEW s, IsWagerView(s), ~ CommitmentTotalFails(s)
    PROVE  StateIsValid(s)
<1> DEFINE n == Cardinality(live \ {Hero})
<1>1. /\ s.street = street /\ s.current_bet = AmountToCall /\ s.players_in_hand = n + 1
      /\ s.pot_size = pot
      /\ s.opponents_at_current_bet \in {None, Matched} /\ s.opponent_wager \in {None, wager}
      /\ s.opponent_commitment_total \in {None, OpponentsPut}
      /\ n \in 1 .. 5 /\ Matched \in Nat /\ Matched <= n
  BY OpponentsFacts DEF IsWagerView
<1>2. /\ AmountToCall \in Nat /\ wager \in Nat /\ AmountToCall <= wager
      /\ pot \in Nat /\ OpponentsPut \in Nat
  <2>1. wager \in Nat /\ put[Hero] \in Nat /\ put[Hero] <= wager /\ ToCall \in Nat /\ pot \in Nat
    BY DecisionFacts
  <2>2. ToCall <= wager /\ 0 <= wager
    BY <2>1 DEF ToCall
  <2>3. AmountToCall = 0 \/ AmountToCall = ToCall
    BY DEF AmountToCall
  <2>4. OpponentsPut \in Nat
    BY OpponentsPutFacts
  <2> HIDE DEF ToCall
  <2> QED
    BY <2>1, <2>2, <2>3, <2>4
<1>3. /\ AmountToCall # None /\ n + 1 # None /\ pot # None
      /\ Known(s.current_bet, 0) = AmountToCall
  <2>1. None \notin Int /\ n + 1 \in Int /\ AmountToCall \in Int /\ pot \in Int
    BY <1>1, <1>2, NoneAssumption
  <2> HIDE DEF n
  <2> QED
    BY <1>1, <2>1 DEF Known
<1>4. CompletedStreetsAreValid(s)
  <2>1. CASE street = "preflop"
    <3>1. s.completed_postflop_streets = <<>> /\ "preflop" \notin DOMAIN StreetsBefore
      BY <2>1 DEF IsWagerView, StreetsBefore
    <3>2. IsPrefix(<<>>, <<>>) /\ [i \in {} |-> <<>>[i].street] = <<>>
      BY DEF IsPrefix
    <3> QED
      BY <1>1, <2>1, <3>1, <3>2 DEF CompletedStreetsAreValid
  <2>2. CASE street # "preflop"
    BY <1>1, <2>2, DoneIsValid DEF IsWagerView
  <2> QED
    BY <2>1, <2>2
<1>5. CASE AmountToCall = 0
  <2>1. /\ s.opponents_at_current_bet = None /\ s.opponent_wager = None
        /\ s.opponent_commitment_total = None
    BY <1>5 DEF IsWagerView
  <2> QED
    BY <1>4, <2>1 DEF StateIsValid, OpponentsAtBetAreValid, OpponentWagerIsValid, CommitmentTotalIsValid
<1>6. CASE AmountToCall > 0
  <2> HIDE DEF n
  <2>1. OpponentsAtBetAreValid(s)
    BY <1>1, <1>3, <1>6 DEF OpponentsAtBetAreValid
  <2>2. OpponentWagerIsValid(s)
    BY <1>1, <1>2, <1>3, <1>6 DEF OpponentWagerIsValid
  <2>3. CASE s.opponent_commitment_total = None
    BY <1>4, <2>1, <2>2, <2>3 DEF StateIsValid, CommitmentTotalIsValid
  <2>4. CASE s.opponent_commitment_total # None
    <3>1. s.opponent_commitment_total = OpponentsPut /\ OpponentsPut <= pot
      BY <1>1, <2>4, OpponentsPutInPot
    <3> DEFINE told == s.opponent_wager # None
               known == IF told THEN {s.opponent_wager} ELSE RecordedAmounts(s)
               most == IF told THEN s.opponent_wager ELSE Max(known \union {Known(s.current_bet, 0)})
    <3>2. Max(known) = wager /\ most = wager
      <4>1. CASE told
        <5>1. known = {wager} /\ most = wager
          BY <1>1, <4>1
        <5>2. {wager} \in SUBSET Int /\ wager \in {wager} /\ \A k \in {wager} : k <= wager
          BY <1>2
        <5>3. Max({wager}) = wager
          BY <5>2, MaxIs
        <5> QED
          BY <5>1, <5>3
      <4>2. CASE ~ told
        <5>1. RecordedAmounts(s) # {}
          BY <1>1, <1>3, <2>4, <3>1, <4>2 DEF CommitmentTotalFails
        <5>2. /\ RecordedAmounts(s) \in SUBSET Int /\ wager \in RecordedAmounts(s)
              /\ \A amount \in RecordedAmounts(s) : amount <= wager
          BY <1>6, <5>1, RecordedAmountsFacts
        <5> DEFINE all == RecordedAmounts(s) \union {AmountToCall}
        <5>3. Max(RecordedAmounts(s)) = wager
          BY <5>2, MaxIs
        <5>4. all \in SUBSET Int /\ wager \in all /\ \A k \in all : k <= wager
          BY <1>2, <5>2
        <5> HIDE DEF all
        <5>5. Max(all) = wager
          BY <5>4, MaxIs
        <5> QED
          BY <1>3, <4>2, <5>3, <5>5 DEF all
      <4> QED
        BY <4>1, <4>2
    <3> HIDE DEF told, known, most
    <3> DEFINE at == Known(s.opponents_at_current_bet, 1)
    <3>3. OpponentsPut >= wager * at
      <4>1. Matched >= 1 /\ OpponentsPut >= wager * Matched
        BY <1>6, SomebodyAtTheWager, OpponentsPutBounds
      <4>2. at = 1 \/ at = Matched
        BY <1>1 DEF Known
      <4>3. wager * Matched >= wager * 1
        BY <1>1, <1>2, <4>1
      <4> HIDE DEF at
      <4> QED
        BY <1>1, <1>2, <4>1, <4>2, <4>3
    <3>4. OpponentsPut <= wager * n
      BY OpponentsPutBounds DEF n
    <3>5. (n + 1) - 1 = n
      BY <1>1
    <3>6. CommitmentTotalIsValid(s)
      <4>1. s.pot_size # None => s.opponent_commitment_total <= s.pot_size
        BY <1>1, <3>1
      <4>2. s.opponent_commitment_total >= most * at
        BY <3>1, <3>2, <3>3
      <4>3. s.opponent_commitment_total <= Max(known) * (s.players_in_hand - 1)
        BY <1>1, <3>1, <3>2, <3>4, <3>5
      <4> QED
        BY <4>1, <4>2, <4>3 DEF CommitmentTotalIsValid, told, known, most, at
    <3> QED
      BY <1>4, <2>1, <2>2, <3>6 DEF StateIsValid
  <2> QED
    BY <2>3, <2>4
<1> QED
  BY <1>2, <1>5, <1>6

\* In any hand the wagers told truly are accepted.
LEMMA TrueWagersAreAcceptedHolds ==
    ASSUME TableInv, HandInv
    PROVE  TrueWagersAreAccepted
<1> SUFFICES ASSUME Decides, NEW v \in Views, NEW s \in WagersSent(v), ~ CommitmentTotalFails(s)
             PROVE  StateIsValid(s)
  BY DEF TrueWagersAreAccepted
<1> QED
  BY WagersSentAreViews, WagersSentAreValid

\* Safety: TrueWagersAreAccepted. In every hand that is played, the true wagers
\* of the opponents, told in whole or in part beside a record or none, pass the
\* validators of a state, but for those on which the validator of the
\* commitments fails: the total told with neither a wager nor a record of the
\* street (_validate_opponents_at_current_bet, _validate_opponent_wager,
\* _validate_opponent_commitment_total).
THEOREM TrueWagersAreStored == Spec => []TrueWagersAreAccepted
<1>1. TableInv /\ HandInv => TrueWagersAreAccepted
  BY TrueWagersAreAcceptedHolds
<1> QED
  BY <1>1, HandInvariant, PTL

-----------------------------------------------------------------------------
(***************************************************************************)
(* The tables of the chart                                                 *)
(***************************************************************************)

\* A policy that raises with some hands and continues with some.
Plays(base) == base[1] \in Nat /\ base[1] >= 1 /\ base[2] \in Nat /\ base[2] >= 1

\* The tables of pairs play in every pair of seats.
LEMMA PairsPlay ==
    ASSUME NEW a \in 1 .. 6, NEW b \in 1 .. 6, a < b
    PROVE  /\ Plays(Pair(DEFENSE, a, b))
           /\ Plays(Pair(ISOLATION_RESPONSE, a, b))
           /\ Plays(Pair(LIMP_RERAISE_RESPONSE, a, b))
           /\ Plays(Pair(THREE_BET_DEFENSE, a, b))
           /\ Plays(Pair(FOUR_BET_DEFENSE, a, b))
<1>1. \/ a = 1 /\ b - a \in {1, 2, 3, 4, 5}
      \/ a = 2 /\ b - a \in {1, 2, 3, 4}
      \/ a = 3 /\ b - a \in {1, 2, 3}
      \/ a = 4 /\ b - a \in {1, 2}
      \/ a = 5 /\ b - a = 1
  OBVIOUS
<1>2. Plays(Pair(DEFENSE, a, b))
  BY <1>1 DEF Plays, Pair, DEFENSE
<1>3. Plays(Pair(ISOLATION_RESPONSE, a, b))
  BY <1>1 DEF Plays, Pair, ISOLATION_RESPONSE
<1>4. Plays(Pair(LIMP_RERAISE_RESPONSE, a, b))
  BY <1>1 DEF Plays, Pair, LIMP_RERAISE_RESPONSE
<1>5. Plays(Pair(THREE_BET_DEFENSE, a, b))
  BY <1>1 DEF Plays, Pair, THREE_BET_DEFENSE
<1>6. Plays(Pair(FOUR_BET_DEFENSE, a, b))
  BY <1>1 DEF Plays, Pair, FOUR_BET_DEFENSE
<1> QED
  BY <1>2, <1>3, <1>4, <1>5, <1>6

\* The tables of triples play in every three seats in order.
LEMMA TriplesPlay ==
    ASSUME NEW a \in 1 .. 6, NEW b \in 1 .. 6, NEW c \in 1 .. 6, a < b, b < c
    PROVE  /\ Plays(Triple(COLD_THREE_BET_DEFENSE, a, b, c))
           /\ Plays(Triple(SQUEEZE_DEFENSE, a, b, c))
           /\ Plays(Triple(COLD_FOUR_BET_DEFENSE, a, b, c))
<1>1. \/ a = 1 /\ b - a = 1 /\ c - b \in {1, 2, 3, 4}
      \/ a = 1 /\ b - a = 2 /\ c - b \in {1, 2, 3}
      \/ a = 1 /\ b - a = 3 /\ c - b \in {1, 2}
      \/ a = 1 /\ b - a = 4 /\ c - b = 1
      \/ a = 2 /\ b - a = 1 /\ c - b \in {1, 2, 3}
      \/ a = 2 /\ b - a = 2 /\ c - b \in {1, 2}
      \/ a = 2 /\ b - a = 3 /\ c - b = 1
      \/ a = 3 /\ b - a = 1 /\ c - b \in {1, 2}
      \/ a = 3 /\ b - a = 2 /\ c - b = 1
      \/ a = 4 /\ b - a = 1 /\ c - b = 1
  OBVIOUS
<1>2. Plays(Triple(COLD_THREE_BET_DEFENSE, a, b, c))
  BY <1>1 DEF Plays, Triple, COLD_THREE_BET_DEFENSE
<1>3. Plays(Triple(SQUEEZE_DEFENSE, a, b, c))
  BY <1>1 DEF Plays, Triple, SQUEEZE_DEFENSE
<1>4. Plays(Triple(COLD_FOUR_BET_DEFENSE, a, b, c))
  BY <1>1 DEF Plays, Triple, COLD_FOUR_BET_DEFENSE
<1> QED
  BY <1>2, <1>3, <1>4

\* A size or a depth for which a policy is adjusted.
Adjusts(band) ==
    /\ band.continue \in Nat /\ band.continue >= 60
    /\ band.raise \in Nat /\ band.raise >= 60

\* The first band that fits is one of them.
LEMMA BandIsOne ==
    ASSUME NEW bands, NEW n, NEW d, DOMAIN bands \subseteq Nat, BandFor(bands, n, d) # None
    PROVE  \E i \in DOMAIN bands : BandFor(bands, n, d) = bands[i]
<1> DEFINE fit == {i \in DOMAIN bands : bands[i].maximum = None \/ 100 * n <= bands[i].maximum * d}
<1>1. BandFor(bands, n, d) = IF fit = {} THEN None ELSE bands[CHOOSE i \in fit : \A j \in fit : i <= j]
  BY DEF BandFor
<1>2. fit \in SUBSET Nat /\ fit \subseteq DOMAIN bands
  OBVIOUS
<1> HIDE DEF fit
<1>3. fit # {}
  BY <1>1
<1>4. \E i \in fit : \A j \in fit : i <= j
  BY <1>2, <1>3, MinIsLeast
<1> QED
  BY <1>1, <1>2, <1>3, <1>4

\* Whatever size is answered, the policy is adjusted by one of its table.
LEMMA SizesAdjust ==
    ASSUME NEW n, NEW d
    PROVE  /\ BandFor(OPEN_SIZES, n, d) # None => Adjusts(BandFor(OPEN_SIZES, n, d))
           /\ BandFor(ISOLATION_SIZES, n, d) # None => Adjusts(BandFor(ISOLATION_SIZES, n, d))
           /\ BandFor(LIMP_RERAISE_SIZES, n, d) # None => Adjusts(BandFor(LIMP_RERAISE_SIZES, n, d))
           /\ BandFor(THREE_BET_SIZES, n, d) # None => Adjusts(BandFor(THREE_BET_SIZES, n, d))
           /\ BandFor(FOUR_BET_SIZES, n, d) # None => Adjusts(BandFor(FOUR_BET_SIZES, n, d))
<1>1. /\ DOMAIN OPEN_SIZES = {1, 2, 3, 4}
      /\ \A i \in {1, 2, 3, 4} : Adjusts(OPEN_SIZES[i])
  BY DEF OPEN_SIZES, Band, Adjusts
<1>2. /\ DOMAIN ISOLATION_SIZES = {1, 2, 3}
      /\ \A i \in {1, 2, 3} : Adjusts(ISOLATION_SIZES[i])
  BY DEF ISOLATION_SIZES, Band, Adjusts
<1>3. /\ DOMAIN LIMP_RERAISE_SIZES = {1, 2, 3, 4}
      /\ \A i \in {1, 2, 3, 4} : Adjusts(LIMP_RERAISE_SIZES[i])
  BY DEF LIMP_RERAISE_SIZES, Band, Adjusts
<1>4. /\ DOMAIN THREE_BET_SIZES = {1, 2, 3, 4}
      /\ \A i \in {1, 2, 3, 4} : Adjusts(THREE_BET_SIZES[i])
  BY DEF THREE_BET_SIZES, Band, Adjusts
<1>5. /\ DOMAIN FOUR_BET_SIZES = {1, 2, 3, 4}
      /\ \A i \in {1, 2, 3, 4} : Adjusts(FOUR_BET_SIZES[i])
  BY DEF FOUR_BET_SIZES, Band, Adjusts
<1>6. {1, 2, 3, 4} \subseteq Nat /\ {1, 2, 3} \subseteq Nat
  OBVIOUS
<1>7. BandFor(OPEN_SIZES, n, d) # None => Adjusts(BandFor(OPEN_SIZES, n, d))
  BY <1>1, <1>6, BandIsOne
<1>8. BandFor(ISOLATION_SIZES, n, d) # None => Adjusts(BandFor(ISOLATION_SIZES, n, d))
  BY <1>2, <1>6, BandIsOne
<1>9. BandFor(LIMP_RERAISE_SIZES, n, d) # None => Adjusts(BandFor(LIMP_RERAISE_SIZES, n, d))
  BY <1>3, <1>6, BandIsOne
<1>10. BandFor(THREE_BET_SIZES, n, d) # None => Adjusts(BandFor(THREE_BET_SIZES, n, d))
  BY <1>4, <1>6, BandIsOne
<1>11. BandFor(FOUR_BET_SIZES, n, d) # None => Adjusts(BandFor(FOUR_BET_SIZES, n, d))
  BY <1>5, <1>6, BandIsOne
<1> QED
  BY <1>7, <1>8, <1>9, <1>10, <1>11

\* There is a depth for every stack.
LEMMA DepthsAdjust ==
    ASSUME NEW n
    PROVE  Adjusts(DepthFor(n))
<1> DEFINE fit == {i \in DOMAIN STACK_DEPTHS : \/ STACK_DEPTHS[i].maximum = None
                                               \/ 100 * n <= STACK_DEPTHS[i].maximum * 100}
<1>1. DOMAIN STACK_DEPTHS = {1, 2, 3, 4} /\ STACK_DEPTHS[4].maximum = None
  BY DEF STACK_DEPTHS, Depth
<1>2. 4 \in fit /\ fit \in SUBSET {1, 2, 3, 4} /\ fit \in SUBSET Nat
  BY <1>1
<1>3. DepthFor(n) = IF fit = {} THEN None ELSE STACK_DEPTHS[CHOOSE i \in fit : \A j \in fit : i <= j]
  BY DEF DepthFor, BandFor
<1> HIDE DEF fit
<1>4. \E i \in fit : \A j \in fit : i <= j
  BY <1>2, MinIsLeast
<1>5. \E i \in {1, 2, 3, 4} : DepthFor(n) = STACK_DEPTHS[i]
  BY <1>2, <1>3, <1>4
<1>6. \A i \in {1, 2, 3, 4} : Adjusts(STACK_DEPTHS[i])
  BY DEF STACK_DEPTHS, Depth, Adjusts
<1> QED
  BY <1>5, <1>6

\* A share that is adjusted does not vanish.
LEMMA ShareIsPositive ==
    ASSUME NEW base \in Nat, base >= 1, NEW m1 \in Nat, m1 >= 60, NEW m2 \in Nat, m2 >= 60,
           NEW most \in Nat, most >= 1
    PROVE  Share(base, m1, m2, most) \in Nat /\ Share(base, m1, m2, most) >= 1
<1> DEFINE product == base * m1 * m2
<1>1. base * m1 \in Nat /\ base * m1 >= 60
  <2>1. base * m1 \in Nat /\ base * m1 >= m1
    OBVIOUS
  <2> QED
    BY <2>1
<1>2. product \in Nat /\ product >= 3600
  <2>1. \A k, m \in Nat : k >= 60 /\ m >= 60 => k * m \in Nat /\ k * m >= 3600
    OBVIOUS
  <2> QED
    BY <1>1, <2>1
<1>3. Smaller(most * 1000, product) \in Nat /\ Smaller(most * 1000, product) >= 1000
  <2> HIDE DEF product
  <2> QED
    BY <1>2 DEF Smaller
<1>4. \A k \in Nat : k >= 1000 => (k + 500) \div 1000 \in Nat /\ (k + 500) \div 1000 >= 1
  OBVIOUS
<1> HIDE DEF product
<1>5. Share(base, m1, m2, most) = (Smaller(most * 1000, product) + 500) \div 1000
  BY DEF Share, product
<1> QED
  BY <1>3, <1>4, <1>5

\* Nor do the shares of a policy.
LEMMA PoliciesRaise ==
    ASSUME NEW base, Plays(base), NEW size, Adjusts(size), NEW depth, Adjusts(depth)
    PROVE  /\ Adjusted(base, size, depth).raise \in Nat
           /\ Adjusted(base, size, depth).raise >= 1
           /\ AdjustedFourBet(base, size, depth).raise \in Nat
           /\ AdjustedFourBet(base, size, depth).raise >= 1
<1>1. /\ base[1] \in Nat /\ base[1] >= 1 /\ base[2] \in Nat /\ base[2] >= 1
      /\ size.continue \in Nat /\ size.continue >= 60 /\ size.raise \in Nat /\ size.raise >= 60
      /\ depth.continue \in Nat /\ depth.continue >= 60 /\ depth.raise \in Nat /\ depth.raise >= 60
  BY DEF Plays, Adjusts
<1>t. ASSUME NEW b, NEW m1, NEW m2, NEW most,
             b \in Nat /\ b >= 1 /\ m1 \in Nat /\ m1 >= 60 /\ m2 \in Nat /\ m2 >= 60,
             most \in Nat /\ most >= 1
      PROVE  Share(b, m1, m2, most) \in Nat /\ Share(b, m1, m2, most) >= 1
  BY <1>t, ShareIsPositive
<1> DEFINE continue == Share(base[1], size.continue, depth.continue, 10000)
           free == Share(base[2], size.raise, depth.raise, 10000)
<1>2. continue \in Nat /\ continue >= 1
  BY <1>1, <1>t
<1>3. free \in Nat /\ free >= 1
  BY <1>1, <1>t
<1>4. /\ Share(base[2], size.raise, depth.raise, continue) \in Nat
      /\ Share(base[2], size.raise, depth.raise, continue) >= 1
  BY <1>1, <1>2, <1>t
<1>5. AdjustedFourBet(base, size, depth).raise = Share(base[2], size.raise, depth.raise, continue)
  BY DEF AdjustedFourBet, continue
<1>6. Adjusted(base, size, depth).raise = free
  BY DEF Adjusted
<1> HIDE DEF free
<1> QED
  BY <1>3, <1>4, <1>5, <1>6

\* Nor the share against a limp.
LEMMA LimpsAreRaised ==
    ASSUME NEW seat \in 1 .. 5, NEW depth, Adjusts(depth)
    PROVE  /\ LimpRaiseFraction(LIMP_RESPONSE[seat], depth) \in Nat
           /\ LimpRaiseFraction(LIMP_RESPONSE[seat], depth) >= 1
<1>1. seat \in {1, 2, 3, 4, 5}
  OBVIOUS
<1>2. LIMP_RESPONSE[seat] \in Nat /\ LIMP_RESPONSE[seat] >= 1
  BY <1>1 DEF LIMP_RESPONSE
<1>3. depth.raise \in Nat /\ depth.raise >= 60
  BY DEF Adjusts
<1>t. ASSUME NEW b, NEW m1, NEW m2, NEW most,
             b \in Nat /\ b >= 1 /\ m1 \in Nat /\ m1 >= 60 /\ m2 \in Nat /\ m2 >= 60,
             most \in Nat /\ most >= 1
      PROVE  Share(b, m1, m2, most) \in Nat /\ Share(b, m1, m2, most) >= 1
  BY <1>t, ShareIsPositive
<1>4. /\ Share(LIMP_RESPONSE[seat], depth.raise, 100, 10000) \in Nat
      /\ Share(LIMP_RESPONSE[seat], depth.raise, 100, 10000) >= 1
  BY <1>2, <1>3, <1>t
<1> QED
  BY <1>4 DEF LimpRaiseFraction

-----------------------------------------------------------------------------
(***************************************************************************)
(* What the two put in after the flop                                      *)
(***************************************************************************)

\* Both have the same in when a street is closed, nothing or more than a little.
LEMMA ClosedPutIn ==
    ASSUME NEW line, NEW total \in Nat, ClosedStreet(line, total)
    PROVE  PutIn(line) = Puts(total, total) /\ (total = 0 \/ total >= 75)
<1>1. ASSUME NEW o, NEW i, NEW k, NEW action, k # None
      PROVE  /\ Further(Puts(o, i), Did("oop", action, k)) = Puts(k, i)
             /\ Further(Puts(o, i), Did("ip", action, k)) = Puts(o, k)
             /\ Further(Puts(o, i), Did("oop", action, None)) = Puts(o, i)
             /\ Further(Puts(o, i), Did("ip", action, None)) = Puts(o, i)
  BY <1>1 DEF Further, Puts, Did
<1> HIDE DEF Did
<1>t. total # None /\ \A bet \in 75 .. total \div 2 : bet # None /\ bet \in Nat /\ total >= 75
  BY NoneAssumption
<1>2. CASE line = <<Did("oop", "check", None), Did("ip", "check", None)>> /\ total = 0
  BY <1>1, <1>2, <1>t, PutInTwo
<1>3. CASE line = <<Did("oop", "bet", total), Did("ip", "call", total)>> /\ total >= 75
  BY <1>1, <1>3, <1>t, PutInTwo
<1>4. CASE /\ line = <<Did("oop", "check", None), Did("ip", "bet", total), Did("oop", "call", total)>>
           /\ total >= 75
  <2> DEFINE a == Did("oop", "check", None)
             b == Did("ip", "bet", total)
             c == Did("oop", "call", total)
  <2>1. /\ Further(Puts(0, 0), a) = Puts(0, 0)
        /\ Further(Puts(0, 0), b) = Puts(0, total)
        /\ Further(Puts(0, total), c) = Puts(total, total)
    BY <1>1, <1>t
  <2>2. line = <<a, b, c>>
    BY <1>4
  <2> HIDE DEF a, b, c
  <2>3. PutIn(<<a, b, c>>) = Further(Further(Further(Puts(0, 0), a), b), c)
    BY PutInThree
  <2> QED
    BY <1>4, <2>1, <2>2, <2>3
<1>5. ASSUME NEW bet \in 75 .. total \div 2,
             line = <<Did("oop", "bet", bet), Did("ip", "raise", total), Did("oop", "call", total)>>
      PROVE  PutIn(line) = Puts(total, total) /\ total >= 75
  <2> DEFINE a == Did("oop", "bet", bet)
             b == Did("ip", "raise", total)
             c == Did("oop", "call", total)
  <2>1. /\ Further(Puts(0, 0), a) = Puts(bet, 0)
        /\ Further(Puts(bet, 0), b) = Puts(bet, total)
        /\ Further(Puts(bet, total), c) = Puts(total, total)
    BY <1>1, <1>t
  <2>2. line = <<a, b, c>>
    BY <1>5
  <2> HIDE DEF a, b, c
  <2>3. PutIn(<<a, b, c>>) = Further(Further(Further(Puts(0, 0), a), b), c)
    BY PutInThree
  <2> QED
    BY <1>t, <2>1, <2>2, <2>3
<1>6. ASSUME NEW bet \in 75 .. total \div 2,
             line = <<Did("oop", "check", None), Did("ip", "bet", bet),
                      Did("oop", "raise", total), Did("ip", "call", total)>>
      PROVE  PutIn(line) = Puts(total, total) /\ total >= 75
  <2> DEFINE a == Did("oop", "check", None)
             b == Did("ip", "bet", bet)
             c == Did("oop", "raise", total)
             d == Did("ip", "call", total)
  <2>1. /\ Further(Puts(0, 0), a) = Puts(0, 0)
        /\ Further(Puts(0, 0), b) = Puts(0, bet)
        /\ Further(Puts(0, bet), c) = Puts(total, bet)
        /\ Further(Puts(total, bet), d) = Puts(total, total)
    BY <1>1, <1>t
  <2>2. line = <<a, b, c, d>>
    BY <1>6
  <2> HIDE DEF a, b, c, d
  <2>3. PutIn(<<a, b, c, d>>) = Further(Further(Further(Further(Puts(0, 0), a), b), c), d)
    BY PutInFour
  <2> QED
    BY <1>t, <2>1, <2>2, <2>3
<1> QED
  BY <1>2, <1>3, <1>4, <1>5, <1>6 DEF ClosedStreet

\* Where something is owed a bet or a raise is faced.
LEMMA WagerIsFaced ==
    ASSUME TableInv, Decides, street # "preflop", ToCall > 0
    PROVE  FacingAction \in {"bet", "raise"}
<1>1. StreetLine /\ put[Hero] \in Nat /\ wager \in Nat
  BY DecisionFacts DEF TableInv, StreetInv, Decides, Acts
<1>2. /\ TypeInv /\ Hero \in live /\ \E a, b \in Dealt : a # b /\ live = {a, b}
  BY DecisionFacts DEF TableInv, StreetInv
<1>3. live = {OopSeat, IpSeat}
  BY <1>2, TwoLeft
<1>4. ~ NothingIn
  <2> SUFFICES ASSUME NothingIn PROVE FALSE
    OBVIOUS
  <2>1. put[Hero] = 0 /\ wager = 0
    BY <1>2, <1>3 DEF NothingIn
  <2> QED
    BY <2>1 DEF ToCall
<1> DEFINE wagers == {i \in DOMAIN actions : actions[i].action # "check"}
<1>5. \E n \in {1, 2, 3} :
        /\ DOMAIN actions = 1 .. n /\ actions[n].action # "check"
        /\ \A i \in 1 .. n : actions[i].action \in {"check", "bet", "raise"}
  <2>1. CASE actions = <<Did("oop", "bet", put[OopSeat])>>
    <3>1. DOMAIN actions = 1 .. 1 /\ actions[1].action = "bet"
      BY <2>1 DEF Did
    <3> QED
      BY <3>1
  <2>2. CASE actions = <<Did("oop", "check", None), Did("ip", "bet", put[IpSeat])>>
    <3>1. DOMAIN actions = 1 .. 2 /\ actions[1].action = "check" /\ actions[2].action = "bet"
      BY <2>2 DEF Did
    <3> QED
      BY <3>1
  <2>3. CASE actions = <<Did("oop", "bet", put[OopSeat]), Did("ip", "raise", put[IpSeat])>>
    <3>1. DOMAIN actions = 1 .. 2 /\ actions[1].action = "bet" /\ actions[2].action = "raise"
      BY <2>3 DEF Did
    <3> QED
      BY <3>1
  <2>4. CASE actions = <<Did("oop", "check", None), Did("ip", "bet", put[IpSeat]),
                         Did("oop", "raise", put[OopSeat])>>
    <3>1. /\ DOMAIN actions = 1 .. 3 /\ actions[1].action = "check"
          /\ actions[2].action = "bet" /\ actions[3].action = "raise"
      BY <2>4 DEF Did
    <3> QED
      BY <3>1
  <2> QED
    BY <1>1, <1>4, <2>1, <2>2, <2>3, <2>4 DEF StreetLine
<1>6. PICK n \in {1, 2, 3} :
        /\ DOMAIN actions = 1 .. n /\ actions[n].action # "check"
        /\ \A i \in 1 .. n : actions[i].action \in {"check", "bet", "raise"}
  BY <1>5
<1>7. wagers \in SUBSET (1 .. n) /\ n \in wagers /\ wagers \in SUBSET Int
  BY <1>6
<1>8. \A k \in wagers : k <= n
  BY <1>7
<1> HIDE DEF wagers
<1>9. Max(wagers) = n /\ wagers # {}
  BY <1>7, <1>8, MaxIs
<1>10. LastAggression(actions) = actions[n].action
  BY <1>9 DEF LastAggression, wagers
<1>11. n \in 1 .. n
  OBVIOUS
<1> QED
  BY <1>6, <1>10, <1>11 DEF FacingAction

\* What hero and the opponent have behind, have in on this street and had in on
\* the one before.
LEMMA StreetChips ==
    ASSUME TableInv, HandInv, Decides, street # "preflop"
    PROVE  /\ put[Hero] \in Nat /\ put[Opponent] \in Nat
           /\ stack[Hero] \in Nat /\ stack[Opponent] \in Nat
           /\ ToCall \in Nat /\ ToCall = put[Opponent] - put[Hero]
           /\ ToCall = 0 => put[Hero] = 0 /\ put[Opponent] = 0
           /\ Earlier \in Nat /\ (Earlier = 0 \/ Earlier >= 75)
           /\ PreflopWager \in Nat
           /\ start[Hero] = stack[Hero] + put[Hero] + Earlier + PreflopWager
           /\ start[Opponent] = stack[Opponent] + put[Opponent] + Earlier + PreflopWager
           /\ Effective = Smaller(stack[Hero], stack[Opponent])
<1>1. /\ Hero \in Dealt /\ Opponent \in Dealt /\ Hero # Opponent /\ live = {Hero, Opponent}
      /\ \/ Hero = OopSeat /\ Opponent = IpSeat
         \/ Hero = IpSeat /\ Opponent = OopSeat
      /\ TypeInv /\ wager \in Nat /\ put[Hero] \in Nat /\ stack[Hero] \in Nat
      /\ put[Hero] <= wager /\ ToCall \in Nat /\ ToCall = wager - put[Hero]
  BY TwoPlayers, DecisionFacts DEF ToCall
<1>2. put[Opponent] \in Nat /\ stack[Opponent] \in Nat
  BY <1>1 DEF TypeInv
<1>3. ToCall = 0 => NothingIn
  <2> SUFFICES ASSUME ToCall = 0 PROVE NothingIn
    OBVIOUS
  <2>1. StreetLine
    BY DEF TableInv, StreetInv, Decides, Acts
  <2>2. put[turn] = wager
    BY <1>1 DEF Hero
  <2> QED
    BY <1>1, <2>1, <2>2 DEF StreetLine, OneBet, OneRaise
<1>4. ToCall = 0 => put[Hero] = 0 /\ put[Opponent] = 0 /\ put[Opponent] = wager
  BY <1>1, <1>3 DEF NothingIn
<1>5. put[Opponent] = wager
  <2>1. CASE ToCall > 0
    BY <1>1, <2>1, StreetWager
  <2> QED
    BY <1>1, <1>4, <2>1
<1>6. Earlier \in Nat /\ (Earlier = 0 \/ Earlier >= 75)
  <2>1. CASE street = "turn"
    BY <2>1, ClosedPutIn DEF HandInv, StreetsInv, Earlier
  <2> QED
    BY <2>1 DEF Earlier
<1>7. /\ PreflopWager \in Nat
      /\ start[Hero] = stack[Hero] + put[Hero] + Earlier + PreflopWager
      /\ start[Opponent] = stack[Opponent] + put[Opponent] + Earlier + PreflopWager
  BY <1>1 DEF HandInv, FlopInv, StreetsInv
<1>8. Effective = Smaller(stack[Hero], stack[Opponent])
  <2>1. Effective \in {stack[Hero], stack[Opponent]} /\ Effective <= stack[Hero] /\ Effective <= stack[Opponent]
    BY <1>1, EffectiveFacts
  <2> DEFINE mine == stack[Hero]
             theirs == stack[Opponent]
  <2>2. mine \in Nat /\ theirs \in Nat /\ Effective \in {mine, theirs} /\ Effective <= mine /\ Effective <= theirs
    BY <1>1, <1>2, <2>1
  <2> HIDE DEF mine, theirs
  <2>3. Effective = Smaller(mine, theirs)
    BY <2>2 DEF Smaller
  <2> QED
    BY <2>3 DEF mine, theirs
<1> QED
  BY <1>1, <1>2, <1>4, <1>5, <1>6, <1>7, <1>8

\* What a view of the street says of it, whether it tells the record or not, is
\* what the two have in; and then nothing is owed, or more than a little.
LEMMA CurrentIsTold ==
    ASSUME TableInv, HandInv, Decides, street # "preflop", NEW p, NEW s, IsStreetView(s, p),
           CurrentContributions(s, Role(Hero)) # None
    PROVE  /\ CurrentContributions(s, Role(Hero)) = Puts(put[OopSeat], put[IpSeat])
           /\ ToCall = 0 \/ ToCall > Tolerance
<1> DEFINE rel == Role(Hero)
           told == s.postflop_action_history
           sum == PutIn(told)
           call == sum[Other(rel)] - sum[rel]
<1>1. /\ s.current_bet = ToCall /\ told \in {actions, <<>>}
      /\ s.facing_action = FacingAction
      /\ ToCall = 0 => FacingAction = None
      /\ ToCall > 0 => FacingAction \in {"bet", "raise"} /\ FacingAction # None
  <2>1. ToCall > 0 => FacingAction \in {"bet", "raise"}
    BY WagerIsFaced
  <2>2. /\ s.current_bet = ToCall /\ told \in {actions, <<>>}
        /\ s.facing_action = FacingAction
    BY DEF IsStreetView, AmountToCall
  <2>3. ToCall = 0 => FacingAction = None
    BY DEF FacingAction
  <2> QED
    BY <2>1, <2>2, <2>3, NoneAssumption
<1>2. /\ put[Hero] \in Nat /\ put[Opponent] \in Nat
      /\ ToCall \in Nat /\ ToCall = put[Opponent] - put[Hero]
      /\ ToCall = 0 => put[Hero] = 0 /\ put[Opponent] = 0
  BY StreetChips
<1>3. Known(s.current_bet, 0) = ToCall
  BY <1>1, <1>2, NoneAssumption DEF Known
<1>4. /\ \/ Hero = OopSeat /\ Opponent = IpSeat /\ rel = "oop"
         \/ Hero = IpSeat /\ Opponent = OopSeat /\ rel = "ip"
      /\ rel \in {"oop", "ip"} /\ Other("oop") = "ip" /\ Other("ip") = "oop"
  <2>1. Role(OopSeat) = "oop" /\ Role(IpSeat) = "ip"
    <3>1. TypeInv /\ \E a, b \in Dealt : a # b /\ live = {a, b}
      BY DEF TableInv, StreetInv
    <3> QED
      BY <3>1, TwoLeft
  <2> QED
    BY <2>1, TwoPlayers DEF Other
<1>5. CASE told = <<>>
  <2>1. sum = Puts(0, 0)
    <3>1. <<>> \in Seq({1})
      OBVIOUS
    <3> QED
      BY <1>5, <3>1, PutInNothing
  <2> HIDE DEF rel, sum, told
  <2>2. CASE ToCall <= Tolerance
    <3>1. s.facing_action = None
      BY <1>3, <1>5, <2>2 DEF CurrentContributions, rel, told
    <3>2. ToCall = 0
      BY <1>1, <1>2, <3>1
    <3>3. CurrentContributions(s, rel) = sum
      BY <1>3, <1>5, <2>2, <3>1 DEF CurrentContributions, sum, told
    <3>4. put[OopSeat] = 0 /\ put[IpSeat] = 0
      BY <1>2, <1>4, <3>2
    <3> QED
      BY <2>1, <3>2, <3>3, <3>4 DEF rel
  <2>3. CASE ~ (ToCall <= Tolerance)
    <3>1. s.facing_action = "bet"
      BY <1>3, <1>5, <2>3 DEF CurrentContributions, rel, told
    <3>2. put[Hero] = 0 /\ put[Opponent] = ToCall
      <4>1. put[Hero] = 0
        BY <1>1, <1>2, <2>3, <3>1, StreetWager DEF Tolerance
      <4> QED
        BY <1>2, <4>1
    <3>3. CurrentContributions(s, rel) = [sum EXCEPT ![Other(rel)] = ToCall]
      BY <1>3, <1>5, <2>3, <3>1 DEF CurrentContributions, sum, told
    <3>4. [Puts(0, 0) EXCEPT ![Other(rel)] = ToCall] = Puts(put[OopSeat], put[IpSeat])
      BY <1>4, <3>2 DEF Puts
    <3>5. ToCall > Tolerance
      BY <1>2, <2>3 DEF Tolerance
    <3> QED
      BY <2>1, <3>3, <3>4, <3>5 DEF rel
  <2> QED
    BY <2>2, <2>3
<1>6. CASE told # <<>>
  <2>1. told = actions /\ sum = Puts(put[OopSeat], put[IpSeat])
    BY <1>1, <1>6, StreetIsSound
  <2>2. call = ToCall
    <3>1. sum["oop"] = put[OopSeat] /\ sum["ip"] = put[IpSeat]
      <4> HIDE DEF sum
      <4> QED
        BY <2>1 DEF Puts
    <3> HIDE DEF sum, rel
    <3> QED
      BY <1>2, <1>4, <3>1
  <2>3. CurrentContributions(s, rel) = sum
    BY <1>6 DEF CurrentContributions
  <2>4. s.facing_action = IF call > Tolerance THEN LastAggression(told) ELSE None
    BY <1>6 DEF CurrentContributions
  <2> HIDE DEF sum, rel, call, told
  <2>5. ToCall = 0 \/ ToCall > Tolerance
    <3> SUFFICES ASSUME ToCall > 0, ~ (ToCall > Tolerance) PROVE FALSE
      BY <1>2
    <3> QED
      BY <1>1, <2>2, <2>4
  <2> QED
    BY <2>1, <2>3, <2>5 DEF rel
<1> QED
  BY <1>5, <1>6

\* With the streets before it, what the two have put in after the flop.
LEMMA ContributionsAreTold ==
    ASSUME TableInv, HandInv, Decides, street # "preflop", NEW p, NEW s, IsStreetView(s, p),
           PostflopContributions(s, Role(Hero)) # None
    PROVE  /\ PostflopContributions(s, Role(Hero)) =
                Puts(put[OopSeat] + Earlier, put[IpSeat] + Earlier)
           /\ ToCall = 0 \/ ToCall > Tolerance
<1> DEFINE rel == Role(Hero)
           done2 == s.completed_postflop_streets
           current == CurrentContributions(s, rel)
           before(i) == PutIn(IF i \in DOMAIN done2 THEN done2[i].actions ELSE <<>>)
<1>1. /\ s.street = street /\ done2 \in {done, <<>>} /\ street \in {"flop", "turn"}
  BY DEF IsStreetView, TableInv, TypeInv
<1>2. /\ [i \in DOMAIN done2 |-> done2[i].street] = StreetsBefore[street]
      /\ current # None
      /\ PostflopContributions(s, rel) =
            [seat \in {"oop", "ip"} |-> current[seat] + before(1)[seat] + before(2)[seat]]
  BY <1>1 DEF PostflopContributions
<1>3. current = Puts(put[OopSeat], put[IpSeat]) /\ (ToCall = 0 \/ ToCall > Tolerance)
  BY <1>2, CurrentIsTold
<1>4. before(1) = Puts(Earlier, Earlier) /\ before(2) = Puts(0, 0)
  <2>1. PutIn(<<>>) = Puts(0, 0)
    <3>1. <<>> \in Seq({1})
      OBVIOUS
    <3> QED
      BY <3>1, PutInNothing
  <2>2. CASE street = "flop"
    <3>1. done2 = <<>> /\ Earlier = 0
      BY <1>1, <2>2 DEF HandInv, StreetsInv, Earlier
    <3>2. 1 \notin DOMAIN done2 /\ 2 \notin DOMAIN done2
      BY <3>1
    <3> QED
      BY <2>1, <3>1, <3>2
  <2>3. CASE street = "turn"
    <3>1. StreetsBefore["turn"] = <<"flop">>
      BY DEF StreetsBefore
    <3>2. done2 # <<>>
      <4> SUFFICES ASSUME done2 = <<>> PROVE FALSE
        OBVIOUS
      <4>1. DOMAIN [i \in DOMAIN done2 |-> done2[i].street] = {}
        OBVIOUS
      <4>2. DOMAIN <<"flop">> = {1}
        OBVIOUS
      <4> QED
        BY <1>2, <2>3, <3>1, <4>1, <4>2
    <3>3. done2 = done
      BY <1>1, <3>2
    <3>4. /\ done = <<[street |-> "flop", actions |-> done[1].actions]>>
          /\ ClosedStreet(done[1].actions, FlopTotal) /\ FlopTotal \in Nat
          /\ Earlier = FlopTotal
      BY <2>3 DEF HandInv, StreetsInv, Earlier
    <3>5. DOMAIN done = {1}
      <4>1. \A x : DOMAIN <<x>> = {1}
        OBVIOUS
      <4> QED
        BY <3>4, <4>1
    <3>6. PutIn(done[1].actions) = Puts(FlopTotal, FlopTotal)
      BY <3>4, ClosedPutIn
    <3> QED
      BY <2>1, <3>3, <3>4, <3>5, <3>6
  <2> QED
    BY <1>1, <2>2, <2>3
<1> HIDE DEF current, before, rel
<1>5. /\ put[OopSeat] \in Nat /\ put[IpSeat] \in Nat /\ Earlier \in Nat
  BY StreetChips, TwoPlayers
<1>6. [seat \in {"oop", "ip"} |-> current[seat] + before(1)[seat] + before(2)[seat]]
        = Puts(put[OopSeat] + Earlier, put[IpSeat] + Earlier)
  BY <1>3, <1>4, <1>5 DEF Puts
<1> QED
  BY <1>2, <1>3, <1>6 DEF rel

\* The stack that is worked out is the one the two began the hand with, if what
\* is taken for the wager before the flop is that wager.
LEMMA StartingStackIsTold ==
    ASSUME TableInv, HandInv, Decides, street # "preflop", NEW p, NEW s, IsStreetView(s, p)
    PROVE  LET told == StartingStack(s, Role(Hero), PostflopContributions(s, Role(Hero)), PreflopWager)
           IN told # None => told = Smaller(start[Hero], start[Opponent])
<1> DEFINE rel == Role(Hero)
           sum == PostflopContributions(s, rel)
           told == StartingStack(s, rel, sum, PreflopWager)
<1> SUFFICES ASSUME told # None PROVE told = Smaller(start[Hero], start[Opponent])
  OBVIOUS
<1>1. sum # None
  BY DEF StartingStack
<1>2. sum = Puts(put[OopSeat] + Earlier, put[IpSeat] + Earlier) /\ (ToCall = 0 \/ ToCall > Tolerance)
  BY <1>1, ContributionsAreTold
<1>3. /\ put[Hero] \in Nat /\ put[Opponent] \in Nat
      /\ stack[Hero] \in Nat /\ stack[Opponent] \in Nat
      /\ ToCall \in Nat /\ ToCall = put[Opponent] - put[Hero]
      /\ ToCall = 0 => put[Hero] = 0 /\ put[Opponent] = 0
      /\ Earlier \in Nat /\ (Earlier = 0 \/ Earlier >= 75)
      /\ PreflopWager \in Nat
      /\ start[Hero] = stack[Hero] + put[Hero] + Earlier + PreflopWager
      /\ start[Opponent] = stack[Opponent] + put[Opponent] + Earlier + PreflopWager
      /\ Effective = Smaller(stack[Hero], stack[Opponent])
  BY StreetChips
<1>4. /\ s.effective_stack = Effective
      /\ s.hero_stack \in {stack[Hero], None} /\ s.opponent_stack \in {stack[Opponent], None}
  BY DEF IsStreetView
<1>5. /\ \/ Hero = OopSeat /\ Opponent = IpSeat /\ rel = "oop"
         \/ Hero = IpSeat /\ Opponent = OopSeat /\ rel = "ip"
      /\ Other("oop") = "ip" /\ Other("ip") = "oop"
  <2>1. Role(OopSeat) = "oop" /\ Role(IpSeat) = "ip"
    <3>1. TypeInv /\ \E a, b \in Dealt : a # b /\ live = {a, b}
      BY DEF TableInv, StreetInv
    <3> QED
      BY <3>1, TwoLeft
  <2> QED
    BY <2>1, TwoPlayers DEF Other
<1> HIDE DEF rel, sum
<1>6. /\ sum.oop = put[OopSeat] + Earlier /\ sum.ip = put[IpSeat] + Earlier
      /\ sum[rel] = put[Hero] + Earlier /\ sum[Other(rel)] = put[Opponent] + Earlier
  <2>1. /\ sum["oop"] = put[OopSeat] + Earlier /\ sum["ip"] = put[IpSeat] + Earlier
        /\ sum.oop = put[OopSeat] + Earlier /\ sum.ip = put[IpSeat] + Earlier
    BY <1>2, FurtherIs
  <2> QED
    BY <1>5, <2>1
<1>7. CASE sum.oop <= Tolerance /\ sum.ip <= Tolerance
  <2>1. told = s.effective_stack + PreflopWager
    BY <1>7 DEF StartingStack
  <2>2. put[Opponent] + Earlier <= 5 /\ put[Hero] + Earlier <= 5
    BY <1>5, <1>6, <1>7 DEF Tolerance
  <2>3. put[Hero] = 0 /\ put[Opponent] = 0 /\ Earlier = 0
    BY <1>2, <1>3, <2>2 DEF Tolerance
  <2> QED
    BY <1>3, <1>4, <2>1, <2>3 DEF Smaller
<1>8. CASE ~ (sum.oop <= Tolerance /\ sum.ip <= Tolerance)
  <2>1. /\ s.hero_stack # None /\ s.opponent_stack # None
        /\ told = Smaller(s.hero_stack + sum[rel], s.opponent_stack + sum[Other(rel)]) + PreflopWager
    BY <1>8 DEF StartingStack
  <2>2. s.hero_stack = stack[Hero] /\ s.opponent_stack = stack[Opponent]
    BY <1>4, <2>1
  <2>3. told = Smaller(stack[Hero] + (put[Hero] + Earlier), stack[Opponent] + (put[Opponent] + Earlier))
                 + PreflopWager
    BY <1>6, <2>1, <2>2
  <2> QED
    BY <1>3, <2>3 DEF Smaller
<1> QED
  BY <1>7, <1>8

-----------------------------------------------------------------------------
(***************************************************************************)
(* The seats of the two who came in                                        *)
(***************************************************************************)

\* Two seats that are the names of the two are the seats of the two.
LEMMA NamedSeatsAreTrue ==
    ASSUME TableInv, Decides, street # "preflop", NEW p \in Positions, NEW s, IsStreetView(s, p),
           NEW a \in Dealt, NEW b \in Dealt, AreTheSeats(s, a, b)
    PROVE  /\ SeatsOf(s)[1] = Hero /\ SeatsOf(s)[2] = Opponent
           /\ a # b /\ live = {a, b}
<1>1. /\ Hero \in Dealt /\ Opponent \in Dealt /\ Hero # Opponent /\ live = {Hero, Opponent}
      /\ Dealt \subseteq 1 .. 6
  BY TwoPlayers, DecisionFacts
<1>2. a # b /\ {p[1], p[2]} = {a, b} /\ SeatsOf(s) = <<p[1], p[2]>>
  BY DEF AreTheSeats, SeatsOf, IsStreetView
<1>3. p[1] \in Dealt /\ p[2] \in Dealt
  BY <1>2
<1>4. HeadsUp => Button \notin Dealt
  BY DEF HeadsUp, Blinds, SmallBlind, BigBlind, Button
<1>5. /\ p[1] \in {Hero, Button} /\ p[2] \in {Opponent, Button}
      /\ p[1] = Button => Hero = Button \/ (HeadsUp /\ Hero = SmallBlind)
      /\ p[2] = Button => Opponent = Button \/ (HeadsUp /\ Opponent = SmallBlind)
  <2>1. InPosition \notin Dealt /\ OutOfPosition \notin Dealt
    BY <1>1 DEF InPosition, OutOfPosition
  <2> QED
    BY <1>3, <2>1, NamesTell
<1>6. p[1] = Hero /\ p[2] = Opponent
  BY <1>3, <1>4, <1>5
<1> QED
  BY <1>1, <1>2, <1>6

\* The seats of a limped pot.
LEMMA LimpedSeatsAreTrue ==
    ASSUME TableInv, Decides, street # "preflop", NEW p \in Positions, NEW s, IsStreetView(s, p),
           NEW limper, limper # BigBlind, live = {limper, BigBlind},
           LimpedSeats(s, Role(Hero), limper) # None
    PROVE  LimpedSeats(s, Role(Hero), limper) = <<Hero, Opponent>>
<1> DEFINE rel == Role(Hero)
           seat(q) == IF limper = SmallBlind /\ q = Button THEN SmallBlind ELSE q
           other(q) == IF q = BigBlind THEN limper ELSE BigBlind
           hero == seat(p[1])
           opponent == seat(p[2])
<1>1. /\ Hero \in 1 .. 6 /\ Opponent \in 1 .. 6 /\ Hero # Opponent
      /\ live = {Hero, Opponent}
  BY TwoPlayers
<1>2. /\ p[1] \in {Hero, Button, InPosition, OutOfPosition}
      /\ p[2] \in {Opponent, Button, InPosition, OutOfPosition}
      /\ p[1] = Button => Hero = Button \/ (HeadsUp /\ Hero = SmallBlind)
      /\ p[2] = Button => Opponent = Button \/ (HeadsUp /\ Opponent = SmallBlind)
  BY NamesTell
<1>3. /\ limper \in 1 .. 6
      /\ \/ Hero = limper /\ Opponent = BigBlind
         \/ Hero = BigBlind /\ Opponent = limper
  BY <1>1
<1>4. hero \in {limper, BigBlind} => hero = Hero
  BY <1>2, <1>3 DEF InPosition, OutOfPosition, Button, SmallBlind, BigBlind
<1>5. opponent \in {limper, BigBlind} => opponent = Opponent
  BY <1>2, <1>3 DEF InPosition, OutOfPosition, Button, SmallBlind, BigBlind
<1>6. other(Hero) = Opponent /\ other(Opponent) = Hero
  BY <1>3
<1>7. \/ /\ hero \in {limper, BigBlind} /\ opponent \in {limper, BigBlind}
         /\ LimpedSeats(s, rel, limper) = <<hero, opponent>>
      \/ hero \in {limper, BigBlind} /\ LimpedSeats(s, rel, limper) = <<hero, other(hero)>>
      \/ opponent \in {limper, BigBlind} /\ LimpedSeats(s, rel, limper) = <<other(opponent), opponent>>
  <2>1. s.hero_position = p[1] /\ s.opponent_position = p[2]
    BY DEF IsStreetView
  <2> HIDE DEF rel
  <2>2. LimpedSeats(s, rel, limper) # None
    BY DEF rel
  <2> QED
    BY <2>1, <2>2 DEF LimpedSeats
<1> HIDE DEF hero, opponent, other
<1> QED
  BY <1>4, <1>5, <1>6, <1>7 DEF rel

\* The seats of a pot in which the big blind raised a limper.
LEMMA IsolationSeatsAreTrue ==
    ASSUME TableInv, Decides, street # "preflop", NEW p \in Positions, NEW s, IsStreetView(s, p),
           NEW limper, limper # BigBlind, live = {limper, BigBlind},
           IsolationSeats(s, Role(Hero), limper) # None
    PROVE  IsolationSeats(s, Role(Hero), limper) = <<Hero, Opponent>>
<1> DEFINE rel == Role(Hero)
           bigBlindRel == IF limper = SmallBlind THEN "ip" ELSE "oop"
<1>1. /\ Hero \in 1 .. 6 /\ Opponent \in 1 .. 6 /\ Hero # Opponent
      /\ live = {Hero, Opponent} /\ rel \in {"oop", "ip"}
  BY TwoPlayers
<1>2. CASE LimpedSeats(s, rel, limper) # None
  <2>1. LimpedSeats(s, rel, limper) = <<Hero, Opponent>>
    BY <1>2, LimpedSeatsAreTrue
  <2>2. IsolationSeats(s, rel, limper) = LimpedSeats(s, rel, limper)
    <3>1. IsolationSeats(s, rel, limper) # None
      OBVIOUS
    <3> HIDE DEF rel
    <3> QED
      BY <1>2, <3>1 DEF IsolationSeats
  <2> QED
    BY <2>1, <2>2
<1>3. CASE LimpedSeats(s, rel, limper) = None
  <2>1. /\ Label(p[1]) = rel /\ Label(p[2]) = Other(rel)
        /\ IsolationSeats(s, rel, limper) =
              IF rel = bigBlindRel THEN <<BigBlind, limper>> ELSE <<limper, BigBlind>>
    <3>1. s.hero_position = p[1] /\ s.opponent_position = p[2]
      BY DEF IsStreetView
    <3>2. IsolationSeats(s, rel, limper) # None
      OBVIOUS
    <3> HIDE DEF rel
    <3> QED
      BY <1>3, <3>1, <3>2 DEF IsolationSeats
  <2>2. rel # None /\ Other(rel) # None
    BY <1>1, NoneAssumption DEF Other
  <2>3. p[1] \in {InPosition, OutOfPosition} /\ p[2] \in {InPosition, OutOfPosition}
    <3> HIDE DEF rel
    <3> QED
      BY <2>1, <2>2 DEF Label
  <2>4. ~ HeadsUp
    <3>1. p[1] \notin Seats /\ p[2] \notin Seats
      BY <2>3 DEF InPosition, OutOfPosition, Seats
    <3> QED
      BY <3>1, NamesTell
  <2>5. limper \in 1 .. 6 /\ BigBlind \in 1 .. 6 /\ Blinds \subseteq Dealt
    <3>1. Blinds \subseteq Dealt
      BY DealtFacts DEF TableInv, TypeInv, Blinds
    <3> QED
      BY <1>1, <3>1 DEF BigBlind
  <2>6. /\ Place(limper) < Place(BigBlind) <=> PostflopOrder[limper] < PostflopOrder[BigBlind]
        /\ Place(limper) # Place(BigBlind) /\ Place(limper) \in Int /\ Place(BigBlind) \in Int
    BY <2>4, <2>5, OrderIsPlace
  <2>7. PostflopOrder[limper] < PostflopOrder[BigBlind] <=> limper = SmallBlind
    <3>1. limper \in {1, 2, 3, 4, 5, 6}
      BY <2>5
    <3> QED
      BY <3>1 DEF PostflopOrder, BigBlind, SmallBlind
  <2>8. /\ Hero = BigBlind /\ Opponent = limper => rel = bigBlindRel
        /\ Hero = limper /\ Opponent = BigBlind => rel # bigBlindRel
    <3> HIDE DEF PostflopOrder
    <3> QED
      BY <2>6, <2>7, RoleByPlace
  <2>9. \/ Hero = limper /\ Opponent = BigBlind
        \/ Hero = BigBlind /\ Opponent = limper
    BY <1>1
  <2> HIDE DEF rel, bigBlindRel
  <2> QED
    BY <2>1, <2>8, <2>9 DEF rel
<1> QED
  BY <1>2, <1>3

\* The seats of a pot in which a limper raised again.
LEMMA ReviewedSeatsAreTrue ==
    ASSUME TableInv, Decides, street # "preflop", NEW p \in Positions, NEW s, IsStreetView(s, p),
           NEW a, NEW b, a # b, live = {a, b}, ReviewedSeats(s, a, b) # None
    PROVE  ReviewedSeats(s, a, b)[1] = Hero /\ ReviewedSeats(s, a, b)[2] = Opponent
<1> DEFINE dealer == {a, b} = Blinds /\ Button \in {p[1], p[2]}
           oop == IF dealer THEN BigBlind ELSE IF PostflopOrder[a] < PostflopOrder[b] THEN a ELSE b
           ip == IF dealer THEN SmallBlind ELSE IF PostflopOrder[a] < PostflopOrder[b] THEN b ELSE a
           seat(q) == CASE q = OutOfPosition -> oop [] q = InPosition -> ip
                        [] dealer /\ q = Button -> SmallBlind [] OTHER -> q
           hero == seat(p[1])
           opponent == seat(p[2])
<1>1. /\ hero \in {a, b} /\ opponent \in {a, b} \ {hero}
      /\ ReviewedSeats(s, a, b)[1] = hero /\ ReviewedSeats(s, a, b)[2] = opponent
  <2>1. s.hero_position = p[1] /\ s.opponent_position = p[2]
    BY DEF IsStreetView
  <2> QED
    BY <2>1 DEF ReviewedSeats
<1>2. /\ Hero \in 1 .. 6 /\ Opponent \in 1 .. 6 /\ Hero # Opponent
      /\ live = {Hero, Opponent} /\ a \in 1 .. 6 /\ b \in 1 .. 6 /\ Blinds \subseteq Dealt
  <2>1. Blinds \subseteq Dealt
    BY DealtFacts DEF TableInv, TypeInv, Blinds
  <2> QED
    BY <2>1, TwoPlayers
<1>3. /\ p[1] = InPosition => Role(Hero) = "ip"
      /\ p[1] = OutOfPosition => Role(Hero) = "oop"
      /\ p[2] = InPosition => Role(Hero) = "oop"
      /\ p[2] = OutOfPosition => Role(Hero) = "ip"
      /\ p[1] \in {Hero, Button, InPosition, OutOfPosition}
      /\ p[2] \in {Opponent, Button, InPosition, OutOfPosition}
      /\ p[1] = Button => Hero = Button \/ (HeadsUp /\ Hero = SmallBlind)
      /\ p[2] = Button => Opponent = Button \/ (HeadsUp /\ Opponent = SmallBlind)
      /\ HeadsUp => /\ {Hero, Opponent} = Blinds
                    /\ p[1] \in Seats \/ p[2] \in Seats
                    /\ p[1] # SmallBlind /\ p[2] # SmallBlind
  BY NamesTell
<1>4. \/ a = Hero /\ b = Opponent
      \/ a = Opponent /\ b = Hero
  BY <1>2
<1>5. Role(Hero) \in {"oop", "ip"}
  BY TwoPlayers
<1>6. (oop = Hero /\ ip = Opponent /\ Role(Hero) = "oop") \/ (oop = Opponent /\ ip = Hero /\ Role(Hero) = "ip")
         => hero = Hero /\ opponent = Opponent
  <2> HIDE DEF oop, ip
  <2>1. ASSUME \/ oop = Hero /\ ip = Opponent /\ Role(Hero) = "oop"
               \/ oop = Opponent /\ ip = Hero /\ Role(Hero) = "ip"
        PROVE  hero = Hero
    <3>1. CASE p[1] = InPosition
      <4>1. hero = ip
        BY <3>1 DEF InPosition, OutOfPosition, Button
      <4> HIDE DEF hero, opponent
      <4> QED
        BY <1>3, <2>1, <3>1, <4>1
    <3>2. CASE p[1] = OutOfPosition
      <4>1. hero = oop
        BY <3>2 DEF InPosition, OutOfPosition, Button
      <4> HIDE DEF hero, opponent
      <4> QED
        BY <1>3, <2>1, <3>2, <4>1
    <3>3. CASE p[1] \notin {InPosition, OutOfPosition}
      <4>1. hero = IF dealer /\ p[1] = Button THEN SmallBlind ELSE p[1]
        BY <3>3
      <4>2. dealer /\ p[1] = Button => Hero = SmallBlind
        BY <1>2, <1>3 DEF Blinds, Button, SmallBlind, BigBlind
      <4>3. ~ (dealer /\ p[1] = Button) => p[1] = Hero
        <5> SUFFICES ASSUME p[1] = Button, ~ dealer PROVE p[1] = Hero
          BY <1>3, <3>3
        <5>1. HeadsUp => dealer
          BY <1>2, <1>3
        <5> QED
          BY <1>3, <5>1
      <4> HIDE DEF hero, dealer
      <4> QED
        BY <4>1, <4>2, <4>3
    <3> QED
      BY <3>1, <3>2, <3>3
  <2>2. ASSUME \/ oop = Hero /\ ip = Opponent /\ Role(Hero) = "oop"
               \/ oop = Opponent /\ ip = Hero /\ Role(Hero) = "ip"
        PROVE  opponent = Opponent
    <3>1. CASE p[2] = InPosition
      <4>1. opponent = ip
        BY <3>1 DEF InPosition, OutOfPosition, Button
      <4> HIDE DEF hero, opponent
      <4> QED
        BY <1>3, <2>2, <3>1, <4>1
    <3>2. CASE p[2] = OutOfPosition
      <4>1. opponent = oop
        BY <3>2 DEF InPosition, OutOfPosition, Button
      <4> HIDE DEF hero, opponent
      <4> QED
        BY <1>3, <2>2, <3>2, <4>1
    <3>3. CASE p[2] \notin {InPosition, OutOfPosition}
      <4>1. opponent = IF dealer /\ p[2] = Button THEN SmallBlind ELSE p[2]
        BY <3>3
      <4>2. dealer /\ p[2] = Button => Opponent = SmallBlind
        BY <1>2, <1>3 DEF Blinds, Button, SmallBlind, BigBlind
      <4>3. ~ (dealer /\ p[2] = Button) => p[2] = Opponent
        <5> SUFFICES ASSUME p[2] = Button, ~ dealer PROVE p[2] = Opponent
          BY <1>3, <3>3
        <5>1. HeadsUp => dealer
          BY <1>2, <1>3
        <5> QED
          BY <1>3, <5>1
      <4> HIDE DEF opponent, dealer
      <4> QED
        BY <4>1, <4>2, <4>3
    <3> QED
      BY <3>1, <3>2, <3>3
  <2> QED
    BY <2>1, <2>2
<1>7. CASE ~ HeadsUp
  <2>1. ~ dealer
    <3> SUFFICES ASSUME dealer PROVE FALSE
      OBVIOUS
    <3>1. Hero = Button \/ Opponent = Button
      BY <1>3, <1>7
    <3> QED
      BY <1>2, <3>1 DEF Blinds, Button, SmallBlind, BigBlind
  <2>2. /\ PostflopOrder[a] \in Int /\ PostflopOrder[b] \in Int
        /\ Place(a) \in Int /\ Place(b) \in Int /\ Place(a) # Place(b)
        /\ Place(a) < Place(b) <=> PostflopOrder[a] < PostflopOrder[b]
    BY <1>2, <1>7, OrderIsPlace
  <2>3. /\ Place(Hero) < Place(Opponent) => Role(Hero) = "oop"
        /\ Place(Opponent) < Place(Hero) => Role(Hero) = "ip"
    BY RoleByPlace
  <2> HIDE DEF PostflopOrder, dealer
  <2>4. CASE PostflopOrder[a] < PostflopOrder[b]
    <3>1. oop = a /\ ip = b /\ Place(a) < Place(b)
      BY <2>1, <2>2, <2>4
    <3> HIDE DEF oop, ip, hero, opponent
    <3> QED
      BY <1>1, <1>4, <1>6, <2>3, <3>1
  <2>5. CASE ~ (PostflopOrder[a] < PostflopOrder[b])
    <3>1. oop = b /\ ip = a /\ Place(b) < Place(a)
      BY <2>1, <2>2, <2>5
    <3> HIDE DEF oop, ip, hero, opponent
    <3> QED
      BY <1>1, <1>4, <1>6, <2>3, <3>1
  <2> QED
    BY <2>4, <2>5
<1>8. CASE HeadsUp
  <2>1. {a, b} = Blinds /\ {Hero, Opponent} = Blinds
    BY <1>2, <1>3, <1>8
  <2>2. dealer
    <3> SUFFICES ASSUME ~ dealer PROVE FALSE
      OBVIOUS
    <3>1. Button \notin {p[1], p[2]}
      BY <2>1
    <3>2. \/ p[1] = BigBlind /\ Hero = BigBlind /\ p[2] \in {InPosition, OutOfPosition}
          \/ p[2] = BigBlind /\ Opponent = BigBlind /\ p[1] \in {InPosition, OutOfPosition}
      BY <1>3, <1>8, <2>1, <3>1
         DEF Blinds, Seats, Button, SmallBlind, BigBlind, InPosition, OutOfPosition
    <3>3. Place(BigBlind) < Place(SmallBlind)
      BY <1>2, <1>8, OrderIsPlace
    <3>4. \/ p[1] = BigBlind /\ p[2] = InPosition
          \/ p[2] = BigBlind /\ p[1] = InPosition
      <4>1. Hero = BigBlind /\ Opponent = SmallBlind => Role(Hero) = "oop"
        BY <3>3, RoleByPlace
      <4>2. Hero = SmallBlind /\ Opponent = BigBlind => Role(Hero) = "ip"
        BY <3>3, RoleByPlace
      <4>3. \/ Hero = BigBlind /\ Opponent = SmallBlind
            \/ Hero = SmallBlind /\ Opponent = BigBlind
        BY <1>2, <2>1 DEF Blinds
      <4> QED
        BY <1>3, <3>2, <4>1, <4>2, <4>3 DEF BigBlind, SmallBlind
    <3>5. PostflopOrder[5] = 1 /\ PostflopOrder[6] = 2
      BY DEF PostflopOrder
    <3>6. ip = BigBlind
      <4>1. \/ a = 5 /\ b = 6
            \/ a = 6 /\ b = 5
        BY <1>2, <1>4, <2>1 DEF Blinds, SmallBlind, BigBlind
      <4> HIDE DEF PostflopOrder, dealer
      <4> QED
        BY <3>5, <4>1 DEF BigBlind
    <3> HIDE DEF ip, oop, dealer
    <3>7. hero = BigBlind /\ opponent = BigBlind
      BY <3>1, <3>4, <3>6 DEF BigBlind, InPosition, OutOfPosition, Button
    <3> QED
      BY <1>1, <3>7
  <2>3. Place(BigBlind) < Place(SmallBlind)
    BY <1>2, <1>8, OrderIsPlace
  <2>4. \/ Hero = BigBlind /\ Opponent = SmallBlind /\ Role(Hero) = "oop"
        \/ Hero = SmallBlind /\ Opponent = BigBlind /\ Role(Hero) = "ip"
    <3>1. \/ Hero = BigBlind /\ Opponent = SmallBlind
          \/ Hero = SmallBlind /\ Opponent = BigBlind
      BY <1>2, <2>1 DEF Blinds
    <3> QED
      BY <2>3, <3>1, RoleByPlace
  <2>5. oop = BigBlind /\ ip = SmallBlind
    BY <2>2
  <2> HIDE DEF oop, ip, hero, opponent, dealer
  <2> QED
    BY <1>1, <1>6, <2>4, <2>5
<1> QED
  BY <1>7, <1>8

-----------------------------------------------------------------------------
(***************************************************************************)
(* The line that was played                                                *)
(***************************************************************************)

\* What a view tells of the record before the flop.
LEMMA RecordIsTold ==
    ASSUME TableInv, Decides, street # "preflop", NEW p, NEW s, IsStreetView(s, p)
    PROVE  /\ s.preflop_action_history = log
           /\ DOMAIN log = 1 .. Len(log) /\ Len(log) \in Nat
           /\ \A i : /\ Actor(s, i) = log[i].actor
                     /\ Amount(s, i) = log[i].amount
                     /\ Calls(s, i) <=> log[i].action = "call"
                     /\ Raises(s, i) <=> log[i].action = "raise"
           /\ \A i \in DOMAIN log : log[i].actor \in Dealt /\ log[i].actor \in 1 .. 6
<1>1. s.preflop_action_history = log
  BY DEF IsStreetView
<1>2. log \in Seq([actor : Dealt, action : {"call", "raise"}, amount : Nat]) /\ Dealt \subseteq 1 .. 6
  BY DecisionFacts DEF TypeInv
<1> DEFINE Entries == [actor : Dealt, action : {"call", "raise"}, amount : Nat]
<1>3. log \in Seq(Entries) /\ \A e \in Entries : e.actor \in Dealt /\ e.actor \in 1 .. 6
  BY <1>2
<1> HIDE DEF Entries
<1>4. DOMAIN log = 1 .. Len(log) /\ Len(log) \in Nat /\ \A i \in DOMAIN log : log[i] \in Entries
  BY <1>3
<1>5. \A i \in DOMAIN log : log[i].actor \in Dealt /\ log[i].actor \in 1 .. 6
  BY <1>3, <1>4
<1> QED
  BY <1>1, <1>4, <1>5 DEF Actor, Amount, Calls, Raises

\* The last raise is the one after which there are only calls.
LEMMA LastRaiseIs ==
    ASSUME NEW n \in 1 .. 4, DOMAIN log = 1 .. n, NEW k \in 1 .. n, log[k].action = "raise",
           \A i \in 1 .. n : i > k => log[i].action = "call"
    PROVE  Raised # {} /\ StrongSeat = log[k].actor /\ PreflopWager = log[k].amount
<1>1. Raised \in SUBSET (1 .. n) /\ k \in Raised /\ \A i \in Raised : i <= k
  BY DEF Raised
<1>2. Raised \in SUBSET Int /\ Raised # {}
  BY <1>1
<1>3. Max(Raised) = k
  BY <1>1, <1>2, MaxIs
<1>4. RaisesMade # 0
  <2>1. IsFiniteSet(1 .. n)
    BY FS_Interval
  <2>2. IsFiniteSet(Raised)
    BY <1>1, <2>1, FS_Subset
  <2> QED
    BY <1>2, <2>2, FS_EmptySet DEF RaisesMade
<1> QED
  BY <1>2, <1>3, <1>4 DEF StrongSeat, LastRaise, PreflopWager

\* The name of a line of two to four actions.
LEMMA SourceIsKinds ==
    ASSUME NEW n \in 1 .. 4, DOMAIN log = 1 .. n
    PROVE  /\ n = 1 /\ log[1].action = "call" => TrueSource = "limped"
           /\ n = 2 /\ log[1].action = "raise" /\ log[2].action = "call" => TrueSource = "single_raised"
           /\ n = 3 /\ log[1].action = "call" /\ log[2].action = "raise" /\ log[3].action = "call"
                => TrueSource = "isolation_raised"
           /\ (/\ n = 4 /\ log[1].action = "call" /\ log[2].action = "raise"
               /\ log[3].action = "raise" /\ log[4].action = "call")
                => TrueSource = "limp_reraised"
           /\ n = 3 /\ log[1].action = "raise" /\ log[2].action = "raise" /\ log[3].action = "call"
                => TrueSource = IF log[3].actor = log[1].actor THEN "three_bet" ELSE "cold_three_bet"
           /\ (/\ n = 4 /\ log[1].action = "raise" /\ log[2].action = "call"
               /\ log[3].action = "raise" /\ log[4].action = "call")
                => TrueSource = "squeeze"
           /\ (/\ n = 4 /\ log[1].action = "raise" /\ log[2].action = "raise"
               /\ log[3].action = "raise" /\ log[4].action = "call")
                => TrueSource = IF log[3].actor = log[1].actor THEN "four_bet" ELSE "cold_four_bet"
<1> DEFINE kinds == [i \in DOMAIN log |-> log[i].action]
           by(i) == log[i].actor
<1>1. TrueSource =
        CASE kinds = <<"call">> -> "limped"
          [] kinds = <<"raise", "call">> -> "single_raised"
          [] kinds = <<"call", "raise", "call">> -> "isolation_raised"
          [] kinds = <<"call", "raise", "raise", "call">> -> "limp_reraised"
          [] kinds = <<"raise", "raise", "call">> ->
               IF by(3) = by(1) THEN "three_bet" ELSE "cold_three_bet"
          [] kinds = <<"raise", "call", "raise", "call">> -> "squeeze"
          [] kinds = <<"raise", "raise", "raise", "call">> ->
               IF by(3) = by(1) THEN "four_bet" ELSE "cold_four_bet"
          [] OTHER -> "none"
  BY DEF TrueSource
<1>2. DOMAIN kinds = 1 .. n /\ \A i \in 1 .. n : kinds[i] = log[i].action
  OBVIOUS
<1> DEFINE c1 == <<"call">>
           c2 == <<"raise", "call">>
           c3 == <<"call", "raise", "call">>
           c4 == <<"call", "raise", "raise", "call">>
           c5 == <<"raise", "raise", "call">>
           c6 == <<"raise", "call", "raise", "call">>
           c7 == <<"raise", "raise", "raise", "call">>
<1>4. /\ c1 # c2 /\ c1 # c3 /\ c1 # c4 /\ c1 # c5 /\ c1 # c6 /\ c1 # c7
      /\ c2 # c3 /\ c2 # c4 /\ c2 # c5 /\ c2 # c6 /\ c2 # c7
      /\ c3 # c4 /\ c3 # c5 /\ c3 # c6 /\ c3 # c7
      /\ c4 # c5 /\ c4 # c6 /\ c4 # c7
      /\ c5 # c6 /\ c5 # c7 /\ c6 # c7
  OBVIOUS
<1>5. TrueSource =
        CASE kinds = c1 -> "limped"
          [] kinds = c2 -> "single_raised"
          [] kinds = c3 -> "isolation_raised"
          [] kinds = c4 -> "limp_reraised"
          [] kinds = c5 -> IF by(3) = by(1) THEN "three_bet" ELSE "cold_three_bet"
          [] kinds = c6 -> "squeeze"
          [] kinds = c7 -> IF by(3) = by(1) THEN "four_bet" ELSE "cold_four_bet"
          [] OTHER -> "none"
  BY <1>1
<1>6. /\ n = 1 /\ kinds[1] = "call" => kinds = c1
      /\ n = 2 /\ kinds[1] = "raise" /\ kinds[2] = "call" => kinds = c2
      /\ n = 3 /\ kinds[1] = "call" /\ kinds[2] = "raise" /\ kinds[3] = "call" => kinds = c3
      /\ (n = 4 /\ kinds[1] = "call" /\ kinds[2] = "raise" /\ kinds[3] = "raise" /\ kinds[4] = "call")
            => kinds = c4
      /\ n = 3 /\ kinds[1] = "raise" /\ kinds[2] = "raise" /\ kinds[3] = "call" => kinds = c5
      /\ (n = 4 /\ kinds[1] = "raise" /\ kinds[2] = "call" /\ kinds[3] = "raise" /\ kinds[4] = "call")
            => kinds = c6
      /\ (n = 4 /\ kinds[1] = "raise" /\ kinds[2] = "raise" /\ kinds[3] = "raise" /\ kinds[4] = "call")
            => kinds = c7
  <2>0. kinds = [i \in 1 .. n |-> kinds[i]]
    OBVIOUS
  <2> HIDE DEF kinds
  <2>1. n = 1 /\ kinds[1] = "call" => kinds = c1
    BY <2>0
  <2>2. n = 2 /\ kinds[1] = "raise" /\ kinds[2] = "call" => kinds = c2
    BY <2>0
  <2>3. n = 3 /\ kinds[1] = "call" /\ kinds[2] = "raise" /\ kinds[3] = "call" => kinds = c3
    BY <2>0
  <2>4. (n = 4 /\ kinds[1] = "call" /\ kinds[2] = "raise" /\ kinds[3] = "raise" /\ kinds[4] = "call") => kinds = c4
    BY <2>0
  <2>5. n = 3 /\ kinds[1] = "raise" /\ kinds[2] = "raise" /\ kinds[3] = "call" => kinds = c5
    BY <2>0
  <2>6. (n = 4 /\ kinds[1] = "raise" /\ kinds[2] = "call" /\ kinds[3] = "raise" /\ kinds[4] = "call") => kinds = c6
    BY <2>0
  <2>7. (n = 4 /\ kinds[1] = "raise" /\ kinds[2] = "raise" /\ kinds[3] = "raise" /\ kinds[4] = "call") => kinds = c7
    BY <2>0
  <2> QED
    BY <2>1, <2>2, <2>3, <2>4, <2>5, <2>6, <2>7
<1> HIDE DEF c1, c2, c3, c4, c5, c6, c7
<1>7. /\ kinds = c1 => TrueSource = "limped"
      /\ kinds = c2 => TrueSource = "single_raised"
      /\ kinds = c3 => TrueSource = "isolation_raised"
      /\ kinds = c4 => TrueSource = "limp_reraised"
      /\ kinds = c5 => TrueSource = IF by(3) = by(1) THEN "three_bet" ELSE "cold_three_bet"
      /\ kinds = c6 => TrueSource = "squeeze"
      /\ kinds = c7 => TrueSource = IF by(3) = by(1) THEN "four_bet" ELSE "cold_four_bet"
  <2> HIDE DEF kinds
  <2> QED
    BY <1>4, <1>5
<1>8. \A i \in 1 .. n : kinds[i] = log[i].action
  BY <1>2
<1> HIDE DEF kinds
<1>9. /\ n >= 1 => kinds[1] = log[1].action
      /\ n >= 2 => kinds[2] = log[2].action
      /\ n >= 3 => kinds[3] = log[3].action
      /\ n >= 4 => kinds[4] = log[4].action
  BY <1>8
<1>10. /\ n = 1 /\ log[1].action = "call" => kinds = c1
       /\ n = 2 /\ log[1].action = "raise" /\ log[2].action = "call" => kinds = c2
       /\ n = 3 /\ log[1].action = "call" /\ log[2].action = "raise" /\ log[3].action = "call" => kinds = c3
       /\ n = 3 /\ log[1].action = "raise" /\ log[2].action = "raise" /\ log[3].action = "call" => kinds = c5
  BY <1>6, <1>9
<1>11. /\ (/\ n = 4 /\ log[1].action = "call" /\ log[2].action = "raise"
           /\ log[3].action = "raise" /\ log[4].action = "call")
             => kinds = c4
       /\ (/\ n = 4 /\ log[1].action = "raise" /\ log[2].action = "call"
           /\ log[3].action = "raise" /\ log[4].action = "call")
             => kinds = c6
       /\ (/\ n = 4 /\ log[1].action = "raise" /\ log[2].action = "raise"
           /\ log[3].action = "raise" /\ log[4].action = "call")
             => kinds = c7
  <2> SUFFICES ASSUME n = 4
      PROVE  /\ (log[1].action = "call" /\ log[2].action = "raise" /\ log[3].action = "raise" /\ log[4].action = "call")
                  => kinds = c4
             /\ (log[1].action = "raise" /\ log[2].action = "call" /\ log[3].action = "raise" /\ log[4].action = "call")
                  => kinds = c6
             /\ (log[1].action = "raise" /\ log[2].action = "raise" /\ log[3].action = "raise" /\ log[4].action = "call")
                  => kinds = c7
    OBVIOUS
  <2>1. /\ kinds[1] = log[1].action /\ kinds[2] = log[2].action
        /\ kinds[3] = log[3].action /\ kinds[4] = log[4].action
    BY <1>9
  <2>2. /\ (log[1].action = "call" /\ log[2].action = "raise" /\ log[3].action = "raise" /\ log[4].action = "call")
             => kinds = c4
        /\ (log[1].action = "raise" /\ log[2].action = "call" /\ log[3].action = "raise" /\ log[4].action = "call")
             => kinds = c6
        /\ (log[1].action = "raise" /\ log[2].action = "raise" /\ log[3].action = "raise" /\ log[4].action = "call")
             => kinds = c7
    BY <1>6, <2>1
  <2> QED
    BY <2>2
<1>12. n = 1 /\ log[1].action = "call" => TrueSource = "limped"
  BY <1>7, <1>10
<1>13. n = 2 /\ log[1].action = "raise" /\ log[2].action = "call" => TrueSource = "single_raised"
  BY <1>7, <1>10
<1>14. n = 3 /\ log[1].action = "call" /\ log[2].action = "raise" /\ log[3].action = "call"
          => TrueSource = "isolation_raised"
  BY <1>7, <1>10
<1>15. (/\ n = 4 /\ log[1].action = "call" /\ log[2].action = "raise"
        /\ log[3].action = "raise" /\ log[4].action = "call")
          => TrueSource = "limp_reraised"
  BY <1>7, <1>11
<1>16. n = 3 /\ log[1].action = "raise" /\ log[2].action = "raise" /\ log[3].action = "call"
          => TrueSource = IF log[3].actor = log[1].actor THEN "three_bet" ELSE "cold_three_bet"
  BY <1>7, <1>10
<1>17. (/\ n = 4 /\ log[1].action = "raise" /\ log[2].action = "call"
        /\ log[3].action = "raise" /\ log[4].action = "call")
          => TrueSource = "squeeze"
  BY <1>7, <1>11
<1>18. (/\ n = 4 /\ log[1].action = "raise" /\ log[2].action = "raise"
        /\ log[3].action = "raise" /\ log[4].action = "call")
          => TrueSource = IF log[3].actor = log[1].actor THEN "four_bet" ELSE "cold_four_bet"
  BY <1>7, <1>11
<1> QED
  BY <1>12, <1>13, <1>14, <1>15, <1>16, <1>17, <1>18

\* A line that is the one that was played, by the two that are left.
IsTheLine(line) ==
    /\ line.source = TrueSource
    /\ line.strong = StrongSeat
    /\ line.strong # line.called /\ live = {line.strong, line.called}
    /\ line.committed = PreflopWager
    /\ line.hero = Hero /\ line.opponent = Opponent

\* Ranges that belong to the hand, if there are any.
Belong(ranges) == ranges = None \/ BelongToTheHand(ranges)

\* The ranges that are cut for the line that was played belong to the hand.
LEMMA CutRangesBelong ==
    ASSUME TableInv, HandInv, Decides, street # "preflop", NEW p, NEW s, IsStreetView(s, p),
           NEW line, IsTheLine(line), NEW top, NEW policy, policy.raise \in Nat, policy.raise >= 1
    PROVE  Belong(RangesFor(s, Role(Hero), line, top, policy))
<1> DEFINE rel == Role(Hero)
           bands == [seat \in {line.strong, line.called} |->
                        IF seat = line.strong THEN <<0, top>> ELSE <<policy.raise, policy.continue>>]
           oop == bands[IF rel = "oop" THEN line.hero ELSE line.opponent]
           ip == bands[IF rel = "oop" THEN line.opponent ELSE line.hero]
           cut == Ranges(line.source, oop, ip, StackFor(s, rel, line))
<1>1. RangesFor(s, rel, line, top, policy) \in {ValueError, None, cut}
  BY DEF RangesFor
<1>2. BelongToTheHand(ValueError)
  BY DEF BelongToTheHand, ValueError, Ranges
<1>3. /\ Hero # Opponent /\ live = {Hero, Opponent} /\ rel \in {"oop", "ip"}
      /\ rel = "oop" <=> Hero = FirstOf(live)
      /\ rel = "ip" <=> Opponent = FirstOf(live)
  BY TwoPlayers
<1>4. /\ line.source = TrueSource /\ line.strong = StrongSeat
      /\ line.strong # line.called /\ live = {line.strong, line.called}
      /\ line.committed = PreflopWager /\ line.hero = Hero /\ line.opponent = Opponent
  BY DEF IsTheLine
<1>5. bands[line.strong] = <<0, top>> /\ bands[line.called] = <<policy.raise, policy.continue>>
  BY <1>4
<1> DEFINE first == FirstOf(live)
           last == IF rel = "oop" THEN Opponent ELSE Hero
<1>6. /\ oop = bands[first] /\ ip = bands[last]
      /\ first \in {line.strong, line.called} /\ last \in {line.strong, line.called} /\ first # last
  <2> HIDE DEF bands, rel
  <2> QED
    BY <1>3, <1>4
<1>7. bands[line.strong][1] = 0 /\ bands[line.called][1] # 0
  <2> HIDE DEF bands
  <2> QED
    BY <1>5
<1>8. /\ (oop[1] = 0) <=> (StrongSeat = first)
      /\ (ip[1] = 0) <=> (StrongSeat # first)
  <2> HIDE DEF bands, oop, ip, first, last
  <2> QED
    BY <1>4, <1>6, <1>7
<1>9. StackFor(s, rel, line) # None => StackFor(s, rel, line) = Smaller(start[Hero], start[Opponent])
  BY <1>4, StartingStackIsTold DEF StackFor
<1>10. BelongToTheHand(cut)
  <2>1. cut.source = line.source /\ cut.oop = oop /\ cut.ip = ip /\ cut.stack = StackFor(s, rel, line)
    <3> HIDE DEF oop, ip, rel
    <3> QED
      BY DEF Ranges
  <2> HIDE DEF cut, oop, ip, rel
  <2> QED
    BY <1>4, <1>8, <1>9, <2>1 DEF BelongToTheHand
<1> HIDE DEF cut, rel
<1> QED
  BY <1>1, <1>2, <1>10 DEF Belong, rel

-----------------------------------------------------------------------------
(***************************************************************************)
(* The nine lines                                                          *)
(***************************************************************************)

\* Three seats that are in order.
LEMMA OrderOfThree ==
    ASSUME NEW a, NEW b, NEW c, InOrder(<<a, b, c>>)
    PROVE  a < b /\ b < c
  BY DEF InOrder

\* An open that is called.
LEMMA SingleRaisedBelongs ==
    ASSUME TableInv, HandInv, Decides, street # "preflop", NEW p \in Positions, NEW s, IsStreetView(s, p),
           NEW depth, Adjusts(depth), SingleRaisedPot(s, Role(Hero)) # None
    PROVE  Belong(SingleRaisedRanges(s, Role(Hero), SingleRaisedPot(s, Role(Hero)), depth))
<1> DEFINE rel == Role(Hero)
           line == SingleRaisedPot(s, rel)
<1>1. /\ s.preflop_action_history = log
      /\ DOMAIN log = 1 .. Len(log) /\ Len(log) \in Nat
      /\ \A i : /\ Actor(s, i) = log[i].actor
                /\ Amount(s, i) = log[i].amount
                /\ Calls(s, i) <=> log[i].action = "call"
                /\ Raises(s, i) <=> log[i].action = "raise"
      /\ \A i \in DOMAIN log : log[i].actor \in Dealt /\ log[i].actor \in 1 .. 6
  BY RecordIsTold
<1>2. /\ EndsInCall(s, 2) /\ OpensTheHand(s)
      /\ AreTheSeats(s, log[1].actor, log[2].actor)
      /\ line.source = "single_raised"
      /\ line.strong = log[1].actor /\ line.called = log[2].actor
      /\ line.committed = log[1].amount
      /\ line.hero = SeatsOf(s)[1] /\ line.opponent = SeatsOf(s)[2]
      /\ line.faced = BandFor(OPEN_SIZES, log[1].amount, 100)
  <2>1. line # None
    OBVIOUS
  <2> HIDE DEF rel
  <2> QED
    BY <1>1, <2>1 DEF SingleRaisedPot, Pot
<1>3. /\ DOMAIN log = 1 .. 2
      /\ log[1].action = "raise"
      /\ log[2].action = "call"
  BY <1>1, <1>2 DEF EndsInCall, OpensTheHand
<1>4. /\ log[1].actor \in Dealt /\ log[2].actor \in Dealt
      /\ log[1].actor \in 1 .. 6 /\ log[2].actor \in 1 .. 6
  <2> HIDE DEF rel, line
  <2>1. 1 \in DOMAIN log /\ 2 \in DOMAIN log
    BY <1>3
  <2> QED
    BY <1>1, <2>1
<1>5. /\ SeatsOf(s)[1] = Hero /\ SeatsOf(s)[2] = Opponent
      /\ log[1].actor # log[2].actor /\ live = {log[1].actor, log[2].actor}
  BY <1>2, <1>4, NamedSeatsAreTrue
<1>6. StrongSeat = log[1].actor /\ PreflopWager = log[1].amount
  <2>1. 2 \in 1 .. 4 /\ 1 \in 1 .. 2 /\ \A i \in 1 .. 2 : i > 1 => log[i].action = "call"
    BY <1>3
  <2> QED
    BY <1>3, <2>1, LastRaiseIs
<1>7. TrueSource = "single_raised"
  <2>1. 2 \in 1 .. 4
    OBVIOUS
  <2> QED
    BY <1>1, <1>2, <1>3, <1>5, <2>1, SourceIsKinds
<1> HIDE DEF line, rel
<1>8. IsTheLine(line)
  BY <1>1, <1>2, <1>5, <1>6, <1>7 DEF IsTheLine
<1>9. CASE line.called <= line.strong \/ line.faced = None
  <2>1. SingleRaisedRanges(s, rel, line, depth) = None
    BY <1>9 DEF SingleRaisedRanges
  <2> QED
    BY <2>1 DEF Belong, line, rel
<1>10. CASE ~ (line.called <= line.strong \/ line.faced = None)
  <2> DEFINE policy == Adjusted(Pair(DEFENSE, line.strong, line.called), line.faced, depth)
             top == OpenFraction(line.strong, depth)
  <2>1. SingleRaisedRanges(s, rel, line, depth) = RangesFor(s, rel, line, top, policy)
    BY <1>10 DEF SingleRaisedRanges
  <2>2. policy.raise \in Nat /\ policy.raise >= 1
    <3>1. line.strong < line.called
      BY <1>2, <1>4, <1>10
    <3>2. Plays(Pair(DEFENSE, line.strong, line.called))
      BY <1>1, <1>2, <1>4, <3>1, PairsPlay
    <3>3. Adjusts(line.faced)
      BY <1>2, <1>10, SizesAdjust
    <3> QED
      BY <3>2, <3>3, PoliciesRaise
  <2> HIDE DEF policy, top
  <2>3. Belong(RangesFor(s, Role(Hero), line, top, policy))
    BY <1>8, <2>2, CutRangesBelong
  <2> QED
    BY <2>1, <2>3 DEF line, rel
<1> QED
  BY <1>9, <1>10

\* An open, a 3-bet and the opener's call.
LEMMA ThreeBetBelongs ==
    ASSUME TableInv, HandInv, Decides, street # "preflop", NEW p \in Positions, NEW s, IsStreetView(s, p),
           NEW depth, Adjusts(depth), ThreeBetPot(s, Role(Hero)) # None
    PROVE  Belong(ThreeBetRanges(s, Role(Hero), ThreeBetPot(s, Role(Hero)), depth))
<1> DEFINE rel == Role(Hero)
           line == ThreeBetPot(s, rel)
<1>1. /\ s.preflop_action_history = log
      /\ DOMAIN log = 1 .. Len(log) /\ Len(log) \in Nat
      /\ \A i : /\ Actor(s, i) = log[i].actor
                /\ Amount(s, i) = log[i].amount
                /\ Calls(s, i) <=> log[i].action = "call"
                /\ Raises(s, i) <=> log[i].action = "raise"
      /\ \A i \in DOMAIN log : log[i].actor \in Dealt /\ log[i].actor \in 1 .. 6
  BY RecordIsTold
<1>2. /\ EndsInCall(s, 3) /\ OpensTheHand(s)
      /\ Raises(s, 2) /\ log[3].actor = log[1].actor
      /\ log[1].actor < log[2].actor
      /\ AreTheSeats(s, log[1].actor, log[2].actor)
      /\ line.source = "three_bet"
      /\ line.strong = log[2].actor /\ line.called = log[1].actor
      /\ line.committed = log[2].amount
      /\ line.hero = SeatsOf(s)[1] /\ line.opponent = SeatsOf(s)[2]
      /\ line.faced = BandFor(THREE_BET_SIZES, log[2].amount, log[1].amount)
  <2>1. line # None
    OBVIOUS
  <2> HIDE DEF rel
  <2> QED
    BY <1>1, <2>1 DEF ThreeBetPot, Pot
<1>3. /\ DOMAIN log = 1 .. 3
      /\ log[1].action = "raise"
      /\ log[2].action = "raise"
      /\ log[3].action = "call"
  BY <1>1, <1>2 DEF EndsInCall, OpensTheHand
<1>4. /\ log[1].actor \in Dealt /\ log[2].actor \in Dealt /\ log[3].actor \in Dealt
      /\ log[1].actor \in 1 .. 6 /\ log[2].actor \in 1 .. 6 /\ log[3].actor \in 1 .. 6
  <2> HIDE DEF rel, line
  <2>1. 1 \in DOMAIN log /\ 2 \in DOMAIN log /\ 3 \in DOMAIN log
    BY <1>3
  <2> QED
    BY <1>1, <2>1
<1>5. /\ SeatsOf(s)[1] = Hero /\ SeatsOf(s)[2] = Opponent
      /\ log[1].actor # log[2].actor /\ live = {log[1].actor, log[2].actor}
  BY <1>2, <1>4, NamedSeatsAreTrue
<1>6. StrongSeat = log[2].actor /\ PreflopWager = log[2].amount
  <2>1. 3 \in 1 .. 4 /\ 2 \in 1 .. 3 /\ \A i \in 1 .. 3 : i > 2 => log[i].action = "call"
    BY <1>3
  <2> QED
    BY <1>3, <2>1, LastRaiseIs
<1>7. TrueSource = "three_bet"
  <2>1. 3 \in 1 .. 4
    OBVIOUS
  <2> QED
    BY <1>1, <1>2, <1>3, <1>5, <2>1, SourceIsKinds
<1> HIDE DEF line, rel
<1>8. IsTheLine(line)
  BY <1>1, <1>2, <1>5, <1>6, <1>7 DEF IsTheLine
<1>9. CASE line.asked = None \/ line.faced = None
  <2>1. ThreeBetRanges(s, rel, line, depth) = None
    BY <1>9 DEF ThreeBetRanges
  <2> QED
    BY <2>1 DEF Belong, line, rel
<1>10. CASE ~ (line.asked = None \/ line.faced = None)
  <2> DEFINE policy == Adjusted(Pair(THREE_BET_DEFENSE, line.called, line.strong), line.faced, depth)
             top == Adjusted(Pair(DEFENSE, line.called, line.strong), line.asked, depth).raise
  <2>1. ThreeBetRanges(s, rel, line, depth) = RangesFor(s, rel, line, top, policy)
    BY <1>10 DEF ThreeBetRanges
  <2>2. policy.raise \in Nat /\ policy.raise >= 1
    <3>1. line.called < line.strong
      BY <1>2
    <3>2. Plays(Pair(THREE_BET_DEFENSE, line.called, line.strong))
      BY <1>1, <1>2, <1>4, <3>1, PairsPlay
    <3>3. Adjusts(line.faced)
      BY <1>2, <1>10, SizesAdjust
    <3> QED
      BY <3>2, <3>3, PoliciesRaise
  <2> HIDE DEF policy, top
  <2>3. Belong(RangesFor(s, Role(Hero), line, top, policy))
    BY <1>8, <2>2, CutRangesBelong
  <2> QED
    BY <2>1, <2>3 DEF line, rel
<1> QED
  BY <1>9, <1>10

\* An open, a 3-bet and the call of another seat.
LEMMA ColdThreeBetBelongs ==
    ASSUME TableInv, HandInv, Decides, street # "preflop", NEW p \in Positions, NEW s, IsStreetView(s, p),
           NEW depth, Adjusts(depth), ColdThreeBetPot(s, Role(Hero)) # None
    PROVE  Belong(ColdThreeBetRanges(s, Role(Hero), ColdThreeBetPot(s, Role(Hero)), depth))
<1> DEFINE rel == Role(Hero)
           line == ColdThreeBetPot(s, rel)
<1>1. /\ s.preflop_action_history = log
      /\ DOMAIN log = 1 .. Len(log) /\ Len(log) \in Nat
      /\ \A i : /\ Actor(s, i) = log[i].actor
                /\ Amount(s, i) = log[i].amount
                /\ Calls(s, i) <=> log[i].action = "call"
                /\ Raises(s, i) <=> log[i].action = "raise"
      /\ \A i \in DOMAIN log : log[i].actor \in Dealt /\ log[i].actor \in 1 .. 6
  BY RecordIsTold
<1>2. /\ EndsInCall(s, 3) /\ OpensTheHand(s)
      /\ Raises(s, 2)
      /\ log[1].actor < log[2].actor /\ log[2].actor < log[3].actor
      /\ AreTheSeats(s, log[2].actor, log[3].actor)
      /\ line.source = "cold_three_bet"
      /\ line.strong = log[2].actor /\ line.called = log[3].actor
      /\ line.committed = log[2].amount
      /\ line.hero = SeatsOf(s)[1] /\ line.opponent = SeatsOf(s)[2]
      /\ line.folded = log[1].actor
      /\ line.faced = BandFor(THREE_BET_SIZES, log[2].amount, log[1].amount)
  <2>1. line # None
    OBVIOUS
  <2> HIDE DEF rel
  <2> QED
    BY <1>1, <2>1, OrderOfThree DEF ColdThreeBetPot, Pot
<1>3. /\ DOMAIN log = 1 .. 3
      /\ log[1].action = "raise"
      /\ log[2].action = "raise"
      /\ log[3].action = "call"
  BY <1>1, <1>2 DEF EndsInCall, OpensTheHand
<1>4. /\ log[1].actor \in Dealt /\ log[2].actor \in Dealt /\ log[3].actor \in Dealt
      /\ log[1].actor \in 1 .. 6 /\ log[2].actor \in 1 .. 6 /\ log[3].actor \in 1 .. 6
  <2> HIDE DEF rel, line
  <2>1. 1 \in DOMAIN log /\ 2 \in DOMAIN log /\ 3 \in DOMAIN log
    BY <1>3
  <2> QED
    BY <1>1, <2>1
<1>5. /\ SeatsOf(s)[1] = Hero /\ SeatsOf(s)[2] = Opponent
      /\ log[2].actor # log[3].actor /\ live = {log[2].actor, log[3].actor}
  BY <1>2, <1>4, NamedSeatsAreTrue
<1>6. StrongSeat = log[2].actor /\ PreflopWager = log[2].amount
  <2>1. 3 \in 1 .. 4 /\ 2 \in 1 .. 3 /\ \A i \in 1 .. 3 : i > 2 => log[i].action = "call"
    BY <1>3
  <2> QED
    BY <1>3, <2>1, LastRaiseIs
<1>7. TrueSource = "cold_three_bet"
  <2>1. 3 \in 1 .. 4
    OBVIOUS
  <2>2. log[3].actor # log[1].actor
    BY <1>2, <1>4
  <2> QED
    BY <1>1, <1>2, <1>3, <1>5, <2>1, <2>2, SourceIsKinds
<1> HIDE DEF line, rel
<1>8. IsTheLine(line)
  BY <1>1, <1>2, <1>5, <1>6, <1>7 DEF IsTheLine
<1>9. CASE line.asked = None \/ line.faced = None
  <2>1. ColdThreeBetRanges(s, rel, line, depth) = None
    BY <1>9 DEF ColdThreeBetRanges
  <2> QED
    BY <2>1 DEF Belong, line, rel
<1>10. CASE ~ (line.asked = None \/ line.faced = None)
  <2> DEFINE policy == Adjusted(Triple(COLD_THREE_BET_DEFENSE, line.folded, line.strong, line.called), line.faced, depth)
             top == Adjusted(Pair(DEFENSE, line.folded, line.strong), line.asked, depth).raise
  <2>1. ColdThreeBetRanges(s, rel, line, depth) = RangesFor(s, rel, line, top, policy)
    BY <1>10 DEF ColdThreeBetRanges
  <2>2. policy.raise \in Nat /\ policy.raise >= 1
    <3>1. line.folded < line.strong /\ line.strong < line.called
      BY <1>2
    <3>2. Plays(Triple(COLD_THREE_BET_DEFENSE, line.folded, line.strong, line.called))
      BY <1>1, <1>2, <1>4, <3>1, TriplesPlay
    <3>3. Adjusts(line.faced)
      BY <1>2, <1>10, SizesAdjust
    <3> QED
      BY <3>2, <3>3, PoliciesRaise
  <2> HIDE DEF policy, top
  <2>3. Belong(RangesFor(s, Role(Hero), line, top, policy))
    BY <1>8, <2>2, CutRangesBelong
  <2> QED
    BY <2>1, <2>3 DEF line, rel
<1> QED
  BY <1>9, <1>10

\* An open, a call, a squeeze and the call of the caller.
LEMMA SqueezeBelongs ==
    ASSUME TableInv, HandInv, Decides, street # "preflop", NEW p \in Positions, NEW s, IsStreetView(s, p),
           NEW depth, Adjusts(depth), SqueezePot(s, Role(Hero)) # None
    PROVE  Belong(SqueezeRanges(s, Role(Hero), SqueezePot(s, Role(Hero)), depth))
<1> DEFINE rel == Role(Hero)
           line == SqueezePot(s, rel)
<1>1. /\ s.preflop_action_history = log
      /\ DOMAIN log = 1 .. Len(log) /\ Len(log) \in Nat
      /\ \A i : /\ Actor(s, i) = log[i].actor
                /\ Amount(s, i) = log[i].amount
                /\ Calls(s, i) <=> log[i].action = "call"
                /\ Raises(s, i) <=> log[i].action = "raise"
      /\ \A i \in DOMAIN log : log[i].actor \in Dealt /\ log[i].actor \in 1 .. 6
  BY RecordIsTold
<1>2. /\ EndsInCall(s, 4) /\ OpensTheHand(s)
      /\ Calls(s, 2) /\ Raises(s, 3)
      /\ log[1].actor < log[2].actor /\ log[2].actor < log[3].actor
      /\ AreTheSeats(s, log[2].actor, log[3].actor)
      /\ line.source = "squeeze"
      /\ line.strong = log[3].actor /\ line.called = log[2].actor
      /\ line.committed = log[3].amount
      /\ line.hero = SeatsOf(s)[1] /\ line.opponent = SeatsOf(s)[2]
      /\ line.folded = log[1].actor
      /\ line.faced = BandFor(THREE_BET_SIZES, log[3].amount, log[1].amount)
  <2>1. line # None
    OBVIOUS
  <2> HIDE DEF rel
  <2> QED
    BY <1>1, <2>1, OrderOfThree DEF SqueezePot, Pot
<1>3. /\ DOMAIN log = 1 .. 4
      /\ log[1].action = "raise"
      /\ log[2].action = "call"
      /\ log[3].action = "raise"
      /\ log[4].action = "call"
  BY <1>1, <1>2 DEF EndsInCall, OpensTheHand
<1>4. /\ log[1].actor \in Dealt /\ log[2].actor \in Dealt /\ log[3].actor \in Dealt /\ log[4].actor \in Dealt
      /\ log[1].actor \in 1 .. 6 /\ log[2].actor \in 1 .. 6 /\ log[3].actor \in 1 .. 6 /\ log[4].actor \in 1 .. 6
  <2> HIDE DEF rel, line
  <2>1. 1 \in DOMAIN log /\ 2 \in DOMAIN log /\ 3 \in DOMAIN log /\ 4 \in DOMAIN log
    BY <1>3
  <2> QED
    BY <1>1, <2>1
<1>5. /\ SeatsOf(s)[1] = Hero /\ SeatsOf(s)[2] = Opponent
      /\ log[2].actor # log[3].actor /\ live = {log[2].actor, log[3].actor}
  BY <1>2, <1>4, NamedSeatsAreTrue
<1>6. StrongSeat = log[3].actor /\ PreflopWager = log[3].amount
  <2>1. 4 \in 1 .. 4 /\ 3 \in 1 .. 4 /\ \A i \in 1 .. 4 : i > 3 => log[i].action = "call"
    BY <1>3
  <2> QED
    BY <1>3, <2>1, LastRaiseIs
<1>7. TrueSource = "squeeze"
  <2>1. 4 \in 1 .. 4
    OBVIOUS
  <2> QED
    BY <1>1, <1>2, <1>3, <1>5, <2>1, SourceIsKinds
<1> HIDE DEF line, rel
<1>8. IsTheLine(line)
  BY <1>1, <1>2, <1>5, <1>6, <1>7 DEF IsTheLine
<1>9. CASE line.asked = None \/ line.faced = None
  <2>1. SqueezeRanges(s, rel, line, depth) = None
    BY <1>9 DEF SqueezeRanges
  <2> QED
    BY <2>1 DEF Belong, line, rel
<1>10. CASE ~ (line.asked = None \/ line.faced = None)
  <2> DEFINE policy == Adjusted(Triple(SQUEEZE_DEFENSE, line.folded, line.called, line.strong), line.faced, depth)
             top == AdjustedForCallers(Adjusted(Pair(DEFENSE, line.folded, line.strong), line.asked, depth), 1).raise
  <2>1. SqueezeRanges(s, rel, line, depth) = RangesFor(s, rel, line, top, policy)
    BY <1>10 DEF SqueezeRanges
  <2>2. policy.raise \in Nat /\ policy.raise >= 1
    <3>1. line.folded < line.called /\ line.called < line.strong
      BY <1>2
    <3>2. Plays(Triple(SQUEEZE_DEFENSE, line.folded, line.called, line.strong))
      BY <1>1, <1>2, <1>4, <3>1, TriplesPlay
    <3>3. Adjusts(line.faced)
      BY <1>2, <1>10, SizesAdjust
    <3> QED
      BY <3>2, <3>3, PoliciesRaise
  <2> HIDE DEF policy, top
  <2>3. Belong(RangesFor(s, Role(Hero), line, top, policy))
    BY <1>8, <2>2, CutRangesBelong
  <2> QED
    BY <2>1, <2>3 DEF line, rel
<1> QED
  BY <1>9, <1>10

\* An open, a 3-bet, the opener's 4-bet and a call.
LEMMA FourBetBelongs ==
    ASSUME TableInv, HandInv, Decides, street # "preflop", NEW p \in Positions, NEW s, IsStreetView(s, p),
           NEW depth, Adjusts(depth), FourBetPot(s, Role(Hero)) # None
    PROVE  Belong(FourBetRanges(s, Role(Hero), FourBetPot(s, Role(Hero)), depth))
<1> DEFINE rel == Role(Hero)
           line == FourBetPot(s, rel)
<1>1. /\ s.preflop_action_history = log
      /\ DOMAIN log = 1 .. Len(log) /\ Len(log) \in Nat
      /\ \A i : /\ Actor(s, i) = log[i].actor
                /\ Amount(s, i) = log[i].amount
                /\ Calls(s, i) <=> log[i].action = "call"
                /\ Raises(s, i) <=> log[i].action = "raise"
      /\ \A i \in DOMAIN log : log[i].actor \in Dealt /\ log[i].actor \in 1 .. 6
  BY RecordIsTold
<1>2. /\ EndsInCall(s, 4) /\ OpensTheHand(s)
      /\ Raises(s, 2) /\ Raises(s, 3)
      /\ log[3].actor = log[1].actor
      /\ log[1].actor < log[2].actor
      /\ AreTheSeats(s, log[1].actor, log[2].actor)
      /\ line.source = "four_bet"
      /\ line.strong = log[1].actor /\ line.called = log[2].actor
      /\ line.committed = log[3].amount
      /\ line.hero = SeatsOf(s)[1] /\ line.opponent = SeatsOf(s)[2]
      /\ line.faced = BandFor(FOUR_BET_SIZES, log[3].amount, log[2].amount)
  <2>1. line # None
    OBVIOUS
  <2> HIDE DEF rel
  <2> QED
    BY <1>1, <2>1 DEF FourBetPot, Pot
<1>3. /\ DOMAIN log = 1 .. 4
      /\ log[1].action = "raise"
      /\ log[2].action = "raise"
      /\ log[3].action = "raise"
      /\ log[4].action = "call"
  BY <1>1, <1>2 DEF EndsInCall, OpensTheHand
<1>4. /\ log[1].actor \in Dealt /\ log[2].actor \in Dealt /\ log[3].actor \in Dealt /\ log[4].actor \in Dealt
      /\ log[1].actor \in 1 .. 6 /\ log[2].actor \in 1 .. 6 /\ log[3].actor \in 1 .. 6 /\ log[4].actor \in 1 .. 6
  <2> HIDE DEF rel, line
  <2>1. 1 \in DOMAIN log /\ 2 \in DOMAIN log /\ 3 \in DOMAIN log /\ 4 \in DOMAIN log
    BY <1>3
  <2> QED
    BY <1>1, <2>1
<1>5. /\ SeatsOf(s)[1] = Hero /\ SeatsOf(s)[2] = Opponent
      /\ log[1].actor # log[2].actor /\ live = {log[1].actor, log[2].actor}
  BY <1>2, <1>4, NamedSeatsAreTrue
<1>6. StrongSeat = log[3].actor /\ PreflopWager = log[3].amount
  <2>1. 4 \in 1 .. 4 /\ 3 \in 1 .. 4 /\ \A i \in 1 .. 4 : i > 3 => log[i].action = "call"
    BY <1>3
  <2> QED
    BY <1>3, <2>1, LastRaiseIs
<1>7. TrueSource = "four_bet"
  <2>1. 4 \in 1 .. 4
    OBVIOUS
  <2> QED
    BY <1>1, <1>2, <1>3, <1>5, <2>1, SourceIsKinds
<1> HIDE DEF line, rel
<1>8. IsTheLine(line)
  BY <1>1, <1>2, <1>5, <1>6, <1>7 DEF IsTheLine
<1>9. CASE line.asked = None \/ line.faced = None
  <2>1. FourBetRanges(s, rel, line, depth) = None
    BY <1>9 DEF FourBetRanges
  <2> QED
    BY <2>1 DEF Belong, line, rel
<1>10. CASE ~ (line.asked = None \/ line.faced = None)
  <2> DEFINE policy == AdjustedFourBet(Pair(FOUR_BET_DEFENSE, line.strong, line.called), line.faced, depth)
             top == Adjusted(Pair(THREE_BET_DEFENSE, line.strong, line.called), line.asked, depth).raise
  <2>1. FourBetRanges(s, rel, line, depth) = RangesFor(s, rel, line, top, policy)
    BY <1>10 DEF FourBetRanges
  <2>2. policy.raise \in Nat /\ policy.raise >= 1
    <3>1. line.strong < line.called
      BY <1>2
    <3>2. Plays(Pair(FOUR_BET_DEFENSE, line.strong, line.called))
      BY <1>1, <1>2, <1>4, <3>1, PairsPlay
    <3>3. Adjusts(line.faced)
      BY <1>2, <1>10, SizesAdjust
    <3> QED
      BY <3>2, <3>3, PoliciesRaise
  <2> HIDE DEF policy, top
  <2>3. Belong(RangesFor(s, Role(Hero), line, top, policy))
    BY <1>8, <2>2, CutRangesBelong
  <2> QED
    BY <2>1, <2>3 DEF line, rel
<1> QED
  BY <1>9, <1>10

\* An open, a 3-bet, the 4-bet of another seat and a call.
LEMMA ColdFourBetBelongs ==
    ASSUME TableInv, HandInv, Decides, street # "preflop", NEW p \in Positions, NEW s, IsStreetView(s, p),
           NEW depth, Adjusts(depth), ColdFourBetPot(s, Role(Hero)) # None
    PROVE  Belong(ColdFourBetRanges(s, Role(Hero), ColdFourBetPot(s, Role(Hero)), depth))
<1> DEFINE rel == Role(Hero)
           line == ColdFourBetPot(s, rel)
<1>1. /\ s.preflop_action_history = log
      /\ DOMAIN log = 1 .. Len(log) /\ Len(log) \in Nat
      /\ \A i : /\ Actor(s, i) = log[i].actor
                /\ Amount(s, i) = log[i].amount
                /\ Calls(s, i) <=> log[i].action = "call"
                /\ Raises(s, i) <=> log[i].action = "raise"
      /\ \A i \in DOMAIN log : log[i].actor \in Dealt /\ log[i].actor \in 1 .. 6
  BY RecordIsTold
<1>2. /\ EndsInCall(s, 4) /\ OpensTheHand(s)
      /\ Raises(s, 2) /\ Raises(s, 3)
      /\ log[1].actor < log[2].actor /\ log[2].actor < log[3].actor
      /\ AreTheSeats(s, log[2].actor, log[3].actor)
      /\ line.source = "cold_four_bet"
      /\ line.strong = log[3].actor /\ line.called = log[2].actor
      /\ line.committed = log[3].amount
      /\ line.hero = SeatsOf(s)[1] /\ line.opponent = SeatsOf(s)[2]
      /\ line.folded = log[1].actor
      /\ line.faced = BandFor(FOUR_BET_SIZES, log[3].amount, log[2].amount)
  <2>1. line # None
    OBVIOUS
  <2> HIDE DEF rel
  <2> QED
    BY <1>1, <2>1, OrderOfThree DEF ColdFourBetPot, Pot
<1>3. /\ DOMAIN log = 1 .. 4
      /\ log[1].action = "raise"
      /\ log[2].action = "raise"
      /\ log[3].action = "raise"
      /\ log[4].action = "call"
  BY <1>1, <1>2 DEF EndsInCall, OpensTheHand
<1>4. /\ log[1].actor \in Dealt /\ log[2].actor \in Dealt /\ log[3].actor \in Dealt /\ log[4].actor \in Dealt
      /\ log[1].actor \in 1 .. 6 /\ log[2].actor \in 1 .. 6 /\ log[3].actor \in 1 .. 6 /\ log[4].actor \in 1 .. 6
  <2> HIDE DEF rel, line
  <2>1. 1 \in DOMAIN log /\ 2 \in DOMAIN log /\ 3 \in DOMAIN log /\ 4 \in DOMAIN log
    BY <1>3
  <2> QED
    BY <1>1, <2>1
<1>5. /\ SeatsOf(s)[1] = Hero /\ SeatsOf(s)[2] = Opponent
      /\ log[2].actor # log[3].actor /\ live = {log[2].actor, log[3].actor}
  BY <1>2, <1>4, NamedSeatsAreTrue
<1>6. StrongSeat = log[3].actor /\ PreflopWager = log[3].amount
  <2>1. 4 \in 1 .. 4 /\ 3 \in 1 .. 4 /\ \A i \in 1 .. 4 : i > 3 => log[i].action = "call"
    BY <1>3
  <2> QED
    BY <1>3, <2>1, LastRaiseIs
<1>7. TrueSource = "cold_four_bet"
  <2>1. 4 \in 1 .. 4
    OBVIOUS
  <2>2. log[3].actor # log[1].actor
    BY <1>2, <1>4
  <2> QED
    BY <1>1, <1>2, <1>3, <1>5, <2>1, <2>2, SourceIsKinds
<1> HIDE DEF line, rel
<1>8. IsTheLine(line)
  BY <1>1, <1>2, <1>5, <1>6, <1>7 DEF IsTheLine
<1>9. CASE line.asked = None \/ line.faced = None
  <2>1. ColdFourBetRanges(s, rel, line, depth) = None
    BY <1>9 DEF ColdFourBetRanges
  <2> QED
    BY <2>1 DEF Belong, line, rel
<1>10. CASE ~ (line.asked = None \/ line.faced = None)
  <2> DEFINE policy == AdjustedFourBet(Triple(COLD_FOUR_BET_DEFENSE, line.folded, line.called, line.strong), line.faced, depth)
             top == Adjusted(Triple(COLD_THREE_BET_DEFENSE, line.folded, line.called, line.strong), line.asked, depth).raise
  <2>1. ColdFourBetRanges(s, rel, line, depth) = RangesFor(s, rel, line, top, policy)
    BY <1>10 DEF ColdFourBetRanges
  <2>2. policy.raise \in Nat /\ policy.raise >= 1
    <3>1. line.folded < line.called /\ line.called < line.strong
      BY <1>2
    <3>2. Plays(Triple(COLD_FOUR_BET_DEFENSE, line.folded, line.called, line.strong))
      BY <1>1, <1>2, <1>4, <3>1, TriplesPlay
    <3>3. Adjusts(line.faced)
      BY <1>2, <1>10, SizesAdjust
    <3> QED
      BY <3>2, <3>3, PoliciesRaise
  <2> HIDE DEF policy, top
  <2>3. Belong(RangesFor(s, Role(Hero), line, top, policy))
    BY <1>8, <2>2, CutRangesBelong
  <2> QED
    BY <2>1, <2>3 DEF line, rel
<1> QED
  BY <1>9, <1>10


\* Who sees the flop came in, in a pot that was raised; otherwise the big blind
\* may see it too.
LEMMA TwoCameIn ==
    ASSUME TableInv, HandInv, Decides, street # "preflop", NEW a, NEW b, a # b,
           \A seat \in live : seat \in {a, b}
    PROVE  live = {a, b}
<1>1. Hero # Opponent /\ live = {Hero, Opponent}
  BY TwoPlayers
<1> QED
  BY <1>1

\* A limp and the big blind's check.
LEMMA LimpedBelongs ==
    ASSUME TableInv, HandInv, Decides, street # "preflop", NEW p \in Positions, NEW s, IsStreetView(s, p),
           NEW depth, Adjusts(depth), LimpedPot(s, Role(Hero)) # None
    PROVE  Belong(LimpedRanges(s, Role(Hero), LimpedPot(s, Role(Hero)), depth))
<1> DEFINE rel == Role(Hero)
           line == LimpedPot(s, rel)
<1>1. /\ s.preflop_action_history = log
      /\ DOMAIN log = 1 .. Len(log) /\ Len(log) \in Nat
      /\ \A i : /\ Actor(s, i) = log[i].actor
                /\ Amount(s, i) = log[i].amount
                /\ Calls(s, i) <=> log[i].action = "call"
                /\ Raises(s, i) <=> log[i].action = "raise"
      /\ \A i \in DOMAIN log : log[i].actor \in Dealt /\ log[i].actor \in 1 .. 6
  BY RecordIsTold
<1>2. /\ Len(log) = 1 /\ log[1].action = "call" /\ log[1].actor # BigBlind
      /\ LimpedSeats(s, rel, log[1].actor) # None
      /\ line.source = "limped" /\ line.strong = log[1].actor /\ line.called = BigBlind
      /\ line.committed = log[1].amount
      /\ line.hero = LimpedSeats(s, rel, log[1].actor)[1]
      /\ line.opponent = LimpedSeats(s, rel, log[1].actor)[2]
  <2>1. line # None
    OBVIOUS
  <2> HIDE DEF rel
  <2> QED
    BY <1>1, <2>1 DEF LimpedPot, Pot
<1>3. DOMAIN log = 1 .. 1 /\ log[1].actor \in 1 .. 6 /\ Raised = {}
  <2>1. DOMAIN log = 1 .. 1
    BY <1>1, <1>2
  <2>2. \A i \in 1 .. 1 : log[i].action # "raise"
    BY <1>2
  <2>3. 1 \in DOMAIN log
    BY <2>1
  <2>4. log[1].actor \in 1 .. 6
    BY <1>1, <2>3
  <2>5. Raised = {}
    BY <2>1, <2>2 DEF Raised
  <2> QED
    BY <2>1, <2>4, <2>5
<1>4. live = {log[1].actor, BigBlind}
  <2>1. \A seat \in live : seat \in {log[1].actor, BigBlind}
    BY <1>3 DEF HandInv, FlopInv, Actors
  <2> QED
    BY <1>2, <2>1, TwoCameIn
<1>5. LimpedSeats(s, rel, log[1].actor) = <<Hero, Opponent>>
  BY <1>2, <1>4, LimpedSeatsAreTrue
<1>6. StrongSeat = log[1].actor /\ PreflopWager = log[1].amount
  <2>1. RaisesMade = 0
    BY <1>3, FS_EmptySet DEF RaisesMade
  <2>2. log[1].amount = 100
    BY <1>3 DEF HandInv, FlopInv
  <2> QED
    BY <1>3, <2>1, <2>2 DEF StrongSeat, PreflopWager
<1>7. TrueSource = "limped"
  <2>1. 1 \in 1 .. 4
    OBVIOUS
  <2> QED
    BY <1>2, <1>3, <2>1, SourceIsKinds
<1> HIDE DEF line, rel
<1>8. IsTheLine(line)
  BY <1>2, <1>4, <1>5, <1>6, <1>7 DEF IsTheLine
<1> DEFINE top == OpenFraction(line.strong, depth)
           policy == [continue |-> 10000,
                      raise |-> LimpRaiseFraction(LIMP_RESPONSE[line.strong], depth)]
<1>9. LimpedRanges(s, rel, line, depth) = RangesFor(s, rel, line, top, policy)
  BY DEF LimpedRanges
<1>10. policy.raise \in Nat /\ policy.raise >= 1
  <2>1. log[1].actor \in 1 .. 5
    BY <1>2, <1>3 DEF BigBlind
  <2> QED
    BY <1>2, <2>1, LimpsAreRaised
<1> HIDE DEF policy, top
<1>11. Belong(RangesFor(s, Role(Hero), line, top, policy))
  BY <1>8, <1>10, CutRangesBelong
<1> QED
  BY <1>9, <1>11 DEF line, rel

\* A limp, the big blind's raise and the limper's call.
LEMMA IsolationRaisedBelongs ==
    ASSUME TableInv, HandInv, Decides, street # "preflop", NEW p \in Positions, NEW s, IsStreetView(s, p),
           NEW depth, Adjusts(depth), IsolationRaisedPot(s, Role(Hero)) # None
    PROVE  Belong(IsolationRaisedRanges(s, Role(Hero), IsolationRaisedPot(s, Role(Hero)), depth))
<1> DEFINE rel == Role(Hero)
           line == IsolationRaisedPot(s, rel)
<1>1. /\ s.preflop_action_history = log
      /\ DOMAIN log = 1 .. Len(log) /\ Len(log) \in Nat
      /\ \A i : /\ Actor(s, i) = log[i].actor
                /\ Amount(s, i) = log[i].amount
                /\ Calls(s, i) <=> log[i].action = "call"
                /\ Raises(s, i) <=> log[i].action = "raise"
      /\ \A i \in DOMAIN log : log[i].actor \in Dealt /\ log[i].actor \in 1 .. 6
  BY RecordIsTold
<1>2. /\ EndsInCall(s, 3) /\ log[1].action = "call" /\ log[2].action = "raise"
      /\ log[2].actor = BigBlind /\ log[3].actor = log[1].actor /\ log[1].actor # BigBlind
      /\ IsolationSeats(s, rel, log[1].actor) # None
      /\ line.source = "isolation_raised" /\ line.strong = BigBlind /\ line.called = log[1].actor
      /\ line.committed = log[2].amount
      /\ line.hero = IsolationSeats(s, rel, log[1].actor)[1]
      /\ line.opponent = IsolationSeats(s, rel, log[1].actor)[2]
      /\ line.faced = BandFor(ISOLATION_SIZES, log[2].amount, 100)
  <2>1. line # None
    OBVIOUS
  <2> HIDE DEF rel
  <2> QED
    BY <1>1, <2>1 DEF IsolationRaisedPot, IsolatedBetween, Pot
<1>3. DOMAIN log = 1 .. 3 /\ log[3].action = "call"
  BY <1>1, <1>2 DEF EndsInCall
<1>4. log[1].actor \in 1 .. 6 /\ log[1].actor < BigBlind /\ BigBlind \in 1 .. 6
  <2> HIDE DEF rel, line
  <2>1. 1 \in DOMAIN log
    BY <1>3
  <2>2. log[1].actor \in 1 .. 6 /\ log[1].actor # BigBlind
    BY <1>1, <1>2, <2>1
  <2> QED
    BY <2>2 DEF BigBlind
<1>5. Raised # {} /\ StrongSeat = log[2].actor /\ PreflopWager = log[2].amount
  <2>1. 3 \in 1 .. 4 /\ 2 \in 1 .. 3 /\ \A i \in 1 .. 3 : i > 2 => log[i].action = "call"
    BY <1>3
  <2> QED
    BY <1>2, <1>3, <2>1, LastRaiseIs
<1>6. live = {log[1].actor, BigBlind} /\ IsolationSeats(s, rel, log[1].actor) = <<Hero, Opponent>>
  <2>1. \A seat \in live : seat \in {log[1].actor, BigBlind}
    BY <1>2, <1>3, <1>5 DEF HandInv, FlopInv, Actors
  <2>2. live = {log[1].actor, BigBlind}
    BY <1>2, <2>1, TwoCameIn
  <2> QED
    BY <1>2, <2>2, IsolationSeatsAreTrue
<1>7. TrueSource = "isolation_raised"
  <2>1. 3 \in 1 .. 4
    OBVIOUS
  <2> QED
    BY <1>2, <1>3, <2>1, SourceIsKinds
<1> HIDE DEF line, rel
<1>8. IsTheLine(line)
  BY <1>2, <1>5, <1>6, <1>7 DEF IsTheLine
<1>9. CASE line.faced = None
  <2>1. IsolationRaisedRanges(s, rel, line, depth) = None
    BY <1>9 DEF IsolationRaisedRanges
  <2> QED
    BY <2>1 DEF Belong, line, rel
<1>10. CASE ~ (line.faced = None)
  <2> DEFINE policy == Adjusted(Pair(ISOLATION_RESPONSE, line.called, BigBlind), line.faced, depth)
             top == LimpRaiseFraction(LIMP_RESPONSE[line.called], depth)
  <2>1. IsolationRaisedRanges(s, rel, line, depth) = RangesFor(s, rel, line, top, policy)
    BY <1>10 DEF IsolationRaisedRanges
  <2>2. policy.raise \in Nat /\ policy.raise >= 1
    <3>1. Plays(Pair(ISOLATION_RESPONSE, line.called, BigBlind))
      BY <1>2, <1>4, PairsPlay
    <3>2. Adjusts(line.faced)
      BY <1>2, <1>10, SizesAdjust
    <3> QED
      BY <3>1, <3>2, PoliciesRaise
  <2> HIDE DEF policy, top
  <2>3. Belong(RangesFor(s, Role(Hero), line, top, policy))
    BY <1>8, <2>2, CutRangesBelong
  <2> QED
    BY <2>1, <2>3 DEF line, rel
<1> QED
  BY <1>9, <1>10

\* A limp, a raise, the limper's raise and a call.
LEMMA LimpReraisedBelongs ==
    ASSUME TableInv, HandInv, Decides, street # "preflop", NEW p \in Positions, NEW s, IsStreetView(s, p),
           NEW depth, Adjusts(depth), LimpReraisedPot(s, Role(Hero)) # None
    PROVE  Belong(LimpReraisedRanges(s, Role(Hero), LimpReraisedPot(s, Role(Hero)), depth))
<1> DEFINE rel == Role(Hero)
           line == LimpReraisedPot(s, rel)
<1>1. /\ s.preflop_action_history = log
      /\ DOMAIN log = 1 .. Len(log) /\ Len(log) \in Nat
      /\ \A i : /\ Actor(s, i) = log[i].actor
                /\ Amount(s, i) = log[i].amount
                /\ Calls(s, i) <=> log[i].action = "call"
                /\ Raises(s, i) <=> log[i].action = "raise"
      /\ \A i \in DOMAIN log : log[i].actor \in Dealt /\ log[i].actor \in 1 .. 6
  BY RecordIsTold
<1>2. /\ EndsInCall(s, 4) /\ log[1].action = "call" /\ log[2].action = "raise"
      /\ log[3].action = "raise" /\ log[3].actor = log[1].actor /\ log[4].actor = log[2].actor
      /\ log[1].actor < log[2].actor
      /\ ReviewedSeats(s, log[1].actor, log[2].actor) # None
      /\ line.source = "limp_reraised"
      /\ line.strong = log[1].actor /\ line.called = log[2].actor
      /\ line.committed = log[3].amount
      /\ line.hero = ReviewedSeats(s, log[1].actor, log[2].actor)[1]
      /\ line.opponent = ReviewedSeats(s, log[1].actor, log[2].actor)[2]
      /\ line.faced = BandFor(LIMP_RERAISE_SIZES, log[3].amount, log[2].amount)
  <2>1. line # None
    OBVIOUS
  <2> HIDE DEF rel
  <2> QED
    BY <1>1, <2>1 DEF LimpReraisedPot, Pot
<1>3. DOMAIN log = 1 .. 4 /\ log[4].action = "call"
  BY <1>1, <1>2 DEF EndsInCall
<1>4. log[1].actor \in 1 .. 6 /\ log[2].actor \in 1 .. 6 /\ log[1].actor # log[2].actor
  <2> HIDE DEF rel, line
  <2>1. 1 \in DOMAIN log /\ 2 \in DOMAIN log
    BY <1>3
  <2>2. log[1].actor \in 1 .. 6 /\ log[2].actor \in 1 .. 6 /\ log[1].actor < log[2].actor
    BY <1>1, <1>2, <2>1
  <2> QED
    BY <2>2
<1>5. Raised # {} /\ StrongSeat = log[3].actor /\ PreflopWager = log[3].amount
  <2>1. 4 \in 1 .. 4 /\ 3 \in 1 .. 4 /\ \A i \in 1 .. 4 : i > 3 => log[i].action = "call"
    BY <1>3
  <2> QED
    BY <1>2, <1>3, <2>1, LastRaiseIs
<1>6. /\ live = {log[1].actor, log[2].actor}
      /\ ReviewedSeats(s, log[1].actor, log[2].actor)[1] = Hero
      /\ ReviewedSeats(s, log[1].actor, log[2].actor)[2] = Opponent
  <2>1. \A seat \in live : seat \in {log[1].actor, log[2].actor}
    BY <1>2, <1>3, <1>5 DEF HandInv, FlopInv, Actors
  <2>2. live = {log[1].actor, log[2].actor}
    BY <1>4, <2>1, TwoCameIn
  <2> QED
    BY <1>2, <1>4, <2>2, ReviewedSeatsAreTrue
<1>7. TrueSource = "limp_reraised"
  <2>1. 4 \in 1 .. 4
    OBVIOUS
  <2> QED
    BY <1>2, <1>3, <2>1, SourceIsKinds
<1> HIDE DEF line, rel
<1>8. IsTheLine(line)
  BY <1>2, <1>4, <1>5, <1>6, <1>7 DEF IsTheLine
<1>9. CASE line.asked = None \/ line.faced = None
  <2>1. LimpReraisedRanges(s, rel, line, depth) = None
    BY <1>9 DEF LimpReraisedRanges
  <2> QED
    BY <2>1 DEF Belong, line, rel
<1>10. CASE ~ (line.asked = None \/ line.faced = None)
  <2> DEFINE policy == Adjusted(Pair(LIMP_RERAISE_RESPONSE, line.strong, line.called), line.faced, depth)
             top == Adjusted(Pair(ISOLATION_RESPONSE, line.strong, line.called), line.asked, depth).raise
  <2>1. LimpReraisedRanges(s, rel, line, depth) = RangesFor(s, rel, line, top, policy)
    BY <1>10 DEF LimpReraisedRanges
  <2>2. policy.raise \in Nat /\ policy.raise >= 1
    <3>1. Plays(Pair(LIMP_RERAISE_RESPONSE, line.strong, line.called))
      BY <1>2, <1>4, PairsPlay
    <3>2. Adjusts(line.faced)
      BY <1>2, <1>10, SizesAdjust
    <3> QED
      BY <3>1, <3>2, PoliciesRaise
  <2> HIDE DEF policy, top
  <2>3. Belong(RangesFor(s, Role(Hero), line, top, policy))
    BY <1>8, <2>2, CutRangesBelong
  <2> QED
    BY <2>1, <2>3 DEF line, rel
<1> QED
  BY <1>9, <1>10

-----------------------------------------------------------------------------
(***************************************************************************)
(* The choice between the lines                                            *)
(***************************************************************************)

\* The ranges for a line, if the record shows it.
CutFor(line, ranges) == IF line = None THEN None ELSE ranges

\* The ranges that are chosen are the configured ones or those of a line.
LEMMA SelectionIs ==
    ASSUME NEW s, NEW rel
    PROVE  LET depth(line) == ContextualDepth(s, rel, line)
               chosen == FirstKnown(
                 << CutFor(LimpedPot(s, rel),
                        LimpedRanges(s, rel, LimpedPot(s, rel), depth(LimpedPot(s, rel)))),
                    CutFor(IsolationRaisedPot(s, rel),
                        IsolationRaisedRanges(s, rel, IsolationRaisedPot(s, rel), depth(IsolationRaisedPot(s, rel)))),
                    CutFor(LimpReraisedPot(s, rel),
                        LimpReraisedRanges(s, rel, LimpReraisedPot(s, rel), depth(LimpReraisedPot(s, rel)))),
                    CutFor(SingleRaisedPot(s, rel),
                        SingleRaisedRanges(s, rel, SingleRaisedPot(s, rel), depth(SingleRaisedPot(s, rel)))),
                    CutFor(ThreeBetPot(s, rel),
                        ThreeBetRanges(s, rel, ThreeBetPot(s, rel), depth(ThreeBetPot(s, rel)))),
                    CutFor(ColdThreeBetPot(s, rel),
                        ColdThreeBetRanges(s, rel, ColdThreeBetPot(s, rel), depth(ColdThreeBetPot(s, rel)))),
                    CutFor(SqueezePot(s, rel),
                        SqueezeRanges(s, rel, SqueezePot(s, rel), depth(SqueezePot(s, rel)))),
                    CutFor(ColdFourBetPot(s, rel),
                        ColdFourBetRanges(s, rel, ColdFourBetPot(s, rel), depth(ColdFourBetPot(s, rel)))),
                    CutFor(FourBetPot(s, rel),
                        FourBetRanges(s, rel, FourBetPot(s, rel), depth(FourBetPot(s, rel)))) >>)
           IN SelectRanges(s, rel) =
                IF rel = None \/ s.street \notin DOMAIN StreetsBefore THEN Configured
                ELSE Known(chosen, Configured)
BY Zenon DEF SelectRanges, CutFor

\* The ranges that are chosen belong to the hand.
LEMMA SelectionBelongs ==
    ASSUME TableInv, HandInv, Decides, street # "preflop", NEW p \in Positions, NEW s, IsStreetView(s, p)
    PROVE  BelongToTheHand(SelectRanges(s, Role(Hero)))
<1> DEFINE rel == Role(Hero)
           depth(line) == ContextualDepth(s, rel, line)
           c1 == CutFor(LimpedPot(s, rel),
                    LimpedRanges(s, rel, LimpedPot(s, rel), depth(LimpedPot(s, rel))))
           c2 == CutFor(IsolationRaisedPot(s, rel),
                    IsolationRaisedRanges(s, rel, IsolationRaisedPot(s, rel), depth(IsolationRaisedPot(s, rel))))
           c3 == CutFor(LimpReraisedPot(s, rel),
                    LimpReraisedRanges(s, rel, LimpReraisedPot(s, rel), depth(LimpReraisedPot(s, rel))))
           c4 == CutFor(SingleRaisedPot(s, rel),
                    SingleRaisedRanges(s, rel, SingleRaisedPot(s, rel), depth(SingleRaisedPot(s, rel))))
           c5 == CutFor(ThreeBetPot(s, rel),
                    ThreeBetRanges(s, rel, ThreeBetPot(s, rel), depth(ThreeBetPot(s, rel))))
           c6 == CutFor(ColdThreeBetPot(s, rel),
                    ColdThreeBetRanges(s, rel, ColdThreeBetPot(s, rel), depth(ColdThreeBetPot(s, rel))))
           c7 == CutFor(SqueezePot(s, rel),
                    SqueezeRanges(s, rel, SqueezePot(s, rel), depth(SqueezePot(s, rel))))
           c8 == CutFor(ColdFourBetPot(s, rel),
                    ColdFourBetRanges(s, rel, ColdFourBetPot(s, rel), depth(ColdFourBetPot(s, rel))))
           c9 == CutFor(FourBetPot(s, rel),
                    FourBetRanges(s, rel, FourBetPot(s, rel), depth(FourBetPot(s, rel))))
           chosen == FirstKnown(<<c1, c2, c3, c4, c5, c6, c7, c8, c9>>)
<1>1. SelectRanges(s, rel) \in {Configured, Known(chosen, Configured)}
  <2>1. SelectRanges(s, rel) =
          IF rel = None \/ s.street \notin DOMAIN StreetsBefore THEN Configured
          ELSE Known(chosen, Configured)
    BY SelectionIs
  <2> HIDE DEF chosen, rel
  <2> QED
    BY <2>1
<1>2. \A line : Adjusts(depth(line))
  BY DepthsAdjust DEF ContextualDepth
<1> HIDE DEF rel, depth
<1>3. Belong(c1)
  BY <1>2, LimpedBelongs DEF CutFor, Belong, rel
<1>4. Belong(c2)
  BY <1>2, IsolationRaisedBelongs DEF CutFor, Belong, rel
<1>5. Belong(c3)
  BY <1>2, LimpReraisedBelongs DEF CutFor, Belong, rel
<1>6. Belong(c4)
  BY <1>2, SingleRaisedBelongs DEF CutFor, Belong, rel
<1>7. Belong(c5)
  BY <1>2, ThreeBetBelongs DEF CutFor, Belong, rel
<1>8. Belong(c6)
  BY <1>2, ColdThreeBetBelongs DEF CutFor, Belong, rel
<1>9. Belong(c7)
  BY <1>2, SqueezeBelongs DEF CutFor, Belong, rel
<1>10. Belong(c8)
  BY <1>2, ColdFourBetBelongs DEF CutFor, Belong, rel
<1>11. Belong(c9)
  BY <1>2, FourBetBelongs DEF CutFor, Belong, rel
<1> HIDE DEF c1, c2, c3, c4, c5, c6, c7, c8, c9
<1> DEFINE candidates == <<c1, c2, c3, c4, c5, c6, c7, c8, c9>>
<1>12. DOMAIN candidates = 1 .. 9 /\ \A i \in 1 .. 9 : Belong(candidates[i])
  <2>1. /\ DOMAIN candidates = 1 .. 9
        /\ candidates[1] = c1 /\ candidates[2] = c2 /\ candidates[3] = c3
        /\ candidates[4] = c4 /\ candidates[5] = c5 /\ candidates[6] = c6
        /\ candidates[7] = c7 /\ candidates[8] = c8 /\ candidates[9] = c9
    OBVIOUS
  <2>2. \A i \in 1 .. 9 : i \in {1, 2, 3, 4, 5, 6, 7, 8, 9}
    OBVIOUS
  <2> HIDE DEF candidates
  <2> QED
    BY <1>3, <1>4, <1>5, <1>6, <1>7, <1>8, <1>9, <1>10, <1>11, <2>1, <2>2
<1>13. chosen # None => BelongToTheHand(chosen)
  <2> SUFFICES ASSUME chosen # None PROVE BelongToTheHand(chosen)
    OBVIOUS
  <2>1. chosen = FirstKnown(candidates)
    OBVIOUS
  <2> HIDE DEF candidates, chosen
  <2>2. DOMAIN candidates \subseteq Nat
    BY <1>12
  <2>3. \E i \in DOMAIN candidates : chosen = candidates[i]
    BY <2>1, <2>2, FirstKnownAmong
  <2> QED
    BY <1>12, <2>3 DEF Belong
<1>14. BelongToTheHand(Configured)
  BY DEF BelongToTheHand, Configured, Ranges
<1> HIDE DEF chosen
<1> QED
  BY <1>1, <1>13, <1>14 DEF Known, rel

\* In a hand that has gone this way, every part of the record that is approved
\* is read as it was played.
LEMMA RangesFollowTheHandHolds ==
    ASSUME TableInv, HandInv
    PROVE  RangesFollowTheHand
<1> SUFFICES ASSUME Decides, street # "preflop", NEW s \in PostflopViews
             PROVE  ReadsTheHand(s, PostflopPositionForState(s))
  BY DEF RangesFollowTheHand
<1>1. PICK p \in Positions : IsStreetView(s, p)
  BY PostflopViewsAreViews
<1>2. PostflopPositionForState(s) \in {None, Role(Hero)}
  <2>1. s.hero_position = p[1] /\ s.opponent_position = p[2]
    BY <1>1 DEF IsStreetView
  <2> QED
    BY <2>1, PositionIsRole
<1>3. CASE PostflopPositionForState(s) = None
  <2>1. SelectRanges(s, None) = Configured
    BY SelectionIs
  <2>2. BelongToTheHand(Configured)
    BY DEF BelongToTheHand, Configured, Ranges
  <2> QED
    BY <1>3, <2>1, <2>2 DEF ReadsTheHand
<1>4. CASE PostflopPositionForState(s) = Role(Hero)
  <2>1. BelongToTheHand(SelectRanges(s, Role(Hero)))
    BY <1>1, SelectionBelongs
  <2> QED
    BY <1>4, <2>1 DEF ReadsTheHand
<1> QED
  BY <1>2, <1>3, <1>4

\* Safety: the ranges that a solve starts from are for the line that was played,
\* the first to act is out of position, the last to raise has the top of the
\* chart, and a stack is the one the two began the hand with
\* (select_postflop_ranges), whatever part of the hand a state tells.
THEOREM RangesAreTrue == Spec => []RangesFollowTheHand
<1>1. TableInv /\ HandInv => RangesFollowTheHand
  BY RangesFollowTheHandHolds
<1> QED
  BY <1>1, HandInvariant, PTL
=============================================================================
