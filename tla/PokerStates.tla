----------------------------- MODULE PokerStates -----------------------------
(***************************************************************************)
(* The approved states that a reviewer may make of the hands of PokerTable,*)
(* all true, some incomplete, and what the program must read in them.      *)
(***************************************************************************)
EXTENDS PokerTable, StateValidation, RangeEstimate

CONSTANT Hands   \* the starting hands that advice is asked for

Hero == turn
Decides == Acts /\ stack[turn] > 0
Opponent == CHOOSE seat \in live : seat # Hero

ToCall == wager - put[Hero]
Matched == Cardinality({seat \in live \ {Hero} : put[seat] = wager})
OpponentsPut == SumOfSix([seat \in Seats |-> IF seat \in live \ {Hero} THEN put[seat] ELSE 0])

\* The first and the last raise before the flop.
FirstRaise == log[Min(Raised)]
LastRaise == log[Max(Raised)]

\* An unopened pot asks hero for nothing.
AmountToCall ==
    IF street = "preflop" /\ log = <<>> THEN 0 ELSE ToCall

FacingAction ==
    IF street = "preflop" THEN IF RaisesMade > 0 THEN "raise" ELSE None
    ELSE IF ToCall > 0 THEN LastAggression(actions) ELSE None

\* What every view of the decision shows.
Shown ==
    [street |-> street,
     hero_cards |-> CHOOSE hand \in Hands : TRUE,
     board_cards |-> CASE street = "preflop" -> 0 [] street = "flop" -> 3 [] OTHER -> 4,
     pot_size |-> pot,
     current_bet |-> AmountToCall,
     hero_stack |-> stack[Hero],
     opponent_stack |-> None,
     effective_stack |-> Min({stack[seat] : seat \in live}),
     players_in_hand |-> Cardinality(live),
     opponents_at_current_bet |-> None,
     opponent_wager |-> None,
     opponent_commitment_total |-> None,
     hero_position |-> Hero,
     opponent_position |-> None,
     preflop_opener_position |-> None,
     preflop_open_size |-> None,
     preflop_action_history |-> log,
     facing_action |-> FacingAction,
     postflop_action_history |-> <<>>,
     completed_postflop_streets |-> <<>>,
     action_context |-> None]

\* The opener and the size of the open, where the pot was opened by a raise.
OpenerFields(s) ==
    IF log # <<>> /\ log[1].action = "raise"
    THEN {s, [s EXCEPT !.preflop_opener_position = log[1].actor],
          [s EXCEPT !.preflop_opener_position = log[1].actor,
                    !.preflop_open_size = log[1].amount]}
    ELSE {s}

\* Without the history: the opener, with or without the size of the open.
Unrecorded(s) ==
    IF RaisesMade = 0 THEN {[s EXCEPT !.preflop_action_history = <<>>]}
    ELSE {[s EXCEPT !.preflop_action_history = <<>>,
                    !.preflop_opener_position = FirstRaise.actor,
                    !.preflop_open_size = size] : size \in {None, FirstRaise.amount}}

PreflopViews ==
    LET recorded == OpenerFields(Shown) \union Unrecorded(Shown)
    IN recorded \union {[s EXCEPT !.hero_stack = None] : s \in recorded}

\* The names a seat goes by after the flop.
Names(seat) == {IF HeadsUp /\ seat = SmallBlind THEN Button ELSE seat,
                IF Role(seat) = "ip" THEN InPosition ELSE OutOfPosition}

\* Two labels do not tell a duel from a table of six: at a duel one of the
\* two is named by its seat.
Positions ==
    {p \in Names(Hero) \X Names(Opponent) : HeadsUp => {p[1], p[2]} \cap Seats # {}}

PostflopShown ==
    [Shown EXCEPT !.opponent_stack = stack[Opponent],
                  !.postflop_action_history = actions,
                  !.completed_postflop_streets = done]

PostflopViews ==
    UNION {
        {s, [s EXCEPT !.opponent_stack = None], [s EXCEPT !.hero_stack = None],
         [s EXCEPT !.postflop_action_history = <<>>],
         [s EXCEPT !.completed_postflop_streets = <<>>]} :
        s \in {[PostflopShown EXCEPT !.hero_position = p[1], !.opponent_position = p[2]] :
                  p \in Positions}}

-----------------------------------------------------------------------------
\* What the program must read.

\* The scenario the chart may claim for a decision, from who has come in:
\* nobody else may have, and nobody may have raised again.
ScenarioIsTrue(context) ==
    LET scenario == context.scenario
        kinds == [i \in DOMAIN log |-> log[i].action]
        by(i) == log[i].actor
    IN CASE scenario = "first_in" -> log = <<>> /\ Hero # BigBlind
         [] scenario = "big_blind_option" -> log = <<>> /\ Hero = BigBlind
         [] scenario = "limped_big_blind" ->
              RaisesMade = 0 /\ context.limpers = [i \in DOMAIN log |-> by(i)]
         [] scenario = "facing_open_raise" -> kinds = <<"raise">>
         [] scenario = "facing_open_with_callers" ->
              /\ kinds = [i \in DOMAIN log |-> IF i = 1 THEN "raise" ELSE "call"]
              /\ context.callers = Tail([i \in DOMAIN log |-> by(i)])
         [] scenario = "facing_three_bet" -> kinds = <<"raise", "raise">> /\ by(1) = Hero
         [] scenario = "facing_cold_three_bet" -> kinds = <<"raise", "raise">> /\ by(1) # Hero
         [] scenario = "facing_squeeze_after_call" -> kinds = <<"raise", "call", "raise">> /\ by(2) = Hero
         [] scenario = "facing_four_bet" ->
              kinds = <<"raise", "raise", "raise">> /\ by(2) = Hero /\ by(3) = by(1)
         [] scenario = "facing_cold_four_bet" ->
              kinds = <<"raise", "raise", "raise">> /\ by(2) = Hero /\ by(3) # by(1)
         [] scenario = "facing_isolation_raise_after_limp" -> kinds = <<"call", "raise">> /\ by(1) = Hero
         [] scenario = "facing_limp_reraise" ->
              kinds = <<"call", "raise", "raise">> /\ by(2) = Hero /\ by(3) = by(1)

\* This is the spot hero is in.
IsTheSpot(context) ==
    /\ ScenarioIsTrue(context)
    /\ context.aggressor # None =>
        /\ context.aggressor = LastRaise.actor
        /\ context.raise_size = wager
    /\ context.opener # None =>
        /\ context.opener = FirstRaise.actor
        /\ context.open_size = FirstRaise.amount
    /\ context.hero_prior # None => context.hero_prior = put[Hero]
    /\ context.three_bet # None => context.three_bet = put[Hero]
    /\ context.isolation # None => context.isolation = put[Hero]

\* Safety: whatever part of the evidence the chart is shown, the spot it
\* answers is the one hero is in: the scenario, who raised last and to what,
\* who opened and for how much, and what hero has already put in
\* (resolve_preflop_chart_context).
ContextIsTrue ==
    Decides /\ street = "preflop" =>
        \A s \in PreflopViews :
            LET context == ResolveContext(s) IN
            context # None => IsTheSpot(context)

\* The most that hero and the deepest wager of the others can come to.
HeroTotal == put[Hero] + stack[Hero]
OpponentTotal == Max({put[seat] + stack[seat] : seat \in live \ {Hero}})

\* This advice is one that the rules allow.
IsLegal(advice) ==
    /\ advice.action = "check" => ToCall = 0
    /\ advice.action \in {"call", "fold"} => ToCall > 0
    /\ advice.action = "raise" =>
        /\ advice.sizing > wager
        /\ advice.sizing <= HeroTotal
        /\ Cardinality(live) = 2 =>
            \/ advice.sizing >= wager + added
            \/ advice.sizing = HeroTotal
            \/ advice.sizing = OpponentTotal

\* Safety: the chart advises only what the rules allow: a check when nothing
\* is owed, and a raise above the wager, with chips hero has.  Against one
\* opponent it is a full raise unless one of the two is all in by it
\* (solve_preflop_chart and its sizes).
AdviceIsLegal ==
    Decides /\ street = "preflop" =>
        \A s \in PreflopViews, hand \in Hands :
            LET advice == SolveChart([s EXCEPT !.hero_cards = hand]) IN
            advice # None => IsLegal(advice)

\* The source that the betting before the flop calls for.
TrueSource ==
    LET kinds == [i \in DOMAIN log |-> log[i].action]
        by(i) == log[i].actor
    IN CASE kinds = <<"call">> -> "limped"
         [] kinds = <<"raise", "call">> -> "single_raised"
         [] kinds = <<"call", "raise", "call">> -> "isolation_raised"
         [] kinds = <<"call", "raise", "raise", "call">> -> "limp_reraised"
         [] kinds = <<"raise", "raise", "call">> ->
              IF by(3) = by(1) THEN "three_bet" ELSE "cold_three_bet"
         [] kinds = <<"raise", "call", "raise", "call">> -> "squeeze"
         [] kinds = <<"raise", "raise", "raise", "call">> ->
              IF by(3) = by(1) THEN "four_bet" ELSE "cold_four_bet"
         [] OTHER -> "none"

\* The seat whose range is cut from the top: the last to raise, or the limper.
StrongSeat == IF RaisesMade = 0 THEN log[1].actor ELSE LastRaise.actor

\* These ranges are for the line that was played, the range of the seat that
\* acts first is the one out of position, the strong seat has the top of the
\* chart, and a stack is the one the two began with.
BelongToTheHand(ranges) ==
    ranges.source \notin {"configured", "ValueError"} =>
        /\ ranges.source = TrueSource
        /\ (ranges.oop[1] = 0) <=> (StrongSeat = FirstOf(live))
        /\ (ranges.ip[1] = 0) <=> (StrongSeat # FirstOf(live))
        /\ ranges.stack # None => ranges.stack = Smaller(start[Hero], start[Opponent])

\* Read with hero in this position, the state is that of the hand.
ReadsTheHand(s, rel) ==
    /\ rel # None => rel = Role(Hero)
    /\ BelongToTheHand(SelectRanges(s, rel))

\* Safety: the ranges a solve starts from belong to the hand.  They are for
\* the line that was played, the range of the seat that acts first is given
\* as the one out of position, the seat that raised last has the top of the
\* chart and the other one what goes along without raising, and a stack depth
\* taken from the state is the one the two began the hand with
\* (select_postflop_ranges).
RangesFollowTheHand ==
    Decides /\ street # "preflop" =>
        \A s \in PostflopViews : ReadsTheHand(s, PostflopPositionForState(s))

\* Safety: a complete and true record of a street is never refused, neither
\* by the validators of a state nor by the checks before a postflop solve, an
\* all-in for less than a full raise included
\* (_postflop_history_unsupported_reason).
TrueHistoryIsAccepted ==
    Decides /\ street # "preflop" =>
        \A p \in Positions :
            LET s == [PostflopShown EXCEPT !.hero_position = p[1], !.opponent_position = p[2]]
            IN /\ StateIsValid(s)
               /\ PostflopPositionForState(s) # None =>
                    HistoryIsSupported(s, PostflopPositionForState(s))

-----------------------------------------------------------------------------
\* Wagers.

\* What a reviewer may send: the opponents' wagers, told in part, wherever
\* there is something to call.
WagersSent(s) ==
    IF AmountToCall = 0 THEN {s}
    ELSE {[s EXCEPT !.opponents_at_current_bet = told[1], !.opponent_wager = told[2],
                    !.opponent_commitment_total = told[3]] :
            told \in ({None, Matched} \ {0}) \X {None, wager} \X {None, OpponentsPut}}

\* What is stored of it: a state that the validators do not let through is not.
WagerFields(s) == {sent \in WagersSent(s) : StateIsValid(sent)}

\* After the flop the wagers do not depend on the names of the seats.
Views ==
    IF street = "preflop" THEN PreflopViews
    ELSE {PostflopShown, [PostflopShown EXCEPT !.postflop_action_history = <<>>]}

\* A reraise that is told by its open alone and asks of hero what an open of
\* that size would ask.
ReusesOpen(s) ==
    /\ s.preflop_action_history = <<>>
    /\ s.opponent_wager = None
    /\ RaisesMade > 1
    /\ s.preflop_open_size # None
    /\ Near(s.preflop_open_size, AmountToCall + Posted[Hero])

\* What the pot is once hero has added this much and everyone has called.
CalledPot(size) ==
    LET others == live \ {Hero}
    IN pot + size + Cardinality(others) * (put[Hero] + size) - OpponentsPut

\* Safety: where hero faces a wager, what the estimate takes for that wager,
\* for hero's part of it and for what all opponents have in is what they are,
\* and the pot it expects when all of them call a raise is the one there would
\* be (wager_context.py and _continuation_branches).  Left out, for there the
\* code takes the open for the wager, is a reraise told by its open alone that
\* asks of hero what the open would have asked.
WagersAreTrue ==
    Decides /\ AmountToCall > 0 =>
        \A v \in Views : \A s \in WagerFields(v) :
            LET told == OpponentWager(s)
                own == HeroWager(s, told)
                total == OpponentCommitment(s, told, Matched, own)
            IN told # None /\ ~ReusesOpen(s) =>
                /\ told = wager
                /\ own = put[Hero]
                /\ total # None =>
                     /\ total = OpponentsPut
                     /\ \A size \in Sizes(s) :
                          BranchPot(s, size, Opponents(s), total, own) = CalledPot(size)

\* Safety: the true wagers, told in whole or in part beside a record of the
\* street or none, are never refused, unless the validator of the commitments
\* fails on its own account: what all opponents have in is within the pot and
\* between the bounds that the wager sets (_validate_opponents_at_current_bet,
\* _validate_opponent_wager, _validate_opponent_commitment_total).
TrueWagersAreAccepted ==
    Decides =>
        \A v \in Views : \A s \in WagersSent(v) : CommitmentTotalFails(s) \/ StateIsValid(s)

\* The state with the true value of every field it is asked for.
Completed(s) ==
    LET truth == [hero_stack |-> stack[Hero],
                  opponents_at_current_bet |-> Matched,
                  opponent_wager |-> wager,
                  opponent_commitment_total |-> OpponentsPut]
    IN [field \in DOMAIN s |-> IF field \in MissingFields(s) THEN truth[field] ELSE s[field]]

\* Safety, which the code violates: a stored state that is sent back for the
\* fields it misses can be stored with the true values of these
\* (recommend_processing_job and required_fields_for, against
\* _validate_opponent_commitment_total).
CompletedIsAccepted ==
    Decides =>
        \A v \in Views : \A s \in WagerFields(v) : StateIsValid(Completed(s))

\* Safety: a stored state that misses none of the fields it is asked for is one
\* that the estimate answers, where the route leads there (required_fields_for
\* and the checks of ev_solver_cli agree).  Whether a state that does miss some
\* can ever be stored with them is what CompletedIsAccepted asks.
AcceptedIsSolvable ==
    Decides =>
        \A v \in Views : \A s \in WagerFields(v) :
            MissingFields(s) = {} /\ Route(s) = "local_ev" => EstimateAccepts(s)

\* Safety: every band of the ranking that a range is cut from is one
\* (hand_classes_in_policy_band: "0 <= minimum < maximum <= 1"), so that no
\* approved state makes the choice of the ranges fail.
BandsAreValid ==
    Decides /\ street # "preflop" =>
        \A s \in PostflopViews : SelectRanges(s, PostflopPositionForState(s)).source # "ValueError"
=============================================================================
