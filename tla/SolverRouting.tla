---------------------------- MODULE SolverRouting ----------------------------
(***************************************************************************)
(* How the local solver provider reads an approved state and which engine  *)
(* it asks: app/providers/local_solver.py and app/solvers/wager_context.py.*)
(*                                                                         *)
(* The engine is the plugin postflop_solver with the range/EV fallback     *)
(* enabled.  A state is a record as in PostflopRanges, with the fields of  *)
(* the opponents' wagers.  Amounts are whole cents of a big blind, so that *)
(* the solver's rounding to cents has been done.                           *)
(***************************************************************************)
EXTENDS PostflopRanges, FiniteSetsExt

-----------------------------------------------------------------------------
\* Relative position.

\* _postflop_position: what labels and the dealer say, else the order of the
\* seats; two blinds tell nothing, for the dealer of two players is one.
PostflopPosition(hero, opponent) ==
    LET inferred ==
            {rel \in {"ip"} : hero \in {InPosition, Button} \/ opponent = OutOfPosition}
            \union
            {rel \in {"oop"} : hero = OutOfPosition \/ opponent \in {InPosition, Button}}
    IN IF inferred # {}
       THEN IF Cardinality(inferred) = 1 THEN CHOOSE rel \in inferred : TRUE ELSE None
       ELSE IF \/ hero \notin Seats \/ opponent \notin Seats
               \/ hero = opponent \/ {hero, opponent} = Blinds
       THEN None
       ELSE IF PostflopOrder[hero] > PostflopOrder[opponent] THEN "ip" ELSE "oop"

\* The position two blinds have at a table of six, if the pot that is read
\* for that position confirms it.
BlindPairPosition(s, rel, pot) ==
    IF {s.hero_position, s.opponent_position} = Blinds /\ pot # None THEN rel ELSE None

\* resolve_limp_reraised_pot_relative_position.
LimpReraisePosition(s) ==
    LET history == s.preflop_action_history
        seats == ReviewedSeats(s, Actor(s, 1), Actor(s, 2))
    IN IF Len(history) # 4 \/ Actor(s, 1) = Actor(s, 2) \/ seats = None THEN None
       ELSE IF LimpReraisedPot(s, seats[3]) = None THEN None
       ELSE seats[3]

\* _postflop_position_for_state.
PostflopPositionForState(s) ==
    LET rel == IF s.hero_position = BigBlind THEN "ip" ELSE "oop" IN
    FirstKnown(<< PostflopPosition(s.hero_position, s.opponent_position),
                  BlindPairPosition(s, rel, IsolationRaisedPot(s, rel)),
                  LimpReraisePosition(s),
                  BlindPairPosition(s, rel, SqueezePot(s, rel)),
                  BlindPairPosition(s, rel, ColdFourBetPot(s, rel)) >>)

-----------------------------------------------------------------------------
\* What the postflop solver is given.

\* Mutant: an all-in for less than a full raise is refused.
FullRaisesOnly(s, actions, i, rel) ==
    LET a == actions[i]
        put == PutIn(SubSeq(actions, 1, i - 1))
        faced == put[Other(a.actor)]
    IN a.amount - faced >= faced - put[a.actor]

\* A raise adds at least what the wager before it added, or it is the last
\* action and, where the stacks can be checked, all that its actor has.
RaiseIsFull(s, actions, i, rel) ==
    LET a == actions[i]
        put == PutIn(SubSeq(actions, 1, i - 1))
        faced == put[Other(a.actor)]
    IN \/ a.amount - faced >= faced - put[a.actor]
       \/ /\ i = Len(actions)
          /\ s.effective_stack # None =>
                0 = IF a.actor = rel THEN s.hero_stack ELSE s.opponent_stack

\* _postflop_history_unsupported_reason is None, for hero in this position.
HistoryIsSupported(s, rel) ==
    LET actions == s.postflop_action_history
        bet == Known(s.current_bet, 0)
        put == PutIn(actions)
        call == put[Other(rel)] - put[rel]
    IN /\ bet <= 0 => s.facing_action = None
       /\ IF actions = <<>> THEN bet > 0 => s.facing_action = "bet"
          ELSE /\ rel # None
               /\ s.hero_stack # None
               /\ s.hero_stack > 0
               /\ s.opponent_stack # None
               /\ Turns(actions)
               /\ \A i \in DOMAIN actions :
                    LET a == actions[i]
                        before == PutIn(SubSeq(actions, 1, i - 1))
                        own == before[a.actor]
                        faced == before[Other(a.actor)]
                    IN CASE a.action = "check" -> i = 1
                         [] a.action = "bet" -> own = faced /\ a.amount > 0
                         [] a.action = "raise" ->
                              own < faced /\ a.amount > faced /\ RaiseIsFull(s, actions, i, rel)
               /\ actions[Len(actions)].actor = Other(rel)
               /\ call >= 0
               /\ call = bet
               /\ s.facing_action = IF call > 0 THEN LastAggression(actions) ELSE None
               /\ s.pot_size # None => s.pot_size > put.oop + put.ip
               /\ s.effective_stack # None =>
                    /\ s.effective_stack = Smaller(s.hero_stack, s.opponent_stack)
                    /\ Bigger(put.oop, put.ip) <=
                         Smaller(s.hero_stack + put[rel], s.opponent_stack + put[Other(rel)])

\* _postflop_unsupported_reason is None.
PostflopIsSupported(s) ==
    /\ s.street \in DOMAIN StreetsBefore
    /\ s.hero_cards # None
    /\ s.board_cards = CASE s.street = "flop" -> 3 [] s.street = "turn" -> 4 [] OTHER -> 5
    /\ s.players_in_hand = 2
    /\ PostflopPositionForState(s) # None
    /\ HistoryIsSupported(s, PostflopPositionForState(s))
    /\ Known(s.current_bet, 0) > 0 => s.hero_stack # None /\ s.hero_stack > 0

-----------------------------------------------------------------------------
\* Wagers: app/solvers/wager_context.py.

Recorded(s) ==
    IF s.street = "preflop" THEN s.preflop_action_history ELSE s.postflop_action_history

\* resolve_opponent_wager: the total of the wager that hero faces, or None.
OpponentWager(s) ==
    LET call == Known(s.current_bet, 0)
        recorded == Recorded(s)
        amounts == {recorded[i].amount : i \in DOMAIN recorded} \ {None}
        wagers == {amount \in amounts : amount >= call}
        text == IF s.action_context = None THEN None ELSE s.action_context.size
        open == Known(s.preflop_open_size, text)
    IN IF call <= 0 THEN 0
       ELSE IF s.opponent_wager # None THEN s.opponent_wager
       ELSE IF wagers # {} THEN Max(wagers)
       ELSE IF /\ s.street = "preflop" /\ s.facing_action = "raise"
               /\ s.hero_position \in Seats
               /\ open # None
               /\ Near(open, call + Posted[s.hero_position])
       THEN open
       ELSE IF s.street # "preflop" /\ s.facing_action = "bet" THEN call
       ELSE None

\* resolve_hero_wager.
HeroWager(s, wager) ==
    LET call == Known(s.current_bet, 0)
        history == s.preflop_action_history
        own == {i \in DOMAIN history : Actor(s, i) = s.hero_position}
    IN IF call > 0 THEN Bigger(0, wager - call)
       ELSE IF s.street # "preflop" \/ s.hero_position \notin Seats THEN 0
       ELSE Max({Posted[s.hero_position]} \union {Amount(s, i) : i \in own})

Opponents(s) == Bigger(1, Smaller(Known(s.players_in_hand, 2) - 1, 5))

\* What each of these seats has put in at most.
Commitments(s, seats) ==
    LET history == s.preflop_action_history IN
    [seat \in seats |-> Max({Amount(s, i) : i \in {j \in DOMAIN history : Actor(s, j) = seat}})]

Total(committed) ==
    SumOfSix([seat \in Seats |-> IF seat \in DOMAIN committed THEN committed[seat] ELSE 0])

\* resolve_opponent_commitment_total: what the opponents have put in on this
\* street, or None.  matched of them have put in the wager.
OpponentCommitment(s, wager, matched, heroWager) ==
    LET call == Known(s.current_bet, 0)
        opponents == Opponents(s)
        history == s.preflop_action_history
        actors == {Actor(s, i) : i \in DOMAIN history}
        all == Commitments(s, actors)
        \* Without hero's position, the one seat that put in what hero has.
        asHero == {seat \in actors : Near(all[seat], Bigger(0, wager - call))}
        others ==
            IF s.hero_position # None THEN actors \ {s.hero_position}
            ELSE IF Cardinality(actors) = opponents + 1 /\ Cardinality(asHero) = 1
            THEN actors \ asHero
            ELSE actors
        complete ==
            /\ Cardinality(others) = opponents
            /\ s.hero_position = None /\ Cardinality(actors) # opponents + 1 => Near(wager, call)
        known == Commitments(s, others)
        atWager == {seat \in others : Near(known[seat], wager)}
    IN IF s.opponent_commitment_total # None THEN s.opponent_commitment_total
       ELSE IF call <= 0
       THEN IF s.street # "preflop" THEN 0
            ELSE IF s.hero_position # None /\ Cardinality(others) = opponents THEN Total(known)
            ELSE Bigger(0, Known(s.pot_size, 0) - heroWager)
       ELSE IF /\ s.street = "preflop" /\ history # <<>>
               /\ complete
               /\ Cardinality(atWager) = matched
       THEN Total(known)
       ELSE IF matched = opponents THEN wager * opponents
       ELSE IF s.street # "preflop" /\ s.facing_action = "bet" THEN wager * matched
       ELSE None

-----------------------------------------------------------------------------
\* Routing.

\* supports_preflop_chart.
ChartSupports(s) == ResolveContext(s) # None

\* What the estimate must be told to answer a wager.
EstimateFields(s) ==
    LET players == Known(s.players_in_hand, 0)
        wager == OpponentWager(s)
        matched == IF players = 2 THEN 1 ELSE s.opponents_at_current_bet
    IN {f \in {"opponent_wager"} : wager = None}
       \union {f \in {"opponents_at_current_bet"} : players > 2}
       \union {f \in {"opponent_commitment_total"} :
                 /\ wager # None /\ matched # None
                 /\ OpponentCommitment(s, wager, matched, HeroWager(s, wager)) = None}

\* required_fields_for, of the fields only some states need.
RequiredFields(s) ==
    IF s.street = "preflop" /\ RequiresHeroStack(s) THEN {"hero_stack"}
    ELSE IF s.street = "preflop" /\ ChartSupports(s) THEN {}
    ELSE IF Known(s.current_bet, 0) <= 0 THEN {}
    ELSE EstimateFields(s)

\* missing_required_fields, of those.
MissingFields(s) == {f \in RequiredFields(s) : s[f] = None}

\* LocalSolverProvider._command.
Route(s) ==
    IF PostflopIsSupported(s) THEN "postflop_solver"
    ELSE IF ChartSupports(s) THEN "chart"
    ELSE "local_ev"
=============================================================================
