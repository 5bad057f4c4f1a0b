--------------------------- MODULE PostflopRanges ---------------------------
(***************************************************************************)
(* The ranges a postflop solve starts from: app/solvers/postflop_ranges.py.*)
(*                                                                         *)
(* A record of the preflop actions that says how two players came to the   *)
(* flop gives each of them the part of the chart that plays that way; any  *)
(* other state keeps the configured ranges.  A range is the band of the    *)
(* ranking it is cut from, <<above, up to>>.  A postflop state is a record *)
(* as in PreflopContext with the fields of both stacks, of the actions of  *)
(* the street and of the streets before it.  A position is a seat or one   *)
(* of the labels below; an amount is None for a check.                     *)
(***************************************************************************)
EXTENDS PreflopChart, SequencesExt

Button == 4
InPosition == 7
OutOfPosition == 8
STANDARD_CONTEXTUAL_STACK == 10000

\* POSTFLOP_POSITION_ORDER: the blinds act first.
PostflopOrder == <<3, 4, 5, 6, 1, 2>>

\* The first of these that is not None.
FirstKnown(candidates) ==
    LET known == {i \in DOMAIN candidates : candidates[i] # None}
    IN IF known = {} THEN None ELSE candidates[Min(known)]

Other(rel) == IF rel = "ip" THEN "oop" ELSE "ip"

\* _relative_position_label.
Label(position) ==
    CASE position = InPosition -> "ip" [] position = OutOfPosition -> "oop" [] OTHER -> None

-----------------------------------------------------------------------------
\* What was put in after the flop, and what was in the pot before.

\* What the two players have in after these actions of a street.
PutIn(actions) ==
    [rel \in {"oop", "ip"} |->
        LET own == {i \in DOMAIN actions : actions[i].actor = rel /\ actions[i].amount # None}
        IN IF own = {} THEN 0 ELSE actions[Max(own)].amount]

Turns(actions) == \A i \in DOMAIN actions : actions[i].actor = IF i % 2 = 1 THEN "oop" ELSE "ip"

\* Each action is one that the wagers before it allow.
Allowed(actions) ==
    \A i \in DOMAIN actions :
        LET a == actions[i]
            put == PutIn(SubSeq(actions, 1, i - 1))
            own == put[a.actor]
            faced == put[Other(a.actor)]
        IN IF a.action = "raise"
           THEN own < faced - Tolerance /\ a.amount > faced + Tolerance
           ELSE Near(own, faced)

\* The kind of the last wager, or None.
LastAggression(actions) ==
    LET wagers == {i \in DOMAIN actions : actions[i].action # "check"}
    IN IF wagers = {} THEN None ELSE actions[Max(wagers)].action

\* _current_street_contributions: None when the record of the street does not
\* lead to hero's decision as the state shows it.
CurrentContributions(s, rel) ==
    LET actions == s.postflop_action_history
        bet == Known(s.current_bet, 0)
        put == PutIn(actions)
        call == put[Other(rel)] - put[rel]
        nextActor == IF Len(actions) % 2 = 0 THEN "oop" ELSE "ip"
    IN IF actions = <<>>
       THEN IF bet <= Tolerance
            THEN IF s.facing_action = None THEN put ELSE None
            ELSE IF s.facing_action = "bet" THEN [put EXCEPT ![Other(rel)] = bet] ELSE None
       ELSE IF /\ Turns(actions)
               /\ Allowed(actions)
               /\ nextActor = rel
               /\ call >= -Tolerance
               /\ Near(Bigger(0, call), bet)
               /\ s.facing_action = IF call > Tolerance THEN LastAggression(actions) ELSE None
            THEN put
            ELSE None

StreetsBefore == [flop |-> <<>>, turn |-> <<"flop">>, river |-> <<"flop", "turn">>]

\* _postflop_contributions: every earlier street must be on record.
PostflopContributions(s, rel) ==
    LET done == s.completed_postflop_streets
        current == CurrentContributions(s, rel)
        before(i) == PutIn(IF i \in DOMAIN done THEN done[i].actions ELSE <<>>)
    IN IF \/ s.street \notin DOMAIN StreetsBefore
          \/ [i \in DOMAIN done |-> done[i].street] # StreetsBefore[s.street]
          \/ current = None
       THEN None
       ELSE [seat \in {"oop", "ip"} |-> current[seat] + before(1)[seat] + before(2)[seat]]

\* _flop_root_pot, from what was put in after the flop.
FlopRootPot(s, put) ==
    IF s.pot_size = None \/ put = None THEN None
    ELSE IF s.pot_size - put.oop - put.ip > 0 THEN s.pot_size - put.oop - put.ip
    ELSE None

RootPotMatches(s, rel, total, replaced) ==
    PotMatches([s EXCEPT !.pot_size = FlopRootPot(s, PostflopContributions(s, rel))],
               total, replaced)

\* Mutant: what the two put in after the flop is not given back to their stacks.
StackBehind(s, rel, put, committed) ==
    IF s.effective_stack = None THEN None ELSE s.effective_stack + committed

\* _reconstructed_starting_effective_stack, from what each put in after the
\* flop and before it, or None.
StartingStack(s, rel, put, committed) ==
    LET both == s.hero_stack # None /\ s.opponent_stack # None
    IN IF \/ s.effective_stack = None
          \/ put = None
          \/ both /\ ~Near(s.effective_stack, Smaller(s.hero_stack, s.opponent_stack))
       THEN None
       ELSE IF put.oop <= Tolerance /\ put.ip <= Tolerance
       THEN s.effective_stack + committed
       ELSE IF ~both THEN None
       ELSE Smaller(s.hero_stack + put[rel], s.opponent_stack + put[Other(rel)]) + committed

-----------------------------------------------------------------------------
\* Which seats the two positions of a state mean.

\* _limped_pot_participant_positions: the limper and the big blind as
\* <<hero, opponent>>.  The dealer of two players is the small blind.
LimpedSeats(s, rel, limper) ==
    LET expected == {limper, BigBlind}
        seat(p) == IF limper = SmallBlind /\ p = Button THEN SmallBlind ELSE p
        other(p) == IF p = BigBlind THEN limper ELSE BigBlind
        hero == seat(s.hero_position)
        opponent == seat(s.opponent_position)
        seats ==
            IF hero \in expected /\ opponent \in expected \ {hero} THEN <<hero, opponent>>
            ELSE IF hero \in expected /\ Label(s.opponent_position) = Other(rel)
            THEN <<hero, other(hero)>>
            ELSE IF opponent \in expected /\ Label(s.hero_position) = rel
            THEN <<other(opponent), opponent>>
            ELSE None
    IN IF \/ seats = None
          \/ limper # SmallBlind /\ rel # IF seats[1] = BigBlind THEN "oop" ELSE "ip"
       THEN None
       ELSE seats

\* _isolation_raised_pot_participant_positions: no label may contradict the
\* order of the seats, and two labels are enough.
IsolationSeats(s, rel, limper) ==
    LET seats == LimpedSeats(s, rel, limper)
        bigBlindRel == IF limper = SmallBlind THEN "ip" ELSE "oop"
        relOf(seat) == IF seat = BigBlind THEN bigBlindRel ELSE Other(bigBlindRel)
        heroLabel == Label(s.hero_position)
        opponentLabel == Label(s.opponent_position)
    IN IF seats # None
       THEN IF /\ rel = relOf(seats[1])
               /\ heroLabel # None => heroLabel = relOf(seats[1])
               /\ opponentLabel # None => opponentLabel = relOf(seats[2])
            THEN seats
            ELSE None
       ELSE IF heroLabel # rel \/ opponentLabel # Other(rel) THEN None
       ELSE IF rel = bigBlindRel THEN <<BigBlind, limper>> ELSE <<limper, BigBlind>>

\* _reviewed_positions_for_exact_order with _ordered_postflop_positions:
\* <<hero, opponent, relative position of hero>>.
ReviewedSeats(s, a, b) ==
    LET dealer == {a, b} = Blinds /\ Button \in {s.hero_position, s.opponent_position}
        oop == IF dealer THEN BigBlind
               ELSE IF PostflopOrder[a] < PostflopOrder[b] THEN a ELSE b
        ip == IF dealer THEN SmallBlind
              ELSE IF PostflopOrder[a] < PostflopOrder[b] THEN b ELSE a
        seat(p) == CASE p = OutOfPosition -> oop [] p = InPosition -> ip
                     [] dealer /\ p = Button -> SmallBlind [] OTHER -> p
        hero == seat(s.hero_position)
        opponent == seat(s.opponent_position)
    IN IF hero \in {a, b} /\ opponent \in {a, b} \ {hero}
       THEN <<hero, opponent, IF hero = oop THEN "oop" ELSE "ip">>
       ELSE None

-----------------------------------------------------------------------------
\* The nine lines two players can have come to the flop by.

\* A line: the seat that showed the most strength, the seat that went along,
\* what each of them had in at the flop, hero and opponent, and the band of
\* the sizes that the two were asked to answer.
Pot(source, strong, called, committed, seats) ==
    [source |-> source, strong |-> strong, called |-> called, committed |-> committed,
     hero |-> seats[1], opponent |-> seats[2], folded |-> None,
     asked |-> None, faced |-> None]

\* Two players, this many recorded actions, the last one a call of the raise before it.
EndsInCall(s, n) ==
    /\ s.players_in_hand = 2
    /\ Len(s.preflop_action_history) = n
    /\ Calls(s, n)
    /\ Near(Amount(s, n), Amount(s, n - 1))

AreTheSeats(s, a, b) == a # b /\ {s.hero_position, s.opponent_position} = {a, b}
SeatsOf(s) == <<s.hero_position, s.opponent_position>>

\* The first action is an open of a supported size that the opener fields confirm.
OpensTheHand(s) ==
    Raises(s, 1) /\ Amount(s, 1) \in SingleOpenSizes /\ OpenerFieldsAgree(s)

LimpedPot(s, rel) ==
    LET limper == Actor(s, 1)
        seats == LimpedSeats(s, rel, limper)
    IN IF /\ s.players_in_hand = 2
          /\ Len(s.preflop_action_history) = 1
          /\ Calls(s, 1) /\ Near(Amount(s, 1), 100)
          /\ s.preflop_opener_position = None
          /\ s.preflop_open_size = None
          /\ limper # BigBlind
          /\ seats # None
          /\ RootPotMatches(s, rel, Amount(s, 1), Posted[limper])
       THEN Pot("limped", limper, BigBlind, Amount(s, 1), seats)
       ELSE None

SingleRaisedPot(s, rel) ==
    LET opener == Actor(s, 1) caller == Actor(s, 2) IN
    IF /\ EndsInCall(s, 2)
       /\ OpensTheHand(s)
       /\ AreTheSeats(s, opener, caller)
       /\ RootPotMatches(s, rel, Amount(s, 1) + Amount(s, 2), Posted[opener] + Posted[caller])
    THEN [Pot("single_raised", opener, caller, Amount(s, 1), SeatsOf(s)) EXCEPT
             !.faced = BandFor(OPEN_SIZES, Amount(s, 1), 100)]
    ELSE None

\* _isolation_raised_pot, once the seats are known.
IsolatedBetween(s, rel, seats) ==
    LET limper == Actor(s, 1)
    IN IF /\ EndsInCall(s, 3)
          /\ Calls(s, 1) /\ Near(Amount(s, 1), 100)
          /\ Raises(s, 2) /\ Actor(s, 2) = BigBlind
          /\ Actor(s, 3) = limper
          /\ Amount(s, 2) \in IsolationSizes
          /\ limper # BigBlind
          /\ seats # None
          /\ RootPotMatches(s, rel, Amount(s, 3) + Amount(s, 2), Posted[limper] + 100)
       THEN [Pot("isolation_raised", BigBlind, limper, Amount(s, 2), seats) EXCEPT
                !.faced = BandFor(ISOLATION_SIZES, Amount(s, 2), 100)]
       ELSE None

IsolationRaisedPot(s, rel) == IsolatedBetween(s, rel, IsolationSeats(s, rel, Actor(s, 1)))

LimpReraisedPot(s, rel) ==
    LET limper == Actor(s, 1) isolator == Actor(s, 2)
        limp == Amount(s, 1) raise == Amount(s, 2) again == Amount(s, 3)
        seats == ReviewedSeats(s, limper, isolator)
    IN IF /\ EndsInCall(s, 4)
          /\ Calls(s, 1) /\ Near(limp, 100)
          /\ Raises(s, 2) /\ raise \in IsolationSizes
          /\ Raises(s, 3) /\ Actor(s, 3) = limper
          /\ Actor(s, 4) = isolator
          /\ limper < isolator
          /\ again + Tolerance >= raise + Bigger(100, raise - limp)
          /\ again <= 4 * raise + Tolerance
          /\ seats # None
          /\ seats[3] = rel
          /\ RootPotMatches(s, rel, again + Amount(s, 4), Posted[limper] + Posted[isolator])
       THEN [Pot("limp_reraised", limper, isolator, again, seats) EXCEPT
                !.asked = BandFor(ISOLATION_SIZES, raise, 100),
                !.faced = BandFor(LIMP_RERAISE_SIZES, again, raise)]
       ELSE None

ThreeBetPot(s, rel) ==
    LET opener == Actor(s, 1) raiser == Actor(s, 2)
        open == Amount(s, 1) three == Amount(s, 2)
    IN IF /\ EndsInCall(s, 3)
          /\ OpensTheHand(s)
          /\ Raises(s, 2)
          /\ Actor(s, 3) = opener
          /\ AreTheSeats(s, opener, raiser)
          /\ opener < raiser
          /\ three \in ThreeBetSizes(open)
          /\ RootPotMatches(s, rel, Amount(s, 3) + three, Posted[opener] + Posted[raiser])
       THEN [Pot("three_bet", raiser, opener, three, SeatsOf(s)) EXCEPT
                !.asked = BandFor(OPEN_SIZES, open, 100),
                !.faced = BandFor(THREE_BET_SIZES, three, open)]
       ELSE None

ColdThreeBetPot(s, rel) ==
    LET opener == Actor(s, 1) raiser == Actor(s, 2) caller == Actor(s, 3)
        open == Amount(s, 1) three == Amount(s, 2)
    IN IF /\ EndsInCall(s, 3)
          /\ OpensTheHand(s)
          /\ Raises(s, 2)
          /\ AreTheSeats(s, raiser, caller)
          /\ InOrder(<<opener, raiser, caller>>)
          /\ three \in ThreeBetSizes(open)
          /\ RootPotMatches(s, rel, open + three + Amount(s, 3),
                            Posted[opener] + Posted[raiser] + Posted[caller])
       THEN [Pot("cold_three_bet", raiser, caller, three, SeatsOf(s)) EXCEPT
                !.folded = opener,
                !.asked = BandFor(OPEN_SIZES, open, 100),
                !.faced = BandFor(THREE_BET_SIZES, three, open)]
       ELSE None

SqueezePot(s, rel) ==
    LET opener == Actor(s, 1) caller == Actor(s, 2) squeezer == Actor(s, 3)
        open == Amount(s, 1) squeeze == Amount(s, 3)
    IN IF /\ EndsInCall(s, 4)
          /\ OpensTheHand(s)
          /\ Calls(s, 2) /\ Near(Amount(s, 2), open)
          /\ Raises(s, 3)
          /\ Actor(s, 4) = caller
          /\ AreTheSeats(s, caller, squeezer)
          /\ InOrder(<<opener, caller, squeezer>>)
          /\ squeeze \in ThreeBetSizes(open)
          /\ RootPotMatches(s, rel, open + Amount(s, 4) + squeeze,
                            Posted[opener] + Posted[caller] + Posted[squeezer])
       THEN [Pot("squeeze", squeezer, caller, squeeze, SeatsOf(s)) EXCEPT
                !.folded = opener,
                !.asked = BandFor(OPEN_SIZES, open, 100),
                !.faced = BandFor(THREE_BET_SIZES, squeeze, open)]
       ELSE None

FourBetPot(s, rel) ==
    LET opener == Actor(s, 1) raiser == Actor(s, 2)
        open == Amount(s, 1) three == Amount(s, 2) four == Amount(s, 3)
    IN IF /\ EndsInCall(s, 4)
          /\ OpensTheHand(s)
          /\ Raises(s, 2) /\ Raises(s, 3)
          /\ Actor(s, 3) = opener
          /\ Actor(s, 4) = raiser
          /\ AreTheSeats(s, opener, raiser)
          /\ opener < raiser
          /\ three \in ThreeBetSizes(open)
          /\ IsFourBet(open, three, four)
          /\ RootPotMatches(s, rel, four + Amount(s, 4), Posted[opener] + Posted[raiser])
       THEN [Pot("four_bet", opener, raiser, four, SeatsOf(s)) EXCEPT
                !.asked = BandFor(THREE_BET_SIZES, three, open),
                !.faced = BandFor(FOUR_BET_SIZES, four, three)]
       ELSE None

ColdFourBetPot(s, rel) ==
    LET opener == Actor(s, 1) raiser == Actor(s, 2) cold == Actor(s, 3)
        open == Amount(s, 1) three == Amount(s, 2) four == Amount(s, 3)
    IN IF /\ EndsInCall(s, 4)
          /\ OpensTheHand(s)
          /\ Raises(s, 2) /\ Raises(s, 3)
          /\ Actor(s, 4) = raiser
          /\ AreTheSeats(s, raiser, cold)
          /\ InOrder(<<opener, raiser, cold>>)
          /\ three \in ThreeBetSizes(open)
          /\ IsFourBet(open, three, four)
          /\ RootPotMatches(s, rel, open + Amount(s, 4) + four,
                            Posted[opener] + Posted[raiser] + Posted[cold])
       THEN [Pot("cold_four_bet", cold, raiser, four, SeatsOf(s)) EXCEPT
                !.folded = opener,
                !.asked = BandFor(THREE_BET_SIZES, three, open),
                !.faced = BandFor(FOUR_BET_SIZES, four, three)]
       ELSE None

-----------------------------------------------------------------------------
\* The ranges for a line.

Ranges(source, oop, ip, stack) == [source |-> source, oop |-> oop, ip |-> ip, stack |-> stack]
Configured == Ranges("configured", None, None, None)
ValueError == Ranges("ValueError", None, None, None)

StackFor(s, rel, pot) ==
    StartingStack(s, rel, PostflopContributions(s, rel), pot.committed)

\* _contextual_stack_depth and policy_for_stack_depth.
ContextualDepth(s, rel, pot) ==
    DepthFor(Known(StackFor(s, rel, pot), STANDARD_CONTEXTUAL_STACK))

\* _range_for_policy_band twice and _selection_for_ranges: the strong seat
\* has the top of the ranking, the other seat what continues without raising.
RangesFor(s, rel, pot, top, policy) ==
    LET bands == [seat \in {pot.strong, pot.called} |->
                    IF seat = pot.strong THEN <<0, top>> ELSE <<policy.raise, policy.continue>>]
    IN IF \E band \in Range(bands) : ~IsBand(band[1], band[2]) THEN ValueError
       ELSE IF \E band \in Range(bands) : PlacesInBand(band[1], band[2]) = {} THEN None
       ELSE Ranges(pot.source,
                   bands[IF rel = "oop" THEN pot.hero ELSE pot.opponent],
                   bands[IF rel = "oop" THEN pot.opponent ELSE pot.hero],
                   StackFor(s, rel, pot))

LimpedRanges(s, rel, pot, depth) ==
    RangesFor(s, rel, pot, OpenFraction(pot.strong, depth),
              [continue |-> 10000,
               raise |-> LimpRaiseFraction(LIMP_RESPONSE[pot.strong], depth)])

SingleRaisedRanges(s, rel, pot, depth) ==
    IF pot.called <= pot.strong \/ pot.faced = None THEN None
    ELSE RangesFor(s, rel, pot, OpenFraction(pot.strong, depth),
                   Adjusted(Pair(DEFENSE, pot.strong, pot.called), pot.faced, depth))

IsolationRaisedRanges(s, rel, pot, depth) ==
    IF pot.faced = None THEN None
    ELSE RangesFor(s, rel, pot, LimpRaiseFraction(LIMP_RESPONSE[pot.called], depth),
                   Adjusted(Pair(ISOLATION_RESPONSE, pot.called, BigBlind), pot.faced, depth))

LimpReraisedRanges(s, rel, pot, depth) ==
    IF pot.asked = None \/ pot.faced = None THEN None
    ELSE RangesFor(s, rel, pot,
                   Adjusted(Pair(ISOLATION_RESPONSE, pot.strong, pot.called),
                            pot.asked, depth).raise,
                   Adjusted(Pair(LIMP_RERAISE_RESPONSE, pot.strong, pot.called),
                            pot.faced, depth))

ThreeBetRanges(s, rel, pot, depth) ==
    IF pot.asked = None \/ pot.faced = None THEN None
    ELSE RangesFor(s, rel, pot,
                   Adjusted(Pair(DEFENSE, pot.called, pot.strong), pot.asked, depth).raise,
                   Adjusted(Pair(THREE_BET_DEFENSE, pot.called, pot.strong), pot.faced, depth))

ColdThreeBetRanges(s, rel, pot, depth) ==
    IF pot.asked = None \/ pot.faced = None THEN None
    ELSE RangesFor(s, rel, pot,
                   Adjusted(Pair(DEFENSE, pot.folded, pot.strong), pot.asked, depth).raise,
                   Adjusted(Triple(COLD_THREE_BET_DEFENSE, pot.folded, pot.strong, pot.called),
                            pot.faced, depth))

SqueezeRanges(s, rel, pot, depth) ==
    IF pot.asked = None \/ pot.faced = None THEN None
    ELSE RangesFor(s, rel, pot,
                   AdjustedForCallers(
                       Adjusted(Pair(DEFENSE, pot.folded, pot.strong), pot.asked, depth), 1).raise,
                   Adjusted(Triple(SQUEEZE_DEFENSE, pot.folded, pot.called, pot.strong),
                            pot.faced, depth))

FourBetRanges(s, rel, pot, depth) ==
    IF pot.asked = None \/ pot.faced = None THEN None
    ELSE RangesFor(s, rel, pot,
                   Adjusted(Pair(THREE_BET_DEFENSE, pot.strong, pot.called),
                            pot.asked, depth).raise,
                   AdjustedFourBet(Pair(FOUR_BET_DEFENSE, pot.strong, pot.called),
                                   pot.faced, depth))

ColdFourBetRanges(s, rel, pot, depth) ==
    IF pot.asked = None \/ pot.faced = None THEN None
    ELSE RangesFor(s, rel, pot,
                   Adjusted(Triple(COLD_THREE_BET_DEFENSE, pot.folded, pot.called, pot.strong),
                            pot.asked, depth).raise,
                   AdjustedFourBet(
                       Triple(COLD_FOUR_BET_DEFENSE, pot.folded, pot.called, pot.strong),
                       pot.faced, depth))

\* select_postflop_ranges, contextual ranges enabled: the first line that the
\* record shows, else the configured ranges.
SelectRanges(s, rel) ==
    LET If(pot, ranges(_, _, _, _)) ==
            IF pot = None THEN None ELSE ranges(s, rel, pot, ContextualDepth(s, rel, pot))
    IN IF rel = None \/ s.street \notin DOMAIN StreetsBefore THEN Configured
       ELSE Known(FirstKnown(
                << If(LimpedPot(s, rel), LimpedRanges),
                   If(IsolationRaisedPot(s, rel), IsolationRaisedRanges),
                   If(LimpReraisedPot(s, rel), LimpReraisedRanges),
                   If(SingleRaisedPot(s, rel), SingleRaisedRanges),
                   If(ThreeBetPot(s, rel), ThreeBetRanges),
                   If(ColdThreeBetPot(s, rel), ColdThreeBetRanges),
                   If(SqueezePot(s, rel), SqueezeRanges),
                   If(ColdFourBetPot(s, rel), ColdFourBetRanges),
                   If(FourBetPot(s, rel), FourBetRanges) >>),
                Configured)
=============================================================================
