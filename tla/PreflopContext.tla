--------------------------- MODULE PreflopContext ---------------------------
(***************************************************************************)
(* How the preflop chart reads a spot: app/solvers/preflop_context.py.     *)
(*                                                                         *)
(* The approved state (a CanonicalState) is a record with the field names  *)
(* of the code and None for what is not known.  Money is in hundredths of  *)
(* a big blind, so that the tolerance of 0.05 BB is 5.  Seats are numbers  *)
(* in preflop order of action; normalize_position has turned names into    *)
(* them.  Of the free text in action_context only what its four readers    *)
(* find in it is kept: a record of opener and size, of whether a raise and *)
(* of whether unsupported action is told, or None for no text.             *)
(***************************************************************************)
EXTENDS Integers, Sequences, TLC

CONSTANT None

\* What is not known is no amount, no seat, no kind of action and no position.
ASSUME NoneAssumption ==
    None \notin Int /\ None \notin {"check", "call", "bet", "raise", "oop", "ip"}

Seats == 1..6   \* utg, hijack, cutoff, button, small blind, big blind
SmallBlind == 5
BigBlind == 6
Blinds == {SmallBlind, BigBlind}
Posted == <<0, 0, 0, 0, 50, 100>>

\* Mutant: the pot leaves room for a limper.
PotWithALimp == 125..275

\* MIN_ and MAX_BLIND_ONLY_POT_BB.
BlindOnlyPot == 125..175

Tolerance == 5
SingleOpenSizes == 200..400    \* MIN_ and MAX_SINGLE_OPEN_SIZE_BB
MaxIsolation == 500

Bigger(a, b) == IF a >= b THEN a ELSE b
Smaller(a, b) == IF a <= b THEN a ELSE b
Known(x, default) == IF x = None THEN default ELSE x
Near(a, b) == a - b \in -Tolerance..Tolerance

Actor(s, i) == s.preflop_action_history[i].actor
Amount(s, i) == s.preflop_action_history[i].amount
Calls(s, i) == s.preflop_action_history[i].action = "call"
Raises(s, i) == s.preflop_action_history[i].action = "raise"

\* The seats act in this order, each once.
InOrder(seats) == \A i \in 1..Len(seats) - 1 : seats[i] < seats[i + 1]

AmountToCallMatches(s, expected) ==
    s.current_bet # None /\ Near(s.current_bet, expected)

\* The pot is what these seats have put in, beside the blinds of the others.
\* total is what they put in, replaced the blinds they had posted.
PotMatches(s, total, replaced) ==
    /\ s.pot_size # None
    /\ s.pot_size - total + replaced \in 125 - Tolerance..175 + Tolerance

StackSupportsResponse(s) ==
    /\ s.hero_stack # None
    /\ s.hero_stack > 0
    /\ s.effective_stack # None
    /\ s.effective_stack <= s.hero_stack + Tolerance
    /\ Known(s.current_bet, 0) <= s.hero_stack + Tolerance

\* A PreflopChartContext with what every scenario has.
Context(scenario, hero) ==
    [scenario |-> scenario, hero |-> hero, limpers |-> <<>>, opener |-> None,
     open_size |-> None, aggressor |-> None, raise_size |-> None, callers |-> <<>>,
     hero_prior |-> None, isolation |-> None, three_bet |-> None]

FacingRaise(scenario, hero, aggressor, size) ==
    [Context(scenario, hero) EXCEPT !.aggressor = aggressor, !.raise_size = size]

FacingOpen(scenario, hero, opener, size, callers) ==
    [FacingRaise(scenario, hero, opener, size) EXCEPT
        !.opener = opener, !.open_size = size, !.callers = callers]

\* Unopened, nothing but blinds in the pot, and nobody tells of a raise.
UnopenedContext(s, hero) ==
    LET text == s.action_context IN
    IF /\ s.facing_action = None
       /\ s.preflop_opener_position = None
       /\ s.preflop_open_size = None
       /\ text = None \/ (~text.raise /\ ~text.unsupported)
       /\ Known(s.pot_size, 0) \in BlindOnlyPot
    THEN Context(IF hero = BigBlind THEN "big_blind_option" ELSE "first_in", hero)
    ELSE None

\* One open known from the opener fields, or from the text, instead of a
\* history: the amount to call and the pot must leave room for nothing else.
UnrecordedOpenContext(s, hero) ==
    LET text == s.action_context
        opener == IF s.preflop_opener_position # None THEN s.preflop_opener_position
                  ELSE IF text = None THEN None ELSE text.opener
        told == IF text = None THEN None ELSE text.size
        size == Known(s.preflop_open_size, Known(told, s.current_bet + Posted[hero]))
    IN IF /\ text # None => ~text.unsupported
          /\ opener # None /\ opener < hero
          /\ size \in SingleOpenSizes
          /\ Near(size, s.current_bet + Posted[hero])
          /\ Known(s.pot_size, 0) - s.current_bet - Posted[hero] + Posted[opener]
                \in BlindOnlyPot
       THEN FacingOpen("facing_open_raise", hero, opener, size, <<>>)
       ELSE None

\* Only limps before the big blind.
LimpedContext(s, hero) ==
    LET history == s.preflop_action_history
        limpers == [i \in 1..Len(history) |-> Actor(s, i)]
    IN IF /\ hero = BigBlind
          /\ s.facing_action = None
          /\ s.preflop_opener_position = None
          /\ s.preflop_open_size = None
          /\ Len(history) \in 1..5
          /\ s.players_in_hand = Len(history) + 1
          /\ InOrder(Append(limpers, hero))
          /\ \A i \in 1..Len(history) : Calls(s, i) /\ Near(Amount(s, i), 100)
          /\ LET in(i) == IF i <= Len(history) THEN Amount(s, i) ELSE 0
             IN PotMatches(s, in(1) + in(2) + in(3) + in(4) + in(5),
                           IF SmallBlind \in {limpers[i] : i \in DOMAIN limpers} THEN 50 ELSE 0)
       THEN [Context("limped_big_blind", hero) EXCEPT !.limpers = limpers]
       ELSE None

OpenContext(s, hero) ==
    LET opener == Actor(s, 1) open == Amount(s, 1) IN
    IF /\ opener < hero
       /\ AmountToCallMatches(s, open - Posted[hero])
       /\ PotMatches(s, open, Posted[opener])
    THEN FacingOpen("facing_open_raise", hero, opener, open, <<>>)
    ELSE None

MinimumThreeBet(open) == open + Bigger(100, open - 100)
ThreeBetSizes(open) == MinimumThreeBet(open) - Tolerance..5 * open + Tolerance

\* Hero called an open, a later seat squeezed, and the opener folded.
SqueezeContext(s, hero) ==
    LET opener == Actor(s, 1) squeezer == Actor(s, 3)
        open == Amount(s, 1) called == Amount(s, 2) squeeze == Amount(s, 3)
    IN IF /\ s.players_in_hand = 2
          /\ Actor(s, 2) = hero
          /\ InOrder(<<opener, hero, squeezer>>)
          /\ Near(called, open)
          /\ squeeze \in ThreeBetSizes(open)
          /\ AmountToCallMatches(s, squeeze - called)
          /\ StackSupportsResponse(s)
          /\ PotMatches(s, open + called + squeeze,
                        Posted[opener] + Posted[hero] + Posted[squeezer])
       THEN [FacingRaise("facing_squeeze_after_call", hero, squeezer, squeeze) EXCEPT
                !.opener = opener, !.open_size = open, !.hero_prior = called]
       ELSE None

\* An open and one to four calls before hero, who closes the action.
CallersContext(s, hero) ==
    LET history == s.preflop_action_history
        opener == Actor(s, 1) open == Amount(s, 1)
        callers == [i \in 1..Len(history) - 1 |-> Actor(s, i + 1)]
        in(i) == IF i <= Len(history) THEN Amount(s, i) ELSE 0
    IN IF /\ \A i \in 2..Len(history) : Calls(s, i) /\ Near(Amount(s, i), open)
          /\ s.players_in_hand = Len(callers) + 2
          /\ InOrder(<<opener>> \o callers \o <<hero>>)
          /\ AmountToCallMatches(s, open - Posted[hero])
          /\ PotMatches(s, in(1) + in(2) + in(3) + in(4) + in(5),
                        IF \E i \in 1..Len(history) : Actor(s, i) = SmallBlind THEN 50 ELSE 0)
       THEN FacingOpen("facing_open_with_callers", hero, opener, open, callers)
       ELSE None

IsFourBet(open, three, four) ==
    /\ four + Tolerance >= three + (three - open)
    /\ 10 * four <= 35 * three + 10 * Tolerance

\* Hero 3-bet, and the opener or a later seat 4-bet.
FourBetContext(s, hero) ==
    LET opener == Actor(s, 1) raiser == Actor(s, 3)
        open == Amount(s, 1) three == Amount(s, 2) four == Amount(s, 3)
        cold == raiser # opener
    IN IF /\ s.players_in_hand = 2
          /\ Actor(s, 2) = hero
          /\ opener < hero
          /\ Raises(s, 3)
          /\ raiser # hero
          /\ cold => hero < raiser
          /\ IsFourBet(open, three, four)
          /\ AmountToCallMatches(s, four - three)
          /\ StackSupportsResponse(s)
          /\ IF cold
             THEN PotMatches(s, open + three + four,
                             Posted[opener] + Posted[hero] + Posted[raiser])
             ELSE PotMatches(s, three + four, Posted[hero] + Posted[opener])
       THEN [FacingRaise(IF cold THEN "facing_cold_four_bet" ELSE "facing_four_bet",
                         hero, raiser, four) EXCEPT
                !.opener = opener, !.open_size = open, !.three_bet = three]
       ELSE None

\* A 3-bet against hero's open, or before hero has acted.
ThreeBetContext(s, hero) ==
    LET opener == Actor(s, 1) raiser == Actor(s, 2)
        open == Amount(s, 1) three == Amount(s, 2)
        own == opener = hero
    IN IF /\ IF own THEN hero < raiser
             ELSE s.players_in_hand = 3 /\ InOrder(<<opener, raiser, hero>>)
          /\ AmountToCallMatches(s, three - (IF own THEN open ELSE Posted[hero]))
          /\ StackSupportsResponse(s)
          /\ PotMatches(s, open + three, Posted[opener] + Posted[raiser])
       THEN [FacingRaise(IF own THEN "facing_three_bet" ELSE "facing_cold_three_bet",
                         hero, raiser, three) EXCEPT
                !.opener = opener, !.open_size = open]
       ELSE None

IsolationSizes == 200 - Tolerance..MaxIsolation + Tolerance

\* Hero limped, and a later seat raised.
IsolationContext(s, hero) ==
    LET raiser == Actor(s, 2) limp == Amount(s, 1) raise == Amount(s, 2) IN
    IF /\ s.players_in_hand = 2
       /\ Actor(s, 1) = hero
       /\ Near(limp, 100)
       /\ Raises(s, 2)
       /\ hero < raiser
       /\ raise \in IsolationSizes
       /\ AmountToCallMatches(s, raise - limp)
       /\ StackSupportsResponse(s)
       /\ PotMatches(s, limp + raise, Posted[hero] + Posted[raiser])
    THEN [FacingRaise("facing_isolation_raise_after_limp", hero, raiser, raise) EXCEPT
             !.limpers = <<hero>>, !.hero_prior = limp]
    ELSE None

\* Hero raised a limper, who raised again.
LimpReraiseContext(s, hero) ==
    LET limper == Actor(s, 1) limp == Amount(s, 1) raise == Amount(s, 2)
        again == Amount(s, 3)
    IN IF /\ s.players_in_hand = 2
          /\ limper < hero
          /\ Near(limp, 100)
          /\ Actor(s, 2) = hero /\ Raises(s, 2)
          /\ raise \in IsolationSizes
          /\ Actor(s, 3) = limper /\ Raises(s, 3)
          /\ again + Tolerance >= raise + Bigger(100, raise - limp)
          /\ again <= 4 * raise + Tolerance
          /\ AmountToCallMatches(s, again - raise)
          /\ StackSupportsResponse(s)
          /\ PotMatches(s, raise + again, Posted[hero] + Posted[limper])
       THEN [FacingRaise("facing_limp_reraise", hero, limper, again) EXCEPT
                !.limpers = <<limper>>, !.hero_prior = raise, !.isolation = raise]
       ELSE None

\* The opener fields, where they are known, agree with the history.
OpenerFieldsAgree(s) ==
    /\ s.preflop_opener_position # None => s.preflop_opener_position = Actor(s, 1)
    /\ s.preflop_open_size # None => Near(s.preflop_open_size, Amount(s, 1))

\* _structured_preflop_context and _structured_isolation_raise_context: what
\* the recorded actions that hero faces amount to.
RecordedContext(s, hero) ==
    LET n == Len(s.preflop_action_history) IN
    IF n > 5 THEN None
    ELSE IF Calls(s, 1)
    THEN CASE n = 2 -> IsolationContext(s, hero)
           [] n = 3 -> LimpReraiseContext(s, hero)
           [] OTHER -> None
    ELSE IF Amount(s, 1) \notin SingleOpenSizes \/ ~OpenerFieldsAgree(s) THEN None
    ELSE IF n = 1 THEN OpenContext(s, hero)
    ELSE IF Calls(s, 2)
    THEN IF n = 3 /\ Raises(s, 3) THEN SqueezeContext(s, hero) ELSE CallersContext(s, hero)
    ELSE IF n >= 4 \/ Amount(s, 2) \notin ThreeBetSizes(Amount(s, 1)) THEN None
    ELSE IF n = 3 THEN FourBetContext(s, hero)
    ELSE ThreeBetContext(s, hero)

\* resolve_preflop_chart_context: the one scenario the state is, or None.
ResolveContext(s) ==
    LET hero == s.hero_position
        recorded == s.preflop_action_history # <<>>
    IN IF \/ s.street # "preflop"
          \/ s.hero_cards = None
          \/ s.board_cards # 0
          \/ s.players_in_hand = None \/ s.players_in_hand \notin 2..6
          \/ s.effective_stack = None \/ s.effective_stack <= 0
          \/ hero = None
       THEN None
       ELSE IF Known(s.current_bet, 0) <= 0
       THEN IF recorded THEN LimpedContext(s, hero) ELSE UnopenedContext(s, hero)
       ELSE IF s.facing_action # "raise" THEN None
       ELSE IF recorded THEN RecordedContext(s, hero)
       ELSE UnrecordedOpenContext(s, hero)

\* requires_hero_stack_for_preflop_chart: only hero's stack is missing.
RequiresHeroStack(s) ==
    /\ s.hero_stack = None
    /\ Len(s.preflop_action_history) \in {2, 3}
    /\ LET assumed == Bigger(Bigger(Known(s.effective_stack, 0), Known(s.current_bet, 0)), 100)
           context == ResolveContext([s EXCEPT !.hero_stack = assumed])
       IN /\ context # None
          /\ context.scenario \in {"facing_three_bet", "facing_cold_three_bet",
                "facing_squeeze_after_call", "facing_isolation_raise_after_limp",
                "facing_limp_reraise", "facing_four_bet", "facing_cold_four_bet"}
=============================================================================
