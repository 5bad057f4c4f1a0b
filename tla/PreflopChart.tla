---------------------------- MODULE PreflopChart ----------------------------
(***************************************************************************)
(* The preflop chart: app/solvers/preflop_chart.py, with the score of a    *)
(* starting hand from app/providers/rule_based.py.                         *)
(*                                                                         *)
(* A policy says which share of the 169 hand classes continues and which   *)
(* raises.  The tables below hold shares in thousandths, multipliers are   *)
(* in hundredths, and an adjusted share, like the place of a hand class in *)
(* the ranking, is in ten-thousandths, to which the code rounds.  The code *)
(* leaves a tie of that rounding to its floats; here it is rounded up, and *)
(* no hand class lies between the two.  Explanation, provenance and        *)
(* confidence of an advice are left out.                                   *)
(***************************************************************************)
EXTENDS PreflopContext, FiniteSets

-----------------------------------------------------------------------------
\* The ranking of the starting hands.

\* Classes of two cards: two ranks up to 14 for the ace, the higher one first,
\* and whether they are suited.
HandClasses ==
    {class \in (2..14) \X (2..14) \X BOOLEAN :
        class[1] > class[2] \/ (class[1] = class[2] /\ ~class[3])}

SumOfSix(amounts) == amounts[1] + amounts[2] + amounts[3] + amounts[4] + amounts[5] + amounts[6]

\* _starting_hand_score, in hundredths.
StartingHandScore(high, low, suited) ==
    LET gap == high - low IN
    IF gap = 0 THEN 5200 + 320 * high
    ELSE Bigger(0, 300 * high + 115 * low + SumOfSix(<<
             IF suited THEN 550 ELSE 0,
             CASE gap = 1 -> 500 [] gap = 2 -> 250
               [] gap >= 5 -> -Smaller(1000, 130 * gap) [] OTHER -> 0,
             IF high = 14 THEN 400 ELSE 0,
             IF high >= 12 /\ low >= 10 THEN 800 ELSE 0,
             IF low <= 5 /\ gap >= 5 THEN -600 ELSE 0,
             0>>))

\* _chart_score: suited wheel aces and suited connectors gain.
ChartScore(class) ==
    LET high == class[1] low == class[2] suited == class[3] IN
    StartingHandScore(high, low, suited)
        + (IF suited /\ high = 14 /\ low <= 5 THEN 1200 ELSE 0)
        + (IF suited /\ high - low <= 2 THEN 600 ELSE 0)

\* _top_fraction_for_class: the share of the classes that are as good.
TopFraction ==
    LET score == [c \in HandClasses |-> ChartScore(c)] IN
    [c \in HandClasses |->
        (2 * 10000 * Cardinality({d \in HandClasses : score[d] >= score[c]}) + 169) \div 338]

\* hand_classes_in_policy_band raises a ValueError for any other band.
IsBand(minimum, maximum) ==
    0 <= minimum /\ minimum < maximum /\ maximum <= 10000

\* The places in the ranking that it selects the hand classes of.
Places == {TopFraction[c] : c \in HandClasses}
PlacesInBand(minimum, maximum) == {place \in Places : minimum < place /\ place <= maximum}

-----------------------------------------------------------------------------
\* The tables: thousandths to continue with and to raise with, by the seats
\* named, each relative to the one before it.

OPEN == <<170, 220, 300, 450, 400, 0>>

\* (opener, hero)
DEFENSE == <<
    <<<<100, 40>>, <<120, 50>>, <<140, 50>>, <<120, 50>>, <<200, 60>>>>,
    <<<<140, 50>>, <<170, 60>>, <<140, 60>>, <<230, 70>>>>,
    <<<<220, 80>>, <<180, 80>>, <<300, 90>>>>,
    <<<<240, 100>>, <<400, 120>>>>,
    <<<<480, 130>>>> >>

\* (hero, isolation raiser)
ISOLATION_RESPONSE == <<
    <<<<120, 35>>, <<130, 40>>, <<140, 45>>, <<130, 40>>, <<150, 45>>>>,
    <<<<140, 40>>, <<150, 45>>, <<140, 40>>, <<160, 50>>>>,
    <<<<160, 50>>, <<150, 45>>, <<170, 55>>>>,
    <<<<170, 55>>, <<190, 60>>>>,
    <<<<210, 70>>>> >>

\* (original limper, hero)
LIMP_RERAISE_RESPONSE == <<
    <<<<45, 20>>, <<48, 21>>, <<50, 22>>, <<52, 23>>, <<55, 24>>>>,
    <<<<52, 23>>, <<55, 24>>, <<57, 25>>, <<60, 26>>>>,
    <<<<60, 26>>, <<63, 27>>, <<66, 28>>>>,
    <<<<70, 30>>, <<74, 32>>>>,
    <<<<80, 35>>>> >>

\* (hero, three-bettor)
THREE_BET_DEFENSE == <<
    <<<<75, 25>>, <<80, 30>>, <<85, 30>>, <<90, 35>>, <<95, 35>>>>,
    <<<<90, 35>>, <<100, 40>>, <<105, 40>>, <<110, 45>>>>,
    <<<<120, 45>>, <<130, 50>>, <<135, 50>>>>,
    <<<<160, 60>>, <<180, 65>>>>,
    <<<<200, 70>>>> >>

\* (opener, three-bettor, hero)
COLD_THREE_BET_DEFENSE == <<
    <<<<<<45, 20>>, <<45, 20>>, <<45, 20>>, <<50, 20>>>>,
      <<<<50, 20>>, <<50, 22>>, <<55, 22>>>>,
      <<<<55, 22>>, <<60, 25>>>>,
      <<<<60, 25>>>>>>,
    <<<<<<55, 22>>, <<55, 25>>, <<60, 25>>>>,
      <<<<60, 25>>, <<65, 28>>>>,
      <<<<65, 28>>>>>>,
    <<<<<<70, 30>>, <<75, 32>>>>,
      <<<<80, 35>>>>>>,
    <<<<<<90, 40>>>>>> >>

\* (opener, hero, squeezer)
SQUEEZE_DEFENSE == <<
    <<<<<<35, 16>>, <<36, 16>>, <<37, 17>>, <<38, 17>>>>,
      <<<<40, 18>>, <<41, 18>>, <<43, 19>>>>,
      <<<<45, 20>>, <<47, 21>>>>,
      <<<<50, 22>>>>>>,
    <<<<<<43, 19>>, <<44, 20>>, <<46, 21>>>>,
      <<<<50, 22>>, <<52, 23>>>>,
      <<<<55, 24>>>>>>,
    <<<<<<55, 24>>, <<58, 25>>>>,
      <<<<62, 27>>>>>>,
    <<<<<<70, 30>>>>>> >>

\* (opener, hero)
FOUR_BET_DEFENSE == <<
    <<<<30, 18>>, <<32, 20>>, <<35, 20>>, <<38, 22>>, <<40, 22>>>>,
    <<<<38, 22>>, <<42, 24>>, <<45, 25>>, <<47, 26>>>>,
    <<<<50, 28>>, <<55, 30>>, <<58, 32>>>>,
    <<<<65, 35>>, <<70, 38>>>>,
    <<<<80, 42>>>> >>

\* (opener, hero, four-bettor)
COLD_FOUR_BET_DEFENSE == <<
    <<<<<<22, 14>>, <<24, 15>>, <<25, 15>>, <<26, 16>>>>,
      <<<<27, 16>>, <<28, 17>>, <<30, 18>>>>,
      <<<<32, 19>>, <<34, 20>>>>,
      <<<<36, 21>>>>>>,
    <<<<<<30, 18>>, <<31, 19>>, <<33, 20>>>>,
      <<<<35, 21>>, <<37, 22>>>>,
      <<<<40, 24>>>>>>,
    <<<<<<40, 24>>, <<43, 26>>>>,
      <<<<47, 28>>>>>>,
    <<<<<<55, 32>>>>>> >>

\* By the limpers: one, two and three by their seats, four by the seat that
\* is missing, and all five.
LIMP_RESPONSE == <<200, 240, 280, 360, 440>>
TWO_LIMPER_RESPONSE == <<
    <<140, 150, 160, 170>>, <<160, 170, 180>>, <<190, 200>>, <<220>> >>
THREE_LIMPER_RESPONSE == <<
    << <<100, 110, 120>>, <<120, 130>>, <<140>> >>,
    << <<130, 140>>, <<150>> >>,
    << <<160>> >> >>
FOUR_LIMPER_RESPONSE == <<115, 105, 95, 85, 75>>
FIVE_LIMPER_RESPONSE == 60

Band(name, maximum, continue, raise) ==
    [name |-> name, maximum |-> maximum, continue |-> continue, raise |-> raise]

\* Sizes: of an open or isolation in hundredths of a big blind, of a reraise
\* in hundredths of the raise it answers.
OPEN_SIZES == <<
    Band("small", 225, 110, 105), Band("standard", 275, 100, 100),
    Band("large", 325, 90, 95), Band("very_large", 400, 78, 90)>>
ISOLATION_SIZES == <<
    Band("small", 300, 108, 105), Band("standard", 400, 100, 100),
    Band("large", 500, 88, 92)>>
LIMP_RERAISE_SIZES == <<
    Band("small", 225, 105, 105), Band("standard", 275, 100, 100),
    Band("large", 325, 90, 95), Band("very_large", 400, 80, 90)>>
THREE_BET_SIZES == <<
    Band("small", 275, 105, 105), Band("standard", 350, 100, 100),
    Band("large", 425, 90, 95), Band("very_large", 500, 80, 90)>>
FOUR_BET_SIZES == <<
    Band("small", 210, 105, 105), Band("standard", 250, 100, 100),
    Band("large", 300, 90, 95), Band("very_large", 350, 80, 90)>>

\* Stack depths, with the multiplier and the size of an open.
Depth(name, maximum, continue, raise, open, opening) ==
    [name |-> name, maximum |-> maximum, continue |-> continue, raise |-> raise,
     open |-> open, opening |-> opening]

STACK_DEPTHS == <<
    Depth("short", 2000, 90, 130, 90, 220), Depth("medium", 5000, 95, 115, 95, 230),
    Depth("standard", 15000, 100, 100, 100, 250), Depth("deep", None, 105, 90, 103, 250)>>

\* The adjustment for 1 to 4 callers, and the squeeze in opens.
CALLERS == <<
    [continue |-> 90, raise |-> 90, multiple |-> 4],
    [continue |-> 80, raise |-> 85, multiple |-> 5],
    [continue |-> 70, raise |-> 80, multiple |-> 6],
    [continue |-> 60, raise |-> 75, multiple |-> 7]>>

-----------------------------------------------------------------------------
\* Policies.

\* The first band that n / d, in hundredths, is not above: the policy_for
\* functions.
BandFor(bands, n, d) ==
    LET fit == {i \in DOMAIN bands :
                  bands[i].maximum = None \/ 100 * n <= bands[i].maximum * d}
    IN IF fit = {} THEN None ELSE bands[CHOOSE i \in fit : \A j \in fit : i <= j]

DepthFor(stack) == BandFor(STACK_DEPTHS, stack, 100)

Pair(table, a, b) == table[a][b - a]
Triple(table, a, b, c) == table[a][b - a][c - b]

\* A share of thousandths times two multipliers, at most `most` ten-thousandths.
Share(base, m1, m2, most) == (Smaller(most * 1000, base * m1 * m2) + 500) \div 1000

OpenFraction(seat, depth) == Share(OPEN[seat], depth.open, 100, 10000)
LimpRaiseFraction(base, depth) == Share(base, depth.raise, 100, 10000)

\* adjusted_defense_policy and adjusted_three_bet_defense_policy.
Adjusted(base, size, depth) ==
    [continue |-> Share(base[1], size.continue, depth.continue, 10000),
     raise |-> Share(base[2], size.raise, depth.raise, 10000)]

\* adjusted_four_bet_defense_policy: no more hands raise than continue.
AdjustedFourBet(base, size, depth) ==
    LET continue == Share(base[1], size.continue, depth.continue, 10000)
    IN [continue |-> continue,
        raise |-> Share(base[2], size.raise, depth.raise, continue)]

\* adjusted_caller_defense_policy.
AdjustedForCallers(policy, callers) ==
    IF callers = 0 THEN policy
    ELSE [continue |-> (policy.continue * CALLERS[callers].continue + 50) \div 100,
          raise |-> (policy.raise * CALLERS[callers].raise + 50) \div 100]

\* The policy against an open, for hero and for the seats that called it.
OpenDefense(opener, seat, open, callers, depth) ==
    AdjustedForCallers(
        Adjusted(Pair(DEFENSE, opener, seat), BandFor(OPEN_SIZES, open, 100), depth), callers)

LimpResponse(limpers) ==
    CASE Len(limpers) = 1 -> LIMP_RESPONSE[limpers[1]]
      [] Len(limpers) = 2 -> Pair(TWO_LIMPER_RESPONSE, limpers[1], limpers[2])
      [] Len(limpers) = 3 -> Triple(THREE_LIMPER_RESPONSE, limpers[1], limpers[2], limpers[3])
      [] Len(limpers) = 4 ->
            FOUR_LIMPER_RESPONSE[CHOOSE seat \in 1..5 : \A i \in 1..4 : limpers[i] # seat]
      [] Len(limpers) = 5 -> FIVE_LIMPER_RESPONSE

-----------------------------------------------------------------------------
\* The advice: an action and, for a raise, the total to raise to.

Advice(action, sizing) == [action |-> action, sizing |-> sizing]

\* Raise while the size exceeds what is faced, else continue or fold.
Respond(strength, policy, size, faced) ==
    IF size > faced /\ strength <= policy.raise THEN Advice("raise", size)
    ELSE IF strength <= policy.continue THEN Advice("call", None)
    ELSE Advice("fold", None)

\* Mutant: what hero has put in is taken for the raise faced.
MaximumTotalFaced(s, committed, faced) ==
    IF s.hero_stack = None THEN s.effective_stack + committed
    ELSE Smaller(s.hero_stack, s.effective_stack) + faced

\* The most hero can raise to: own stack, or what an opponent who made the
\* raise faced can match.
MaximumTotal(s, committed, faced) ==
    IF s.hero_stack = None THEN s.effective_stack + committed
    ELSE Smaller(s.hero_stack + committed, s.effective_stack + faced)

\* _reraise_size and the size of a 4-bet.
ReraiseSize(s, faced, multiple, most) ==
    Smaller(Bigger(multiple * faced, (11 * s.pot_size + 5) \div 10), most)
FourBetSize(s, faced, most) ==
    Smaller(Bigger((22 * faced + 5) \div 10, (9 * s.pot_size + 5) \div 10), most)

SolveFirstIn(s, context, strength, depth) ==
    IF strength <= OpenFraction(context.hero, depth)
    THEN Advice("raise", Smaller(depth.opening, s.effective_stack))
    ELSE Advice("fold", None)

\* Isolate the limpers, to 4 big blinds for one and one more for each other.
SolveLimped(s, context, strength, depth) ==
    LET most == s.effective_stack + 100
        target == Bigger(100 * (3 + Len(context.limpers)), (3 * s.pot_size + 1) \div 2)
        size == Smaller(target, most)
    IN IF size > 100 /\ strength <= LimpRaiseFraction(LimpResponse(context.limpers), depth)
       THEN Advice("raise", size)
       ELSE Advice("check", None)

SolveIsolation(s, context, strength, depth) ==
    LET faced == context.raise_size
        band == BandFor(ISOLATION_SIZES, faced, 100)
    IN IF band = None THEN None
       ELSE Respond(strength,
                    Adjusted(Pair(ISOLATION_RESPONSE, context.hero, context.aggressor), band, depth),
                    ReraiseSize(s, faced, 3, MaximumTotal(s, context.hero_prior, faced)), faced)

SolveLimpReraise(s, context, strength, depth) ==
    LET faced == context.raise_size
        band == BandFor(LIMP_RERAISE_SIZES, faced, context.isolation)
    IN IF band = None THEN None
       ELSE Respond(strength,
                    Adjusted(Pair(LIMP_RERAISE_RESPONSE, context.aggressor, context.hero),
                             band, depth),
                    FourBetSize(s, faced, MaximumTotal(s, context.isolation, faced)), faced)

\* A 3-bet of hero's open, one before hero acts, or a squeeze of hero's call.
SolveThreeBet(s, context, strength, depth) ==
    LET faced == context.raise_size
        opener == context.opener hero == context.hero raiser == context.aggressor
        band == BandFor(THREE_BET_SIZES, faced, context.open_size)
        committed ==
            CASE context.scenario = "facing_squeeze_after_call" -> context.hero_prior
              [] context.scenario = "facing_cold_three_bet" -> Posted[hero]
              [] OTHER -> context.open_size
        base ==
            CASE context.scenario = "facing_squeeze_after_call" ->
                    Triple(SQUEEZE_DEFENSE, opener, hero, raiser)
              [] context.scenario = "facing_cold_three_bet" ->
                    Triple(COLD_THREE_BET_DEFENSE, opener, raiser, hero)
              [] OTHER -> Pair(THREE_BET_DEFENSE, hero, raiser)
    IN IF band = None THEN None
       ELSE Respond(strength, Adjusted(base, band, depth),
                    FourBetSize(s, faced, MaximumTotal(s, committed, faced)), faced)

\* A 5-bet is all in.
SolveFourBet(s, context, strength, depth) ==
    LET faced == context.raise_size
        opener == context.opener hero == context.hero
        band == BandFor(FOUR_BET_SIZES, faced, context.three_bet)
        base == IF context.scenario = "facing_cold_four_bet"
                THEN Triple(COLD_FOUR_BET_DEFENSE, opener, hero, context.aggressor)
                ELSE Pair(FOUR_BET_DEFENSE, opener, hero)
    IN IF band = None THEN None
       ELSE Respond(strength, AdjustedFourBet(base, band, depth),
                    MaximumTotal(s, context.three_bet, faced), faced)

\* An open, with no caller or with up to four of them.
SolveOpen(s, context, strength, depth) ==
    LET faced == context.open_size
        callers == Len(context.callers)
        multiple == IF callers = 0 THEN 3 ELSE CALLERS[callers].multiple
        most == MaximumTotal(s, Posted[context.hero], faced)
    IN Respond(strength, OpenDefense(context.opener, context.hero, faced, callers, depth),
               ReraiseSize(s, faced, multiple, most), faced)

\* The dispatch of solve_preflop_chart on the spot.
AdviceIn(s, context) ==
    LET scenario == context.scenario
        strength == TopFraction[s.hero_cards]
        depth == DepthFor(s.effective_stack)
    IN CASE scenario = "big_blind_option" -> Advice("check", None)
         [] scenario = "first_in" -> SolveFirstIn(s, context, strength, depth)
         [] scenario = "limped_big_blind" -> SolveLimped(s, context, strength, depth)
         [] scenario = "facing_isolation_raise_after_limp" ->
               SolveIsolation(s, context, strength, depth)
         [] scenario = "facing_limp_reraise" -> SolveLimpReraise(s, context, strength, depth)
         [] scenario \in {"facing_three_bet", "facing_cold_three_bet",
                          "facing_squeeze_after_call"} ->
               SolveThreeBet(s, context, strength, depth)
         [] scenario \in {"facing_four_bet", "facing_cold_four_bet"} ->
               SolveFourBet(s, context, strength, depth)
         [] OTHER -> SolveOpen(s, context, strength, depth)

\* solve_preflop_chart: an Advice, or None when the chart does not know the spot.
SolveChart(s) ==
    LET context == ResolveContext(s)
    IN IF context = None THEN None ELSE AdviceIn(s, context)
=============================================================================
