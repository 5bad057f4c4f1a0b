---------------------------- MODULE RangeEstimate ----------------------------
(***************************************************************************)
(* The range/EV estimate: app/solvers/ev_solver_cli.py.  Modelled are the  *)
(* input it refuses, the sizes it tries and the pots it expects; equities, *)
(* fold equity and the choice between the candidates are left out.  Sizes  *)
(* are chips that hero adds; a tie of their rounding is rounded up.        *)
(***************************************************************************)
EXTENDS SolverRouting

\* Mutant: a single opponent at the wager must be told of too.
AtBetToldOnly(s) ==
    IF Known(s.current_bet, 0) <= 0 THEN 0 ELSE s.opponents_at_current_bet

\* ev_solver_cli: the opponents at the wager, or None where it must be told.
OpponentsAtCurrentBet(s) ==
    IF Known(s.current_bet, 0) <= 0 THEN 0
    ELSE IF Opponents(s) = 1 THEN 1
    ELSE IF s.opponents_at_current_bet = None THEN None
    ELSE Bigger(1, Smaller(s.opponents_at_current_bet, Opponents(s)))

\* solve: the estimate raises no SolverInputError.
EstimateAccepts(s) ==
    LET matched == OpponentsAtCurrentBet(s)
        wager == OpponentWager(s)
    IN /\ matched # None
       /\ wager # None
       /\ OpponentCommitment(s, wager, matched, HeroWager(s, wager)) # None

-----------------------------------------------------------------------------
\* The candidates.

\* A stack of nothing is taken for one that is not known.
EffectiveStack(s) ==
    IF Known(s.effective_stack, 0) # 0 THEN s.effective_stack
    ELSE Bigger(2000, 8 * Known(s.pot_size, 0))

\* These hundredths of an amount.
Part(hundredths, amount) == (hundredths * amount + 50) \div 100

\* _bet_sizes and _raise_sizes: what hero may add to the pot.
Sizes(s) ==
    LET bet == Known(s.current_bet, 0)
        pot == Known(s.pot_size, 0)
        targets ==
            IF bet > 0 THEN {Bigger(Part(270, bet), Part(65, pot)), Bigger(Part(340, bet), Part(90, pot))}
            ELSE IF s.street = "preflop" THEN {Bigger(250, Part(65, pot)), Bigger(300, Part(90, pot))}
            ELSE {Bigger(100, Part(share, pot)) : share \in {50, 70, 100}}
    IN {Smaller(size, EffectiveStack(s)) : size \in targets}

\* Mutant: the callers are expected to add the whole wager.
FreshPot(s, size, callers, total, heroWager) ==
    Known(s.pot_size, 0) + size + callers * (size + heroWager)

\* _continuation_branches: the pot when this many opponents call a size, given
\* what all of them and hero have in; of that, the callers have their share.
BranchPot(s, size, callers, total, heroWager) ==
    Known(s.pot_size, 0) + size + callers * (size + heroWager)
        - (total * callers) \div Opponents(s)
=============================================================================
