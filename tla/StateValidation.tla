-------------------------- MODULE StateValidation --------------------------
(***************************************************************************)
(* What a CanonicalState may hold besides the types of its fields: the     *)
(* validators of the completed streets and of the opponents' wagers in     *)
(* app/models.py.                                                          *)
(***************************************************************************)
EXTENDS SolverRouting

\* math.isclose with an absolute tolerance of 0.01.
Close(a, b) == a - b \in -1..1

\* CompletedPostflopStreetHistory: actions by turns, each allowed by the
\* wagers before it, of which the last and no other closes the street.
CompletedLineIsValid(actions) ==
    /\ Len(actions) \in 2..8
    /\ Turns(actions)
    /\ \A i \in DOMAIN actions :
        LET a == actions[i]
            put == PutIn(SubSeq(actions, 1, i - 1))
            own == put[a.actor]
            faced == put[Other(a.actor)]
            closes == \/ a.action = "call"
                      \/ a.action = "check" /\ i > 1 /\ actions[i - 1].action = "check"
        IN /\ CASE a.action = "check" -> Close(own, faced)
                [] a.action = "bet" -> Close(own, faced) /\ own <= 1
                [] a.action = "raise" -> own < faced - 1 /\ a.amount > faced + 1
                [] a.action = "call" -> own < faced - 1 /\ Close(a.amount, faced)
           /\ closes <=> i = Len(actions)

\* _validate_completed_postflop_streets: in order, and before the current one.
CompletedStreetsAreValid(s) ==
    LET done == [i \in DOMAIN s.completed_postflop_streets |->
                    s.completed_postflop_streets[i].street]
        before == IF s.street \in DOMAIN StreetsBefore THEN StreetsBefore[s.street] ELSE <<>>
    IN /\ IsPrefix(done, before)
       /\ \A i \in DOMAIN done : CompletedLineIsValid(s.completed_postflop_streets[i].actions)

\* _validate_opponents_at_current_bet and _validate_opponent_wager.
OpponentsAtBetAreValid(s) ==
    LET matched == s.opponents_at_current_bet IN
    matched # None =>
        /\ Known(s.current_bet, 0) > 0
        /\ s.players_in_hand # None
        /\ matched < s.players_in_hand

OpponentWagerIsValid(s) ==
    s.opponent_wager # None =>
        Known(s.current_bet, 0) > 0 /\ s.opponent_wager >= s.current_bet

\* The amounts on record for the current street.
RecordedAmounts(s) == {Recorded(s)[i].amount : i \in DOMAIN Recorded(s)} \ {None}

\* _validate_opponent_commitment_total ends in an error that is not its own:
\* with neither a wager nor an amount on record, max() is given one number and
\* raises a TypeError, which no caller takes for an invalid state.
CommitmentTotalFails(s) ==
    /\ s.opponent_commitment_total # None
    /\ s.pot_size # None => s.opponent_commitment_total <= s.pot_size
    /\ s.opponent_wager = None
    /\ RecordedAmounts(s) = {}

\* Mutant: what all of them could have put in is bounded by the amount to call.
CommitmentWithinCalls(s) ==
    LET total == s.opponent_commitment_total IN
    total # None /\ s.players_in_hand # None =>
        /\ ~CommitmentTotalFails(s)
        /\ total <= Known(s.current_bet, 0) * (s.players_in_hand - 1)

\* _validate_opponent_commitment_total: not above the pot, and between what
\* the opponents at the wager and what all of them could have put in.
CommitmentTotalIsValid(s) ==
    LET total == s.opponent_commitment_total
        told == s.opponent_wager # None
        known == IF told THEN {s.opponent_wager} ELSE RecordedAmounts(s)
        wager == IF told THEN s.opponent_wager ELSE Max(known \union {Known(s.current_bet, 0)})
    IN total # None =>
        /\ s.pot_size # None => total <= s.pot_size
        /\ ~CommitmentTotalFails(s)
        /\ wager > 0 =>
             /\ total >= wager * Known(s.opponents_at_current_bet, 1)
             /\ s.players_in_hand # None => total <= Max(known) * (s.players_in_hand - 1)

\* The state can be built, from what a reviewer sends or from what is stored.
StateIsValid(s) ==
    /\ CompletedStreetsAreValid(s)
    /\ OpponentsAtBetAreValid(s)
    /\ OpponentWagerIsValid(s)
    /\ CommitmentTotalIsValid(s)
=============================================================================
