---------------------------- MODULE MCPokerStates ----------------------------
(* Small instances of PokerStates for TLC. *)
EXTENDS PokerStates

Even(seats, amount) == [seat \in seats |-> amount]

\* A table of six, of which utg and cutoff do not come in, with a short and a
\* medium stack, and a duel.
MCProfiles ==
    {[Even({2, 4, 5, 6}, 10000) EXCEPT ![Button] = 1200, ![BigBlind] = 2500],
     [Even(Blinds, 6000) EXCEPT ![SmallBlind] = 1700]}
MCMultiples == {20, 30}
MCHands == {<<14, 14, FALSE>>, <<10, 9, TRUE>>, <<7, 2, FALSE>>}

\* Short stacks and large reraises.
ShortProfiles == {Even(Seats, 1500)}
ShortMultiples == {20, 32}
=============================================================================
