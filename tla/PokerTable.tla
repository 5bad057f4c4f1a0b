----------------------------- MODULE PokerTable -----------------------------
(***************************************************************************)
(* The game that the approved states describe: no-limit hold'em at a table *)
(* of six, or of two where the dealer is the small blind.  It is not part  *)
(* of the program; it gives the readers of a state (PreflopContext,        *)
(* PostflopRanges, SolverRouting) hands that were really played.           *)
(*                                                                         *)
(* Bounds: stacks from Profiles; raises to Multiples of the wager or all   *)
(* in, at most MaxRaises of them before the flop and one on a later        *)
(* street; at most MaxRecorded calls and raises before the flop, one more  *)
(* in a pot raised at most once; one size of bet; no street after          *)
(* LastStreet.  A hand is followed past the flop only between two players  *)
(* with chips behind.  No bet is larger than what the opponent has, and an *)
(* all-in before the flop that is less than a full raise is left out.      *)
(***************************************************************************)
EXTENDS PreflopContext, FiniteSets, FiniteSetsExt

CONSTANTS
    Profiles,      \* starting stacks, by seat; only seats in its domain play
    Multiples,     \* raises, in tenths of the wager raised
    MaxRaises,
    MaxRecorded,
    LastStreet     \* "preflop", "flop" or "turn"

\* Both blinds are dealt in, and no stack is below one and a half big blinds:
\* whoever comes in adds half a big blind to the pot or more.
ASSUME ProfilesAssumption ==
    \A p \in Profiles :
        /\ Blinds \subseteq DOMAIN p /\ DOMAIN p \subseteq Seats
        /\ \A seat \in DOMAIN p : p[seat] \in Nat /\ p[seat] >= 150

ASSUME MultiplesAssumption == Multiples \subseteq Nat

ASSUME LastStreetAssumption == LastStreet \in {"preflop", "flop", "turn"}

VARIABLES
    start,    \* the stacks the hand began with
    stack,    \* what each seat has behind
    put,      \* what each seat has put in on this street
    pot,      \* all that was put in
    live,     \* the seats that have not folded
    owes,     \* the seats that still have to act on this street
    turn,     \* the one whose turn it is, when owes is not empty
    wager,    \* what the seats have to match
    added,    \* what the last full raise added
    street,
    log,      \* calls and raises before the flop
    actions,  \* the actions of this street after the flop
    done      \* the streets after the flop that are over

vars == <<start, stack, put, pot, live, owes, turn, wager, added, street, log, actions, done>>

Dealt == DOMAIN start
HeadsUp == Dealt = Blinds

\* The order after the flop.
Place(seat) == IF HeadsUp THEN -seat ELSE (seat + 1) % 6
FirstOf(seats) == CHOOSE seat \in seats : \A other \in seats : Place(seat) <= Place(other)
Role(seat) == IF seat = FirstOf(live) THEN "oop" ELSE "ip"

\* The next of these seats after this one, before the flop.
After(seat, seats) ==
    CHOOSE next \in seats : \A other \in seats : (next - seat - 1) % 6 <= (other - seat - 1) % 6

Init ==
    /\ start \in Profiles
    /\ stack = [seat \in Dealt |-> start[seat] - Posted[seat]]
    /\ put = [seat \in Dealt |-> Posted[seat]]
    /\ pot = 150
    /\ live = Dealt
    /\ owes = Dealt
    /\ turn = Min(Dealt)
    /\ wager = 100
    /\ added = 100
    /\ street = "preflop"
    /\ log = <<>>
    /\ actions = <<>>
    /\ done = <<>>

Raised == {i \in DOMAIN log : log[i].action = "raise"}
RaisesMade == Cardinality(Raised)

\* The turn passes to the next seat that has to act.
PassTurn(seats) ==
    /\ owes' = seats
    /\ turn' = IF seats = {} THEN turn
               ELSE IF street = "preflop" THEN After(turn, seats)
               ELSE FirstOf(seats)

\* The seat whose turn it is brings what it has in to this total.
PutInTotal(total) ==
    /\ stack' = [stack EXCEPT ![turn] = @ - (total - put[turn])]
    /\ put' = [put EXCEPT ![turn] = total]
    /\ pot' = pot + total - put[turn]

Record(action, total) ==
    IF street = "preflop"
    THEN /\ log' = Append(log, [actor |-> turn, action |-> action, amount |-> total])
         /\ UNCHANGED actions
    ELSE /\ actions' = Append(actions, [actor |-> Role(turn), action |-> action, amount |-> total])
         /\ UNCHANGED log

MayRecord ==
    street = "preflop" => Len(log) < IF RaisesMade > 1 THEN MaxRecorded ELSE MaxRecorded + 1

\* Nobody is left to win the pot from, or nothing is owed.
Acts == owes # {} /\ Cardinality(live) > 1

Fold ==
    /\ Acts
    /\ street = "preflop"
    /\ put[turn] < wager
    /\ live' = live \ {turn}
    /\ PassTurn(owes \ {turn})
    /\ UNCHANGED <<start, stack, put, pot, wager, added, street, log, actions, done>>

\* A check of the big blind is not on record, one after the flop is.
Check ==
    /\ Acts
    /\ put[turn] = wager
    /\ IF street = "preflop" THEN UNCHANGED <<log, actions>> ELSE Record("check", None)
    /\ PassTurn(owes \ {turn})
    /\ UNCHANGED <<start, stack, put, pot, live, wager, added, street, done>>

Call ==
    /\ Acts
    /\ MayRecord
    /\ put[turn] < wager
    /\ LET total == Min({wager, put[turn] + stack[turn]})
       IN PutInTotal(total) /\ Record("call", total)
    /\ PassTurn(owes \ {turn})
    /\ UNCHANGED <<start, live, wager, added, street, done>>

\* What the seat may raise to: a full raise or, alone against a deeper stack
\* after the flop, all that it has.
RaiseTotals ==
    LET own == put[turn] + stack[turn]
        others == live \ {turn}
        sizes == {(m * wager) \div 10 : m \in Multiples}
        full == {total \in sizes \union {own} : total >= wager + added /\ total <= own}
    IN IF street = "preflop"
       THEN {total \in full : total < own \/ own <= 4 * wager}
       ELSE LET most == Min({put[seat] + stack[seat] : seat \in others})
            IN {total \in full \union {own} : wager < total /\ total <= most}

Raise(total) ==
    /\ Acts
    /\ MayRecord
    /\ wager > 0
    /\ IF street = "preflop" THEN RaisesMade < MaxRaises
       ELSE put[turn] < wager /\ ~\E i \in DOMAIN actions : actions[i].action = "raise"
    /\ total \in RaiseTotals
    /\ PutInTotal(total)
    /\ Record("raise", total)
    /\ wager' = total
    /\ added' = IF total - wager > added THEN total - wager ELSE added
    /\ PassTurn({seat \in live \ {turn} : stack[seat] > 0})
    /\ UNCHANGED <<start, live, street, done>>

\* Half the pot, or what the shorter of the two has.
Bet ==
    /\ Acts
    /\ street # "preflop"
    /\ wager = 0
    /\ LET total == Min({pot \div 2} \union {stack[seat] : seat \in live})
       IN /\ PutInTotal(total)
          /\ Record("bet", total)
          /\ wager' = total
          /\ added' = total
    /\ PassTurn(live \ {turn})
    /\ UNCHANGED <<start, live, street, done>>

\* Two players with chips see the next street.
NextStreet ==
    /\ owes = {}
    /\ Cardinality(live) = 2
    /\ \A seat \in live : stack[seat] > 0
    /\ street # LastStreet
    /\ street' = IF street = "preflop" THEN "flop" ELSE "turn"
    /\ done' = IF street = "preflop" THEN done
               ELSE Append(done, [street |-> street, actions |-> actions])
    /\ put' = [seat \in Dealt |-> 0]
    /\ wager' = 0
    /\ added' = 0
    /\ actions' = <<>>
    /\ owes' = live
    /\ turn' = FirstOf(live)
    /\ UNCHANGED <<start, stack, pot, live, log>>

Next == Fold \/ Check \/ Call \/ (\E total \in RaiseTotals : Raise(total)) \/ Bet \/ NextStreet

Spec == Init /\ [][Next]_vars
=============================================================================
