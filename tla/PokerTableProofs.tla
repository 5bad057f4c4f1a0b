-------------------------- MODULE PokerTableProofs --------------------------
(***************************************************************************)
(* Proofs about the hands of PokerTable: for all sets of tables, of stacks *)
(* from one and a half big blinds, of bets and of raises, what every hand  *)
(* that is played keeps to.                                                *)
(*                                                                         *)
(* The inductive invariant TableInv has a part for each thing that the     *)
(* readers of a recorded hand count on: the pot is what the seats have     *)
(* spent (ChipsInv), the record of the calls and raises is the account of  *)
(* what each has put in (BookInv), the wager is the last raise on record   *)
(* (WagerInv), the seats come in order in the first lap (LapInv), and      *)
(* after the flop the record is one of six lines of two players            *)
(* (StreetInv). Min, Max and sums over the seats come first.               *)
(*                                                                         *)
(* HandInv adds what outlasts a street: who sees the flop came in for the  *)
(* same wager, whatever else the record says (CallsInv, AmountsInv,        *)
(* FlopInv), a street that is over is one of the five lines that end one   *)
(* (ClosedInv), and the pot and the stacks are what the record of the      *)
(* streets before this one leaves of them (StreetsInv).                    *)
(***************************************************************************)
EXTENDS PokerTable, TLAPS, FiniteSetTheorems, SequenceTheorems

-----------------------------------------------------------------------------
(***************************************************************************)
(* Least and greatest                                                      *)
(***************************************************************************)

\* A set of numbers that is not empty has its Min.
LEMMA MinIsLeast ==
    ASSUME NEW S \in SUBSET Nat, S # {}
    PROVE  Min(S) \in S /\ \A k \in S : Min(S) <= k
<1>1. PICK m \in S : \A n \in S : <<n, m>> \notin OpToRel(<, Nat)
  BY NatLessThanWellFounded, WFMin
<1>2. \A n \in S : ~ (n < m)
  BY <1>1 DEF OpToRel
<1>3. \E x \in S : \A y \in S : x =< y
  BY <1>2
<1> QED
  BY <1>3 DEF Min

\* A finite set of integers that is not empty has its Max.
LEMMA MaxIsGreatest ==
    ASSUME NEW S \in SUBSET Int, IsFiniteSet(S), S # {}
    PROVE  Max(S) \in S /\ \A k \in S : k <= Max(S)
<1> DEFINE Bad == {T \in FiniteSubsetsOf(Int) : T # {} /\ ~ \E m \in T : \A k \in T : k <= m}
<1>1. Bad = {}
  <2> SUFFICES ASSUME Bad # {} PROVE FALSE
    OBVIOUS
  <2>1. PICK T \in Bad : \A U \in Bad : <<U, T>> \notin StrictSubsetOrdering(Int)
    BY FS_StrictSubsetOrderingWellFounded, WFMin
  <2>2. T \subseteq Int /\ IsFiniteSet(T) /\ T # {} /\ ~ \E m \in T : \A k \in T : k <= m
    BY DEF FiniteSubsetsOf
  <2>3. PICK a \in T : TRUE
    BY <2>2
  <2>4. IsFiniteSet(T \ {a})
    BY <2>2, FS_RemoveElement
  <2>5. T \ {a} \in FiniteSubsetsOf(Int) /\ <<T \ {a}, T>> \in StrictSubsetOrdering(Int)
    BY <2>2, <2>3, <2>4 DEF FiniteSubsetsOf, StrictSubsetOrdering
  <2>6. T \ {a} = {} \/ \E m \in T \ {a} : \A k \in T \ {a} : k <= m
    BY <2>1, <2>5
  <2>7. CASE T \ {a} = {}
    <3>1. \A k \in T : k = a
      BY <2>7
    <3> QED
      BY <2>2, <2>3, <3>1
  <2>8. CASE \E m \in T \ {a} : \A k \in T \ {a} : k <= m
    <3>1. PICK m \in T \ {a} : \A k \in T \ {a} : k <= m
      BY <2>8
    <3>2. m \in Int /\ a \in Int
      BY <2>2, <2>3
    <3>3. CASE a <= m
      <4>1. \A k \in T : k <= m
        BY <3>1, <3>3
      <4> QED
        BY <2>2, <3>1, <4>1
    <3>4. CASE ~ (a <= m)
      <4>1. \A k \in T : k <= a
        <5> TAKE k \in T
        <5>1. k \in Int
          BY <2>2
        <5>2. k = a \/ k <= m
          BY <3>1
        <5> QED
          BY <3>2, <3>4, <5>1, <5>2
      <4> QED
        BY <2>2, <2>3, <4>1
    <3> QED
      BY <3>3, <3>4
  <2> QED
    BY <2>6, <2>7, <2>8
<1>2. S \in FiniteSubsetsOf(Int)
  BY DEF FiniteSubsetsOf
<1>3. \E m \in S : \A k \in S : k <= m
  BY <1>1, <1>2
<1>4. \E x \in S : \A y \in S : x >= y
  BY <1>3
<1> QED
  BY <1>4 DEF Max

\* The smaller of two amounts.
LEMMA MinOfTwo ==
    ASSUME NEW a \in Nat, NEW b \in Nat
    PROVE  Min({a, b}) = IF a <= b THEN a ELSE b
<1>1. {a, b} \in SUBSET Nat /\ {a, b} # {}
  OBVIOUS
<1>2. Min({a, b}) \in {a, b} /\ \A k \in {a, b} : Min({a, b}) <= k
  BY <1>1, MinIsLeast
<1> QED
  BY <1>2

-----------------------------------------------------------------------------
(***************************************************************************)
(* The turn                                                                *)
(***************************************************************************)

\* The seats are six numbers.
LEMMA SixSeats == Seats = {1, 2, 3, 4, 5, 6}
BY DEF Seats

\* The next seat is one of those that have to act; while some of them sit
\* behind, it is the first of these.
LEMMA AfterIsNext ==
    ASSUME NEW seat \in Seats, NEW seats \in SUBSET Seats, seats # {}
    PROVE  /\ After(seat, seats) \in seats
           /\ (\E other \in seats : other > seat) =>
                /\ After(seat, seats) > seat
                /\ \A other \in seats : other > seat => After(seat, seats) <= other
<1> DEFINE key(s) == (s - seat - 1) % 6
<1>1. \A s \in seats : key(s) \in Nat /\ s \in 1 .. 6
  BY DEF Seats
<1> DEFINE keys == {key(s) : s \in seats}
<1>2. keys \in SUBSET Nat /\ keys # {}
  BY <1>1
<1>3. Min(keys) \in keys /\ \A k \in keys : Min(keys) <= k
  <2> HIDE DEF keys
  <2> QED
    BY <1>2, MinIsLeast
<1>4. \E next \in seats : \A other \in seats : key(next) <= key(other)
  BY <1>3
<1>5. After(seat, seats) \in seats /\ \A other \in seats : key(After(seat, seats)) <= key(other)
  BY <1>4 DEF After
<1>6. seat \in 1 .. 6
  BY DEF Seats
<1> DEFINE next == After(seat, seats)
<1>7. ASSUME NEW other \in seats, other > seat
      PROVE  next > seat /\ next <= other
  <2>1. other \in 1 .. 6 /\ next \in 1 .. 6 /\ key(next) <= key(other)
    BY <1>1, <1>5
  <2> HIDE DEF next
  <2>2. key(other) = other - seat - 1
    BY <1>6, <1>7, <2>1
  <2>3. key(next) = IF next > seat THEN next - seat - 1 ELSE next - seat + 5
    BY <1>6, <2>1
  <2> QED
    BY <1>6, <1>7, <2>1, <2>2, <2>3
<1> QED
  BY <1>5, <1>7

\* The seat that acts first after the flop is one of those asked for, and
\* none of them has an earlier place.
LEMMA FirstOfIsFirst ==
    ASSUME NEW seats \in SUBSET Seats, seats # {}
    PROVE  /\ FirstOf(seats) \in seats
           /\ \A other \in seats : Place(FirstOf(seats)) <= Place(other)
<1> DEFINE key(s) == Place(s) + 6
<1>1. \A s \in seats : key(s) \in Nat /\ Place(s) \in Int
  BY DEF Seats, Place
<1> DEFINE keys == {key(s) : s \in seats}
<1>2. keys \in SUBSET Nat /\ keys # {}
  BY <1>1
<1>3. Min(keys) \in keys /\ \A k \in keys : Min(keys) <= k
  <2> HIDE DEF keys
  <2> QED
    BY <1>2, MinIsLeast
<1>4. PICK least \in seats : Min(keys) = key(least)
  BY <1>3
<1>5. \A other \in seats : key(least) <= key(other)
  BY <1>3, <1>4
<1>6. \A other \in seats : Place(least) <= Place(other)
  BY <1>1, <1>5
<1> QED
  BY <1>6 DEF FirstOf

-----------------------------------------------------------------------------
(***************************************************************************)
(* The invariant of the table                                              *)
(***************************************************************************)

\* What a seat has spent on the hand.
Spent(seat) == IF seat \in Dealt THEN start[seat] - stack[seat] ELSE 0

Actors == {log[i].actor : i \in DOMAIN log}

TypeInv ==
    /\ start \in Profiles
    /\ stack \in [Dealt -> Nat]
    /\ put \in [Dealt -> Nat]
    /\ pot \in Nat /\ wager \in Nat /\ added \in Nat
    /\ live \subseteq Dealt /\ owes \subseteq live
    /\ turn \in Dealt
    /\ owes # {} => turn \in owes
    /\ street \in {"preflop", "flop", "turn"}
    /\ log \in Seq([actor : Dealt, action : {"call", "raise"}, amount : Nat])

\* The pot is what the seats have spent, and nobody is above the wager.
ChipsInv ==
    /\ pot = Spent(1) + Spent(2) + Spent(3) + Spent(4) + Spent(5) + Spent(6)
    /\ pot >= 150
    /\ \A seat \in Dealt : put[seat] <= wager
    /\ street = "preflop" =>
         \A seat \in Dealt : put[seat] + stack[seat] = start[seat] /\ put[seat] >= Posted[seat]

\* The record of calls and raises is the account of what each seat has put in.
BookInv ==
    street = "preflop" =>
        /\ \A i \in DOMAIN log :
             /\ log[i].amount >= Posted[log[i].actor] + 50
             /\ log[i].amount <= put[log[i].actor]
             /\ log[i].action = "raise" => log[i].amount >= 200
        /\ \A seat \in Dealt :
             put[seat] # Posted[seat] =>
                 \E i \in DOMAIN log : log[i].actor = seat /\ log[i].amount = put[seat]

\* The wager is the last raise, whose seat is in the hand and has acted; before
\* the first raise it is the big blind.
WagerInv ==
    street = "preflop" =>
        /\ wager = 100 \/ wager >= 200
        /\ added >= 100 /\ added <= wager
        /\ wager = 100 \/ added <= wager - 100
        /\ Raised = {} =>
             /\ wager = 100 /\ added = 100
             /\ \A i \in DOMAIN log : log[i].amount = 100 /\ log[i].actor \notin owes
        /\ \A i \in Raised :
             (\A j \in Raised : j <= i) => log[i].amount = wager /\ log[i].actor \in live \ owes

\* Nobody acts twice in a row, and in the first lap of the table the seats come
\* in order: those before the turn that did not come in have folded, and those
\* behind it have not acted.
LapInv ==
    street = "preflop" =>
        /\ log # <<>> => log[Len(log)].actor \notin owes
        /\ \A i \in 1 .. Len(log) - 1 : log[i].actor # log[i + 1].actor
        /\ owes # {} =>
             \/ live \subseteq Actors
             \/ /\ \A seat \in Actors : seat < turn /\ seat \in live
                /\ \A seat \in Dealt : seat >= turn => seat \in owes
                /\ \A seat \in live : seat < turn => seat \in Actors

\* After the flop: the two that are left, in order of action, and an action.
OopSeat == FirstOf(live)
IpSeat == CHOOSE seat \in live : seat # OopSeat
Did(rel, action, amount) == [actor |-> rel, action |-> action, amount |-> amount]

NothingIn == put[OopSeat] = 0 /\ put[IpSeat] = 0 /\ wager = 0 /\ stack[OopSeat] > 0 /\ stack[IpSeat] > 0

\* One of the two has bet, and the other has nothing in.
OneBet(bettor, other) ==
    /\ turn = other /\ owes = {other}
    /\ put[bettor] = wager /\ put[other] = 0 /\ wager > 0 /\ added = wager

\* One of the two has raised what the other bet, in full or by all it had.
OneRaise(raiser, other) ==
    /\ turn = other /\ owes = {other}
    /\ put[raiser] = wager /\ put[other] > 0 /\ put[other] < wager
    /\ wager >= 2 * put[other] \/ stack[raiser] = 0

\* How the two can have come to a decision on this street.
StreetLine ==
    \/ actions = <<>> /\ turn = OopSeat /\ owes = live /\ NothingIn
    \/ actions = <<Did("oop", "check", None)>> /\ turn = IpSeat /\ owes = {IpSeat} /\ NothingIn
    \/ actions = <<Did("oop", "bet", put[OopSeat])>> /\ OneBet(OopSeat, IpSeat)
    \/ actions = <<Did("oop", "check", None), Did("ip", "bet", put[IpSeat])>> /\ OneBet(IpSeat, OopSeat)
    \/ /\ actions = <<Did("oop", "bet", put[OopSeat]), Did("ip", "raise", put[IpSeat])>>
       /\ OneRaise(IpSeat, OopSeat)
    \/ /\ actions = <<Did("oop", "check", None), Did("ip", "bet", put[IpSeat]),
                     Did("oop", "raise", put[OopSeat])>>
       /\ OneRaise(OopSeat, IpSeat)

\* After the flop two players are left, nobody has bet more than the other can
\* call, and the actions of the street are those of one of six lines.
StreetInv ==
    street # "preflop" =>
        /\ \E a, b \in Dealt : a # b /\ live = {a, b}
        /\ \A seat \in live : wager <= put[seat] + stack[seat]
        /\ pot >= put[OopSeat] + put[IpSeat] + 150
        /\ owes # {} => StreetLine

TableInv == TypeInv /\ ChipsInv /\ BookInv /\ WagerInv /\ LapInv /\ StreetInv

-----------------------------------------------------------------------------
(***************************************************************************)
(* Parts of a step                                                         *)
(***************************************************************************)

\* Who may be dealt in, and with what.
LEMMA DealtFacts ==
    ASSUME start \in Profiles
    PROVE  /\ Dealt \subseteq Seats /\ SmallBlind \in Dealt /\ BigBlind \in Dealt
           /\ \A seat \in Dealt : /\ start[seat] \in Nat
                                  /\ start[seat] >= 150
                                  /\ Posted[seat] \in {0, 50, 100}
<1>1. Dealt \subseteq Seats /\ Blinds \subseteq Dealt
      /\ \A seat \in Dealt : start[seat] \in Nat /\ start[seat] >= 150
  BY ProfilesAssumption DEF Dealt
<1>2. \A seat \in Seats : Posted[seat] \in {0, 50, 100}
  BY SixSeats DEF Posted
<1> QED
  BY <1>1, <1>2 DEF Blinds

\* What it does to the chips that the seat whose turn it is brings what it has
\* in to this total.
LEMMA StakeFacts ==
    ASSUME TypeInv, ChipsInv, start' = start, NEW total \in Nat,
           put[turn] <= total, total <= put[turn] + stack[turn], PutInTotal(total)
    PROVE  /\ stack' \in [Dealt -> Nat] /\ put' \in [Dealt -> Nat] /\ pot' \in Nat
           /\ pot' = Spent(1)' + Spent(2)' + Spent(3)' + Spent(4)' + Spent(5)' + Spent(6)'
           /\ put'[turn] = total /\ stack'[turn] = stack[turn] - (total - put[turn])
           /\ pot' = pot + total - put[turn] /\ pot' >= 150
           /\ \A seat \in Dealt \ {turn} : put'[seat] = put[seat] /\ stack'[seat] = stack[seat]
<1>1. /\ turn \in Dealt /\ stack \in [Dealt -> Nat] /\ put \in [Dealt -> Nat] /\ pot \in Nat
      /\ stack[turn] \in Nat /\ put[turn] \in Nat
  BY DEF TypeInv
<1>2. Dealt' = Dealt
  BY DEF Dealt
<1>3. stack[turn] - (total - put[turn]) \in Nat /\ pot + total - put[turn] \in Nat
  BY <1>1
<1>4. /\ stack' \in [Dealt -> Nat] /\ put' \in [Dealt -> Nat] /\ pot' \in Nat
      /\ put'[turn] = total /\ stack'[turn] = stack[turn] - (total - put[turn])
      /\ \A seat \in Dealt \ {turn} : put'[seat] = put[seat] /\ stack'[seat] = stack[seat]
  BY <1>1, <1>3 DEF PutInTotal
<1>5. \A seat \in Seats : Spent(seat) \in Int
  BY <1>1, DealtFacts DEF Spent, TypeInv
<1>6. \A seat \in Seats : Spent(seat)' = IF seat = turn THEN Spent(seat) + total - put[turn] ELSE Spent(seat)
  <2> TAKE seat \in Seats
  <2>1. CASE seat = turn
    <3>1. start[turn] \in Nat
      BY <1>1, DealtFacts DEF TypeInv
    <3> QED
      BY <1>1, <1>2, <1>4, <2>1, <3>1 DEF Spent
  <2>2. CASE seat # turn
    BY <1>2, <1>4, <2>2 DEF Spent
  <2> QED
    BY <2>1, <2>2
<1>7. turn \in {1, 2, 3, 4, 5, 6}
  BY <1>1, DealtFacts, SixSeats DEF TypeInv
<1>8. pot' = pot + total - put[turn]
  BY DEF PutInTotal
<1>9. pot' = Spent(1)' + Spent(2)' + Spent(3)' + Spent(4)' + Spent(5)' + Spent(6)'
  <2>1. \A seat \in {1, 2, 3, 4, 5, 6} :
          /\ Spent(seat) \in Int
          /\ Spent(seat)' = IF seat = turn THEN Spent(seat) + total - put[turn] ELSE Spent(seat)
    BY <1>5, <1>6, SixSeats
  <2>2. pot = Spent(1) + Spent(2) + Spent(3) + Spent(4) + Spent(5) + Spent(6)
    BY DEF ChipsInv
  <2> QED
    BY <1>1, <1>7, <1>8, <2>1, <2>2
<1>10. pot' >= 150
  BY <1>1, <1>8 DEF ChipsInv
<1> QED
  BY <1>4, <1>8, <1>9, <1>10

\* Whose turn it becomes.
LEMMA TurnFacts ==
    ASSUME TypeInv, start' = start, NEW seats \in SUBSET Dealt, PassTurn(seats)
    PROVE  /\ owes' = seats /\ turn' \in Dealt
           /\ owes' # {} => turn' \in owes'
           /\ street = "preflop" /\ (\E other \in seats : other > turn) =>
                /\ turn' > turn
                /\ \A other \in seats : other > turn => turn' <= other
<1>1. turn \in Dealt /\ Dealt \subseteq Seats /\ turn \in Seats /\ seats \in SUBSET Seats
  BY DealtFacts DEF TypeInv
<1>2. owes' = seats
  BY DEF PassTurn
<1>3. CASE seats = {}
  BY <1>1, <1>2, <1>3 DEF PassTurn
<1>4. CASE seats # {} /\ street = "preflop"
  <2>1. turn' = After(turn, seats)
    BY <1>4 DEF PassTurn
  <2> QED
    BY <1>1, <1>2, <1>4, <2>1, AfterIsNext
<1>5. CASE seats # {} /\ street # "preflop"
  <2>1. turn' = FirstOf(seats)
    BY <1>5 DEF PassTurn
  <2> QED
    BY <1>1, <1>2, <1>5, <2>1, FirstOfIsFirst
<1> QED
  BY <1>3, <1>4, <1>5

\* What a recorded action does to the log before the flop.
LEMMA RecordFacts ==
    ASSUME TypeInv, street = "preflop", NEW action \in {"call", "raise"}, NEW total \in Nat,
           Record(action, total), start' = start
    PROVE  /\ log' \in Seq([actor : Dealt, action : {"call", "raise"}, amount : Nat])
           /\ Len(log') = Len(log) + 1 /\ Len(log) \in Nat
           /\ DOMAIN log = 1 .. Len(log) /\ DOMAIN log' = 1 .. Len(log) + 1
           /\ \A i \in 1 .. Len(log) : log'[i] = log[i]
           /\ log'[Len(log) + 1] = [actor |-> turn, action |-> action, amount |-> total]
           /\ actions' = actions
<1> DEFINE entry == [actor |-> turn, action |-> action, amount |-> total]
<1> DEFINE R == [actor : Dealt, action : {"call", "raise"}, amount : Nat]
<1>1. entry \in R /\ log \in Seq(R)
  BY DEF TypeInv
<1>2. log' = Append(log, entry) /\ actions' = actions
  BY DEF Record
<1> HIDE DEF entry, R
<1>3. /\ Append(log, entry) \in Seq(R) /\ Len(Append(log, entry)) = Len(log) + 1
      /\ Len(log) \in Nat /\ DOMAIN log = 1 .. Len(log)
      /\ \A i \in 1 .. Len(log) : Append(log, entry)[i] = log[i]
      /\ Append(log, entry)[Len(log) + 1] = entry
      /\ DOMAIN Append(log, entry) = 1 .. Len(log) + 1
  BY <1>1
<1> QED
  BY <1>2, <1>3 DEF entry, R

\* The lap goes on: everyone behind the turn still has to act, and whoever has
\* just acted has come in or folded.
LEMMA LapGoesOn ==
    ASSUME TypeInv, start' = start, street = "preflop",
           \A seat \in Actors : seat < turn /\ seat \in live,
           \A seat \in live : seat < turn => seat \in Actors,
           NEW seats \in SUBSET Dealt, PassTurn(seats),
           \A seat \in Dealt : seat > turn => seat \in seats,
           live' \subseteq live, live \ {turn} \subseteq live',
           Actors \subseteq Actors', Actors' \subseteq Actors \union {turn},
           turn \in Actors' <=> turn \in live'
    PROVE  \/ live' \subseteq Actors'
           \/ /\ \A seat \in Actors' : seat < turn' /\ seat \in live'
              /\ \A seat \in Dealt : seat >= turn' => seat \in owes'
              /\ \A seat \in live' : seat < turn' => seat \in Actors'
<1>1. Dealt \subseteq 1 .. 6 /\ turn \in Dealt /\ live \subseteq Dealt
  BY DealtFacts DEF TypeInv, Seats
<1>2. owes' = seats /\ turn' \in Dealt
  BY TurnFacts
<1>3. CASE \E other \in seats : other > turn
  <2>1. turn' > turn /\ \A other \in seats : other > turn => turn' <= other
    BY <1>3, TurnFacts
  <2>2. \A seat \in Actors' : seat < turn' /\ seat \in live'
    <3> TAKE seat \in Actors'
    <3>1. turn \in 1 .. 6 /\ turn' \in 1 .. 6
      BY <1>1, <1>2
    <3>2. CASE seat = turn
      BY <2>1, <3>2
    <3>3. CASE seat # turn
      <4>1. seat \in Actors
        BY <3>3
      <4>2. seat < turn /\ seat \in live
        BY <4>1
      <4>3. seat \in 1 .. 6
        BY <1>1, <4>2
      <4> QED
        BY <2>1, <3>1, <3>3, <4>2, <4>3
    <3> QED
      BY <3>2, <3>3
  <2>3. \A seat \in Dealt : seat >= turn' => seat \in owes'
    BY <1>1, <1>2, <2>1
  <2>4. \A seat \in live' : seat < turn' => seat \in Actors'
    <3> TAKE seat \in live'
    <3>1. seat \in 1 .. 6 /\ turn \in 1 .. 6 /\ turn' \in 1 .. 6 /\ seat \in Dealt /\ seat \in live
      BY <1>1, <1>2
    <3>2. CASE seat > turn
      BY <2>1, <3>1, <3>2
    <3>3. CASE seat = turn
      BY <3>3
    <3>4. CASE seat < turn
      BY <3>1, <3>4
    <3> QED
      BY <3>1, <3>2, <3>3, <3>4
  <2> QED
    BY <2>2, <2>3, <2>4
<1>4. CASE ~ \E other \in seats : other > turn
  <2>1. \A seat \in live' : seat \in Actors'
    <3> TAKE seat \in live'
    <3>1. seat \in 1 .. 6 /\ turn \in 1 .. 6 /\ seat \in Dealt /\ seat \in live
      BY <1>1
    <3>2. ~ (seat > turn)
      BY <1>4, <3>1
    <3>3. CASE seat = turn
      BY <3>3
    <3>4. CASE seat < turn
      BY <3>1, <3>4
    <3> QED
      BY <3>1, <3>2, <3>3, <3>4
  <2> QED
    BY <2>1
<1> QED
  BY <1>3, <1>4

-----------------------------------------------------------------------------
(***************************************************************************)
(* The steps before the flop                                               *)
(***************************************************************************)

\* The entries of the log are calls and raises of seats at the table.
LEMMA LogFacts ==
    ASSUME TypeInv
    PROVE  /\ Len(log) \in Nat /\ DOMAIN log = 1 .. Len(log)
           /\ \A i \in DOMAIN log : /\ log[i].actor \in Dealt
                                    /\ log[i].action \in {"call", "raise"}
                                    /\ log[i].amount \in Nat
<1> DEFINE R == [actor : Dealt, action : {"call", "raise"}, amount : Nat]
<1>1. log \in Seq(R)
  BY DEF TypeInv
<1>2. Len(log) \in Nat /\ DOMAIN log = 1 .. Len(log) /\ \A i \in DOMAIN log : log[i] \in R
  <2> HIDE DEF R
  <2> QED
    BY <1>1
<1> QED
  BY <1>2

\* Before the first raise, and only then, the wager is the big blind.
LEMMA RaisedFacts ==
    ASSUME TableInv, street = "preflop"
    PROVE  /\ Raised = {} <=> wager = 100
           /\ wager \in Nat /\ added \in Nat
<1>1. wager \in Nat /\ added \in Nat /\ put \in [Dealt -> Nat]
  BY DEF TableInv, TypeInv
<1>2. ASSUME NEW i \in Raised PROVE wager # 100
  <2>1. i \in DOMAIN log /\ log[i].action = "raise"
    BY DEF Raised
  <2>2. log[i].actor \in Dealt /\ log[i].amount \in Nat
    BY <2>1, LogFacts DEF TableInv
  <2>3. log[i].amount >= 200 /\ log[i].amount <= put[log[i].actor]
    BY <2>1 DEF TableInv, BookInv
  <2>4. put[log[i].actor] <= wager /\ put[log[i].actor] \in Nat
    BY <1>1, <2>2 DEF TableInv, ChipsInv
  <2> QED
    BY <1>1, <2>2, <2>3, <2>4
<1>3. Raised = {} => wager = 100
  BY DEF TableInv, WagerInv
<1> QED
  BY <1>1, <1>2, <1>3

\* In the first lap the seat whose turn it is has only what it posted.
LEMMA FirstLapFacts ==
    ASSUME TableInv, street = "preflop", owes # {}, ~ (live \subseteq Actors)
    PROVE  /\ \A seat \in Actors : seat < turn /\ seat \in live
           /\ \A seat \in Dealt : seat >= turn => seat \in owes /\ put[seat] = Posted[seat]
           /\ \A seat \in live : seat < turn => seat \in Actors
<1>1. /\ \A seat \in Actors : seat < turn /\ seat \in live
      /\ \A seat \in Dealt : seat >= turn => seat \in owes
      /\ \A seat \in live : seat < turn => seat \in Actors
  BY DEF TableInv, LapInv
<1>2. ASSUME NEW seat \in Dealt, seat >= turn PROVE put[seat] = Posted[seat]
  <2>1. seat \in 1 .. 6 /\ turn \in 1 .. 6
    BY DealtFacts DEF TableInv, TypeInv, Seats
  <2>2. seat \notin Actors
    <3> HIDE DEF Actors
    <3> QED
      BY <1>1, <1>2, <2>1
  <2> QED
    BY <2>2 DEF TableInv, BookInv, Actors
<1> QED
  BY <1>1, <1>2

\* A fold leaves the record alone, and the last to raise does not fold.
LEMMA FoldKeeps ==
    ASSUME TableInv, Fold
    PROVE  TableInv'
<1>1. /\ street = "preflop" /\ owes # {} /\ turn \in owes /\ owes \subseteq live /\ live \subseteq Dealt
      /\ live' = live \ {turn} /\ PassTurn(owes \ {turn}) /\ start' = start /\ stack' = stack
      /\ put' = put /\ pot' = pot /\ wager' = wager /\ added' = added /\ street' = street
      /\ log' = log /\ TypeInv
  BY DEF Fold, Acts, TableInv, TypeInv
<1>2. Dealt' = Dealt /\ Actors' = Actors /\ Raised' = Raised /\ (\A seat : Spent(seat)' = Spent(seat))
  BY <1>1 DEF Dealt, Actors, Raised, Spent
<1>3. owes' = owes \ {turn} /\ turn' \in Dealt /\ (owes' # {} => turn' \in owes')
  <2>1. owes \ {turn} \in SUBSET Dealt
    BY <1>1
  <2> QED
    BY <1>1, <2>1, TurnFacts
<1>4. TypeInv'
  BY <1>1, <1>2, <1>3 DEF TypeInv
<1>5. ChipsInv' /\ BookInv'
  BY <1>1, <1>2 DEF TableInv, ChipsInv, BookInv
<1>6. WagerInv'
  BY <1>1, <1>2, <1>3 DEF TableInv, WagerInv
<1>7. LapInv'
  <2>1. (log # <<>> => log[Len(log)].actor \notin owes)
        /\ \A i \in 1 .. Len(log) - 1 : log[i].actor # log[i + 1].actor
    BY <1>1 DEF TableInv, LapInv
  <2>2. CASE live \subseteq Actors
    BY <1>1, <1>2, <1>3, <2>1, <2>2 DEF LapInv
  <2>3. CASE ~ (live \subseteq Actors)
    <3>1. /\ \A seat \in Actors : seat < turn /\ seat \in live
          /\ \A seat \in Dealt : seat >= turn => seat \in owes
          /\ \A seat \in live : seat < turn => seat \in Actors
      BY <1>1, <2>3, FirstLapFacts
    <3>2. turn \notin Actors
      <4>1. turn \in 1 .. 6
        BY <1>1, DealtFacts DEF TypeInv, Seats
      <4> HIDE DEF Actors
      <4> QED
        BY <3>1, <4>1
    <3>3. \A seat \in Dealt : seat > turn => seat \in owes \ {turn}
      <4> TAKE seat \in Dealt
      <4>1. seat \in 1 .. 6 /\ turn \in 1 .. 6
        BY <1>1, DealtFacts DEF TypeInv, Seats
      <4> QED
        BY <3>1, <4>1
    <3>4. owes \ {turn} \in SUBSET Dealt
      BY <1>1
    <3>5. \/ live' \subseteq Actors'
          \/ /\ \A seat \in Actors' : seat < turn' /\ seat \in live'
             /\ \A seat \in Dealt : seat >= turn' => seat \in owes'
             /\ \A seat \in live' : seat < turn' => seat \in Actors'
      <4> HIDE DEF Actors
      <4> QED
        BY <1>1, <1>2, <3>1, <3>2, <3>3, <3>4, LapGoesOn
    <3> QED
      BY <1>1, <1>2, <1>3, <2>1, <3>5 DEF LapInv
  <2> QED
    BY <2>2, <2>3
<1> QED
  BY <1>1, <1>4, <1>5, <1>6, <1>7 DEF TableInv, StreetInv

\* Before the flop only the big blind checks, in a pot that nobody raised, and
\* then nobody is left to act.
LEMMA CheckKeeps ==
    ASSUME TableInv, Check, street = "preflop"
    PROVE  TableInv'
<1>1. /\ owes # {} /\ turn \in owes /\ owes \subseteq live /\ live \subseteq Dealt
      /\ live' = live /\ PassTurn(owes \ {turn}) /\ start' = start /\ stack' = stack
      /\ put' = put /\ pot' = pot /\ wager' = wager /\ added' = added /\ street' = street
      /\ log' = log /\ TypeInv /\ put[turn] = wager
  BY DEF Check, Acts, TableInv, TypeInv
<1>2. Dealt' = Dealt /\ Actors' = Actors /\ Raised' = Raised /\ (\A seat : Spent(seat)' = Spent(seat))
  BY <1>1 DEF Dealt, Actors, Raised, Spent
<1>3. owes' = owes \ {turn} /\ turn' \in Dealt /\ (owes' # {} => turn' \in owes')
  <2>1. owes \ {turn} \in SUBSET Dealt
    BY <1>1
  <2> QED
    BY <1>1, <2>1, TurnFacts
<1>4. TypeInv'
  BY <1>1, <1>2, <1>3 DEF TypeInv
<1>5. ChipsInv' /\ BookInv'
  BY <1>1, <1>2 DEF TableInv, ChipsInv, BookInv
<1>6. WagerInv'
  BY <1>1, <1>2, <1>3 DEF TableInv, WagerInv
<1>7. LapInv'
  <2>1. (log # <<>> => log[Len(log)].actor \notin owes)
        /\ \A i \in 1 .. Len(log) - 1 : log[i].actor # log[i + 1].actor
    BY DEF TableInv, LapInv
  <2>2. CASE live \subseteq Actors
    BY <1>1, <1>2, <1>3, <2>1, <2>2 DEF LapInv
  <2>3. CASE ~ (live \subseteq Actors)
    <3>1. /\ \A seat \in Dealt : seat >= turn => put[seat] = Posted[seat]
          /\ \A seat \in live : seat < turn => seat \in Actors
      BY <1>1, <2>3, FirstLapFacts
    <3>2. turn \in 1 .. 6 /\ turn \in Dealt /\ Dealt \subseteq 1 .. 6
      BY <1>1, DealtFacts DEF TypeInv, Seats
    <3>3. wager = Posted[turn] /\ (wager = 100 \/ wager >= 200)
      BY <1>1, <3>1, <3>2 DEF TableInv, WagerInv
    <3>4. turn = 6 /\ wager = 100
      BY <3>2, <3>3 DEF Posted
    <3>5. \A seat \in Actors : seat \notin owes
      BY <3>4, RaisedFacts DEF TableInv, WagerInv, Actors
    <3>6. owes' = {}
      <4> HIDE DEF Actors
      <4>1. \A seat \in owes : seat \in 1 .. 6
        BY <1>1, <3>2
      <4>2. \A seat \in owes : seat = 6
        BY <1>1, <3>1, <3>4, <3>5, <4>1
      <4> QED
        BY <1>3, <3>4, <4>2
    <3> QED
      BY <1>1, <1>2, <1>3, <2>1, <3>6 DEF LapInv
  <2> QED
    BY <2>2, <2>3
<1> QED
  BY <1>1, <1>4, <1>5, <1>6, <1>7 DEF TableInv, StreetInv

\* The parts of the invariant that a call and a raise keep for the same reason:
\* the new entry is what the seat has in now.
LEMMA EntryKeeps ==
    ASSUME TableInv, street = "preflop", owes # {},
           start' = start, live' = live, street' = street,
           NEW action \in {"call", "raise"}, NEW total \in Nat,
           put[turn] <= total, total <= put[turn] + stack[turn], total >= Posted[turn] + 50,
           action = "raise" => total >= 200,
           PutInTotal(total), Record(action, total),
           wager' \in Nat, added' \in Nat, wager <= wager', total <= wager',
           NEW seats \in SUBSET (live \ {turn}), PassTurn(seats),
           \A seat \in owes \ {turn} : put[seat] = Posted[seat] => seat \in seats
    PROVE  TypeInv' /\ ChipsInv' /\ BookInv' /\ LapInv' /\ owes' = seats
<1>1. TypeInv /\ ChipsInv /\ Dealt' = Dealt /\ wager \in Nat
      /\ turn \in owes /\ owes \subseteq live /\ live \subseteq Dealt /\ turn \in Dealt
  BY DEF TableInv, TypeInv, Dealt
<1>2. /\ stack' \in [Dealt -> Nat] /\ put' \in [Dealt -> Nat] /\ pot' \in Nat
      /\ pot' = Spent(1)' + Spent(2)' + Spent(3)' + Spent(4)' + Spent(5)' + Spent(6)'
      /\ put'[turn] = total /\ stack'[turn] = stack[turn] - (total - put[turn])
      /\ pot' >= 150
      /\ \A seat \in Dealt \ {turn} : put'[seat] = put[seat] /\ stack'[seat] = stack[seat]
  BY <1>1, StakeFacts
<1>3. /\ log' \in Seq([actor : Dealt, action : {"call", "raise"}, amount : Nat])
      /\ Len(log') = Len(log) + 1 /\ Len(log) \in Nat
      /\ DOMAIN log = 1 .. Len(log) /\ DOMAIN log' = 1 .. Len(log) + 1
      /\ \A i \in 1 .. Len(log) : log'[i] = log[i]
      /\ log'[Len(log) + 1] = [actor |-> turn, action |-> action, amount |-> total]
  BY <1>1, RecordFacts
<1> DEFINE n == Len(log) + 1
<1>10. n \in DOMAIN log' /\ log'[n].actor = turn /\ log'[n].action = action /\ log'[n].amount = total
  BY <1>3
<1>4. seats \in SUBSET Dealt
  BY <1>1
<1>5. owes' = seats /\ turn' \in Dealt /\ (owes' # {} => turn' \in owes')
  BY <1>1, <1>4, TurnFacts
<1>6. TypeInv'
  BY <1>1, <1>2, <1>3, <1>5 DEF TypeInv
<1>7. ChipsInv'
  <2>1. \A seat \in Dealt : put'[seat] <= wager'
    <3> TAKE seat \in Dealt
    <3>1. CASE seat = turn
      BY <1>2, <3>1
    <3>2. CASE seat # turn
      <4>1. put'[seat] = put[seat] /\ put[seat] \in Nat /\ put[seat] <= wager
        BY <1>1, <1>2, <3>2 DEF TypeInv, ChipsInv
      <4> QED
        BY <1>1, <4>1
    <3> QED
      BY <3>1, <3>2
  <2>2. \A seat \in Dealt : put'[seat] + stack'[seat] = start[seat] /\ put'[seat] >= Posted[seat]
    <3> TAKE seat \in Dealt
    <3>1. /\ put[seat] + stack[seat] = start[seat] /\ put[seat] >= Posted[seat]
          /\ put[seat] \in Nat /\ stack[seat] \in Nat /\ start[seat] \in Nat /\ Posted[seat] \in Int
      <4>1. put[seat] + stack[seat] = start[seat] /\ put[seat] >= Posted[seat]
        BY <1>1 DEF ChipsInv
      <4>2. put[seat] \in Nat /\ stack[seat] \in Nat /\ start \in Profiles
        BY <1>1 DEF TypeInv
      <4>3. start[seat] \in Nat /\ Posted[seat] \in Int
        BY <4>2, DealtFacts
      <4> QED
        BY <4>1, <4>2, <4>3
    <3>2. CASE seat = turn
      BY <1>2, <3>1, <3>2
    <3>3. CASE seat # turn
      BY <1>2, <3>1, <3>3
    <3> QED
      BY <3>2, <3>3
  <2> QED
    BY <1>1, <1>2, <2>1, <2>2 DEF ChipsInv
<1>8. BookInv'
  <2>1. ASSUME NEW i \in DOMAIN log'
        PROVE  /\ log'[i].amount >= Posted[log'[i].actor] + 50
               /\ log'[i].amount <= put'[log'[i].actor]
               /\ log'[i].action = "raise" => log'[i].amount >= 200
    <3>1. CASE i = n
      <4>1. log'[i].actor = turn /\ log'[i].action = action /\ log'[i].amount = total
        BY <1>10, <3>1
      <4> QED
        BY <1>2, <4>1
    <3>2. CASE i # n
      <4>1. i \in DOMAIN log /\ log'[i] = log[i]
        BY <1>3, <3>2
      <4>2. log[i].actor \in Dealt /\ log[i].amount \in Nat
        BY <1>1, <4>1, LogFacts
      <4>3. /\ log[i].amount >= Posted[log[i].actor] + 50
            /\ log[i].amount <= put[log[i].actor]
            /\ log[i].action = "raise" => log[i].amount >= 200
        BY <4>1 DEF TableInv, BookInv
      <4>4. put[log[i].actor] <= put'[log[i].actor] /\ put[log[i].actor] \in Nat
            /\ put'[log[i].actor] \in Nat
        <5>1. put[log[i].actor] \in Nat /\ put'[log[i].actor] \in Nat
          BY <1>1, <1>2, <4>2 DEF TypeInv
        <5>2. CASE log[i].actor = turn
          BY <1>2, <5>2, <5>1
        <5>3. CASE log[i].actor # turn
          BY <1>2, <4>2, <5>1, <5>3
        <5> QED
          BY <5>1, <5>2, <5>3
      <4> QED
        BY <4>1, <4>2, <4>3, <4>4
    <3> QED
      BY <3>1, <3>2
  <2>2. ASSUME NEW seat \in Dealt, put'[seat] # Posted[seat]
        PROVE  \E i \in DOMAIN log' : log'[i].actor = seat /\ log'[i].amount = put'[seat]
    <3>1. CASE seat = turn
      <4>1. log'[n].actor = seat /\ log'[n].amount = put'[seat]
        BY <1>2, <1>10, <3>1
      <4> QED
        BY <1>10, <4>1
    <3>2. CASE seat # turn
      <4>1. put'[seat] = put[seat]
        BY <1>2, <3>2
      <4>2. PICK i \in DOMAIN log : log[i].actor = seat /\ log[i].amount = put[seat]
        BY <2>2, <4>1 DEF TableInv, BookInv
      <4>3. i \in DOMAIN log' /\ log'[i] = log[i]
        BY <1>3
      <4> QED
        BY <4>1, <4>2, <4>3
    <3> QED
      BY <3>1, <3>2
  <2> QED
    BY <1>1, <2>1, <2>2 DEF BookInv
<1>9. LapInv'
  <2>1. log'[Len(log')].actor \notin owes'
    BY <1>3, <1>5
  <2>2. ASSUME NEW i \in 1 .. Len(log') - 1
        PROVE  log'[i].actor # log'[i + 1].actor
    <3>1. i \in 1 .. Len(log) /\ log'[i] = log[i]
      BY <1>3
    <3>2. CASE i = Len(log)
      <4>1. log # <<>>
        BY <3>1
      <4>2. log[i].actor \notin owes
        BY <3>2, <4>1 DEF TableInv, LapInv
      <4> QED
        BY <1>1, <1>3, <3>1, <3>2, <4>2
    <3>3. CASE i # Len(log)
      <4>1. i \in 1 .. Len(log) - 1 /\ i + 1 \in 1 .. Len(log)
        <5>1. Len(log) \in Nat
          BY <1>3
        <5>2. \A k \in Nat : i \in 1 .. k /\ i # k => i \in 1 .. k - 1 /\ i + 1 \in 1 .. k
          OBVIOUS
        <5> QED
          BY <3>1, <3>3, <5>1, <5>2
      <4>2. log[i].actor # log[i + 1].actor
        BY <4>1 DEF TableInv, LapInv
      <4> QED
        BY <1>3, <3>1, <4>1, <4>2
    <3> QED
      BY <3>2, <3>3
  <2>3. Actors' = Actors \union {turn}
    <3>1. \A a \in Actors' : a \in Actors \union {turn}
      <4> SUFFICES ASSUME NEW i \in DOMAIN log' PROVE log'[i].actor \in Actors \union {turn}
        BY DEF Actors
      <4>1. CASE i = Len(log) + 1
        BY <1>3, <4>1
      <4>2. CASE i # Len(log) + 1
        <5>1. i \in DOMAIN log /\ log'[i] = log[i]
          BY <1>3, <4>2
        <5> QED
          BY <5>1 DEF Actors
      <4> QED
        BY <4>1, <4>2
    <3>2. \A a \in Actors \union {turn} : a \in Actors'
      <4>1. turn \in Actors'
        <5>1. Len(log) + 1 \in DOMAIN log' /\ log'[Len(log) + 1].actor = turn
          BY <1>3
        <5> QED
          BY <5>1 DEF Actors
      <4>2. ASSUME NEW i \in DOMAIN log PROVE log[i].actor \in Actors'
        <5>1. i \in DOMAIN log' /\ log'[i] = log[i]
          BY <1>3
        <5> QED
          BY <5>1 DEF Actors
      <4>3. \A a \in Actors : a \in Actors'
        <5> SUFFICES ASSUME NEW i \in DOMAIN log PROVE log[i].actor \in Actors'
          BY DEF Actors
        <5> QED
          BY <4>2
      <4> QED
        BY <4>1, <4>3
    <3> QED
      BY <3>1, <3>2
  <2>4. owes' # {} =>
             \/ live' \subseteq Actors'
             \/ /\ \A seat \in Actors' : seat < turn' /\ seat \in live'
                /\ \A seat \in Dealt : seat >= turn' => seat \in owes'
                /\ \A seat \in live' : seat < turn' => seat \in Actors'
    <3>1. CASE live \subseteq Actors
      BY <2>3, <3>1
    <3>2. CASE ~ (live \subseteq Actors)
      <4>1. /\ \A seat \in Actors : seat < turn /\ seat \in live
            /\ \A seat \in Dealt : seat >= turn => seat \in owes /\ put[seat] = Posted[seat]
            /\ \A seat \in live : seat < turn => seat \in Actors
        BY <3>2, FirstLapFacts
      <4>2. \A seat \in Dealt : seat > turn => seat \in seats
        <5> TAKE seat \in Dealt
        <5>1. seat \in 1 .. 6 /\ turn \in 1 .. 6
          BY <1>1, DealtFacts DEF TypeInv, Seats
        <5> QED
          BY <4>1, <5>1
      <4> HIDE DEF Actors
      <4>3. turn \in live'
        BY <1>1
      <4> QED
        BY <1>1, <1>4, <2>3, <4>1, <4>2, <4>3, LapGoesOn
    <3> QED
      BY <3>1, <3>2
  <2> QED
    BY <1>1, <2>1, <2>2, <2>4 DEF LapInv
<1> QED
  BY <1>5, <1>6, <1>7, <1>8, <1>9

\* A call brings in the wager or the whole stack, and changes no wager.
LEMMA CallKeeps ==
    ASSUME TableInv, Call, street = "preflop"
    PROVE  TableInv'
<1> DEFINE total == Min({wager, put[turn] + stack[turn]})
<1>1. /\ owes # {} /\ turn \in owes /\ owes \subseteq live /\ live \subseteq Dealt /\ turn \in Dealt
      /\ live' = live /\ PassTurn(owes \ {turn}) /\ start' = start /\ wager' = wager
      /\ added' = added /\ street' = street /\ TypeInv /\ put[turn] < wager
      /\ PutInTotal(total) /\ Record("call", total)
  BY DEF Call, Acts, TableInv, TypeInv
<1>2. wager \in Nat /\ added \in Nat /\ put[turn] \in Nat /\ stack[turn] \in Nat
  BY <1>1 DEF TypeInv
<1>3. total = IF wager <= put[turn] + stack[turn] THEN wager ELSE put[turn] + stack[turn]
  <2>1. put[turn] + stack[turn] \in Nat
    BY <1>2
  <2> QED
    BY <1>2, <2>1, MinOfTwo
<1>4. total \in Nat /\ put[turn] <= total /\ total <= put[turn] + stack[turn] /\ total <= wager
  BY <1>1, <1>2, <1>3
<1>5. put[turn] + stack[turn] >= 150 /\ put[turn] >= Posted[turn] /\ Posted[turn] \in {0, 50, 100}
  <2>1. put[turn] + stack[turn] = start[turn] /\ put[turn] >= Posted[turn]
    BY <1>1 DEF TableInv, ChipsInv
  <2>2. start[turn] >= 150 /\ Posted[turn] \in {0, 50, 100}
    BY <1>1, DealtFacts DEF TypeInv
  <2> QED
    BY <2>1, <2>2
<1>6. wager = 100 \/ wager >= 200
  BY <1>1 DEF TableInv, WagerInv
<1> HIDE DEF total
<1>7. total >= Posted[turn] + 50 /\ (wager = 100 => total = 100)
  BY <1>1, <1>2, <1>3, <1>5, <1>6
<1>8. TypeInv' /\ ChipsInv' /\ BookInv' /\ LapInv' /\ owes' = owes \ {turn}
  <2>1. owes \ {turn} \in SUBSET (live \ {turn})
    BY <1>1
  <2> QED
    BY <1>1, <1>2, <1>4, <1>7, <2>1, EntryKeeps
<1>9. WagerInv'
  <2>1. /\ Len(log') = Len(log) + 1 /\ Len(log) \in Nat
        /\ DOMAIN log = 1 .. Len(log) /\ DOMAIN log' = 1 .. Len(log) + 1
        /\ \A i \in 1 .. Len(log) : log'[i] = log[i]
        /\ log'[Len(log) + 1] = [actor |-> turn, action |-> "call", amount |-> total]
    BY <1>1, <1>4, RecordFacts
  <2>2. Raised' = Raised
    BY <2>1 DEF Raised
  <2>3. /\ wager = 100 \/ wager >= 200
        /\ added >= 100 /\ added <= wager
        /\ wager = 100 \/ added <= wager - 100
        /\ Raised = {} =>
             /\ wager = 100 /\ added = 100
             /\ \A i \in DOMAIN log : log[i].amount = 100 /\ log[i].actor \notin owes
        /\ \A i \in Raised :
             (\A j \in Raised : j <= i) => log[i].amount = wager /\ log[i].actor \in live \ owes
    BY <1>1 DEF TableInv, WagerInv
  <2>4. Raised' = {} => \A i \in DOMAIN log' : log'[i].amount = 100 /\ log'[i].actor \notin owes'
    <3> SUFFICES ASSUME Raised = {}, NEW i \in DOMAIN log'
                 PROVE  log'[i].amount = 100 /\ log'[i].actor \notin owes'
      BY <2>2
    <3>1. CASE i = Len(log) + 1
      <4>1. log'[i].amount = total /\ log'[i].actor = turn
        BY <2>1, <3>1
      <4> QED
        BY <1>7, <1>8, <2>3, <4>1
    <3>2. CASE i # Len(log) + 1
      BY <1>8, <2>1, <2>3, <3>2
    <3> QED
      BY <3>1, <3>2
  <2>5. ASSUME NEW i \in Raised', \A j \in Raised' : j <= i
        PROVE  log'[i].amount = wager' /\ log'[i].actor \in live' \ owes'
    <3>1. i \in Raised /\ log'[i] = log[i]
      BY <2>1, <2>2, <2>5 DEF Raised
    <3> QED
      BY <1>1, <1>8, <2>2, <2>3, <2>5, <3>1
  <2> QED
    BY <1>1, <2>2, <2>3, <2>4, <2>5 DEF WagerInv
<1> QED
  BY <1>1, <1>8, <1>9 DEF TableInv, StreetInv

\* What a seat may raise to is above the wager and no more than it has; before
\* the flop it is a full raise.
LEMMA RaiseFacts ==
    ASSUME TypeInv, NEW total \in RaiseTotals, put[turn] <= wager
    PROVE  /\ total \in Nat /\ total <= put[turn] + stack[turn] /\ put[turn] <= total
           /\ street = "preflop" => total >= wager + added
           /\ street # "preflop" =>
                /\ wager < total
                /\ total <= Min({put[seat] + stack[seat] : seat \in live \ {turn}})
                /\ total >= wager + added \/ total = put[turn] + stack[turn]
<1>1. /\ wager \in Nat /\ added \in Nat /\ turn \in Dealt /\ put[turn] \in Nat /\ stack[turn] \in Nat
  BY DEF TypeInv
<1> DEFINE own == put[turn] + stack[turn]
           sizes == {(m * wager) \div 10 : m \in Multiples}
           full == {size \in sizes \union {own} : size >= wager + added /\ size <= own}
<1>2. own \in Int /\ sizes \subseteq Int
  BY <1>1, MultiplesAssumption
<1>3. total \in full \union {own}
  BY DEF RaiseTotals
<1>4. total \in Int /\ (total \in full => total >= wager + added /\ total <= own)
  BY <1>2, <1>3
<1>5. total <= own
  BY <1>2, <1>3, <1>4
<1>6. street = "preflop" => total \in full
  BY DEF RaiseTotals
<1>7. street # "preflop" =>
        wager < total /\ total <= Min({put[seat] + stack[seat] : seat \in live \ {turn}})
  BY DEF RaiseTotals
<1>9. total >= wager + added \/ total = own
  BY <1>3, <1>4
<1> HIDE DEF own, sizes, full
<1>8. total >= wager
  BY <1>1, <1>4, <1>6, <1>7
<1> QED
  BY <1>1, <1>4, <1>5, <1>6, <1>7, <1>8, <1>9 DEF own

\* A raise is the new wager, and asks everyone else with chips again.
LEMMA RaiseKeeps ==
    ASSUME TableInv, NEW total \in RaiseTotals, Raise(total), street = "preflop"
    PROVE  TableInv'
<1> DEFINE seats == {seat \in live \ {turn} : stack[seat] > 0}
<1>1. /\ owes # {} /\ turn \in owes /\ owes \subseteq live /\ live \subseteq Dealt /\ turn \in Dealt
      /\ live' = live /\ PassTurn(seats) /\ start' = start /\ wager' = total
      /\ added' = (IF total - wager > added THEN total - wager ELSE added)
      /\ street' = street /\ TypeInv /\ PutInTotal(total) /\ Record("raise", total)
  BY DEF Raise, Acts, TableInv, TypeInv
<1>2. wager \in Nat /\ added \in Nat /\ put[turn] \in Nat /\ stack[turn] \in Nat
  BY <1>1 DEF TypeInv
<1>3. put[turn] <= wager /\ put[turn] >= Posted[turn] /\ Posted[turn] \in {0, 50, 100}
  BY <1>1, DealtFacts DEF TableInv, ChipsInv, TypeInv
<1>4. /\ total \in Nat /\ total <= put[turn] + stack[turn] /\ put[turn] <= total
      /\ total >= wager + added
  BY <1>1, <1>3, RaiseFacts
<1>5. (wager = 100 \/ wager >= 200) /\ added >= 100 /\ added <= wager
  BY <1>1 DEF TableInv, WagerInv
<1>6. total >= 200 /\ total >= Posted[turn] + 50 /\ added' \in Nat
      /\ added' >= 100 /\ added' <= total - 100
  BY <1>1, <1>2, <1>3, <1>4, <1>5
<1>7. \A seat \in owes \ {turn} : put[seat] = Posted[seat] => seat \in seats
  <2> SUFFICES ASSUME NEW seat \in owes \ {turn}, put[seat] = Posted[seat] PROVE stack[seat] > 0
    BY <1>1
  <2>1. seat \in Dealt /\ put[seat] + stack[seat] = start[seat]
    BY <1>1 DEF TableInv, ChipsInv
  <2>2. start[seat] >= 150 /\ Posted[seat] \in {0, 50, 100} /\ stack[seat] \in Nat
        /\ start[seat] \in Nat
    BY <1>1, <2>1, DealtFacts DEF TypeInv
  <2> QED
    BY <2>1, <2>2
<1>8. TypeInv' /\ ChipsInv' /\ BookInv' /\ LapInv' /\ owes' = seats
  <2>1. seats \in SUBSET (live \ {turn})
    OBVIOUS
  <2>2. wager <= wager' /\ total <= wager' /\ wager' \in Nat
    BY <1>1, <1>2, <1>4
  <2> HIDE DEF seats
  <2> QED
    BY <1>1, <1>2, <1>4, <1>6, <1>7, <2>1, <2>2, EntryKeeps
<1>9. WagerInv'
  <2> DEFINE n == Len(log) + 1
  <2>0. /\ Len(log) \in Nat /\ DOMAIN log' = 1 .. Len(log) + 1
        /\ log'[Len(log) + 1] = [actor |-> turn, action |-> "raise", amount |-> total]
    BY <1>1, <1>4, RecordFacts
  <2>1. /\ n \in Nat /\ n \in 1 .. n /\ DOMAIN log' = 1 .. n
        /\ log'[n].actor = turn /\ log'[n].action = "raise" /\ log'[n].amount = total
    BY <2>0
  <2>2. n \in Raised' /\ \A i \in Raised' : i <= n
    BY <2>1 DEF Raised
  <2>3. ASSUME NEW i \in Raised', \A j \in Raised' : j <= i
        PROVE  log'[i].amount = wager' /\ log'[i].actor \in live' \ owes'
    <3>1. i = n
      BY <2>1, <2>2, <2>3 DEF Raised
    <3>2. turn \in live /\ turn \notin seats
      BY <1>1
    <3> QED
      BY <1>1, <1>8, <2>1, <3>1, <3>2
  <2>4. /\ wager' >= 200 /\ added' >= 100 /\ added' <= wager' - 100 /\ added' <= wager'
        /\ wager' \in Nat
    BY <1>1, <1>4, <1>6
  <2> HIDE DEF n
  <2> QED
    BY <2>2, <2>3, <2>4 DEF WagerInv
<1> QED
  BY <1>1, <1>8, <1>9 DEF TableInv, StreetInv

-----------------------------------------------------------------------------
(***************************************************************************)
(* The steps after the flop                                                *)
(***************************************************************************)

\* Sets of seats are finite, and a set of two is a pair.
LEMMA PairOfSeats ==
    ASSUME TypeInv, NEW seats \in SUBSET Dealt
    PROVE  /\ IsFiniteSet(seats) /\ Cardinality(seats) \in Nat
           /\ Cardinality(seats) = 2 => \E a, b \in Dealt : a # b /\ seats = {a, b}
<1>1. Dealt \subseteq 1 .. 6
  BY DealtFacts DEF TypeInv, Seats
<1>2. IsFiniteSet(seats)
  <2>1. IsFiniteSet(1 .. 6)
    <3>1. 1 \in Int /\ 6 \in Int
      OBVIOUS
    <3> QED
      BY <3>1, FS_Interval, Zenon
  <2>2. seats \in SUBSET (1 .. 6)
    BY <1>1
  <2> QED
    BY <2>1, <2>2, FS_Subset
<1>3. Cardinality(seats) \in Nat
  BY <1>2, FS_CardinalityType
<1>4. ASSUME Cardinality(seats) = 2
      PROVE  \E a, b \in Dealt : a # b /\ seats = {a, b}
  <2>1. PICK a \in seats : TRUE
    BY <1>2, <1>4, FS_EmptySet
  <2>2. IsFiniteSet(seats \ {a}) /\ Cardinality(seats \ {a}) = 1
    BY <1>2, <1>4, <2>1, FS_RemoveElement
  <2>3. PICK b : seats \ {a} = {b}
    BY <2>2, FS_Singleton
  <2>4. a \in Dealt /\ b \in Dealt /\ a # b /\ seats = {a, b}
    BY <2>1, <2>3
  <2> QED
    BY <2>4
<1> QED
  BY <1>2, <1>3, <1>4

\* The two that are left: who is first, who is last, and their roles.
LEMMA TwoLeft ==
    ASSUME TypeInv, \E a, b \in Dealt : a # b /\ live = {a, b}
    PROVE  /\ OopSeat \in Dealt /\ IpSeat \in Dealt /\ OopSeat # IpSeat /\ live = {OopSeat, IpSeat}
           /\ Role(OopSeat) = "oop" /\ Role(IpSeat) = "ip"
<1>1. PICK a, b \in Dealt : a # b /\ live = {a, b}
  OBVIOUS
<1>2. live \in SUBSET Seats /\ live # {}
  BY <1>1, DealtFacts DEF TypeInv
<1>3. OopSeat \in live
  BY <1>2, FirstOfIsFirst DEF OopSeat
<1>4. \E seat \in live : seat # OopSeat
  BY <1>1
<1>5. IpSeat \in live /\ IpSeat # OopSeat
  BY <1>4 DEF IpSeat
<1> QED
  BY <1>1, <1>3, <1>5 DEF Role, OopSeat

\* Who is first and who is last does not change while nobody folds.
LEMMA SameTwo ==
    ASSUME live' = live, start' = start
    PROVE  OopSeat' = OopSeat /\ IpSeat' = IpSeat
<1>1. OopSeat' = OopSeat
  BY DEF OopSeat, FirstOf, Place, HeadsUp, Dealt
<1> QED
  BY <1>1 DEF IpSeat

\* What every action with chips keeps after the flop, whatever its kind.
LEMMA StreetStakeKeeps ==
    ASSUME TableInv, street # "preflop", owes # {},
           start' = start, live' = live, street' = street, log' = log,
           NEW total \in Nat, put[turn] <= total, total <= put[turn] + stack[turn],
           PutInTotal(total),
           wager' \in Nat, added' \in Nat, wager <= wager', total <= wager',
           \A seat \in live : wager' <= put[seat] + stack[seat],
           NEW seats \in SUBSET (live \ {turn}), PassTurn(seats)
    PROVE  /\ TypeInv' /\ ChipsInv' /\ BookInv' /\ WagerInv' /\ LapInv' /\ owes' = seats
           /\ (owes' # {} => StreetLine') => StreetInv'
           /\ OopSeat' = OopSeat /\ IpSeat' = IpSeat
           /\ put'[turn] = total /\ stack'[turn] = put[turn] + stack[turn] - total
           /\ \A seat \in live \ {turn} : put'[seat] = put[seat] /\ stack'[seat] = stack[seat]
           /\ put[turn] \in Nat /\ stack[turn] \in Nat
<1>1. TypeInv /\ ChipsInv /\ Dealt' = Dealt /\ wager \in Nat
      /\ turn \in owes /\ owes \subseteq live /\ live \subseteq Dealt /\ turn \in Dealt
      /\ put \in [Dealt -> Nat] /\ stack \in [Dealt -> Nat] /\ pot \in Nat
  BY DEF TableInv, TypeInv, Dealt
<1>2. /\ stack' \in [Dealt -> Nat] /\ put' \in [Dealt -> Nat] /\ pot' \in Nat
      /\ pot' = Spent(1)' + Spent(2)' + Spent(3)' + Spent(4)' + Spent(5)' + Spent(6)'
      /\ put'[turn] = total /\ stack'[turn] = stack[turn] - (total - put[turn])
      /\ pot' = pot + total - put[turn] /\ pot' >= 150
      /\ \A seat \in Dealt \ {turn} : put'[seat] = put[seat] /\ stack'[seat] = stack[seat]
  BY <1>1, StakeFacts
<1>3. put[turn] \in Nat /\ stack[turn] \in Nat
  BY <1>1
<1>4. owes' = seats /\ turn' \in Dealt /\ (owes' # {} => turn' \in owes')
  <2>1. seats \in SUBSET Dealt
    BY <1>1
  <2> QED
    BY <1>1, <2>1, TurnFacts
<1>5. TypeInv'
  BY <1>1, <1>2, <1>4 DEF TypeInv
<1>6. ChipsInv'
  <2>1. \A seat \in Dealt : put'[seat] <= wager'
    <3> TAKE seat \in Dealt
    <3>1. CASE seat = turn
      BY <1>2, <3>1
    <3>2. CASE seat # turn
      <4>1. put'[seat] = put[seat] /\ put[seat] \in Nat /\ put[seat] <= wager
        BY <1>1, <1>2, <3>2 DEF ChipsInv
      <4> QED
        BY <1>1, <4>1
    <3> QED
      BY <3>1, <3>2
  <2> QED
    BY <1>1, <1>2, <2>1 DEF ChipsInv
<1>7. BookInv' /\ WagerInv' /\ LapInv'
  BY DEF BookInv, WagerInv, LapInv
<1>8. OopSeat' = OopSeat /\ IpSeat' = IpSeat
  BY SameTwo
<1>9. /\ \E a, b \in Dealt : a # b /\ live = {a, b}
      /\ pot >= put[OopSeat] + put[IpSeat] + 150
  BY DEF TableInv, StreetInv
<1>10. OopSeat \in Dealt /\ IpSeat \in Dealt /\ OopSeat # IpSeat /\ live = {OopSeat, IpSeat}
  BY <1>1, <1>9, TwoLeft
<1>11. pot' >= put'[OopSeat] + put'[IpSeat] + 150
  <2>1. put[OopSeat] \in Nat /\ put[IpSeat] \in Nat /\ (turn = OopSeat \/ turn = IpSeat)
    BY <1>1, <1>10
  <2>2. CASE turn = OopSeat
    <3>1. put'[OopSeat] = total /\ put'[IpSeat] = put[IpSeat]
      BY <1>2, <1>10, <2>2
    <3> QED
      BY <1>1, <1>2, <1>9, <2>1, <2>2, <3>1
  <2>3. CASE turn = IpSeat
    <3>1. put'[IpSeat] = total /\ put'[OopSeat] = put[OopSeat]
      BY <1>2, <1>10, <2>3
    <3> QED
      BY <1>1, <1>2, <1>9, <2>1, <2>3, <3>1
  <2> QED
    BY <2>1, <2>2, <2>3
<1>12. \A seat \in live : wager' <= put'[seat] + stack'[seat]
  <2> TAKE seat \in live
  <2>1. seat \in Dealt /\ wager' <= put[seat] + stack[seat]
    BY <1>1
  <2>2. CASE seat = turn
    BY <1>2, <1>3, <2>1, <2>2
  <2>3. CASE seat # turn
    BY <1>2, <2>1, <2>3
  <2> QED
    BY <2>2, <2>3
<1>13. (owes' # {} => StreetLine') => StreetInv'
  BY <1>1, <1>8, <1>9, <1>11, <1>12 DEF StreetInv
<1> QED
  BY <1>1, <1>2, <1>3, <1>4, <1>5, <1>6, <1>7, <1>8, <1>13

\* A second element.
LEMMA AppendToOne == ASSUME NEW a, NEW b PROVE Append(<<a>>, b) = <<a, b>>
<1> DEFINE S == {a, b}
<1>1. <<a>> \in Seq(S) /\ <<a, b>> \in Seq(S) /\ b \in S
  OBVIOUS
<1>2. /\ Append(<<a>>, b) \in Seq(S) /\ Len(Append(<<a>>, b)) = 2
      /\ Append(<<a>>, b)[1] = a /\ Append(<<a>>, b)[2] = b
  BY <1>1
<1>3. Len(<<a, b>>) = 2 /\ \A i \in 1 .. 2 : Append(<<a>>, b)[i] = <<a, b>>[i]
  BY <1>2
<1> HIDE DEF S
<1> QED
  BY <1>1, <1>2, <1>3, SeqEqual

\* A third element.
LEMMA AppendToTwo == ASSUME NEW a, NEW b, NEW c PROVE Append(<<a, b>>, c) = <<a, b, c>>
<1> DEFINE S == {a, b, c}
<1>1. <<a, b>> \in Seq(S) /\ <<a, b, c>> \in Seq(S) /\ c \in S
  OBVIOUS
<1>2. /\ Append(<<a, b>>, c) \in Seq(S) /\ Len(Append(<<a, b>>, c)) = 3
      /\ Append(<<a, b>>, c)[1] = a /\ Append(<<a, b>>, c)[2] = b /\ Append(<<a, b>>, c)[3] = c
  BY <1>1
<1>3. Len(<<a, b, c>>) = 3 /\ \A i \in 1 .. 3 : Append(<<a, b>>, c)[i] = <<a, b, c>>[i]
  BY <1>2
<1> HIDE DEF S
<1> QED
  BY <1>1, <1>2, <1>3, SeqEqual

\* What is on record of a street after one more action.
LEMMA StreetRecordFacts ==
    ASSUME street # "preflop", NEW action, NEW total, Record(action, total)
    PROVE  /\ log' = log /\ actions' = Append(actions, Did(Role(turn), action, total))
           /\ \A a : Append(<<>>, a) = <<a>>
           /\ \A a, b : Append(<<a>>, b) = <<a, b>>
           /\ \A a, b, c : Append(<<a, b>>, c) = <<a, b, c>>
<1> HIDE DEF Did
<1>1. log' = log /\ actions' = Append(actions, Did(Role(turn), action, total))
  BY DEF Record, Did
<1>2. \A a : Append(<<>>, a) = <<a>>
  OBVIOUS
<1>3. \A a, b : Append(<<a>>, b) = <<a, b>>
  BY AppendToOne
<1>4. \A a, b, c : Append(<<a, b>>, c) = <<a, b, c>>
  BY AppendToTwo
<1> QED
  BY <1>1, <1>2, <1>3, <1>4

\* A check comes first, or closes a street of which nobody bet.
LEMMA StreetCheckKeeps ==
    ASSUME TableInv, Check, street # "preflop"
    PROVE  TableInv'
<1>1. /\ owes # {} /\ turn \in owes /\ owes \subseteq live /\ live \subseteq Dealt
      /\ live' = live /\ PassTurn(owes \ {turn}) /\ start' = start /\ stack' = stack
      /\ put' = put /\ pot' = pot /\ wager' = wager /\ added' = added /\ street' = street
      /\ put[turn] = wager /\ Record("check", None) /\ TypeInv
  BY DEF Check, Acts, TableInv, TypeInv
<1>2. Dealt' = Dealt /\ (\A seat : Spent(seat)' = Spent(seat)) /\ OopSeat' = OopSeat /\ IpSeat' = IpSeat
  BY <1>1, SameTwo DEF Dealt, Spent
<1>3. owes' = owes \ {turn} /\ turn' \in Dealt /\ (owes' # {} => turn' \in owes')
  <2>1. owes \ {turn} \in SUBSET Dealt
    BY <1>1
  <2> QED
    BY <1>1, <2>1, TurnFacts
<1>4. log' = log /\ actions' = Append(actions, Did(Role(turn), "check", None))
  BY <1>1, StreetRecordFacts
<1>5. TypeInv'
  BY <1>1, <1>2, <1>3, <1>4 DEF TypeInv
<1>6. ChipsInv' /\ BookInv' /\ WagerInv' /\ LapInv'
  BY <1>1, <1>2 DEF TableInv, ChipsInv, BookInv, WagerInv, LapInv
<1>7. StreetInv'
  <2>1. /\ \E a, b \in Dealt : a # b /\ live = {a, b}
        /\ \A seat \in live : wager <= put[seat] + stack[seat]
        /\ pot >= put[OopSeat] + put[IpSeat] + 150
        /\ StreetLine
    BY <1>1 DEF TableInv, StreetInv
  <2>2. /\ OopSeat \in Dealt /\ IpSeat \in Dealt /\ OopSeat # IpSeat /\ live = {OopSeat, IpSeat}
        /\ Role(OopSeat) = "oop" /\ Role(IpSeat) = "ip"
    BY <1>1, <2>1, TwoLeft
  <2>3. NothingIn /\ ((actions = <<>> /\ turn = OopSeat /\ owes = live) \/ owes = {turn})
    <3>1. wager \in Nat /\ put \in [Dealt -> Nat]
      BY <1>1 DEF TypeInv
    <3> QED
      BY <1>1, <2>1, <2>2, <3>1 DEF StreetLine, OneBet, OneRaise
  <2>4. ASSUME owes' # {} PROVE StreetLine'
    <3>1. CASE actions = <<>> /\ turn = OopSeat /\ owes = live
      <4>1. actions' = <<Did("oop", "check", None)>>
        BY <1>1, <1>4, <2>2, <3>1, StreetRecordFacts
      <4>2. turn' = IpSeat /\ owes' = {IpSeat}
        BY <1>1, <1>3, <2>2, <2>4, <3>1
      <4>3. NothingIn'
        BY <1>1, <1>2, <2>3 DEF NothingIn
      <4> QED
        BY <1>2, <4>1, <4>2, <4>3 DEF StreetLine, Did
    <3>2. CASE owes = {turn}
      BY <1>3, <2>4, <3>2
    <3> QED
      BY <2>3, <3>1, <3>2
  <2> QED
    BY <1>1, <1>2, <2>1, <2>4 DEF StreetInv
<1> QED
  BY <1>5, <1>6, <1>7 DEF TableInv

\* A call after the flop brings in the wager, and closes the street.
LEMMA StreetCallKeeps ==
    ASSUME TableInv, Call, street # "preflop"
    PROVE  TableInv'
<1> DEFINE total == Min({wager, put[turn] + stack[turn]})
<1>1. /\ owes # {} /\ turn \in owes /\ owes \subseteq live /\ live \subseteq Dealt /\ turn \in Dealt
      /\ live' = live /\ PassTurn(owes \ {turn}) /\ start' = start /\ wager' = wager
      /\ added' = added /\ street' = street /\ TypeInv /\ put[turn] < wager
      /\ PutInTotal(total) /\ Record("call", total)
  BY DEF Call, Acts, TableInv, TypeInv
<1>2. wager \in Nat /\ added \in Nat /\ put \in [Dealt -> Nat] /\ stack \in [Dealt -> Nat]
  BY <1>1 DEF TypeInv
<1>3. /\ \E a, b \in Dealt : a # b /\ live = {a, b}
      /\ \A seat \in live : wager <= put[seat] + stack[seat]
      /\ StreetLine
  BY <1>1 DEF TableInv, StreetInv
<1>4. total = wager
  <2>1. put[turn] + stack[turn] \in Nat /\ wager <= put[turn] + stack[turn]
    BY <1>1, <1>2, <1>3
  <2> QED
    BY <1>2, <2>1, MinOfTwo
<1> HIDE DEF total
<1>5. log' = log
  BY <1>1, StreetRecordFacts
<1>6. owes = {turn}
  <2>1. OopSeat \in Dealt /\ IpSeat \in Dealt
    BY <1>1, <1>3, TwoLeft
  <2> QED
    BY <1>1, <1>2, <1>3, <2>1 DEF StreetLine, OneBet, OneRaise, NothingIn
<1>7. TypeInv' /\ ChipsInv' /\ BookInv' /\ WagerInv' /\ LapInv' /\ StreetInv'
  <2>1. owes \ {turn} \in SUBSET (live \ {turn}) /\ owes \ {turn} = {}
    BY <1>1, <1>6
  <2>2. put[turn] \in Nat /\ total \in Nat /\ put[turn] <= total /\ total <= put[turn] + stack[turn]
    BY <1>1, <1>2, <1>3, <1>4
  <2>3. wager' \in Nat /\ added' \in Nat /\ wager <= wager' /\ total <= wager'
        /\ \A seat \in live : wager' <= put[seat] + stack[seat]
    BY <1>1, <1>2, <1>3, <1>4
  <2> QED
    BY <1>1, <1>5, <2>1, <2>2, <2>3, StreetStakeKeeps
<1> QED
  BY <1>7 DEF TableInv

\* A raise after the flop answers the bet, in full or by all that its seat has.
LEMMA StreetRaiseKeeps ==
    ASSUME TableInv, NEW total \in RaiseTotals, Raise(total), street # "preflop"
    PROVE  TableInv'
<1> DEFINE seats == {seat \in live \ {turn} : stack[seat] > 0}
<1>1. /\ owes # {} /\ turn \in owes /\ owes \subseteq live /\ live \subseteq Dealt /\ turn \in Dealt
      /\ live' = live /\ PassTurn(seats) /\ start' = start /\ wager' = total
      /\ added' = (IF total - wager > added THEN total - wager ELSE added)
      /\ street' = street /\ TypeInv /\ PutInTotal(total) /\ Record("raise", total)
      /\ wager > 0 /\ put[turn] < wager
      /\ ~ \E i \in DOMAIN actions : actions[i].action = "raise"
  BY DEF Raise, Acts, TableInv, TypeInv
<1>2. wager \in Nat /\ added \in Nat /\ put \in [Dealt -> Nat] /\ stack \in [Dealt -> Nat]
  BY <1>1 DEF TypeInv
<1>3. /\ \E a, b \in Dealt : a # b /\ live = {a, b}
      /\ \A seat \in live : wager <= put[seat] + stack[seat]
      /\ StreetLine
  BY <1>1 DEF TableInv, StreetInv
<1>4. /\ OopSeat \in Dealt /\ IpSeat \in Dealt /\ OopSeat # IpSeat /\ live = {OopSeat, IpSeat}
      /\ Role(OopSeat) = "oop" /\ Role(IpSeat) = "ip"
  BY <1>1, <1>3, TwoLeft
<1>5. /\ total \in Nat /\ total <= put[turn] + stack[turn] /\ put[turn] <= total
      /\ wager < total
      /\ total <= Min({put[seat] + stack[seat] : seat \in live \ {turn}})
      /\ total >= wager + added \/ total = put[turn] + stack[turn]
  <2>1. put[turn] <= wager
    BY <1>1, <1>2
  <2> QED
    BY <1>1, <2>1, RaiseFacts
<1>6. \A seat \in live : total <= put[seat] + stack[seat]
  <2> DEFINE reach == {put[seat] + stack[seat] : seat \in live \ {turn}}
  <2>1. reach \in SUBSET Nat /\ reach # {}
    BY <1>1, <1>2, <1>4
  <2>2. \A k \in reach : Min(reach) <= k
    <3>1. Min(reach) \in reach /\ \A k \in reach : Min(reach) <= k
      <4> HIDE DEF reach
      <4> QED
        BY <2>1, MinIsLeast
    <3> QED
      BY <3>1
  <2>3. Min(reach) \in Nat
    <3>1. Min(reach) \in reach
      <4> HIDE DEF reach
      <4> QED
        BY <2>1, MinIsLeast
    <3> QED
      BY <2>1, <3>1
  <2> TAKE seat \in live
  <2>4. CASE seat = turn
    BY <1>5, <2>4
  <2>5. CASE seat # turn
    <3>1. put[seat] + stack[seat] \in reach /\ put[seat] + stack[seat] \in Nat
      BY <1>1, <1>2, <2>5
    <3>2. Min(reach) <= put[seat] + stack[seat]
      BY <2>2, <3>1
    <3>3. total <= Min(reach)
      BY <1>5
    <3> HIDE DEF reach
    <3> QED
      BY <1>5, <2>3, <3>1, <3>2, <3>3
  <2> QED
    BY <2>4, <2>5
<1>7. log' = log /\ actions' = Append(actions, Did(Role(turn), "raise", total))
  BY <1>1, StreetRecordFacts
<1>8. /\ TypeInv' /\ ChipsInv' /\ BookInv' /\ WagerInv' /\ LapInv' /\ owes' = seats
      /\ (owes' # {} => StreetLine') => StreetInv'
      /\ OopSeat' = OopSeat /\ IpSeat' = IpSeat
      /\ put'[turn] = total /\ stack'[turn] = put[turn] + stack[turn] - total
      /\ \A seat \in live \ {turn} : put'[seat] = put[seat] /\ stack'[seat] = stack[seat]
      /\ put[turn] \in Nat /\ stack[turn] \in Nat
  <2>1. seats \in SUBSET (live \ {turn})
    OBVIOUS
  <2> HIDE DEF seats
  <2>2. wager' \in Nat /\ added' \in Nat /\ wager <= wager' /\ total <= wager'
    BY <1>1, <1>2, <1>5
  <2>3. \A seat \in live : wager' <= put[seat] + stack[seat]
    BY <1>1, <1>6
  <2> QED
    BY <1>1, <1>5, <1>7, <2>1, <2>2, <2>3, StreetStakeKeeps
<1>9. \/ actions = <<Did("oop", "bet", put[OopSeat])>> /\ OneBet(OopSeat, IpSeat)
      \/ actions = <<Did("oop", "check", None), Did("ip", "bet", put[IpSeat])>> /\ OneBet(IpSeat, OopSeat)
  <2>1. ~ NothingIn
    BY <1>1 DEF NothingIn
  <2>2. ~ (/\ actions = <<Did("oop", "bet", put[OopSeat]), Did("ip", "raise", put[IpSeat])>>
           /\ OneRaise(IpSeat, OopSeat))
    <3> SUFFICES ASSUME actions = <<Did("oop", "bet", put[OopSeat]), Did("ip", "raise", put[IpSeat])>>
                 PROVE  FALSE
      OBVIOUS
    <3>1. 2 \in DOMAIN actions /\ actions[2].action = "raise"
      BY DEF Did
    <3> QED
      BY <1>1, <3>1
  <2>3. ~ (/\ actions = <<Did("oop", "check", None), Did("ip", "bet", put[IpSeat]),
                         Did("oop", "raise", put[OopSeat])>>
           /\ OneRaise(OopSeat, IpSeat))
    <3> SUFFICES ASSUME actions = <<Did("oop", "check", None), Did("ip", "bet", put[IpSeat]),
                                    Did("oop", "raise", put[OopSeat])>>
                 PROVE  FALSE
      OBVIOUS
    <3>1. 3 \in DOMAIN actions /\ actions[3].action = "raise"
      BY DEF Did
    <3> QED
      BY <1>1, <3>1
  <2> QED
    BY <1>3, <2>1, <2>2, <2>3 DEF StreetLine
<1>10. total >= 2 * wager \/ stack'[turn] = 0
  BY <1>2, <1>5, <1>8, <1>9 DEF OneBet
<1>11. owes' # {} => StreetLine'
  <2> SUFFICES ASSUME owes' # {} PROVE StreetLine'
    OBVIOUS
  <2>0. turn' \in owes'
    BY <1>8 DEF TypeInv
  <2>1. CASE actions = <<Did("oop", "bet", put[OopSeat])>> /\ OneBet(OopSeat, IpSeat)
    <3>1. turn = IpSeat /\ owes' = {OopSeat} /\ turn' = OopSeat
      BY <1>4, <1>8, <2>0, <2>1 DEF OneBet
    <3>2. put'[OopSeat] = put[OopSeat] /\ put'[IpSeat] = total
      BY <1>4, <1>8, <3>1
    <3>3. actions' = <<Did("oop", "bet", put'[OopSeat]), Did("ip", "raise", put'[IpSeat])>>
      BY <1>1, <1>4, <1>7, <2>1, <3>1, <3>2, StreetRecordFacts
    <3>4. put[OopSeat] = wager
      BY <2>1 DEF OneBet
    <3>5. OneRaise(IpSeat, OopSeat)'
      BY <1>1, <1>2, <1>5, <1>8, <1>10, <3>1, <3>2, <3>4 DEF OneRaise
    <3> QED
      BY <1>8, <3>3, <3>5 DEF StreetLine, Did
  <2>2. CASE /\ actions = <<Did("oop", "check", None), Did("ip", "bet", put[IpSeat])>>
             /\ OneBet(IpSeat, OopSeat)
    <3>1. turn = OopSeat /\ owes' = {IpSeat} /\ turn' = IpSeat
      BY <1>4, <1>8, <2>0, <2>2 DEF OneBet
    <3>2. put'[IpSeat] = put[IpSeat] /\ put'[OopSeat] = total
      BY <1>4, <1>8, <3>1
    <3>3. actions' = <<Did("oop", "check", None), Did("ip", "bet", put'[IpSeat]),
                       Did("oop", "raise", put'[OopSeat])>>
      BY <1>1, <1>4, <1>7, <2>2, <3>1, <3>2, StreetRecordFacts
    <3>4. put[IpSeat] = wager
      BY <2>2 DEF OneBet
    <3>5. OneRaise(OopSeat, IpSeat)'
      BY <1>1, <1>2, <1>5, <1>8, <1>10, <3>1, <3>2, <3>4 DEF OneRaise
    <3> QED
      BY <1>8, <3>3, <3>5 DEF StreetLine, Did
  <2> QED
    BY <1>9, <2>1, <2>2
<1> QED
  BY <1>8, <1>11 DEF TableInv

\* A bet is the first wager of a street, and no more than either player has.
LEMMA BetKeeps ==
    ASSUME TableInv, Bet
    PROVE  TableInv'
<1> DEFINE sizes == {pot \div 2} \union {stack[seat] : seat \in live}
           total == Min(sizes)
           seats == live \ {turn}
<1>1. /\ owes # {} /\ turn \in owes /\ owes \subseteq live /\ live \subseteq Dealt /\ turn \in Dealt
      /\ live' = live /\ PassTurn(seats) /\ start' = start /\ wager' = total
      /\ added' = total /\ street' = street /\ TypeInv /\ PutInTotal(total) /\ Record("bet", total)
      /\ wager = 0 /\ street # "preflop"
  BY DEF Bet, Acts, TableInv, TypeInv
<1>2. put \in [Dealt -> Nat] /\ stack \in [Dealt -> Nat] /\ pot \in Nat
  BY <1>1 DEF TypeInv
<1>3. (\E a, b \in Dealt : a # b /\ live = {a, b}) /\ StreetLine /\ pot >= 150
  BY <1>1 DEF TableInv, StreetInv, ChipsInv
<1>4. /\ OopSeat \in Dealt /\ IpSeat \in Dealt /\ OopSeat # IpSeat /\ live = {OopSeat, IpSeat}
      /\ Role(OopSeat) = "oop" /\ Role(IpSeat) = "ip"
  BY <1>1, <1>3, TwoLeft
<1>5. /\ put[OopSeat] = 0 /\ put[IpSeat] = 0 /\ stack[OopSeat] > 0 /\ stack[IpSeat] > 0
      /\ \/ actions = <<>> /\ turn = OopSeat
         \/ actions = <<Did("oop", "check", None)>> /\ turn = IpSeat
  <2>1. put[OopSeat] \in Nat /\ put[IpSeat] \in Nat
    BY <1>2, <1>4
  <2>2. /\ NothingIn
        /\ \/ actions = <<>> /\ turn = OopSeat
           \/ actions = <<Did("oop", "check", None)>> /\ turn = IpSeat
    BY <1>1, <1>3, <2>1 DEF StreetLine, OneBet, OneRaise
  <2> QED
    BY <2>2 DEF NothingIn
<1>6. sizes \in SUBSET Nat /\ \A size \in sizes : size > 0
  <2>1. pot \div 2 \in Nat /\ pot \div 2 > 0
    BY <1>2, <1>3
  <2>2. \A seat \in live : stack[seat] \in Nat /\ stack[seat] > 0
    BY <1>1, <1>2, <1>4, <1>5
  <2> QED
    BY <2>1, <2>2
<1>7. total \in sizes /\ \A size \in sizes : total <= size
  <2>1. sizes # {}
    OBVIOUS
  <2> HIDE DEF sizes
  <2> QED
    BY <1>6, <2>1, MinIsLeast
<1>8. total \in Nat /\ total > 0 /\ \A seat \in live : total <= stack[seat]
  BY <1>6, <1>7
<1> HIDE DEF total, sizes
<1>9. put[turn] = 0
  BY <1>5
<1>10. log' = log /\ actions' = Append(actions, Did(Role(turn), "bet", total))
  BY <1>1, StreetRecordFacts
<1>11. \A seat \in live : total <= put[seat] + stack[seat]
  BY <1>4, <1>5, <1>8, <1>2
<1>12. /\ TypeInv' /\ ChipsInv' /\ BookInv' /\ WagerInv' /\ LapInv' /\ owes' = seats
       /\ (owes' # {} => StreetLine') => StreetInv'
       /\ OopSeat' = OopSeat /\ IpSeat' = IpSeat
       /\ put'[turn] = total
       /\ \A seat \in live \ {turn} : put'[seat] = put[seat]
  <2>1. seats \in SUBSET (live \ {turn})
    OBVIOUS
  <2>2. wager' \in Nat /\ added' \in Nat /\ wager <= wager' /\ total <= wager'
        /\ \A seat \in live : wager' <= put[seat] + stack[seat]
    BY <1>1, <1>8, <1>11
  <2>3. put[turn] <= total /\ total <= put[turn] + stack[turn]
    BY <1>1, <1>8, <1>9, <1>11
  <2> HIDE DEF seats
  <2> QED
    BY <1>1, <1>8, <1>10, <2>1, <2>2, <2>3, StreetStakeKeeps
<1>13. StreetLine'
  <2>0. turn' \in owes'
    BY <1>4, <1>5, <1>12 DEF TypeInv
  <2>1. CASE actions = <<>> /\ turn = OopSeat
    <3>1. owes' = {IpSeat} /\ turn' = IpSeat
      BY <1>4, <1>12, <2>0, <2>1
    <3>2. put'[OopSeat] = total /\ put'[IpSeat] = 0
      BY <1>4, <1>5, <1>12, <2>1
    <3>3. actions' = <<Did("oop", "bet", put'[OopSeat])>>
      BY <1>1, <1>4, <1>10, <2>1, <3>2, StreetRecordFacts
    <3>4. OneBet(OopSeat, IpSeat)'
      BY <1>1, <1>8, <1>12, <3>1, <3>2 DEF OneBet
    <3> QED
      BY <1>12, <3>3, <3>4 DEF StreetLine, Did
  <2>2. CASE actions = <<Did("oop", "check", None)>> /\ turn = IpSeat
    <3>1. owes' = {OopSeat} /\ turn' = OopSeat
      BY <1>4, <1>12, <2>0, <2>2
    <3>2. put'[IpSeat] = total /\ put'[OopSeat] = 0
      BY <1>4, <1>5, <1>12, <2>2
    <3>3. actions' = <<Did("oop", "check", None), Did("ip", "bet", put'[IpSeat])>>
      BY <1>1, <1>4, <1>10, <2>2, <3>2, StreetRecordFacts
    <3>4. OneBet(IpSeat, OopSeat)'
      BY <1>1, <1>8, <1>12, <3>1, <3>2 DEF OneBet
    <3> QED
      BY <1>12, <3>3, <3>4 DEF StreetLine, Did
  <2> QED
    BY <1>5, <2>1, <2>2
<1> QED
  BY <1>12, <1>13 DEF TableInv

\* A street begins between two players with chips, and with nothing put in.
LEMMA NextStreetKeeps ==
    ASSUME TableInv, NextStreet
    PROVE  TableInv'
<1>1. /\ owes = {} /\ Cardinality(live) = 2 /\ (\A seat \in live : stack[seat] > 0)
      /\ street # LastStreet /\ street' = (IF street = "preflop" THEN "flop" ELSE "turn")
      /\ put' = [seat \in Dealt |-> 0] /\ wager' = 0 /\ added' = 0 /\ actions' = <<>>
      /\ owes' = live /\ turn' = FirstOf(live) /\ start' = start /\ stack' = stack /\ pot' = pot
      /\ live' = live /\ log' = log /\ TypeInv
  BY DEF NextStreet, TableInv
<1>2. Dealt' = Dealt /\ OopSeat' = OopSeat /\ IpSeat' = IpSeat /\ (\A seat : Spent(seat)' = Spent(seat))
  BY <1>1, SameTwo DEF Dealt, Spent
<1>3. /\ stack \in [Dealt -> Nat] /\ pot \in Nat /\ live \subseteq Dealt /\ pot >= 150
      /\ street \in {"preflop", "flop", "turn"}
  BY <1>1 DEF TableInv, TypeInv, ChipsInv
<1>4. \E a, b \in Dealt : a # b /\ live = {a, b}
  BY <1>1, <1>3, PairOfSeats
<1>5. OopSeat \in Dealt /\ IpSeat \in Dealt /\ OopSeat # IpSeat /\ live = {OopSeat, IpSeat}
  BY <1>1, <1>4, TwoLeft
<1>6. street' \in {"flop", "turn"}
  BY <1>1
<1>7. put' \in [Dealt -> Nat] /\ \A seat \in Dealt : put'[seat] = 0
  BY <1>1
<1>8. turn' = OopSeat
  BY <1>1 DEF OopSeat
<1>9. TypeInv'
  BY <1>1, <1>2, <1>3, <1>5, <1>6, <1>7, <1>8 DEF TypeInv
<1>10. ChipsInv'
  <2>1. \A seat \in Dealt : put'[seat] <= wager'
    BY <1>1, <1>7
  <2> QED
    BY <1>1, <1>2, <1>6, <2>1 DEF TableInv, ChipsInv
<1>11. BookInv' /\ WagerInv' /\ LapInv'
  BY <1>6 DEF BookInv, WagerInv, LapInv
<1>12. StreetInv'
  <2>1. NothingIn'
    BY <1>1, <1>2, <1>5, <1>7 DEF NothingIn
  <2>2. StreetLine'
    BY <1>1, <1>2, <1>8, <2>1 DEF StreetLine, Did
  <2>3. \A seat \in live : wager' <= put'[seat] + stack'[seat]
    BY <1>1, <1>3, <1>7
  <2>4. pot' >= put'[OopSeat] + put'[IpSeat] + 150
    BY <1>1, <1>3, <1>5, <1>7
  <2> QED
    BY <1>1, <1>2, <1>4, <2>2, <2>3, <2>4 DEF StreetInv
<1> QED
  BY <1>9, <1>10, <1>11, <1>12 DEF TableInv

-----------------------------------------------------------------------------
(***************************************************************************)
(* The theorem                                                             *)
(***************************************************************************)

\* A hand begins with the blinds posted and everyone asked.
LEMMA DealKeeps ==
    ASSUME Init
    PROVE  TableInv
<1>1. /\ start \in Profiles /\ Dealt \subseteq Seats /\ SmallBlind \in Dealt /\ BigBlind \in Dealt
      /\ \A seat \in Dealt : start[seat] \in Nat /\ start[seat] >= 150 /\ Posted[seat] \in {0, 50, 100}
  BY DealtFacts DEF Init
<1>2. /\ stack = [seat \in Dealt |-> start[seat] - Posted[seat]]
      /\ put = [seat \in Dealt |-> Posted[seat]]
      /\ pot = 150 /\ live = Dealt /\ owes = Dealt /\ turn = Min(Dealt) /\ wager = 100
      /\ added = 100 /\ street = "preflop" /\ log = <<>>
  BY DEF Init
<1>3. turn \in Dealt /\ \A seat \in Dealt : turn <= seat
  <2>1. Dealt \in SUBSET Nat /\ Dealt # {}
    BY <1>1 DEF Seats
  <2> QED
    BY <1>2, <2>1, MinIsLeast
<1>4. \A seat \in Dealt : /\ stack[seat] = start[seat] - Posted[seat] /\ put[seat] = Posted[seat]
                          /\ stack[seat] \in Nat /\ put[seat] \in Nat
  BY <1>1, <1>2
<1>5. DOMAIN log = {} /\ Raised = {} /\ Actors = {} /\ Len(log) = 0
  BY <1>2 DEF Raised, Actors
<1>6. TypeInv
  <2>1. stack \in [Dealt -> Nat] /\ put \in [Dealt -> Nat]
    BY <1>2, <1>4
  <2> QED
    BY <1>1, <1>2, <1>3, <2>1 DEF TypeInv
<1>7. ChipsInv
  <2>1. \A seat \in {1, 2, 3, 4, 5, 6} : Spent(seat) = IF seat \in Dealt THEN Posted[seat] ELSE 0
    BY <1>1, <1>4 DEF Spent
  <2>2. pot = Spent(1) + Spent(2) + Spent(3) + Spent(4) + Spent(5) + Spent(6)
    BY <1>1, <1>2, <2>1 DEF Posted, SmallBlind, BigBlind
  <2>3. \A seat \in Dealt : put[seat] <= wager /\ put[seat] + stack[seat] = start[seat]
                            /\ put[seat] >= Posted[seat]
    <3> TAKE seat \in Dealt
    <3>1. /\ stack[seat] = start[seat] - Posted[seat] /\ put[seat] = Posted[seat]
          /\ start[seat] \in Nat /\ Posted[seat] \in {0, 50, 100} /\ wager = 100
      BY <1>1, <1>2, <1>4
    <3> HIDE DEF Posted
    <3> QED
      BY <3>1
  <2> QED
    BY <1>2, <2>2, <2>3 DEF ChipsInv
<1>8. BookInv /\ WagerInv
  BY <1>2, <1>4, <1>5 DEF BookInv, WagerInv
<1>9. LapInv
  <2>1. \A seat \in live : ~ (seat < turn)
    <3> TAKE seat \in live
    <3>1. turn <= seat /\ turn \in 1 .. 6 /\ seat \in 1 .. 6
      BY <1>1, <1>2, <1>3 DEF Seats
    <3> QED
      BY <3>1
  <2> QED
    BY <1>2, <1>5, <2>1 DEF LapInv
<1> QED
  BY <1>2, <1>6, <1>7, <1>8, <1>9 DEF TableInv, StreetInv

\* Every step of a hand keeps the invariant of the table.
LEMMA StepKeeps ==
    ASSUME TableInv, [Next]_vars
    PROVE  TableInv'
<1>1. CASE Fold
  BY <1>1, FoldKeeps
<1>2. CASE Check
  BY <1>2, CheckKeeps, StreetCheckKeeps
<1>3. CASE Call
  BY <1>3, CallKeeps, StreetCallKeeps
<1>4. CASE \E total \in RaiseTotals : Raise(total)
  BY <1>4, RaiseKeeps, StreetRaiseKeeps
<1>5. CASE Bet
  BY <1>5, BetKeeps
<1>6. CASE NextStreet
  BY <1>6, NextStreetKeeps
<1>7. CASE UNCHANGED vars
  <2>1. /\ start' = start /\ stack' = stack /\ put' = put /\ pot' = pot /\ live' = live /\ owes' = owes
        /\ turn' = turn /\ wager' = wager /\ added' = added /\ street' = street /\ log' = log
        /\ actions' = actions
    BY <1>7 DEF vars
  <2>2. /\ Dealt' = Dealt /\ OopSeat' = OopSeat /\ IpSeat' = IpSeat /\ Raised' = Raised /\ Actors' = Actors
        /\ \A seat : Spent(seat)' = Spent(seat)
    BY <2>1, SameTwo DEF Dealt, Raised, Actors, Spent
  <2>3. TypeInv' /\ ChipsInv'
    BY <2>1, <2>2 DEF TableInv, TypeInv, ChipsInv
  <2>6. BookInv' /\ WagerInv'
    BY <2>1, <2>2 DEF TableInv, BookInv, WagerInv
  <2>7. LapInv'
    BY <2>1, <2>2 DEF TableInv, LapInv
  <2>4. StreetLine' = StreetLine
    BY <2>1, <2>2 DEF StreetLine, OneBet, OneRaise, NothingIn, Did
  <2>5. StreetInv'
    BY <2>1, <2>2, <2>4 DEF TableInv, StreetInv
  <2> QED
    BY <2>3, <2>5, <2>6, <2>7 DEF TableInv
<1> QED
  BY <1>1, <1>2, <1>3, <1>4, <1>5, <1>6, <1>7 DEF Next

\* Safety: in every hand that is played the pot is what the seats have spent,
\* the record accounts for what each has put in, the wager is the last raise on
\* record, the first lap goes round in order of the seats, and after the flop
\* the actions are those of one of six lines between two players.
THEOREM TableInvariant == Spec => []TableInv
<1>1. Init => TableInv
  BY DealKeeps
<1>2. TableInv /\ [Next]_vars => TableInv'
  BY StepKeeps
<1> QED
  BY <1>1, <1>2, PTL DEF Spec
-----------------------------------------------------------------------------
(***************************************************************************)
(* What is left of the streets that are over                               *)
(***************************************************************************)

\* What everybody who sees the flop has put in before it.
PreflopWager == IF Raised = {} THEN 100 ELSE log[Max(Raised)].amount

\* The record of a street that is over and went on: nothing was bet, or both
\* have put in this total.
ClosedStreet(line, total) ==
    \/ line = <<Did("oop", "check", None), Did("ip", "check", None)>> /\ total = 0
    \/ /\ line = <<Did("oop", "bet", total), Did("ip", "call", total)>>
       /\ total >= 75
    \/ /\ line = <<Did("oop", "check", None), Did("ip", "bet", total), Did("oop", "call", total)>>
       /\ total >= 75
    \/ \E bet \in 75 .. total \div 2 :
            \/ line = <<Did("oop", "bet", bet), Did("ip", "raise", total), Did("oop", "call", total)>>
            \/ line = <<Did("oop", "check", None), Did("ip", "bet", bet),
                        Did("oop", "raise", total), Did("ip", "call", total)>>

\* Before the flop whoever does not have to act has the wager in, or is all in.
CallsInv ==
    /\ street = "preflop" => \A seat \in live \ owes : put[seat] = wager \/ stack[seat] = 0
    /\ street = "flop" => LastStreet # "preflop"
    /\ street = "turn" => LastStreet = "turn"

\* After the flop nobody has a small amount in, but where it is all that one has.
AmountsInv ==
    street # "preflop" =>
        \A seat \in live :
            put[seat] = 0 \/ put[seat] >= 75 \/ \E other \in live : put[other] + stack[other] = wager

\* A street that is over is closed, if it goes on.
ClosedInv ==
    street # "preflop" /\ owes = {} /\ (\A seat \in live : stack[seat] > 0) =>
        ClosedStreet(actions, wager) /\ \A seat \in live : put[seat] = wager

\* Who sees the flop has come in, and for the same as the others.
FlopInv ==
    street # "preflop" =>
        /\ \A seat \in live : seat \in Actors \/ (seat = BigBlind /\ Raised = {})
        /\ Raised = {} => \A i \in DOMAIN log : log[i].amount = 100
        /\ PreflopWager \in Nat

\* What both have put in on the flop, when the turn is dealt.
FlopTotal == LET line == done[1].actions IN Known(line[Len(line)].amount, 0)
Earlier == IF street = "turn" THEN FlopTotal ELSE 0

\* The streets before this one, and what is left of the stacks.
StreetsInv ==
    /\ street \in {"preflop", "flop"} => done = <<>>
    /\ street = "turn" =>
         /\ done = <<[street |-> "flop", actions |-> done[1].actions]>>
         /\ ClosedStreet(done[1].actions, FlopTotal) /\ FlopTotal \in Nat
    /\ street # "preflop" =>
         \A seat \in live : start[seat] = stack[seat] + put[seat] + Earlier + PreflopWager

HandInv == CallsInv /\ AmountsInv /\ ClosedInv /\ FlopInv /\ StreetsInv

\* While a street lasts, what is left of the streets before it does not change.
LEMMA StreetStays ==
    ASSUME TableInv, HandInv, street # "preflop",
           start' = start, live' = live, log' = log, done' = done, street' = street,
           \A seat \in live : stack'[seat] + put'[seat] = stack[seat] + put[seat],
           TableInv'
    PROVE  CallsInv' /\ FlopInv' /\ StreetsInv'
<1>1. Raised' = Raised /\ Actors' = Actors /\ PreflopWager' = PreflopWager
      /\ FlopTotal' = FlopTotal /\ Earlier' = Earlier
  BY DEF Raised, Actors, PreflopWager, FlopTotal, Earlier
<1>2. CallsInv' /\ FlopInv'
  BY <1>1 DEF HandInv, CallsInv, FlopInv
<1>3. \A seat \in live : start'[seat] = stack'[seat] + put'[seat] + Earlier' + PreflopWager'
  <2> TAKE seat \in live
  <2>1. start[seat] = stack[seat] + put[seat] + Earlier + PreflopWager
    BY DEF HandInv, StreetsInv
  <2>2. /\ stack[seat] \in Nat /\ put[seat] \in Nat /\ stack'[seat] \in Nat /\ put'[seat] \in Nat
        /\ stack'[seat] + put'[seat] = stack[seat] + put[seat]
    BY DEF TableInv, TypeInv, Dealt
  <2>3. stack[seat] + put[seat] + Earlier + PreflopWager
          = stack'[seat] + put'[seat] + Earlier + PreflopWager
    BY <2>2
  <2> QED
    BY <1>1, <2>1, <2>3
<1>4. StreetsInv'
  BY <1>1, <1>3 DEF HandInv, StreetsInv, ClosedStreet, Did
<1> QED
  BY <1>2, <1>4

\* A fold, a check or a call before the flop: whoever need not act has the wager
\* in, or nothing more to put in.
LEMMA CallsKept ==
    ASSUME HandInv, TypeInv, street = "preflop", street' = street, done' = done, wager' = wager,
           NEW keep \in SUBSET live, live' = keep, owes' = owes \ {turn},
           \A seat \in keep \ {turn} : put'[seat] = put[seat] /\ stack'[seat] = stack[seat],
           turn \in keep => put'[turn] = wager \/ stack'[turn] = 0
    PROVE  HandInv'
<1>1. ASSUME NEW seat \in live' \ owes' PROVE put'[seat] = wager' \/ stack'[seat] = 0
  <2>1. CASE seat = turn
    BY <2>1, <1>1
  <2>2. CASE seat # turn
    <3>1. seat \in live \ owes /\ put'[seat] = put[seat] /\ stack'[seat] = stack[seat]
      BY <1>1, <2>2
    <3> QED
      BY <3>1 DEF HandInv, CallsInv
  <2> QED
    BY <2>1, <2>2
<1> QED
  BY <1>1 DEF HandInv, CallsInv, AmountsInv, ClosedInv, FlopInv, StreetsInv

\* A fold.
LEMMA FoldKeepsHand ==
    ASSUME TableInv, HandInv, Fold
    PROVE  HandInv'
<1>1. /\ turn \in owes /\ live' = live \ {turn} /\ PassTurn(owes \ {turn}) /\ street = "preflop"
      /\ stack' = stack /\ put' = put /\ wager' = wager /\ street' = street /\ done' = done
  BY DEF Fold, Acts, TableInv, TypeInv
<1>2. owes' = owes \ {turn}
  BY <1>1 DEF PassTurn
<1>3. live \ {turn} \in SUBSET live /\ turn \notin live \ {turn} /\ TypeInv
  BY DEF TableInv
<1> QED
  BY <1>1, <1>2, <1>3, CallsKept

\* A check before the flop.
LEMMA CheckKeepsHand ==
    ASSUME TableInv, HandInv, Check, street = "preflop"
    PROVE  HandInv'
<1>1. /\ turn \in owes /\ live' = live /\ PassTurn(owes \ {turn}) /\ put[turn] = wager
      /\ stack' = stack /\ put' = put /\ wager' = wager /\ street' = street /\ done' = done
  BY DEF Check, Acts, TableInv, TypeInv
<1>2. owes' = owes \ {turn}
  BY <1>1 DEF PassTurn
<1>3. live \in SUBSET live /\ TypeInv
  BY DEF TableInv
<1> QED
  BY <1>1, <1>2, <1>3, CallsKept

\* A call before the flop.
LEMMA CallKeepsHand ==
    ASSUME TableInv, HandInv, Call, street = "preflop"
    PROVE  HandInv'
<1> DEFINE total == Min({wager, put[turn] + stack[turn]})
<1>1. /\ turn \in owes /\ turn \in live /\ live \subseteq Dealt /\ live' = live /\ PassTurn(owes \ {turn})
      /\ PutInTotal(total) /\ wager' = wager /\ street' = street /\ done' = done /\ TypeInv
      /\ put \in [Dealt -> Nat] /\ stack \in [Dealt -> Nat] /\ wager \in Nat
  BY DEF Call, Acts, TableInv, TypeInv
<1>2. owes' = owes \ {turn}
  BY <1>1 DEF PassTurn
<1>3. put[turn] \in Nat /\ stack[turn] \in Nat
  BY <1>1
<1>4. total = wager \/ total = put[turn] + stack[turn]
  <2>1. put[turn] + stack[turn] \in Nat
    BY <1>3
  <2>2. {wager, put[turn] + stack[turn]} \in SUBSET Nat /\ {wager, put[turn] + stack[turn]} # {}
    BY <1>1, <2>1
  <2>3. Min({wager, put[turn] + stack[turn]}) \in {wager, put[turn] + stack[turn]}
    BY <2>2, MinIsLeast
  <2> QED
    BY <2>3
<1> HIDE DEF total
<1>5. /\ put'[turn] = total /\ stack'[turn] = stack[turn] - (total - put[turn])
      /\ \A seat \in live \ {turn} : put'[seat] = put[seat] /\ stack'[seat] = stack[seat]
  BY <1>1 DEF PutInTotal
<1>6. put'[turn] = wager \/ stack'[turn] = 0
  BY <1>1, <1>3, <1>4, <1>5
<1>7. live \in SUBSET live
  OBVIOUS
<1> QED
  BY <1>1, <1>2, <1>5, <1>6, <1>7, CallsKept

\* A raise before the flop asks all that have chips.
LEMMA RaiseKeepsHand ==
    ASSUME TableInv, HandInv, NEW total \in RaiseTotals, Raise(total), street = "preflop"
    PROVE  HandInv'
<1> DEFINE seats == {seat \in live \ {turn} : stack[seat] > 0}
<1>1. /\ turn \in live /\ live \subseteq Dealt /\ live' = live /\ PassTurn(seats)
      /\ PutInTotal(total) /\ wager' = total /\ street' = street /\ done' = done
      /\ put \in [Dealt -> Nat] /\ stack \in [Dealt -> Nat]
  BY DEF Raise, Acts, TableInv, TypeInv
<1>2. owes' = seats
  BY <1>1 DEF PassTurn
<1>3. put'[turn] = total /\ \A seat \in live \ {turn} : stack'[seat] = stack[seat] /\ stack[seat] \in Nat
  BY <1>1 DEF PutInTotal
<1>4. ASSUME NEW seat \in live' \ owes' PROVE put'[seat] = wager' \/ stack'[seat] = 0
  <2>1. CASE seat = turn
    BY <1>1, <1>3, <2>1
  <2>2. CASE seat # turn
    <3>1. seat \in live \ {turn} /\ ~ (stack[seat] > 0) /\ stack'[seat] = stack[seat] /\ stack[seat] \in Nat
      BY <1>1, <1>2, <1>3, <1>4, <2>2
    <3> QED
      BY <3>1
  <2> QED
    BY <2>1, <2>2
<1> QED
  BY <1>1, <1>4 DEF HandInv, CallsInv, AmountsInv, ClosedInv, FlopInv, StreetsInv

\* A check after the flop closes the street if it is the second one.
LEMMA StreetCheckKeepsHand ==
    ASSUME TableInv, HandInv, Check, street # "preflop"
    PROVE  HandInv'
<1>1. /\ owes # {} /\ turn \in owes /\ owes \subseteq live /\ live \subseteq Dealt
      /\ live' = live /\ PassTurn(owes \ {turn}) /\ start' = start /\ stack' = stack
      /\ put' = put /\ wager' = wager /\ street' = street /\ done' = done
      /\ put[turn] = wager /\ Record("check", None) /\ TypeInv
  BY DEF Check, Acts, TableInv, TypeInv
<1>2. owes' = owes \ {turn} /\ log' = log
      /\ actions' = Append(actions, Did(Role(turn), "check", None))
  BY <1>1, StreetRecordFacts DEF PassTurn
<1>3. TableInv'
  BY StreetCheckKeeps
<1>4. CallsInv' /\ FlopInv' /\ StreetsInv'
  BY <1>1, <1>2, <1>3, StreetStays
<1>5. AmountsInv'
  BY <1>1 DEF HandInv, AmountsInv
<1>6. ClosedInv'
  <2> SUFFICES ASSUME owes' = {}
               PROVE  ClosedStreet(actions', wager') /\ \A seat \in live : put'[seat] = wager'
    BY <1>1 DEF ClosedInv
  <2>1. /\ \E a, b \in Dealt : a # b /\ live = {a, b}
        /\ StreetLine
    BY <1>1 DEF TableInv, StreetInv
  <2>2. /\ OopSeat \in Dealt /\ IpSeat \in Dealt /\ OopSeat # IpSeat /\ live = {OopSeat, IpSeat}
        /\ Role(OopSeat) = "oop" /\ Role(IpSeat) = "ip"
    BY <1>1, <2>1, TwoLeft
  <2>3. wager \in Nat /\ put \in [Dealt -> Nat]
    BY <1>1 DEF TypeInv
  <2>4. owes = {turn}
    BY <1>1, <1>2
  <2>5. NothingIn /\ turn = IpSeat /\ actions = <<Did("oop", "check", None)>>
    <3>1. owes # live
      <4> SUFFICES ASSUME live = {turn} PROVE FALSE
        BY <2>4
      <4> QED
        BY <2>2
    <3>2. ~ (wager > 0 /\ put[turn] = 0)
      BY <1>1, <2>3
    <3>3. ~ (put[turn] < wager)
      BY <1>1, <2>3
    <3>4. ~ OneBet(OopSeat, IpSeat) /\ ~ OneBet(IpSeat, OopSeat)
      BY <3>2 DEF OneBet
    <3>5. ~ OneRaise(IpSeat, OopSeat) /\ ~ OneRaise(OopSeat, IpSeat)
      BY <3>3 DEF OneRaise
    <3> QED
      BY <2>1, <3>1, <3>4, <3>5 DEF StreetLine
  <2>6. actions' = <<Did("oop", "check", None), Did("ip", "check", None)>>
    BY <1>1, <1>2, <2>2, <2>5, StreetRecordFacts
  <2>7. wager' = 0 /\ \A seat \in live : put'[seat] = wager'
    BY <1>1, <2>2, <2>5 DEF NothingIn
  <2> QED
    BY <2>6, <2>7 DEF ClosedStreet
<1> QED
  BY <1>4, <1>5, <1>6 DEF HandInv

\* What an action with chips leaves to every seat.
LEMMA StakeInHand ==
    ASSUME TypeInv, turn \in live, NEW total \in Nat, PutInTotal(total)
    PROVE  /\ put'[turn] = total /\ stack'[turn] = stack[turn] - (total - put[turn])
           /\ \A seat \in live \ {turn} : put'[seat] = put[seat] /\ stack'[seat] = stack[seat]
           /\ \A seat \in live : /\ stack'[seat] + put'[seat] = stack[seat] + put[seat]
                                 /\ put[seat] \in Nat /\ stack[seat] \in Nat
<1>1. put \in [Dealt -> Nat] /\ stack \in [Dealt -> Nat] /\ live \subseteq Dealt
  BY DEF TypeInv
<1>2. /\ put'[turn] = total /\ stack'[turn] = stack[turn] - (total - put[turn])
      /\ \A seat \in live \ {turn} : put'[seat] = put[seat] /\ stack'[seat] = stack[seat]
  BY <1>1 DEF PutInTotal
<1>3. ASSUME NEW seat \in live
      PROVE  /\ stack'[seat] + put'[seat] = stack[seat] + put[seat]
             /\ put[seat] \in Nat /\ stack[seat] \in Nat
  <2>1. put[seat] \in Nat /\ stack[seat] \in Nat
    BY <1>1
  <2>2. CASE seat = turn
    BY <1>2, <2>1, <2>2
  <2>3. CASE seat # turn
    BY <1>2, <2>1, <2>3
  <2> QED
    BY <2>1, <2>2, <2>3
<1> QED
  BY <1>2, <1>3

\* A wager that somebody faces after the flop is one somebody has in, of three
\* quarters of a big blind or of all that one of the two has.
LEMMA WagerFaced ==
    ASSUME TableInv, HandInv, street # "preflop", owes # {}, put[turn] < wager
    PROVE  /\ wager \in Nat /\ owes = {turn}
           /\ \E seat \in live : seat # turn /\ live = {turn, seat} /\ put[seat] = wager
           /\ wager >= 75 \/ \E other \in live : put[other] + stack[other] = wager
           /\ \/ /\ actions = <<Did("oop", "bet", wager)>>
                 /\ turn = IpSeat
              \/ /\ actions = <<Did("oop", "check", None), Did("ip", "bet", wager)>>
                 /\ turn = OopSeat
              \/ /\ actions = <<Did("oop", "bet", put[turn]), Did("ip", "raise", wager)>>
                 /\ turn = OopSeat /\ OneRaise(IpSeat, OopSeat)
              \/ /\ actions = <<Did("oop", "check", None), Did("ip", "bet", put[turn]),
                               Did("oop", "raise", wager)>>
                 /\ turn = IpSeat /\ OneRaise(OopSeat, IpSeat)
<1>1. /\ TypeInv /\ StreetLine /\ \E a, b \in Dealt : a # b /\ live = {a, b}
  BY DEF TableInv, StreetInv
<1>2. OopSeat \in Dealt /\ IpSeat \in Dealt /\ OopSeat # IpSeat /\ live = {OopSeat, IpSeat}
  BY <1>1, TwoLeft
<1>3. wager \in Nat /\ put \in [Dealt -> Nat]
  BY <1>1 DEF TypeInv
<1>4. ~ (NothingIn /\ (turn = OopSeat \/ turn = IpSeat))
  BY DEF NothingIn
<1>5. /\ owes = {turn}
      /\ \/ turn = IpSeat /\ put[OopSeat] = wager
         \/ turn = OopSeat /\ put[IpSeat] = wager
      /\ \/ /\ actions = <<Did("oop", "bet", wager)>>
            /\ turn = IpSeat
         \/ /\ actions = <<Did("oop", "check", None), Did("ip", "bet", wager)>>
            /\ turn = OopSeat
         \/ /\ actions = <<Did("oop", "bet", put[turn]), Did("ip", "raise", wager)>>
            /\ turn = OopSeat /\ OneRaise(IpSeat, OopSeat)
         \/ /\ actions = <<Did("oop", "check", None), Did("ip", "bet", put[turn]),
                          Did("oop", "raise", wager)>>
            /\ turn = IpSeat /\ OneRaise(OopSeat, IpSeat)
  BY <1>1, <1>4 DEF StreetLine, OneBet, OneRaise
<1>6. PICK seat \in live : seat # turn /\ live = {turn, seat} /\ put[seat] = wager
  BY <1>2, <1>5
<1>7. wager > 0
  <2>1. turn \in Dealt
    BY <1>1 DEF TypeInv
  <2> QED
    BY <1>3, <2>1
<1>8. wager >= 75 \/ \E other \in live : put[other] + stack[other] = wager
  BY <1>3, <1>6, <1>7 DEF HandInv, AmountsInv
<1> QED
  BY <1>3, <1>5, <1>6, <1>8

\* A fourth element.
LEMMA AppendToThree ==
    ASSUME NEW a, NEW b, NEW c, NEW d PROVE Append(<<a, b, c>>, d) = <<a, b, c, d>>
<1> DEFINE S == {a, b, c, d}
<1>1. <<a, b, c>> \in Seq(S) /\ <<a, b, c, d>> \in Seq(S) /\ d \in S
  OBVIOUS
<1>2. /\ Append(<<a, b, c>>, d) \in Seq(S) /\ Len(Append(<<a, b, c>>, d)) = 4
      /\ Append(<<a, b, c>>, d)[1] = a /\ Append(<<a, b, c>>, d)[2] = b
      /\ Append(<<a, b, c>>, d)[3] = c /\ Append(<<a, b, c>>, d)[4] = d
  BY <1>1
<1>3. Len(<<a, b, c, d>>) = 4 /\ \A i \in 1 .. 4 : Append(<<a, b, c>>, d)[i] = <<a, b, c, d>>[i]
  BY <1>2
<1> HIDE DEF S
<1> QED
  BY <1>1, <1>2, <1>3, SeqEqual

\* A call after the flop closes the street.
LEMMA StreetCallKeepsHand ==
    ASSUME TableInv, HandInv, Call, street # "preflop"
    PROVE  HandInv'
<1> DEFINE total == Min({wager, put[turn] + stack[turn]})
<1>1. /\ owes # {} /\ turn \in owes /\ owes \subseteq live /\ live \subseteq Dealt /\ turn \in live
      /\ live' = live /\ PassTurn(owes \ {turn}) /\ start' = start /\ wager' = wager
      /\ street' = street /\ done' = done /\ TypeInv /\ put[turn] < wager
      /\ PutInTotal(total) /\ Record("call", total)
  BY DEF Call, Acts, TableInv, TypeInv
<1>2. wager \in Nat /\ put[turn] \in Nat /\ stack[turn] \in Nat /\ wager <= put[turn] + stack[turn]
  BY <1>1 DEF TypeInv, TableInv, StreetInv
<1>3. total = wager
  <2>1. put[turn] + stack[turn] \in Nat
    BY <1>2
  <2> QED
    BY <1>2, <2>1, MinOfTwo
<1> HIDE DEF total
<1>4. /\ put'[turn] = wager /\ stack'[turn] = stack[turn] - (wager - put[turn])
      /\ \A seat \in live \ {turn} : put'[seat] = put[seat] /\ stack'[seat] = stack[seat]
      /\ \A seat \in live : /\ stack'[seat] + put'[seat] = stack[seat] + put[seat]
                            /\ put[seat] \in Nat /\ stack[seat] \in Nat
  BY <1>1, <1>2, <1>3, StakeInHand
<1>5. log' = log /\ actions' = Append(actions, Did(Role(turn), "call", wager))
  BY <1>1, <1>3, StreetRecordFacts
<1>6. TableInv'
  BY StreetCallKeeps
<1>7. CallsInv' /\ FlopInv' /\ StreetsInv'
  BY <1>1, <1>4, <1>5, <1>6, StreetStays
<1>8. PICK bettor \in live : bettor # turn /\ live = {turn, bettor} /\ put[bettor] = wager
  BY <1>1, WagerFaced
<1>9. wager >= 75 \/ \E other \in live : put[other] + stack[other] = wager
  BY <1>1, WagerFaced
<1>10. \A seat \in live : put'[seat] = wager
  BY <1>4, <1>8
<1>11. wager >= 75 \/ \E other \in live : put'[other] + stack'[other] = wager
  <2>1. CASE wager >= 75
    BY <2>1
  <2>2. ASSUME NEW other \in live, put[other] + stack[other] = wager
        PROVE  put'[other] + stack'[other] = wager
    <3>1. stack'[other] + put'[other] = stack[other] + put[other] /\ put[other] \in Nat /\ stack[other] \in Nat
      BY <1>4
    <3>2. put'[other] = wager /\ stack'[other] \in Nat
      BY <1>1, <1>6, <1>10 DEF TableInv, TypeInv
    <3> QED
      BY <1>2, <2>2, <3>1, <3>2
  <2> QED
    BY <1>9, <2>1, <2>2
<1>12. AmountsInv'
  BY <1>1, <1>10, <1>11 DEF AmountsInv
<1>13. ClosedInv'
  <2> SUFFICES ASSUME \A seat \in live : stack'[seat] > 0
               PROVE  ClosedStreet(actions', wager)
    BY <1>1, <1>10 DEF ClosedInv
  <2>1. wager >= 75
    <3> SUFFICES ASSUME NEW other \in live, put'[other] + stack'[other] = wager PROVE FALSE
      BY <1>11
    <3>1. put'[other] = wager /\ stack'[other] > 0 /\ stack'[other] + put'[other] = stack[other] + put[other]
          /\ stack[other] \in Nat /\ put[other] \in Nat
      BY <1>4, <1>10
    <3>2. stack'[other] \in Nat
      BY <1>1, <1>6 DEF TableInv, TypeInv
    <3> QED
      BY <1>2, <3>1, <3>2
  <2>2. OopSeat # IpSeat /\ Role(OopSeat) = "oop" /\ Role(IpSeat) = "ip" /\ live = {OopSeat, IpSeat}
    BY <1>1, <1>8, TwoLeft
  <2>3. CASE actions = <<Did("oop", "bet", wager)>> /\ turn = IpSeat
    <3>1. actions' = <<Did("oop", "bet", wager), Did("ip", "call", wager)>>
      BY <1>1, <1>3, <1>5, <2>2, <2>3, StreetRecordFacts
    <3> QED
      BY <2>1, <3>1 DEF ClosedStreet
  <2>4. CASE actions = <<Did("oop", "check", None), Did("ip", "bet", wager)>> /\ turn = OopSeat
    <3>1. actions' = <<Did("oop", "check", None), Did("ip", "bet", wager), Did("oop", "call", wager)>>
      BY <1>1, <1>3, <1>5, <2>2, <2>4, StreetRecordFacts
    <3> QED
      BY <2>1, <3>1 DEF ClosedStreet
  <2>5. ASSUME NEW raiser \in live, raiser # turn, OneRaise(raiser, turn)
        PROVE  put[turn] \in 75 .. wager \div 2
    <3>1. stack[raiser] > 0
      BY <1>4, <2>5
    <3>2. wager >= 2 * put[turn] /\ put[turn] > 0
      BY <1>4, <2>5, <3>1 DEF OneRaise
    <3>3. put[turn] >= 75
      <4>1. CASE \E other \in live : put[other] + stack[other] = wager
        <5>1. PICK other \in live : put[other] + stack[other] = wager
          BY <4>1
        <5>2. stack'[other] + put'[other] = wager /\ put'[other] = wager /\ stack'[other] > 0
          BY <1>4, <1>10, <5>1
        <5>3. stack'[other] \in Nat
          BY <1>1, <1>6 DEF TableInv, TypeInv
        <5> QED
          BY <1>2, <5>2, <5>3
      <4> QED
        BY <1>1, <1>2, <3>2, <4>1 DEF HandInv, AmountsInv
    <3> QED
      BY <1>2, <3>2, <3>3
  <2>6. CASE /\ actions = <<Did("oop", "bet", put[turn]), Did("ip", "raise", wager)>>
             /\ turn = OopSeat /\ OneRaise(IpSeat, OopSeat)
    <3>1. actions' = <<Did("oop", "bet", put[turn]), Did("ip", "raise", wager), Did("oop", "call", wager)>>
      BY <1>1, <1>3, <1>5, <2>2, <2>6, StreetRecordFacts
    <3>2. put[turn] \in 75 .. wager \div 2
      BY <2>2, <2>5, <2>6
    <3> QED
      BY <3>1, <3>2 DEF ClosedStreet
  <2>7. CASE /\ actions = <<Did("oop", "check", None), Did("ip", "bet", put[turn]),
                           Did("oop", "raise", wager)>>
             /\ turn = IpSeat /\ OneRaise(OopSeat, IpSeat)
    <3>1. actions' = <<Did("oop", "check", None), Did("ip", "bet", put[turn]),
                       Did("oop", "raise", wager), Did("ip", "call", wager)>>
      BY <1>1, <1>3, <1>5, <2>2, <2>7, AppendToThree
    <3>2. put[turn] \in 75 .. wager \div 2
      BY <2>2, <2>5, <2>7
    <3> QED
      BY <3>1, <3>2 DEF ClosedStreet
  <2> QED
    BY <1>1, <2>3, <2>4, <2>6, <2>7, WagerFaced
<1> QED
  BY <1>7, <1>12, <1>13 DEF HandInv

\* A raise after the flop is of three quarters of a big blind or more, and the
\* seat that bet has chips to answer it.
LEMMA StreetRaiseKeepsHand ==
    ASSUME TableInv, HandInv, NEW total \in RaiseTotals, Raise(total), street # "preflop"
    PROVE  HandInv'
<1> DEFINE seats == {seat \in live \ {turn} : stack[seat] > 0}
<1>1. /\ owes # {} /\ turn \in owes /\ owes \subseteq live /\ live \subseteq Dealt /\ turn \in live
      /\ live' = live /\ PassTurn(seats) /\ start' = start /\ wager' = total
      /\ street' = street /\ done' = done /\ TypeInv /\ put[turn] < wager
      /\ PutInTotal(total) /\ Record("raise", total)
  BY DEF Raise, Acts, TableInv, TypeInv
<1>2. wager \in Nat /\ put \in [Dealt -> Nat] /\ stack \in [Dealt -> Nat]
  BY <1>1 DEF TypeInv
<1>3. TableInv'
  BY StreetRaiseKeeps
<1>4. total \in Nat /\ wager < total
  <2>1. put[turn] <= wager
    BY <1>1, <1>2
  <2> QED
    BY <1>1, <2>1, RaiseFacts
<1>5. /\ put'[turn] = total
      /\ \A seat \in live \ {turn} : put'[seat] = put[seat] /\ stack'[seat] = stack[seat]
      /\ \A seat \in live : /\ stack'[seat] + put'[seat] = stack[seat] + put[seat]
                            /\ put[seat] \in Nat /\ stack[seat] \in Nat
  BY <1>1, <1>4, StakeInHand
<1>6. log' = log /\ owes' = seats
  BY <1>1, StreetRecordFacts DEF PassTurn
<1>7. CallsInv' /\ FlopInv' /\ StreetsInv'
  BY <1>1, <1>3, <1>5, <1>6, StreetStays
<1>8. PICK bettor \in live : bettor # turn /\ live = {turn, bettor} /\ put[bettor] = wager
  BY <1>1, WagerFaced
<1>9. \A seat \in live : total <= put[seat] + stack[seat]
  <2> TAKE seat \in live
  <2>1. total <= put'[seat] + stack'[seat]
    BY <1>1, <1>3 DEF TableInv, StreetInv
  <2>2. stack'[seat] \in Nat /\ put'[seat] \in Nat
    BY <1>1, <1>3 DEF TableInv, TypeInv, Dealt
  <2> QED
    BY <1>4, <1>5, <2>1, <2>2
<1>10. wager >= 75
  <2> SUFFICES ASSUME NEW other \in live, put[other] + stack[other] = wager PROVE FALSE
    BY <1>1, WagerFaced
  <2>1. total <= put[other] + stack[other]
    BY <1>9
  <2> QED
    BY <1>2, <1>4, <2>1
<1>11. AmountsInv'
  <2>1. put'[bettor] = wager /\ put'[turn] = total
    BY <1>5, <1>8
  <2>2. \A seat \in live : put'[seat] >= 75
    BY <1>2, <1>4, <1>8, <1>10, <2>1
  <2> QED
    BY <1>1, <2>2 DEF AmountsInv
<1>12. ClosedInv'
  <2>1. stack[bettor] > 0
    BY <1>2, <1>4, <1>5, <1>8, <1>9
  <2>2. owes' # {}
    BY <1>6, <1>8, <2>1
  <2> QED
    BY <2>2 DEF ClosedInv
<1> QED
  BY <1>7, <1>11, <1>12 DEF HandInv

\* A bet is of three quarters of a big blind or more, or all that one of the
\* two has.
LEMMA BetKeepsHand ==
    ASSUME TableInv, HandInv, Bet
    PROVE  HandInv'
<1> DEFINE sizes == {pot \div 2} \union {stack[seat] : seat \in live}
           total == Min(sizes)
<1>1. /\ owes # {} /\ turn \in owes /\ owes \subseteq live /\ live \subseteq Dealt /\ turn \in live
      /\ live' = live /\ PassTurn(live \ {turn}) /\ start' = start /\ wager' = total
      /\ street' = street /\ done' = done /\ TypeInv /\ PutInTotal(total) /\ Record("bet", total)
      /\ wager = 0 /\ street # "preflop"
  BY DEF Bet, Acts, TableInv, TypeInv
<1>2. put \in [Dealt -> Nat] /\ stack \in [Dealt -> Nat] /\ pot \in Nat
  BY <1>1 DEF TypeInv
<1>3. (\E a, b \in Dealt : a # b /\ live = {a, b}) /\ pot >= 150
  BY <1>1 DEF TableInv, StreetInv, ChipsInv
<1>4. \A seat \in live : put[seat] = 0
  <2> TAKE seat \in live
  <2>1. put[seat] <= 0 /\ put[seat] \in Nat
    BY <1>1, <1>2 DEF TableInv, ChipsInv
  <2> QED
    BY <2>1
<1>5. pot \div 2 \in Nat /\ pot \div 2 >= 75
  BY <1>2, <1>3
<1>6. sizes \in SUBSET Nat /\ sizes # {}
  <2>1. \A seat \in live : stack[seat] \in Nat
    BY <1>1, <1>2
  <2> QED
    BY <1>5, <2>1
<1>7. total \in sizes
  <2> HIDE DEF sizes
  <2> QED
    BY <1>6, MinIsLeast
<1>8. total \in Nat /\ (total >= 75 \/ \E other \in live : stack[other] = total)
  BY <1>5, <1>6, <1>7
<1> HIDE DEF total, sizes
<1>9. TableInv'
  BY BetKeeps
<1>10. /\ put'[turn] = total
       /\ \A seat \in live \ {turn} : put'[seat] = put[seat] /\ stack'[seat] = stack[seat]
       /\ \A seat \in live : /\ stack'[seat] + put'[seat] = stack[seat] + put[seat]
                             /\ put[seat] \in Nat /\ stack[seat] \in Nat
  BY <1>1, <1>8, StakeInHand
<1>11. log' = log /\ owes' = live \ {turn}
  BY <1>1, StreetRecordFacts DEF PassTurn
<1>12. CallsInv' /\ FlopInv' /\ StreetsInv'
  BY <1>1, <1>9, <1>10, <1>11, StreetStays
<1>13. AmountsInv'
  <2>1. \A seat \in live : put'[seat] = 0 \/ put'[seat] = total
    <3> TAKE seat \in live
    <3> QED
      BY <1>4, <1>10
  <2>2. ASSUME NEW other \in live, stack[other] = total
        PROVE  put'[other] + stack'[other] = wager'
    <3>1. put'[other] \in Nat /\ stack'[other] \in Nat /\ put[other] = 0
      BY <1>1, <1>4, <1>9 DEF TableInv, TypeInv, Dealt
    <3>2. stack'[other] + put'[other] = stack[other] + put[other] /\ stack[other] \in Nat
      BY <1>10
    <3> QED
      BY <1>1, <2>2, <3>1, <3>2
  <2> QED
    BY <1>1, <1>8, <2>1, <2>2 DEF AmountsInv
<1>14. ClosedInv'
  <2>1. owes' # {}
    BY <1>1, <1>3, <1>11
  <2> QED
    BY <2>1 DEF ClosedInv
<1> QED
  BY <1>12, <1>13, <1>14 DEF HandInv

\* The last raise before the flop is the wager.
LEMMA PreflopWagerIsTheWager ==
    ASSUME TableInv, street = "preflop"
    PROVE  PreflopWager = wager
<1>1. CASE Raised = {}
  BY <1>1 DEF PreflopWager, TableInv, WagerInv
<1>2. CASE Raised # {}
  <2>1. Len(log) \in Nat /\ DOMAIN log = 1 .. Len(log)
    BY LogFacts DEF TableInv
  <2>2. Raised \in SUBSET Int /\ IsFiniteSet(Raised)
    <3>1. Raised \in SUBSET (1 .. Len(log))
      BY <2>1 DEF Raised
    <3>2. IsFiniteSet(1 .. Len(log))
      <4>1. 1 \in Int /\ Len(log) \in Int
        BY <2>1
      <4> QED
        BY <4>1, FS_Interval, Zenon
    <3>3. IsFiniteSet(Raised)
      BY <3>1, <3>2, FS_Subset
    <3>4. 1 .. Len(log) \subseteq Int
      BY <2>1
    <3> QED
      BY <3>1, <3>3, <3>4
  <2>3. Max(Raised) \in Raised /\ \A k \in Raised : k <= Max(Raised)
    BY <1>2, <2>2, MaxIsGreatest
  <2>4. log[Max(Raised)].amount = wager
    BY <2>3 DEF TableInv, WagerInv
  <2> QED
    BY <1>2, <2>4 DEF PreflopWager
<1> QED
  BY <1>1, <1>2

\* The last amount of a street that is closed is what both have put in.
LEMMA ClosedTotal ==
    ASSUME NEW line, NEW total \in Nat, ClosedStreet(line, total)
    PROVE  Known(line[Len(line)].amount, 0) = total
<1>1. None \notin Nat
  BY NoneAssumption
<1>2. \A a, b : Len(<<a, b>>) = 2 /\ <<a, b>>[2] = b
  OBVIOUS
<1>3. \A a, b, c : Len(<<a, b, c>>) = 3 /\ <<a, b, c>>[3] = c
  OBVIOUS
<1>4. \A a, b, c, d : Len(<<a, b, c, d>>) = 4 /\ <<a, b, c, d>>[4] = d
  OBVIOUS
<1>5. \A rel, action, amount : Did(rel, action, amount).amount = amount
  BY DEF Did
<1> HIDE DEF Did
<1>6. CASE line = <<Did("oop", "check", None), Did("ip", "check", None)>> /\ total = 0
  <2>1. line[Len(line)] = Did("ip", "check", None)
    BY <1>2, <1>6, Zenon
  <2> QED
    BY <1>5, <1>6, <2>1 DEF Known
<1>7. ASSUME NEW rel, NEW action, line[Len(line)] = Did(rel, action, total)
      PROVE  Known(line[Len(line)].amount, 0) = total
  BY <1>1, <1>5, <1>7 DEF Known
<1>8. CASE line = <<Did("oop", "bet", total), Did("ip", "call", total)>>
  BY <1>2, <1>7, <1>8
<1>9. CASE line = <<Did("oop", "check", None), Did("ip", "bet", total), Did("oop", "call", total)>>
  BY <1>3, <1>7, <1>9
<1>10. ASSUME NEW bet \in 75 .. total \div 2,
              \/ line = <<Did("oop", "bet", bet), Did("ip", "raise", total), Did("oop", "call", total)>>
              \/ line = <<Did("oop", "check", None), Did("ip", "bet", bet),
                          Did("oop", "raise", total), Did("ip", "call", total)>>
       PROVE  Known(line[Len(line)].amount, 0) = total
  <2>1. CASE line = <<Did("oop", "bet", bet), Did("ip", "raise", total), Did("oop", "call", total)>>
    <3>1. line[Len(line)] = Did("oop", "call", total)
      BY <1>3, <2>1, Zenon
    <3> QED
      BY <1>7, <3>1
  <2>2. CASE line = <<Did("oop", "check", None), Did("ip", "bet", bet),
                      Did("oop", "raise", total), Did("ip", "call", total)>>
    <3>1. line[Len(line)] = Did("ip", "call", total)
      BY <1>4, <2>2, Zenon
    <3> QED
      BY <1>7, <3>1
  <2> QED
    BY <1>10, <2>1, <2>2
<1> QED
  BY <1>6, <1>8, <1>9, <1>10 DEF ClosedStreet

\* The flop: who is left has put the wager in, and is on record unless it is
\* the big blind in a pot that nobody raised.
LEMMA FlopKeepsHand ==
    ASSUME TableInv, HandInv, NextStreet, street = "preflop"
    PROVE  HandInv'
<1>1. /\ owes = {} /\ (\A seat \in live : stack[seat] > 0) /\ LastStreet # "preflop"
      /\ street' = "flop" /\ done' = done /\ put' = [seat \in Dealt |-> 0]
      /\ owes' = live /\ start' = start /\ stack' = stack /\ live' = live /\ log' = log
      /\ TypeInv /\ live # {} /\ TableInv'
  <2>1. Cardinality(live) = 2
    BY DEF NextStreet
  <2>2. TypeInv /\ live \in SUBSET Dealt
    BY DEF TableInv, TypeInv
  <2>3. live # {}
    BY <2>1, <2>2, PairOfSeats
  <2> QED
    BY <2>2, <2>3, NextStreetKeeps DEF NextStreet
<1>2. /\ stack \in [Dealt -> Nat] /\ put \in [Dealt -> Nat] /\ live \subseteq Dealt
      /\ wager \in Nat /\ \A seat \in Dealt : start[seat] \in Nat
  BY <1>1, DealtFacts DEF TypeInv
<1>3. \A seat \in live : put[seat] = wager
  BY <1>1, <1>2 DEF HandInv, CallsInv
<1>4. PreflopWager = wager
  BY PreflopWagerIsTheWager
<1>5. Raised' = Raised /\ Actors' = Actors /\ PreflopWager' = PreflopWager
  BY <1>1 DEF Raised, Actors, PreflopWager
<1>6. Raised = {} <=> wager = 100
  BY RaisedFacts
<1>7. wager = 100 \/ wager >= 200
  BY DEF TableInv, WagerInv
<1>8. ASSUME NEW seat \in live PROVE seat \in Actors \/ (seat = BigBlind /\ Raised = {})
  <2> SUFFICES ASSUME ~ (seat = BigBlind /\ Raised = {}) PROVE seat \in Actors
    OBVIOUS
  <2>1. seat \in Dealt /\ seat \in Seats
    BY <1>1, <1>2, DealtFacts DEF TypeInv
  <2>2. Posted[seat] \in {0, 50, 100} /\ (seat # BigBlind => Posted[seat] # 100)
    BY <2>1, SixSeats DEF Posted, BigBlind
  <2>3. put[seat] # Posted[seat]
    <3> HIDE DEF Posted
    <3> QED
      BY <1>2, <1>3, <1>6, <1>7, <2>2
  <2>4. \E i \in DOMAIN log : log[i].actor = seat
    BY <2>1, <2>3 DEF TableInv, BookInv
  <2> QED
    BY <2>4 DEF Actors
<1>9. Raised = {} => \A i \in DOMAIN log : log[i].amount = 100
  BY DEF TableInv, WagerInv
<1>10. FlopInv'
  BY <1>1, <1>2, <1>4, <1>5, <1>8, <1>9 DEF FlopInv
<1>11. CallsInv' /\ AmountsInv' /\ ClosedInv'
  <2>1. \A seat \in live : put'[seat] = 0
    BY <1>1, <1>2
  <2> QED
    BY <1>1, <2>1 DEF CallsInv, AmountsInv, ClosedInv
<1>12. StreetsInv'
  <2>1. done' = <<>> /\ Earlier' = 0
    BY <1>1 DEF HandInv, StreetsInv, Earlier
  <2>2. \A seat \in live : start[seat] = stack[seat] + 0 + 0 + PreflopWager
    <3> TAKE seat \in live
    <3>1. put[seat] + stack[seat] = start[seat] /\ stack[seat] \in Nat /\ start[seat] \in Nat
      BY <1>2 DEF TableInv, ChipsInv
    <3> QED
      BY <1>2, <1>3, <1>4, <3>1
  <2>3. \A seat \in live : put'[seat] = 0
    BY <1>1, <1>2
  <2> QED
    BY <1>1, <1>5, <2>1, <2>2, <2>3 DEF StreetsInv
<1> QED
  BY <1>10, <1>11, <1>12 DEF HandInv

\* The turn: the flop is over, and both have put the same in on it.
LEMMA TurnKeepsHand ==
    ASSUME TableInv, HandInv, NextStreet, street # "preflop"
    PROVE  HandInv'
<1>1. /\ owes = {} /\ (\A seat \in live : stack[seat] > 0) /\ street # LastStreet
      /\ street' = "turn" /\ done' = Append(done, [street |-> street, actions |-> actions])
      /\ put' = [seat \in Dealt |-> 0]
      /\ owes' = live /\ start' = start /\ stack' = stack /\ live' = live /\ log' = log
      /\ TypeInv /\ live # {} /\ street \in {"flop", "turn"}
  <2>1. Cardinality(live) = 2
    BY DEF NextStreet
  <2>2. TypeInv /\ live \in SUBSET Dealt /\ street \in {"preflop", "flop", "turn"}
    BY DEF TableInv, TypeInv
  <2>3. live # {}
    BY <2>1, <2>2, PairOfSeats
  <2> QED
    BY <2>2, <2>3 DEF NextStreet
<1>2. street = "flop" /\ LastStreet = "turn" /\ done = <<>> /\ Earlier = 0
  <2>1. street = "flop"
    BY <1>1 DEF HandInv, CallsInv
  <2> QED
    BY <1>1, <2>1, LastStreetAssumption DEF HandInv, CallsInv, StreetsInv, Earlier
<1>3. /\ stack \in [Dealt -> Nat] /\ put \in [Dealt -> Nat] /\ live \subseteq Dealt /\ wager \in Nat
  BY <1>1 DEF TypeInv
<1>4. ClosedStreet(actions, wager) /\ \A seat \in live : put[seat] = wager
  BY <1>1 DEF HandInv, ClosedInv
<1>5. Raised' = Raised /\ Actors' = Actors /\ PreflopWager' = PreflopWager
  BY <1>1 DEF Raised, Actors, PreflopWager
<1>6. done' = <<[street |-> "flop", actions |-> actions]>> /\ done'[1].actions = actions
  BY <1>1, <1>2
<1>7. FlopTotal' = wager /\ Earlier' = wager
  <2>1. FlopTotal' = Known(actions[Len(actions)].amount, 0)
    BY <1>6 DEF FlopTotal
  <2> QED
    BY <1>1, <1>3, <1>4, <2>1, ClosedTotal DEF Earlier
<1>8. CallsInv' /\ AmountsInv' /\ ClosedInv' /\ FlopInv'
  <2>1. \A seat \in live : put'[seat] = 0
    BY <1>1, <1>3
  <2> QED
    BY <1>1, <1>2, <1>5, <2>1 DEF HandInv, CallsInv, AmountsInv, ClosedInv, FlopInv
<1>9. StreetsInv'
  <2>1. \A seat \in live : start[seat] = stack[seat] + 0 + wager + PreflopWager
    <3> TAKE seat \in live
    <3>1. start[seat] = stack[seat] + put[seat] + Earlier + PreflopWager /\ stack[seat] \in Nat
          /\ PreflopWager \in Nat
      BY <1>2, <1>3 DEF HandInv, StreetsInv, FlopInv
    <3> QED
      BY <1>2, <1>3, <1>4, <3>1
  <2>2. \A seat \in live : put'[seat] = 0
    BY <1>1, <1>3
  <2>3. ClosedStreet(done'[1].actions, FlopTotal')
    BY <1>4, <1>6, <1>7
  <2> QED
    BY <1>1, <1>3, <1>5, <1>6, <1>7, <2>1, <2>2, <2>3 DEF StreetsInv, ClosedStreet, Did
<1> QED
  BY <1>8, <1>9 DEF HandInv

\* The deal: the blinds are in, and everyone has to act.
LEMMA DealKeepsHand ==
    ASSUME Init
    PROVE  HandInv
<1>1. live = Dealt /\ owes = Dealt /\ street = "preflop" /\ done = <<>>
  BY DEF Init
<1> QED
  BY <1>1 DEF HandInv, CallsInv, AmountsInv, ClosedInv, FlopInv, StreetsInv

\* Every step of a hand keeps what is left of the streets that are over.
LEMMA StepKeepsHand ==
    ASSUME TableInv, HandInv, [Next]_vars
    PROVE  HandInv'
<1>1. CASE Fold
  BY <1>1, FoldKeepsHand
<1>2. CASE Check
  BY <1>2, CheckKeepsHand, StreetCheckKeepsHand
<1>3. CASE Call
  BY <1>3, CallKeepsHand, StreetCallKeepsHand
<1>4. CASE \E total \in RaiseTotals : Raise(total)
  BY <1>4, RaiseKeepsHand, StreetRaiseKeepsHand
<1>5. CASE Bet
  BY <1>5, BetKeepsHand
<1>6. CASE NextStreet
  BY <1>6, FlopKeepsHand, TurnKeepsHand
<1>7. CASE UNCHANGED vars
  <2>1. /\ start' = start /\ stack' = stack /\ put' = put /\ live' = live /\ owes' = owes
        /\ wager' = wager /\ street' = street /\ log' = log /\ actions' = actions /\ done' = done
    BY <1>7 DEF vars
  <2>2. /\ Raised' = Raised /\ Actors' = Actors /\ PreflopWager' = PreflopWager
        /\ FlopTotal' = FlopTotal /\ Earlier' = Earlier
    BY <2>1 DEF Raised, Actors, PreflopWager, FlopTotal, Earlier
  <2>3. CallsInv' /\ AmountsInv' /\ FlopInv'
    BY <2>1, <2>2 DEF HandInv, CallsInv, AmountsInv, FlopInv
  <2>4. ClosedInv'
    BY <2>1 DEF HandInv, ClosedInv, ClosedStreet, Did
  <2>5. StreetsInv'
    BY <2>1, <2>2 DEF HandInv, StreetsInv, ClosedStreet, Did
  <2> QED
    BY <2>3, <2>4, <2>5 DEF HandInv
<1> QED
  BY <1>1, <1>2, <1>3, <1>4, <1>5, <1>6, <1>7 DEF Next

\* Safety: in every hand, who sees the flop has come in before it for the same
\* as the other, a street that goes on was closed by two checks or by a call of
\* a bet or a raise of a real size, and a stack is what the hand began with
\* less what went in on the streets on record.
THEOREM HandInvariant == Spec => [](TableInv /\ HandInv)
<1>1. Init => TableInv /\ HandInv
  BY DealKeeps, DealKeepsHand
<1>2. (TableInv /\ HandInv) /\ [Next]_vars => (TableInv /\ HandInv)'
  BY StepKeeps, StepKeepsHand
<1> QED
  BY <1>1, <1>2, PTL DEF Spec
=============================================================================
