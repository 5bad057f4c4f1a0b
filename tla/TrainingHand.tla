----------------------------- MODULE TrainingHand -----------------------------
(***************************************************************************)
(* What the trainer promises a learner about a hand, with no threads, no   *)
(* provider calls and no restarts: every operation is one indivisible      *)
(* step.  A hand is opened once, its state is approved, an answer may be   *)
(* locked until guidance is revealed, guidance always belongs to the       *)
(* approved state, and a lesson is about the answer and the guidance that  *)
(* are on the table.  A deleted hand is gone for good.                     *)
(***************************************************************************)
EXTENDS JobRecords

CONSTANT Jobs

VARIABLE hand

Unborn ==
    [stage |-> "unborn", state |-> None, answer |-> None,
     guidance |-> None, lesson |-> None]

Gone == [Unborn EXCEPT !.stage = "gone"]

\* An open hand, and what of it is on the table.
Open(state, answer, guidance, lesson) ==
    [stage |-> "open", state |-> state, answer |-> answer,
     guidance |-> guidance, lesson |-> lesson]

Init == hand = [j \in Jobs |-> Unborn]

Become(j, next) == hand' = [hand EXCEPT ![j] = next]

OpenHand(j) == hand[j] = Unborn /\ Become(j, Open(None, None, None, None))

\* Approving a state starts the hand afresh.
ApproveState(j, state) ==
    /\ hand[j].stage = "open"
    /\ Become(j, Open(state, None, None, None))

\* An answer can be locked, and locked again, until the reveal.
LockAnswer(j, line) ==
    /\ hand[j].state # None
    /\ hand[j].guidance = None
    /\ Become(j, Open(hand[j].state,
                      [line |-> line, state |-> hand[j].state],
                      hand[j].guidance, None))

\* Guidance is revealed for the state on the table, and may be revealed anew.
Reveal(j, verdict) ==
    /\ hand[j].state # None
    /\ Become(j, Open(hand[j].state, hand[j].answer,
                      [verdict |-> verdict, state |-> hand[j].state], None))

\* Writing, replacing or clearing the lesson of a missed hand.
WriteLesson(j) ==
    /\ hand[j].answer # None
    /\ hand[j].guidance # None
    /\ <<hand[j].answer.line, hand[j].guidance.verdict>> \in Misses
    /\ \E lesson \in {None, [answer |-> hand[j].answer,
                             guidance |-> hand[j].guidance]} :
           Become(j, Open(hand[j].state, hand[j].answer, hand[j].guidance, lesson))

DeleteHand(j) ==
    /\ hand[j].stage = "open"
    /\ Become(j, Gone)

Next ==
    \E j \in Jobs :
        \/ OpenHand(j)
        \/ \E state \in States : ApproveState(j, state)
        \/ \E line \in Decisions : LockAnswer(j, line)
        \/ \E verdict \in Verdicts : Reveal(j, verdict)
        \/ WriteLesson(j)
        \/ DeleteHand(j)

Spec == Init /\ [][Next]_hand
=============================================================================
