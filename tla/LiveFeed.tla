------------------------------- MODULE LiveFeed -------------------------------
(***************************************************************************)
(* What a live screen promises (Doc 08 section 5.4): for every item it     *)
(* shows a value the item has or had, never one it did not have, and while *)
(* it polls it comes to show the current values and keeps showing them.    *)
(* PermitBoard implements it.                                              *)
(***************************************************************************)
CONSTANTS
    Item,      \* what the screen shows a value of
    Value      \* the values

VARIABLES
    current,   \* the value of every item
    past,      \* the values every item has or had
    view,      \* the value the screen shows of every item
    polled     \* the screen fetches snapshots again and again

feedVars == <<current, past, view, polled>>

FeedTypeOK ==
    /\ current \in [Item -> Value]
    /\ past \in [Item -> SUBSET Value]
    /\ view \in [Item -> Value]
    /\ polled \in BOOLEAN

FeedInit ==
    /\ current \in [Item -> Value]
    /\ past = [i \in Item |-> {current[i]}]
    /\ view = current
    /\ polled \in BOOLEAN

Change(i) ==
    \E v \in Value :
        /\ current' = [current EXCEPT ![i] = v]
        /\ past' = [past EXCEPT ![i] = @ \cup {v}]
        /\ UNCHANGED <<view, polled>>

(* The screen shows some value of every item, the current one or an older. *)
Show ==
    /\ view' \in [Item -> Value]
    /\ \A i \in Item : view'[i] \in past[i]
    /\ UNCHANGED <<current, past, polled>>

Connection ==
    /\ polled' \in BOOLEAN
    /\ UNCHANGED <<current, past, view>>

FeedNext == (\E i \in Item : Change(i)) \/ Show \/ Connection

Converges == <>[]polled => <>[](view = current)

FeedSteps == FeedInit /\ [][FeedNext]_feedVars

FeedSpec == FeedSteps /\ Converges
=============================================================================
