---------------------------- MODULE DurableValue ----------------------------
(***************************************************************************)
(* What a user of ring_storage relies on, with no flash in sight: one      *)
(* stored value.  A save replaces it at one instant somewhere between call *)
(* and return or not at all, a save that returns OK has replaced it, and   *)
(* nothing else, a power failure included, ever changes it.                *)
(***************************************************************************)
CONSTANTS Values, NoValue

VARIABLES
    reg,    \* the stored value
    pend,   \* the value a save in progress is storing, or NoValue
    ok      \* the last call was a save and returned OK

Init == reg = NoValue /\ pend = NoValue /\ ok = FALSE

SaveCall ==
    /\ pend = NoValue
    /\ pend' \in Values
    /\ ok' = FALSE
    /\ UNCHANGED reg

SaveTakesEffect ==
    /\ pend # NoValue
    /\ reg' = pend
    /\ \/ UNCHANGED <<pend, ok>>
       \/ pend' = NoValue /\ ok' \in BOOLEAN

SaveReturns ==
    /\ pend # NoValue
    /\ pend' = NoValue
    /\ ok' => reg = pend
    /\ ok' \in BOOLEAN
    /\ UNCHANGED reg

OtherCall ==
    /\ pend = NoValue
    /\ ok' = FALSE
    /\ UNCHANGED <<reg, pend>>

Next == SaveCall \/ SaveTakesEffect \/ SaveReturns \/ OtherCall

Spec == Init /\ [][Next]_<<reg, pend, ok>>
=============================================================================
