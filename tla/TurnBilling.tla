---------------------------- MODULE TurnBilling ----------------------------
(***************************************************************************)
(* What a voice session promises the usage ledger, whatever happens inside *)
(* it: the audio a vendor was sent is owed until it is billed, at most one *)
(* turn runs at a time, and a turn leaves that state only by being billed  *)
(* under its own id, once, in the order the turns ran.                     *)
(***************************************************************************)
EXTENDS Integers

CONSTANT Turns    \* ids a usage report may carry

VARIABLES
    owed,     \* audio heard and not billed
    paid,     \* audio billed
    open,     \* the turn that runs, as a set of at most one id
    settled   \* ids billed

vars == <<owed, paid, open, settled>>

TypeOK ==
    /\ owed \in Nat
    /\ paid \in Nat
    /\ open \subseteq Turns
    /\ settled \subseteq Turns

Init ==
    /\ owed = 0
    /\ paid = 0
    /\ open = {}
    /\ settled = {}

\* Ids are handed out in order.
Unused(t) == \A u \in open \cup settled : u < t

Hear ==
    /\ owed' = owed + 1
    /\ UNCHANGED <<paid, open, settled>>

\* Billing moves some of what is owed to what is paid, under the given ids.
Bill(ids) ==
    /\ owed' \in 0..owed
    /\ paid' = paid + (owed - owed')
    /\ settled' = settled \cup ids

\* A turn starts; one that is still running is billed at that moment.
Start(t) ==
    /\ Unused(t)
    /\ Bill(open)
    /\ open' = {t}
    /\ open = {} => UNCHANGED <<owed, paid>>

Settle ==
    /\ open # {}
    /\ Bill(open)
    /\ open' = {}

\* The session closes: the running turn and the audio after it are billed.
CloseOut(tail) ==
    /\ \A t \in tail : Unused(t)
    /\ Bill(open \cup tail)
    /\ open' = {}
    /\ open \cup tail # {}

Next ==
    \/ Hear
    \/ \E t \in Turns : Start(t) \/ CloseOut({t})
    \/ Settle

Spec == Init /\ [][Next]_vars
=============================================================================
