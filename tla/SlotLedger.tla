----------------------------- MODULE SlotLedger -----------------------------
(***************************************************************************)
(* What the production queue promises about the slots of a mission: a slot *)
(* is opened once with a budget of attempts, spends from it and never gets *)
(* any back, is settled while some budget is left or with the attempt that *)
(* spends the last of it, and a settled slot stays as it is.               *)
(***************************************************************************)
EXTENDS Naturals

CONSTANTS
  Slots,
  Budget   \* a positive number

VARIABLES
  state,   \* "unplanned", "open", then "done" (an artifact) or "closed" (none)
  credit   \* attempts an open slot may still make

LedgerTypeOK ==
  /\ state \in [Slots -> {"unplanned", "open", "done", "closed"}]
  /\ credit \in [Slots -> 0..Budget]

LedgerInit ==
  /\ state = [s \in Slots |-> "unplanned"]
  /\ credit = [s \in Slots |-> 0]

Opens(s) ==
  /\ state[s] = "unplanned" /\ state'[s] = "open"
  /\ credit'[s] = Budget

Spends(s) ==
  /\ state[s] = "open" /\ state'[s] = "open"
  /\ credit'[s] \in 1..credit[s]

Settles(s) ==
  /\ state[s] = "open" /\ state'[s] \in {"done", "closed"}
  /\ credit'[s] = 0

Stays(s) == state'[s] = state[s] /\ credit'[s] = credit[s]

\* One statement may write several rows.
LedgerNext == \A s \in Slots : Opens(s) \/ Spends(s) \/ Settles(s) \/ Stays(s)

LedgerSpec == LedgerInit /\ [][LedgerNext]_<<state, credit>>
=============================================================================
