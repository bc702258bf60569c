------------------------- MODULE PositionLifecycle -------------------------
(***************************************************************************)
(* What one symbol's position promises to the rest of the system: the      *)
(* four-state machine of domain/state_machine.py, plus the two corrections *)
(* the restart reconciliation may apply to the database, plus the sale of  *)
(* a balance the table does not know, which the machine refuses.           *)
(*                                                                         *)
(* executor.py imports PositionState and transition but never calls them;  *)
(* Executor.tla shows that the positions table and the order in flight     *)
(* follow this machine when one executor serves the symbol.  They do not   *)
(* without SellUntracked: a sale that fills in part closes every row, and  *)
(* the next sell signal sells the rest.                                    *)
(***************************************************************************)

VARIABLE state

PositionState == {"NONE", "ENTERING", "OPEN", "EXITING"}

(* _ALLOWED_TRANSITIONS *)
Allowed == [ NONE     |-> {"ENTERING"},
             ENTERING |-> {"OPEN", "NONE"},
             OPEN     |-> {"EXITING"},
             EXITING  |-> {"NONE", "OPEN"} ]

(* can_transition *)
CanTransition(current, nxt) == nxt \in Allowed[current]

(* transition: every other pair raises ValueError, so it is no step at all *)
Transition == \E nxt \in PositionState :
                /\ CanTransition(state, nxt)
                /\ state' = nxt

(* Executor.reconcile, Cases 1 and 2 of its docstring: the database follows *)
(* what the exchange reports, without an order.                             *)
Recover == \/ state = "OPEN" /\ state' = "NONE"
           \/ state = "NONE" /\ state' = "OPEN"

(* execute_sell sells the balance whether or not the table has an open row: *)
(* an exit from NONE, for which transition() would raise.                   *)
SellUntracked == state = "NONE" /\ state' = "EXITING"

Init == state = "NONE"

Next == Transition \/ Recover \/ SellUntracked

Spec == Init /\ [][Next]_state

=============================================================================
