---------------------------- MODULE OrderStatus ----------------------------
(***************************************************************************)
(* The order state machine of crates/tux-core/src/domain.rs, shared by the *)
(* paper engine, the order manager and the store.  A status is written by  *)
(* the name the program prints and stores for it.                          *)
(***************************************************************************)

EXTENDS Integers

OrderStatuses ==
  { "created", "risk_approved", "submitted", "acknowledged",
    "partially_filled", "filled", "cancel_pending", "cancelled", "rejected",
    "unknown", "reconciled" }

IsTerminal(s) == s \in { "filled", "cancelled", "rejected", "reconciled" }

IsActive(s) ==
  s \in { "submitted", "acknowledged", "partially_filled", "cancel_pending" }

Successors ==
  [ created          |-> { "risk_approved", "rejected" },
    risk_approved    |-> { "submitted", "rejected" },
    submitted        |-> { "acknowledged", "partially_filled", "filled",
                           "cancel_pending", "cancelled", "rejected",
                           "unknown" },
    acknowledged     |-> { "partially_filled", "filled", "cancel_pending",
                           "cancelled", "rejected", "unknown" },
    partially_filled |-> { "partially_filled", "filled", "cancel_pending",
                           "cancelled", "unknown" },
    filled           |-> {},
    cancel_pending   |-> { "cancelled", "partially_filled", "filled",
                           "unknown" },
    cancelled        |-> {},
    rejected         |-> {},
    unknown          |-> { "reconciled", "submitted", "acknowledged",
                           "partially_filled", "filled", "cancelled",
                           "rejected" },
    reconciled       |-> {} ]

CanTransitionTo(from, to) == to \in Successors[from]

\* The status an order has after apply_status(to): the same status is always
\* accepted, an illegal one is refused and the order keeps the one it had.
StatusAfter(from, to) == IF CanTransitionTo(from, to) THEN to ELSE from

\* How an engine's status and its filled quantity must agree.
StatusAgreesWithFills(status, filled, quantity) ==
  /\ filled \in 0..quantity
  /\ status = "filled" <=> filled = quantity
  /\ status = "partially_filled" => filled > 0
  /\ status \in { "created", "risk_approved", "submitted", "acknowledged",
                  "rejected" } => filled = 0

=============================================================================
