-------------------------- MODULE IntentLifecycle --------------------------
(***************************************************************************)
(* The life cycle of an execution intent, as the control plane tabulates   *)
(* it in src/ashare_system/execution_gateway.py.  Pure definitions: the    *)
(* modules that hold state read them, and nothing here changes.            *)
(***************************************************************************)

TERMINAL_INTENT_STATUSES == {"filled", "canceled", "rejected", "failed", "expired"}

OpenStatuses == {"approved", "claimed", "submitted", "partial_filled"}

IntentStatuses == OpenStatuses \cup TERMINAL_INTENT_STATUSES

\* Where an intent may go from each status.
INTENT_TRANSITIONS ==
  [s \in IntentStatuses |->
     CASE s = "approved"       -> {"claimed", "expired"}
       [] s = "claimed"        -> {"submitted", "partial_filled"} \cup TERMINAL_INTENT_STATUSES
       [] s = "submitted"      -> {"partial_filled"} \cup TERMINAL_INTENT_STATUSES
       [] s = "partial_filled" -> {"filled", "canceled", "failed", "expired"}
       [] OTHER                -> {}]

\* The statuses a worker's receipt may carry (_ALLOWED_RECEIPT_STATUSES).
ReceiptStatuses == {"submitted", "partial_filled", "filled", "canceled", "rejected", "failed"}

\* What the broker says of an order.  PENDING and UNKNOWN are mapped as ACCEPTED is.
BrokerStatuses ==
  {"ACCEPTED", "PARTIAL_FILLED", "FILLED", "CANCEL_REQUESTED", "CANCELLED", "REJECTED"}

ORDER_STATUS_TO_INTENT_STATUS ==
  [o \in BrokerStatuses |->
     CASE o = "PARTIAL_FILLED" -> "partial_filled"
       [] o = "FILLED"         -> "filled"
       [] o = "CANCELLED"      -> "canceled"
       [] o = "REJECTED"       -> "rejected"
       [] OTHER                -> "submitted"]

=============================================================================
