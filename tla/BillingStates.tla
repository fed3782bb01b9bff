---------------------------- MODULE BillingStates ----------------------------
(***************************************************************************)
(* The status tables of app/billing/state_machine.py.  A table is the set  *)
(* of <<from, to>> pairs it lists; the validate_* functions also accept a  *)
(* move from a status to itself.                                           *)
(***************************************************************************)

SubscriptionStatus ==
  {"TRIALING", "ACTIVE", "PAST_DUE", "GRACE_PERIOD", "RESTRICTED", "SUSPENDED",
   "CANCELLED_PENDING_EXPIRY", "EXPIRED", "ARCHIVED"}

PaymentStatus ==
  {"PENDING", "SUCCEEDED", "FAILED", "REFUNDED", "PARTIALLY_REFUNDED", "CANCELLED"}

SubscriptionTransitions ==
  UNION {
    {"TRIALING"} \X {"ACTIVE", "EXPIRED", "CANCELLED_PENDING_EXPIRY", "PAST_DUE"},
    {"ACTIVE"} \X {"PAST_DUE", "CANCELLED_PENDING_EXPIRY", "RESTRICTED",
                   "SUSPENDED", "EXPIRED"},
    {"PAST_DUE"} \X {"ACTIVE", "GRACE_PERIOD", "RESTRICTED", "SUSPENDED", "EXPIRED"},
    {"GRACE_PERIOD"} \X {"ACTIVE", "RESTRICTED", "SUSPENDED", "EXPIRED"},
    {"RESTRICTED"} \X {"ACTIVE", "SUSPENDED", "EXPIRED"},
    {"SUSPENDED", "CANCELLED_PENDING_EXPIRY"} \X {"ACTIVE", "EXPIRED"},
    {"EXPIRED"} \X {"ARCHIVED", "ACTIVE"} }

PaymentTransitions ==
  UNION {
    {"PENDING"} \X {"SUCCEEDED", "FAILED", "CANCELLED"},
    {"SUCCEEDED"} \X {"REFUNDED", "PARTIALLY_REFUNDED"},
    {"FAILED"} \X {"PENDING"},
    {"PARTIALLY_REFUNDED"} \X {"REFUNDED"} }

(* validate_subscription_transition and validate_payment_transition return. *)
ValidSubscriptionMove(from, to) == from = to \/ <<from, to>> \in SubscriptionTransitions
ValidPaymentMove(from, to)      == from = to \/ <<from, to>> \in PaymentTransitions
=============================================================================
