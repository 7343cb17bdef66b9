--------------------------- MODULE SessionStatus ---------------------------
(***************************************************************************)
(* The status of a dine-in session: DineInSessions lets the bill move it  *)
(* in the ways named here, and DineInBilling is shown to move it in no    *)
(* other.                                                                 *)
(***************************************************************************)
\* ACTIVE_DINE_IN_SESSION_STATUSES, and the statuses a session ever gets.
OpenStatus == {"ACTIVE", "BILL_REQUESTED", "PAYMENT_PENDING", "PAID"}
Status == {"none", "ACTIVE", "BILL_REQUESTED", "PAYMENT_PENDING", "COMPLETED"}

\* Mutant: a paid session is left PAID.
AfterBillingPaid(st) ==
  CASE st = "ACTIVE" -> {"BILL_REQUESTED"}
    [] st = "BILL_REQUESTED" -> {"ACTIVE", "PAYMENT_PENDING"}
    [] st = "PAYMENT_PENDING" -> {"PAID"}
    [] OTHER -> {}

AfterBilling(st) ==
  CASE st = "ACTIVE" -> {"BILL_REQUESTED"}
    [] st = "BILL_REQUESTED" -> {"ACTIVE", "PAYMENT_PENDING"}
    [] st = "PAYMENT_PENDING" -> {"COMPLETED"}
    [] OTHER -> {}

=============================================================================
