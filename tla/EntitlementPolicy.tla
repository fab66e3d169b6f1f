-------------------------- MODULE EntitlementPolicy --------------------------
(***************************************************************************)
(* How evaluate answers a check (services/entitlements.py): the decisions  *)
(* are functions of the snapshot, so they are operators here, and a module *)
(* that has usage, plans or a clock applies them to its state.             *)
(*                                                                         *)
(* A feature row of a snapshot has a type, its plan's limit (None: without *)
(* limit), reset interval, enforcement mode and enabled flag, and for a    *)
(* seat feature the seats of the subscription.  The reasons of the three   *)
(* numeric types differ in their wording only.                             *)
(***************************************************************************)
EXTENDS Integers

CONSTANT None

(* _subscription_seat_quantity: an integer, or a string that reads as one, *)
(* and not negative; anything else counts as no seats given.               *)
SeatQuantity(raw) ==
  IF raw.kind \in {"int", "numeral"} /\ raw.value >= 0 THEN raw.value ELSE None

NotBelowZero(n) == IF n < 0 THEN 0 ELSE n

(* _remaining. *)
Remaining(limit, used) == IF limit = None THEN None ELSE NotBelowZero(limit - used)

(* _effective_limit. *)
EffectiveLimit(f) == IF f.type = "seat" /\ f.seats # None THEN f.seats ELSE f.limit

Decision(allowed, limit, used, remaining, reason) ==
  [allowed |-> allowed, limit |-> limit, used |-> used,
   remaining |-> remaining, reason |-> reason]

(* _decide_numeric_feature: nothing left, or less than was asked for.  Only *)
(* a hard limit denies, and only a limit used up is reported when it does  *)
(* not.                                                                    *)
DecideNumeric(f, used, quantity) ==
  LET limit == EffectiveLimit(f)
      left  == Remaining(limit, used)
      spent == limit # None /\ used >= limit
      short == limit # None /\ used + quantity > limit
      hard  == f.mode = "hard"
  IN CASE spent /\ hard  -> Decision(FALSE, limit, used, 0, "exhausted")
       [] spent /\ ~hard -> Decision(TRUE, limit, used, 0, "exceeded_soft")
       [] ~spent /\ short /\ hard -> Decision(FALSE, limit, used, left, "exhausted")
       [] OTHER -> Decision(TRUE, limit, used, left, None)

(* decide_feature. *)
DecideFeature(f, used, quantity) ==
  CASE f.type = "boolean" ->
         Decision(f.enabled, None, None, None, IF f.enabled THEN None ELSE "disabled")
    [] f.type # "boolean" /\ ~f.enabled ->
         Decision(FALSE, f.limit, used, Remaining(f.limit, used), "disabled")
    [] f.type \in {"quota", "rate_limit", "seat"} /\ f.enabled ->
         DecideNumeric(f, used, quantity)
    [] OTHER -> Decision(FALSE, f.limit, used, Remaining(f.limit, used), "misconfigured")

(* decide_access: full, degraded or no access by the status of the         *)
(* subscription.                                                           *)
DecideAccess(status, graceActive, mode) ==
  CASE status \in {"active", "trialing"} -> [allowed |-> TRUE, mode |-> "full"]
    [] status = "past_due" /\ graceActive ->
         [allowed |-> TRUE, mode |-> IF mode = "degraded" THEN "degraded" ELSE "full"]
    [] OTHER -> [allowed |-> FALSE, mode |-> "denied"]

(* _evaluate_checks for one check of a feature that is in the plan; the    *)
(* mode of the access is not looked at.                                    *)
EvaluateCheck(f, used, quantity, status, graceActive) ==
  IF DecideAccess(status, graceActive, f.mode).allowed
  THEN DecideFeature(f, used, quantity)
  ELSE Decision(FALSE, f.limit, used, Remaining(f.limit, used), "access_revoked")
=============================================================================
