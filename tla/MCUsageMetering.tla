-------------------------- MODULE MCUsageMetering --------------------------
(* Model values, symmetry and a plan for the runs of QuotaEnforcement. *)
EXTENDS QuotaEnforcement, TLC

CONSTANTS k1, k2, r1, r2, w1, w2

Symm == Permutations(Keys) \cup Permutations(Requests) \cup Permutations(Workers)

Feature(type, interval, limit, mode, seats) ==
  [type |-> type, interval |-> interval, limit |-> limit, mode |-> mode,
   enabled |-> TRUE, seats |-> seats]

NoSeats == [kind |-> "absent", value |-> 0]

MCPlanFeatures ==
  {Feature("quota", "billing_period", 1, "hard", NoSeats),
   Feature("rate_limit", "hour", 1, "hard", NoSeats),
   Feature("rate_limit", "month", 2, "hard", NoSeats),
   Feature("rate_limit", "billing_period", 1, "hard", NoSeats),
   Feature("seat", "billing_period", None, "hard", [kind |-> "numeral", value |-> 1]),
   Feature("quota", "billing_period", 0, "soft", NoSeats)}

MCStandings == {<<"unpaid", FALSE>>, <<"past_due", TRUE>>}
============================================================================
