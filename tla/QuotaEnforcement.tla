-------------------------- MODULE QuotaEnforcement --------------------------
(***************************************************************************)
(* Usage metering and the evaluator together: what evaluate answers from a *)
(* snapshot built at any moment while usage is ingested and aggregated.    *)
(* Evaluate writes nothing, so it adds no step: its answer is a function   *)
(* of the aggregates and the clock.  The period of the subscription starts *)
(* within an hour; aggregates are kept by whole hours.                     *)
(***************************************************************************)
EXTENDS UsageMetering, EntitlementPolicy

CONSTANTS
  PeriodStart, PeriodEnd, \* of the subscription, which nothing in the code moves
  TicksPerDay,
  PlanFeatures,           \* feature rows of the plan, seats as metadata has them
  Quantities,             \* quantities asked for, which nothing validates
  Standings               \* pairs of a status and whether grace is active

(* Limits and seats are integers that nothing keeps from being negative;   *)
(* the catalog checks the type of a feature, but not its interval or mode. *)
PlanFeature ==
  [type : {"boolean", "quota", "rate_limit", "seat"}, interval : STRING \cup {None},
   limit : Int \cup {None}, mode : STRING, enabled : BOOLEAN,
   seats : [kind : STRING, value : Int]]

ASSUME QuotaAssumption ==
  /\ PeriodStart \in Nat /\ PeriodEnd \in Nat
  /\ TicksPerDay \in Nat \ {0} /\ TicksPerDay % TicksPerHour = 0
  /\ Quantities \subseteq Int
  /\ PlanFeatures \subseteq PlanFeature

Floor(t, ticks) == (t \div ticks) * ticks
Later(s, t)     == IF s < t THEN t ELSE s

(* _align_hour_start. *)
AlignHourStart(t) == Floor(t, TicksPerHour)

(* _rate_window_start. *)
RateWindowStart(interval) ==
  CASE interval = "hour"  -> Floor(now, TicksPerHour)
    [] interval = "day"   -> Floor(now, TicksPerDay)
    [] interval = "month" -> Floor(now, TicksPerMonth)
    [] OTHER -> PeriodStart

(* Mutant: the period is not aligned to the hour buckets. *)
MutantUnaligned(f) ==
  IF f.type = "rate_limit" THEN Later(PeriodStart, RateWindowStart(f.interval))
                           ELSE PeriodStart

(* Mutant: a rate window may reach back before the period. *)
MutantUnclamped(f) ==
  IF f.type = "rate_limit" THEN AlignHourStart(RateWindowStart(f.interval))
                           ELSE AlignHourStart(PeriodStart)

(* _load_feature_usage: where the usage of a feature is counted from. *)
WindowStart(f) ==
  IF f.type = "rate_limit"
  THEN Later(AlignHourStart(PeriodStart), RateWindowStart(f.interval))
  ELSE AlignHourStart(PeriodStart)

(* _sum_usage_for_window: the hour buckets that start in the window.       *)
SumUsage(start, end) ==
  Cardinality(UNION {agg[h] : h \in {g \in Hours : /\ start <= g * TicksPerHour
                                                   /\ g * TicksPerHour < end}})

FeatureUsage(f) == IF f.type = "boolean" THEN 0 ELSE SumUsage(WindowStart(f), PeriodEnd)

(* _build_snapshot: the row of one feature. *)
FeatureRow(f) == [f EXCEPT !.seats = IF f.type = "seat" THEN SeatQuantity(@) ELSE None]

(* The answers evaluate gives for a feature, for each quantity and standing. *)
Evaluate(f) ==
  LET row  == FeatureRow(f)
      used == FeatureUsage(f)
  IN [ask \in Quantities \X Standings |->
        EvaluateCheck(row, used, ask[1], ask[2][1], ask[2][2])]

-----------------------------------------------------------------------------
(* Properties. *)

Aggregated == UNION {agg[h] : h \in Hours}

(* When the window of a feature starts by the clock. *)
Opens(f) ==
  IF f.type = "rate_limit" THEN Later(PeriodStart, RateWindowStart(f.interval))
                           ELSE PeriodStart

(* From when on all usage counts.  The window of a rate limit with another  *)
(* interval than hour, day or month starts with the period and within an   *)
(* hour, and the bucket of that hour starts before the window.             *)
StartsOnTheHour(f) == f.type = "rate_limit" => f.interval \in {"hour", "day", "month"}
CountsFrom(f) ==
  IF StartsOnTheHour(f) THEN Opens(f) ELSE AlignHourStart(Opens(f) + TicksPerHour - 1)

GoodStanding(s) == s[1] \in {"active", "trialing"} \/ s = <<"past_due", TRUE>>

(* "hard denies usage": while the period lasts, a hard limit is never      *)
(* exceeded by an answer that allows the request.  Every aggregated event  *)
(* since the window opened is counted, those of the hour in which the      *)
(* period started too, except by a rate limit that resets with the period. *)
HardLimitHolds ==
  now < PeriodEnd =>
    \A f \in {g \in PlanFeatures : g.type # "boolean" /\ g.mode = "hard"} :
      LET answer == Evaluate(f)
          since  == Cardinality({e \in Aggregated : CountsFrom(f) <= e.at /\ e.at < PeriodEnd})
      IN \A ask \in Quantities \X Standings :
           answer[ask].allowed /\ answer[ask].limit # None =>
             since + ask[1] <= answer[ask].limit

AtLeastOne(quantity) == IF quantity < 1 THEN 1 ELSE quantity

(* A customer in good standing is denied an enabled feature only when the  *)
(* usage of the hours that the window touches leaves less than was asked   *)
(* for, and what is reported as remaining is less than that: nothing from  *)
(* before the period counts.  A request for nothing, or for less, is       *)
(* denied when a request for one would be.                                 *)
DenialIsEarned ==
  \A f \in {g \in PlanFeatures : g.enabled} :
    LET answer  == Evaluate(f)
        touched == Cardinality({e \in Aggregated : AlignHourStart(Opens(f)) <= e.at})
    IN \A ask \in Quantities \X {s \in Standings : GoodStanding(s)} :
         ~answer[ask].allowed => /\ f.mode = "hard"
                                 /\ touched + AtLeastOne(ask[1]) > answer[ask].limit
                                 /\ answer[ask].remaining < AtLeastOne(ask[1])
=============================================================================
