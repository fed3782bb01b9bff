----------------------------- MODULE UsageLimits -----------------------------
(***************************************************************************)
(* One metered resource of one tenant: what the plan and its add-ons allow *)
(* (EntitlementResolver in app/billing/entitlement.py), and what is used   *)
(* of it (UsageService in app/billing/usage.py).  A request reads the      *)
(* period and the limit, sums the records, inserts its own, commits, and   *)
(* announces the thresholds it believes to have crossed; nothing is locked *)
(* in between.  The AI gateway meters its answers this way, after the      *)
(* fact and with the policy WARN (app/core/ai_gateway/usage.py).           *)
(***************************************************************************)
EXTENDS Integers, FiniteSets

CONSTANTS
  Sessions,
  Subscriptions,        \* what billing may make of the subscription
  TrialLimit, PlanLimit, \* base limits of the metric; -1 is unlimited
  Tokens, TOKENS_PER_AI_CREDIT,  \* what a request uses
  MaxRequests, \* bound on the requests
  MaxPeriod    \* bound on the billing periods

Policy == {"BLOCK", "WARN"}   \* ALLOW and DEGRADE are as WARN, with other events
Threshold == {70, 85, 100}

SubscriptionRow == [status : {"TRIALING", "ACTIVE", "RESTRICTED", "EXPIRED", "SUSPENDED"},
                    ended  : BOOLEAN,             \* past the end of its period
                    addon  : {-1, 0} \cup Nat]    \* what active add-ons grant

check_subscription_temporal_validity(x) == x.status \notin {"EXPIRED", "SUSPENDED"} /\ ~ x.ended

get_limit(x) ==
  LET base == IF x.status = "TRIALING" THEN TrialLimit ELSE PlanLimit
  IN  CASE ~ check_subscription_temporal_validity(x)                       -> 0
        [] check_subscription_temporal_validity(x) /\ -1 \in {base, x.addon} -> -1
        [] OTHER                                                           -> base + x.addon

calculate_ai_credits(tokens) ==
  IF tokens < TOKENS_PER_AI_CREDIT THEN 1 ELSE tokens \div TOKENS_PER_AI_CREDIT

Grants == {get_limit(x) : x \in Subscriptions}
Quantities == {calculate_ai_credits(n) : n \in Tokens}
-----------------------------------------------------------------------------
VARIABLES
  period,     \* the subscription's current period
  sub,        \* the subscription with its add-ons
  used,       \* sum of the usage_records of each period
  announced,  \* usage.warning and usage.limit_reached events
  tx,         \* the requests
  requests,   \* requests so far
  waived      \* used by requests that no limit held back

vars == <<period, sub, used, announced, tx, requests, waived>>

Event == [period : 0..MaxPeriod, threshold : Threshold, limit : Grants,
          early : BOOLEAN]   \* before the record: the warning of the policy
SessionRow == [pc : {"idle", "measuring", "checked", "recorded"},
               period : 0..MaxPeriod, limit : {0} \cup Grants, qty : {0} \cup Quantities,
               policy : Policy, current : Nat,
               waived : BOOLEAN]             \* no limit holds it back

(* Plans and add-ons grant what their rows can hold, there are finitely many *)
(* of them, and somebody uses something.                                     *)
Setting ==
  /\ IsFiniteSet(Sessions) /\ Sessions # {}
  /\ Subscriptions \subseteq SubscriptionRow /\ IsFiniteSet(Subscriptions)
  /\ TrialLimit \in {-1} \cup Nat /\ PlanLimit \in {-1} \cup Nat
  /\ Tokens \subseteq Nat /\ IsFiniteSet(Tokens) /\ Tokens # {}
  /\ TOKENS_PER_AI_CREDIT \in Nat \ {0}
  /\ MaxRequests \in Nat /\ MaxPeriod \in Nat

Idle == [pc |-> "idle", period |-> 0, limit |-> 0, qty |-> 0, policy |-> "BLOCK",
         current |-> 0, waived |-> FALSE]

Init ==
  /\ period = 0
  /\ sub \in Subscriptions
  /\ used = [p \in 0..MaxPeriod |-> 0]
  /\ announced = {}
  /\ tx = [s \in Sessions |-> Idle]
  /\ requests = 0
  /\ waived = [p \in 0..MaxPeriod |-> 0]
-----------------------------------------------------------------------------
Move(s, row) == tx' = [tx EXCEPT ![s] = row]
Leave(s) == Move(s, Idle)

(* get_current_period and get_limit.                                         *)
ReadEntitlement(s, tokens, policy) ==
  /\ tx[s].pc = "idle"
  /\ Move(s, [Idle EXCEPT !.pc = "measuring", !.period = period, !.limit = get_limit(sub),
                          !.qty = calculate_ai_credits(tokens), !.policy = policy])
  /\ requests < MaxRequests
  /\ requests' = requests + 1
  /\ UNCHANGED <<period, sub, used, announced, waived>>

Exceeds_Reached(row, current) == row.limit # -1 /\ current > row.limit
Exceeds(row, current) == row.limit # -1 /\ current + row.qty > row.limit

Alarm(row, t) == [period |-> row.period, threshold |-> t, limit |-> row.limit, early |-> FALSE]

(* get_current_usage, and what the policy makes of it: LimitExceededError,   *)
(* or the request goes on, with a usage.warning if the policy is WARN.       *)
MeasureUsage(s) ==
  LET row  == tx[s]
      over == Exceeds(row, used[row.period])
  IN
  /\ row.pc = "measuring"
  /\ IF over /\ row.policy = "BLOCK" THEN Leave(s)
     ELSE Move(s, [row EXCEPT !.pc = "checked", !.current = used[row.period],
                          !.waived = over \/ row.limit = -1])
  /\ announced' = IF over /\ row.policy = "WARN"
                  THEN announced \cup {[Alarm(row, 100) EXCEPT !.early = TRUE]} ELSE announced
  /\ UNCHANGED <<period, sub, used, requests, waived>>

Crossed(row) == {t \in Threshold : /\ row.current * 100 < t * row.limit
                                   /\ t * row.limit <= (row.current + row.qty) * 100}

Alarms(row) == IF row.limit > 0
               THEN {Alarm(row, t) : t \in Crossed(row)}
               ELSE {}

RecordUsage_Announced(s) ==
  LET row == tx[s] IN
  /\ row.pc = "checked"
  /\ announced' = announced \cup Alarms([row EXCEPT !.current = @ + row.qty])
  /\ used' = [used EXCEPT ![row.period] = @ + row.qty]
  /\ waived' = IF row.waived THEN [waived EXCEPT ![row.period] = @ + row.qty] ELSE waived
  /\ Move(s, [row EXCEPT !.pc = "recorded"])
  /\ UNCHANGED <<period, sub, requests>>

RecordUsage(s) ==
  LET row == tx[s] IN
  /\ row.pc = "checked"
  /\ used' = [used EXCEPT ![row.period] = @ + row.qty]
  /\ waived' = IF row.waived THEN [waived EXCEPT ![row.period] = @ + row.qty] ELSE waived
  /\ Move(s, [row EXCEPT !.pc = "recorded"])
  /\ UNCHANGED <<period, sub, announced, requests>>

(* The thresholds between the usage it has read and that plus its own.       *)
AnnounceThresholds(s) ==
  /\ tx[s].pc = "recorded"
  /\ announced' = announced \cup Alarms(tx[s])
  /\ Leave(s)
  /\ UNCHANGED <<period, sub, used, requests, waived>>

(* An error, or the request is lost: what is not recorded is forgotten, and  *)
(* so are the thresholds that were not announced.                            *)
Drop(s) ==
  /\ tx[s].pc # "idle"
  /\ Leave(s)
  /\ UNCHANGED <<period, sub, used, announced, requests, waived>>

(* The plan, an add-on or the validity of the subscription changes.          *)
ChangeEntitlement(x) ==
  /\ x # sub
  /\ sub' = x
  /\ UNCHANGED <<period, used, announced, tx, requests, waived>>

RenewPeriod ==
  /\ period < MaxPeriod
  /\ period' = period + 1
  /\ UNCHANGED <<sub, used, announced, tx, requests, waived>>

Next ==
  \/ \E s \in Sessions, tokens \in Tokens, policy \in Policy : ReadEntitlement(s, tokens, policy)
  \/ \E s \in Sessions : MeasureUsage(s) \/ RecordUsage(s) \/ AnnounceThresholds(s) \/ Drop(s)
  \/ \E x \in Subscriptions : ChangeEntitlement(x)
  \/ RenewPeriod

Spec == Init /\ [][Next]_vars
-----------------------------------------------------------------------------
(* Every variable keeps its type.                                            *)
TypeOK ==
  /\ period \in 0..MaxPeriod
  /\ sub \in SubscriptionRow
  /\ used \in [0..MaxPeriod -> Nat] /\ waived \in [0..MaxPeriod -> Nat]
  /\ announced \subseteq Event
  /\ requests \in 0..MaxRequests
  /\ tx \in [Sessions -> SessionRow]

(* "Atomic limit enforcement" (usage.py:59) is not: requests that measure    *)
(* before the others record pass the limit together, but by no more than the *)
(* others were each allowed to use.                                          *)
OverLimitByOverlap ==
  \A p \in 0..MaxPeriod : \E g \in Grants \cup {0}, q \in Quantities :
    used[p] - waived[p] <= g + (Cardinality(Sessions) - 1) * q

(* A threshold that is announced was reached: whoever announces it has       *)
(* recorded before, and records are not taken back.  Only the warning of the *)
(* policy comes before the record.                                           *)
NoFalseAlarm == \A e \in announced : ~ e.early => used[e.period] * 100 >= e.threshold * e.limit
=============================================================================
