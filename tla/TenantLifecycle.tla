-------------------------- MODULE TenantLifecycle --------------------------
(***************************************************************************)
(* The life of one tenant, from prospect to active client:                 *)
(*                                                                         *)
(*   ClientLifecycleManager                 app/tenants/lifecycle.py       *)
(*   TenantProvisioner, ReadinessCalculator,                               *)
(*   TenantValidatorEngine                  app/tenants/provisioning/      *)
(*   OnboardingService                      app/tenants/onboarding_service.py *)
(*   the routes on them                     app/api/v1/onboarding.py       *)
(*                                                                         *)
(* A request reads the tenant once, without a lock, and decides on that    *)
(* copy; every step of the pipeline is committed and the copy refreshed.   *)
(* The provisioner sets the state itself, past the transition table.       *)
(***************************************************************************)
EXTENDS Integers, Sequences, FiniteSets, SequencesExt, FiniteSetsExt

CONSTANTS
  Sessions,
  Targets,      \* states asked for through POST .../lifecycle/transition
  Bills,        \* what billing makes of the subscription: [sub, settled]
  Data,         \* what the tenant may have filled in: sets of checklist keys
  Items,        \* checklist items somebody ticks by hand
  MaxRequests,  \* bound on requests
  MaxChanges,   \* bound on changes of the business data and the subscription
  None

ALLOWED_TENANT_LIFECYCLE_TRANSITIONS == [
  PROSPECT        |-> {"LEAD", "BLOCKED", "ERROR"},
  LEAD            |-> {"QUALIFIED", "BLOCKED", "ERROR"},
  QUALIFIED       |-> {"PROPOSAL", "BLOCKED", "ERROR"},
  PROPOSAL        |-> {"WAITING_PAYMENT", "BLOCKED", "ERROR"},
  WAITING_PAYMENT |-> {"PAID", "BLOCKED", "ERROR"},
  PAID            |-> {"CLIENT", "ONBOARDING", "BLOCKED", "ERROR"},
  CLIENT          |-> {"ONBOARDING", "PAUSED", "BLOCKED", "ERROR"},
  ONBOARDING      |-> {"CONFIGURING", "PAUSED", "STALE", "BLOCKED", "ERROR"},
  CONFIGURING     |-> {"TESTING", "PAUSED", "STALE", "BLOCKED", "ERROR"},
  TESTING         |-> {"READY", "CONFIGURING", "PAUSED", "BLOCKED", "ERROR"},
  READY           |-> {"ACTIVE", "TESTING", "PAUSED", "BLOCKED", "ERROR"},
  ACTIVE          |-> {"PAUSED", "BLOCKED", "STALE", "ERROR"},
  PAUSED          |-> {"ONBOARDING", "CONFIGURING", "TESTING", "READY", "ACTIVE", "BLOCKED"},
  STALE           |-> {"ONBOARDING", "PAUSED", "BLOCKED"},
  BLOCKED         |-> {"PROSPECT", "ONBOARDING", "CONFIGURING", "TESTING", "READY", "ACTIVE"},
  ERROR           |-> {"PROSPECT", "ONBOARDING", "CONFIGURING", "TESTING", "READY", "ACTIVE"},
  WAITING_OWNER   |-> {"ONBOARDING", "CONFIGURING", "READY", "PAUSED", "BLOCKED"},
  WAITING_CLIENT  |-> {"ONBOARDING", "CONFIGURING", "READY", "PAUSED", "BLOCKED"} ]

TenantLifecycleState == DOMAIN ALLOWED_TENANT_LIFECYCLE_TRANSITIONS

sequence == <<"PROSPECT", "LEAD", "QUALIFIED", "PROPOSAL", "WAITING_PAYMENT", "PAID", "CLIENT",
              "ONBOARDING", "CONFIGURING", "TESTING", "READY">>

Unpaid  == {"PROSPECT", "LEAD", "QUALIFIED", "PROPOSAL", "WAITING_PAYMENT"}
Stopped  == {"BLOCKED", "ERROR"}
Pipeline == Unpaid \cup {"PAID", "CLIENT"}
(* The checklist by category, and what the categories weigh.                 *)
DEFAULT_CHECKLIST_TEMPLATES == [
  profile      |-> {"business_profile_completed", "business_description_completed"},
  products     |-> {"product_configured", "product_pricing_configured", "product_stock_configured"},
  knowledge    |-> {"ai_knowledge_configured"},
  policies     |-> {"return_policy_configured", "exchange_policy_configured", "refund_policy_configured"},
  guardrails   |-> {"ai_guardrails_initialized"},
  operations   |-> {"operating_hours_configured", "default_workflow_initialized",
                    "human_handoff_available", "tenant_configuration_validated"},
  integrations |-> {"payment_methods_configured", "shipping_information_configured",
                    "whatsapp_integration_available"} ]

CATEGORY_WEIGHTS == [profile |-> 20, products |-> 20, knowledge |-> 15, policies |-> 15,
                     guardrails |-> 10, operations |-> 10, integrations |-> 10]

Keys == UNION {DEFAULT_CHECKLIST_TEMPLATES[c] : c \in DOMAIN CATEGORY_WEIGHTS}
Required == Keys \ {"shipping_information_configured", "exchange_policy_configured",
                    "whatsapp_integration_available"}

(* What the provisioner's default categories, guardrails and workflows give, *)
(* and what the configuration as a whole needs.                              *)
Defaults == {"ai_knowledge_configured", "ai_guardrails_initialized",
             "default_workflow_initialized", "human_handoff_available"}
core_keys == Defaults \cup {"business_profile_completed", "product_configured", "product_pricing_configured"}

(* The score in hundredths, and READY: 90 points and nothing required open.  *)
Score(passed) ==
  MapThenSumSet(LAMBDA c : LET items == DEFAULT_CHECKLIST_TEMPLATES[c] IN
                  (100 * CATEGORY_WEIGHTS[c] * Cardinality(items \cap passed)
                     + Cardinality(items) \div 2) \div Cardinality(items),
                DOMAIN CATEGORY_WEIGHTS)
calculate(passed) == Required \subseteq passed /\ Score(passed) >= 9000

Reached(goal) == IF goal = "ONBOARDING" THEN {"ONBOARDING", "CONFIGURING", "TESTING", "READY", "ACTIVE"}
                                        ELSE {"READY", "ACTIVE"}
-----------------------------------------------------------------------------
VARIABLES
  state,      \* tenants.lifecycle_state
  sub,        \* the subscription: its status and whether it costs nothing
  settled,    \* there is a PAID invoice of it with a SUCCEEDED payment
  data,       \* the keys that what the tenant has filled in satisfies
  whatsapp,   \* there is an active WhatsApp connection
  checklist,  \* the onboarding checklist: not there, or the items COMPLETED
  tx,         \* the requests
  requests, changes,
  wasReady,   \* the validators have passed, with a checklist, at some time
  wasPaid,    \* the subscription has cost nothing or been settled at some time
  released    \* somebody let the tenant past WAITING_PAYMENT: a transition
              \* asked for by name, or the provisioner

world  == <<sub, settled, data, whatsapp>>
ghosts == <<wasReady, wasPaid, released>>
vars == <<state, world, checklist, tx, requests, changes, ghosts>>

NoSub == [status |-> "NONE", free |-> FALSE]
SubRow == [status : {"TRIALING", "ACTIVE", "EXPIRED"}, free : BOOLEAN] \cup {NoSub}
SessionRow == [pc    : {"idle", "transition", "advance", "refresh", "provision"},
               goal  : TenantLifecycleState \cup {None},  \* where this phase leads
               after : {"ACTIVE", "provision", None},     \* what comes next
               at    : 0..Len(sequence),                  \* position in the sequence
               copy  : TenantLifecycleState \cup {None},  \* the tenant as read
               sub   : SubRow,                            \* and the subscription
               owner : BOOLEAN]                           \* a platform owner asks

(* A state that is none of the table's is refused like a move that is not    *)
(* allowed, and billing never takes a subscription away.                     *)
Setting == /\ Targets \subseteq TenantLifecycleState
           /\ Bills \subseteq [sub : SubRow \ {NoSub}, settled : BOOLEAN]
           /\ Data \subseteq SUBSET Keys /\ Items \subseteq Keys
           /\ MaxRequests \in Nat /\ MaxChanges \in Nat

Idle == [pc |-> "idle", goal |-> None, after |-> None, at |-> 0, copy |-> None,
         sub |-> NoSub, owner |-> FALSE]

Init ==
  /\ state = "PROSPECT"
  /\ sub = NoSub /\ settled = FALSE
  /\ data \in Data      \* filled in before the first request
  /\ whatsapp = FALSE
  /\ checklist = None
  /\ tx = [s \in Sessions |-> Idle]
  /\ requests = 0 /\ changes = 0
  /\ wasReady = FALSE /\ wasPaid = FALSE /\ released = FALSE
-----------------------------------------------------------------------------
Move(s, row) == tx' = [tx EXCEPT ![s] = row]
Leave(s) == Move(s, Idle)

(* What passes of a tenant that has its defaults.                            *)
validate_all ==
  LET rows == data \cup Defaults \cup (IF whatsapp THEN {"whatsapp_integration_available"} ELSE {})
  IN  rows \cup (IF core_keys \subseteq rows THEN {"tenant_configuration_validated"} ELSE {})

(* The score counts what the validators say of an item, not what is ticked;  *)
(* the checklist comes with the defaults.                                    *)
Ready_Ticked == checklist # None /\ calculate(validate_all \cup checklist)
Ready == checklist # None /\ calculate(validate_all)

Current(x) == x.status \in {"TRIALING", "ACTIVE"}

(* The trial and every plan include WhatsApp; what has expired, nothing.     *)
can_use(x) == x.status \notin {"NONE", "EXPIRED"}
PaymentVerified == sub.status # "NONE" /\ (sub.free \/ settled)

(* The gate wants verified_payment in the metadata of a subscription that    *)
(* costs something; no code writes it.                                       *)
GateOpen_Unpaid(x) == Current(x) /\ Ready
GateOpen(x) == Current(x) /\ x.free /\ Ready

ValidTenantMove(from, to, owner, x) ==
  from = to \/ /\ from \in Stopped => owner
               /\ to \in ALLOWED_TENANT_LIFECYCLE_TRANSITIONS[from]
               /\ to = "ACTIVE" => GateOpen(x)

(* The UPDATE sets the state if it differs from the copy.                    *)
SetState(from, to) == state' = IF from = to THEN state ELSE to
Release(from, to)  == released' = (released \/ (from \in Unpaid \cup Stopped /\ to \notin Unpaid \cup Stopped))
-----------------------------------------------------------------------------
Request(s, row) ==
  /\ requests < MaxRequests
  /\ tx[s].pc = "idle"
  /\ requests' = requests + 1
  /\ Move(s, row)
  /\ UNCHANGED <<state, world, checklist, changes, ghosts>>

AskTransition(s, target, owner) ==
  Request(s, [Idle EXCEPT !.pc = "transition", !.goal = target, !.copy = state, !.sub = sub, !.owner = owner])

(* A tenant past the pipeline is only provisioned. *)
StartOnboarding(s, owner) ==
  Request(s, [Idle EXCEPT !.pc = IF state \in Pipeline THEN "advance" ELSE "provision",
                          !.goal = "ONBOARDING", !.after = "provision", !.copy = state, !.owner = owner])

(* POST .../validate ticks what passes (nothing decides on the ticks, which  *)
(* go with the first step that is committed) and goes on when it is READY.   *)
ValidateOnboarding(s, owner) ==
  /\ requests < MaxRequests
  /\ tx[s].pc = "idle" /\ checklist # None
  /\ requests' = requests + 1
  /\ checklist' = checklist \cup validate_all
  /\ Move(s, IF Ready THEN [Idle EXCEPT !.pc = "advance", !.goal = "READY", !.copy = state, !.owner = owner]
                      ELSE Idle)
  /\ UNCHANGED <<state, world, changes, ghosts>>

CompleteOnboarding(s, owner) ==
  /\ Request(s, [Idle EXCEPT !.pc = "advance", !.goal = "READY", !.copy = state, !.owner = owner])
  /\ Ready

AskActivation(s, owner) ==
  /\ state # "ACTIVE"
  /\ can_use(sub) /\ whatsapp /\ Ready
  /\ Request(s, IF state = "READY"
                THEN [Idle EXCEPT !.pc = "transition", !.goal = "ACTIVE",
                                  !.copy = state, !.sub = sub, !.owner = owner]
                ELSE [Idle EXCEPT !.pc = "advance", !.goal = "READY", !.after = "ACTIVE",
                                  !.copy = state, !.sub = sub, !.owner = owner])

AskProvision(s) == Request(s, [Idle EXCEPT !.pc = "provision", !.copy = state])

(* The summary of a tenant without a checklist, shown or asked for by        *)
(* another request, runs the provisioner first.                              *)
AskSummary(s) == checklist = None /\ AskProvision(s)
-----------------------------------------------------------------------------
(* transition_state, asked for by name or as the last step of an activation. *)
CommitTransition(s) ==
  LET t == tx[s] IN
  /\ t.pc = "transition"
  /\ IF ValidTenantMove(t.copy, t.goal, t.owner, t.sub)
     THEN SetState(t.copy, t.goal) /\ Release(t.copy, t.goal)
     ELSE UNCHANGED <<state, released>>
  /\ Leave(s)
  /\ UNCHANGED <<world, checklist, requests, changes, wasReady, wasPaid>>

(* What follows the pipeline: the provisioner, the activation, or nothing.   *)
Proceed(t, copy) ==
  CASE t.after = "provision" -> [Idle EXCEPT !.pc = "provision", !.copy = copy]
    [] t.after = "ACTIVE"    -> [Idle EXCEPT !.pc = "transition", !.goal = "ACTIVE", !.copy = copy,
                                      !.sub = t.sub, !.owner = t.owner]
    [] OTHER                 -> Idle

Position(t) == IF t.at = 0 THEN SelectInSeq(sequence, LAMBDA x : x = t.copy) ELSE t.at

(* One step of advance_to_onboarding or advance_to_ready.                    *)
AdvanceDone(s) ==
  LET t == tx[s] IN
  /\ t.pc = "advance"
  /\ \/ t.at = 0 /\ t.copy \in Reached(t.goal)
     \/ t.at # 0 /\ sequence[t.at] = t.goal
  /\ Move(s, Proceed(t, t.copy))
  /\ UNCHANGED <<state, world, checklist, requests, changes, ghosts>>

Advancing(t) == LET i == Position(t) IN
                /\ t.pc = "advance" /\ i # 0
                /\ t.at = 0 => t.copy \notin Reached(t.goal)
                /\ sequence[i] # t.goal

MayPass_Unchecked(i) == TRUE
MayPass(i) == sequence[i] = "WAITING_PAYMENT" => PaymentVerified

AwaitPayment(s) ==
  /\ Advancing(tx[s])
  /\ ~ MayPass(Position(tx[s]))
  /\ Move(s, Proceed(tx[s], tx[s].copy))
  /\ UNCHANGED <<state, world, checklist, requests, changes, ghosts>>

Advance(s) ==
  LET t == tx[s]
      i == Position(t)
  IN
  /\ Advancing(t)
  /\ MayPass(i)
  /\ IF ValidTenantMove(t.copy, sequence[i + 1], t.owner, t.sub)
     THEN /\ SetState(t.copy, sequence[i + 1])
          /\ Move(s, [t EXCEPT !.pc = "refresh", !.at = i + 1])
     ELSE Leave(s) /\ UNCHANGED state
  /\ UNCHANGED <<world, checklist, requests, changes, ghosts>>

Refresh(s) ==
  /\ tx[s].pc = "refresh"
  /\ Move(s, [tx[s] EXCEPT !.pc = "advance", !.copy = state])
  /\ UNCHANGED <<state, world, checklist, requests, changes, ghosts>>

(* From a state outside the sequence the goal is tried at once.              *)
AdvanceDirectly(s) ==
  LET t == tx[s] IN
  /\ t.pc = "advance" /\ Position(t) = 0 /\ t.copy \notin Reached(t.goal)
  /\ IF ValidTenantMove(t.copy, t.goal, t.owner, t.sub)
     THEN /\ SetState(t.copy, t.goal) /\ Release(t.copy, t.goal)
          /\ Move(s, Proceed(t, t.goal))
     ELSE Leave(s) /\ UNCHANGED <<state, released>>
  /\ UNCHANGED <<world, checklist, requests, changes, wasReady, wasPaid>>

(* provision_tenant: the checklist with the other defaults and a trial if    *)
(* they are missing, the ticks, and the state, which it sets from the copy   *)
(* without asking the transition table.                                      *)
Initialize ==
  /\ checklist' = validate_all
  /\ sub' = IF sub.status = "NONE" THEN [status |-> "TRIALING", free |-> FALSE] ELSE sub

Provisioned(copy) ==
  CASE calculate(validate_all) -> "READY"
    [] ~ calculate(validate_all) /\ copy \in {"PROSPECT", "ONBOARDING"} -> "CONFIGURING"
    [] OTHER -> copy

CommitProvision(s) ==
  LET copy == tx[s].copy IN
  /\ tx[s].pc = "provision"
  /\ Initialize
  /\ SetState(copy, Provisioned(copy))
  /\ wasReady' = (wasReady \/ calculate(validate_all))
  /\ Release(copy, Provisioned(copy))
  /\ Leave(s)
  /\ UNCHANGED <<settled, data, whatsapp, requests, changes, wasPaid>>

Drop(s) ==
  /\ tx[s].pc # "idle"
  /\ Leave(s)
  /\ UNCHANGED <<state, world, checklist, requests, changes, ghosts>>
-----------------------------------------------------------------------------
Change == changes < MaxChanges /\ changes' = changes + 1
SeenReady == wasReady' = (wasReady \/ (checklist # None /\ calculate(validate_all))')

(* PATCH .../checklist/{item}: an item is ticked, or the tick taken back     *)
(* (only a required item cannot be skipped).                                 *)
UpdateChecklistItem(item) ==
  /\ Change
  /\ checklist # None
  /\ checklist' \in {checklist \cup {item}, checklist \ {item}} \ {checklist}
  /\ UNCHANGED <<state, world, tx, requests, ghosts>>

(* The profile, the products and the policies are filled in or taken back.   *)
ChangeBusiness(filled) ==
  /\ Change
  /\ data' = filled
  /\ data' # data
  /\ UNCHANGED <<state, sub, settled, whatsapp, checklist, tx, requests, wasPaid, released>>
  /\ SeenReady

(* The account answers the health check, or the connection stays in ERROR.   *)
ConnectWhatsApp(healthy) ==
  /\ Change
  /\ can_use(sub)
  /\ whatsapp' = healthy
  /\ checklist' = IF healthy /\ checklist # None
                  THEN checklist \cup {"whatsapp_integration_available"} ELSE checklist
  /\ UNCHANGED <<state, sub, settled, data, tx, requests, wasPaid, released>>
  /\ SeenReady

(* The tick of the item stays.                                               *)
DisconnectWhatsApp ==
  /\ Change
  /\ whatsapp
  /\ whatsapp' = FALSE
  /\ UNCHANGED <<state, sub, settled, data, checklist, tx, requests, wasPaid, released>>
  /\ SeenReady

ChangeSubscription(bill) ==
  /\ Change
  /\ sub.status # "NONE"
  /\ sub' = bill.sub /\ settled' = bill.settled
  /\ wasPaid' = (wasPaid \/ PaymentVerified')
  /\ UNCHANGED <<state, data, whatsapp, checklist, tx, requests, wasReady, released>>

Quiet == (\A s \in Sessions : tx[s].pc = "idle") /\ UNCHANGED vars

Next ==
  \/ \E s \in Sessions, target \in Targets, owner \in BOOLEAN : AskTransition(s, target, owner)
  \/ \E s \in Sessions :
       \/ \E owner \in BOOLEAN :
            \/ StartOnboarding(s, owner) \/ ValidateOnboarding(s, owner)
            \/ CompleteOnboarding(s, owner) \/ AskActivation(s, owner)
       \/ AskProvision(s) \/ AskSummary(s)
       \/ CommitTransition(s) \/ AdvanceDone(s) \/ AwaitPayment(s) \/ Advance(s) \/ Refresh(s)
       \/ AdvanceDirectly(s) \/ CommitProvision(s) \/ Drop(s)
  \/ \E item \in Items : UpdateChecklistItem(item)
  \/ \E filled \in Data : ChangeBusiness(filled)
  \/ \E healthy \in BOOLEAN : ConnectWhatsApp(healthy)
  \/ DisconnectWhatsApp
  \/ \E bill \in Bills : ChangeSubscription(bill)
  \/ Quiet

Spec == Init /\ [][Next]_vars
-----------------------------------------------------------------------------
(* Every variable keeps its type.                                            *)
TypeOK ==
  /\ state \in TenantLifecycleState
  /\ sub \in SubRow /\ {settled, whatsapp} \subseteq BOOLEAN
  /\ data \subseteq Keys
  /\ checklist = None \/ checklist \subseteq Keys
  /\ tx \in [Sessions -> SessionRow]
  /\ requests \in 0..MaxRequests /\ changes \in 0..MaxChanges
  /\ ghosts \in BOOLEAN \X BOOLEAN \X BOOLEAN

(* No tenant is ACTIVE whose business data the validators have never passed: *)
(* not by ticking the checklist, not by requests that overlap.               *)
ActiveWasReady == state = "ACTIVE" => wasReady

(* No tenant is ACTIVE on a subscription that has always cost something and  *)
(* was never paid.                                                           *)
ActivePaidFor == state = "ACTIVE" => wasPaid

(* The pipeline stops before PAID until the payment is verified, unless      *)
(* somebody asks for a state by name or the provisioner sets one.            *)
PipelineWaitsForPayment == state \notin Unpaid \cup Stopped => wasPaid \/ released
=============================================================================
