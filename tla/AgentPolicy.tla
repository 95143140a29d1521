---------------------------- MODULE AgentPolicy ----------------------------
(***************************************************************************)
(* The operator's side of a supervised agent task: the reviewed template    *)
(* (damage_agent_policy.erl) and its fixed price list                       *)
(* (damage_agent_budget.erl).  Nothing here changes during a task: a task   *)
(* whose template changed is refused by profile/1 (AgentTask!Profile).      *)
(***************************************************************************)
EXTENDS Integers, FiniteSets

CONSTANTS
    Skills,          \* action identifiers of the template
    NoSkill,         \* "no pending proposal"
    Effect,          \* [Skills -> Effects]
    Approval,        \* [Skills -> {"true", "false", "unset"}], the template's approval flag
    Requires,        \* [Skills -> SUBSET Skills], prerequisites of an action
    RequiredActions, \* required_actions: what a finish proposal must have evidence of
    Metered,         \* TRUE: accounting mode aeternity; FALSE: disabled
    MaxCostUnits,    \* max_cost_units, the ceiling reserved once
    PlannerRate,     \* tariff of a planner invocation
    VerifierRate,    \* tariff of a verifier invocation
    ActionRate,      \* [Skills -> Nat], tariff of each action
    MaxIterations,   \* the smaller of max_iterations and max_llm_calls
    MaxReadFailures, MaxVerificationFailures, MaxNoProgress

Effects == {"read", "local_artifact", "isolated_write", "external_write"}

ASSUME TemplateAssumption ==
    /\ NoSkill \notin Skills
    /\ Effect \in [Skills -> Effects]
    /\ Approval \in [Skills -> {"true", "false", "unset"}]
    /\ Requires \in [Skills -> SUBSET Skills]
    /\ RequiredActions \in SUBSET Skills

ASSUME TariffAssumption ==
    /\ Metered \in BOOLEAN
    /\ MaxCostUnits \in Nat \ {0}
    /\ PlannerRate \in Nat /\ VerifierRate \in Nat
    /\ ActionRate \in [Skills -> Nat]

ASSUME LimitAssumption ==
    /\ MaxIterations \in Nat \ {0}
    /\ MaxReadFailures \in Nat \ {0}
    /\ MaxVerificationFailures \in Nat \ {0}
    /\ MaxNoProgress \in Nat \ {0}

(* Does this action wait for its owner's approval? *)
NeedsApproval(skill) ==
    \/ Effect[skill] = "external_write"
    \/ Effect[skill] = "isolated_write" /\ Approval[skill] # "false"
    \/ Effect[skill] \in {"read", "local_artifact"} /\ Approval[skill] = "true"

Terminal == {"completed", "failed", "cancelled", "cancelled_unreconciled", "exhausted"}

(* The worker phases that are invocations with a tariff. *)
WorkPhases == {"planning", "executing", "verifying"}

(* The fixed price of one invocation; an unmetered task pays nothing. *)
Rate(workPhase, skill) ==
    IF ~Metered THEN 0
    ELSE CASE workPhase = "planning"  -> PlannerRate
           [] workPhase = "verifying" -> VerifierRate
           [] workPhase = "executing" -> ActionRate[skill]

AffordableOverCap(budget, spent, units) ==   \* Mutant: the last invocation may overdraw
    budget = "reserved" /\ spent <= MaxCostUnits

(* cost/2: an invocation is admitted against a confirmed reservation and    *)
(* within the ceiling.  charge/3 asserts the same test again.               *)
Affordable(budget, spent, units) ==
    budget = "reserved" /\ spent + units <= MaxCostUnits
=============================================================================
