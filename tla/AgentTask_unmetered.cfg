SPECIFICATION Spec
CONSTANTS
    look = look
    draft = draft
    push = push
    NoSkill = NoSkill
    Skills <- AllSkills
    Effect <- MCEffect
    Approval <- MCApproval
    Requires <- MCRequires
    RequiredActions <- MCRequired
    ActionRate <- MCActionRate
    Metered = FALSE
    MaxCostUnits = 5
    PlannerRate = 1
    VerifierRate = 1
    MaxIterations = 4
    MaxReadFailures = 2
    MaxVerificationFailures = 2
    MaxNoProgress = 2
    MaxRestarts = 1
    MaxWorkerExits = 1
INVARIANT CompletedIsVerified
PROPERTIES
    ProposalRunsOnce
    LostEffectIsFinal
