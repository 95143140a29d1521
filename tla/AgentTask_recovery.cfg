SPECIFICATION Spec
CONSTANTS
    look = look
    draft = draft
    push = push
    NoSkill = NoSkill
    Skills <- OneSkill
    Effect <- MCEffect
    Approval <- MCApproval
    Requires <- MCRequires
    RequiredActions <- MCRequired
    ActionRate <- MCActionRate
    Metered = TRUE
    MaxCostUnits = 5
    PlannerRate = 1
    VerifierRate = 1
    MaxIterations = 2
    MaxReadFailures = 2
    MaxVerificationFailures = 2
    MaxNoProgress = 2
    MaxRestarts = 1
    MaxWorkerExits = 1
INVARIANTS
    Inductive
    Answerable
    MoneyStands
    MutationsStand
PROPERTIES
    DraftIsFinal
    ImplementsEscrow
