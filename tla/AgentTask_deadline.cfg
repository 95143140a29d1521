SPECIFICATION FairSpec
CONSTANTS
    look = look
    draft = draft
    push = push
    NoSkill = NoSkill
    Skills <- OneSkill
    Effect <- MCEffect
    Approval <- MCApproval
    Requires <- MCRequires
    RequiredActions <- MCRequired
    ActionRate <- MCActionRate
    Metered = TRUE
    MaxCostUnits = 4
    PlannerRate = 1
    VerifierRate = 1
    MaxIterations = 1
    MaxReadFailures = 2
    MaxVerificationFailures = 2
    MaxNoProgress = 2
    MaxRestarts = 2
    MaxWorkerExits = 0
PROPERTIES
    DeadlineConcludesOrParks
    SettledIsReceipted
