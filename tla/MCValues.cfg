\* Every input of the sets in MCRuleClaims and MCValues.
SPECIFICATION ValuesSpec
CONSTANTS
    Plans <- PlanCases
    Waits <- WaitCases
    Restores <- RestoreCases
    Observations <- StateCases
    StatusChanges <- StatusCases
    Restarts <- RestartCases
    Asked <- ActionCases
    Stores <- ListCases
    Judged <- StrictCases
    Documents <- DocumentCases
    Gates <- GateCases
    Budgets <- BudgetCases
    Decisions <- ApprovalCases
    Secrets <- SecretCases
INVARIANTS
    RunsAreRead
    ActionsAreGated
    AnswersAreTold
CHECK_DEADLOCK FALSE
