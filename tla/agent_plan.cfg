SPECIFICATION Spec
CONSTANTS
  Assets <- MCAssets
  Policies <- MCPolicies
  Proposals <- MCProposals
  Accounts <- MCAccounts
  Prices = {1, 2}
  RepayAt = 15  StopBorrowAt = 20
  MaxPlans = 1  MaxEvents = 2
INVARIANT BatchFits
PROPERTIES AllowancesReturned PositionProtected
