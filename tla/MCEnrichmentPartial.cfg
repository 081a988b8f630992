SPECIFICATION FairSpec
CONSTANTS
  FunctionIds <- MCFunctionIds
  Subcats <- MCSubcats
  MaxJobs = 2
  MaxChanges = 2
INVARIANTS
  UnansweredIsPartial
CHECK_DEADLOCK FALSE
