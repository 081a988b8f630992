SPECIFICATION FairSpec
CONSTANTS
  FunctionIds <- MCFunctionIds
  Subcats <- MCSubcats
  MaxJobs = 2
  MaxChanges = 2
INVARIANTS
  OneTextAfterOff
  FamilyMatch
PROPERTIES
  OrgGoverns
CHECK_DEADLOCK FALSE
