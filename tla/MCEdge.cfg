SPECIFICATION FairSpec
CONSTANTS
  Request = {r1}
INVARIANTS TypeOK OneAnswer LogTellsTruth BudgetIsForHandlers
PROPERTIES FilesClosed
