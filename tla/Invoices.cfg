SPECIFICATION FairSpec
CONSTANTS
  Orders = {o1, o2}
  Requests = {r1, r2}
  LastYear = 2
  Nobody = Nobody
INVARIANTS Consecutive Unique AnswersAreCommitted
PROPERTIES OnlySuppliedIsInvoiced Refinement EveryRequestAnswers
