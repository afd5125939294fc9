SPECIFICATION Spec
CONSTANTS
    Setups <- MCSetups
    IsMate <- IsNine
    Unlimited = 1000
INVARIANTS
    ClocksAreFair
    TimeLossDeserved
    AdjudicatedWhenDue
    ResultsAgree
