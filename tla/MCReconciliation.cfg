SPECIFICATION BooksSpec
CONSTANTS
    Models <- MCModels
    Variants <- MCVariants
    Price <- MCPrice
    Tokens = {100, 101}
    MaxTime = 3
    MaxSettled = 2
    MaxLines = 2
    TimeTolerance = 1
    TokenTolerance = 200
    CostTolerance = 100
INVARIANTS UngovernedSpendFound HonestInvoicePasses NoBetterPair
