\* A plan paid by the year, here of two months.
SPECIFICATION Spec
CONSTANTS
    Drafts = {h1}
    monthly_cap = 1
    Terms = {1, 2}
    NoRenewal = NoRenewal
    MaxMonths = 2
    MaxMade = 3
INVARIANT MonthlyCapHeld
