\* Every script, with lists of one to seven domains instead of 1000 to 1000000 and
\* the collision budgets of the code.  ccleaner's pass of three years with two
\* months holds more domains than its three lists, as 1000 years with eleven do.
CONSTANTS
    MaxRows = 2
    MaxItems = 3
    YEARS = 3
    MONTHS = 2
    Tiers <- SmallTiers
    Hundred = 3
    Thousand = 2
SPECIFICATION Spec
INVARIANTS
    ListsAgree
    DiesUntestedOnly
    EndsForAReason
PROPERTY Halts
CHECK_DEADLOCK FALSE
