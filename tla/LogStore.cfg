SPECIFICATION SparingSpec
CONSTANTS
    Bad = Bad
    SlotsPerPage = 2
    MaxItems = 5
    MaxTorn = 3
INVARIANTS
    OpensAgain
PROPERTIES
    ImplementsDurableLog
