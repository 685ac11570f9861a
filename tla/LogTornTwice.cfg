SPECIFICATION Spec
CONSTANTS
    Bad = Bad
    SlotsPerPage = 2
    MaxItems = 5
    MaxTorn = 2
INVARIANTS
    OpensAgain
