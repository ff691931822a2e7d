SPECIFICATION Spec
CONSTANTS
    Name = {n1, n2}
    Password = {p1, p2}
    Rest = {r1, r2}
    NoEntry = NoEntry
INVARIANTS
    TypeOK
    ListIsMap
    ChangesExplainTable
    FileHasTheRest
PROPERTIES
    ChangesAreStored
