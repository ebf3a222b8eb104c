\* Three calls of any kind, two of them at most without lending, two
\* connections, so that the pool does come to a standstill, two changes of
\* rules by hand and an imported code.
CONSTANTS
    inv = inv
    cus = cus
    vou = vou
    None = None
    Callers = {c1, c2, c3}
    Types = {inv, cus, vou}
    Branched = {inv}
    Coded = {cus}
    Kinds <- AllKinds
    Connections = 2
    Shared <- InUse
    MaxAttempts = 2
    MaxNested = 2
    MaxGen = 2
    MaxRuleChanges = 2
    Edited = {inv}
    MaxImports = 1
SPECIFICATION Spec
SYMMETRY Symmetry
INVARIANTS
    NumberingTypeOK
    NumbersUnique
    CutoverKeepsNumbers
    GapsAreBurned
    
CHECK_DEADLOCK FALSE
