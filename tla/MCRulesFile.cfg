SPECIFICATION Spec
CONSTANTS
    s1 = s1
    s2 = s2
    r1 = r1
    r2 = r2
    h1 = h1
    Savers <- MCOne
    Rules <- MCRules
    Hosts <- MCHosts
    Ops <- MCAll
    MaxCrashes = 2
    Missing = Missing
    Torn = Torn
INVARIANTS
    TypeOK
    NeverTruncated
    LoadFindsLastSave
    AtRestSaved
SYMMETRY Symmetric
