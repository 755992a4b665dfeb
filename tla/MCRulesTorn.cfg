SPECIFICATION Spec
CONSTANTS
    s1 = s1
    s2 = s2
    r1 = r1
    r2 = r2
    h1 = h1
    Savers <- MCTwo
    Rules <- MCRules
    Hosts <- MCHosts
    Ops <- MCSet
    MaxCrashes = 0
    Missing = Missing
    Torn = Torn
INVARIANT NeverTruncated
SYMMETRY Symmetric
