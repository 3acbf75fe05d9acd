SPECIFICATION Spec
CONSTANTS
    e1 = e1
    e2 = e2
    a1 = a1
    a2 = a2
    ask = ask
    other = other
    noSource = noSource
    s1 = s1
    s2 = s2
    broken = broken
    Names = {ask, other}
    DefaultName = ask
    Specs = {s1, s2}
    Compiles = {s1, s2}
    DefaultSpec = s1
    NoSource = noSource
    Editors = {e1}
    Askers = {a1, a2}
    MaxVersions = 3
INVARIANT ExactlyOneActive
PROPERTY ImplementsLiveVersion
