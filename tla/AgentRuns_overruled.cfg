SPECIFICATION Spec
CONSTANTS
    r1 = r1
    r2 = r2
    d1 = d1
    d2 = d2
    gated = gated
    plain = plain
    Runs = {r1}
    Deciders = {d1, d2}
    Versions = {gated}
    Gated = {gated}
    Faults = {}
INVARIANT DecisionTakesEffect
