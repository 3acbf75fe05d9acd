SPECIFICATION FairSpec
CONSTANTS
    r1 = r1
    r2 = r2
    d1 = d1
    d2 = d2
    gated = gated
    plain = plain
    Runs = {r1, r2}
    Deciders = {d1}
    Versions = {gated, plain}
    Gated = {gated}
    Faults = {"agent", "resume", "crash"}
INVARIANT DraftHeld
INVARIANT ResumeFindsItsGate
 
INVARIANT DecisionTakesEffect
INVARIANT PausedIsReviewable
PROPERTY EverythingSettles
