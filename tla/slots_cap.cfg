SPECIFICATION Spec
CONSTANTS
    Streams = {s1, s2, s3}
    Pods = {p1, p2}
    MaxStreams = 2
    TTL = 2
    Lifetime = 3
    MaxFaults = 2
    Prompt = FALSE
SYMMETRY Symmetry
INVARIANTS TypeOK CapUnlessDegraded PositiveIsTimed
PROPERTY ImplementsCap
