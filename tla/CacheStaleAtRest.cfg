SPECIFICATION Spec
CONSTANTS
    w1 = w1
    w2 = w2
    w3 = w3
    Writers = {w1}
    KindOf <- MCUpdates
    Readers = {r1}
    Refreshers = {}
    Ttl <- MCTtl
INVARIANT NothingStaleAtRest
