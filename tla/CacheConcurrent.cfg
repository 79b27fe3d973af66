SPECIFICATION FairSpec
CONSTANTS
    w1 = w1
    w2 = w2
    w3 = w3
    Writers = {w1, w2, w3}
    KindOf <- MCMixedKinds
    Readers = {r1}
    Refreshers = {f1}
    Ttl <- MCTtl
INVARIANTS TypeOK OnlyCommittedIsCached
PROPERTY StaleEntriesExpire
