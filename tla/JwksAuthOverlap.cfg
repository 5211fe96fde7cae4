SPECIFICATION Spec
CONSTANTS
    k1 = k1  k2 = k2  k3 = k3
    Kids = {k1, k2, k3}
    Supported = {k1, k2}
    KeySets <- MCKeySets
    Tokens <- MCTokens
    Workers = {w1, w2}
INVARIANTS RefreshHelps
