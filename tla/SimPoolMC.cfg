SPECIFICATION PoolFairSpec
CONSTANTS
    Decks = {d1, d2, d3, d4}
    Workers = {w1, w2}
    Idle = Idle
INVARIANTS OneSimPerDeck
PROPERTIES ImplementsBatch BatchReturns
CHECK_DEADLOCK FALSE
