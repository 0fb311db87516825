\* Up to six insertions of seven keys (two of them equal to keycmp) with
\* two values, lookups of every key in between, and release of the tree.
CONSTANTS
    v1 = v1
    v2 = v2
    Keys <- MCKeys
    Values <- MCValues
    KeyCmp <- mboxBufCaseCmp
    NoValue = NoValue
    MaxSize = 6
SYMMETRY ValueSymmetry
SPECIFICATION Spec
INVARIANT TypeOK SentinelReadOnly Linked RedBlack SearchOrder NoNodeLeak
PROPERTY ImplementsHeaderMap
\* A tree with MaxSize nodes still answers lookups, so there is no deadlock.
