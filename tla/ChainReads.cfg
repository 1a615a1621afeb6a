CONSTANTS
    g = g
    a1 = a1
    a2 = a2
    b1 = b1
    t1 = t1
    t2 = t2
    s1 = s1
    s2 = s2
    None = None
    Blocks = {g, a1, a2, b1}
    Genesis = g
    parent_hash <- MCParent
    transactions <- MCTransactions
    sender <- MCSender
    Readers = {r1, r2}
    AskedBlocks = {a2, b1}
    AskedTransactions = {t1}
    Capacity = 2
    MaxCommits = 2
SPECIFICATION Spec
SYMMETRY Symmetry
INVARIANTS
    CacheInOrder
    AnswersOwnBlock
    TagsAgree
