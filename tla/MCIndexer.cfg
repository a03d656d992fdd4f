\* Two overlapping syncs, two baskets; a scan reads two pages of one signature.
CONSTANTS
    None = None
    Syncs = {w1, w2}
    Baskets = {b1, b2}
    PageSize = 1
    MaxPages = 2
    MaxSlot = 3
    MaxTxs = 3
SPECIFICATION Spec
SYMMETRY Symmetry
INVARIANTS TypeOK RowsAreOfTheirSlot CursorIsProjected EventsUpToCursor
