\* Two concurrent calls on six requests, at most three signatures.
CONSTANTS
    order1 = order1  transfer1 = transfer1
    swap1 = swap1  swap2 = swap2  split1 = split1  split2 = split2  receipt1 = receipt1
    x = x  y = y  z = z  r1 = r1  r2 = r2
    None = None
    Calls = {r1, r2}
    Keys = {order1, transfer1, swap1, swap2, split1, split2}
    Contents = {x, y, z}
    Receipts = {receipt1}
    KindOf <- MCKindOf
    ContentsOf <- MCContentsOf
    SourcesOf <- MCSourcesOf
    MaxSigned = 3
SPECIFICATION Spec
SYMMETRY Symmetry
INVARIANTS TypeOK OnePayloadPerRequest SourcePaysOneSplit FinalizedIsOnChain
