SPECIFICATION Spec
CONSTANTS
    usable_len = 3
    Writers = {w1, w2}
    Readers = {r1, r2}
    Byte = {1, 2}
    Payloads <- MCPayloads
    MaxWrites = 3
SYMMETRY Symmetric
INVARIANTS
    TypeOK
    NeverCorrupt
PROPERTIES
    NoOverwrite
    SpaceOnlyGrows
    ChannelSpec
