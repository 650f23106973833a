\* What the header says of codes.
CONSTANTS
    Codes = {c1}
    Grants = {g1, g2}
    Bridges = {b1, b2, b3}
    Modes = {m1}
    Calls = {r1, r2}
    Default = Default
    None = None
SPECIFICATION Spec
SYMMETRY Symmetry
INVARIANTS CodesSingleUse
