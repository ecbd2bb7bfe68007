SPECIFICATION Spec
CONSTANTS
    Handle = {h1, h2}
    NoHandle = none
    x = x
    y = y
    f = f
    g = g
    Id = {x, y}
    File = {f, g}
    FileOf <- MCFileOf
    Version = {v1, v2}
    NoRow = NoRow
    MaxSize = 1
    Load = {"l"}
    Span = {s, t}
    Groundings <- MCGroundings
SYMMETRY MCSymmetry
INVARIANTS
    CacheCoherent
    ClaimsGrounded
