CONSTANTS
    p1 = p1
    p2 = p2
    v1 = v1
    v2 = v2
    Absent = Absent
    NoPath = NoPath
    Paths = {p1, p2}
    Vals = {v1, v2}
    SearchOrder <- MCSearchOrder
SPECIFICATION Spec
INVARIANT DisplayedMatchesFile
