SPECIFICATION Spec
CONSTANTS
    Readers = {r}
    Setters = {s1, s2}
    Replacers = {i}
    Editors = {e}
    Original = Original
    Paths = {region, zone}
    Required = {region}
    Values = {v1, v2}
    BadValue = BadValue
    Missing = Missing
    Scribbles = {Garbage, Torn, Empty}
    Garbage = Garbage
    Torn = Torn
    Empty = Empty
    Inputs <- MCInputs
    Changes <- MCChanges
    MaxCalls = 3
    NoInode = NoInode
    NoText = NoText
    region = region
    zone = zone
    v1 = v1
    v2 = v2
SYMMETRY MCSymmetry
INVARIANT TypeOK
INVARIANT StaysLoadable
INVARIANT LostOnlyByOverlap
PROPERTY RegisterSpec
CHECK_DEADLOCK FALSE
