\* Two lanes, every mask, condition and index, two scalars, in a loop or not.
SPECIFICATION Spec
CONSTANTS
    Lanes = {0, 1}
    Scalars = {"x", "y"}
INVARIANT TypeOK
INVARIANT SelectRight
INVARIANT InsertRight
INVARIANT SourceKept
