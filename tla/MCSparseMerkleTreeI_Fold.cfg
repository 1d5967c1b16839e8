\* The root update computes, against the spec's fold, over full trees.
CONSTANTS
    kA = kA
    kB = kB
    kE = kE
    v1 = v1
    Zero = Zero
    None = None
    Keys <- MCKeys
    KeyBytes <- MCKeyBytes
    Values <- MCValues
    Height = 2
    ByteBits = 2
    MaxPublicInputs = 12

INIT MCFullTreeInit
NEXT SmtNext
INVARIANT MCUpdateRootMatchesSpec
