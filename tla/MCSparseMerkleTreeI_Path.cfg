\* update's path walk over every full tree against the spec's leaf index.
\* Deadlock is not checked: update stops only at the model's cap on public
\* inputs, once add_virtual_public_input has used it up.
CONSTANTS
    kA = kA
    kB = kB
    kE = kE
    v1 = v1
    Zero = Zero
    None = None
    Keys <- MCKeys
    KeyBytes <- MCKeyBytes
    Values <- MCValues
    Height = 2
    ByteBits = 2
    MaxPublicInputs = 12

INIT MCFullTreeInit
NEXT SmtNext
CHECK_DEADLOCK FALSE
INVARIANT MCPathReachesLeaf
