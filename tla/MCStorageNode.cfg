CONSTANTS
    c1 = c1
    c2 = c2
    b1 = b1
    b2 = b2
    b3 = b3
    h1 = h1
    h2 = h2
    h3 = h3
    p1 = p1
    None = None
    Callers <- MCCallers
    Bocs <- MCBocs
    Hashes <- MCHashes
    ContentHash <- MCContentHash
    Peers <- MCPeers
    Charge <- MCCharge

SPECIFICATION NodeSpec

INVARIANT TypeOK
INVARIANT ProofBinding
INVARIANT PairedWhenUnlocked
INVARIANT StoredPaidFor
PROPERTY AtomicAdmission
