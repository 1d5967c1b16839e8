CONSTANTS
    c1 = c1
    c2 = c2
    b1 = b1
    b2 = b2
    h1 = h1
    h2 = h2
    h3 = h3
    t1 = t1
    t2 = t2
    None = None
    Callers <- MCCallers
    Bocs <- MCBocs
    Hashes <- MCHashes
    ContentHash <- MCContentHash
    Peers <- MCPeers
    Charge <- MCCharge
    Tasks <- MCTasks
    Size <- MCSize
    MaxResponseSize <- MCMaxResponseSize
    ResponseThreshold <- MCResponseThreshold
    MetricsCap <- MCMetricsCap

SPECIFICATION ManagerSpec

PROPERTY StoppedLoopEnds
