\* Three members, quorum of two, two instructions; the deadline falls inside
\* the run and the rate limit is reached several times.
CONSTANTS
    Members = {m1, m2, m3}
    MinSignatures = 2
    Instrs = {i1, i2}
    NoInstr = NoInstr
    Nonces = {1, 2, 3, 4, 5, 6, 7}
    RateWindow = 3
    RateLimit = 2
    SignatureTimeout = 4
    Epoch = 3
    MaxTime = 13
SPECIFICATION Spec
SYMMETRY Symmetry
INVARIANTS
    AtMostRateLimitPerWindow
    IInv
PROPERTIES
    FreshQuorum
    NoSignatureCountsTwice
    NoQuorumAfterDeadline
    ImplementsApproval
\* The bounded clock and the finite set of nonces run out.
CHECK_DEADLOCK FALSE
