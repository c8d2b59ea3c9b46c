\* Signatures dropped at the one deadline are younger than the timeout.
CONSTANTS
    Members = {m1, m2, m3}
    MinSignatures = 2
    Instrs = {i1, i2}
    NoInstr = NoInstr
    Nonces = {1, 2, 3, 4, 5, 6}
    RateWindow = 3
    RateLimit = 2
    SignatureTimeout = 4
    Epoch = 3
    MaxTime = 12
SPECIFICATION Spec
SYMMETRY Symmetry
PROPERTIES
    OnlyOldSignaturesExpire
\* The bounded clock and the finite set of nonces run out.
CHECK_DEADLOCK FALSE
