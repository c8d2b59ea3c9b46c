\* The whole public interface, unsign_multisig included, quorum of all three.
\* No symmetry: a liveness property is checked.
CONSTANTS
    Members = {m1, m2, m3}
    MinSignatures = 3
    Instrs = {i1, i2}
    NoInstr = NoInstr
    Nonces = {1, 2, 3, 4, 5, 6}
    RateWindow = 3
    RateLimit = 2
    SignatureTimeout = 4
    Epoch = 3
    MaxTime = 10
SPECIFICATION ApiSpec
INVARIANTS
    CountMatchesBitmap
PROPERTIES
    LimiterReopens
\* The bounded clock and the finite set of nonces run out.
CHECK_DEADLOCK FALSE
