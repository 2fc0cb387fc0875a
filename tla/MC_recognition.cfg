CONSTANTS
    Rooms = {r1}
    Keys = {k1}
    Nonces = {n1, n2}
    PeerNonces = {m1}
    Paths = {p1, p2}
    Secrets = {s1, s2}
    None = None
    MaxOutstanding = 1
    MaxFaults = 1
SPECIFICATION Spec
INVARIANTS EncountersCountedOnce BlocksStick OneAnswerPerChallenge
SYMMETRY Names
