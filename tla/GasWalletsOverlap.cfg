\* A registration, a report and the admin updates overlap.
CONSTANTS
    Wallets = {w1}
    Peers = {p1, p2}
    Registers = {r1}
    Reports = {t1}
    Grace = 1
    NoPeer = NoPeer
    Admin = TRUE
SPECIFICATION FairSpec
PROPERTIES ReclaimsStoppedPeers
