\* Two overlapping registrations of one peer.
CONSTANTS
    Wallets = {w1, w2}
    Peers = {p1, p2}
    Registers = {r1, r2}
    Reports = {t1}
    Grace = 1
    NoPeer = NoPeer
    Admin = FALSE
SPECIFICATION Spec
INVARIANTS OneLiveWalletPerPeer
