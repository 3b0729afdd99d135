---------------------------- MODULE BundleTokens ----------------------------
(***************************************************************************)
(* What the bundle rate limit promises of one token per bundle: it is      *)
(* taken before the bundle is handed out, and comes back at most once and  *)
(* only after the bundle has settled on-chain.  Nothing more is promised   *)
(* of a bundle once the handling of its settlement was disturbed.          *)
(***************************************************************************)
CONSTANT Bundles

VARIABLE phase

Init == phase = [b \in Bundles |-> "none"]

Moves(b, from, to) == phase[b] = from /\ phase' = [phase EXCEPT ![b] = to]

Next ==
    \E b \in Bundles :
        \/ Moves(b, "none", "taken")
        \/ Moves(b, "taken", "settled")
        \/ Moves(b, "settled", "back")
        \/ Moves(b, "settled", "disturbed")
        \/ Moves(b, "back", "disturbed")

Spec == Init /\ [][Next]_phase
=============================================================================
