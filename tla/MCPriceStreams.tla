--------------------------- MODULE MCPriceStreams ---------------------------
(***************************************************************************)
(* The registry of price streams for TLC, in three situations: refreshes,  *)
(* failures and requests overlap; two clients and a default initialisation *)
(* compete for a pair; and refreshes that begin once streams have settled. *)
(* A behaviour picks one.  Task ids are interchangeable.                   *)
(***************************************************************************)
EXTENDS PriceStreams, TLC

CONSTANTS Parts, p1, p2, c1, c2

VARIABLE part

\* p2 comes and goes with the token mapping.
EitherOrBoth == {{p1}, {p1, p2}}

\* Two clients, one of the pairs its own quote, and no refresh after startup.
Crowd == INSTANCE PriceStreams
    WITH UnitPairs <- {p2}, Clients <- {c1, c2}, DesiredSets <- {{p1}}, MaxRefreshes <- 1,
         Overlap <- FALSE, Faults <- TRUE

\* The mapping replaces one pair by the other, or keeps both.
Settled == INSTANCE PriceStreams
    WITH UnitPairs <- {}, DesiredSets <- {{p1}, {p2}, {p1, p2}}, MaxRefreshes <- 3,
         Overlap <- FALSE, Faults <- FALSE

allVars == <<part, vars>>

AllInit == part \in Parts /\ IF part = "crowd" THEN Crowd!Init ELSE Init

AllNext ==
    /\ \/ part = "overlap" /\ Next
       \/ part = "crowd" /\ Crowd!Next
       \/ part = "settled" /\ Settled!Next
    /\ UNCHANGED part

AllSpec == AllInit /\ [][AllNext]_allVars

Symmetry == Permutations(Tasks)
=============================================================================
