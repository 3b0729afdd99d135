---- MODULE MCDealer ----
(***************************************************************************)
(* The dealer for TLC: six calls of two requests, among them a repeated     *)
(* call, a pair with two bodies and an unknown party; and the shares of one *)
(* batch in the field of P elements, whose key is masked with one fixed     *)
(* share. The part is chosen at the start.                                  *)
(***************************************************************************)
EXTENDS Dealer, TLC

CONSTANTS Parts, c1, c2, c3, c4, c5, c6, x, y, b1, b2

VARIABLE part

allVars == <<part, vars, shareVars>>

Call(i, p, a) == [id |-> i, party |-> p, body |-> a]

Requests == c1 :> Call(x, 0, b1) @@ c2 :> Call(x, 1, b1) @@ c3 :> Call(x, 0, b1)
         @@ c4 :> Call(y, 0, b1) @@ c5 :> Call(y, 1, b2) @@ c6 :> Call(y, 2, b1)

AllInit ==
    /\ part \in Parts
    /\ Init
    /\ DrawKey
    /\ key[1] = 1
    /\ part # "shares" => key[2] = 0

AllNext ==
    /\ UNCHANGED part
    /\ \/ part = "calls" /\ Next /\ UNCHANGED shareVars
       \/ part = "shares" /\ DealNext /\ UNCHANGED vars

\* run spawns a task for every job it receives.
AllSpec ==
    /\ AllInit /\ [][AllNext]_allVars
    /\ \A c \in Calls : WF_vars(part = "calls" /\ Handle(c))
====
