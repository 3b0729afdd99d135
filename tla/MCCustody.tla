------------------------------ MODULE MCCustody ------------------------------
(***************************************************************************)
(* The custody client of the funds manager, for TLC: the limiter of its    *)
(* Fireblocks calls, its transfers, the transactions of its hot wallets    *)
(* and the refills of gas wallets.  The parts share no state: a behaviour  *)
(* picks one part and the others stay in an initial state, so one run      *)
(* checks each part as if it were alone.                                   *)
(***************************************************************************)
EXTENDS FireblocksLimiter, CustodyTransfers, HotWalletTx, GasRefill, TLC

CONSTANT Parts

VARIABLE part

-----------------------------------------------------------------------------
(* The requests of CustodyTransfers: bridge withdrawals of an amount that is *)
(* no multiple of the unit, transfers each way between the wallet and the    *)
(* vault, signatures, and withdrawals at and beyond the limits.              *)

Asked ==
  ("h1" :> <<"hyper", 7>>) @@ ("h2" :> <<"hyper", 7>>) @@ ("h3" :> <<"hyper", 1>>)
  @@ ("v" :> <<"tovault", 5>>) @@ ("t" :> <<"tohot", 4>>) @@ ("s1" :> <<"sign", 0>>) @@ ("s2" :> <<"sign", 0>>)
  @@ ("w" :> <<"withdraw", 6>>) @@ ("w1" :> <<"withdraw", 11>>) @@ ("w2" :> <<"withdraw", 11>>)
  @@ ("g1" :> <<"gas", 3>>) @@ ("g2" :> <<"gas", 6>>)

AllRequests == DOMAIN Asked
KindOf == [r \in AllRequests |-> Asked[r][1]]
AmountOf == [r \in AllRequests |-> Asked[r][2]]

SomeFunds == ("quoter" :> 14) @@ ("gas" :> 4) @@ ("vault" :> 6) @@ ("hyper" :> 2) @@ ("bridge" :> 0) @@ ("out" :> 0)
ScarceFunds == ("quoter" :> 10) @@ ("gas" :> 0) @@ ("vault" :> 6) @@ ("hyper" :> 0) @@ ("bridge" :> 0) @@ ("out" :> 0)

\* One at a time, while calls succeed in time.
Serial == INSTANCE CustodyTransfers WITH Overlap <- FALSE, Slow <- FALSE, CustodyFaults <- FALSE

\* One at a time, with faults.
Limited == INSTANCE CustodyTransfers WITH Overlap <- FALSE, Slow <- FALSE, Rejects <- FALSE

\* Overlapping requests for more than there is, on time and without faults.
Scarce == INSTANCE CustodyTransfers WITH Funds <- ScarceFunds, Slow <- FALSE, CustodyFaults <- FALSE

\* The requests that are made in each part: three of them when they overlap.
Made(p) == CASE p = "serial" -> {"h1", "h2", "v", "t", "s1"}
             [] p = "limited" -> {"w1", "w2", "g1", "g2", "h3", "s2"}
             [] OTHER -> {"w", "h1", "t"}
OnlyMade == \A r \in Requests \ Made(part) : reqPc'[r] = "idle"

-----------------------------------------------------------------------------
(* HotWalletTx: two swaps and a transfer, on a node that is lossy or only    *)
(* crowded                                                                   *)

Sold == ("s1" :> 2) @@ ("s2" :> 3)

Crowded == INSTANCE HotWalletTx WITH LossyNode <- FALSE, Allowances <- {0, 5}

-----------------------------------------------------------------------------
(* GasRefill: a refill of two wallets, the top-up of one of them, the same   *)
(* refill again, and one beyond the maximum.                                 *)

RefillOf == ("j1" :> <<"w1", "w2">>) @@ ("j2" :> <<"w2">>) @@ ("j3" :> <<"w1", "w2">>) @@ ("j4" :> <<"w1">>)
FillOf == ("j1" :> 6) @@ ("j2" :> 4) @@ ("j3" :> 6) @@ ("j4" :> 9)

\* The same refill twice, for every balance of the hot wallet.
Repeat == INSTANCE GasRefill
  WITH HotBalances <- 0..14, Balances <- {0, 1, 6}, MaxSpends <- 0, RefillFaults <- FALSE

Refills(p) == IF p = "repeat" THEN {"j1", "j3", "j4"} ELSE {"j1", "j2"}
OnlyRefills == \A j \in Jobs \ Refills(part) : jobPc'[j] = "idle"

-----------------------------------------------------------------------------
allVars == <<part, vars, transferVars, hotVars, refillVars>>

AllInit ==
  /\ part \in Parts
  /\ Init
  /\ IF part = "scarce" THEN Scarce!TransferInit ELSE TransferInit
  /\ IF part = "crowded" THEN Crowded!HotInit ELSE HotInit
  /\ IF part = "repeat" THEN Repeat!RefillInit ELSE RefillInit
  /\ part \notin {"topups", "repeat"} => hot = 5 /\ gasBal = [w \in {"w1", "w2"} |-> 0]

AllNext ==
  \/ part = "limiter" /\ Next /\ UNCHANGED <<part, transferVars, hotVars, refillVars>>
  \/ /\ \/ part = "serial" /\ Serial!TransferNext
        \/ part = "limited" /\ Limited!TransferNext
        \/ part = "adverse" /\ TransferNext
        \/ part = "scarce" /\ Scarce!TransferNext
     /\ OnlyMade
     /\ UNCHANGED <<part, vars, hotVars, refillVars>>
  \/ /\ \/ part = "crowded" /\ Crowded!HotNext
        \/ part = "lossy" /\ HotNext
     /\ UNCHANGED <<part, vars, transferVars, refillVars>>
  \/ /\ \/ part = "topups" /\ RefillNext
        \/ part = "repeat" /\ Repeat!RefillNext
     /\ OnlyRefills
     /\ UNCHANGED <<part, vars, transferVars, hotVars>>

\* The fairness of each part, while it is the one that runs.
AllFairness ==
  /\ WF_vars(part = "limiter" /\ Refill)
  /\ \A c \in Callers :
       /\ WF_vars(part = "limiter" /\ Gate(c)) /\ WF_vars(part = "limiter" /\ Wake(c))
       /\ WF_vars(part = "limiter" /\ Grant(c)) /\ WF_vars(part = "limiter" /\ SetCooldown(c))
  /\ \A r \in Made("adverse") :
       /\ WF_transferVars(part = "adverse" /\ Progress(r))
       /\ WF_transferVars(part = "adverse" /\ Environment(r))
  /\ \A j \in Refills("topups") : WF_refillVars(part = "topups" /\ Advance(j))

AllSpec == AllInit /\ [][AllNext]_allVars /\ AllFairness

-----------------------------------------------------------------------------
\* What holds of requests that do not overlap: no transaction reverts, a bridge
\* transaction is created only when the account covers the amount rounded up,
\* bridge withdrawals that fail leave at most what one needs, and a refill that
\* is repeated sends nothing.
OneAtATime ==
  /\ part = "serial" => NothingReverts /\ BridgeCovered /\ ParkedOnce
  /\ part = "limited" => NothingReverts
  /\ part = "repeat" => RepeatSendsNothing

\* Every caller of the limiter gets a token, and every custody request and every
\* refill that starts is answered, whatever fails or is late.
CustodyRequestsEnd ==
  /\ QueueServed
  /\ \A r \in Made("adverse") :
       (part = "adverse" /\ Running(r)) ~> (part = "adverse" /\ Ended(r))
  /\ \A j \in Refills("topups") :
       (part = "topups" /\ RefillRunning(j)) ~> (part = "topups" /\ RefillEnded(j))
=============================================================================
