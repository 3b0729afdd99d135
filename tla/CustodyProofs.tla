------------------------------ MODULE CustodyProofs -------------------------------
(*********************************************************************************)
(* The gas refills of the custody client, and the limiter of its Fireblocks      *)
(* calls.                                                                        *)
(*                                                                               *)
(* A refill fills gas wallets to its target.  GasRefilledToTarget is not         *)
(* inductive alone: what a refill read of a wallet must bound what the wallet    *)
(* holds when it is filled up (ReadHolds), which fails only for wallets that two *)
(* running requests share (SharedAreRaced), and the wallets behind it must be    *)
(* filled already (FilledSoFar).                                                 *)
(*                                                                               *)
(* For the limiter: the rate bound of the token bucket, and that a caller sleeps *)
(* out the cooldown it met, for every number of callers, every capacity and      *)
(* every length of cooldown.                                                     *)
(*********************************************************************************)
EXTENDS GasRefill, FireblocksLimiter, TLAPS

--------------------------------------------------------------------------------
(* The gas refills *)

\* Where a refill is in its list of wallets.
InList(j) ==
    /\ jobPc[j] \in {"survey", "check", "send"} => place[j] \in 1..Len(Wallets[j])
    /\ jobPc[j] = "ok" => place[j] = Len(Wallets[j]) + 1
    /\ since[j] <= spends

\* What a refill read of the wallet it sends to is at least what the wallet
\* holds, unless another one refilled it, and no more, unless it was spent.
ReadHolds(j) ==
    jobPc[j] = "send" =>
      /\ seenGas[j] <= target[j] /\ target[j] <= topped[Current(j)]
      /\ Current(j) \notin raced => gasBal[Current(j)] <= seenGas[j]
      /\ spends = since[j] => gasBal[Current(j)] >= seenGas[j]

\* The wallets a refill is done with hold the tolerated part of its target.
FilledSoFar(j) ==
    jobPc[j] \in {"check", "send", "ok"} /\ spends = since[j] =>
      \A i \in 1..(place[j] - 1) : gasBal[Wallets[j][i]] * 10 >= target[j] * Tolerance

\* The wallets that two running refills share are raced.
SharedAreRaced ==
    \A j, k \in Jobs :
      j # k /\ RefillRunning(j) /\ RefillRunning(k) => AddressesOf(j) \cap AddressesOf(k) \subseteq raced

RefillInv ==
    /\ RefillTypeOK /\ SharedAreRaced /\ NotOverfilled
    /\ \A j \in Jobs : InList(j) /\ ReadHolds(j) /\ FilledSoFar(j)

\* A step that another request takes.
Rests(k) ==
    /\ jobPc'[k] = jobPc[k] /\ place'[k] = place[k] /\ target'[k] = target[k]
    /\ seenGas'[k] = seenGas[k] /\ since'[k] = since[k]

\* The tolerated part of a target is no more than the target.
LEMMA Tolerated ==
    ASSUME NEW t \in Nat PROVE t * Tolerance \in Nat /\ t * Tolerance <= t * 10
  <1>1. Tolerance \in {0, 1, 2, 3, 4, 5, 6, 7, 8, 9, 10}
    BY GasRefillAssumption
  <1> QED BY <1>1

\* What is enough: more than the tolerated part, or the whole target.
LEMMA EnoughGas ==
    ASSUME NEW b \in Nat, NEW t \in Nat, WithinTolerance(b, t) \/ b >= t
    PROVE  b * 10 >= t * Tolerance
  BY Tolerated DEF WithinTolerance

\* What is enough stays enough when more gas arrives.
LEMMA StillEnough ==
    ASSUME NEW b \in Nat, NEW c \in Nat, NEW t \in Nat, b * 10 >= t * Tolerance, c >= b
    PROVE  c * 10 >= t * Tolerance
  BY Tolerated

\* A wallet that is to be filled up holds less than its target.
LEMMA NotEnough ==
    ASSUME NEW b \in Nat, NEW t \in Nat, ~WithinTolerance(b, t)
    PROVE  b <= t
  BY Tolerated DEF WithinTolerance

\* The wallets of a request are wallets.
LEMMA ListedWallets ==
    ASSUME NEW j \in Jobs
    PROVE  /\ Len(Wallets[j]) \in Nat
           /\ \A i \in 1..Len(Wallets[j]) : Wallets[j][i] \in AddressesOf(j) /\ Wallets[j][i] \in Addresses
  <1>1. Len(Wallets[j]) \in Nat
    BY GasRefillAssumption
  <1> QED BY <1>1 DEF AddressesOf, Addresses

\* No refill has started.
LEMMA RefillStarts == RefillInit => RefillInv
  <1> SUFFICES ASSUME RefillInit PROVE RefillInv
    OBVIOUS
  <1>1. RefillTypeOK
    BY GasRefillAssumption, Zenon DEF RefillInit, RefillTypeOK
  <1>2. SharedAreRaced
    BY Zenon DEF RefillInit, SharedAreRaced, RefillRunning
  <1>3. NotOverfilled
    BY <1>1 DEF RefillInit, NotOverfilled, RefillTypeOK
  <1>4. ASSUME NEW j \in Jobs PROVE InList(j) /\ ReadHolds(j) /\ FilledSoFar(j)
    BY DEF RefillInit, InList, ReadHolds, FilledSoFar
  <1> QED BY <1>1, <1>2, <1>3, <1>4 DEF RefillInv

\* A step of another request that takes no gas from a wallet, and gives none to
\* the one a request read unless that one is raced, leaves the request as it is.
LEMMA OtherRefills ==
    ASSUME RefillInv, RefillTypeOK', NEW k \in Jobs, Rests(k), UNCHANGED spends, raced \subseteq raced',
           \A w \in Addresses : gasBal'[w] >= gasBal[w] /\ topped'[w] >= topped[w],
           jobPc[k] = "send" /\ Current(k) \notin raced' => gasBal'[Current(k)] = gasBal[Current(k)]
    PROVE  InList(k)' /\ ReadHolds(k)' /\ FilledSoFar(k)'
  <1>a. RefillTypeOK /\ InList(k) /\ ReadHolds(k) /\ FilledSoFar(k)
    BY Zenon DEF RefillInv
  <1>1. InList(k)'
    BY <1>a, Zenon DEF InList, Rests
  <1>2. jobPc[k] = "send" => Current(k) \in Addresses /\ Current(k)' = Current(k)
    BY <1>a, ListedWallets, Zenon DEF InList, Current, Rests
  <1>3. ReadHolds(k)'
    BY <1>a, <1>2 DEF ReadHolds, Rests, RefillTypeOK
  <1>4. FilledSoFar(k)'
    <2> SUFFICES ASSUME jobPc[k] \in {"check", "send", "ok"}, spends = since[k],
                        NEW i \in 1..(place[k] - 1)
                 PROVE  gasBal'[Wallets[k][i]] * 10 >= target[k] * Tolerance
      BY Zenon DEF FilledSoFar, Rests
    <2>a. place[k] \in Nat /\ Len(Wallets[k]) \in Nat
      BY <1>a, ListedWallets, Zenon DEF RefillTypeOK
    <2>b. place[k] <= Len(Wallets[k]) + 1
      BY <1>a, <2>a DEF InList
    <2>1. i \in 1..Len(Wallets[k])
      BY <2>a, <2>b
    <2>2. Wallets[k][i] \in Addresses
      BY <2>1, ListedWallets, Zenon
    <2>3. gasBal[Wallets[k][i]] * 10 >= target[k] * Tolerance
      BY <1>a, Zenon DEF FilledSoFar
    <2>4. target[k] \in Nat /\ gasBal[Wallets[k][i]] \in Nat /\ gasBal'[Wallets[k][i]] \in Nat
      BY <1>a, <2>2, Zenon DEF RefillTypeOK
    <2> QED BY <2>2, <2>3, <2>4, StillEnough, Zenon
  <1> QED BY <1>1, <1>3, <1>4, Zenon

\* A step of a running request keeps the shared wallets raced.
LEMMA StillRaced ==
    ASSUME RefillInv, NEW j \in Jobs, RefillRunning(j), raced' = raced,
           \A k \in Jobs : k # j => jobPc'[k] = jobPc[k]
    PROVE  SharedAreRaced'
  BY DEF RefillInv, SharedAreRaced, RefillRunning

\* A step of a request that moves no ether keeps the invariant if it keeps the
\* part that is about this request.
LEMMA QuietRefill ==
    ASSUME RefillInv, RefillTypeOK', NEW j \in Jobs, \A k \in Jobs : k # j => Rests(k),
           UNCHANGED <<gasBal, spends>>, \A w \in Addresses : topped'[w] >= topped[w],
           raced \subseteq raced', SharedAreRaced', InList(j)', ReadHolds(j)', FilledSoFar(j)'
    PROVE  RefillInv'
  <1>1. RefillTypeOK
    BY Zenon DEF RefillInv
  <1>2. NotOverfilled'
    BY <1>1 DEF RefillInv, NotOverfilled, RefillTypeOK
  <1>3. \A w \in Addresses : gasBal'[w] >= gasBal[w]
    BY <1>1 DEF RefillTypeOK
  <1>4. ASSUME NEW k \in Jobs, k # j PROVE InList(k)' /\ ReadHolds(k)' /\ FilledSoFar(k)'
    BY <1>3, <1>4, OtherRefills, Zenon
  <1> QED BY <1>2, <1>4, Zenon DEF RefillInv

\* A refill starts, and races the running ones for the wallets they share.
LEMMA RefillStartKept ==
    ASSUME RefillInv, NEW j \in Jobs, StartRefill(j)
    PROVE  RefillInv'
  <1>a. RefillTypeOK
    BY DEF RefillInv
  <1>1. /\ raced \subseteq raced' /\ raced' \subseteq Addresses
        /\ \A k \in Jobs : RefillRunning(k) => AddressesOf(j) \cap AddressesOf(k) \subseteq raced'
    BY <1>a DEF StartRefill, RefillTypeOK, Addresses
  <1>2. RefillTypeOK'
    BY <1>a, <1>1, Zenon DEF StartRefill, JobStep, RefillTypeOK
  <1>3. /\ \A k \in Jobs : k # j => Rests(k)
        /\ jobPc[j] = "idle" /\ jobPc'[j] \in {"err", "mine"} /\ since'[j] = spends
        /\ UNCHANGED <<gasBal, spends, topped>> /\ spends \in Nat
    BY <1>a, Zenon DEF StartRefill, JobStep, Rests, RefillTypeOK
  <1>4. SharedAreRaced'
    BY <1>1, <1>3, Zenon DEF RefillInv, SharedAreRaced, RefillRunning, Rests
  <1>5. InList(j)' /\ ReadHolds(j)' /\ FilledSoFar(j)'
    BY <1>3 DEF InList, ReadHolds, FilledSoFar
  <1>6. \A w \in Addresses : topped'[w] >= topped[w]
    BY <1>a, <1>3 DEF RefillTypeOK
  <1> QED BY <1>1, <1>2, <1>3, <1>4, <1>5, <1>6, QuietRefill, Zenon

\* The steps that only read: the hot wallet, the survey and a failure.
LEMMA ReadsKept ==
    ASSUME RefillInv, NEW j \in Jobs, ReadMine(j) \/ Survey(j) \/ FailRefill(j)
    PROVE  RefillInv'
  <1>a. RefillTypeOK /\ InList(j)
    BY DEF RefillInv
  <1>b. Len(Wallets[j]) \in Nat /\ FillTo[j] \in Nat
    BY ListedWallets, GasRefillAssumption, Zenon
  <1>c. /\ RefillRunning(j) /\ UNCHANGED <<gasBal, spends, topped, raced, since>>
        /\ \A k \in Jobs : k # j => Rests(k)
    <2>1. CASE ReadMine(j)
      BY <2>1, <1>a, Zenon DEF ReadMine, RefillRunning, JobStep, Rests, RefillTypeOK
    <2>2. CASE Survey(j)
      <3>1. \A k \in Jobs : k # j => Rests(k)
        BY <2>2, <1>a, Zenon DEF Survey, JobStep, Rests, RefillTypeOK
      <3> QED BY <2>2, <3>1, Zenon DEF Survey, RefillRunning
    <2>3. CASE FailRefill(j)
      BY <2>3, <1>a, Zenon DEF FailRefill, JobStep, Rests, RefillTypeOK
    <2> QED BY <2>1, <2>2, <2>3, Zenon
  <1>1. /\ RefillTypeOK' /\ jobPc'[j] \in {"survey", "check", "ok", "err"}
        /\ jobPc'[j] = "survey" => place'[j] \in 1..Len(Wallets[j])
        /\ jobPc'[j] = "check" => place'[j] = 1 /\ Len(Wallets[j]) >= 1
        /\ jobPc'[j] = "ok" => place'[j] = 1 /\ Len(Wallets[j]) = 0
    <2>1. CASE ReadMine(j)
      <3>1. /\ jobPc' = [jobPc EXCEPT ![j] = IF Len(Wallets[j]) = 0 THEN "ok" ELSE "survey"]
            /\ mine' = [mine EXCEPT ![j] = hot] /\ place' = [place EXCEPT ![j] = 1]
        BY <2>1, Zenon DEF ReadMine, JobStep
      <3>2. RefillTypeOK'
        <4>1. jobPc' \in [Jobs -> {"idle", "mine", "survey", "check", "send", "ok", "err"}]
          BY <3>1, <1>a, Zenon DEF RefillTypeOK
        <4>2. mine' \in [Jobs -> Nat] /\ place' \in [Jobs -> Nat]
          BY <3>1, <1>a, Zenon DEF RefillTypeOK
        <4> QED BY <2>1, <4>1, <4>2, <1>a, Zenon DEF ReadMine, RefillTypeOK
      <3>3. jobPc'[j] = (IF Len(Wallets[j]) = 0 THEN "ok" ELSE "survey") /\ place'[j] = 1
        BY <3>1, <1>a, Zenon DEF RefillTypeOK
      <3> QED BY <3>2, <3>3, <1>b
    <2>2. CASE Survey(j)
      <3>1. place[j] \in 1..Len(Wallets[j])
        BY <2>2, <1>a, Zenon DEF Survey, InList
      <3>2. gasBal[Current(j)] \in Nat
        BY <3>1, <1>a, ListedWallets, Zenon DEF Current, RefillTypeOK
      <3>3. total' \in [Jobs -> Nat]
        <4>1. Positive(FillTo[j] - gasBal[Current(j)]) \in Nat
          BY <3>2, <1>b DEF Positive
        <4>2. total' = [total EXCEPT ![j] = total[j] + Positive(FillTo[j] - gasBal[Current(j)])]
          BY <2>2, Zenon DEF Survey
        <4> QED BY <4>1, <4>2, <1>a DEF RefillTypeOK
      <3>4. \A m \in Nat, n \in Nat : n > 0 => m \div n \in Nat
        OBVIOUS
      <3>5. Target(mine[j], total'[j], FillTo[j], Len(Wallets[j])) \in Nat
        <4>1. mine[j] \in Nat /\ total'[j] \in Nat /\ Len(Wallets[j]) > 0
          BY <3>1, <3>3, <1>a, <1>b DEF RefillTypeOK
        <4> QED BY <4>1, <3>4, <1>b, Zenon DEF Target
      <3>6. target' \in [Jobs -> Nat]
        <4>1. \/ target' = target
              \/ target' = [target EXCEPT ![j] = Target(mine[j], total'[j], FillTo[j], Len(Wallets[j]))]
          BY <2>2, Zenon DEF Survey
        <4> QED BY <4>1, <3>5, <1>a, Zenon DEF RefillTypeOK
      <3>7. CASE Last(j)
        <4>1. jobPc' = [jobPc EXCEPT ![j] = "check"] /\ place' = [place EXCEPT ![j] = 1]
          BY <2>2, <3>7, Zenon DEF Survey, JobStep
        <4>2. RefillTypeOK'
          BY <2>2, <4>1, <3>3, <3>6, <1>a, Zenon DEF Survey, RefillTypeOK
        <4>3. jobPc'[j] = "check" /\ place'[j] = 1
          BY <4>1, <1>a, Zenon DEF RefillTypeOK
        <4> QED BY <4>2, <4>3, <3>1, <1>b
      <3>8. CASE ~Last(j)
        <4>1. jobPc' = jobPc /\ place' = [place EXCEPT ![j] = place[j] + 1]
          BY <2>2, <3>8, Zenon DEF Survey
        <4>2. place[j] + 1 \in 1..Len(Wallets[j])
          BY <3>1, <3>8, <1>b DEF Last
        <4>3. RefillTypeOK'
          <5>1. place' \in [Jobs -> Nat]
            BY <4>1, <4>2, <1>a, <1>b DEF RefillTypeOK
          <5> QED BY <2>2, <4>1, <5>1, <3>3, <3>6, <1>a, Zenon DEF Survey, RefillTypeOK
        <4>4. jobPc'[j] = "survey" /\ place'[j] = place[j] + 1
          BY <2>2, <4>1, <1>a, Zenon DEF Survey, RefillTypeOK
        <4> QED BY <4>2, <4>3, <4>4, Zenon
      <3> QED BY <3>7, <3>8, Zenon
    <2>3. CASE FailRefill(j)
      BY <2>3, <1>a, Zenon DEF FailRefill, JobStep, RefillTypeOK
    <2> QED BY <2>1, <2>2, <2>3, Zenon
  <1>2. SharedAreRaced'
    BY <1>c, StillRaced, Zenon DEF Rests
  <1>3. InList(j)' /\ ReadHolds(j)' /\ FilledSoFar(j)'
    <2>1. ReadHolds(j)'
      BY <1>1, Zenon DEF ReadHolds
    <2>2. InList(j)'
      BY <1>a, <1>b, <1>c, <1>1 DEF InList
    <2>3. FilledSoFar(j)'
      <3>1. jobPc'[j] \in {"check", "ok"} => place'[j] = 1
        BY <1>1, Zenon
      <3>2. \A i \in 1..(1 - 1) : FALSE
        OBVIOUS
      <3> QED BY <1>1, <3>1, <3>2, Zenon DEF FilledSoFar
    <2> QED BY <2>1, <2>2, <2>3
  <1>4. \A w \in Addresses : topped'[w] >= topped[w]
    BY <1>a, <1>c DEF RefillTypeOK
  <1> QED BY <1>c, <1>1, <1>2, <1>3, <1>4, QuietRefill, Zenon

\* A refill goes on to the next wallet when the one it is at holds enough.
LEMMA WalletDone ==
    ASSUME RefillInv, RefillTypeOK', NEW j \in Jobs, UNCHANGED <<spends, target, since>>,
           place[j] \in 1..Len(Wallets[j]), place'[j] = place[j] + 1,
           jobPc[j] \in {"check", "send"}, jobPc'[j] = (IF Last(j) THEN "ok" ELSE "check"),
           \A w \in Addresses : gasBal'[w] >= gasBal[w],
           spends = since[j] => gasBal'[Current(j)] * 10 >= target[j] * Tolerance
    PROVE  InList(j)' /\ ReadHolds(j)' /\ FilledSoFar(j)'
  <1>a. RefillTypeOK /\ InList(j) /\ FilledSoFar(j) /\ Len(Wallets[j]) \in Nat
    BY ListedWallets, Zenon DEF RefillInv
  <1>1. InList(j)' /\ ReadHolds(j)'
    <2>1. CASE Last(j)
      BY <1>a, <2>1, Zenon DEF InList, ReadHolds, Last
    <2>2. CASE ~Last(j)
      <3>1. place'[j] \in 1..Len(Wallets[j])
        BY <1>a, <2>2 DEF Last
      <3> QED BY <1>a, <2>2, <3>1, Zenon DEF InList, ReadHolds
    <2> QED BY <2>1, <2>2, Zenon
  <1>2. FilledSoFar(j)'
    <2> SUFFICES ASSUME spends = since[j], NEW i \in 1..place[j]
                 PROVE  gasBal'[Wallets[j][i]] * 10 >= target[j] * Tolerance
      BY <1>a DEF FilledSoFar
    <2>1. CASE i = place[j]
      BY <2>1, Zenon DEF Current
    <2>2. CASE i # place[j]
      <3>1. i \in 1..Len(Wallets[j]) /\ i \in 1..(place[j] - 1)
        BY <2>2, <1>a
      <3>2. Wallets[j][i] \in Addresses
        BY <3>1, ListedWallets, Zenon
      <3>3. gasBal[Wallets[j][i]] * 10 >= target[j] * Tolerance
        BY <3>1, <1>a, Zenon DEF FilledSoFar
      <3>4. target[j] \in Nat /\ gasBal[Wallets[j][i]] \in Nat /\ gasBal'[Wallets[j][i]] \in Nat
        BY <1>a, <3>2, Zenon DEF RefillTypeOK
      <3> QED BY <3>2, <3>3, <3>4, StillEnough, Zenon
    <2> QED BY <2>1, <2>2, Zenon
  <1> QED BY <1>1, <1>2, Zenon

\* A wallet is read again: skipped, or to be filled up.
LEMMA CheckKept ==
    ASSUME RefillInv, NEW j \in Jobs, CheckGas(j)
    PROVE  RefillInv'
  <1> DEFINE w == Current(j)
  <1>a. RefillTypeOK /\ InList(j) /\ FilledSoFar(j)
    BY DEF RefillInv
  <1>b. /\ jobPc[j] = "check" /\ place[j] \in 1..Len(Wallets[j]) /\ Len(Wallets[j]) \in Nat
        /\ target[j] \in Nat
    BY <1>a, ListedWallets, Zenon DEF CheckGas, InList, RefillTypeOK
  <1>c. w \in Addresses /\ gasBal[w] \in Nat /\ topped[w] \in Nat
    BY <1>a, <1>b, ListedWallets, Zenon DEF Current, RefillTypeOK
  <1> HIDE DEF w
  <1>d. /\ RefillRunning(j) /\ UNCHANGED <<gasBal, spends, raced, since, target>>
        /\ \A k \in Jobs : k # j => Rests(k)
    BY <1>a, Zenon DEF CheckGas, RefillRunning, JobStep, Rests, RefillTypeOK
  <1>1. SharedAreRaced'
    BY <1>d, StillRaced, Zenon DEF Rests
  <1>2. RefillTypeOK' /\ \A v \in Addresses : topped'[v] >= topped[v]
    <2>1. place[j] + 1 \in Nat
      BY <1>b
    <2>2. topped' \in [Addresses -> Nat] /\ \A v \in Addresses : topped'[v] >= topped[v]
      <3> DEFINE most == IF topped[w] < target[j] THEN target[j] ELSE topped[w]
      <3>1. most \in Nat /\ most >= topped[w]
        BY <1>b, <1>c
      <3>2. topped' = topped \/ topped' = [topped EXCEPT ![w] = most]
        BY Zenon DEF CheckGas, w
      <3> HIDE DEF most
      <3> QED BY <1>a, <3>1, <3>2 DEF RefillTypeOK
    <2> QED BY <1>a, <1>c, <2>1, <2>2 DEF CheckGas, JobStep, RefillTypeOK, w
  <1>3. InList(j)' /\ ReadHolds(j)' /\ FilledSoFar(j)'
    <2>1. CASE WithinTolerance(gasBal[w], target[j])
      <3>1. place'[j] = place[j] + 1 /\ jobPc'[j] = (IF Last(j) THEN "ok" ELSE "check")
        BY <2>1, <1>a, Zenon DEF CheckGas, JobStep, RefillTypeOK, w
      <3>2. gasBal'[w] * 10 >= target[j] * Tolerance
        BY <2>1, <1>b, <1>c, <1>d, EnoughGas, Zenon
      <3>3. \A v \in Addresses : gasBal'[v] >= gasBal[v]
        BY <1>a, <1>d DEF RefillTypeOK
      <3> QED BY <3>1, <3>2, <3>3, <1>2, <1>b, <1>d, WalletDone, Zenon DEF w
    <2>2. CASE ~WithinTolerance(gasBal[w], target[j])
      <3>1. /\ jobPc'[j] = "send" /\ seenGas'[j] = gasBal[w] /\ UNCHANGED place
            /\ topped'[w] >= target[j]
        BY <2>2, <1>a, <1>b, <1>c DEF CheckGas, JobStep, RefillTypeOK, w
      <3>2. gasBal[w] <= target[j]
        BY <2>2, <1>b, <1>c, NotEnough, Zenon
      <3>3. Current(j)' = w
        BY <3>1, Zenon DEF Current, w
      <3>4. InList(j)'
        BY <1>a, <1>b, <1>d, <3>1, Zenon DEF InList
      <3>5. ReadHolds(j)'
        BY <1>b, <1>c, <1>d, <3>1, <3>2, <3>3 DEF ReadHolds
      <3>6. FilledSoFar(j)'
        BY <1>a, <1>b, <1>d, <3>1, Zenon DEF FilledSoFar
      <3> QED BY <3>4, <3>5, <3>6
    <2> QED BY <2>1, <2>2
  <1> QED BY <1>d, <1>1, <1>2, <1>3, QuietRefill, Zenon

\* What the wallet lacked of the target is sent.
LEMMA SendKept ==
    ASSUME RefillInv, NEW j \in Jobs, SendGas(j)
    PROVE  RefillInv'
  <1> DEFINE w == Current(j)
             needs == target[j] - seenGas[j]
  <1>a. RefillTypeOK /\ InList(j) /\ ReadHolds(j)
    BY DEF RefillInv
  <1>b. /\ jobPc[j] = "send" /\ place[j] \in 1..Len(Wallets[j]) /\ Len(Wallets[j]) \in Nat
        /\ target[j] \in Nat /\ seenGas[j] \in Nat /\ hot \in Nat /\ Fee \in Nat
    BY <1>a, ListedWallets, GasRefillAssumption, Zenon DEF SendGas, InList, RefillTypeOK
  <1>c. w \in Addresses /\ gasBal[w] \in Nat /\ topped[w] \in Nat
    BY <1>a, <1>b, ListedWallets, Zenon DEF Current, RefillTypeOK
  <1> HIDE DEF w
  <1>d. /\ RefillRunning(j) /\ UNCHANGED <<spends, topped, raced, since, target>>
        /\ \A k \in Jobs : k # j => Rests(k)
    BY <1>a, Zenon DEF SendGas, RefillRunning, JobStep, Rests, RefillTypeOK
  <1>e. /\ needs \in Nat /\ target[j] <= topped[w]
        /\ w \notin raced => gasBal[w] <= seenGas[j]
        /\ spends = since[j] => gasBal[w] >= seenGas[j]
    BY <1>a, <1>b DEF ReadHolds, w
  <1>1. SharedAreRaced'
    BY <1>d, StillRaced, Zenon DEF Rests
  <1>2. CASE hot < needs + Fee
    <2>1. jobPc' = [jobPc EXCEPT ![j] = "err"] /\ UNCHANGED <<hot, gasBal, sent, place>>
      BY <1>2, <1>b, <1>e DEF SendGas, Needs, JobStep
    <2>2. RefillTypeOK'
      BY <2>1, <1>a, Zenon DEF SendGas, RefillTypeOK
    <2>3. InList(j)' /\ ReadHolds(j)' /\ FilledSoFar(j)'
      BY <1>a, <1>d, <2>1, Zenon DEF InList, ReadHolds, FilledSoFar, RefillTypeOK
    <2>4. \A v \in Addresses : topped'[v] >= topped[v]
      BY <1>a, <1>d DEF RefillTypeOK
    <2> QED BY <1>1, <1>d, <2>1, <2>2, <2>3, <2>4, QuietRefill, Zenon
  <1>3. CASE hot >= needs + Fee
    <2>1. /\ hot' = hot - needs - Fee /\ gasBal' = [gasBal EXCEPT ![w] = gasBal[w] + needs]
          /\ sent' = [sent EXCEPT ![j] = sent[j] + needs] /\ place' = [place EXCEPT ![j] = place[j] + 1]
          /\ jobPc' = [jobPc EXCEPT ![j] = IF Last(j) THEN "ok" ELSE "check"]
      <3>1. ~(hot < needs + Fee)
        BY <1>3, <1>b, <1>e
      <3> QED BY <3>1, Zenon DEF SendGas, Needs, JobStep, w
    <2> HIDE DEF needs
    <2>2. /\ gasBal' \in [Addresses -> Nat] /\ gasBal'[w] = gasBal[w] + needs
          /\ \A v \in Addresses : gasBal'[v] >= gasBal[v] /\ (v # w => gasBal'[v] = gasBal[v])
      BY <1>a, <1>c, <1>e, <2>1 DEF RefillTypeOK
    <2>3. RefillTypeOK'
      <3>1. hot' \in Nat /\ place[j] + 1 \in Nat
        BY <1>3, <1>b, <1>e, <2>1
      <3>2. sent' \in [Jobs -> Nat]
        BY <1>a, <1>e, <2>1 DEF RefillTypeOK
      <3> QED BY <1>a, <2>1, <2>2, <3>1, <3>2, Zenon DEF SendGas, RefillTypeOK
    <2>4. NotOverfilled'
      <3>1. w \notin raced => gasBal'[w] <= topped[w]
        <4>1. \A g, t, h, m \in Nat : g <= h /\ t <= m => g + (t - h) <= m
          OBVIOUS
        <4> QED BY <4>1, <1>b, <1>c, <1>e, <2>2 DEF needs
      <3> QED BY <1>d, <2>2, <3>1, Zenon DEF RefillInv, NotOverfilled
    <2>5. InList(j)' /\ ReadHolds(j)' /\ FilledSoFar(j)'
      <3>1. \A a, b, c \in Nat : a >= c => a + (b - c) >= b /\ a + (b - c) \in Nat
        OBVIOUS
      <3>2. spends = since[j] => gasBal'[w] >= target[j] /\ gasBal'[w] \in Nat
        BY <3>1, <1>b, <1>c, <1>e, <2>2 DEF needs
      <3>3. spends = since[j] => gasBal'[w] * 10 >= target[j] * Tolerance
        BY <3>2, <1>b, EnoughGas, Zenon
      <3>4. place'[j] = place[j] + 1 /\ jobPc'[j] = (IF Last(j) THEN "ok" ELSE "check")
        BY <2>1, <1>a, Zenon DEF RefillTypeOK
      <3> QED BY <3>3, <3>4, <1>b, <1>d, <2>2, <2>3, WalletDone, Zenon DEF w
    <2>6. ASSUME NEW k \in Jobs, k # j PROVE InList(k)' /\ ReadHolds(k)' /\ FilledSoFar(k)'
      <3>1. \A v \in Addresses : gasBal'[v] >= gasBal[v] /\ topped'[v] >= topped[v]
        BY <1>a, <1>d, <2>2 DEF RefillTypeOK
      <3>2. ASSUME jobPc[k] = "send", Current(k) \notin raced
            PROVE  Current(k) # w /\ Current(k) \in Addresses
        <4>1. place[k] \in 1..Len(Wallets[k]) /\ RefillRunning(k)
          BY <3>2, Zenon DEF RefillInv, InList, RefillRunning
        <4>2. /\ Current(k) \in AddressesOf(k) /\ Current(k) \in Addresses
              /\ w \in AddressesOf(j)
          BY <4>1, <1>b, ListedWallets, Zenon DEF Current, w
        <4>3. AddressesOf(j) \cap AddressesOf(k) \subseteq raced
          BY <1>d, <2>6, <4>1, Zenon DEF RefillInv, SharedAreRaced
        <4> QED BY <3>2, <4>2, <4>3
      <3>3. jobPc[k] = "send" /\ Current(k) \notin raced' => gasBal'[Current(k)] = gasBal[Current(k)]
        BY <1>d, <2>2, <3>2, Zenon
      <3> QED BY <1>d, <2>3, <2>6, <3>1, <3>3, OtherRefills, Zenon
    <2> QED BY <1>1, <2>3, <2>4, <2>5, <2>6 DEF RefillInv
  <1> QED BY <1>2, <1>3, <1>b, <1>e

\* A relayer spends.
LEMMA SpendKept ==
    ASSUME RefillInv, NEW w \in Addresses, Spend(w)
    PROVE  RefillInv'
  <1>a. RefillTypeOK
    BY DEF RefillInv
  <1>1. /\ UNCHANGED <<hot, jobVars, topped, raced>> /\ spends' = spends + 1
        /\ gasBal' \in [Addresses -> Nat] /\ \A v \in Addresses : gasBal'[v] <= gasBal[v]
    BY <1>a DEF Spend, RefillTypeOK
  <1>2. RefillTypeOK'
    BY <1>a, <1>1 DEF RefillTypeOK, jobVars
  <1>3. SharedAreRaced'
    BY <1>1, Zenon DEF RefillInv, SharedAreRaced, RefillRunning, jobVars
  <1>4. NotOverfilled'
    BY <1>a, <1>1 DEF RefillInv, NotOverfilled, RefillTypeOK
  <1>5. ASSUME NEW j \in Jobs PROVE InList(j)' /\ ReadHolds(j)' /\ FilledSoFar(j)'
    <2>1. InList(j) /\ ReadHolds(j)
      BY DEF RefillInv
    <2>2. InList(j)' /\ spends' # since[j]
      BY <1>a, <1>1, <2>1 DEF InList, RefillTypeOK, jobVars
    <2>3. jobPc[j] = "send" => Current(j) \in Addresses /\ Current(j)' = Current(j)
      BY <1>1, <2>1, ListedWallets, Zenon DEF InList, Current, jobVars
    <2>4. ReadHolds(j)'
      BY <1>a, <1>1, <2>1, <2>2, <2>3 DEF ReadHolds, RefillTypeOK, jobVars
    <2> QED BY <1>1, <2>2, <2>4, Zenon DEF FilledSoFar, jobVars
  <1> QED BY <1>2, <1>3, <1>4, <1>5 DEF RefillInv

\* Every step of a refill or a relayer keeps the invariant.
LEMMA RefillKept == RefillInv /\ [RefillNext]_refillVars => RefillInv'
  <1>1. ASSUME RefillInv, UNCHANGED refillVars PROVE RefillInv'
    BY <1>1, Zenon DEF RefillInv, refillVars, jobVars, RefillTypeOK, SharedAreRaced, RefillRunning, NotOverfilled,
       InList, ReadHolds, FilledSoFar, Current
  <1> QED BY <1>1, RefillStartKept, ReadsKept, CheckKept, SendKept, SpendKept, Zenon DEF RefillNext, Advance

\* For every list of wallets, amount and tolerance, and however refills overlap and
\* relayers spend: no wallet that one request at a time refilled holds more than it
\* was meant to, and a refill that ends well leaves each wallet the tolerated part
\* of its target (refill_gas_wallets, top_up_gas).
THEOREM RefillsToTarget == RefillSpec => []GasRefilledToTarget
  <1>1. RefillInv => GasRefilledToTarget
    <2> SUFFICES ASSUME RefillInv PROVE LeavesEnough
      BY DEF RefillInv, GasRefilledToTarget
    <2>1. ASSUME NEW j \in Jobs, jobPc[j] = "ok", spends = since[j], NEW i \in 1..Len(Wallets[j])
          PROVE  gasBal[Wallets[j][i]] * 10 >= target[j] * Tolerance
      <3>1. place[j] - 1 = Len(Wallets[j])
        BY <2>1, ListedWallets DEF RefillInv, InList
      <3> QED BY <2>1, <3>1, Zenon DEF RefillInv, FilledSoFar
    <2> QED BY <2>1, Zenon DEF LeavesEnough
  <1> QED BY RefillStarts, RefillKept, <1>1, PTL DEF RefillSpec

--------------------------------------------------------------------------------
(* The Fireblocks limiter *)

\* What was sent above the refill rate was taken out of the bucket.
Bucket ==
    /\ permits \in Nat /\ meter \in Nat
    /\ meter + permits <= Capacity

\* The bucket is full and nothing was sent.
LEMMA BucketInit == Init => Bucket
  BY FireblocksAssumption DEF Init, Bucket

\* A call takes a token, and a refill lowers the meter with it.
LEMMA BucketNext == Bucket /\ [Next]_vars => Bucket'
  <1> SUFFICES ASSUME Bucket, [Next]_vars PROVE Bucket'
    OBVIOUS
  <1> USE FireblocksAssumption DEF Bucket
  <1>1. ASSUME NEW c \in Callers, Grant(c) PROVE Bucket'
    BY <1>1 DEF Grant
  <1>2. ASSUME NEW c \in Callers,
               \/ Acquire(c) \/ Gate(c) \/ Wake(c) \/ Succeed(c)
               \/ OtherError(c) \/ Penalise(c) \/ SetCooldown(c)
        PROVE Bucket'
    BY <1>2, Zenon DEF Acquire, Gate, Wake, Succeed, OtherError, Penalise, SetCooldown
  <1>3. CASE Refill
    BY <1>3 DEF Refill, Elapse, Dec
  <1>4. CASE MissedTick
    BY <1>4 DEF MissedTick, Elapse, Dec
  <1>5. CASE UNCHANGED vars
    BY <1>5 DEF vars
  <1> QED BY <1>1, <1>2, <1>3, <1>4, <1>5, Zenon DEF Next

\* Any period of w refill intervals sends at most Capacity + w calls
\* (acquire and the refill task of FireblocksLimiter::new).
THEOREM RateIsBounded == Spec => []RateBounded
  <1>1. Bucket => RateBounded
    BY FireblocksAssumption DEF Bucket, RateBounded
  <1> QED BY BucketInit, BucketNext, <1>1, PTL DEF Spec

----------------------------------------------------------------------------

\* Until it leaves the gate, a caller's cooldown is still part of the one in
\* force; after it, it is over.
Waiting ==
    /\ cooldown \in Nat
    /\ floor \in [Callers -> Nat]
    /\ caller \in [Callers -> [pc : {"idle", "gate", "asleep", "queued",
                                     "calling", "penalty"}, left : Nat]]
    /\ \A c \in Callers :
        /\ caller[c].pc \in {"gate", "asleep"} => floor[c] <= cooldown
        /\ caller[c].pc \in {"queued", "calling"} => floor[c] = 0

\* The step of a caller that changes its own place only.
LEMMA GotoWaiting ==
    ASSUME Waiting, NEW c \in Callers,
           NEW pc \in {"idle", "gate", "asleep", "queued", "calling", "penalty"},
           NEW left \in Nat, Goto(c, pc, left),
           floor' \in [Callers -> Nat], cooldown' \in Nat, cooldown <= cooldown',
           \A d \in Callers \ {c} : floor'[d] = floor[d],
           pc \in {"gate", "asleep"} => floor'[c] <= cooldown',
           pc \in {"queued", "calling"} => floor'[c] = 0
    PROVE  Waiting'
  <1>1. /\ caller' \in [Callers -> [pc : {"idle", "gate", "asleep", "queued",
                                          "calling", "penalty"}, left : Nat]]
        /\ caller'[c].pc = pc
        /\ \A d \in Callers \ {c} : caller'[d] = caller[d]
    BY Zenon DEF Goto, Waiting
  <1>2. \A d \in Callers :
          /\ caller'[d].pc \in {"gate", "asleep"} => floor'[d] <= cooldown'
          /\ caller'[d].pc \in {"queued", "calling"} => floor'[d] = 0
    BY <1>1 DEF Waiting
  <1> QED BY <1>1, <1>2, Zenon DEF Waiting

\* Time passes for the cooldown and for the sleepers alike.
LEMMA ElapseWaiting == Waiting /\ Elapse => Waiting'
  <1> SUFFICES ASSUME Waiting, Elapse PROVE Waiting'
    OBVIOUS
  <1>1. \A n \in Nat : Dec(n) \in Nat /\ (n = 0 => Dec(n) = 0)
    BY DEF Dec
  <1>2. \A m, n \in Nat : m <= n => Dec(m) <= Dec(n)
    BY DEF Dec
  <1>3. \A c \in Callers : /\ caller'[c] = [pc |-> caller[c].pc,
                                           left |-> Dec(caller[c].left)]
                           /\ floor'[c] = Dec(floor[c])
    BY Zenon DEF Elapse
  <1>4. \A c \in Callers :
          /\ caller'[c].pc = caller[c].pc
          /\ caller'[c] \in [pc : {"idle", "gate", "asleep", "queued",
                                   "calling", "penalty"}, left : Nat]
    <2> TAKE c \in Callers
    <2>1. /\ caller[c].pc \in {"idle", "gate", "asleep", "queued", "calling",
                              "penalty"}
          /\ caller[c].left \in Nat
      BY Zenon DEF Waiting
    <2>2. Dec(caller[c].left) \in Nat
      BY <1>1, <2>1, Zenon
    <2> DEFINE l == Dec(caller[c].left)
    <2>3. caller'[c] = [pc |-> caller[c].pc, left |-> l]
      BY <1>3, Zenon
    <2> HIDE DEF l
    <2>4. l \in Nat
      BY <2>2 DEF l
    <2> QED BY <2>1, <2>3, <2>4
  <1>5. /\ caller' \in [Callers -> [pc : {"idle", "gate", "asleep", "queued",
                                          "calling", "penalty"}, left : Nat]]
        /\ floor' \in [Callers -> Nat] /\ cooldown' \in Nat
    BY <1>1, <1>3, <1>4, Zenon DEF Elapse, Waiting
  <1>6. \A c \in Callers :
          /\ caller[c].pc \in {"gate", "asleep"} => floor'[c] <= cooldown'
          /\ caller[c].pc \in {"queued", "calling"} => floor'[c] = 0
    BY <1>1, <1>2, <1>3, Zenon DEF Elapse, Waiting
  <1> QED BY <1>4, <1>5, <1>6, Zenon DEF Waiting

\* Nobody waits at first.
LEMMA WaitingInit == Init => Waiting
  BY DEF Init, Waiting

\* A backoff is a number of intervals.
LEMMA BackoffNat == \A n \in Nat \ {0} : Backoff(n) \in Nat
  <1> TAKE n \in Nat \ {0}
  <1> DEFINE k == IF n < MaxShift THEN n ELSE MaxShift
  <1>1. k \in 1..5
    BY FireblocksAssumption
  <1>2. Shifted[k] \in Nat
    BY <1>1 DEF Shifted
  <1> HIDE DEF k
  <1>3. InitialCooldown * Shifted[k] \in Nat
    BY <1>2, FireblocksAssumption
  <1> QED BY <1>3, FireblocksAssumption DEF Backoff, k

\* The streak of 429s is a number.
LEMMA StreakNext == streak \in Nat /\ [Next]_vars => (streak \in Nat)'
  <1>1. [Next]_vars => streak' \in {streak, 0, IF streak < MaxShift THEN streak + 1 ELSE MaxShift}
    BY Zenon DEF Next, vars, Acquire, Gate, Wake, Grant, Succeed, OtherError, Penalise,
                 SetCooldown, Refill, MissedTick, Elapse
  <1> QED BY <1>1, FireblocksAssumption

\* Every step keeps what the callers know of the cooldown.
LEMMA WaitingNext == Waiting /\ streak \in Nat /\ [Next]_vars => Waiting'
  <1> SUFFICES ASSUME Waiting, streak \in Nat, [Next]_vars PROVE Waiting'
    OBVIOUS
  <1>0. /\ cooldown \in Nat /\ floor \in [Callers -> Nat]
        /\ \A c \in Callers : caller[c].left \in Nat
    BY Zenon DEF Waiting
  <1>1. ASSUME NEW c \in Callers, Acquire(c) PROVE Waiting'
    BY <1>0, <1>1, GotoWaiting DEF Acquire
  <1>2. ASSUME NEW c \in Callers, Gate(c) PROVE Waiting'
    <2>1. floor[c] <= cooldown
      BY <1>2, Zenon DEF Gate, Waiting
    <2>2. CASE cooldown > 0
      BY <1>0, <1>2, <2>1, <2>2, GotoWaiting DEF Gate
    <2>3. CASE ~(cooldown > 0)
      <3>1. floor[c] = 0
        BY <1>0, <2>1, <2>3
      <3> QED BY <1>0, <1>2, <2>3, <3>1, GotoWaiting DEF Gate
    <2> QED BY <2>2, <2>3
  <1>3. ASSUME NEW c \in Callers, Wake(c) PROVE Waiting'
    <2>1. floor[c] <= cooldown
      BY <1>3, Zenon DEF Wake, Waiting
    <2> QED BY <1>0, <1>3, <2>1, GotoWaiting DEF Wake
  <1>4. ASSUME NEW c \in Callers, Grant(c) PROVE Waiting'
    <2>1. floor[c] = 0
      BY <1>4, Zenon DEF Grant, Waiting
    <2> QED BY <1>0, <1>4, <2>1, GotoWaiting DEF Grant
  <1>5. ASSUME NEW c \in Callers, Succeed(c) \/ OtherError(c) PROVE Waiting'
    BY <1>0, <1>5, GotoWaiting DEF Succeed, OtherError
  <1>6. ASSUME NEW c \in Callers, Penalise(c) PROVE Waiting'
    <2>1. Backoff(streak + 1) \in Nat
      BY BackoffNat
    <2> QED BY <1>0, <1>6, <2>1, GotoWaiting DEF Penalise
  <1>7. ASSUME NEW c \in Callers, SetCooldown(c) PROVE Waiting'
    BY <1>0, <1>7, GotoWaiting DEF SetCooldown
  <1>8. CASE Refill \/ MissedTick
    BY <1>8, ElapseWaiting DEF Refill, MissedTick
  <1>9. CASE UNCHANGED vars
    BY <1>9, Zenon DEF vars, Waiting
  <1> QED BY <1>1, <1>2, <1>3, <1>4, <1>5, <1>6, <1>7, <1>8, <1>9, Zenon DEF Next

\* A call is not sent before the cooldown that its acquire met is over, so the
\* call after a 429 waits that 429 out (acquire, on_429).
THEOREM AcquireSleepsOut == Spec => []AcquireWaits
  <1>1. Init => Waiting /\ streak \in Nat
    BY WaitingInit DEF Init
  <1>2. Waiting => AcquireWaits
    BY Zenon DEF Waiting, AcquireWaits
  <1> QED BY <1>1, <1>2, StreakNext, WaitingNext, PTL DEF Spec

\* Whoever calls and whatever is answered with a 429, the calls are paced by the
\* bucket and by the cooldowns (acquire, on_429).
THEOREM CallsArePaced == Spec => []CallsPaced
  BY RateIsBounded, AcquireSleepsOut, PTL DEF CallsPaced
===================================================================================
