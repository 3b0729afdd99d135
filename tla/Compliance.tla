---- MODULE Compliance ----
(***************************************************************************)
(* The compliance server (compliance/compliance-server): a request looks   *)
(* its wallet up in the database and, when there is no unexpired entry,    *)
(* registers the wallet with the assessor (Chainalysis), asks for its risk *)
(* and stores the verdict.  A connection of the pool is held from the      *)
(* lookup to the end of the request, and waiting for one blocks a worker   *)
(* thread of the runtime; the wait for the assessor does not.              *)
(***************************************************************************)
EXTENDS Integers, FiniteSets

CONSTANTS
  Requests, Wallets,
  Workers,      \* threads of the runtime
  PoolSize,     \* connections of the pool
  Expiry,       \* DEFAULT_EXPIRATION_DURATION
  MaxTime,      \* bound on the clock
  Calm          \* TRUE: the assessor and the database never fail

ASSUME ComplianceAssumption ==
  Wallets /= {} /\ Expiry \in Nat /\ MaxTime \in Nat

Risks == {"Low", "Medium", "High", "Severe", "Other"}

NoEntry == [ok |-> TRUE, created |-> -1, level |-> "none", assessed |-> -1]

VARIABLES
  now,     \* the clock
  table,   \* the wallet_compliance table; level and assessed are history
  req      \* the requests: where each is, its wallet, its assessment, its answer

complianceVars == <<now, table, req>>

NoRequest == [pc |-> "idle", wallet |-> CHOOSE w \in Wallets : TRUE, entry |-> NoEntry]

ComplianceInit ==
  /\ now = 0
  /\ table = [w \in Wallets |-> NoEntry]
  /\ req = [r \in Requests |-> NoRequest]

-----------------------------------------------------------------------------
(* Mutated forms of the definitions below. *)

ExpiredLate(e) == e.created + Expiry + 1 < now

CompliantUnknown(level) == level /= "Severe"

-----------------------------------------------------------------------------
(* The environment *)

Tick ==
  /\ now < MaxTime
  /\ now' = now + 1
  /\ UNCHANGED <<table, req>>

-----------------------------------------------------------------------------
(* The threads and the connections *)

Blocked == {r \in Requests : req[r].pc = "blocked"}
Holding == {r \in Requests : req[r].pc \in {"register", "query", "assessed"}}

WorkerFree == Cardinality(Blocked) < Workers
ConnectionFree == Cardinality(Holding) < PoolSize

-----------------------------------------------------------------------------
(* The database and the verdict *)

Expired(e) == e.created + Expiry < now

(* as_compliance_entry: an unknown level does not block a wallet. *)
Compliant(level) == level \notin {"High", "Severe"}

(* The entry made of an assessment when it is received. *)
Entry(level, assessed) ==
  [ok |-> Compliant(level), created |-> now, level |-> level, assessed |-> assessed]

Upsert(e, w) == [table EXCEPT ![w] = e]

(* get_compliance_entry, with a connection: an unexpired entry is the answer. *)
Lookup(r) ==
  LET e == table[req[r].wallet] IN
    IF e /= NoEntry /\ ~Expired(e)
    THEN req' = [req EXCEPT ![r].pc = "done", ![r].entry = e]
    ELSE req' = [req EXCEPT ![r].pc = "register"]

-----------------------------------------------------------------------------
(* A request *)

ArriveRequest(r) ==
  /\ req[r].pc = "idle"
  /\ \E w \in Wallets : req' = [req EXCEPT ![r].pc = "arrived", ![r].wallet = w]
  /\ UNCHANGED <<now, table>>

(* The handler runs up to the pool: it gets a connection and looks its       *)
(* wallet up, or blocks its thread.                                          *)
Enter(r) ==
  /\ req[r].pc = "arrived" /\ WorkerFree
  /\ IF ConnectionFree THEN Lookup(r) ELSE req' = [req EXCEPT ![r].pc = "blocked"]
  /\ UNCHANGED <<now, table>>

Acquire(r) ==
  /\ req[r].pc = "blocked" /\ ConnectionFree
  /\ Lookup(r)
  /\ UNCHANGED <<now, table>>

(* Pool::get gives up after its timeout. *)
GetTimeout(r) ==
  /\ req[r].pc = "blocked"
  /\ req' = [req EXCEPT ![r].pc = "failed"]
  /\ UNCHANGED <<now, table>>

(* register_addr returns and the assessment is asked for. *)
Register(r) ==
  /\ req[r].pc = "register" /\ WorkerFree
  /\ req' = [req EXCEPT ![r].pc = "query"]
  /\ UNCHANGED <<now, table>>

(* The assessor answers with the risk it sees in the wallet now, which may   *)
(* differ from the last one; the answer is on its way.                       *)
Assess(r) ==
  /\ req[r].pc = "query"
  /\ \E level \in Risks :
       req' = [req EXCEPT ![r].pc = "assessed",
                          ![r].entry = [NoEntry EXCEPT !.level = level, !.assessed = now]]
  /\ UNCHANGED <<now, table>>

(* The answer is received, stored and returned. *)
ReceiveRisk(r) ==
  /\ req[r].pc = "assessed" /\ WorkerFree
  /\ LET e == Entry(req[r].entry.level, req[r].entry.assessed) IN
       /\ table' = Upsert(e, req[r].wallet)
       /\ req' = [req EXCEPT ![r].pc = "done", ![r].entry = e]
  /\ UNCHANGED now

(* A call to the assessor or the database fails; nothing was stored. *)
Fail(r) ==
  /\ ~Calm
  /\ req[r].pc \in {"arrived", "register", "query", "assessed"} /\ WorkerFree
  /\ req' = [req EXCEPT ![r].pc = "failed", ![r].entry = NoEntry]
  /\ UNCHANGED <<now, table>>

(* The client has its answer. *)
Return(r) ==
  /\ req[r].pc \in {"done", "failed"}
  /\ req' = [req EXCEPT ![r] = NoRequest]
  /\ UNCHANGED <<now, table>>

Proceed(r) == Enter(r) \/ Acquire(r) \/ Register(r) \/ ReceiveRisk(r)

(* What ends without a thread of the runtime: the wait for the pool and the   *)
(* wait for the assessor.                                                    *)
Wait(r) == GetTimeout(r) \/ Assess(r)

ComplianceNext ==
  \/ Tick
  \/ \E r \in Requests : ArriveRequest(r) \/ Proceed(r) \/ Wait(r) \/ Fail(r) \/ Return(r)

(* A runnable task gets a thread, the assessor answers, a wait for the pool  *)
(* ends.                                                                     *)
ComplianceSpec ==
  /\ ComplianceInit /\ [][ComplianceNext]_complianceVars
  /\ \A r \in Requests : SF_complianceVars(Proceed(r)) /\ WF_complianceVars(Wait(r))

-----------------------------------------------------------------------------
(* The types of the variables. *)
Entries == [ok : BOOLEAN, created : -1..MaxTime, level : Risks \union {"none"}, assessed : -1..MaxTime]

ComplianceTypeOK ==
  /\ now \in 0..MaxTime /\ table \in [Wallets -> Entries]
  /\ req \in [Requests ->
       [pc : {"idle", "arrived", "blocked", "register", "query", "assessed", "done", "failed"},
        wallet : Wallets, entry : Entries]]

AnswersRestOnAssessment ==
  \A r \in Requests :
    req[r].pc = "done"
      => LET e == req[r].entry IN
           /\ e.assessed \in 0..e.created
           /\ e.ok <=> e.level \in {"Low", "Medium", "Other"}

AnswersFresh ==
  \A r \in Requests :
    (req[r].pc /= "done" /\ req'[r].pc = "done") => now - req'[r].entry.created <= Expiry

(* An answer rests on an assessment of the wallet: a wallet is answered      *)
(* compliant only on an assessment that was neither high nor severe, made    *)
(* before the verdict was stored; and the verdict was stored no longer ago    *)
(* than the expiration period, whoever stored it, when the step that answers  *)
(* reads the clock.                                                          *)
AnswersJustified == [][AnswersFresh /\ AnswersRestOnAssessment']_complianceVars

====
