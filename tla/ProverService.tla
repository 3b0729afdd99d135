---- MODULE ProverService ----
(***************************************************************************)
(* The prover service (prover-service): a request names a circuit and is   *)
(* proved on a blocking thread of the runtime.  A settlement is then       *)
(* linked to the validity proofs whose hints came with the request, all    *)
(* links at once (tokio::try_join!): the first that fails answers, and the *)
(* others run on with nobody waiting for them, as they do when the client  *)
(* goes away.  A route of the model stands for the routes of its shape.    *)
(***************************************************************************)
EXTENDS Integers, Sequences, FiniteSets, Functions

CONSTANTS
    Calls,            \* the requests
    Routes,           \* the routes they use
    Inputs,           \* what they send: see Screen
    BlockingThreads,  \* blocking threads of the runtime
    ProverFaults            \* TRUE: provers fail or panic and clients go away

ASSUME ProverAssumption ==
    /\ Inputs \subseteq {"path", "method", "noheader", "header", "password", "media", "garbage",
                        "invalid", "valid"}
    /\ BlockingThreads \in Nat \ {0}

VARIABLES
    service,    \* "booting", "serving" or "down"
    call,       \* the requests: where each is, its route, its input, its answer
    job,        \* the jobs of each request: their states and outcomes
    todo        \* the queue of the blocking pool

proverVars == <<service, call, job, todo>>

-----------------------------------------------------------------------------
(* The API: what a reply holds beside its proof *)

\* One link proof of an intent-only settlement, two of one whose party is 0, and
\* four of a private settlement of parties 0 and 1.
Slot(name, relation, party) == [name |-> name, relation |-> relation, party |-> party]

Slots == [name : {"validity", "output", "validity_0", "validity_1", "output_0", "output_1"},
          relation : {"intent_only", "balance", "output"}, party : {0, 1}]

ReplyLinks(route) ==
    CASE route = "only"    -> {Slot("validity", "intent_only", 0)}
      [] route \in {"bounded", "public"} -> {Slot("validity", "balance", 0), Slot("output", "output", 0)}
      [] route = "private" -> {Slot("validity_0", "balance", 0), Slot("validity_1", "balance", 1),
                               Slot("output_0", "output", 0), Slot("output_1", "output", 1)}
      [] OTHER             -> {}

-----------------------------------------------------------------------------
(* Mutated forms of the definitions below. *)

LinksCopied(route) ==
    CASE route = "only" -> << Slot("validity", "intent_only", 0) >>
      [] route \in {"bounded", "public"} -> << Slot("validity", "balance", 0), Slot("output", "output", 0) >>
      [] route = "private" -> << Slot("validity_0", "balance", 0), Slot("validity_1", "balance", 0),
                                 Slot("output_0", "output", 0), Slot("output_1", "output", 0) >>
      [] OTHER -> << >>

LinkedByAny(r, links) == \E l \in links : job[r][l.name] = "ok"

StatusOfProver(outcome) == 500

-----------------------------------------------------------------------------
(* The linking calls of a handler, in the order try_join! starts them *)

Links(route) ==
    CASE route = "only" -> << Slot("validity", "intent_only", 0) >>
      [] route \in {"bounded", "public"} -> << Slot("validity", "balance", 0), Slot("output", "output", 0) >>
      [] route = "private" -> << Slot("validity_0", "balance", 0), Slot("validity_1", "balance", 1),
                                 Slot("output_0", "output", 0), Slot("output_1", "output", 1) >>
      [] OTHER -> << >>

\* The routes whose handlers reply with the proof's link hint too; those of the
\* updates and of the fees drop it.
WithHint(route) == route = "validity"

Names == {"proof", "validity", "output", "validity_0", "validity_1", "output_0", "output_1"}

Unanswered == [status |-> 0, hint |-> FALSE, links |-> {}]

NoCall == [pc |-> "idle", route |-> "none", input |-> "none", answer |-> Unanswered]

ProverInit ==
    /\ service = "booting"
    /\ call = [r \in Calls |-> NoCall]
    /\ job = [r \in Calls |-> [n \in Names |-> "none"]]
    /\ todo = << >>

-----------------------------------------------------------------------------
(* The start: keys and layouts of all circuits, on a blocking thread *)

\* A layout that cannot be made ends preprocess_circuits with an error.
Preprocess == {"ok"} \union (IF ProverFaults THEN {"error", "panic"} ELSE {})

\* The error is logged and the service serves; a panic ends the process.
Boot ==
    /\ service = "booting"
    /\ \E outcome \in Preprocess : service' = IF outcome = "panic" THEN "down" ELSE "serving"
    /\ UNCHANGED <<call, job, todo>>

-----------------------------------------------------------------------------
(* The filters of a route and their rejections *)

\* The status a request is rejected with before its handler, 0 when it is not: a
\* header that is missing or is not one of basic authentication is a bad request;
\* a body that is not declared as JSON is an unhandled rejection.
Screen(input) ==
    CASE input = "path"     -> 404
      [] input = "method"   -> 405
      [] input \in {"noheader", "header"} -> 400
      [] input = "password" -> 401
      [] input = "media"    -> 500
      [] input = "garbage"  -> 400
      [] OTHER              -> 0

\* to_reply, of the errors run_blocking makes: a witness that does not satisfy
\* its circuit is the client's fault, everything else is the service's.
Status(outcome) == IF outcome = "invalid" THEN 400 ELSE 500

Answer(r, answer) == call' = [call EXCEPT ![r].pc = "answered", ![r].answer = answer]

Reject(r, status) == Answer(r, [Unanswered EXCEPT !.status = status])

-----------------------------------------------------------------------------
(* The blocking threads *)

Running == {j \in Calls \X Names : job[j[1]][j[2]] = "running"}

Failed == {"invalid", "error", "panic"}

\* spawn_blocking of several jobs of a request.
Spawn(r, names) ==
    /\ job' = [job EXCEPT ![r] = [n \in Names |-> IF n \in Range(names) THEN "queued" ELSE @[n]]]
    /\ todo' = todo \o [i \in DOMAIN names |-> <<r, names[i]>>]

\* A thread takes the oldest job, also one nobody waits for.
Start ==
    /\ todo # << >> /\ Cardinality(Running) < BlockingThreads
    /\ LET j == Head(todo) IN job' = [job EXCEPT ![j[1]][j[2]] = "running"]
    /\ todo' = Tail(todo)
    /\ UNCHANGED <<service, call>>

\* singleprover_prove_with_hint, or a linking prover, ends.
Outcomes(r, n) ==
    IF n = "proof" /\ call[r].input = "invalid" THEN {"invalid"}
    ELSE {"ok"} \union (IF ProverFaults THEN {"error", "panic"} ELSE {})

FinishJob(r, n) ==
    /\ job[r][n] = "running"
    /\ \E outcome \in Outcomes(r, n) : job' = [job EXCEPT ![r][n] = outcome]
    /\ UNCHANGED <<service, call, todo>>

-----------------------------------------------------------------------------
(* The handlers *)

ArriveCall(r, route, input) ==
    /\ service = "serving" /\ call[r].pc = "idle"
    /\ IF Screen(input) # 0
       THEN /\ call' = [call EXCEPT ![r] = [pc |-> "answered", route |-> route, input |-> input,
                                            answer |-> [Unanswered EXCEPT !.status = Screen(input)]]]
            /\ UNCHANGED <<job, todo>>
       ELSE /\ call' = [call EXCEPT ![r] = [pc |-> "proving", route |-> route, input |-> input,
                                            answer |-> Unanswered]]
            /\ Spawn(r, << "proof" >>)
    /\ UNCHANGED service

\* The proof is the answer, or is linked first.
Proved(r) ==
    LET links == Links(call[r].route)
    IN  /\ call[r].pc = "proving"
        /\ \/ /\ job[r]["proof"] = "ok" /\ links = << >>
              /\ Answer(r, [status |-> 200, hint |-> WithHint(call[r].route), links |-> {}])
              /\ UNCHANGED <<job, todo>>
           \/ /\ job[r]["proof"] = "ok" /\ links # << >>
              /\ call' = [call EXCEPT ![r].pc = "linking"]
              /\ Spawn(r, [i \in DOMAIN links |-> links[i].name])
           \/ /\ job[r]["proof"] \in Failed
              /\ Reject(r, Status(job[r]["proof"]))
              /\ UNCHANGED <<job, todo>>
        /\ UNCHANGED service

\* try_join!: all links, or the failure of one while others may still run.
AllLinked(r, links) == \A l \in links : job[r][l.name] = "ok"

Linked(r) ==
    LET links == Range(Links(call[r].route))
    IN  /\ call[r].pc = "linking"
        /\ \/ /\ AllLinked(r, links)
              /\ Answer(r, [status |-> 200, hint |-> FALSE, links |-> links])
           \/ \E l \in links : /\ job[r][l.name] \in Failed
                               /\ Reject(r, Status(job[r][l.name]))
        /\ UNCHANGED <<service, job, todo>>

\* The client goes away and its handler is dropped; the jobs stay.
Disconnect(r) ==
    /\ ProverFaults /\ call[r].pc \in {"proving", "linking"}
    /\ call' = [call EXCEPT ![r].pc = "gone"]
    /\ UNCHANGED <<service, job, todo>>

Finishes == \E r \in Calls, n \in Names : FinishJob(r, n)

Handles == \E r \in Calls : Proved(r) \/ Linked(r)

ProverNext ==
    \/ Boot
    \/ \E r \in Calls : \E route \in Routes, input \in Inputs : ArriveCall(r, route, input)
    \/ Start
    \/ Finishes
    \/ Handles
    \/ \E r \in Calls : Disconnect(r)

ProverSpec == ProverInit /\ [][ProverNext]_proverVars

-----------------------------------------------------------------------------
(* Properties *)

JobStates == {"none", "queued", "running", "ok"} \union Failed

\* The types of the variables.
ProverTypeOK ==
    /\ service \in {"booting", "serving", "down"}
    /\ call \in [Calls -> [pc : {"idle", "proving", "linking", "answered", "gone"},
                           route : Routes \union {"none"}, input : Inputs \union {"none"},
                           answer : [status : {0, 200, 400, 401, 404, 405, 500},
                                     hint : BOOLEAN, links : SUBSET Slots]]]
    /\ job \in [Calls -> [Names -> JobStates]]
    /\ todo \in Seq(Calls \X Names)
    /\ \A i \in DOMAIN todo : job[todo[i][1]][todo[i][2]] = "queued"

\* The request was authenticated, its witness satisfies the circuit, and the reply
\* has every link proof the API promises for the circuit, each made for the party
\* whose slot it is in.
ProofsComplete ==
    \A r \in Calls :
        call[r].answer.status = 200 =>
            /\ call[r].input = "valid" /\ job[r]["proof"] = "ok"
            /\ call[r].answer.links = ReplyLinks(call[r].route)
            /\ \A l \in call[r].answer.links : job[r][l.name] = "ok"

FailuresOwned ==
    \A r \in Calls :
        (call[r].pc = "answered" /\ Screen(call[r].input) = 0 /\ call[r].answer.status # 200) =>
            \E n \in Names :
                \/ call[r].answer.status = 400 /\ job[r][n] = "invalid"
                \/ call[r].answer.status = 500 /\ job[r][n] \in {"error", "panic"}

LinksFollowProof ==
    \A r \in Calls : \A n \in Names \ {"proof"} : job[r][n] # "none" => job[r]["proof"] = "ok"

\* A proof that is handed out is complete and its links are in their slots; a
\* failure is the request's own, one of its jobs ended that way, whatever else ran
\* on the same threads and whichever of its links failed first; and no link is made
\* of a settlement that was not proved, although links outlive the request.
ProofsJustified == ProofsComplete /\ FailuresOwned /\ LinksFollowProof
====
