--------------------------- MODULE OrderServicesProofs ----------------------------
(*********************************************************************************)
(* Every proof that the prover service returns was computed by jobs of that      *)
(* request, on valid statements, and its links join proofs of that request.      *)
(* ProofsJustified is not inductive alone: every slot of the reply that is to    *)
(* be filled has a job that is queued once, runs or is done (QueuedOnce,         *)
(* Accounted).                                                                   *)
(*                                                                               *)
(* The compliance server answers only what an assessment of the wallet said that *)
(* is still fresh; the indexer deletes a registration from its queue only once   *)
(* it is in the database, and one task at a time works on a group until one      *)
(* outlives the visibility timeout.                                              *)
(*                                                                               *)
(* All for any number of messages, groups, tasks, wallets, requests and threads. *)
(*********************************************************************************)
EXTENDS ProverService, Compliance, IndexerQueue, TLAPS

----------------------------------------------------------------------------
(* The prover service *)

Replies == [status : {0, 200, 400, 401, 404, 405, 500}, hint : BOOLEAN, links : SUBSET Slots]

CallRecords ==
    [pc : {"idle", "proving", "linking", "answered", "gone"}, route : Routes \union {"none"},
     input : Inputs \union {"none"}, answer : Replies]

\* No job is queued twice.
QueuedOnce == \A i, j \in DOMAIN todo : todo[i] = todo[j] => i = j

\* A request c with the jobs j: jobs are spawned by its handler only, in order;
\* an answer is the one its jobs call for.
Accounted(c, j) ==
    /\ c.pc = "idle" => \A n \in Names : j[n] = "none"
    /\ c.pc = "proving" => \A n \in Names \ {"proof"} : j[n] = "none"
    /\ c.pc = "linking" => j["proof"] = "ok"
    /\ c.pc \in {"proving", "linking"} => Screen(c.input) = 0 /\ c.input \in Inputs
    /\ c.pc # "answered" => c.answer.status = 0
    /\ c.input = "invalid" => j["proof"] # "ok"
    /\ c.answer.status = 200 =>
            /\ c.input = "valid" /\ j["proof"] = "ok"
            /\ c.answer.links = ReplyLinks(c.route)
            /\ \A l \in c.answer.links : j[l.name] = "ok"
    /\ (c.pc = "answered" /\ Screen(c.input) = 0 /\ c.answer.status # 200) =>
            \E n \in Names :
                \/ c.answer.status = 400 /\ j[n] = "invalid"
                \/ c.answer.status = 500 /\ j[n] \in {"error", "panic"}
    /\ \A n \in Names \ {"proof"} : j[n] # "none" => j["proof"] = "ok"

ProverInv ==
    /\ ProverTypeOK /\ QueuedOnce
    /\ \A r \in Calls : Accounted(call[r], job[r])

\* The linking calls of a route have names of their own, and fill the slots of
\* the reply.
LEMMA LinksFillReply ==
    ASSUME NEW route
    PROVE  /\ Links(route) \in Seq(Slots)
           /\ \A i \in DOMAIN Links(route) : Links(route)[i].name \in Names \ {"proof"}
           /\ \A i, k \in DOMAIN Links(route) : Links(route)[i].name = Links(route)[k].name => i = k
           /\ Range(Links(route)) = ReplyLinks(route)
           /\ Links(route) = << >> => ReplyLinks(route) = {}
  <1>1. CASE route = "only"
    BY <1>1 DEF Links, ReplyLinks, Range, Slot, Slots, Names
  <1>2. CASE route \in {"bounded", "public"}
    <2> DEFINE a == Slot("validity", "balance", 0)
               b == Slot("output", "output", 0)
    <2>1. Links(route) = << a, b >> /\ ReplyLinks(route) = {a, b}
      BY <1>2 DEF Links, ReplyLinks
    <2>2. /\ a \in Slots /\ a.name = "validity"
          /\ b \in Slots /\ b.name = "output"
      BY Zenon DEF Slot, Slots
    <2> HIDE DEF a, b
    <2> QED
      BY <2>1, <2>2 DEF Range, Names
  <1>3. CASE route = "private"
    BY <1>3 DEF Links, ReplyLinks, Range, Slot, Slots, Names
  <1>4. CASE route \notin {"only", "bounded", "public", "private"}
    BY <1>4 DEF Links, ReplyLinks, Range, Slot, Slots, Names
  <1> QED
    BY <1>1, <1>2, <1>3, <1>4, Zenon

\* Jobs that were not spawned before join the end of the queue.
LEMMA SpawnQueues ==
    ASSUME ProverTypeOK, QueuedOnce, NEW r \in Calls, NEW names \in Seq(Names),
           \A i, k \in DOMAIN names : names[i] = names[k] => i = k,
           \A i \in DOMAIN names : job[r][names[i]] = "none",
           Spawn(r, names)
    PROVE  /\ job' \in [Calls -> [Names -> JobStates]] /\ todo' \in Seq(Calls \X Names)
           /\ \A i \in DOMAIN todo' : job'[todo'[i][1]][todo'[i][2]] = "queued"
           /\ QueuedOnce'
           /\ \A s \in Calls : s # r => job'[s] = job[s]
           /\ \A n \in Names : job'[r][n] = IF n \in Range(names) THEN "queued" ELSE job[r][n]
  <1> DEFINE new == [i \in DOMAIN names |-> <<r, names[i]>>]
  <1>t. /\ job \in [Calls -> [Names -> JobStates]] /\ todo \in Seq(Calls \X Names)
        /\ \A i \in DOMAIN todo : job[todo[i][1]][todo[i][2]] = "queued"
    BY DEF ProverTypeOK, CallRecords, Replies
  <1>1. /\ job' = [job EXCEPT ![r] = [n \in Names |-> IF n \in Range(names) THEN "queued" ELSE @[n]]]
        /\ todo' = todo \o new
    BY Zenon DEF Spawn
  <1>2. /\ \A s \in Calls : s # r => job'[s] = job[s]
        /\ \A n \in Names : job'[r][n] = IF n \in Range(names) THEN "queued" ELSE job[r][n]
    BY <1>t, <1>1, Zenon
  <1>3. job' \in [Calls -> [Names -> JobStates]]
    BY <1>t, <1>1 DEF JobStates
  <1>4. Len(names) \in Nat /\ DOMAIN names = 1..Len(names) /\ \A i \in 1..Len(names) : names[i] \in Names
    OBVIOUS
  <1>5. /\ new \in Seq(Calls \X Names) /\ Len(new) = Len(names)
        /\ \A i \in 1..Len(names) : new[i] = <<r, names[i]>>
    BY <1>4
  <1> HIDE DEF new
  <1>6. Len(todo) \in Nat /\ DOMAIN todo = 1..Len(todo) /\ \A i \in 1..Len(todo) : todo[i] \in Calls \X Names
    BY <1>t
  <1>7. todo' \in Seq(Calls \X Names) /\ DOMAIN todo' = 1..(Len(todo) + Len(names))
    BY <1>t, <1>1, <1>5
  <1>8. /\ \A i \in 1..Len(todo) : todo'[i] = todo[i]
        /\ \A i \in 1..(Len(todo) + Len(names)) :
              i > Len(todo) => /\ i - Len(todo) \in 1..Len(names)
                               /\ todo'[i] = <<r, names[i - Len(todo)]>>
    <2>1. \A i \in 1..(Len(todo) + Len(new)) :
              (todo \o new)[i] = IF i <= Len(todo) THEN todo[i] ELSE new[i - Len(todo)]
      BY <1>t, <1>5
    <2>2. \A i \in 1..Len(todo) : todo'[i] = todo[i]
      BY <1>1, <1>4, <1>5, <1>6, <2>1
    <2>3. ASSUME NEW i \in 1..(Len(todo) + Len(names)), i > Len(todo)
          PROVE  /\ i - Len(todo) \in 1..Len(names)
                 /\ todo'[i] = <<r, names[i - Len(todo)]>>
      <3>1. i - Len(todo) \in 1..Len(names)
        BY <1>4, <1>6, <2>3
      <3>2. ~(i <= Len(todo)) /\ i \in 1..(Len(todo) + Len(new))
        BY <1>4, <1>5, <1>6, <2>3
      <3>3. todo'[i] = new[i - Len(todo)]
        BY <1>1, <2>1, <3>2, Zenon
      <3> QED
        BY <1>5, <3>1, <3>3, Zenon
    <2> QED
      BY <2>2, <2>3, Zenon
  <1>9. \A i \in 1..(Len(todo) + Len(names)) : i \in 1..Len(todo) \/ i > Len(todo)
    BY <1>4, <1>6
  \* A queued job is not one of the new ones.
  <1>10. \A i \in 1..Len(todo) : \A k \in 1..Len(names) : todo[i] # <<r, names[k]>>
    <2> SUFFICES ASSUME NEW i \in 1..Len(todo), NEW k \in 1..Len(names), todo[i] = <<r, names[k]>>
                 PROVE  FALSE
      BY Zenon
    <2>1. todo[i][1] = r /\ todo[i][2] = names[k]
      OBVIOUS
    <2>2. job[r][names[k]] = "queued"
      BY ZenonT(40), <1>t, <1>6, <2>1
    <2>3. job[r][names[k]] = "none"
      BY <1>4, Zenon
    <2> QED
      BY <2>2, <2>3, Zenon
  <1>11. ASSUME NEW i \in 1..(Len(todo) + Len(names))
         PROVE  job'[todo'[i][1]][todo'[i][2]] = "queued"
    <2>1. CASE i \in 1..Len(todo)
      <3>1. todo'[i] = todo[i] /\ todo[i][1] \in Calls /\ todo[i][2] \in Names
        BY <1>6, <1>8, <2>1, Zenon
      <3>2. job[todo[i][1]][todo[i][2]] = "queued"
        BY <1>t, <1>6, <2>1, Zenon
      <3>3. CASE todo[i][1] = r
        BY <1>2, <3>1, <3>2, <3>3
      <3>4. CASE todo[i][1] # r
        BY <1>2, <3>1, <3>2, <3>4
      <3> QED
        BY <3>3, <3>4, Zenon
    <2>2. CASE i > Len(todo)
      <3>1. PICK k \in 1..Len(names) : todo'[i] = <<r, names[k]>>
        BY <1>8, <2>2, Zenon
      <3>2. names[k] \in Names /\ names[k] \in Range(names)
        BY <1>4, <3>1, Zenon DEF Range
      <3> QED
        BY <1>2, <3>1, <3>2
    <2> QED
      BY <1>9, <2>1, <2>2, Zenon
  <1>12. ASSUME NEW i \in 1..(Len(todo) + Len(names)), NEW k \in 1..(Len(todo) + Len(names)),
                todo'[i] = todo'[k]
         PROVE  i = k
    <2>1. CASE i \in 1..Len(todo) /\ k \in 1..Len(todo)
      BY <1>6, <1>8, <1>12, <2>1 DEF QueuedOnce
    <2>2. CASE i \in 1..Len(todo) /\ k > Len(todo)
      BY <1>8, <1>10, <1>12, <2>2
    <2>3. CASE i > Len(todo) /\ k \in 1..Len(todo)
      BY <1>8, <1>10, <1>12, <2>3
    <2>4. CASE i > Len(todo) /\ k > Len(todo)
      <3>1. /\ i - Len(todo) \in 1..Len(names) /\ k - Len(todo) \in 1..Len(names)
            /\ <<r, names[i - Len(todo)]>> = <<r, names[k - Len(todo)]>>
        BY <1>8, <1>12, <2>4
      <3>2. names[i - Len(todo)] = names[k - Len(todo)]
        BY <3>1, Zenon
      <3>3. i - Len(todo) = k - Len(todo)
        BY <1>4, <3>1, <3>2, Zenon
      <3> QED
        BY <1>6, <3>3
    <2> QED
      BY <1>9, <2>1, <2>2, <2>3, <2>4, Zenon
  <1>13. QueuedOnce'
    BY <1>7, <1>12, Zenon DEF QueuedOnce
  <1> QED
    BY <1>2, <1>3, <1>7, <1>11, <1>13, Zenon

\* A job that starts or ends changes what its request is owed, never what it was
\* answered.
LEMMA JobKeepsAccount ==
    ASSUME NEW c, NEW j \in [Names -> JobStates], NEW n \in Names, NEW v \in JobStates,
           Accounted(c, j), j[n] \in {"queued", "running"}, v # "none",
           c.answer.links \subseteq Slots,
           n = "proof" /\ c.input = "invalid" => v # "ok"
    PROVE  Accounted(c, [j EXCEPT ![n] = v])
  <1> DEFINE k == [j EXCEPT ![n] = v]
  <1>1. /\ k[n] = v /\ \A m \in Names : m # n => k[m] = j[m]
        /\ "proof" \in Names
    BY Zenon DEF Names
  <1>2. j[n] # "none" /\ j[n] # "ok" /\ j[n] \notin Failed
    BY Zenon DEF Failed
  <1>3. \A m \in Names : j[m] \in {"ok", "invalid", "error", "panic"} => k[m] = j[m]
    BY <1>1, <1>2, Zenon DEF Failed
  <1>4. \A l \in Slots : l.name \in Names
    BY Zenon DEF Slots, Names
  <1> HIDE DEF k
  <1>5. c.pc = "idle" => FALSE
    BY <1>2 DEF Accounted
  <1>6. c.pc = "proving" => \A m \in Names \ {"proof"} : k[m] = "none"
    BY <1>1, <1>2 DEF Accounted
  <1>7. c.pc = "linking" => k["proof"] = "ok"
    BY <1>1, <1>3 DEF Accounted
  <1>8. c.input = "invalid" => k["proof"] # "ok"
    BY <1>1 DEF Accounted
  <1>9. c.answer.status = 200 =>
            /\ c.input = "valid" /\ k["proof"] = "ok"
            /\ c.answer.links = ReplyLinks(c.route)
            /\ \A l \in c.answer.links : k[l.name] = "ok"
    BY <1>1, <1>3, <1>4 DEF Accounted
  <1>10. (c.pc = "answered" /\ Screen(c.input) = 0 /\ c.answer.status # 200) =>
            \E m \in Names :
                \/ c.answer.status = 400 /\ k[m] = "invalid"
                \/ c.answer.status = 500 /\ k[m] \in {"error", "panic"}
    BY <1>3 DEF Accounted
  <1>11. \A m \in Names \ {"proof"} : k[m] # "none" => k["proof"] = "ok"
    BY <1>1, <1>2, <1>3 DEF Accounted
  <1>12. /\ c.pc \in {"proving", "linking"} => Screen(c.input) = 0 /\ c.input \in Inputs
         /\ c.pc # "answered" => c.answer.status = 0
    BY DEF Accounted
  <1>13. Accounted(c, k)
    BY <1>5, <1>6, <1>7, <1>8, <1>9, <1>10, <1>11, <1>12, Zenon DEF Accounted
  <1> QED
    BY <1>13 DEF k

\* A request after its next step, and after its answer.
Moved(c, p) == [c EXCEPT !.pc = p]
Replied(c, a) == [c EXCEPT !.pc = "answered", !.answer = a]

\* Both leave what was asked for.
LEMMA CallUpdate ==
    ASSUME NEW c \in CallRecords, NEW a \in Replies,
           NEW p \in {"idle", "proving", "linking", "answered", "gone"}
    PROVE  /\ Moved(c, p) \in CallRecords
           /\ Moved(c, p).pc = p /\ Moved(c, p).answer = c.answer
           /\ Moved(c, p).input = c.input /\ Moved(c, p).route = c.route
           /\ Replied(c, a) \in CallRecords
           /\ Replied(c, a).pc = "answered" /\ Replied(c, a).answer = a
           /\ Replied(c, a).input = c.input /\ Replied(c, a).route = c.route
  BY Zenon DEF CallRecords, Moved, Replied

\* A request's own step: the others and the jobs of the others stay.
LEMMA ProverStep ==
    ASSUME ProverInv, [ProverNext]_proverVars
    PROVE  ProverInv'
  <1>t. /\ service \in {"booting", "serving", "down"} /\ call \in [Calls -> CallRecords]
        /\ job \in [Calls -> [Names -> JobStates]] /\ todo \in Seq(Calls \X Names)
        /\ \A i \in DOMAIN todo : job[todo[i][1]][todo[i][2]] = "queued"
    BY DEF ProverInv, ProverTypeOK, CallRecords, Replies
  <1>i. ProverTypeOK /\ QueuedOnce /\ \A r \in Calls : Accounted(call[r], job[r])
    BY DEF ProverInv
  <1>u. /\ Unanswered \in Replies /\ Unanswered.status = 0
        /\ \A status \in {0, 200, 400, 401, 404, 405, 500} :
              /\ [Unanswered EXCEPT !.status = status] \in Replies
              /\ [Unanswered EXCEPT !.status = status].status = status
    <2>1. Unanswered \in Replies /\ Unanswered.status = 0
      BY DEF Unanswered, Replies
    <2>2. \A status \in {0, 200, 400, 401, 404, 405, 500} :
              /\ [Unanswered EXCEPT !.status = status] \in Replies
              /\ [Unanswered EXCEPT !.status = status].status = status
      BY <2>1 DEF Replies
    <2> QED
      BY <2>1, <2>2
  <1>p. "proof" \in Names
    BY DEF Names
  <1>s. \A input : Screen(input) \in {0, 400, 401, 404, 405, 500}
    BY DEF Screen
  \* The step of a handler that leaves the jobs alone.
  <1>h. ASSUME NEW r \in Calls, NEW c \in CallRecords, call' = [call EXCEPT ![r] = c],
               Accounted(c, job[r]), UNCHANGED <<service, job, todo>>
        PROVE  ProverInv'
    <2>1. call' \in [Calls -> CallRecords] /\ call'[r] = c /\ \A s \in Calls : s # r => call'[s] = call[s]
      BY <1>t, <1>h, Zenon
    <2>2. \A s \in Calls : Accounted(call'[s], job'[s])
      BY <1>i, <1>h, <2>1, Zenon
    <2>3. ProverTypeOK'
      BY <1>t, <1>h, <2>1 DEF ProverTypeOK, CallRecords, Replies
    <2>4. QueuedOnce'
      BY <1>i, <1>h, Zenon DEF QueuedOnce
    <2> QED
      BY <2>2, <2>3, <2>4, Zenon DEF ProverInv, Accounted
  \* The step of a handler that spawns jobs.
  <1>w. ASSUME NEW r \in Calls, NEW c \in CallRecords, call' = [call EXCEPT ![r] = c],
               NEW names \in Seq(Names), Spawn(r, names),
               \A i, k \in DOMAIN names : names[i] = names[k] => i = k,
               \A i \in DOMAIN names : job[r][names[i]] = "none",
               Accounted(c, job'[r]), UNCHANGED service
        PROVE  ProverInv'
    <2>1. call' \in [Calls -> CallRecords] /\ call'[r] = c /\ \A s \in Calls : s # r => call'[s] = call[s]
      BY <1>t, <1>w, Zenon
    <2>2. /\ job' \in [Calls -> [Names -> JobStates]] /\ todo' \in Seq(Calls \X Names)
          /\ \A i \in DOMAIN todo' : job'[todo'[i][1]][todo'[i][2]] = "queued"
          /\ QueuedOnce' /\ \A s \in Calls : s # r => job'[s] = job[s]
      BY <1>i, <1>w, SpawnQueues, Zenon
    <2>3. \A s \in Calls : Accounted(call'[s], job'[s])
      BY <1>i, <1>w, <2>1, <2>2
    <2>4. ProverTypeOK'
      BY <1>t, <1>w, <2>1, <2>2 DEF ProverTypeOK, CallRecords, Replies
    <2> QED
      BY <2>2, <2>3, <2>4, Zenon DEF ProverInv, Accounted
  \* The step of a job.
  <1>j. ASSUME NEW r \in Calls, NEW n \in Names, NEW v \in JobStates,
               job' = [job EXCEPT ![r][n] = v], job[r][n] \in {"queued", "running"},
               v # "none", n = "proof" /\ call[r].input = "invalid" => v # "ok",
               UNCHANGED <<service, call>>
        PROVE  /\ job' \in [Calls -> [Names -> JobStates]] /\ job'[r][n] = v
               /\ \A s \in Calls : s # r => job'[s] = job[s]
               /\ \A m \in Names : m # n => job'[r][m] = job[r][m]
               /\ \A s \in Calls : Accounted(call'[s], job'[s])
    <2>1. /\ job' \in [Calls -> [Names -> JobStates]] /\ job'[r][n] = v
          /\ \A s \in Calls : s # r => job'[s] = job[s]
          /\ \A m \in Names : m # n => job'[r][m] = job[r][m]
          /\ job'[r] = [job[r] EXCEPT ![n] = v]
      BY <1>t, <1>j, Zenon
    <2>2. job[r] \in [Names -> JobStates] /\ Accounted(call[r], job[r]) /\ call[r].answer.links \subseteq Slots
      BY <1>t, <1>i DEF CallRecords, Replies
    <2>3. Accounted(call[r], job'[r])
      BY <1>j, <2>1, <2>2, JobKeepsAccount, Zenon
    <2> QED
      BY <1>i, <1>j, <2>1, <2>3, Zenon
  <1>1. CASE Boot
    <2>1. UNCHANGED <<call, job, todo>> /\ service' \in {"down", "serving"}
      BY <1>1 DEF Boot
    <2>2. ProverTypeOK'
      BY <1>t, <2>1 DEF ProverTypeOK, CallRecords, Replies
    <2>3. QueuedOnce'
      BY <1>i, <2>1 DEF QueuedOnce
    <2>4. \A r \in Calls : Accounted(call'[r], job'[r])
      BY <1>i, <2>1
    <2> QED
      BY <2>2, <2>3, <2>4, Zenon DEF ProverInv, Accounted
  <1>2. ASSUME NEW r \in Calls, NEW route \in Routes, NEW input \in Inputs,
               ArriveCall(r, route, input)
        PROVE  ProverInv'
    <2>1. call[r].pc = "idle" /\ UNCHANGED service
      BY <1>2, Zenon DEF ArriveCall
    <2>2. \A n \in Names : job[r][n] = "none"
      BY <1>i, <2>1 DEF Accounted
    <2>3. CASE Screen(input) # 0
      <3> DEFINE c == [pc |-> "answered", route |-> route, input |-> input,
                       answer |-> [Unanswered EXCEPT !.status = Screen(input)]]
      <3>1. call' = [call EXCEPT ![r] = c] /\ UNCHANGED <<service, job, todo>>
        BY <1>2, <2>1, <2>3, Zenon DEF ArriveCall
      <3>2. Screen(input) \in {0, 200, 400, 401, 404, 405, 500} /\ Screen(input) # 200
        BY <1>s
      <3>3. c \in CallRecords
        BY <1>u, <3>2 DEF CallRecords
      <3>4. c.pc = "answered" /\ c.input = input /\ c.answer.status = Screen(input) /\ c.answer.status # 200
        <4>1. c.answer = [Unanswered EXCEPT !.status = Screen(input)]
          OBVIOUS
        <4>2. [Unanswered EXCEPT !.status = Screen(input)].status = Screen(input)
          BY <1>u, <3>2
        <4> QED
          BY ZenonT(40), <3>2, <4>1, <4>2
      <3> HIDE DEF c
      <3>5. Accounted(c, job[r])
        BY <1>p, <2>2, <2>3, <3>4 DEF Accounted
      <3> QED
        BY <1>h, <3>1, <3>3, <3>5, Zenon
    <2>4. CASE Screen(input) = 0
      <3> DEFINE c == [pc |-> "proving", route |-> route, input |-> input, answer |-> Unanswered]
                 names == << "proof" >>
      <3>1. call' = [call EXCEPT ![r] = c] /\ Spawn(r, names)
        BY <1>2, <2>4, Zenon DEF ArriveCall
      <3>2. c \in CallRecords
        BY <1>u DEF CallRecords
      <3>3. /\ names \in Seq(Names) /\ DOMAIN names = {1} /\ names[1] = "proof"
            /\ Range(names) = {"proof"}
        BY <1>p DEF Range
      <3>4. c.pc = "proving" /\ c.input = input /\ c.answer.status = 0
        BY <1>u
      <3> HIDE DEF c, names
      <3>5. /\ \A i, k \in DOMAIN names : names[i] = names[k] => i = k
            /\ \A i \in DOMAIN names : job[r][names[i]] = "none"
        BY <1>p, <2>2, <3>3, Zenon
      <3>6. \A n \in Names : job'[r][n] = IF n \in Range(names) THEN "queued" ELSE job[r][n]
        BY <1>i, <3>1, <3>3, <3>5, SpawnQueues, Zenon
      <3>7. Accounted(c, job'[r])
        BY <1>p, <2>2, <2>4, <3>3, <3>4, <3>6 DEF Accounted
      <3> QED
        BY <1>w, <2>1, <3>1, <3>2, <3>3, <3>5, <3>7, Zenon
    <2> QED
      BY <2>3, <2>4
  <1>3. CASE Start
    <2>1. PICK r \in Calls, n \in Names : todo # << >> /\ Head(todo) = <<r, n>> /\ todo[1] = <<r, n>>
      BY <1>3, <1>t DEF Start
    <2>2. /\ job' = [job EXCEPT ![r][n] = "running"] /\ todo' = Tail(todo)
          /\ UNCHANGED <<service, call>>
      <3>1. /\ job' = [job EXCEPT ![Head(todo)[1]][Head(todo)[2]] = "running"]
            /\ todo' = Tail(todo) /\ UNCHANGED <<service, call>>
        BY <1>3, Zenon DEF Start
      <3>2. Head(todo)[1] = r /\ Head(todo)[2] = n
        BY <2>1
      <3> QED
        BY <3>1, <3>2, Zenon
    <2>3. Len(todo) \in Nat /\ 1 \in DOMAIN todo /\ DOMAIN todo = 1..Len(todo)
      BY <1>t, <2>1
    <2>4. job[r][n] = "queued"
      <3>1. todo[1][1] = r /\ todo[1][2] = n
        BY <2>1
      <3>2. job[todo[1][1]][todo[1][2]] = "queued"
        BY <1>t, <2>3, Zenon
      <3> QED
        BY <3>1, <3>2
    <2>5. "running" \in JobStates
      BY DEF JobStates
    <2>6. /\ job' \in [Calls -> [Names -> JobStates]]
          /\ \A s \in Calls : s # r => job'[s] = job[s]
          /\ \A m \in Names : m # n => job'[r][m] = job[r][m]
          /\ \A s \in Calls : Accounted(call'[s], job'[s])
      BY ZenonT(40), <1>j, <2>2, <2>4, <2>5
    <2>7. /\ todo' \in Seq(Calls \X Names) /\ DOMAIN todo' = 1..(Len(todo) - 1)
          /\ \A i \in DOMAIN todo' : todo'[i] = todo[i + 1]
      BY <1>t, <2>1, <2>2, <2>3
    <2>8. \A i \in DOMAIN todo' : i + 1 \in DOMAIN todo /\ i + 1 # 1
      BY <2>3, <2>7
    <2>9. QueuedOnce'
      <3> SUFFICES ASSUME NEW i \in DOMAIN todo', NEW k \in DOMAIN todo', todo'[i] = todo'[k]
                   PROVE  i = k
        BY Zenon DEF QueuedOnce
      <3>1. i + 1 = k + 1
        BY <1>i, <2>7, <2>8, Zenon DEF QueuedOnce
      <3> QED
        BY <2>3, <2>7, <3>1
    <2>10. ASSUME NEW i \in DOMAIN todo'
           PROVE  job'[todo'[i][1]][todo'[i][2]] = "queued"
      <3>1. /\ todo'[i] = todo[i + 1] /\ i + 1 \in DOMAIN todo
            /\ todo[i + 1] \in Calls \X Names
        BY <1>t, <2>3, <2>7, <2>8
      <3>2. todo[i + 1] # <<r, n>>
        BY <1>i, <2>1, <2>3, <2>8, Zenon DEF QueuedOnce
      <3>3. ~(todo[i + 1][1] = r /\ todo[i + 1][2] = n)
        BY <3>1, <3>2
      <3>4. todo[i + 1][1] \in Calls /\ todo[i + 1][2] \in Names
        BY <3>1, Zenon
      <3>5. job[todo[i + 1][1]][todo[i + 1][2]] = "queued"
        BY <1>t, <3>1, Zenon
      <3>6. job'[todo[i + 1][1]][todo[i + 1][2]] = job[todo[i + 1][1]][todo[i + 1][2]]
        BY <2>6, <3>3, <3>4, Zenon
      <3> QED
        BY <3>1, <3>5, <3>6, Zenon
    <2>11. ProverTypeOK'
      BY <1>t, <2>2, <2>6, <2>7, <2>10 DEF ProverTypeOK, CallRecords, Replies
    <2> QED
      BY <2>6, <2>9, <2>11, Zenon DEF ProverInv, Accounted
  <1>4. ASSUME NEW r \in Calls, NEW n \in Names, FinishJob(r, n)
        PROVE  ProverInv'
    <2>1. job[r][n] = "running" /\ UNCHANGED <<service, call, todo>>
      BY <1>4, Zenon DEF FinishJob
    <2>2. PICK v \in Outcomes(r, n) : job' = [job EXCEPT ![r][n] = v]
      BY <1>4, Zenon DEF FinishJob
    <2>3. v \in JobStates /\ v # "none" /\ (n = "proof" /\ call[r].input = "invalid" => v # "ok")
      BY <2>2, Zenon DEF Outcomes, JobStates, Failed
    <2>4. /\ job' \in [Calls -> [Names -> JobStates]]
          /\ \A s \in Calls : s # r => job'[s] = job[s]
          /\ \A m \in Names : m # n => job'[r][m] = job[r][m]
          /\ \A s \in Calls : Accounted(call'[s], job'[s])
      BY ZenonT(40), <1>j, <2>1, <2>2, <2>3
    <2>5. \A i \in DOMAIN todo' : job'[todo'[i][1]][todo'[i][2]] = "queued"
      <3> SUFFICES ASSUME NEW i \in DOMAIN todo
                   PROVE  job'[todo[i][1]][todo[i][2]] = "queued"
        BY <2>1, Zenon
      <3>1. todo[i] \in Calls \X Names /\ job[todo[i][1]][todo[i][2]] = "queued"
        BY <1>t
      <3>2. todo[i][1] \in Calls /\ todo[i][2] \in Names
        BY <3>1, Zenon
      <3>3. ~(todo[i][1] = r /\ todo[i][2] = n)
        BY <2>1, <3>1, Zenon
      <3> QED
        BY <2>4, <3>1, <3>2, <3>3, Zenon
    <2>6. ProverTypeOK'
      BY <1>t, <2>1, <2>4, <2>5 DEF ProverTypeOK, CallRecords, Replies
    <2>7. QueuedOnce'
      BY <1>i, <2>1, Zenon DEF QueuedOnce
    <2> QED
      BY <2>4, <2>6, <2>7, Zenon DEF ProverInv, Accounted
  <1>a. ASSUME NEW r \in Calls, NEW a \in Replies, Answer(r, a)
        PROVE  \E c \in CallRecords :
                  /\ c.pc = "answered" /\ c.answer = a
                  /\ c.input = call[r].input /\ c.route = call[r].route
                  /\ call' = [call EXCEPT ![r] = c]
    <2>1. call[r] \in CallRecords
      BY <1>t, Zenon
    <2>2. call' = [call EXCEPT ![r] = Replied(call[r], a)]
      BY <1>t, <1>a, Zenon DEF Answer, Replied
    <2> QED
      BY ZenonT(40), <2>1, <2>2, CallUpdate
  \* An answer with a failure, of a job that ended that way.
  <1>f. ASSUME NEW r \in Calls, NEW n \in Names, job[r][n] \in Failed,
               call[r].pc \in {"proving", "linking"}, Reject(r, Status(job[r][n])),
               UNCHANGED <<service, job, todo>>
        PROVE  ProverInv'
    <2> DEFINE a == [Unanswered EXCEPT !.status = Status(job[r][n])]
    <2>1. /\ Status(job[r][n]) \in {400, 500}
          /\ Status(job[r][n]) = 400 => job[r][n] = "invalid"
          /\ Status(job[r][n]) = 500 => job[r][n] \in {"error", "panic"}
      BY <1>f DEF Status, Failed
    <2>2. a \in Replies /\ a.status = Status(job[r][n])
      BY <1>u, <2>1
    <2>3. Answer(r, a)
      BY <1>f DEF Reject
    <2> HIDE DEF a
    <2>4. PICK c \in CallRecords :
            /\ c.pc = "answered" /\ c.answer = a /\ c.input = call[r].input
            /\ call' = [call EXCEPT ![r] = c]
      BY <1>a, <2>2, <2>3
    <2>5a. Accounted(call[r], job[r])
      BY <1>i
    <2>5. Accounted(c, job[r])
      BY <2>5a, <1>f, <2>1, <2>2, <2>4 DEF Accounted
    <2> QED
      BY ZenonT(40), <1>h, <1>f, <2>4, <2>5
  <1>v. ASSUME NEW r \in Calls, call[r].pc \in {"proving", "linking"}, job[r]["proof"] = "ok"
        PROVE  call[r].input = "valid"
    <2>1. Screen(call[r].input) = 0 /\ call[r].input \in Inputs /\ call[r].input # "invalid"
      BY <1>i, <1>v DEF Accounted
    <2> QED
      BY <2>1, ProverAssumption DEF Screen
  <1>5. ASSUME NEW r \in Calls, Proved(r)
        PROVE  ProverInv'
    <2> DEFINE links == Links(call[r].route)
    <2>1. call[r].pc = "proving" /\ UNCHANGED service
      BY <1>5, Zenon DEF Proved
    <2>2. CASE /\ job[r]["proof"] = "ok" /\ links = << >>
               /\ Answer(r, [status |-> 200, hint |-> WithHint(call[r].route), links |-> {}])
               /\ UNCHANGED <<job, todo>>
      <3>1. PICK a \in Replies : a.status = 200 /\ a.links = {} /\ Answer(r, a)
        <4>1. WithHint(call[r].route) \in BOOLEAN
          BY DEF WithHint
        <4>2. [status |-> 200, hint |-> WithHint(call[r].route), links |-> {}] \in Replies
          BY <4>1 DEF Replies
        <4> QED
          BY <2>2, <4>2
      <3>2. PICK c \in CallRecords :
              /\ c.pc = "answered" /\ c.answer = a /\ c.input = call[r].input
              /\ c.route = call[r].route /\ call' = [call EXCEPT ![r] = c]
        BY <1>a, <3>1
      <3>3. ReplyLinks(call[r].route) = {}
        BY <2>2, LinksFillReply, Zenon
      <3>4. call[r].input = "valid"
        BY <1>v, <2>1, <2>2, Zenon
      <3>5a. Accounted(call[r], job[r])
        BY <1>i
      <3>5. Accounted(c, job[r])
        BY <3>5a, <2>1, <2>2, <3>1, <3>2, <3>3, <3>4 DEF Accounted
      <3> QED
        BY ZenonT(40), <1>h, <2>1, <2>2, <3>2, <3>5
    <2>3. CASE /\ job[r]["proof"] = "ok" /\ links # << >>
               /\ call' = [call EXCEPT ![r].pc = "linking"]
               /\ Spawn(r, [i \in DOMAIN links |-> links[i].name])
      <3> DEFINE c == Moved(call[r], "linking")
                 names == [i \in DOMAIN links |-> links[i].name]
      <3>1. call' = [call EXCEPT ![r] = c]
        BY <1>t, <2>3, Zenon DEF Moved
      <3>2. /\ c \in CallRecords /\ c.pc = "linking" /\ c.input = call[r].input
            /\ c.answer = call[r].answer
        BY <1>t, <1>u, CallUpdate
      <3>3. /\ links \in Seq(Slots) /\ \A i \in DOMAIN links : links[i].name \in Names \ {"proof"}
            /\ \A i, k \in DOMAIN links : links[i].name = links[k].name => i = k
        BY LinksFillReply, Zenon
      <3> HIDE DEF links
      <3>4. /\ names \in Seq(Names) /\ DOMAIN names = DOMAIN links
            /\ \A i \in DOMAIN links : names[i] = links[i].name
        <4>1. Len(links) \in Nat /\ DOMAIN links = 1..Len(links)
          BY <3>3
        <4> QED
          BY <3>3, <4>1
      <3>5. Spawn(r, names)
        BY <2>3
      <3> HIDE DEF c, names
      <3>6. \A n \in Names \ {"proof"} : job[r][n] = "none"
        BY <1>i, <2>1 DEF Accounted
      <3>7. /\ \A i, k \in DOMAIN names : names[i] = names[k] => i = k
            /\ \A i \in DOMAIN names : job[r][names[i]] = "none"
            /\ "proof" \notin Range(names)
        BY <3>3, <3>4, <3>6 DEF Range
      <3>8. \A n \in Names : job'[r][n] = IF n \in Range(names) THEN "queued" ELSE job[r][n]
        BY <1>i, <3>4, <3>5, <3>7, SpawnQueues
      <3>9. job'[r]["proof"] = "ok"
        BY <1>p, <2>3, <3>7, <3>8, Zenon
      <3>10a. Accounted(call[r], job[r])
        BY <1>i
      <3>10. Accounted(c, job'[r])
        BY <3>10a, <2>1, <2>3, <3>2, <3>9 DEF Accounted
      <3> QED
        BY <1>w, <2>1, <3>1, <3>2, <3>4, <3>5, <3>7, <3>10, Zenon
    <2>4. CASE /\ job[r]["proof"] \in Failed /\ Reject(r, Status(job[r]["proof"]))
               /\ UNCHANGED <<job, todo>>
      BY <1>f, <1>p, <2>1, <2>4, Zenon
    <2> QED
      BY <1>5, <2>2, <2>3, <2>4, Zenon DEF Proved
  <1>6. ASSUME NEW r \in Calls, Linked(r)
        PROVE  ProverInv'
    <2> DEFINE links == Range(Links(call[r].route))
    <2>1. call[r].pc = "linking" /\ UNCHANGED <<service, job, todo>>
      BY <1>6, Zenon DEF Linked
    <2>2. links = ReplyLinks(call[r].route) /\ links \subseteq Slots
      <3>1. /\ Links(call[r].route) \in Seq(Slots)
            /\ Range(Links(call[r].route)) = ReplyLinks(call[r].route)
        BY LinksFillReply, Zenon
      <3> QED
        BY <3>1 DEF Range
    <2>3. \A l \in Slots : l.name \in Names
      BY DEF Slots, Names
    <2>4. CASE /\ AllLinked(r, links)
               /\ Answer(r, [status |-> 200, hint |-> FALSE, links |-> links])
      <3> DEFINE a == [status |-> 200, hint |-> FALSE, links |-> links]
      <3>1. a \in Replies /\ a.status = 200 /\ a.links = links /\ Answer(r, a)
        BY <2>2, <2>4 DEF Replies
      <3>2. \A l \in links : job[r][l.name] = "ok"
        BY <2>4, Zenon DEF AllLinked
      <3> HIDE DEF links, a
      <3>3. PICK c \in CallRecords :
              /\ c.pc = "answered" /\ c.answer = a /\ c.input = call[r].input
              /\ c.route = call[r].route /\ call' = [call EXCEPT ![r] = c]
        BY <1>a, <3>1
      <3>4. job[r]["proof"] = "ok"
        BY <1>i, <2>1, Zenon DEF Accounted
      <3>5. call[r].input = "valid"
        BY <1>v, <2>1, <3>4, Zenon
      <3>6a. Accounted(call[r], job[r])
        BY <1>i
      <3>6. Accounted(c, job[r])
        BY <3>6a, <2>1, <2>2, <3>1, <3>2, <3>3, <3>4, <3>5 DEF Accounted
      <3> QED
        BY ZenonT(40), <1>h, <2>1, <3>3, <3>6
    <2>5. ASSUME NEW l \in links, job[r][l.name] \in Failed, Reject(r, Status(job[r][l.name]))
          PROVE  ProverInv'
      BY <1>f, <2>1, <2>2, <2>3, <2>5, Zenon
    <2> QED
      BY <1>6, <2>4, <2>5, Zenon DEF Linked
  <1>7. ASSUME NEW r \in Calls, Disconnect(r)
        PROVE  ProverInv'
    <2> DEFINE c == Moved(call[r], "gone")
    <2>1. /\ call[r].pc \in {"proving", "linking"} /\ UNCHANGED <<service, job, todo>>
          /\ call' = [call EXCEPT ![r].pc = "gone"]
      BY <1>7 DEF Disconnect
    <2>2. call' = [call EXCEPT ![r] = c]
      BY <1>t, <2>1, Zenon DEF Moved
    <2>3. /\ c \in CallRecords /\ c.pc = "gone" /\ c.input = call[r].input
          /\ c.answer = call[r].answer /\ c.route = call[r].route
      BY <1>t, <1>u, CallUpdate
    <2> HIDE DEF c
    <2>4a. Accounted(call[r], job[r])
      BY <1>i
    <2>4. Accounted(c, job[r])
      BY <2>4a, <2>1, <2>3 DEF Accounted
    <2> QED
      BY <1>h, <2>1, <2>2, <2>3, <2>4, Zenon
  <1>8. CASE UNCHANGED proverVars
    <2>1. UNCHANGED <<service, call, job, todo>>
      BY <1>8 DEF proverVars
    <2>2. ProverTypeOK' /\ QueuedOnce'
      BY <1>i, <2>1 DEF ProverTypeOK, QueuedOnce
    <2>3. \A r \in Calls : Accounted(call'[r], job'[r])
      BY <1>i, <2>1
    <2> QED
      BY <2>2, <2>3, Zenon DEF ProverInv, Accounted
  <1> QED
    BY <1>1, <1>2, <1>3, <1>4, <1>5, <1>6, <1>7, <1>8, Zenon DEF ProverNext, Finishes, Handles

\* No request has arrived.
LEMMA ProverStart == ProverInit => ProverInv
  <1> SUFFICES ASSUME ProverInit PROVE ProverInv
    OBVIOUS
  <1>1. ProverTypeOK
    BY DEF ProverInit, ProverTypeOK, NoCall, Unanswered, JobStates
  <1>2. QueuedOnce
    BY DEF ProverInit, QueuedOnce
  <1>3. \A r \in Calls : Accounted(call[r], job[r])
    BY DEF ProverInit, Accounted, NoCall, Unanswered, Names
  <1> QED
    BY <1>1, <1>2, <1>3 DEF ProverInv

\* For every number of requests and blocking threads, whatever fails and whoever
\* goes away: a proof that is handed out is complete and its links are in their
\* slots, a failure is that of one of the request's own jobs, and a settlement is
\* linked only once it is proved (the handlers, run_blocking, try_join!).
THEOREM ProofsAreJustified == ProverSpec => []ProofsJustified
  <1>1. ProverInv => ProofsJustified
    BY DEF ProverInv, Accounted, ProofsJustified, ProofsComplete, FailuresOwned, LinksFollowProof
  <1>2. ProverInv /\ [ProverNext]_proverVars => ProverInv'
    BY ProverStep
  <1> QED
    BY <1>1, <1>2, ProverStart, PTL DEF ProverSpec

----------------------------------------------------------------------------
(* The compliance server *)

\* A verdict rests on an assessment: it was made when or before the verdict was
\* stored, which is not in the future, and allows it.
Justified(e) ==
    /\ e.assessed \in Nat /\ e.assessed <= e.created /\ e.created <= now
    /\ e.ok <=> e.level \in {"Low", "Medium", "Other"}

\* So do the entries of the table and the answers; an assessment on its way was
\* made in the past.
Assessed ==
    /\ \A w \in Wallets : table[w] # NoEntry => Justified(table[w])
    /\ \A r \in Requests : req[r].pc = "done" => Justified(req[r].entry)
    /\ \A r \in Requests : req[r].pc = "assessed" =>
            /\ req[r].entry.level \in Risks
            /\ req[r].entry.assessed \in Nat /\ req[r].entry.assessed <= now

RequestRecords ==
    [pc : {"idle", "arrived", "blocked", "register", "query", "assessed", "done", "failed"},
     wallet : Wallets, entry : Entries]

ComplianceInv == ComplianceTypeOK /\ Assessed

\* A lookup answers with an entry of the table that has not expired, or goes on.
LEMMA LookupAnswers ==
    ASSUME NEW r \in Requests, ComplianceInv, Lookup(r), req[r].pc # "done"
    PROVE  /\ req' \in [Requests -> RequestRecords]
           /\ \A s \in Requests : s # r => req'[s] = req[s]
           /\ req'[r].pc # "assessed"
           /\ req'[r].pc = "done" =>
                Justified(req'[r].entry) /\ now - req'[r].entry.created <= Expiry
  <1>t. /\ now \in Nat /\ Expiry \in Nat
        /\ table \in [Wallets -> Entries]
        /\ req \in [Requests -> RequestRecords]
    BY ComplianceAssumption DEF ComplianceInv, ComplianceTypeOK, RequestRecords
  <1>1. table[req[r].wallet] \in Entries /\ req[r].wallet \in Wallets
    BY <1>t, Zenon DEF RequestRecords
  <1>2. CASE table[req[r].wallet] # NoEntry /\ ~Expired(table[req[r].wallet])
    <2>1. req' = [req EXCEPT ![r].pc = "done", ![r].entry = table[req[r].wallet]]
      BY <1>2, Zenon DEF Lookup
    <2>2. Justified(table[req[r].wallet])
      BY <1>1, <1>2, Zenon DEF ComplianceInv, Assessed
    <2>3. table[req[r].wallet].created \in Int
      BY <1>1 DEF Entries
    <2>4. now - table[req[r].wallet].created <= Expiry
      BY <1>t, <2>3, <1>2 DEF Expired
    <2>5. req'[r].pc = "done" /\ req'[r].entry = table[req[r].wallet]
      BY <1>t, <2>1, Zenon DEF RequestRecords
    <2>6. req' \in [Requests -> RequestRecords]
      BY ZenonT(40), <1>t, <1>1, <2>1 DEF RequestRecords
    <2>7. \A s \in Requests : s # r => req'[s] = req[s]
      BY <1>t, <2>1, Zenon
    <2> QED
      BY <2>2, <2>4, <2>5, <2>6, <2>7, Zenon
  <1>3. CASE ~(table[req[r].wallet] # NoEntry /\ ~Expired(table[req[r].wallet]))
    <2>1. req' = [req EXCEPT ![r].pc = "register"]
      BY <1>3, Zenon DEF Lookup
    <2>2. req' \in [Requests -> RequestRecords] /\ req'[r].pc = "register"
      BY <1>t, <2>1 DEF RequestRecords
    <2>3. \A s \in Requests : s # r => req'[s] = req[s]
      BY <1>t, <2>1
    <2> QED
      BY <2>2, <2>3, Zenon
  <1> QED
    BY <1>2, <1>3, Zenon

\* Every step keeps the invariant, and the step that answers reads a verdict no
\* older than the expiration period.
LEMMA ComplianceStep ==
    ASSUME ComplianceInv, [ComplianceNext]_complianceVars
    PROVE  ComplianceInv' /\ (AnswersFresh \/ UNCHANGED complianceVars)
  <1>t. /\ now \in 0..MaxTime /\ now \in Nat /\ Expiry \in Nat /\ MaxTime \in Nat
        /\ table \in [Wallets -> Entries]
        /\ req \in [Requests -> RequestRecords]
    BY ComplianceAssumption DEF ComplianceInv, ComplianceTypeOK, RequestRecords
  <1>n. NoRequest \in RequestRecords /\ NoRequest.pc = "idle" /\ NoEntry \in Entries
    <2>1. PICK w \in Wallets : TRUE
      BY ComplianceAssumption
    <2>2. (CHOOSE v \in Wallets : TRUE) \in Wallets
      BY <2>1
    <2>3. NoEntry \in Entries
      BY <1>t DEF NoEntry, Entries
    <2> QED
      BY <2>2, <2>3, Zenon DEF NoRequest, RequestRecords
  \* Steps of one request that store nothing.
  <1>k. ASSUME NEW r \in Requests, UNCHANGED <<now, table>>, req' \in [Requests -> RequestRecords],
               \A s \in Requests : s # r => req'[s] = req[s],
               req[r].pc # "done",
               req'[r].pc = "done" =>
                    Justified(req'[r].entry) /\ now - req'[r].entry.created <= Expiry,
               req'[r].pc = "assessed" =>
                    /\ req'[r].entry.level \in Risks
                    /\ req'[r].entry.assessed \in Nat /\ req'[r].entry.assessed <= now
        PROVE  ComplianceInv' /\ AnswersFresh
    <2>1. ComplianceTypeOK'
      BY <1>t, <1>k, Zenon DEF ComplianceTypeOK, RequestRecords
    <2>2. Assessed'
      BY <1>k DEF ComplianceInv, Assessed, Justified
    <2>3. AnswersFresh
      BY <1>k, Zenon DEF AnswersFresh
    <2> QED
      BY <2>1, <2>2, <2>3 DEF ComplianceInv
  <1>1. CASE Tick
    <2>1. now' = now + 1 /\ now' \in 0..MaxTime /\ UNCHANGED <<table, req>>
      BY <1>1, <1>t DEF Tick
    <2>2. ComplianceTypeOK'
      BY <1>t, <2>1, Zenon DEF ComplianceTypeOK, RequestRecords
    <2>3. \A w \in Wallets : table[w].created \in Int
      BY <1>t DEF Entries
    <2>4. \A r \in Requests : req[r].entry.created \in Int /\ req[r].entry.assessed \in Int
      BY <1>t DEF Entries, RequestRecords
    <2>5. Assessed'
      BY <1>t, <2>1, <2>3, <2>4 DEF ComplianceInv, Assessed, Justified
    <2>6. AnswersFresh
      BY <2>1, Zenon DEF AnswersFresh
    <2> QED
      BY <2>2, <2>5, <2>6 DEF ComplianceInv
  <1>2. ASSUME NEW r \in Requests, ArriveRequest(r)
        PROVE  ComplianceInv' /\ AnswersFresh
    <2>1. PICK w \in Wallets : req' = [req EXCEPT ![r].pc = "arrived", ![r].wallet = w]
      BY <1>2, Zenon DEF ArriveRequest
    <2>2. req[r].pc # "done" /\ UNCHANGED <<now, table>>
      BY <1>2 DEF ArriveRequest
    <2>3. req' \in [Requests -> RequestRecords] /\ req'[r].pc = "arrived"
      BY ZenonT(40), <1>t, <2>1 DEF RequestRecords
    <2>4. \A s \in Requests : s # r => req'[s] = req[s]
      BY <1>t, <2>1, Zenon
    <2> QED
      BY <1>k, <2>2, <2>3, <2>4, Zenon
  <1>3. ASSUME NEW r \in Requests, Enter(r)
        PROVE  ComplianceInv' /\ AnswersFresh
    <2>1. req[r].pc # "done" /\ UNCHANGED <<now, table>>
      BY <1>3 DEF Enter
    <2>2. CASE Lookup(r)
      BY <1>k, <2>1, <2>2, LookupAnswers, Zenon
    <2>3. CASE req' = [req EXCEPT ![r].pc = "blocked"]
      <3>1. req' \in [Requests -> RequestRecords] /\ req'[r].pc = "blocked"
        BY <1>t, <2>3 DEF RequestRecords
      <3>2. \A s \in Requests : s # r => req'[s] = req[s]
        BY <1>t, <2>3
      <3> QED
        BY <1>k, <2>1, <3>1, <3>2, Zenon
    <2> QED
      BY <1>3, <2>2, <2>3, Zenon DEF Enter
  <1>4. ASSUME NEW r \in Requests, Acquire(r)
        PROVE  ComplianceInv' /\ AnswersFresh
    <2>1. req[r].pc # "done" /\ UNCHANGED <<now, table>> /\ Lookup(r)
      BY <1>4 DEF Acquire
    <2> QED
      BY <1>k, <2>1, LookupAnswers, Zenon
  <1>5. ASSUME NEW r \in Requests, GetTimeout(r) \/ Register(r)
        PROVE  ComplianceInv' /\ AnswersFresh
    <2>1. /\ req[r].pc # "done" /\ UNCHANGED <<now, table>>
          /\ \E p \in {"failed", "query"} : req' = [req EXCEPT ![r].pc = p]
      BY <1>5, Zenon DEF GetTimeout, Register
    <2>2. req' \in [Requests -> RequestRecords] /\ req'[r].pc \in {"failed", "query"}
      BY <1>t, <2>1 DEF RequestRecords
    <2>3. \A s \in Requests : s # r => req'[s] = req[s]
      BY <1>t, <2>1
    <2> QED
      BY <1>k, <2>1, <2>2, <2>3, Zenon
  <1>6. ASSUME NEW r \in Requests, Assess(r)
        PROVE  ComplianceInv' /\ AnswersFresh
    <2>1. PICK level \in Risks :
            req' = [req EXCEPT ![r].pc = "assessed",
                               ![r].entry = [NoEntry EXCEPT !.level = level, !.assessed = now]]
      BY <1>6, Zenon DEF Assess
    <2>2. req[r].pc # "done" /\ UNCHANGED <<now, table>>
      BY <1>6 DEF Assess
    <2>3. [NoEntry EXCEPT !.level = level, !.assessed = now] \in Entries
      <3>1. now \in -1..MaxTime /\ level \in Risks \union {"none"}
        BY <1>t, <2>1
      <3> QED
        BY <1>n, <3>1, Zenon DEF Entries
    <2>4. req' \in [Requests -> RequestRecords]
      BY <1>t, <2>1, <2>3, Zenon DEF RequestRecords
    <2>5. /\ req'[r].pc = "assessed" /\ req'[r].entry.level = level
          /\ req'[r].entry.assessed = now
      BY <1>t, <2>1, Zenon DEF RequestRecords, NoEntry
    <2>6. \A s \in Requests : s # r => req'[s] = req[s]
      BY <1>t, <2>1, Zenon
    <2> QED
      BY <1>k, <1>t, <2>1, <2>2, <2>4, <2>5, <2>6
  <1>7. ASSUME NEW r \in Requests, ReceiveRisk(r)
        PROVE  ComplianceInv' /\ AnswersFresh
    <2> DEFINE e == Entry(req[r].entry.level, req[r].entry.assessed)
    <2>1. /\ req[r].pc = "assessed" /\ now' = now
          /\ table' = [table EXCEPT ![req[r].wallet] = e]
          /\ req' = [req EXCEPT ![r].pc = "done", ![r].entry = e]
      BY <1>7, Zenon DEF ReceiveRisk, Upsert
    <2>2. /\ req[r].entry.level \in Risks
          /\ req[r].entry.assessed \in Nat /\ req[r].entry.assessed <= now
      BY <2>1, Zenon DEF ComplianceInv, Assessed
    <2>3. e \in Entries /\ e.created = now /\ e.assessed = req[r].entry.assessed
      BY <1>t, <2>2 DEF Entry, Entries, Compliant
    <2>4. e.ok <=> e.level \in {"Low", "Medium", "Other"}
      BY <2>2, Zenon DEF Entry, Compliant, Risks
    <2>5. Justified(e)
      BY <1>t, <2>2, <2>3, <2>4 DEF Justified
    <2> HIDE DEF e
    <2>6. table' \in [Wallets -> Entries] /\ \A w \in Wallets : table'[w] = e \/ table'[w] = table[w]
      BY <1>t, <2>1, <2>3, Zenon
    <2>7. req' \in [Requests -> RequestRecords]
      BY ZenonT(40), <1>t, <2>1, <2>3 DEF RequestRecords
    <2>8. /\ req'[r].pc = "done" /\ req'[r].entry = e
          /\ \A s \in Requests : s # r => req'[s] = req[s]
      BY <1>t, <2>1, Zenon DEF RequestRecords
    <2>9. ComplianceTypeOK'
      BY <1>t, <2>1, <2>6, <2>7, Zenon DEF ComplianceTypeOK, RequestRecords
    <2>10. Assessed'
      <3>1. \A x : Justified(x)' <=> Justified(x)
        BY <2>1, Zenon DEF Justified
      <3>2. \A w \in Wallets : table'[w] # NoEntry => Justified(table'[w])
        BY <2>5, <2>6, Zenon DEF ComplianceInv, Assessed
      <3>3. \A s \in Requests : req'[s].pc = "done" => Justified(req'[s].entry)
        BY <2>5, <2>8, Zenon DEF ComplianceInv, Assessed
      <3>4. \A s \in Requests : req'[s].pc = "assessed" =>
                /\ req'[s].entry.level \in Risks
                /\ req'[s].entry.assessed \in Nat /\ req'[s].entry.assessed <= now
        BY <2>8, Zenon DEF ComplianceInv, Assessed
      <3> QED
        BY <2>1, <3>1, <3>2, <3>3, <3>4, Zenon DEF Assessed, Justified
    <2>11. AnswersFresh
      BY <1>t, <2>3, <2>8 DEF AnswersFresh
    <2> QED
      BY <2>9, <2>10, <2>11 DEF ComplianceInv
  <1>8. ASSUME NEW r \in Requests, Fail(r)
        PROVE  ComplianceInv' /\ AnswersFresh
    <2>1. /\ req[r].pc # "done" /\ UNCHANGED <<now, table>>
          /\ req' = [req EXCEPT ![r].pc = "failed", ![r].entry = NoEntry]
      BY <1>8, Zenon DEF Fail
    <2>2. req' \in [Requests -> RequestRecords] /\ req'[r].pc = "failed"
      BY <1>t, <1>n, <2>1, Zenon DEF RequestRecords
    <2>3. \A s \in Requests : s # r => req'[s] = req[s]
      BY <1>t, <2>1, Zenon
    <2> QED
      BY <1>k, <2>1, <2>2, <2>3, Zenon
  <1>9. ASSUME NEW r \in Requests, Return(r)
        PROVE  ComplianceInv' /\ AnswersFresh
    <2>1. UNCHANGED <<now, table>> /\ req' = [req EXCEPT ![r] = NoRequest]
      BY <1>9 DEF Return
    <2>2. /\ req' \in [Requests -> RequestRecords] /\ req'[r].pc = "idle"
          /\ \A s \in Requests : s # r => req'[s] = req[s]
      BY <1>t, <1>n, <2>1, Zenon
    <2>3. ComplianceTypeOK'
      BY <1>t, <2>1, <2>2, Zenon DEF ComplianceTypeOK, RequestRecords
    <2>4. Assessed'
      BY <2>1, <2>2 DEF ComplianceInv, Assessed, Justified
    <2>5. AnswersFresh
      BY <2>1, <2>2, Zenon DEF AnswersFresh
    <2> QED
      BY <2>3, <2>4, <2>5 DEF ComplianceInv
  <1>10. CASE UNCHANGED complianceVars
    <2>1. ComplianceTypeOK'
      BY <1>10, Zenon DEF ComplianceInv, ComplianceTypeOK, complianceVars
    <2>2. Assessed'
      BY <1>10, Zenon DEF ComplianceInv, Assessed, Justified, complianceVars
    <2> QED
      BY <1>10, <2>1, <2>2 DEF ComplianceInv
  <1> QED
    BY <1>1, <1>2, <1>3, <1>4, <1>5, <1>6, <1>7, <1>8, <1>9, <1>10, Zenon
    DEF ComplianceNext, Proceed, Wait

\* The first state has no entry and no request.
LEMMA ComplianceStart == ComplianceInit => ComplianceInv
  <1> SUFFICES ASSUME ComplianceInit PROVE ComplianceInv
    OBVIOUS
  <1>1. (CHOOSE w \in Wallets : TRUE) \in Wallets
    BY ComplianceAssumption
  <1>2. NoEntry \in Entries
    BY ComplianceAssumption DEF NoEntry, Entries
  <1>3. ComplianceTypeOK
    BY <1>1, <1>2, ComplianceAssumption DEF ComplianceInit, ComplianceTypeOK, NoRequest
  <1>4. Assessed
    BY Zenon DEF ComplianceInit, Assessed, NoRequest
  <1> QED
    BY <1>3, <1>4 DEF ComplianceInv

\* An answer rests on an assessment that allows it and on a verdict stored no
\* longer ago than the expiration period, whoever stored it, for every number of
\* requests, wallets, threads and connections (handle_req).
THEOREM AnswersAreJustified == ComplianceSpec => AnswersJustified
  <1>1. ComplianceInv => AnswersRestOnAssessment
    <2> SUFFICES ASSUME ComplianceInv, NEW r \in Requests, req[r].pc = "done"
                 PROVE  /\ req[r].entry.assessed \in 0..req[r].entry.created
                        /\ req[r].entry.ok <=> req[r].entry.level \in {"Low", "Medium", "Other"}
      BY Zenon DEF AnswersRestOnAssessment
    <2>1. Justified(req[r].entry)
      BY Zenon DEF ComplianceInv, Assessed
    <2>2. req[r].entry.created \in Int
      BY DEF ComplianceInv, ComplianceTypeOK, Entries
    <2> QED
      BY <2>1, <2>2 DEF Justified
  <1>2. ComplianceInv /\ [ComplianceNext]_complianceVars =>
            ComplianceInv' /\ [AnswersFresh /\ AnswersRestOnAssessment']_complianceVars
    BY <1>1, ComplianceStep, PTL
  <1> QED
    BY <1>2, ComplianceStart, PTL DEF ComplianceSpec, AnswersJustified

----------------------------------------------------------------------------
(* The indexer *)

TaskRecords ==
    [group : Groups \union {NoGroup}, batch : Seq(Message), pc : {"free", "handle", "delete"}]

\* A task that is not free has messages left, which its group was sent.
IsTask(x) ==
    /\ x \in TaskRecords
    /\ IF x.pc = "free" THEN x = NoTask
       ELSE /\ x.group \in Groups /\ x.batch # << >>
            /\ Range(x.batch) \subseteq Range(Sent[x.group])

\* A registration that is about to be deleted is in the database.
Carried(x, done) ==
    x.pc = "delete" /\ Head(x.batch).kind = "seed" => Head(x.batch).account \in done

\* While no task of a group outlived its messages' timeout, a task keeps the
\* group in flight, and it is the only one.
Alone ==
    \A g \in Groups \ late : \A t \in Tasks :
        task[t].group = g =>
            g \in flight /\ \A u \in Tasks : task[u].group = g => u = t

IndexerInv ==
    /\ IndexerTypeOK /\ Alone /\ DeletedMeansIndexed
    /\ \A t \in Tasks : Carried(task[t], seeds)

\* A queue loses at most the message that is deleted.
LEMMA WithoutOne ==
    ASSUME NEW q \in Seq(Message), NEW m
    PROVE  /\ Without(q, m) \in Seq(Message)
           /\ Range(Without(q, m)) \subseteq Range(q)
           /\ Range(q) \ {m} \subseteq Range(Without(q, m))
  <1>1. CASE m \notin Range(q)
    BY <1>1 DEF Without
  <1>2. CASE m \in Range(q)
    <2> DEFINE i == CHOOSE k \in DOMAIN q : q[k] = m
               a == SubSeq(q, 1, i - 1)
               b == SubSeq(q, i + 1, Len(q))
    <2>1. i \in DOMAIN q /\ q[i] = m
      BY <1>2 DEF Range
    <2> HIDE DEF i
    <2>2. Without(q, m) = a \o b
      BY <1>2, Zenon DEF Without, i
    <2>3. Len(q) \in Nat /\ DOMAIN q = 1..Len(q) /\ \A k \in 1..Len(q) : q[k] \in Message
      OBVIOUS
    <2>4. i \in 1..Len(q)
      BY <2>1, <2>3
    <2>5. /\ a \in Seq(Message) /\ Len(a) = i - 1
          /\ \A k \in 1..(i - 1) : a[k] = q[k]
      <3>1. i - 1 \in Int /\ \A k \in 1..(i - 1) : q[k] \in Message
        BY <2>3, <2>4
      <3>2. /\ a \in Seq(Message)
            /\ Len(a) = IF 1 <= i - 1 THEN (i - 1) - 1 + 1 ELSE 0
            /\ \A k \in 1..((i - 1) - 1 + 1) : a[k] = q[1 + k - 1]
        BY <3>1
      <3> QED
        BY <2>3, <2>4, <3>2
    <2>6. /\ b \in Seq(Message) /\ Len(b) = Len(q) - i
          /\ \A k \in 1..(Len(q) - i) : b[k] = q[i + k]
      <3>1. i + 1 \in Int /\ Len(q) \in Int /\ \A k \in (i + 1)..Len(q) : q[k] \in Message
        BY <2>3, <2>4
      <3>2. /\ b \in Seq(Message)
            /\ Len(b) = IF i + 1 <= Len(q) THEN Len(q) - (i + 1) + 1 ELSE 0
            /\ \A k \in 1..(Len(q) - (i + 1) + 1) : b[k] = q[(i + 1) + k - 1]
        BY <3>1
      <3>l. Len(b) = IF i + 1 <= Len(q) THEN Len(q) - (i + 1) + 1 ELSE 0
        BY <3>2, Zenon
      <3> HIDE DEF b
      <3>3. Len(b) = Len(q) - i /\ Len(q) - (i + 1) + 1 = Len(q) - i
        <4>1. Len(q) \in Nat /\ i \in Nat /\ i <= Len(q)
          BY <2>3, <2>4
        <4> QED
          BY <3>l, <4>1
      <3>4. ASSUME NEW k \in 1..(Len(q) - i)
            PROVE  b[k] = q[i + k]
        <4>1. (i + 1) + k - 1 = i + k
          BY <2>4, <2>3, <3>4
        <4> QED
          BY <3>2, <3>3, <3>4, <4>1, Zenon
      <3> QED
        BY <3>2, <3>3, <3>4, Zenon
    <2> HIDE DEF a, b
    <2>7. /\ a \o b \in Seq(Message) /\ Len(a \o b) = Len(q) - 1
          /\ \A k \in 1..(Len(q) - 1) : (a \o b)[k] = IF k < i THEN q[k] ELSE q[k + 1]
      <3>1. /\ a \o b \in Seq(Message) /\ Len(a \o b) = Len(a) + Len(b)
            /\ \A k \in 1..(Len(a) + Len(b)) :
                  (a \o b)[k] = IF k <= Len(a) THEN a[k] ELSE b[k - Len(a)]
        <4>1. a \in Seq(Message) /\ b \in Seq(Message)
          BY <2>5, <2>6
        <4>2. a \o b \in Seq(Message) /\ Len(a \o b) = Len(a) + Len(b)
          BY <4>1
        <4>3. \A k \in 1..(Len(a) + Len(b)) :
                  (a \o b)[k] = IF k <= Len(a) THEN a[k] ELSE b[k - Len(a)]
          BY <4>1
        <4> QED
          BY <4>2, <4>3, Zenon
      <3>2. Len(a) + Len(b) = Len(q) - 1
        BY <2>3, <2>4, <2>5, <2>6
      <3>3. ASSUME NEW k \in 1..(Len(q) - 1)
            PROVE  (a \o b)[k] = IF k < i THEN q[k] ELSE q[k + 1]
        <4>1. CASE k < i
          BY <2>3, <2>4, <2>5, <3>1, <3>2, <3>3, <4>1
        <4>2. CASE ~(k < i)
          <5>1. k - (i - 1) \in 1..(Len(q) - i) /\ i + (k - (i - 1)) = k + 1
            BY <2>3, <2>4, <3>3, <4>2
          <5>2. (a \o b)[k] = b[k - (i - 1)]
            <6>1. Len(a) = i - 1 /\ k \in 1..(Len(a) + Len(b)) /\ ~(k <= Len(a))
              BY <2>4, <2>5, <3>2, <3>3, <4>2
            <6>2. (a \o b)[k] = b[k - Len(a)]
              BY <3>1, <6>1, Zenon
            <6> QED
              BY <6>1, <6>2
          <5> QED
            BY <2>6, <4>2, <5>1, <5>2, Zenon
        <4> QED
          BY <4>1, <4>2, Zenon
      <3> QED
        BY <3>1, <3>2, <3>3, Zenon
    <2>8. DOMAIN (a \o b) = 1..(Len(q) - 1)
      BY <2>7
    <2>9. Range(a \o b) \subseteq Range(q)
      <3>1. \A k \in 1..(Len(q) - 1) : \E j \in 1..Len(q) : (a \o b)[k] = q[j]
        <4>1. ASSUME NEW k \in 1..(Len(q) - 1)
              PROVE  \E j \in 1..Len(q) : (a \o b)[k] = q[j]
          <5>1. k \in 1..Len(q) /\ k + 1 \in 1..Len(q)
            BY <2>3, <4>1
          <5>2. (a \o b)[k] = q[k] \/ (a \o b)[k] = q[k + 1]
            BY <2>7, <4>1, Zenon
          <5> QED
            BY <5>1, <5>2, Zenon
        <4> QED
          BY <4>1, Zenon
      <3> QED
        BY <2>3, <2>8, <3>1, Zenon DEF Range
    <2>10. ASSUME NEW x \in Range(q), x # m
           PROVE  x \in Range(a \o b)
      <3>1. PICK k \in 1..Len(q) : q[k] = x
        BY <2>3 DEF Range
      <3>2. k # i
        BY <2>1, <2>10, <3>1
      <3>3. CASE k < i
        <4>1. k \in 1..(Len(q) - 1) /\ (a \o b)[k] = x
          BY <2>3, <2>4, <2>7, <3>1, <3>3
        <4> QED
          BY <4>1, <2>8, Zenon DEF Range
      <3>4. CASE k > i
        <4>1. k - 1 \in 1..(Len(q) - 1) /\ ~(k - 1 < i) /\ (k - 1) + 1 = k
          <5>1. Len(q) \in Nat /\ k \in Nat /\ i \in Nat /\ 1 <= i /\ k <= Len(q)
            BY <2>3, <2>4
          <5> QED
            BY <3>4, <5>1
        <4>2. (a \o b)[k - 1] = x
          <5>1. (a \o b)[k - 1] = q[(k - 1) + 1]
            BY <2>7, <4>1, Zenon
          <5> QED
            BY <3>1, <4>1, <5>1
        <4> QED
          BY <4>1, <4>2, <2>8, Zenon DEF Range
      <3> QED
        BY <2>3, <2>4, <3>1, <3>2, <3>3, <3>4
    <2> QED
      BY <2>2, <2>7, <2>9, <2>10, Zenon
  <1> QED
    BY <1>1, <1>2, Zenon

\* What is left of a task is a task of its group, or none.
LEMMA RemainderIsTask ==
    ASSUME NEW t \in Tasks, IndexerTypeOK, task[t].pc # "free"
    PROVE  /\ IsTask(Remainder(t)) /\ Remainder(t).pc # "delete"
           /\ Remainder(t).group \in {NoGroup, task[t].group}
  <1>1. /\ task[t] \in TaskRecords /\ task[t].group \in Groups /\ task[t].batch # << >>
        /\ task[t].batch \in Seq(Message)
        /\ Range(task[t].batch) \subseteq Range(Sent[task[t].group])
    BY Zenon DEF IndexerTypeOK, TaskRecords
  <1>2. CASE Len(task[t].batch) = 1
    BY <1>2 DEF Remainder, IsTask, NoTask, TaskRecords
  <1>3. CASE Len(task[t].batch) # 1
    <2> DEFINE b == Tail(task[t].batch)
    <2>1. /\ b \in Seq(Message) /\ Len(b) = Len(task[t].batch) - 1
          /\ \A i \in 1..Len(b) : b[i] = task[t].batch[i + 1]
      BY <1>1
    <2>2. Len(task[t].batch) \in Nat /\ DOMAIN task[t].batch = 1..Len(task[t].batch)
      BY <1>1
    <2>3. Len(b) \in Nat /\ DOMAIN b = 1..Len(b)
      BY <2>1
    <2> HIDE DEF b
    <2>4. Range(b) \subseteq Range(task[t].batch)
      <3>1. \A i \in 1..Len(b) : i + 1 \in 1..Len(task[t].batch)
        <4>1. Len(b) = Len(task[t].batch) - 1
          BY <2>1, Zenon
        <4> QED
          BY <2>2, <2>3, <4>1
      <3> QED
        BY <2>1, <2>2, <2>3, <3>1, Zenon DEF Range
    <2>5. Len(task[t].batch) # 0
      BY <1>1
    <2>6. b # << >>
      <3>1. Len(b) # 0
        BY <1>3, <2>1, <2>2
      <3> QED
        BY <3>1
    <2>7. Remainder(t) = [task[t] EXCEPT !.batch = b, !.pc = "handle"]
      BY <1>3 DEF Remainder, b
    <2>8. /\ Remainder(t) \in TaskRecords /\ Remainder(t).batch = b
          /\ Remainder(t).pc = "handle" /\ Remainder(t).group = task[t].group
      BY <1>1, <2>1, <2>7, Zenon DEF TaskRecords
    <2> QED
      BY <1>1, <2>4, <2>6, <2>8, Zenon DEF IsTask
  <1> QED
    BY <1>2, <1>3, Zenon

\* The first messages of a queue are a batch of its group.
LEMMA PrefixIsBatch ==
    ASSUME NEW q \in Seq(Message), q # << >>
    PROVE  /\ Prefix(q, MaxRecv) \in Seq(Message) /\ Prefix(q, MaxRecv) # << >>
           /\ Range(Prefix(q, MaxRecv)) \subseteq Range(q)
  <1> DEFINE n == IF MaxRecv < Len(q) THEN MaxRecv ELSE Len(q)
             p == SubSeq(q, 1, n)
  <1>1. Len(q) \in Nat /\ DOMAIN q = 1..Len(q) /\ \A k \in 1..Len(q) : q[k] \in Message
    OBVIOUS
  <1>2. Len(q) # 0
    OBVIOUS
  <1>3. n \in 1..Len(q)
    BY <1>1, <1>2, IndexerAssumption
  <1> HIDE DEF n
  <1>4. n \in Int /\ \A k \in 1..n : q[k] \in Message
    BY <1>1, <1>3
  <1>5. /\ p \in Seq(Message) /\ Len(p) = IF 1 <= n THEN n - 1 + 1 ELSE 0
        /\ \A k \in 1..(n - 1 + 1) : p[k] = q[1 + k - 1]
    BY <1>4
  <1> HIDE DEF p
  <1>6. Len(p) = n /\ \A k \in 1..n : p[k] = q[k]
    BY <1>3, <1>5
  <1>7. p # << >>
    BY <1>3, <1>6
  <1>8. DOMAIN p = 1..n
    BY <1>5, <1>6
  <1>9. Range(p) \subseteq Range(q)
    BY <1>1, <1>3, <1>6, <1>8 DEF Range
  <1> QED
    BY <1>5, <1>7, <1>9, Zenon DEF Prefix, p, n

\* Every step of the queue or a task keeps the invariant.
LEMMA IndexerStep ==
    ASSUME IndexerInv, [IndexerNext]_indexerVars
    PROVE  IndexerInv'
  <1>t. /\ queue \in [Groups -> Seq(Message)] /\ task \in [Tasks -> TaskRecords]
        /\ flight \subseteq Groups /\ late \subseteq Groups
        /\ \A g \in Groups : Range(queue[g]) \subseteq Range(Sent[g])
        /\ \A t \in Tasks : IsTask(task[t])
    BY Zenon DEF IndexerInv, IndexerTypeOK, IsTask, TaskRecords
  <1>i. Alone /\ DeletedMeansIndexed /\ \A t \in Tasks : Carried(task[t], seeds)
    BY DEF IndexerInv
  <1>g. NoGroup \notin Groups
    BY IndexerAssumption
  \* A step of one task, whose queue may lose the message in hand.
  <1>k. ASSUME NEW t \in Tasks, NEW x, task[t].pc # "free", task' = [task EXCEPT ![t] = x],
               IsTask(x), x.group \in {NoGroup, task[t].group}, Carried(x, seeds'),
               seeds \subseteq seeds', UNCHANGED <<flight, late>>,
               queue' \in [Groups -> Seq(Message)],
               \A g \in Groups : Range(queue'[g]) \subseteq Range(queue[g]),
               \A g \in Groups : \A m \in Range(queue[g]) \ Range(queue'[g]) :
                    m.kind = "seed" => m.account \in seeds'
        PROVE  IndexerInv'
    <2>1. /\ task' \in [Tasks -> TaskRecords] /\ task'[t] = x
          /\ \A u \in Tasks : u # t => task'[u] = task[u]
      BY <1>t, <1>k, Zenon DEF IsTask
    <2>2. \A u \in Tasks : IsTask(task'[u])
      BY <1>t, <1>k, <2>1, Zenon
    <2>3. IndexerTypeOK'
      BY <1>t, <1>k, <2>1, <2>2, Zenon DEF IndexerTypeOK, IsTask, TaskRecords
    <2>4. Alone'
      BY <1>i, <1>g, <1>k, <2>1 DEF Alone
    <2>5. DeletedMeansIndexed'
      BY <1>i, <1>k, Zenon DEF DeletedMeansIndexed
    <2>6. \A u \in Tasks : Carried(task'[u], seeds')
      BY <1>i, <1>k, <2>1, Zenon DEF Carried
    <2> QED
      BY <2>3, <2>4, <2>5, <2>6, Zenon DEF IndexerInv, Carried
  <1>1. ASSUME NEW g \in Groups, ReceiveMessages(g)
        PROVE  IndexerInv'
    <2>1. PICK t \in Tasks :
            /\ task[t] = NoTask
            /\ task' = [task EXCEPT ![t] =
                    [group |-> g, batch |-> Prefix(queue[g], MaxRecv), pc |-> "handle"]]
      BY <1>1, Zenon DEF ReceiveMessages
    <2>2. /\ queue[g] # << >> /\ g \notin flight /\ flight' = flight \union {g}
          /\ UNCHANGED <<queue, seeds, late>>
      BY <1>1, Zenon DEF ReceiveMessages
    <2> DEFINE x == [group |-> g, batch |-> Prefix(queue[g], MaxRecv), pc |-> "handle"]
    <2>3. queue[g] \in Seq(Message)
      BY <1>t
    <2>4. IsTask(x) /\ x.group = g /\ x.pc = "handle"
      <3>1. /\ Prefix(queue[g], MaxRecv) \in Seq(Message) /\ Prefix(queue[g], MaxRecv) # << >>
            /\ Range(Prefix(queue[g], MaxRecv)) \subseteq Range(Sent[g])
        BY <1>t, <2>2, <2>3, PrefixIsBatch, Zenon
      <3> QED
        BY <3>1, Zenon DEF IsTask, TaskRecords
    <2>5. task' = [task EXCEPT ![t] = x]
      BY <2>1, Zenon
    <2> HIDE DEF x
    <2>6. /\ task' \in [Tasks -> TaskRecords] /\ task'[t] = x
          /\ \A u \in Tasks : u # t => task'[u] = task[u]
      BY <1>t, <2>4, <2>5, Zenon DEF IsTask
    <2>7. \A u \in Tasks : IsTask(task'[u])
      BY <1>t, <2>4, <2>6, Zenon
    <2>8. IndexerTypeOK'
      BY <1>t, <2>2, <2>6, <2>7, Zenon DEF IndexerTypeOK, IsTask, TaskRecords
    <2>9. Alone'
      BY <1>i, <2>2, <2>4, <2>6 DEF Alone
    <2>10. DeletedMeansIndexed'
      BY <1>i, <2>2, Zenon DEF DeletedMeansIndexed
    <2>11. \A u \in Tasks : Carried(task'[u], seeds')
      BY <1>i, <2>2, <2>4, <2>6, Zenon DEF Carried
    <2> QED
      BY <2>8, <2>9, <2>10, <2>11, Zenon DEF IndexerInv, Carried
  <1>2. ASSUME NEW g \in Groups, Expire(g)
        PROVE  IndexerInv'
    <2>1. /\ flight' = flight \ {g} /\ UNCHANGED <<queue, task, seeds>>
          /\ late' = IF Active(g) = {} THEN late ELSE late \union {g}
      BY <1>2 DEF Expire
    <2>2. IndexerTypeOK'
      BY <1>t, <2>1, Zenon DEF IndexerTypeOK, IsTask, TaskRecords
    <2>3. Alone'
      BY <1>i, <2>1 DEF Alone, Active
    <2>4. DeletedMeansIndexed' /\ \A u \in Tasks : Carried(task'[u], seeds')
      BY <1>i, <2>1, Zenon DEF DeletedMeansIndexed, Carried
    <2> QED
      BY <2>2, <2>3, <2>4, Zenon DEF IndexerInv, Carried
  <1>r. ASSUME NEW t \in Tasks, task[t].pc = "handle"
        PROVE  /\ IsTask(Remainder(t)) /\ Remainder(t).group \in {NoGroup, task[t].group}
               /\ \A done : Carried(Remainder(t), done)
               /\ IsTask(NoTask) /\ NoTask.group = NoGroup /\ \A done : Carried(NoTask, done)
               /\ IsTask([task[t] EXCEPT !.pc = "delete"])
               /\ [task[t] EXCEPT !.pc = "delete"].group = task[t].group
               /\ [task[t] EXCEPT !.pc = "delete"].batch = task[t].batch
               /\ [task EXCEPT ![t].pc = "delete"]
                    = [task EXCEPT ![t] = [task[t] EXCEPT !.pc = "delete"]]
    <2>1. /\ IsTask(Remainder(t)) /\ Remainder(t).pc # "delete"
          /\ Remainder(t).group \in {NoGroup, task[t].group}
      BY <1>r, RemainderIsTask, Zenon DEF IndexerInv
    <2>2. IsTask(NoTask) /\ NoTask.group = NoGroup /\ NoTask.pc = "free"
      BY DEF IsTask, NoTask, TaskRecords
    <2>3. /\ task[t] \in TaskRecords /\ task[t].group \in Groups /\ task[t].batch # << >>
          /\ Range(task[t].batch) \subseteq Range(Sent[task[t].group])
      BY <1>t, <1>r, Zenon DEF IsTask
    <2>4. IsTask([task[t] EXCEPT !.pc = "delete"])
      BY <2>3, Zenon DEF IsTask, TaskRecords
    <2> QED
      BY <1>t, <2>1, <2>2, <2>3, <2>4, Zenon DEF Carried, TaskRecords
  <1>q. UNCHANGED queue =>
            /\ queue' \in [Groups -> Seq(Message)]
            /\ \A g \in Groups : Range(queue'[g]) \subseteq Range(queue[g])
            /\ \A g \in Groups : \A m \in Range(queue[g]) \ Range(queue'[g]) :
                    m.kind = "seed" => m.account \in seeds'
    BY <1>t, Zenon
  <1>3. ASSUME NEW t \in Tasks, RegisterSeed(t)
        PROVE  IndexerInv'
    <2> DEFINE a == Head(task[t].batch).account
    <2>1. task[t].pc = "handle" /\ UNCHANGED <<queue, flight, late>>
      BY <1>3, Zenon DEF RegisterSeed
    <2>2. PICK ok \in {a \notin seeds} \union (IF DbFails THEN {FALSE} ELSE {}) :
            /\ seeds' = IF ok THEN seeds \union {a} ELSE seeds
            /\ task' = Handled(t, ok)
      BY <1>3, Zenon DEF RegisterSeed
    <2>3. CASE ok
      <3>1. task' = [task EXCEPT ![t] = [task[t] EXCEPT !.pc = "delete"]]
        BY <1>r, <2>1, <2>2, <2>3, Zenon DEF Handled
      <3>2. seeds' = seeds \union {a}
        BY <2>2, <2>3, Zenon
      <3>3. Carried([task[t] EXCEPT !.pc = "delete"], seeds')
        BY <1>r, <2>1, <3>2 DEF Carried
      <3> QED
        BY <1>k, <1>q, <1>r, <2>1, <3>1, <3>2, <3>3, Zenon
    <2>4. CASE ~ok
      <3>1. task' = [task EXCEPT ![t] = Remainder(t)] /\ seeds' = seeds
        BY <2>2, <2>4, Zenon DEF Handled
      <3> QED
        BY <1>k, <1>q, <1>r, <2>1, <3>1, Zenon
    <2> QED
      BY <2>3, <2>4, Zenon
  <1>4. ASSUME NEW t \in Tasks, Spend(t)
        PROVE  IndexerInv'
    <2>1. task[t].pc = "handle" /\ UNCHANGED <<queue, flight, seeds, late>>
      BY <1>4, Zenon DEF Spend
    <2>2. CASE task' = [task EXCEPT ![t] = Remainder(t)]
      BY <1>k, <1>q, <1>r, <2>1, <2>2, Zenon
    <2>3. CASE task' = [task EXCEPT ![t] = NoTask]
      BY <1>k, <1>q, <1>r, <2>1, <2>3, Zenon
    <2> QED
      BY <1>4, <2>2, <2>3, Zenon DEF Spend
  <1>5. ASSUME NEW t \in Tasks, Malformed(t)
        PROVE  IndexerInv'
    <2>1. task[t].pc = "handle" /\ UNCHANGED <<queue, flight, seeds, late>>
      BY <1>5, Zenon DEF Malformed
    <2>2. CASE task' = Handled(t, FALSE)
      BY <1>k, <1>q, <1>r, <2>1, <2>2, Zenon DEF Handled
    <2>3. CASE Head(task[t].batch).kind = "empty" /\ task' = Handled(t, TRUE)
      <3>1. task' = [task EXCEPT ![t] = [task[t] EXCEPT !.pc = "delete"]]
        BY <1>r, <2>1, <2>3, Zenon DEF Handled
      <3>2. Carried([task[t] EXCEPT !.pc = "delete"], seeds')
        BY <1>r, <2>1, <2>3, Zenon DEF Carried
      <3> QED
        BY <1>k, <1>q, <1>r, <2>1, <3>1, <3>2, Zenon
    <2> QED
      BY <1>5, <2>2, <2>3, Zenon DEF Malformed
  <1>6. ASSUME NEW t \in Tasks, Delete(t)
        PROVE  IndexerInv'
    <2> DEFINE m == Head(task[t].batch)
               h == task[t].group
    <2>1. /\ task[t].pc = "delete" /\ UNCHANGED <<flight, seeds, late>>
          /\ task' = [task EXCEPT ![t] = Remainder(t)]
          /\ queue' = [queue EXCEPT ![h] = Without(@, m)] \/ UNCHANGED queue
      BY <1>6, Zenon DEF Delete
    <2>2. /\ IsTask(Remainder(t)) /\ Remainder(t).pc # "delete"
          /\ Remainder(t).group \in {NoGroup, h}
      BY <2>1, RemainderIsTask, Zenon DEF IndexerInv
    <2>3. Carried(Remainder(t), seeds')
      BY <2>2, Zenon DEF Carried
    <2>4. h \in Groups
      BY <1>t, <2>1, Zenon DEF IsTask
    <2>5. m.kind = "seed" => m.account \in seeds
      BY <1>i, <2>1, Zenon DEF Carried
    <2>6. CASE UNCHANGED queue
      BY <1>k, <1>q, <2>1, <2>2, <2>3, <2>6, Zenon
    <2>7. CASE queue' = [queue EXCEPT ![h] = Without(@, m)]
      <3>1. queue[h] \in Seq(Message)
        BY <1>t, <2>4, Zenon
      <3>2. /\ Without(queue[h], m) \in Seq(Message)
            /\ Range(Without(queue[h], m)) \subseteq Range(queue[h])
            /\ Range(queue[h]) \ {m} \subseteq Range(Without(queue[h], m))
        BY <3>1, WithoutOne, Zenon
      <3> HIDE DEF h, m
      <3>3. /\ queue' \in [Groups -> Seq(Message)] /\ queue'[h] = Without(queue[h], m)
            /\ \A g \in Groups : g # h => queue'[g] = queue[g]
        BY <1>t, <2>4, <2>7, <3>2, Zenon
      <3>4. \A g \in Groups : Range(queue'[g]) \subseteq Range(queue[g])
        BY <3>2, <3>3, Zenon
      <3>5. \A g \in Groups : \A y \in Range(queue[g]) \ Range(queue'[g]) :
                y.kind = "seed" => y.account \in seeds'
        BY <2>1, <2>5, <3>2, <3>3, Zenon
      <3> QED
        BY <1>k, <2>1, <2>2, <2>3, <3>3, <3>4, <3>5, Zenon DEF h
    <2> QED
      BY <2>1, <2>6, <2>7, Zenon
  <1>7. CASE UNCHANGED indexerVars
    <2>1. IndexerTypeOK'
      BY <1>7, Zenon DEF IndexerInv, IndexerTypeOK, indexerVars
    <2>2. Alone' /\ DeletedMeansIndexed'
      BY <1>i, <1>7, Zenon DEF Alone, DeletedMeansIndexed, indexerVars
    <2>3. \A u \in Tasks : Carried(task'[u], seeds')
      BY <1>i, <1>7, Zenon DEF Carried, indexerVars
    <2> QED
      BY <2>1, <2>2, <2>3, Zenon DEF IndexerInv, Carried
  <1> QED
    BY <1>1, <1>2, <1>3, <1>4, <1>5, <1>6, <1>7, Zenon DEF IndexerNext, Step

\* No task has started and nothing is deleted.
LEMMA IndexerStart == IndexerInit => IndexerInv
  <1> SUFFICES ASSUME IndexerInit PROVE IndexerInv
    OBVIOUS
  <1>1. IndexerTypeOK
    <2>1. NoTask \in TaskRecords /\ NoTask.pc = "free"
      BY DEF NoTask, TaskRecords
    <2>2. /\ task \in [Tasks -> TaskRecords]
          /\ \A t \in Tasks : task[t].pc = "free" /\ task[t] = NoTask
      BY <2>1 DEF IndexerInit
    <2> QED
      BY <2>2, IndexerAssumption, Zenon DEF IndexerInit, IndexerTypeOK, TaskRecords
  <1>2. Alone
    BY IndexerAssumption, Zenon DEF IndexerInit, Alone, NoTask
  <1>3. DeletedMeansIndexed /\ \A t \in Tasks : Carried(task[t], seeds)
    BY Zenon DEF IndexerInit, DeletedMeansIndexed, Carried, NoTask
  <1> QED
    BY <1>1, <1>2, <1>3 DEF IndexerInv

\* For every set of groups, tasks and messages: a registration leaves the queue
\* only once it is in the database, and the messages of a group are handled by
\* one task at a time until one outlives the visibility timeout
\* (handle_master_view_seed_message, delete_message, the consumer's loop).
THEOREM IndexedBeforeDeleted == IndexerSpec => []IndexedInOrder
  <1>1. IndexerInv => IndexedInOrder
    BY DEF IndexerInv, IndexedInOrder, SequentialInGroup, Alone, Active
  <1>2. IndexerInv /\ [IndexerNext]_indexerVars => IndexerInv'
    BY IndexerStep
  <1> QED
    BY <1>1, <1>2, IndexerStart, PTL DEF IndexerSpec
===================================================================================
