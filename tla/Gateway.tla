------------------------------- MODULE Gateway -------------------------------
(***************************************************************************)
(* The HTTP API (api/app.py) over the platform's processes.  Each process  *)
(* answers requests on several threads.  A request is authenticated on the *)
(* live registry without the platform lock, passes the rate limiter, waits *)
(* for the lock, runs its operation, and a federated round then builds its *)
(* answer with two more calls that take the lock anew.  What a client      *)
(* learns is a status: 200, a refusal, or nothing when the process dies.   *)
(***************************************************************************)
EXTENDS PlatformProperties

CONSTANTS Threads,
          Home    \* Home[t]: the process that thread t serves

ASSUME GatewayAssumption == Home \in [Threads -> Procs]

VARIABLES req,    \* req[t]: the request thread t works on, or answered last
          keys    \* keys[p]: who got an API key from process p
http == <<req, keys>>
gatewayVars == <<vars, http>>

Kinds == {"join", "consent", "query", "round"}
Stages == {"none", "admitted", "running", "failing", "metadata", "card", "answered"}
Answers == {"none", "200", "400", "403", "409", "500"}

\* version: how many rounds the model had with this one; shown, card: what
\* the answer's metadata and card tell of it
Requests == [stage : Stages, kind : Kinds \cup {"none"}, org : OrgIds \cup {NoOrg},
             cohort : Cohorts \cup {Nothing}, id : Nat, status : Answers,
             version : Nat, shown : Nat, card : Nat]
NoRequest == [stage |-> "none", kind |-> "none", org |-> NoOrg, cohort |-> Nothing,
              id |-> 0, status |-> "none", version |-> 0, shown |-> 0, card |-> 0]

\* Turned away before anything was touched (malformed, 401, 403, 429, or a 500
\* when the registry grows while it is scanned without the lock): which answer it
\* was is not told, and the thread is free as it was before its first request.
TurnedAway == NoRequest

Free(t) == req[t].stage \in {"none", "answered"}
Serving(p) == pc[p] \notin {"down", "starting"}

\* The platform lock is free: nothing of the process is in flight.
LockFree(p) == pc[p] = "idle"

\* Bound: an operation is left for every request that waits for one.
Room == nonce + Cardinality({t \in Threads : req[t].stage = "admitted"}) < MaxOps

To(t, changes) == req' = [req EXCEPT ![t] = changes]
Answered(t, status) ==
    [req[t] EXCEPT !.stage = "answered", !.status = status,
                   !.org = NoOrg, !.cohort = Nothing]

-----------------------------------------------------------------------------
(* From the wire to the lock.                                              *)

\* POST /orgs: open enrolment, the key leaves with the answer.
PostOrg(t, o, k) ==
    /\ Free(t)
    /\ Room
    /\ Join(Home[t], o, k)
    /\ To(t, [NoRequest EXCEPT !.stage = "running", !.kind = "join", !.org = o,
                               !.cohort = k, !.id = Id])
    /\ UNCHANGED keys

\* registry.authenticate and require_cohort_member, read without the lock
Member(p, o) == mem[p].orgs[o] # NoOrg
Authorized(p, o, k, kind) ==
    /\ Member(p, o)
    /\ kind = "consent" \/ o \in Cohort(mem[p].orgs, k)

HasKey(o) == \E p \in Procs : o \in keys[p]

\* A request with a valid key: 401 where the process does not know the
\* organization, 403 outside its cohort, 429 past the limiter, else it waits.
Arrive(t, o, k, kind) ==
    /\ Free(t)
    /\ Serving(Home[t])
    /\ HasKey(o)
    /\ \/ To(t, TurnedAway)
       \/ /\ Authorized(Home[t], o, k, kind)
          /\ Room
          /\ To(t, [NoRequest EXCEPT !.stage = "admitted", !.kind = kind, !.org = o,
                                     !.cohort = k])
    /\ UNCHANGED <<vars, keys>>

-----------------------------------------------------------------------------
(* Under the lock.                                                         *)

Admitted(t, kind) == req[t].stage = "admitted" /\ req[t].kind = kind
Runs(t) == To(t, [req[t] EXCEPT !.stage = "running", !.id = Id])
Aborts(t, status) == To(t, [Answered(t, status) EXCEPT !.id = Id])

\* Requests that do not reach the end of their operation: denied by policy or
\* budget, or with data that do not fit (a missing participant).
Decline(t) ==
    /\ req[t].stage = "admitted"
    /\ LockFree(Home[t])
    /\ To(t, TurnedAway)
    /\ UNCHANGED <<vars, keys>>

Consent(t) ==
    /\ Admitted(t, "consent")
    /\ \E metrics \in ConsentChoices : SetConsent(Home[t], req[t].org, metrics)
    /\ Runs(t)
    /\ UNCHANGED keys

\* the aggregates, by their actions in the log
Aggregates == [histogram   |-> "query.histogram",
               variance    |-> "query.variance",
               correlation |-> "query.correlation"]

\* labels that do not fit fail a histogram after its charge
Ask(t) ==
    /\ Admitted(t, "query")
    /\ \E eps \in Epsilons :
          \/ /\ \E metric \in DOMAIN Aggregates :
                   Query(Home[t], req[t].cohort, metric, Aggregates[metric], eps)
             /\ Runs(t)
          \/ /\ HistogramBadLabels(Home[t], req[t].cohort, eps)
             /\ Aborts(t, "400")
    /\ UNCHANGED keys

\* a denied charge is a 403, data of other dimensions a 400, and a round without
\* anybody left a ProtocolError, which the handler of RuntimeError makes a 500
Round(t) ==
    /\ Admitted(t, "round")
    /\ \E eps \in Epsilons, dim \in Dims :
          \/ \E delta \in Deltas, survivors \in SUBSET OrgIds :
                /\ FederatedRound(Home[t], req[t].cohort, eps, delta, dim, survivors)
                /\ Runs(t)
          \/ \E delta \in Deltas :
                /\ RoundOverBudget(Home[t], req[t].cohort, eps, delta, dim)
                /\ Aborts(t, "403")
          \/ /\ FirstRoundFails(Home[t], req[t].cohort, eps, dim)
             /\ \E status \in {"400", "500"} : Aborts(t, status)
    /\ UNCHANGED keys

\* Mutation: the key is handed out whatever became of the join.
Issued_Always(t, status) == req[t].kind = "join"

\* the answer to a join that was stored carries the key
Issued(t, status) == req[t].kind = "join" /\ status = "200"

Return(t, status) ==
    /\ To(t, Answered(t, status))
    /\ keys' = IF Issued(t, status)
               THEN [keys EXCEPT ![Home[t]] = @ \cup {req[t].org}] ELSE keys

\* The commit returns; a round still has its answer to build.
Committed(t) ==
    /\ req[t].stage = "running"
    /\ Commit(Home[t])
    /\ IF req[t].kind = "round"
       THEN /\ To(t, [req[t] EXCEPT
                         !.stage = "metadata",
                         !.version = Len(mem[Home[t]].servers[req[t].cohort].history)])
            /\ UNCHANGED keys
       ELSE Return(t, "200")

Fails(t, status) ==
    /\ req[t].stage = "running"
    /\ To(t, [req[t] EXCEPT !.stage = "failing", !.status = status])
    /\ UNCHANGED keys

\* Mutation: the refused bundle is tried again as it is, under the lock.
Refused_Retries(t) ==
    /\ req[t].stage = "running"
    /\ pc[Home[t]] = "commit"
    /\ ~Fresh(db, tx[Home[t]])
    /\ UNCHANGED gatewayVars

\* ConcurrentWriteError: 409 once memory is rebuilt
Refused(t) == Conflict(Home[t]) /\ Fails(t, "409")

\* Mutation: the error of a failed commit is swallowed after the rebuild.
FailureStatus_Swallowed == "200"

\* StorageError
FailureStatus == "500"
Failed(t) == CommitFails(Home[t]) /\ Fails(t, FailureStatus)

\* The rebuild is done and the error goes out; a rebuild that raises (it
\* cannot read, or what it read does not decode) answers 500 in its place.
Rebuilt(t) ==
    LET read == scan[Home[t]].state
    IN  /\ req[t].stage = "failing"
        /\ Reconverged(Home[t])
        /\ Return(t, IF ~IsEmpty(read) /\ Undecodable(read) THEN "500"
                     ELSE req[t].status)

NotRebuilt(t) ==
    /\ req[t].stage = "failing"
    /\ ReloadFails(Home[t])
    /\ Return(t, "500")

-----------------------------------------------------------------------------
(* The answer to a round: two more calls, each taking the lock.            *)

Server(t) == mem[Home[t]].servers[req[t].cohort]

\* model_release_metadata(key)
Metadata(t) ==
    /\ req[t].stage = "metadata"
    /\ LockFree(Home[t])
    /\ Server(t) # NoServer
    /\ To(t, [req[t] EXCEPT !.stage = "card", !.shown = Len(Server(t).history)])
    /\ UNCHANGED <<vars, keys>>

\* federated_release_card(key, domain): the latest released round, or the
\* latest in the history when none was
Card(t) ==
    LET last == mem[Home[t]].last[req[t].cohort]
    IN  /\ req[t].stage = "card"
        /\ LockFree(Home[t])
        /\ Server(t) # NoServer
        /\ To(t, [Answered(t, "200") EXCEPT
                     !.card = IF last = Genesis THEN LastOf(Server(t).history) ELSE last])
        /\ UNCHANGED <<vars, keys>>

-----------------------------------------------------------------------------
(* The process under its requests.                                         *)

\* Connections of a process that dies are cut: their clients learn nothing.
Dies(p) ==
    /\ Crash(p)
    /\ req' = [t \in Threads |-> IF Home[t] = p THEN NoRequest ELSE req[t]]
    /\ UNCHANGED keys

Boot(p) == (Start(p) \/ Started(p)) /\ UNCHANGED http
Reads(p) == ReadTable(p) /\ UNCHANGED http

GatewayInit ==
    /\ Init
    /\ req = [t \in Threads |-> NoRequest]
    /\ keys = [p \in Procs |-> {}]

Calls(t) == Decline(t) \/ Consent(t) \/ Ask(t) \/ Round(t)
Outcome(t) == Committed(t) \/ Refused(t) \/ Failed(t) \/ Rebuilt(t) \/ NotRebuilt(t)

Done == Quiescent /\ (\A t \in Threads : Free(t)) /\ UNCHANGED http

GatewayNext ==
    \/ \E t \in Threads :
          \/ \E o \in OrgIds, k \in Cohorts :
                \/ PostOrg(t, o, k)
                \/ \E kind \in Kinds \ {"join"} : Arrive(t, o, k, kind)
          \/ Calls(t) \/ Outcome(t) \/ Metadata(t) \/ Card(t)
    \/ \E p \in Procs : Boot(p) \/ Reads(p) \/ Dies(p)
    \/ Done

GatewaySpec == GatewayInit /\ [][GatewayNext]_gatewayVars

\* A thread that can go on goes on, and so does whoever holds the lock.  The
\* lock is not a queue: that every waiter gets its turn rests on the bound on
\* requests.
GatewayFairness ==
    /\ \A t \in Threads :
          /\ WF_gatewayVars(Calls(t))
          /\ WF_gatewayVars(Metadata(t) \/ Card(t))
          /\ WF_gatewayVars(Committed(t) \/ Refused(t) \/ Rebuilt(t))
    /\ \A p \in Procs : WF_gatewayVars((Started(p) /\ UNCHANGED http) \/ Reads(p))
GatewayFairSpec == GatewaySpec /\ GatewayFairness

-----------------------------------------------------------------------------
(* What clients may rely on.                                               *)

\* A request is told the truth about its operation, whatever crashes,
\* conflicts and reloads happened in between and since: after 200 its entry is
\* in the stored log, after a refusal it is not and never comes.
Stored(id) == \E i \in DOMAIN db.audit : db.audit[i].id = id
AnswersTrue ==
    \A t \in Threads :
        /\ req[t].stage \in {"metadata", "card"} => Stored(req[t].id)
        /\ req[t].stage = "answered" /\ req[t].id # 0 =>
               (req[t].status = "200" <=> Stored(req[t].id))

\* An API key keeps working at the process that issued it, through the
\* reloads and restarts of that process; and who was let in without the lock
\* is still a member when the operation gets it.
KeysWork ==
    /\ \A p \in Procs : Serving(p) => \A o \in keys[p] : Member(p, o)
    /\ \A t \in Threads : req[t].stage = "admitted" => Member(Home[t], req[t].org)

\* The answer of a round can always be built, and describes a model that has
\* this round in it, although reloads and other rounds may come between the
\* commit, the metadata and the card.
CardCoversRound ==
    \A t \in Threads :
        /\ req[t].stage \in {"metadata", "card"} =>
               /\ Server(t) # NoServer
               /\ Len(Server(t).history) >= req[t].version
        /\ req[t].stage = "answered" /\ req[t].kind = "round" /\ req[t].status = "200" =>
               /\ req[t].shown >= req[t].version
               /\ req[t].card >= req[t].id

\* Every request that was let in is answered (or declined), unless its process
\* dies.
EveryRequestAnswered ==
    \A t \in Threads :
        req[t].stage \notin {"none", "answered"} ~> req[t].stage \in {"none", "answered"}
=============================================================================
