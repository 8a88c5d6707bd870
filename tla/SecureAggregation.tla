-------------------------- MODULE SecureAggregation --------------------------
(***************************************************************************)
(* One round of pairwise-mask secure aggregation                           *)
(* (crypto/secure_aggregation.py): the coordinator SecAggServer and one    *)
(* SecAggClient for every organization of the roster.  Contributions       *)
(* travel: they arrive late, twice, or not at all, and a client may mask   *)
(* again what it sent before.                                              *)
(*                                                                         *)
(* Vectors are formal: the sum of a quantized update and of mask streams,  *)
(* one stream for each pair of clients.  int64 sums wrap modulo 2^64,      *)
(* which keeps them additive, so that the sum of a vector is exact iff     *)
(* every stream has coefficient 0 in it.                                   *)
(***************************************************************************)
EXTENDS Integers, FiniteSets, Functions

CONSTANTS Roster,      \* the organization ids, in the order of their names
          Updates,     \* the quantized updates clients train
          MaxSends,    \* bound: contributions a client masks
          None         \* nothing received, nothing opened

Pairs == {pair \in Roster \X Roster : pair[1] < pair[2]}

ASSUME RosterAssumption ==
    /\ Roster \subseteq Int
    /\ IsFiniteSet(Roster)
    /\ Updates \subseteq Int
    /\ MaxSends \in Nat
    /\ None \notin [update : Int, masks : [Pairs -> Int]]

VARIABLES keys,      \* the organizations whose public key the server holds
          sent,      \* sent[i]: the vectors client i has masked
          received,  \* received[i]: the vector the server holds of i
          seeds,     \* the pairs whose seed a survivor has revealed
          opened     \* what the latest finalize() returned
vars == <<keys, sent, received, seeds, opened>>

Vectors == [update : Int, masks : [Pairs -> Int]]
NoMasks == [pair \in Pairs |-> 0]

\* Mutation: a seed is filed under the order it was asked in.
Sorted_AsGiven(i, j) == <<i, j>>

\* sorted((i, j))
Sorted(i, j) == IF i < j THEN <<i, j>> ELSE <<j, i>>

\* Client i adds the stream it shares with a later peer and subtracts the one
\* it shares with an earlier peer.
MaskOf(i) ==
    [pair \in Pairs |-> IF pair[1] = i THEN 1 ELSE IF pair[2] = i THEN -1 ELSE 0]

Masked(i, update) == [update |-> update, masks |-> MaskOf(i)]

Received == {i \in Roster : received[i] # None}
Dropped == Roster \ Received

\* Mutation: a stream is always added, whoever of the pair survived.
Residual_Unsigned == [pair \in Pairs |->
    IF \/ pair[1] \in Received /\ pair[2] \in Dropped
       \/ pair[2] \in Received /\ pair[1] \in Dropped
    THEN 1 ELSE 0]

\* The streams that do not cancel because their other half never came.
Residual == [pair \in Pairs |->
    IF pair[1] \in Received /\ pair[2] \in Dropped THEN 1
    ELSE IF pair[2] \in Received /\ pair[1] \in Dropped THEN -1
    ELSE 0]

Aggregate ==
    [update |-> SumFunction([i \in Received |-> received[i].update]),
     masks  |-> [pair \in Pairs |->
                    SumFunction([i \in Received |-> received[i].masks[pair]])
                        - Residual[pair]]]

-----------------------------------------------------------------------------
Init ==
    /\ keys = {}
    /\ sent = [i \in Roster |-> {}]
    /\ received = [i \in Roster |-> None]
    /\ seeds = {}
    /\ opened = None

\* SecAggServer.register: a client has one key pair for the whole round
Register(i) ==
    /\ keys' = keys \cup {i}
    /\ UNCHANGED <<sent, received, seeds, opened>>

\* SecAggClient.mask_and_send: only with the keys of the whole roster
Send(i, update) ==
    /\ keys = Roster
    /\ Cardinality(sent[i]) < MaxSends
    /\ sent' = [sent EXCEPT ![i] = @ \cup {Masked(i, update)}]
    /\ UNCHANGED <<keys, received, seeds, opened>>

\* SecAggServer.receive: the latest contribution of a client replaces others
Receive(i, vector) ==
    /\ vector \in sent[i]
    /\ received' = [received EXCEPT ![i] = vector]
    /\ UNCHANGED <<keys, sent, seeds, opened>>

\* reveal_seed at the survivor, add_recovery_seed at the server
Reveal(survivor, dropped) ==
    /\ survivor # dropped
    /\ dropped \in keys
    /\ seeds' = seeds \cup {Sorted(survivor, dropped)}
    /\ UNCHANGED <<keys, sent, received, opened>>

\* Mutation: seeds are asked of clients that are gone, too.
Recoverable_AllPairs == \A d \in Dropped : \A s \in Roster \ {d} : Sorted(s, d) \in seeds

\* every pair of a received and a dropped client has its seed
Recoverable == \A s \in Received, d \in Dropped : Sorted(s, d) \in seeds

Finalize ==
    /\ Received # {}
    /\ Recoverable
    /\ opened' = Aggregate
    /\ UNCHANGED <<keys, sent, received, seeds>>

Next ==
    \/ \E i \in Roster :
          \/ Register(i)
          \/ \E update \in Updates : Send(i, update)
          \/ \E vector \in sent[i] : Receive(i, vector)
          \/ \E dropped \in Roster : Reveal(i, dropped)
    \/ Finalize

Spec == Init /\ [][Next]_vars

\* The coordinator asks every client it has heard for the seeds of those it
\* has not, and then finalizes (run_round); nothing obliges a client to send.
Fairness ==
    /\ \A s, d \in Roster : WF_vars(s \in Received /\ d \in Dropped /\ Reveal(s, d))
    /\ WF_vars(Finalize)
FairSpec == Spec /\ Fairness

-----------------------------------------------------------------------------
TypeOK ==
    /\ keys \subseteq Roster
    /\ sent \in [Roster -> SUBSET Vectors]
    /\ received \in [Roster -> Vectors \cup {None}]
    /\ seeds \subseteq Pairs
    /\ opened \in Vectors \cup {None}

\* What is opened is exact: no stream is left in it, and it is the sum of one
\* update of each of at least one client, whatever arrived late, twice or
\* never, and whenever seeds were revealed.
AggregateExact ==
    opened # None =>
        /\ opened.masks = NoMasks
        /\ \E S \in (SUBSET Roster) \ {{}} : \E chosen \in [S -> Updates] :
               /\ \A i \in S : Masked(i, chosen[i]) \in sent[i]
               /\ opened.update = SumFunction(chosen)

\* A round that has heard from one client ends, although clients it never
\* hears from again took part in the masking.
RoundCloses == Received # {} ~> opened # None
=============================================================================
