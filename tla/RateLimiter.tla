----------------------------- MODULE RateLimiter -----------------------------
(***************************************************************************)
(* InMemoryTokenBucket (ratelimit.py), called by the threads of one server *)
(* process.  allow() reads the clock before it takes the lock, so a thread *)
(* may decide on an instant that is past, and times may be recorded out of *)
(* order.  Each key has a list of its own: the module follows one key.     *)
(* Nothing reads the order of a list, so hits maps each granted call that  *)
(* is still on the list to the instant it was recorded with.               *)
(***************************************************************************)
EXTENDS Naturals, Sequences, FiniteSets, Functions

CONSTANTS Threads,
          Limit,      \* at most so many calls
          Window,     \* in so much time
          MaxStall,   \* bound: longest wait between reading the clock and the lock
          MaxTime,    \* bound: the last instant
          MaxCalls,   \* bound: calls that are granted
          NoTime      \* the thread is in no call

ASSUME LimiterAssumption ==
    /\ Limit \in Nat \ {0}
    /\ Window \in Nat \ {0}
    /\ MaxStall \in Nat
    /\ MaxTime \in Nat
    /\ MaxCalls \in Nat
    /\ NoTime \notin Nat

VARIABLES now,       \* the clock
          read,      \* read[t]: the instant thread t read in the call it is in
          hits,      \* self._hits[key], by the number of the granted call
          granted    \* history: the instants at which allow() returned True
vars == <<now, read, hits, granted>>

Init ==
    /\ now = 0
    /\ read = [t \in Threads |-> NoTime]
    /\ hits = [call \in {} |-> 0]
    /\ granted = <<>>

\* Time passes, up to the longest stall of a thread inside a call.
Tick ==
    /\ now < MaxTime
    /\ \A t \in Threads : read[t] # NoTime => now < read[t] + MaxStall
    /\ now' = now + 1
    /\ UNCHANGED <<read, hits, granted>>

\* now = self._clock()
ReadClock(t) ==
    /\ read[t] = NoTime
    /\ Len(granted) < MaxCalls
    /\ read' = [read EXCEPT ![t] = now]
    /\ UNCHANGED <<now, hits, granted>>

\* Mutation: a call exactly one window old still counts.
Recent_Inclusive(list, at) ==
    Restrict(list, {call \in DOMAIN list : list[call] + Window >= at})

\* Mutation: half a window is enough to be forgotten.
Recent_Short(list, at) ==
    Restrict(list, {call \in DOMAIN list : list[call] + (Window \div 2) > at})

\* [t for t in hits if t > now - window]
Recent(list, at) ==
    Restrict(list, {call \in DOMAIN list : list[call] + Window > at})

\* recent.append(now), for the call that is granted next
Recorded(recent, at) ==
    LET call == Len(granted) + 1
    IN  [c \in DOMAIN recent \cup {call} |-> IF c = call THEN at ELSE recent[c]]

\* Mutation: one call more than the limit.
Allow_OneMore(t) ==
    LET recent == Recent(hits, read[t])
    IN  /\ read[t] # NoTime
        /\ Cardinality(DOMAIN recent) <= Limit
        /\ hits' = Recorded(recent, read[t])
        /\ granted' = Append(granted, now)
        /\ read' = [read EXCEPT ![t] = NoTime]
        /\ UNCHANGED now

\* The locked section, when fewer than `limit` calls are recent ...
Allow(t) ==
    LET recent == Recent(hits, read[t])
    IN  /\ read[t] # NoTime
        /\ Cardinality(DOMAIN recent) < Limit
        /\ hits' = Recorded(recent, read[t])
        /\ granted' = Append(granted, now)
        /\ read' = [read EXCEPT ![t] = NoTime]
        /\ UNCHANGED now

\* ... and when they are not.
Refuse(t) ==
    LET recent == Recent(hits, read[t])
    IN  /\ read[t] # NoTime
        /\ Cardinality(DOMAIN recent) >= Limit
        /\ hits' = recent
        /\ read' = [read EXCEPT ![t] = NoTime]
        /\ UNCHANGED <<now, granted>>

Next == Tick \/ \E t \in Threads : ReadClock(t) \/ Allow(t) \/ Refuse(t)
Spec == Init /\ [][Next]_vars

-----------------------------------------------------------------------------
Instants == 0..MaxTime

TypeOK ==
    /\ now \in Instants
    /\ read \in [Threads -> Instants \cup {NoTime}]
    /\ hits \in [DOMAIN hits -> Instants] /\ Cardinality(DOMAIN hits) <= Limit
    /\ granted \in Seq(Instants) /\ DOMAIN hits \subseteq DOMAIN granted

\* The calls granted in the `span` instants that end at instant `end`.
GrantedWithin(end, span) ==
    {i \in DOMAIN granted : granted[i] <= end /\ end < granted[i] + span}

\* However threads are delayed between clock and lock, no window shortened by
\* the longest delay sees more than `limit` granted calls.
LimitKept ==
    Window > MaxStall =>
        \A end \in 0..now : Cardinality(GrantedWithin(end, Window - MaxStall)) <= Limit

\* A call is only refused when `limit` calls were granted in the window before
\* it, lengthened by the longest delay: the limiter locks nobody out.
RefusalJustified ==
    [][\A t \in Threads :
           read[t] # NoTime /\ read'[t] = NoTime /\ granted' = granted =>
               Cardinality(GrantedWithin(now, Window + MaxStall)) >= Limit]_vars

\* "at most `limit` calls per `window_seconds`" (InMemoryTokenBucket)
WindowKept == \A end \in 0..now : Cardinality(GrantedWithin(end, Window)) <= Limit
=============================================================================
