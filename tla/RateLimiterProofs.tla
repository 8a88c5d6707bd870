-------------------------- MODULE RateLimiterProofs --------------------------
(***************************************************************************)
(* The limiter keeps its limit for every number of threads, limit, window  *)
(* and longest stall.                                                      *)
(***************************************************************************)
EXTENDS RateLimiter, FiniteSetTheorems, TLAPS

-----------------------------------------------------------------------------
\* The inductive invariant.  A call is dropped by a reading of the clock that
\* is a window past the reading the call was recorded with, and no reading is
\* more than a stall away from the instant its call is granted at: so a grant
\* that is off the list is old, whoever dropped it.

\* No thread waits longer than the longest stall.
Fresh ==
    \A t \in Threads : read[t] # NoTime => read[t] <= now /\ now <= read[t] + MaxStall

\* No call was granted in the future ...
Past == \A c \in DOMAIN granted : granted[c] <= now

\* ... a call on the list was granted at most a stall after its reading ...
Listed ==
    \A c \in DOMAIN hits : hits[c] <= granted[c] /\ granted[c] <= hits[c] + MaxStall

\* ... and a call off the list at least a window less a stall ago.
Dropped ==
    \A c \in DOMAIN granted \ DOMAIN hits : granted[c] + Window <= now + MaxStall

LimiterInv == TypeOK /\ Fresh /\ Past /\ Listed /\ Dropped /\ LimitKept

-----------------------------------------------------------------------------
\* A list keeps the calls a window does not divide from the reading.
LEMMA RecentIs ==
    ASSUME NEW list, NEW at
    PROVE  /\ DOMAIN Recent(list, at) =
                  {c \in DOMAIN list : list[c] + Window > at}
           /\ \A c \in DOMAIN Recent(list, at) : Recent(list, at)[c] = list[c]
  BY DEF Recent, Restrict

\* The instants are numbers.
LEMMA Numbers ==
    ASSUME TypeOK
    PROVE  /\ now \in Nat
           /\ \A c \in DOMAIN granted : granted[c] \in Nat
           /\ \A c \in DOMAIN hits : hits[c] \in Nat /\ hits[c] \in Instants
           /\ DOMAIN hits \subseteq DOMAIN granted
           /\ \A t \in Threads : read[t] # NoTime => read[t] \in Nat
<1>1. DOMAIN granted = 1..Len(granted) /\ granted \in Seq(Instants)
  BY DEF TypeOK
<1>2. \A c \in DOMAIN granted : granted[c] \in Instants
  BY <1>1
<1>3. \A i \in Instants : i \in Nat
  BY DEF Instants
<1>4. \A c \in DOMAIN hits : hits[c] \in Instants
  BY DEF TypeOK
<1>5. \A t \in Threads : read[t] # NoTime => read[t] \in Instants
  BY DEF TypeOK
<1>6. now \in Instants /\ DOMAIN hits \subseteq DOMAIN granted
  BY DEF TypeOK
<1>. QED
  BY <1>2, <1>3, <1>4, <1>5, <1>6

LEMMA FiniteParts ==
    ASSUME TypeOK, NEW S, S \subseteq DOMAIN granted
    PROVE  IsFiniteSet(S) /\ Cardinality(S) \in Nat
<1>1. DOMAIN granted = 1..Len(granted) /\ Len(granted) \in Nat
  BY DEF TypeOK
<1>2. IsFiniteSet(DOMAIN granted)
  BY <1>1, FS_Interval
<1>3. IsFiniteSet(S)
  BY <1>2, FS_Subset
<1>. QED
  BY <1>3, FS_CardinalityType

LEMMA SmallerParts ==
    ASSUME TypeOK, NEW S, S \subseteq DOMAIN granted, NEW T, T \subseteq S
    PROVE  Cardinality(T) <= Cardinality(S)
  BY FiniteParts, FS_Subset

\* The window that ends now is on the list.
LEMMA NowIsListed ==
    ASSUME TypeOK, Dropped, Window > MaxStall
    PROVE  GrantedWithin(now, Window - MaxStall) \subseteq DOMAIN hits
<1>. SUFFICES ASSUME NEW c \in DOMAIN granted, c \notin DOMAIN hits,
                     now < granted[c] + (Window - MaxStall)
              PROVE  FALSE
  BY DEF GrantedWithin
<1>1. granted[c] \in Nat /\ now \in Nat
  BY Numbers
<1>2. granted[c] + Window <= now + MaxStall
  BY DEF Dropped
<1>. QED
  BY <1>1, <1>2, LimiterAssumption

NowKept ==
    Window > MaxStall => Cardinality(GrantedWithin(now, Window - MaxStall)) <= Limit

LEMMA NowIsKept == TypeOK /\ Dropped => NowKept
<1>. SUFFICES ASSUME TypeOK, Dropped, Window > MaxStall
              PROVE  Cardinality(GrantedWithin(now, Window - MaxStall)) <= Limit
  BY DEF NowKept
<1>. DEFINE Within == GrantedWithin(now, Window - MaxStall)
<1>1. Within \subseteq DOMAIN hits /\ DOMAIN hits \subseteq DOMAIN granted
  BY NowIsListed DEF TypeOK
<1>2. Cardinality(DOMAIN hits) <= Limit
  BY DEF TypeOK
<1>. HIDE DEF Within
<1>3. Cardinality(Within) <= Cardinality(DOMAIN hits)
  BY <1>1, SmallerParts
<1>4. Cardinality(Within) \in Nat /\ Cardinality(DOMAIN hits) \in Nat
  BY <1>1, FiniteParts
<1>5. Cardinality(Within) <= Limit
  BY <1>2, <1>3, <1>4, LimiterAssumption
<1>. QED
  BY <1>5 DEF Within

\* What an instant that is past sees of the grants, it sees after a grant.
LEMMA PastIsPast ==
    ASSUME TypeOK, NEW end \in 0..now, end # now, NEW span,
           granted' = Append(granted, now)
    PROVE  GrantedWithin(end, span)' = GrantedWithin(end, span)
<1>1. /\ DOMAIN granted = 1..Len(granted) /\ Len(granted) \in Nat /\ now \in Nat
      /\ DOMAIN granted' = 1..(Len(granted) + 1)
      /\ \A c \in 1..Len(granted) : granted'[c] = granted[c]
      /\ granted'[Len(granted) + 1] = now
  BY DEF TypeOK, Instants
<1>2. ~(now <= end)
  BY <1>1
<1>. QED
  BY <1>1, <1>2 DEF GrantedWithin

-----------------------------------------------------------------------------
\* The list after a decision made on the instant `at`.
LEMMA RecentType ==
    ASSUME TypeOK, NEW at
    PROVE  /\ DOMAIN Recent(hits, at) \subseteq DOMAIN hits
           /\ \A c \in DOMAIN Recent(hits, at) : Recent(hits, at)[c] \in Instants
           /\ DOMAIN Recent(hits, at) \subseteq DOMAIN granted
           /\ Cardinality(DOMAIN Recent(hits, at)) \in Nat
           /\ Cardinality(DOMAIN Recent(hits, at)) <= Limit
<1>. DEFINE kept == DOMAIN Recent(hits, at)
<1>1. kept \subseteq DOMAIN hits
  BY RecentIs
<1>2. \A c \in kept : Recent(hits, at)[c] \in Instants
  <2>1. \A c \in kept : Recent(hits, at)[c] = hits[c]
    BY RecentIs
  <2>. HIDE DEF kept
  <2>. QED
    BY <1>1, <2>1, Numbers
<1>3. DOMAIN hits \subseteq DOMAIN granted /\ Cardinality(DOMAIN hits) <= Limit
  BY DEF TypeOK
<1>. HIDE DEF kept
<1>4. Cardinality(kept) \in Nat /\ Cardinality(DOMAIN hits) \in Nat
  BY <1>1, <1>3, FiniteParts
<1>5. Cardinality(kept) <= Cardinality(DOMAIN hits)
  BY <1>1, <1>3, SmallerParts
<1>6. Cardinality(kept) <= Limit
  BY <1>3, <1>4, <1>5, LimiterAssumption
<1>. QED
  BY <1>1, <1>2, <1>3, <1>4, <1>6 DEF kept

LEMMA RecordedIs ==
    ASSUME TypeOK, NEW at
    PROVE  LET recent == Recent(hits, at)
               call == Len(granted) + 1
           IN  /\ DOMAIN Recorded(recent, at) = DOMAIN recent \cup {call}
               /\ call \notin DOMAIN recent
               /\ Recorded(recent, at)[call] = at
               /\ \A c \in DOMAIN recent : Recorded(recent, at)[c] = hits[c]
<1>1. DOMAIN granted = 1..Len(granted) /\ Len(granted) \in Nat
  BY DEF TypeOK
<1>2. Len(granted) + 1 \notin DOMAIN granted
  BY <1>1
<1>3. DOMAIN Recent(hits, at) \subseteq DOMAIN granted
  BY RecentType
<1>. QED
  BY <1>2, <1>3, RecentIs DEF Recorded

LEMMA RecordedCount ==
    ASSUME TypeOK, NEW at, Cardinality(DOMAIN Recent(hits, at)) < Limit
    PROVE  Cardinality(DOMAIN Recorded(Recent(hits, at), at)) <= Limit
<1>. DEFINE kept == DOMAIN Recent(hits, at)
            call == Len(granted) + 1
<1>1. kept \subseteq DOMAIN granted /\ Cardinality(kept) \in Nat
  BY RecentType
<1>2. DOMAIN Recorded(Recent(hits, at), at) = kept \cup {call} /\ call \notin kept
  BY RecordedIs
<1>3. Cardinality(kept) < Limit
  OBVIOUS
<1>. HIDE DEF kept, call
<1>4. IsFiniteSet(kept)
  BY <1>1, FiniteParts
<1>5. Cardinality(kept \cup {call}) = Cardinality(kept) + 1
  BY <1>2, <1>4, FS_AddElement
<1>. QED
  BY <1>1, <1>2, <1>3, <1>5, LimiterAssumption

\* What a decision drops is old.
LEMMA DroppedIsOld ==
    ASSUME TypeOK, Fresh, Listed, Dropped, NEW t \in Threads, read[t] # NoTime,
           NEW c \in DOMAIN granted \ DOMAIN Recent(hits, read[t])
    PROVE  granted[c] + Window <= now + MaxStall
<1>1. CASE c \notin DOMAIN hits
  BY <1>1 DEF Dropped
<1>2. CASE c \in DOMAIN hits
  <2>1. ~(hits[c] + Window > read[t])
    <3>1. DOMAIN Recent(hits, read[t]) = {d \in DOMAIN hits : hits[d] + Window > read[t]}
      BY RecentIs
    <3>. QED
      BY <1>2, <3>1
  <2>2. granted[c] <= hits[c] + MaxStall /\ read[t] <= now
    BY <1>2 DEF Listed, Fresh
  <2>3. granted[c] \in Nat /\ hits[c] \in Nat /\ now \in Nat /\ read[t] \in Nat
    BY <1>2, Numbers
  <2>. QED
    BY <2>1, <2>2, <2>3, LimiterAssumption
<1>. QED
  BY <1>1, <1>2

-----------------------------------------------------------------------------
LEMMA InitHolds == Init => LimiterInv
<1>. SUFFICES ASSUME Init PROVE LimiterInv
  OBVIOUS
<1>1. DOMAIN hits = {} /\ DOMAIN granted = {} /\ granted = <<>> /\ now = 0
  BY DEF Init
<1>2. Cardinality({}) = 0
  BY FS_EmptySet
<1>3. TypeOK
  BY <1>1, <1>2, LimiterAssumption DEF Init, TypeOK, Instants
<1>4. Fresh /\ Past /\ Listed /\ Dropped
  BY <1>1 DEF Init, Fresh, Past, Listed, Dropped
<1>5. LimitKept
  <2>1. \A end, span : GrantedWithin(end, span) = {}
    BY <1>1 DEF GrantedWithin
  <2>. QED
    BY <1>2, <2>1, LimiterAssumption DEF LimitKept
<1>. QED
  BY <1>3, <1>4, <1>5 DEF LimiterInv

LEMMA TickKeeps == LimiterInv /\ Tick => LimiterInv'
<1>. SUFFICES ASSUME LimiterInv, Tick PROVE LimiterInv'
  OBVIOUS
<1>1. /\ now \in Nat /\ now' = now + 1 /\ now' \in Instants
      /\ read' = read /\ hits' = hits /\ granted' = granted
  BY LimiterAssumption DEF LimiterInv, TypeOK, Tick, Instants
<1>2. TypeOK'
  BY <1>1 DEF LimiterInv, TypeOK, Instants
<1>3. Fresh'
  <2>. SUFFICES ASSUME NEW t \in Threads, read[t] # NoTime
                PROVE  read[t] <= now + 1 /\ now + 1 <= read[t] + MaxStall
    BY <1>1 DEF Fresh
  <2>1. read[t] \in Nat /\ read[t] <= now /\ now < read[t] + MaxStall
    BY DEF LimiterInv, TypeOK, Instants, Fresh, Tick
  <2>. QED
    BY <1>1, <2>1, LimiterAssumption
<1>4. \A c \in DOMAIN granted : granted[c] \in Nat
  BY Numbers DEF LimiterInv
<1>5. Past' /\ Listed' /\ Dropped'
  BY <1>1, <1>4, LimiterAssumption DEF LimiterInv, Past, Listed, Dropped
<1>6. LimitKept'
  <2>. SUFFICES ASSUME Window > MaxStall, NEW end \in 0..now'
                PROVE  Cardinality(GrantedWithin(end, Window - MaxStall)') <= Limit
    BY DEF LimitKept
  <2>1. CASE end = now'
    <3>1. NowKept'
      BY <1>2, <1>5, NowIsKept, PTL
    <3>. QED
      BY <2>1, <3>1 DEF NowKept, GrantedWithin
  <2>2. CASE end # now'
    <3>1. end \in 0..now
      BY <1>1, <2>2
    <3>2. GrantedWithin(end, Window - MaxStall)' = GrantedWithin(end, Window - MaxStall)
      BY <1>1 DEF GrantedWithin
    <3>. QED
      BY <3>1, <3>2 DEF LimiterInv, LimitKept
  <2>. QED
    BY <2>1, <2>2
<1>. QED
  BY <1>2, <1>3, <1>5, <1>6 DEF LimiterInv

LEMMA ReadClockKeeps ==
    ASSUME LimiterInv, NEW t \in Threads, ReadClock(t)
    PROVE  LimiterInv'
<1>1. /\ now' = now /\ hits' = hits /\ granted' = granted /\ now \in Instants
      /\ read' = [read EXCEPT ![t] = now]
  BY DEF LimiterInv, TypeOK, ReadClock
<1>2. TypeOK'
  BY <1>1 DEF LimiterInv, TypeOK, Instants
<1>3. Fresh'
  BY <1>1, LimiterAssumption DEF LimiterInv, TypeOK, Fresh, Instants
<1>4. Past' /\ Listed' /\ Dropped' /\ LimitKept'
  BY <1>1 DEF LimiterInv, Past, Listed, Dropped, LimitKept, GrantedWithin
<1>. QED
  BY <1>2, <1>3, <1>4 DEF LimiterInv

LEMMA RefuseKeeps ==
    ASSUME LimiterInv, NEW t \in Threads, Refuse(t)
    PROVE  LimiterInv'
<1>1. /\ now' = now /\ granted' = granted /\ read[t] # NoTime
      /\ read' = [read EXCEPT ![t] = NoTime] /\ hits' = Recent(hits, read[t])
  BY DEF Refuse
<1>2. TypeOK /\ Fresh /\ Past /\ Listed /\ Dropped /\ LimitKept
  BY DEF LimiterInv
<1>3. TypeOK'
  <2>1. hits' \in [DOMAIN hits' -> Instants]
    <3>1. hits' = [c \in DOMAIN hits' |-> hits'[c]]
      BY <1>1 DEF Recent, Restrict
    <3>. QED
      BY <1>1, <1>2, <3>1, RecentType
  <2>2. Cardinality(DOMAIN hits') <= Limit /\ DOMAIN hits' \subseteq DOMAIN granted'
    BY <1>1, <1>2, RecentType
  <2>3. now' \in Instants /\ granted' \in Seq(Instants)
    BY <1>1, <1>2 DEF TypeOK
  <2>4. read' \in [Threads -> Instants \cup {NoTime}]
    BY <1>1, <1>2 DEF TypeOK
  <2>. QED
    BY <2>1, <2>2, <2>3, <2>4 DEF TypeOK
<1>4. Fresh'
  BY <1>1, <1>2 DEF TypeOK, Fresh
<1>5. Past' /\ LimitKept'
  BY <1>1, <1>2 DEF Past, LimitKept, GrantedWithin
<1>6. Listed'
  <2>1. /\ DOMAIN hits' \subseteq DOMAIN hits
        /\ \A c \in DOMAIN hits' : hits'[c] = hits[c]
    <3>1. DOMAIN Recent(hits, read[t]) \subseteq DOMAIN hits
      BY <1>2, RecentType
    <3>2. \A c \in DOMAIN Recent(hits, read[t]) : Recent(hits, read[t])[c] = hits[c]
      BY RecentIs
    <3>. QED
      BY <1>1, <3>1, <3>2
  <2>. QED
    BY <1>1, <1>2, <2>1 DEF Listed
<1>7. Dropped'
  BY <1>1, <1>2, DroppedIsOld DEF Dropped
<1>. QED
  BY <1>3, <1>4, <1>5, <1>6, <1>7 DEF LimiterInv

LEMMA AllowKeeps ==
    ASSUME LimiterInv, NEW t \in Threads, Allow(t)
    PROVE  LimiterInv'
<1>. DEFINE call == Len(granted) + 1
            kept == DOMAIN Recent(hits, read[t])
<1>1. /\ now' = now /\ granted' = Append(granted, now) /\ read[t] # NoTime
      /\ read' = [read EXCEPT ![t] = NoTime]
      /\ hits' = Recorded(Recent(hits, read[t]), read[t])
      /\ Cardinality(kept) < Limit
  BY DEF Allow
<1>2. TypeOK /\ Fresh /\ Past /\ Listed /\ Dropped /\ LimitKept
  BY DEF LimiterInv
<1>3. /\ DOMAIN granted = 1..Len(granted) /\ Len(granted) \in Nat
      /\ DOMAIN granted' = DOMAIN granted \cup {call} /\ call \notin DOMAIN granted
      /\ \A c \in DOMAIN granted : granted'[c] = granted[c]
      /\ granted'[call] = now
  BY <1>1, <1>2 DEF TypeOK
<1>4. /\ now \in Nat /\ now \in Instants /\ read[t] \in Nat /\ read[t] \in Instants
      /\ read[t] <= now /\ now <= read[t] + MaxStall
  BY <1>1, <1>2, LimiterAssumption DEF TypeOK, Fresh, Instants
<1>5. /\ DOMAIN hits' = kept \cup {call} /\ call \notin kept
      /\ hits'[call] = read[t] /\ \A c \in kept : hits'[c] = hits[c]
  BY <1>1, <1>2, RecordedIs
<1>6. kept \subseteq DOMAIN hits /\ kept \subseteq DOMAIN granted
  BY <1>2, RecentType
<1>7. hits' = [c \in DOMAIN hits' |-> hits'[c]]
  BY <1>1 DEF Recorded
<1>8. Cardinality(DOMAIN hits') <= Limit
  BY <1>1, <1>2, RecordedCount
<1>9. \A c \in DOMAIN granted \ kept : granted[c] + Window <= now + MaxStall
  BY <1>1, <1>2, DroppedIsOld
<1>. HIDE DEF call, kept
<1>10. TypeOK'
  <2>1. \A c \in DOMAIN hits' : hits'[c] \in Instants
    BY <1>2, <1>4, <1>5, <1>6 DEF TypeOK
  <2>2. hits' \in [DOMAIN hits' -> Instants]
    BY <1>7, <2>1
  <2>3. DOMAIN hits' \subseteq DOMAIN granted'
    BY <1>3, <1>5, <1>6
  <2>4. now' \in Instants /\ granted' \in Seq(Instants)
    BY <1>1, <1>2, <1>4 DEF TypeOK
  <2>5. read' \in [Threads -> Instants \cup {NoTime}]
    BY <1>1, <1>2 DEF TypeOK
  <2>. QED
    BY <1>8, <2>2, <2>3, <2>4, <2>5 DEF TypeOK
<1>11. Fresh'
  BY <1>1, <1>2 DEF TypeOK, Fresh
<1>12. Past'
  BY <1>1, <1>2, <1>3, <1>4 DEF Past
<1>13. Listed'
  BY <1>2, <1>3, <1>4, <1>5, <1>6 DEF Listed
<1>14. Dropped'
  BY <1>1, <1>3, <1>5, <1>9 DEF Dropped
<1>15. LimitKept'
  <2>. SUFFICES ASSUME Window > MaxStall, NEW end \in 0..now
                PROVE  Cardinality(GrantedWithin(end, Window - MaxStall)') <= Limit
    BY <1>1 DEF LimitKept
  <2>1. CASE end = now
    <3>1. NowKept'
      BY <1>10, <1>14, NowIsKept, PTL
    <3>. QED
      BY <1>1, <2>1, <3>1 DEF NowKept, GrantedWithin
  <2>2. CASE end # now
    <3>1. GrantedWithin(end, Window - MaxStall)' = GrantedWithin(end, Window - MaxStall)
      BY <1>1, <1>2, <2>2, PastIsPast
    <3>. QED
      BY <1>2, <3>1 DEF LimitKept
  <2>. QED
    BY <2>1, <2>2
<1>. QED
  BY <1>10, <1>11, <1>12, <1>13, <1>14, <1>15 DEF LimiterInv

LEMMA LimiterInvHolds == Spec => []LimiterInv
<1>1. LimiterInv /\ [Next]_vars => LimiterInv'
  <2>. SUFFICES ASSUME LimiterInv, [Next]_vars PROVE LimiterInv'
    OBVIOUS
  <2>1. CASE UNCHANGED vars
    BY <2>1 DEF vars, LimiterInv, TypeOK, Fresh, Past, Listed, Dropped, LimitKept,
                GrantedWithin
  <2>. QED
    BY <2>1, TickKeeps, ReadClockKeeps, AllowKeeps, RefuseKeeps DEF Next
<1>. QED
  BY <1>1, InitHolds, PTL DEF Spec

-----------------------------------------------------------------------------
\* The list never outgrows the limit and holds granted calls only.
THEOREM LimiterTyped == Spec => []TypeOK
<1>1. LimiterInv => TypeOK
  BY DEF LimiterInv
<1>. QED
  BY <1>1, LimiterInvHolds, PTL

\* No window shortened by the longest delay between clock and lock sees more
\* than `limit` granted calls, whatever the threads do in between (allow()).
THEOREM LimiterKeepsLimit == Spec => []LimitKept
<1>1. LimiterInv => LimitKept
  BY DEF LimiterInv
<1>. QED
  BY <1>1, LimiterInvHolds, PTL

\* Of a refusal: the calls that are recent at its reading fill the window
\* before it, lengthened by the longest delay.
LEMMA RefusalFills ==
    ASSUME LimiterInv, NEW t \in Threads, Refuse(t)
    PROVE  Cardinality(GrantedWithin(now, Window + MaxStall)) >= Limit
<1>. DEFINE kept == DOMAIN Recent(hits, read[t])
            Within == GrantedWithin(now, Window + MaxStall)
<1>1. TypeOK /\ Fresh /\ Past /\ Listed
  BY DEF LimiterInv
<1>2. read[t] # NoTime /\ Cardinality(kept) >= Limit
  BY DEF Refuse
<1>3. now \in Nat /\ read[t] \in Nat /\ now <= read[t] + MaxStall
  BY <1>1, <1>2, LimiterAssumption DEF TypeOK, Fresh, Instants
<1>4. kept \subseteq Within
  <2>. SUFFICES ASSUME NEW c \in kept
                PROVE  /\ c \in DOMAIN granted /\ granted[c] <= now
                       /\ now < granted[c] + (Window + MaxStall)
    BY DEF GrantedWithin
  <2>1. c \in DOMAIN hits /\ c \in DOMAIN granted /\ hits[c] + Window > read[t]
    BY <1>1, RecentIs, RecentType
  <2>2. hits[c] <= granted[c] /\ granted[c] <= now
    BY <1>1, <2>1 DEF Listed, Past
  <2>3. granted[c] \in Nat /\ hits[c] \in Nat
    BY <1>1, <2>1, Numbers
  <2>. QED
    BY <1>3, <2>1, <2>2, <2>3, LimiterAssumption
<1>5. Within \subseteq DOMAIN granted
  BY DEF GrantedWithin
<1>. HIDE DEF kept, Within
<1>6. Cardinality(kept) <= Cardinality(Within)
  BY <1>1, <1>4, <1>5, SmallerParts
<1>7. Cardinality(kept) \in Nat /\ Cardinality(Within) \in Nat
  BY <1>1, <1>4, <1>5, FiniteParts
<1>. QED
  BY <1>2, <1>6, <1>7, LimiterAssumption DEF Within

\* allow() refuses only when `limit` calls were granted in the window before,
\* lengthened by the longest delay: the limiter locks nobody out.
THEOREM RefusalsAreJustified == Spec => RefusalJustified
<1>. DEFINE Justified ==
         \A t \in Threads :
             read[t] # NoTime /\ read'[t] = NoTime /\ granted' = granted =>
                 Cardinality(GrantedWithin(now, Window + MaxStall)) >= Limit
<1>1. ASSUME LimiterInv, [Next]_vars PROVE [Justified]_vars
  <2>. SUFFICES ASSUME NEW t \in Threads, Next, read[t] # NoTime, read'[t] = NoTime,
                       granted' = granted
                PROVE  Cardinality(GrantedWithin(now, Window + MaxStall)) >= Limit
    BY <1>1
  <2>1. read \in [Threads -> Instants \cup {NoTime}] /\ granted \in Seq(Instants)
        /\ now \in Nat /\ now # NoTime
    BY <1>1, LimiterAssumption DEF LimiterInv, TypeOK, Instants
  <2>2. ~Tick
    BY DEF Tick
  <2>3. ASSUME NEW u \in Threads, ReadClock(u) PROVE FALSE
    BY <2>1, <2>3 DEF ReadClock
  <2>4. ASSUME NEW u \in Threads, Allow(u) PROVE FALSE
    <3>1. granted' = Append(granted, now)
      BY <2>4 DEF Allow
    <3>2. now \in Instants
      BY <1>1 DEF LimiterInv, TypeOK
    <3>3. Len(granted') = Len(granted) + 1 /\ Len(granted) \in Nat
      BY <2>1, <3>1, <3>2
    <3>. QED
      BY <3>3
  <2>5. ASSUME NEW u \in Threads, Refuse(u)
        PROVE  Cardinality(GrantedWithin(now, Window + MaxStall)) >= Limit
    BY <1>1, <2>5, RefusalFills
  <2>. QED
    BY <2>2, <2>3, <2>4, <2>5 DEF Next
<1>. QED
  BY <1>1, LimiterInvHolds, PTL DEF Spec, RefusalJustified
=============================================================================
