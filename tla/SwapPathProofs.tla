--------------------------- MODULE SwapPathProofs ---------------------------
(***************************************************************************)
(* What the parts that a swap passes before it reaches the router keep, for*)
(* all parties, policies, tiers, amounts and times: the resolver cache, the*)
(* pipeline that resolves through it, the oracle the pipeline asks, and the*)
(* RiskPolicy record that both read.                                       *)
(***************************************************************************)
EXTENDS SwapPath, TLAPS

-----------------------------------------------------------------------------
(***************************************************************************)
(* The resolver cache (packages/core/src/resolver-cache.ts), for any number*)
(* of callers, of layers in a profile, any TTL, latency, lag and clock.    *)
(***************************************************************************)
EntryRec == [profile : Profile, askedAt : 0..MaxTime, expiresAt : 0..(MaxTime + TTL)]
LookupRec == [pc : {"idle", "resolving", "served"}, bypass : BOOLEAN, since : 0..MaxTime,
              left : 0..Layers, profile : Profile, askedAt : 0..MaxTime]

\* Edits and answers lie in the past.
SharedInv ==
  /\ now \in 0..MaxTime /\ version \in 0..MaxVersion
  /\ editedAt \in [0..MaxVersion -> 0..MaxTime]
  /\ \A v \in 0..version : editedAt[v] <= now
  /\ goodAt \in (-TTL)..MaxTime /\ goodAt <= now

\* No part of a profile had been replaced a lag before it was asked for.
AsOf(p, t) == p.oldest < version => editedAt[p.oldest + 1] + Lag >= t

\* An entry that is there was written with the last good answer, at most one
\* latency after it was asked for.  A good answer has its entry for a TTL.
EntryInv(entry, good) ==
  /\ entry \in EntryRec /\ entry.profile.quality # "flake" /\ entry.askedAt <= now
  /\ entry.expiresAt # 0 => /\ entry.expiresAt = good + TTL
                            /\ good <= entry.askedAt + MaxLatency
                            /\ AsOf(entry.profile, entry.askedAt)
  /\ good + TTL > now => entry.expiresAt > now

\* A lookup waits no longer than its limit for what it asked itself; what it is
\* served was asked for at most a TTL and a latency earlier.
LookupInv(l, good) ==
  /\ l.since <= now /\ l.askedAt <= l.since
  /\ l.pc # "idle" => AsOf(l.profile, l.askedAt)
  /\ l.pc = "resolving" => l.askedAt = l.since /\ now <= l.since + MaxLatency
  /\ l.pc = "served" => /\ l.since - l.askedAt < TTL + MaxLatency
                        /\ l.bypass => l.askedAt = l.since
                        /\ l.since > good => l.askedAt >= good - MaxLatency

AgeInv == /\ SharedInv /\ EntryInv(cache, goodAt)
          /\ lookups \in [Callers -> LookupRec]
          /\ \A c \in Callers : LookupInv(lookups[c], goodAt)

\* A step of one caller: its lookup is replaced, the entry is as the invariant has
\* it, and a good answer, if there is one, is one of now.
LEMMA OneLookup ==
  ASSUME AgeInv, NEW c \in Callers, NEW l \in LookupRec,
         lookups' = [lookups EXCEPT ![c] = l], LookupInv(l, goodAt'), EntryInv(cache', goodAt'),
         now' = now, version' = version, editedAt' = editedAt, goodAt' \in {goodAt, now}
  PROVE  AgeInv'
<1>1. SharedInv' BY CacheAssumption DEF AgeInv, SharedInv
<1>2. lookups' \in [Callers -> LookupRec] BY DEF AgeInv
<1>3. ASSUME NEW d \in Callers PROVE LookupInv(lookups'[d], goodAt')
  <2>1. CASE d = c BY <2>1 DEF AgeInv
  <2>2. CASE d # c
    <3>1. lookups'[d] = lookups[d] /\ lookups[d] \in LookupRec /\ LookupInv(lookups[d], goodAt)
      BY <2>2 DEF AgeInv
    <3>2. lookups[d].since <= now /\ now \in Int /\ lookups[d].since \in Int
      BY <3>1, CacheAssumption DEF AgeInv, SharedInv, LookupRec, LookupInv
    <3>3. goodAt' = now => ~(lookups[d].since > goodAt') BY <3>2
    <3> QED BY <3>1, <3>3 DEF LookupInv
  <2> QED BY <2>1, <2>2
<1>4. \A d \in Callers : LookupInv(lookups[d], goodAt)' BY <1>3 DEF LookupInv, AsOf
<1>5. EntryInv(cache, goodAt)' BY DEF EntryInv, AsOf
<1> QED BY <1>1, <1>2, <1>4, <1>5 DEF AgeInv, LookupRec, EntryRec, Profile

\* No lookup has begun.
LEMMA InitAge == Init => AgeInv
<1> SUFFICES ASSUME Init PROVE AgeInv OBVIOUS
<1>1. SharedInv BY CacheAssumption DEF Init, SharedInv
<1>2. EntryInv(cache, goodAt) BY CacheAssumption DEF Init, EntryInv, EntryRec, NoEntry, Blank, Profile, Quality
<1>3. Idle \in LookupRec /\ LookupInv(Idle, goodAt)
  BY CacheAssumption DEF Init, Idle, LookupRec, LookupInv, Blank, Profile, Quality
<1> QED BY <1>1, <1>2, <1>3 DEF Init, AgeInv

\* Nothing is kept: the invariant asks for an entry only when one is fresh.
LEMMA NothingKept == ASSUME AgeInv, ~Fresh(cache) PROVE EntryInv(NoEntry, goodAt)
<1> USE CacheAssumption
<1>1. cache.expiresAt <= now /\ now \in 0..MaxTime BY DEF AgeInv, SharedInv, EntryInv, EntryRec, Fresh
<1>2. ~(goodAt + TTL > now)
  <2>1. goodAt \in Int /\ cache.expiresAt \in Int BY DEF AgeInv, SharedInv, EntryInv, EntryRec
  <2>2. goodAt + TTL > now => cache.expiresAt > now BY DEF AgeInv, EntryInv
  <2> QED BY <1>1, <2>1, <2>2
<1>3. NoEntry \in EntryRec BY DEF NoEntry, EntryRec, Blank, Profile, Quality
<1> QED BY <1>1, <1>2, <1>3 DEF EntryInv, NoEntry, Blank

\* A lookup begins: served from a fresh entry, or by the resolver.
LEMMA LookupAge == ASSUME AgeInv, NEW c \in Callers, Lookup(c) PROVE AgeInv'
<1> USE CacheAssumption
<1>1. PICK bypass \in BOOLEAN :
        /\ lookups[c].pc = "idle"
        /\ lookups' = [lookups EXCEPT ![c] =
             IF Hit(bypass)
             THEN [pc |-> "served", bypass |-> bypass, since |-> now, left |-> 0,
                   profile |-> cache.profile, askedAt |-> cache.askedAt]
             ELSE [pc |-> "resolving", bypass |-> bypass, since |-> now, left |-> Layers,
                   profile |-> Blank, askedAt |-> now]]
        /\ cache' = IF bypass \/ Hit(bypass) THEN cache ELSE NoEntry
        /\ UNCHANGED <<now, version, editedAt, goodAt>>
  BY DEF Lookup
<1>2. EntryInv(cache', goodAt) BY <1>1, NothingKept DEF AgeInv, Hit
<1>3. EntryInv(cache', goodAt') BY <1>1, <1>2 DEF EntryInv, AsOf
<1>4. now \in 0..MaxTime /\ version \in 0..MaxVersion /\ goodAt \in Int /\ goodAt <= now /\ EntryInv(cache, goodAt) /\ cache \in EntryRec
  BY DEF AgeInv, SharedInv, EntryInv
<1>5. CASE Hit(bypass)
  <2> DEFINE l == [pc |-> "served", bypass |-> bypass, since |-> now, left |-> 0,
                   profile |-> cache.profile, askedAt |-> cache.askedAt]
  <2>1. ~bypass /\ cache.expiresAt > now BY <1>5 DEF Hit, Fresh
  <2>2. l \in LookupRec BY <1>4 DEF EntryRec, LookupRec
  <2>3. /\ cache.askedAt \in Int /\ cache.askedAt <= now /\ cache.expiresAt = goodAt + TTL
        /\ goodAt <= cache.askedAt + MaxLatency /\ AsOf(cache.profile, cache.askedAt)
    BY <1>4, <2>1 DEF EntryInv, EntryRec
  <2>4. now - cache.askedAt < TTL + MaxLatency BY <1>4, <2>1, <2>3
  <2>5. cache.askedAt >= goodAt - MaxLatency BY <1>4, <2>3
  <2>6. LookupInv(l, goodAt)
    BY <1>4, <2>1, <2>3, <2>4, <2>5 DEF LookupInv
  <2>7. LookupInv(l, goodAt') BY <1>1, <2>6 DEF LookupInv, AsOf
  <2>8. lookups' = [lookups EXCEPT ![c] = l] BY <1>1, <1>5
  <2> HIDE DEF l
  <2> QED BY <1>1, <1>3, <2>2, <2>7, <2>8, OneLookup
<1>6. CASE ~Hit(bypass)
  <2> DEFINE l == [pc |-> "resolving", bypass |-> bypass, since |-> now, left |-> Layers,
                   profile |-> Blank, askedAt |-> now]
  <2>1. l \in LookupRec BY <1>4 DEF LookupRec, Blank, Profile, Quality
  <2>2. LookupInv(l, goodAt') BY <1>1, <1>4 DEF LookupInv, AsOf, Blank
  <2>3. lookups' = [lookups EXCEPT ![c] = l] BY <1>1, <1>6
  <2> HIDE DEF l
  <2> QED BY <1>1, <1>3, <2>1, <2>2, <2>3, OneLookup
<1> QED BY <1>5, <1>6

\* A layer shows records that were right within the lag, or shows none.
LEMMA LayerAge == ASSUME AgeInv, NEW c \in Callers, ReadLayer(c) PROVE AgeInv'
<1> USE CacheAssumption
<1> DEFINE old == lookups[c]
<1>1. PICK p \in {WithLayer(old.profile, v) : v \in {v \in 0..MaxVersion : Shown(v)}}
                 \cup {WithoutLayer(old.profile, q) : q \in {"partial", "flake"}} :
        /\ old.pc = "resolving" /\ old.left > 0
        /\ lookups' = [lookups EXCEPT ![c].left = @ - 1, ![c].profile = p]
        /\ UNCHANGED <<now, version, editedAt, cache, goodAt>>
  BY DEF ReadLayer
<1> DEFINE l == [old EXCEPT !.left = @ - 1, !.profile = p]
<1>2. old \in LookupRec /\ LookupInv(old, goodAt) /\ old.profile \in Profile /\ old.askedAt \in 0..MaxTime
      /\ old.left \in 0..Layers
  BY DEF AgeInv, LookupRec
<1>3. old.askedAt = old.since /\ old.since <= now /\ now \in Nat /\ version \in 0..MaxVersion
  BY <1>1, <1>2 DEF LookupInv, AgeInv, SharedInv
<1>4. p \in Profile /\ AsOf(p, old.askedAt)
  <2>1. CASE p \in {WithLayer(old.profile, v) : v \in {v \in 0..MaxVersion : Shown(v)}}
    <3>1. PICK v \in 0..MaxVersion : Shown(v) /\ p = WithLayer(old.profile, v) BY <2>1
    <3>2. p = [old.profile EXCEPT !.oldest = IF v < old.profile.oldest THEN v ELSE old.profile.oldest]
      BY <3>1 DEF WithLayer
    <3>3. CASE v < old.profile.oldest
      <4>1. p.oldest = v /\ p \in Profile BY <1>2, <3>2, <3>3 DEF Profile
      <4>2. v < version => editedAt[v + 1] + Lag >= now
        <5>1. v < version => v + 1 \in 0..MaxVersion BY <1>3
        <5>2. v < version => editedAt[v + 1] \in Int BY <5>1 DEF AgeInv, SharedInv
        <5>3. v < version => now - editedAt[v + 1] <= Lag BY <3>1 DEF Shown
        <5> QED BY <1>3, <5>2, <5>3
      <4>3. v < version => editedAt[v + 1] \in Int
        <5>1. v < version => v + 1 \in 0..MaxVersion BY <1>3
        <5> QED BY <5>1 DEF AgeInv, SharedInv
      <4> QED BY <1>2, <1>3, <4>1, <4>2, <4>3 DEF AsOf
    <3>4. CASE ~(v < old.profile.oldest)
      <4>1. p.oldest = old.profile.oldest /\ p \in Profile BY <1>2, <3>2, <3>4 DEF Profile
      <4> QED BY <1>1, <1>2, <4>1 DEF AsOf, LookupInv
    <3> QED BY <3>3, <3>4
  <2>2. CASE p \in {WithoutLayer(old.profile, q) : q \in {"partial", "flake"}}
    <3>1. p.oldest = old.profile.oldest /\ p \in Profile BY <1>2, <2>2 DEF WithoutLayer, Profile, Quality
    <3> QED BY <1>1, <1>2, <3>1 DEF AsOf, LookupInv
  <2> QED BY <2>1, <2>2
<1>5. l \in LookupRec
  <2>1. old.left - 1 \in 0..Layers BY <1>1, <1>2
  <2> QED BY <1>2, <1>4, <2>1 DEF LookupRec
<1>6. l.pc = "resolving" /\ l.since = old.since /\ l.askedAt = old.askedAt /\ l.profile = p
  BY <1>1, <1>2 DEF LookupRec
<1>7. LookupInv(l, goodAt) BY <1>1, <1>2, <1>4, <1>6 DEF LookupInv
<1>8. LookupInv(l, goodAt') BY <1>1, <1>7 DEF LookupInv, AsOf
<1>9. lookups' = [lookups EXCEPT ![c] = l] BY <1>1
<1>10. EntryInv(cache', goodAt') BY <1>1 DEF AgeInv, EntryInv, AsOf
<1> HIDE DEF l
<1> QED BY <1>1, <1>5, <1>8, <1>9, <1>10, OneLookup

\* A lookup ends without an answer, or its answer has been used.
LEMMA EndAge == ASSUME AgeInv, NEW c \in Callers, ResolveFails(c) \/ CallerUses(c) PROVE AgeInv'
<1>1. /\ lookups' = [lookups EXCEPT ![c] = Idle]
      /\ UNCHANGED <<now, version, editedAt, cache, goodAt>>
  BY DEF ResolveFails, CallerUses
<1>2. Idle \in LookupRec /\ LookupInv(Idle, goodAt)
  BY CacheAssumption DEF AgeInv, SharedInv, Idle, LookupRec, LookupInv, Blank, Profile, Quality
<1>3. LookupInv(Idle, goodAt') BY <1>1, <1>2 DEF LookupInv, AsOf, Idle
<1>4. EntryInv(cache', goodAt') BY <1>1 DEF AgeInv, EntryInv, AsOf
<1> QED BY <1>1, <1>2, <1>3, <1>4, OneLookup

\* The older of two overlapping reads may be written last: its entry still
\* expires a TTL and a latency after it was asked for.
LEMMA ResumeAge == ASSUME AgeInv, NEW c \in Callers, Resume(c) PROVE AgeInv'
<1> USE CacheAssumption
<1> DEFINE old == lookups[c]  l == [old EXCEPT !.pc = "served"]
<1>1. /\ old.pc = "resolving" /\ lookups' = [lookups EXCEPT ![c] = l]
      /\ cache' = EntryAfter(old)
      /\ goodAt' = IF old.profile.quality = "flake" THEN goodAt ELSE now
      /\ UNCHANGED <<now, version, editedAt>>
  BY DEF Resume
<1>2. old \in LookupRec /\ LookupInv(old, goodAt) /\ old.profile \in Profile /\ old.askedAt \in 0..MaxTime
  BY DEF AgeInv, LookupRec
<1>3. /\ old.askedAt = old.since /\ old.since <= now /\ now <= old.since + MaxLatency
      /\ AsOf(old.profile, old.askedAt) /\ old.askedAt <= now
  BY <1>1, <1>2 DEF LookupInv
<1>4. now \in 0..MaxTime /\ goodAt \in Int /\ goodAt <= now BY DEF AgeInv, SharedInv
<1>5. l \in LookupRec /\ l.pc = "served" /\ l.since = old.since /\ l.askedAt = old.askedAt /\ l.profile = old.profile
  BY <1>2 DEF LookupRec
<1>6. goodAt' \in Int /\ (l.since > goodAt' => l.askedAt >= goodAt' - MaxLatency)
  BY <1>1, <1>2, <1>3, <1>4, <1>5
<1>7. l.since - l.askedAt < TTL + MaxLatency /\ l.since <= now /\ l.askedAt <= l.since /\ l.askedAt = l.since
  BY <1>2, <1>3, <1>5
<1>8. AsOf(l.profile, l.askedAt) BY <1>1, <1>3, <1>5 DEF AsOf
<1> HIDE DEF l
<1>9. LookupInv(l, goodAt') BY <1>1, <1>5, <1>6, <1>7, <1>8 DEF LookupInv
<1>10. EntryInv(cache', goodAt')
  <2>1. CASE old.profile.quality = "flake"
    <3>1. cache' = cache /\ goodAt' = goodAt BY <1>1, <2>1 DEF EntryAfter, IsFlakeShape
    <3> QED BY <1>1, <3>1 DEF AgeInv, EntryInv, AsOf
  <2>2. CASE old.profile.quality # "flake"
    <3> DEFINE e == [profile |-> old.profile, askedAt |-> old.askedAt, expiresAt |-> now + TTL]
    <3>1. cache' = e /\ goodAt' = now BY <1>1, <2>2 DEF EntryAfter, IsFlakeShape, EntryOf
    <3>2. e \in EntryRec BY <1>2, <1>4 DEF EntryRec
    <3>3. e.profile.quality # "flake" /\ e.askedAt <= now /\ e.expiresAt = now + TTL /\ now <= e.askedAt + MaxLatency
          /\ e.expiresAt > now /\ e.profile = old.profile /\ e.askedAt = old.askedAt
      BY <1>2, <1>3, <1>4, <2>2
    <3>4. AsOf(e.profile, e.askedAt) BY <1>1, <1>3, <3>3 DEF AsOf
    <3> HIDE DEF e
    <3> QED BY <1>1, <3>1, <3>2, <3>3, <3>4 DEF EntryInv, EntryRec, Profile
  <2> QED BY <2>1, <2>2
<1>11. goodAt' \in {goodAt, now} BY <1>1
<1> QED BY <1>1, <1>5, <1>9, <1>10, <1>11, OneLookup

\* What was right until now is outdated from now on.
LEMMA EditAsOf ==
  ASSUME AgeInv, EditRecords, NEW p \in Profile, NEW t \in Nat, t <= now, AsOf(p, t)
  PROVE  p.oldest < version' => editedAt'[p.oldest + 1] + Lag >= t
<1> USE CacheAssumption
<1>1. /\ version' = version + 1 /\ editedAt' = [editedAt EXCEPT ![version + 1] = now]
      /\ version \in 0..MaxVersion /\ version + 1 \in 0..MaxVersion /\ now \in Nat
      /\ editedAt \in [0..MaxVersion -> 0..MaxTime]
  BY DEF EditRecords, AgeInv, SharedInv
<1>2. p.oldest \in 0..MaxVersion BY DEF Profile
<1>3. CASE p.oldest = version
  <2>1. editedAt'[p.oldest + 1] = now BY <1>1, <1>3
  <2> QED BY <1>1, <2>1 DEF AsOf
<1>4. CASE p.oldest < version
  <2>1. editedAt'[p.oldest + 1] = editedAt[p.oldest + 1] BY <1>1, <1>2, <1>4
  <2>2. editedAt[p.oldest + 1] + Lag >= t BY <1>4 DEF AsOf
  <2> QED BY <2>1, <2>2 DEF AsOf
<1>5. CASE p.oldest > version
  <2>1. ~(p.oldest < version') BY <1>1, <1>2, <1>5
  <2> QED BY <2>1 DEF AsOf
<1> QED BY <1>1, <1>2, <1>3, <1>4, <1>5

\* The records are edited.
LEMMA EditAge == ASSUME AgeInv, EditRecords PROVE AgeInv'
<1> USE CacheAssumption
<1>1. /\ version < MaxVersion /\ version' = version + 1
      /\ editedAt' = [editedAt EXCEPT ![version + 1] = now]
      /\ UNCHANGED <<now, cache, lookups, goodAt>>
  BY DEF EditRecords
<1>2. /\ now \in 0..MaxTime /\ version \in 0..MaxVersion
      /\ editedAt \in [0..MaxVersion -> 0..MaxTime]
      /\ \A v \in 0..version : editedAt[v] <= now
  BY DEF AgeInv, SharedInv
<1>3. \A v \in 0..(version + 1) : editedAt'[v] <= now
  <2> SUFFICES ASSUME NEW v \in 0..(version + 1) PROVE editedAt'[v] <= now OBVIOUS
  <2>1. CASE v = version + 1 BY <1>1, <1>2, <2>1
  <2>2. CASE v # version + 1
    <3>1. v \in 0..version /\ v \in 0..MaxVersion BY <1>2, <2>2
    <3> QED BY <1>1, <1>2, <2>2, <3>1
  <2> QED BY <2>1, <2>2
<1>4. SharedInv' BY <1>1, <1>2, <1>3 DEF SharedInv, AgeInv
<1>5. EntryInv(cache, goodAt)'
  <2>1. cache \in EntryRec /\ EntryInv(cache, goodAt) /\ cache.profile \in Profile /\ cache.askedAt \in Nat /\ cache.askedAt <= now
    BY DEF AgeInv, EntryInv, EntryRec
  <2>2. AsOf(cache.profile, cache.askedAt) => (cache.profile.oldest < version' =>
          editedAt'[cache.profile.oldest + 1] + Lag >= cache.askedAt)
    BY <2>1, EditAsOf
  <2>3. AsOf(cache.profile, cache.askedAt) => AsOf(cache.profile, cache.askedAt)' BY <1>1, <2>2 DEF AsOf
  <2> QED BY <1>1, <2>1, <2>3 DEF EntryInv, EntryRec, Profile
<1>6. ASSUME NEW c \in Callers PROVE LookupInv(lookups[c], goodAt)'
  <2>1. /\ lookups[c] \in LookupRec /\ LookupInv(lookups[c], goodAt)
        /\ lookups[c].profile \in Profile /\ lookups[c].askedAt \in Nat /\ lookups[c].askedAt <= now
    BY <1>2 DEF AgeInv, LookupInv, LookupRec
  <2>2. AsOf(lookups[c].profile, lookups[c].askedAt) => (lookups[c].profile.oldest < version' =>
          editedAt'[lookups[c].profile.oldest + 1] + Lag >= lookups[c].askedAt)
    BY <2>1, EditAsOf
  <2>3. AsOf(lookups[c].profile, lookups[c].askedAt) => AsOf(lookups[c].profile, lookups[c].askedAt)' BY <1>1, <2>2 DEF AsOf
  <2> QED BY <1>1, <2>1, <2>3 DEF LookupInv
<1>7. lookups' \in [Callers -> LookupRec] BY <1>1 DEF AgeInv
<1> QED BY <1>4, <1>5, <1>6, <1>7 DEF AgeInv, LookupRec, Profile

\* Time passes.
LEMMA TickAge == ASSUME AgeInv, Tick PROVE AgeInv'
<1> USE CacheAssumption
<1>1. /\ now < MaxTime /\ now' = now + 1
      /\ \A c \in Callers : lookups[c].pc = "resolving" => now < lookups[c].since + MaxLatency
      /\ UNCHANGED <<version, editedAt, cache, lookups, goodAt>>
  BY DEF Tick
<1>2. SharedInv' BY <1>1 DEF AgeInv, SharedInv
<1>3. EntryInv(cache, goodAt)'
  <2>1. EntryInv(cache, goodAt) /\ cache \in EntryRec /\ cache.askedAt \in Nat /\ cache.expiresAt \in Nat /\ now \in Nat /\ goodAt \in Int
    BY DEF AgeInv, SharedInv, EntryInv, EntryRec
  <2>2. cache.askedAt <= now + 1 BY <2>1 DEF EntryInv
  <2>3. goodAt + TTL > now + 1 => cache.expiresAt > now + 1
    <3>1. goodAt + TTL > now + 1 => cache.expiresAt > now BY <2>1 DEF EntryInv
    <3>2. cache.expiresAt > now => cache.expiresAt = goodAt + TTL BY <2>1 DEF EntryInv
    <3> QED BY <2>1, <3>1, <3>2
  <2>4. AsOf(cache.profile, cache.askedAt) => AsOf(cache.profile, cache.askedAt)' BY <1>1 DEF AsOf
  <2> QED BY <1>1, <2>1, <2>2, <2>3, <2>4 DEF EntryInv, EntryRec, Profile
<1>4. ASSUME NEW c \in Callers PROVE LookupInv(lookups[c], goodAt)'
  <2>1. LookupInv(lookups[c], goodAt) /\ lookups[c].since \in Nat /\ now \in Nat
    BY DEF AgeInv, SharedInv, LookupRec
  <2>2. AsOf(lookups[c].profile, lookups[c].askedAt) => AsOf(lookups[c].profile, lookups[c].askedAt)' BY <1>1 DEF AsOf
  <2> QED BY <1>1, <2>1, <2>2 DEF LookupInv
<1>5. lookups' \in [Callers -> LookupRec] BY <1>1 DEF AgeInv
<1> QED BY <1>2, <1>3, <1>4, <1>5 DEF AgeInv, LookupRec, Profile

\* Nothing happens.
LEMMA StutterAge == ASSUME AgeInv, UNCHANGED vars PROVE AgeInv'
  BY DEF AgeInv, vars, SharedInv, EntryInv, EntryRec, LookupInv, LookupRec, Profile, AsOf

\* Every step preserves the invariant.
LEMMA StepAge == AgeInv /\ [Next]_vars => AgeInv'
<1> SUFFICES ASSUME AgeInv, [Next]_vars PROVE AgeInv'
  OBVIOUS
<1>1. CASE EditRecords BY <1>1, EditAge
<1>2. CASE Tick BY <1>2, TickAge
<1>3. ASSUME NEW c \in Callers, Lookup(c) PROVE AgeInv' BY <1>3, LookupAge
<1>4. ASSUME NEW c \in Callers, ReadLayer(c) PROVE AgeInv' BY <1>4, LayerAge
<1>5. ASSUME NEW c \in Callers, ResolveFails(c) \/ CallerUses(c) PROVE AgeInv' BY <1>5, EndAge
<1>6. ASSUME NEW c \in Callers, Resume(c) PROVE AgeInv' BY <1>6, ResumeAge
<1>7. CASE UNCHANGED vars BY <1>7, StutterAge
<1> QED BY <1>1, <1>2, <1>3, <1>4, <1>5, <1>6, <1>7 DEF Next

\* The invariant holds in every reachable state.
LEMMA AgeInvariant == Spec => []AgeInv
  BY InitAge, StepAge, PTL DEF Spec

(* No caller of the cache is served what had been replaced a TTL, a latency *)
(* and a lag before it asked, in whatever order overlapping lookups read    *)
(* their layers and write their entries (resolver-cache.ts:72-97).          *)
THEOREM StalenessIsBounded == Spec => []StalenessBounded
<1>1. AgeInv => StalenessBounded
  <2> SUFFICES ASSUME AgeInv, NEW c \in Callers, lookups[c].pc = "served",
                      lookups[c].profile.oldest < version
               PROVE  lookups[c].since - editedAt[lookups[c].profile.oldest + 1] < TTL + MaxLatency + Lag
    BY DEF StalenessBounded, Served
  <2>1. /\ lookups[c] \in LookupRec /\ LookupInv(lookups[c], goodAt) /\ lookups[c].profile.oldest \in 0..MaxVersion
        /\ lookups[c].since \in Int /\ lookups[c].askedAt \in Int
    BY DEF AgeInv, LookupRec, Profile
  <2>2. lookups[c].profile.oldest + 1 \in 0..MaxVersion
    <3>1. version \in 0..MaxVersion BY DEF AgeInv, SharedInv
    <3> QED BY <2>1, <3>1, CacheAssumption
  <2>3. editedAt[lookups[c].profile.oldest + 1] \in Int BY <2>2 DEF AgeInv, SharedInv
  <2>4. /\ editedAt[lookups[c].profile.oldest + 1] + Lag >= lookups[c].askedAt
        /\ lookups[c].since - lookups[c].askedAt < TTL + MaxLatency
    BY <2>1 DEF LookupInv, AsOf
  <2> QED BY <2>1, <2>3, <2>4, CacheAssumption
<1> QED BY <1>1, AgeInvariant, PTL

(* A refresh takes effect: past the cache a caller gets its own read, and   *)
(* after a usable answer whoever asks is not served what had been asked for *)
(* a latency earlier (resolver-cache.ts:72, 97).                            *)
THEOREM RefreshesTakeEffect == Spec => []RefreshTakesEffect
<1>1. AgeInv => RefreshTakesEffect
  <2> SUFFICES ASSUME AgeInv, NEW c \in Callers, lookups[c].pc = "served"
               PROVE  /\ lookups[c].bypass /\ lookups[c].profile.oldest < version
                           => editedAt[lookups[c].profile.oldest + 1] >= lookups[c].since - Lag
                      /\ lookups[c].since > goodAt => lookups[c].askedAt >= goodAt - MaxLatency
    BY DEF RefreshTakesEffect, Served
  <2>1. /\ lookups[c] \in LookupRec /\ LookupInv(lookups[c], goodAt) /\ lookups[c].profile.oldest \in 0..MaxVersion
        /\ lookups[c].since \in Int
    BY DEF AgeInv, LookupRec, Profile
  <2>2. ASSUME lookups[c].bypass, lookups[c].profile.oldest < version
        PROVE  editedAt[lookups[c].profile.oldest + 1] >= lookups[c].since - Lag
    <3>1. lookups[c].profile.oldest + 1 \in 0..MaxVersion
      <4>1. version \in 0..MaxVersion BY DEF AgeInv, SharedInv
      <4> QED BY <2>1, <2>2, <4>1, CacheAssumption
    <3>2. editedAt[lookups[c].profile.oldest + 1] \in Int BY <3>1 DEF AgeInv, SharedInv
    <3>3. editedAt[lookups[c].profile.oldest + 1] + Lag >= lookups[c].since BY <2>1, <2>2 DEF LookupInv, AsOf
    <3> QED BY <2>1, <3>2, <3>3, CacheAssumption
  <2> QED BY <2>1, <2>2 DEF LookupInv
<1> QED BY <1>1, AgeInvariant, PTL

(* Bad reads pass: a flake stays with the caller that made it and takes no  *)
(* good answer away, and a profile that lacks a layer is gone a TTL and a   *)
(* latency after it was asked for (resolver-cache.ts:95, 108-112).          *)
THEOREM BadReadsDoPass == Spec => []BadReadsPass
<1>1. AgeInv => BadReadsPass BY DEF AgeInv, EntryInv, LookupInv, BadReadsPass, Fresh, Served
<1> QED BY <1>1, AgeInvariant, PTL

\* It is well typed.
LEMMA AgeTypeOK == AgeInv => TypeOK
  BY DEF AgeInv, SharedInv, EntryInv, EntryRec, LookupRec, TypeOK

-----------------------------------------------------------------------------
(***************************************************************************)
(* The pipeline (packages/core/src/orchestrate.ts), whatever its cache holds*)
(* and whatever is edited between two of its awaits.                       *)
(***************************************************************************)
Quotes == [quote : {0, 1, 2}, payer : {"signer", "zero"}]
Entries == {p \in Profiles : ~IsFlake(p)} \cup {Miss}
WorldType == [names : [Name -> Profiles], policy : Policies \cup {NoPolicy}]
RunType ==
  [pc : Stages, halt : Halts, dry : BOOLEAN, caller : BOOLEAN, profile : Profiles,
   policy : Policies \cup {NoPolicy}, swapper : Profiles \cup {Miss},
   fresh : Profiles \cup {Miss}, quote : Quotes, sent : Quotes, clean : BOOLEAN, lost : BOOLEAN]

\* What the oracle's signature vouches for.
Vouched(a) ==
  LET truth == a.truth.names IN
  /\ a.recipient = truth["recipient"].addr
  /\ truth["swapper"].tier > 0 /\ truth["recipient"].tier + truth["parent"].tier > 0
  /\ ~a.blind => ~PolicyForbids(a.truth)

\* A run that still runs has neither halted nor sent anything, the one that is about
\* to send holds the attestation of its own quote, and so does the one that has sent.
StageInv(r, a) ==
  /\ r.pc # "ended" => r.halt = "none" /\ r.sent = NoQuote
  /\ r.pc = "executing" => Vouched(a) /\ a.hash = r.quote /\ ~r.dry
  /\ r.sent # NoQuote => Vouched(a) /\ a.hash = r.sent /\ ~r.dry
  /\ r.pc = "retryParent" => r.fresh # Miss
  /\ r.pc = "valuing" => r.policy # NoPolicy

\* A refusal that the truth bears out.
Deserved(r) ==
  /\ r.halt = "gate-deny" => ~GateAllows(TrueRecipient)
  /\ r.halt = "recipient-unresolved" => TrueRecipient.addr = NoAddress
  /\ r.halt = "risk-policy-deny" => world.policy # NoPolicy /\
       \/ ~world.policy.accepts
       \/ r.caller /\ world.names["swapper"].tier < world.policy.minTier
       \/ Size > world.policy.maxSize
  /\ r.halt = "oracle-refusal" => ~r.caller \/ Ineligible(world)

\* A clean run has seen nothing but the truth: what the cache k holds is true, and
\* so is what the run knows of the swapper.
Truthful(r, k) == r.clean =>
  /\ ~r.lost /\ \A n \in Name : k[n] \in {Miss, world.names[n]}
  /\ r.swapper # Miss => r.caller /\ r.swapper = world.names["swapper"]

\* It knows the recipient from its second stage on, with its inheritance from the
\* third, and the policy from the fourth.
Past == {"policy", "swapper", "retry", "retryParent", "valuing", "quoting", "attesting", "executing"}
Knows(r) == r.clean =>
  /\ r.pc = "parent" => r.profile = world.names["recipient"] /\ r.profile.tier = 0
  /\ r.pc \in Past => r.profile = TrueRecipient
  /\ r.pc \in Past \ {"policy"} => r.policy = world.policy
  /\ Deserved(r)

\* A retry that was answered in full has asked for the recipient's own profile, and
\* a denial after it is deserved.
RetryKnows(r) == ~r.lost =>
  /\ r.pc = "retryParent" => r.fresh = world.names["recipient"] /\ r.fresh.tier = 0
  /\ r.halt = "gate-deny" => ~GateAllows(TrueRecipient) \/ TrueRecipient.addr = NoAddress

TruthInv(r, k) == Truthful(r, k) /\ Knows(r) /\ RetryKnows(r)

PipelineInv ==
  /\ world \in WorldType /\ cached \in [Name -> Entries] /\ run \in RunType
  /\ StageInv(run, att) /\ TruthInv(run, cached)

-----------------------------------------------------------------------------
\* Miss is no profile.
LEMMA MissApart == Miss \notin Profiles /\ Unknown \in Profiles /\ NoQuote \in Quotes
  BY DEF Miss, Profiles, Tiers, Unknown, NoQuote, Quotes

\* A lookup returns a profile, and what it leaves in the cache was worth keeping.
LEMMA LookupTyped ==
  ASSUME world \in WorldType, cached \in [Name -> Entries], NEW n \in Name,
         NEW bypass \in BOOLEAN, NEW l \in Lookups(n, bypass)
  PROVE  /\ l.profile \in Profiles /\ [cached EXCEPT ![n] = l.entry] \in [Name -> Entries]
         /\ l.lost \in BOOLEAN
<1>1. cached[n] \in Entries /\ world.names[n] \in Profiles
  BY DEF WorldType
<1>2. CASE ~bypass /\ cached[n] # Miss
  <2>1. l = [profile |-> cached[n], entry |-> cached[n], lost |-> FALSE] BY <1>2 DEF Lookups
  <2>2. cached[n] \in Profiles BY <1>1, <1>2 DEF Entries
  <2> QED BY <1>1, <2>1, <2>2
<1>3. CASE ~(~bypass /\ cached[n] # Miss)
  <2>1. PICK p \in Degraded(world.names[n]) :
          l = [profile |-> p, entry |-> IF IsFlake(p) THEN cached[n] ELSE p, lost |-> p # world.names[n]]
    BY <1>3 DEF Lookups
  <2>2. p \in Profiles
    BY <1>1 DEF Degraded, Profiles, Tiers
  <2>3. l.entry \in Entries
    BY <1>1, <2>1, <2>2 DEF Entries
  <2>4. l.lost \in BOOLEAN BY <2>1
  <2> QED BY <2>1, <2>2, <2>3, <2>4
<1> QED BY <1>2, <1>3

\* One that was answered in full, or from a true entry, returns the truth.
LEMMA LookupTrue ==
  ASSUME world \in WorldType, NEW n \in Name, NEW bypass \in BOOLEAN, NEW l \in Lookups(n, bypass), ~l.lost,
         bypass \/ cached[n] \in {Miss, world.names[n]}
  PROVE  l.profile = world.names[n] /\ l.entry \in {cached[n], world.names[n]}
<1>1. CASE ~bypass /\ cached[n] # Miss
  BY <1>1 DEF Lookups
<1>2. CASE ~(~bypass /\ cached[n] # Miss)
  <2>1. PICK p \in Degraded(world.names[n]) :
          l = [profile |-> p, entry |-> IF IsFlake(p) THEN cached[n] ELSE p, lost |-> p # world.names[n]]
    BY <1>2 DEF Lookups
  <2>2. p = world.names[n] BY <2>1
  <2> QED BY <2>1, <2>2
<1> QED BY <1>1, <1>2

\* It leaves a clean run's cache true.
LEMMA CacheStaysTrue ==
  ASSUME world \in WorldType, cached \in [Name -> Entries], NEW n \in Name, NEW bypass \in BOOLEAN,
         NEW l \in Lookups(n, bypass), ~l.lost, \A m \in Name : cached[m] \in {Miss, world.names[m]}
  PROVE  \A m \in Name : [cached EXCEPT ![n] = l.entry][m] \in {Miss, world.names[m]}
<1>1. l.entry \in {cached[n], world.names[n]} BY LookupTrue
<1> QED BY <1>1

LEMMA InheritedTyped ==
  ASSUME world \in WorldType, NEW own \in Profiles, NEW parent \in Profiles,
         NEW p \in Inherited(own, parent)
  PROVE  p \in Profiles
<1>1. world.names["recipient"] \in Profiles
  BY DEF WorldType, Name
<1>2. CASE parent.tier = 0
  BY <1>2 DEF Inherited
<1>3. CASE parent.tier # 0
  <2>1. PICK a \in {NoAddress, world.names["recipient"].addr, own.addr} :
          p = [parent EXCEPT !.addr = a]
    BY <1>3 DEF Inherited
  <2> QED BY <1>1, <2>1 DEF Profiles
<1> QED BY <1>2, <1>3

\* From two true profiles it is the true one.
LEMMA InheritedTrue ==
  ASSUME world.names["recipient"].tier = 0,
         NEW p \in Inherited(world.names["recipient"], world.names["parent"])
  PROVE  p = TrueRecipient
<1>1. CASE world.names["parent"].tier = 0 BY <1>1 DEF Inherited, TrueRecipient
<1>2. CASE world.names["parent"].tier # 0 BY <1>2 DEF Inherited, TrueRecipient
<1> QED BY <1>1, <1>2

\* A read that came back short leaves all but the observers as it was; one that did
\* not leaves them too.
LEMMA SeenStage ==
  ASSUME NEW r \in RunType, NEW lost \in BOOLEAN
  PROVE  /\ Seen(lost, r) \in RunType
         /\ \A a : StageInv(r, a) => StageInv(Seen(lost, r), a)
         /\ Seen(lost, r).pc = r.pc /\ Seen(lost, r).halt = r.halt
         /\ Seen(lost, r).clean = (r.clean /\ ~lost)
         /\ Seen(lost, r).lost = (r.lost \/ (lost /\ run.pc \in {"retry", "retryParent"}))
<1> DEFINE s == Seen(lost, r)
<1>1. /\ s.pc = r.pc /\ s.halt = r.halt /\ s.sent = r.sent /\ s.quote = r.quote /\ s.dry = r.dry
      /\ s.fresh = r.fresh /\ s.policy = r.policy
      /\ s.clean = (r.clean /\ ~lost) /\ s.lost = (r.lost \/ (lost /\ run.pc \in {"retry", "retryParent"}))
  BY DEF Seen, RunType
<1>2. s \in RunType BY DEF Seen, RunType
<1> HIDE DEF s
<1>3. ASSUME NEW a, StageInv(r, a) PROVE StageInv(s, a) BY <1>1, <1>3 DEF StageInv
<1> QED BY <1>1, <1>2, <1>3 DEF s

LEMMA SeenAll == ASSUME NEW r \in RunType PROVE Seen(FALSE, r) = r
  BY DEF Seen, RunType

LEMMA SeenLess ==
  ASSUME NEW r \in RunType, NEW k,
         run.pc \in {"retry", "retryParent"} \/ (r.halt # "gate-deny" /\ r.pc # "retryParent")
  PROVE  TruthInv(Seen(TRUE, r), k)
<1>1. /\ Seen(TRUE, r).pc = r.pc /\ Seen(TRUE, r).halt = r.halt /\ ~Seen(TRUE, r).clean
      /\ run.pc \in {"retry", "retryParent"} => Seen(TRUE, r).lost
  BY SeenStage
<1> QED BY <1>1 DEF TruthInv, Truthful, Knows, RetryKnows

\* Past the gate a run goes on or halts for another reason.
LEMMA AdmittedStage ==
  ASSUME NEW r \in RunType, NEW a, r.halt = "none", r.sent = NoQuote
  PROVE  /\ Admitted(r) \in RunType /\ StageInv(Admitted(r), a)
         /\ Admitted(r).halt # "gate-deny" /\ Admitted(r).pc # "retryParent"
<1>1. Admitted(r) \in {[r EXCEPT !.pc = "ended", !.halt = "recipient-unresolved"],
                       [r EXCEPT !.pc = "ended", !.halt = "risk-policy-deny"],
                       [r EXCEPT !.pc = "quoting"]} \/
      (Admitted(r) = [r EXCEPT !.pc = "valuing"] /\ r.policy # NoPolicy)
  BY DEF Admitted
<1> QED BY <1>1 DEF RunType, StageInv, Stages, Halts

\* What it halts for is true when it has seen the truth.
LEMMA AdmittedTruth ==
  ASSUME NEW r \in RunType, NEW k, r.halt = "none", Truthful(r, k),
         r.clean => r.profile = TrueRecipient /\ r.policy = world.policy
  PROVE  TruthInv(Admitted(r), k)
<1> DEFINE s == Admitted(r)
<1>1. /\ s.clean = r.clean /\ s.lost = r.lost /\ s.swapper = r.swapper /\ s.caller = r.caller
      /\ s.profile = r.profile /\ s.policy = r.policy /\ s.pc \in {"ended", "quoting", "valuing"}
      /\ s.halt \in {"none", "recipient-unresolved", "risk-policy-deny"}
  BY DEF Admitted, RunType
<1>2. s.halt = "recipient-unresolved" => r.profile.addr = NoAddress BY DEF Admitted, RunType
<1>3. s.halt = "risk-policy-deny" => StaticDeny(r) BY DEF Admitted, RunType
<1> HIDE DEF s
<1>4. Truthful(s, k) BY <1>1 DEF Truthful
<1>5. ASSUME s.clean PROVE Deserved(s)
  <2>1. s.halt = "recipient-unresolved" => TrueRecipient.addr = NoAddress BY <1>1, <1>2, <1>5
  <2>2. ASSUME s.halt = "risk-policy-deny"
        PROVE  world.policy # NoPolicy /\
                 \/ ~world.policy.accepts
                 \/ s.caller /\ world.names["swapper"].tier < world.policy.minTier
    <3>1. StaticDeny(r) /\ r.policy = world.policy BY <1>1, <1>3, <1>5, <2>2
    <3>2. r.swapper # Miss => r.caller /\ r.swapper = world.names["swapper"] BY <1>1, <1>5 DEF Truthful
    <3> QED BY <1>1, <3>1, <3>2 DEF StaticDeny
  <2> QED BY <1>1, <2>1, <2>2 DEF Deserved
<1>6. Knows(s) BY <1>1, <1>5 DEF Knows
<1>7. RetryKnows(s) BY <1>1 DEF RetryKnows
<1> QED BY <1>4, <1>6, <1>7 DEF TruthInv, s

LEMMA GatedStage ==
  ASSUME NEW r \in RunType, NEW a, NEW k, r.halt = "none", r.sent = NoQuote
  PROVE  /\ Gated(r) \in RunType /\ StageInv(Gated(r), a)
         /\ Gated(r).halt # "gate-deny" /\ Gated(r).pc # "retryParent"
         /\ Truthful(r, k) /\ (r.clean => r.profile = TrueRecipient /\ r.policy = world.policy)
              => TruthInv(Gated(r), k)
<1>1. CASE GateAllows(r.profile) BY <1>1, AdmittedStage, AdmittedTruth DEF Gated
<1>2. CASE ~GateAllows(r.profile)
  <2>1. Gated(r) = [r EXCEPT !.pc = "retry"] BY <1>2 DEF Gated
  <2> DEFINE s == Gated(r)
  <2>2. /\ s \in RunType /\ s.pc = "retry" /\ s.halt = "none" /\ s.sent = NoQuote /\ s.clean = r.clean
        /\ s.lost = r.lost /\ s.swapper = r.swapper /\ s.caller = r.caller /\ s.profile = r.profile
        /\ s.policy = r.policy
    BY <2>1 DEF RunType, Stages
  <2> HIDE DEF s
  <2>3. StageInv(s, a) BY <2>2 DEF StageInv
  <2>4. ASSUME Truthful(r, k), r.clean => r.profile = TrueRecipient /\ r.policy = world.policy
        PROVE  TruthInv(s, k)
    BY <2>2, <2>4 DEF TruthInv, Truthful, Knows, RetryKnows, Deserved
  <2> QED BY <2>2, <2>3, <2>4 DEF s
<1> QED BY <1>1, <1>2

\* After the retry.
LEMMA RefreshedStage ==
  ASSUME run \in RunType, run.halt = "none", run.sent = NoQuote, NEW p \in Profiles, NEW a, NEW k
  PROVE  /\ Refreshed(p) \in RunType /\ StageInv(Refreshed(p), a)
         /\ Truthful(run, k) /\ (run.clean => run.profile = TrueRecipient /\ run.policy = world.policy)
              /\ (~run.lost => p = TrueRecipient) => TruthInv(Refreshed(p), k)
<1> DEFINE q == IF IsFlake(p) THEN run.profile ELSE p
           r == [run EXCEPT !.fresh = p, !.profile = q]
<1>1. q \in Profiles BY DEF RunType
<1> HIDE DEF q
<1>2. /\ r \in RunType /\ r.halt = "none" /\ r.sent = NoQuote /\ r.fresh = p /\ r.profile = q
      /\ r.clean = run.clean /\ r.lost = run.lost /\ r.swapper = run.swapper /\ r.caller = run.caller
      /\ r.policy = run.policy
  BY <1>1 DEF RunType
<1>3. Refreshed(p) = IF GateAllows(r.profile) THEN Admitted(r)
                     ELSE [r EXCEPT !.pc = "ended", !.halt = "gate-deny"]
  BY DEF Refreshed, q
<1> HIDE DEF r
<1> DEFINE Hyp == /\ Truthful(run, k) /\ (run.clean => run.profile = TrueRecipient /\ run.policy = world.policy)
                  /\ (~run.lost => p = TrueRecipient)
<1>4. Hyp => Truthful(r, k) /\ (r.clean => r.profile = TrueRecipient /\ r.policy = world.policy)
  BY <1>2 DEF Truthful, q
<1>5. CASE GateAllows(r.profile) BY <1>2, <1>3, <1>4, <1>5, AdmittedStage, AdmittedTruth
<1>6. CASE ~GateAllows(r.profile)
  <2> DEFINE e == [r EXCEPT !.pc = "ended", !.halt = "gate-deny"]
  <2>1. /\ e \in RunType /\ e.pc = "ended" /\ e.halt = "gate-deny" /\ e.sent = NoQuote
        /\ e.clean = r.clean /\ e.lost = r.lost /\ e.swapper = r.swapper /\ e.caller = r.caller
        /\ Refreshed(p) = e
    BY <1>2, <1>3, <1>6 DEF RunType, Stages, Halts
  <2> HIDE DEF e
  <2>2. StageInv(e, a) BY <2>1 DEF StageInv
  <2>3. ASSUME Hyp PROVE TruthInv(e, k)
    <3>1. Truthful(e, k) BY <1>4, <2>1, <2>3 DEF Truthful
    <3>2. Knows(e) BY <1>4, <1>6, <2>1, <2>3 DEF Knows, Deserved, Past
    <3>3. ASSUME ~e.lost PROVE ~GateAllows(TrueRecipient) \/ TrueRecipient.addr = NoAddress
      <4>1. p = TrueRecipient BY <1>2, <2>1, <2>3, <3>3
      <4>2. CASE ~IsFlake(p) BY <1>2, <1>6, <4>1, <4>2 DEF q
      <4>3. CASE IsFlake(p) /\ p.addr = NoAddress BY <4>1, <4>3
      <4>4. CASE IsFlake(p) /\ p.tier = 0
        <5>1. ~(run.profile.tier >= GateMin) BY <1>2, <1>6, <4>4 DEF q, GateAllows
        <5>2. run.profile.tier \in 0..2 /\ GateMin \in Nat
          BY PipelineAssumption DEF RunType, Profiles, Tiers, PipelineInputsTyped
        <5>3. ~(p.tier >= GateMin) BY <4>4, <5>1, <5>2
        <5> QED BY <4>1, <5>3 DEF GateAllows
      <4> QED BY <4>2, <4>3, <4>4 DEF IsFlake
    <3>4. RetryKnows(e) BY <2>1, <3>3 DEF RetryKnows
    <3> QED BY <3>1, <3>2, <3>4 DEF TruthInv
  <2> QED BY <2>1, <2>2, <2>3
<1> QED BY <1>5, <1>6

\* The run has a new record or halts; the rest follows.
LEMMA Moved ==
  ASSUME PipelineInv, NEW r \in RunType, run' = r, StageInv(r, att'), TruthInv(r, cached'),
         world' = world, cached' \in [Name -> Entries]
  PROVE  PipelineInv'
<1>1. StageInv(run, att)' BY DEF StageInv, Vouched, PolicyForbids
<1>2. TruthInv(run, cached)'
  BY DEF TruthInv, Truthful, Knows, RetryKnows, Deserved, TrueRecipient, GateAllows, Ineligible, PolicyForbids
<1> QED BY <1>1, <1>2 DEF PipelineInv, WorldType, Entries

\* It has, after what it saw.
LEMMA SeenMoved ==
  ASSUME PipelineInv, NEW r \in RunType, NEW lost \in BOOLEAN, run' = Seen(lost, r), StageInv(r, att'),
         ~lost => TruthInv(r, cached'),
         lost => run.pc \in {"retry", "retryParent"} \/ (r.halt # "gate-deny" /\ r.pc # "retryParent"),
         world' = world, cached' \in [Name -> Entries]
  PROVE  PipelineInv'
<1> DEFINE s == Seen(lost, r)
<1>1. s \in RunType /\ StageInv(s, att') BY SeenStage
<1>2. TruthInv(s, cached')
  <2>1. CASE lost
    <3>1. lost = TRUE BY <2>1
    <3> QED BY <2>1, <3>1, SeenLess
  <2>2. CASE ~lost
    <3>1. lost = FALSE BY <2>2
    <3> QED BY <2>2, <3>1, SeenAll
  <2> QED BY <2>1, <2>2
<1>3. run' = s OBVIOUS
<1> HIDE DEF s
<1> QED BY <1>1, <1>2, <1>3, Moved

\* A failure takes the run to its next stage, or ends it.
LEMMA FailedMoves ==
  ASSUME PipelineInv, NEW r \in RunType, run' = Seen(TRUE, r), StageInv(r, att),
         run.pc \in {"retry", "retryParent"} \/ (r.halt # "gate-deny" /\ r.pc # "retryParent"),
         UNCHANGED cached, Quiet
  PROVE  PipelineInv'
  BY SeenMoved DEF Quiet, PipelineInv

\* A lookup that is over takes the run to its next stage.
LEMMA ResolvedMoves ==
  ASSUME PipelineInv, NEW n \in Name, NEW bypass \in BOOLEAN, NEW l \in Lookups(n, bypass),
         NEW r \in RunType, StageInv(r, att), run' = Seen(l.lost, r),
         ~l.lost => TruthInv(r, [cached EXCEPT ![n] = l.entry]),
         run.pc \in {"retry", "retryParent"} \/ (r.halt # "gate-deny" /\ r.pc # "retryParent"),
         cached' = [cached EXCEPT ![n] = l.entry], Quiet
  PROVE  PipelineInv'
<1>1. cached' \in [Name -> Entries] /\ l.lost \in BOOLEAN BY LookupTyped DEF PipelineInv
<1>2. att' = att /\ world' = world BY DEF Quiet
<1> QED BY <1>1, <1>2, SeenMoved

\* An end that nobody has to answer for.
LEMMA HaltStage ==
  ASSUME run \in RunType, run.sent = NoQuote, NEW a, NEW h \in Halts, h # "gate-deny"
  PROVE  /\ Halt(h) \in RunType /\ StageInv(Halt(h), a)
         /\ Halt(h).halt # "gate-deny" /\ Halt(h).pc # "retryParent"
         /\ Truthful(run, cached) /\ (run.clean => Deserved(Halt(h))) => TruthInv(Halt(h), cached)
<1> DEFINE s == Halt(h)
<1>1. /\ s \in RunType /\ s.pc = "ended" /\ s.halt = h /\ s.sent = NoQuote /\ s.clean = run.clean
      /\ s.lost = run.lost /\ s.swapper = run.swapper /\ s.caller = run.caller
  BY DEF Halt, RunType, Stages
<1> HIDE DEF s
<1>2. StageInv(s, a) BY <1>1 DEF StageInv
<1>3. Truthful(run, cached) /\ (run.clean => Deserved(s)) => TruthInv(s, cached)
  BY <1>1 DEF TruthInv, Truthful, Knows, RetryKnows, Past
<1> QED BY <1>1, <1>2, <1>3 DEF s

LEMMA IdleHalt ==
  ASSUME run \in RunType, NEW h \in {"threw", "quote-failed", "swap-failed"}
  PROVE  h \in Halts /\ h # "gate-deny" /\ Deserved(Halt(h))
<1>1. Halt(h).halt = h BY DEF Halt, RunType
<1> QED BY <1>1 DEF Deserved, Halts

LEMMA StepInv == PipelineInv /\ Step => PipelineInv'
<1> SUFFICES ASSUME PipelineInv, Step PROVE PipelineInv' OBVIOUS
<1>0. /\ world \in WorldType /\ cached \in [Name -> Entries] /\ run \in RunType
      /\ StageInv(run, att) /\ TruthInv(run, cached)
      /\ "recipient" \in Name /\ "parent" \in Name /\ "swapper" \in Name
  BY DEF PipelineInv, Name
<1>h. run.pc # "ended" => run.halt = "none" /\ run.sent = NoQuote
  BY <1>0 DEF StageInv
<1>t. Truthful(run, cached) /\ Knows(run) /\ RetryKnows(run) BY <1>0 DEF TruthInv
<1>p. /\ world.names["recipient"] \in Profiles /\ world.names["parent"] \in Profiles
      /\ run.clean => \A m \in Name : cached[m] \in {Miss, world.names[m]}
  BY <1>0, <1>t DEF WorldType, Truthful
<1>1. CASE ResolveRecipient
  <2>1. CASE Failed("recipient", Halt("threw"))
    <3>1. run.pc = "recipient" /\ run' = Seen(TRUE, Halt("threw")) /\ UNCHANGED cached /\ Quiet
      BY <2>1 DEF Failed, Goto
    <3>2. /\ Halt("threw") \in RunType /\ StageInv(Halt("threw"), att)
          /\ Halt("threw").halt # "gate-deny" /\ Halt("threw").pc # "retryParent"
      BY <1>0, <1>h, <3>1, HaltStage, IdleHalt
    <3> QED BY <3>1, <3>2, FailedMoves
  <2>2. CASE run.pc = "recipient" /\ \E l \in Lookups("recipient", FALSE) :
               ComesBack("recipient", l, RecipientResolved(l.profile))
    <3>1. PICK l \in Lookups("recipient", FALSE) :
            /\ run.pc = "recipient" /\ run' = Seen(l.lost, RecipientResolved(l.profile))
            /\ cached' = [cached EXCEPT !["recipient"] = l.entry] /\ Quiet
      BY <2>2 DEF ComesBack
    <3>2. l.profile \in Profiles BY <1>0, LookupTyped
    <3> DEFINE r == RecipientResolved(l.profile)  k == [cached EXCEPT !["recipient"] = l.entry]
    <3>3. /\ r \in RunType /\ r.pc = (IF l.profile.tier = 0 THEN "parent" ELSE "policy")
          /\ r.profile = l.profile /\ r.halt = "none" /\ r.sent = NoQuote /\ r.clean = run.clean
          /\ r.lost = run.lost /\ r.swapper = run.swapper /\ r.caller = run.caller
      BY <1>0, <1>h, <3>1, <3>2 DEF RecipientResolved, RunType, Stages
    <3>4. StageInv(r, att) BY <3>3 DEF StageInv
    <3>5. ASSUME ~l.lost PROVE TruthInv(r, k)
      <4>1. run.clean => l.profile = world.names["recipient"] BY <1>0, <1>p, <3>5, LookupTrue
      <4>2. run.clean => \A m \in Name : k[m] \in {Miss, world.names[m]}
        BY <1>0, <1>p, <3>5, CacheStaysTrue
      <4> HIDE DEF r, k
      <4>3. Truthful(r, k) BY <1>t, <3>3, <4>2 DEF Truthful
      <4>4. Knows(r)
        <5>1. run.clean /\ l.profile.tier # 0 => l.profile = TrueRecipient BY <4>1 DEF TrueRecipient
        <5> QED BY <3>3, <4>1, <5>1 DEF Knows, Deserved, Past
      <4>5. RetryKnows(r) BY <3>3 DEF RetryKnows
      <4> QED BY <4>3, <4>4, <4>5 DEF TruthInv
    <3>6. r.halt # "gate-deny" /\ r.pc # "retryParent" BY <3>3
    <3>7. run' = Seen(l.lost, r) /\ cached' = k /\ Quiet BY <3>1
    <3> HIDE DEF r
    <3> QED BY <1>0, <3>3, <3>4, <3>5, <3>6, <3>7, ResolvedMoves
  <2> QED BY <1>1, <2>1, <2>2 DEF ResolveRecipient
<1>2. CASE ResolveParent
  <2>1. CASE Failed("parent", [run EXCEPT !.pc = "policy"])
    <3> DEFINE r == [run EXCEPT !.pc = "policy"]
    <3>1. run.pc = "parent" /\ run' = Seen(TRUE, r) /\ UNCHANGED cached /\ Quiet
      BY <2>1 DEF Failed, Goto
    <3>2. r \in RunType /\ StageInv(r, att) /\ r.halt # "gate-deny" /\ r.pc # "retryParent"
      BY <1>0, <1>h, <3>1 DEF RunType, Stages, StageInv
    <3> HIDE DEF r
    <3> QED BY <3>1, <3>2, FailedMoves
  <2>2. ASSUME run.pc = "parent", NEW l \in Lookups("parent", FALSE), NEW p \in Inherited(run.profile, l.profile),
               run' = Seen(l.lost, [run EXCEPT !.pc = "policy", !.profile = p]),
               cached' = [cached EXCEPT !["parent"] = l.entry], Quiet
        PROVE  PipelineInv'
    <3> DEFINE r == [run EXCEPT !.pc = "policy", !.profile = p]  k == [cached EXCEPT !["parent"] = l.entry]
    <3>1. l.profile \in Profiles BY <1>0, LookupTyped
    <3>2. p \in Profiles BY <1>0, <3>1, InheritedTyped DEF RunType
    <3>3. /\ r \in RunType /\ r.pc = "policy" /\ r.profile = p /\ r.halt = "none" /\ r.sent = NoQuote
          /\ r.clean = run.clean /\ r.lost = run.lost /\ r.swapper = run.swapper /\ r.caller = run.caller
      BY <1>0, <1>h, <2>2, <3>2 DEF RunType, Stages
    <3>4. StageInv(r, att) BY <3>3 DEF StageInv
    <3>5. ASSUME ~l.lost PROVE TruthInv(r, k)
      <4>1. run.clean => l.profile = world.names["parent"] BY <1>0, <1>p, <3>5, LookupTrue
      <4>2. run.clean => \A m \in Name : k[m] \in {Miss, world.names[m]}
        BY <1>0, <1>p, <3>5, CacheStaysTrue
      <4>3. run.clean => run.profile = world.names["recipient"] /\ world.names["recipient"].tier = 0
        BY <1>t, <2>2 DEF Knows
      <4>4. run.clean => p = TrueRecipient BY <2>2, <4>1, <4>3, InheritedTrue
      <4> HIDE DEF r, k
      <4>5. Truthful(r, k) BY <1>t, <3>3, <4>2 DEF Truthful
      <4>6. Knows(r) BY <3>3, <4>4 DEF Knows, Deserved, Past
      <4>7. RetryKnows(r) BY <3>3 DEF RetryKnows
      <4> QED BY <4>5, <4>6, <4>7 DEF TruthInv
    <3>6. run' = Seen(l.lost, r) /\ cached' = k BY <2>2
    <3> HIDE DEF r
    <3> QED BY <1>0, <2>2, <3>3, <3>4, <3>5, <3>6, ResolvedMoves
  <2> QED BY <1>2, <2>1, <2>2 DEF ResolveParent, ComesBack
<1>3. CASE ReadPolicy
  <2>1. CASE Failed("policy", Halt("threw"))
    <3>1. run.pc = "policy" /\ run' = Seen(TRUE, Halt("threw")) /\ UNCHANGED cached /\ Quiet
      BY <2>1 DEF Failed, Goto
    <3>2. /\ Halt("threw") \in RunType /\ StageInv(Halt("threw"), att)
          /\ Halt("threw").halt # "gate-deny" /\ Halt("threw").pc # "retryParent"
      BY <1>0, <1>h, <3>1, HaltStage, IdleHalt
    <3> QED BY <3>1, <3>2, FailedMoves
  <2>2. ASSUME NEW got \in {world.policy, NoPolicy},
               Goto("policy", Seen(got # world.policy, [run EXCEPT !.pc = "swapper", !.policy = got])),
               UNCHANGED cached, Quiet
        PROVE  PipelineInv'
    <3> DEFINE r == [run EXCEPT !.pc = "swapper", !.policy = got]  lost == got # world.policy
    <3>1. got \in Policies \cup {NoPolicy} BY <1>0 DEF WorldType
    <3>2. run.pc = "policy" /\ run' = Seen(lost, r) BY <2>2 DEF Goto
    <3>3. /\ r \in RunType /\ r.pc = "swapper" /\ r.profile = run.profile /\ r.policy = got /\ r.halt = "none"
          /\ r.sent = NoQuote /\ r.clean = run.clean /\ r.lost = run.lost /\ r.swapper = run.swapper
          /\ r.caller = run.caller
      BY <1>0, <1>h, <3>1, <3>2 DEF RunType, Stages
    <3>4. StageInv(r, att) BY <3>3 DEF StageInv
    <3> HIDE DEF r
    <3>5. ASSUME ~lost PROVE TruthInv(r, cached)
      <4>1. run.clean => run.profile = TrueRecipient BY <1>t, <3>2 DEF Knows, Past
      <4>2. Truthful(r, cached) BY <1>t, <3>3 DEF Truthful
      <4>3. Knows(r) BY <3>3, <3>5, <4>1 DEF Knows, Deserved, Past
      <4>4. RetryKnows(r) BY <3>3 DEF RetryKnows
      <4> QED BY <4>2, <4>3, <4>4 DEF TruthInv
    <3>6. lost \in BOOLEAN /\ att' = att /\ world' = world /\ cached' = cached BY <2>2 DEF Quiet
    <3> HIDE DEF lost
    <3> QED BY <1>0, <3>2, <3>3, <3>4, <3>5, <3>6, SeenMoved
  <2> QED BY <1>3, <2>1, <2>2 DEF ReadPolicy
<1>4. CASE ResolveSwapper
  <2>p. /\ run.pc = "swapper" /\ run.halt = "none" /\ run.sent = NoQuote
        /\ run.clean => run.profile = TrueRecipient /\ run.policy = world.policy
    <3>1. run.pc = "swapper" BY <1>4 DEF ResolveSwapper, Failed, Goto
    <3> QED BY <1>h, <1>t, <3>1 DEF Knows, Past
  <2>g. /\ Gated(run) \in RunType /\ StageInv(Gated(run), att) /\ TruthInv(Gated(run), cached)
        /\ Gated(run).halt # "gate-deny" /\ Gated(run).pc # "retryParent"
    BY <1>0, <1>t, <2>p, GatedStage
  <2>1. CASE Goto("swapper", Gated(run)) /\ UNCHANGED cached /\ Quiet
    <3>1. run' = Gated(run) /\ cached' = cached /\ world' = world /\ att' = att BY <2>1 DEF Goto, Quiet
    <3> QED BY <1>0, <2>g, <3>1, Moved
  <2>2. CASE run.caller /\ Failed("swapper", Gated(run))
    <3>1. run' = Seen(TRUE, Gated(run)) /\ UNCHANGED cached /\ Quiet BY <2>2 DEF Failed, Goto
    <3> QED BY <2>g, <3>1, FailedMoves
  <2>3. CASE run.caller /\ run.pc = "swapper" /\ \E l \in Lookups("swapper", FALSE) :
               ComesBack("swapper", l, SwapperResolved(l.profile))
    <3>1. PICK l \in Lookups("swapper", FALSE) :
            /\ run' = Seen(l.lost, SwapperResolved(l.profile))
            /\ cached' = [cached EXCEPT !["swapper"] = l.entry] /\ Quiet
      BY <2>3 DEF ComesBack
    <3>2. l.profile \in Profiles BY <1>0, LookupTyped
    <3> DEFINE s == [run EXCEPT !.swapper = l.profile]  k == [cached EXCEPT !["swapper"] = l.entry]
    <3>3. /\ s \in RunType /\ s.halt = "none" /\ s.sent = NoQuote /\ s.swapper = l.profile
          /\ s.caller = run.caller /\ s.clean = run.clean /\ s.lost = run.lost /\ s.profile = run.profile
          /\ s.policy = run.policy
      BY <1>0, <2>p, <3>2 DEF RunType
    <3>4. run' = Seen(l.lost, Gated(s)) /\ cached' = k BY <3>1 DEF SwapperResolved
    <3>5. ASSUME ~l.lost PROVE Truthful(s, k)
      <4>1. run.clean => l.profile = world.names["swapper"] BY <1>0, <1>p, <3>5, LookupTrue
      <4>2. run.clean => \A m \in Name : k[m] \in {Miss, world.names[m]}
        BY <1>0, <1>p, <3>5, CacheStaysTrue
      <4> HIDE DEF s, k
      <4> QED BY <1>t, <2>3, <3>3, <4>1, <4>2 DEF Truthful
    <3> HIDE DEF s
    <3>6. /\ Gated(s) \in RunType /\ StageInv(Gated(s), att) /\ Gated(s).halt # "gate-deny"
          /\ Gated(s).pc # "retryParent" /\ (~l.lost => TruthInv(Gated(s), k))
      BY <2>p, <3>3, <3>5, GatedStage
    <3> QED BY <1>0, <3>1, <3>4, <3>6, ResolvedMoves
  <2> QED BY <1>4, <2>1, <2>2, <2>3 DEF ResolveSwapper
<1>5. CASE Retry
  <2>p. /\ run.pc = "retry" /\ run.halt = "none" /\ run.sent = NoQuote
        /\ run.clean => run.profile = TrueRecipient /\ run.policy = world.policy
    <3>1. run.pc = "retry" BY <1>5 DEF Retry, RetryFails, Failed, Goto
    <3> QED BY <1>h, <1>t, <3>1 DEF Knows, Past
  <2>1. CASE RetryFails
    <3> DEFINE r == [Halt("gate-deny") EXCEPT !.fresh = Unknown]
    <3>1. run' = Seen(TRUE, r) /\ UNCHANGED cached /\ Quiet BY <2>1 DEF RetryFails, Failed, Goto
    <3>2. r \in RunType /\ r.pc = "ended" /\ r.sent = NoQuote
      BY <1>0, <2>p, MissApart DEF Halt, RunType, Stages, Halts
    <3> HIDE DEF r
    <3>3. StageInv(r, att) BY <3>2 DEF StageInv
    <3> QED BY <2>p, <3>1, <3>2, <3>3, FailedMoves
  <2>2. CASE run.pc = "retry" /\ \E l \in Lookups("recipient", TRUE) :
               ComesBack("recipient", l, RetryResolved(l.profile))
    <3>1. PICK l \in Lookups("recipient", TRUE) :
            /\ run' = Seen(l.lost, RetryResolved(l.profile))
            /\ cached' = [cached EXCEPT !["recipient"] = l.entry] /\ Quiet
      BY <2>2 DEF ComesBack
    <3>2. l.profile \in Profiles /\ l.profile # Miss BY <1>0, LookupTyped, MissApart
    <3> DEFINE r == RetryResolved(l.profile)  k == [cached EXCEPT !["recipient"] = l.entry]
    <3>3. ~l.lost => l.profile = world.names["recipient"] BY <1>0, LookupTrue
    <3>4. ~l.lost /\ run.clean => \A m \in Name : k[m] \in {Miss, world.names[m]}
      BY <1>0, <1>p, CacheStaysTrue
    <3>5. run' = Seen(l.lost, r) /\ cached' = k BY <3>1
    <3> HIDE DEF k
    <3>6. ~l.lost => Truthful(run, k) BY <1>t, <3>4 DEF Truthful
    <3>7. r \in RunType /\ StageInv(r, att) /\ (~l.lost => TruthInv(r, k))
      <4>1. CASE l.profile.tier = 0
        <5>1. /\ r \in RunType /\ r.pc = "retryParent" /\ r.fresh = l.profile /\ r.halt = "none"
              /\ r.sent = NoQuote /\ r.clean = run.clean /\ r.lost = run.lost /\ r.swapper = run.swapper
              /\ r.caller = run.caller /\ r.profile = run.profile /\ r.policy = run.policy
          BY <1>0, <2>p, <3>2, <4>1 DEF RetryResolved, RunType, Stages
        <5> HIDE DEF r
        <5>2. StageInv(r, att) BY <3>2, <5>1 DEF StageInv
        <5>3. ASSUME ~l.lost PROVE TruthInv(r, k)
          <6>1. Truthful(r, k) BY <3>6, <5>1, <5>3 DEF Truthful
          <6>2. Knows(r) BY <2>p, <5>1 DEF Knows, Deserved, Past
          <6>3. RetryKnows(r) BY <3>3, <4>1, <5>1, <5>3 DEF RetryKnows
          <6> QED BY <6>1, <6>2, <6>3 DEF TruthInv
        <5> QED BY <5>1, <5>2, <5>3
      <4>2. CASE l.profile.tier # 0
        <5>1. r = Refreshed(l.profile) BY <4>2 DEF RetryResolved
        <5>2. ~l.lost => l.profile = TrueRecipient BY <3>3, <4>2 DEF TrueRecipient
        <5> HIDE DEF r
        <5> QED BY <1>0, <2>p, <3>2, <3>6, <5>1, <5>2, RefreshedStage
      <4> QED BY <4>1, <4>2
    <3> HIDE DEF r
    <3>8. cached' = [cached EXCEPT !["recipient"] = l.entry] /\ k = [cached EXCEPT !["recipient"] = l.entry]
      BY <3>1 DEF k
    <3> QED BY <1>0, <2>p, <3>1, <3>5, <3>7, <3>8, ResolvedMoves
  <2> QED BY <1>5, <2>1, <2>2 DEF Retry
<1>6. CASE RetryParent
  <2>p. /\ run.pc = "retryParent" /\ run.halt = "none" /\ run.sent = NoQuote /\ run.fresh \in Profiles
        /\ run.clean => run.profile = TrueRecipient /\ run.policy = world.policy
        /\ ~run.lost => run.fresh = world.names["recipient"] /\ run.fresh.tier = 0
    <3>1. run.pc = "retryParent" BY <1>6 DEF RetryParent, Failed, Goto
    <3>2. run.fresh \in Profiles BY <1>0, <3>1 DEF StageInv, RunType
    <3> QED BY <1>h, <1>t, <3>1, <3>2 DEF Knows, RetryKnows, Past
  <2>1. CASE Failed("retryParent", Refreshed(run.fresh))
    <3>1. run' = Seen(TRUE, Refreshed(run.fresh)) /\ UNCHANGED cached /\ Quiet
      BY <2>1 DEF Failed, Goto
    <3>2. Refreshed(run.fresh) \in RunType /\ StageInv(Refreshed(run.fresh), att)
      BY <1>0, <2>p, RefreshedStage
    <3> QED BY <2>p, <3>1, <3>2, FailedMoves
  <2>2. ASSUME NEW l \in Lookups("parent", TRUE), NEW p \in Inherited(run.fresh, l.profile),
               run' = Seen(l.lost, Refreshed(p)),
               cached' = [cached EXCEPT !["parent"] = l.entry], Quiet
        PROVE  PipelineInv'
    <3> DEFINE k == [cached EXCEPT !["parent"] = l.entry]
    <3>1. l.profile \in Profiles BY <1>0, LookupTyped
    <3>2. p \in Profiles BY <1>0, <2>p, <3>1, InheritedTyped
    <3>3. ~l.lost => l.profile = world.names["parent"] BY <1>0, LookupTrue
    <3>4. ~l.lost /\ run.clean => \A m \in Name : k[m] \in {Miss, world.names[m]}
      BY <1>0, <1>p, CacheStaysTrue
    <3> HIDE DEF k
    <3>5. ~l.lost => Truthful(run, k) BY <1>t, <3>4 DEF Truthful
    <3>6. ~l.lost /\ ~run.lost => p = TrueRecipient BY <2>p, <3>3, InheritedTrue
    <3>7. Refreshed(p) \in RunType /\ StageInv(Refreshed(p), att) /\ (~l.lost => TruthInv(Refreshed(p), k))
      BY <1>0, <2>p, <3>2, <3>5, <3>6, RefreshedStage
    <3>8. k = [cached EXCEPT !["parent"] = l.entry] BY DEF k
    <3> QED BY <1>0, <2>p, <2>2, <3>7, <3>8, ResolvedMoves
  <2> QED BY <1>6, <2>1, <2>2 DEF RetryParent, ComesBack
<1>7. CASE Value
  <2>1. /\ run.pc = "valuing" /\ UNCHANGED cached /\ Quiet
        /\ \/ run' = Halt("risk-policy-deny") /\ Size > run.policy.maxSize
           \/ run' = [run EXCEPT !.pc = "quoting"]
           \/ run' = Halt("quote-failed")
    BY <1>7 DEF Value
  <2>2. CASE run' = Halt("risk-policy-deny") /\ Size > run.policy.maxSize
    <3>1. run.policy # NoPolicy BY <1>0, <2>1 DEF StageInv
    <3>2. run.clean => run.policy = world.policy BY <1>t, <2>1 DEF Knows, Past
    <3>3. Halt("risk-policy-deny").halt = "risk-policy-deny" BY <1>0 DEF Halt, RunType
    <3>4. run.clean => Deserved(Halt("risk-policy-deny")) BY <2>2, <3>1, <3>2, <3>3 DEF Deserved
    <3>5. "risk-policy-deny" \in Halts BY DEF Halts
    <3>6. /\ Halt("risk-policy-deny") \in RunType /\ StageInv(Halt("risk-policy-deny"), att)
          /\ TruthInv(Halt("risk-policy-deny"), cached)
      BY <1>0, <1>h, <1>t, <2>1, <3>4, <3>5, HaltStage
    <3> QED BY <1>0, <2>1, <2>2, <3>6, Moved DEF Quiet
  <2>3. CASE run' = [run EXCEPT !.pc = "quoting"]
    <3> DEFINE r == [run EXCEPT !.pc = "quoting"]
    <3>1. /\ r \in RunType /\ r.pc = "quoting" /\ r.profile = run.profile /\ r.policy = run.policy
          /\ r.halt = "none" /\ r.sent = NoQuote /\ r.clean = run.clean /\ r.lost = run.lost
          /\ r.swapper = run.swapper /\ r.caller = run.caller
      BY <1>0, <1>h, <2>1 DEF RunType, Stages
    <3> HIDE DEF r
    <3>2. StageInv(r, att) BY <3>1 DEF StageInv
    <3>3. Truthful(r, cached) BY <1>t, <3>1 DEF Truthful
    <3>4. Knows(r) BY <1>t, <2>1, <3>1 DEF Knows, Deserved, Past
    <3>5. RetryKnows(r) BY <3>1 DEF RetryKnows
    <3>6. TruthInv(r, cached) BY <3>3, <3>4, <3>5 DEF TruthInv
    <3>7. run' = r BY <2>3 DEF r
    <3> QED BY <1>0, <2>1, <3>1, <3>2, <3>6, <3>7, Moved DEF Quiet
  <2>4. CASE run' = Halt("quote-failed")
    <3>1. /\ Halt("quote-failed") \in RunType /\ StageInv(Halt("quote-failed"), att)
          /\ TruthInv(Halt("quote-failed"), cached)
      BY <1>0, <1>h, <1>t, <2>1, IdleHalt, HaltStage
    <3> QED BY <1>0, <2>1, <2>4, <3>1, Moved DEF Quiet
  <2> QED BY <2>1, <2>2, <2>3, <2>4
<1>8. CASE Quote
  <2>1. PICK id \in {1, 2}, payer \in {"signer", "zero"} :
          /\ run.pc = "quoting" /\ UNCHANGED cached /\ Quiet
          /\ \/ run' = [run EXCEPT !.pc = "attesting", !.quote = [quote |-> id, payer |-> payer]]
             \/ run' = Halt("oracle-refusal") /\ ~run.caller
             \/ run' = Halt("quote-failed")
    BY <1>8 DEF Quote
  <2>2. [quote |-> id, payer |-> payer] \in Quotes BY DEF Quotes
  <2>3. CASE run' = [run EXCEPT !.pc = "attesting", !.quote = [quote |-> id, payer |-> payer]]
    <3> DEFINE q == [quote |-> id, payer |-> payer]  r == [run EXCEPT !.pc = "attesting", !.quote = q]
    <3>0. run' = r /\ q \in Quotes BY <2>2, <2>3
    <3> HIDE DEF q
    <3>1. /\ r \in RunType /\ r.pc = "attesting" /\ r.profile = run.profile /\ r.policy = run.policy
          /\ r.halt = "none" /\ r.sent = NoQuote /\ r.clean = run.clean /\ r.lost = run.lost
          /\ r.swapper = run.swapper /\ r.caller = run.caller
      BY <1>0, <1>h, <2>1, <3>0 DEF RunType, Stages
    <3> HIDE DEF r
    <3>2. StageInv(r, att) BY <3>1 DEF StageInv
    <3>3. Truthful(r, cached) BY <1>t, <3>1 DEF Truthful
    <3>4. Knows(r) BY <1>t, <2>1, <3>1 DEF Knows, Deserved, Past
    <3>5. RetryKnows(r) BY <3>1 DEF RetryKnows
    <3>6. TruthInv(r, cached) BY <3>3, <3>4, <3>5 DEF TruthInv
    <3> QED BY <1>0, <2>1, <3>0, <3>1, <3>2, <3>6, Moved DEF Quiet
  <2>4. CASE run' = Halt("oracle-refusal") /\ ~run.caller
    <3>1. Halt("oracle-refusal").halt = "oracle-refusal" /\ Halt("oracle-refusal").caller = run.caller
      BY <1>0 DEF Halt, RunType
    <3>2. Deserved(Halt("oracle-refusal")) BY <2>4, <3>1 DEF Deserved
    <3>3. "oracle-refusal" \in Halts BY DEF Halts
    <3>4. /\ Halt("oracle-refusal") \in RunType /\ StageInv(Halt("oracle-refusal"), att)
          /\ TruthInv(Halt("oracle-refusal"), cached)
      BY <1>0, <1>h, <1>t, <2>1, <3>2, <3>3, HaltStage
    <3> QED BY <1>0, <2>1, <2>4, <3>4, Moved DEF Quiet
  <2>5. CASE run' = Halt("quote-failed")
    <3>1. /\ Halt("quote-failed") \in RunType /\ StageInv(Halt("quote-failed"), att)
          /\ TruthInv(Halt("quote-failed"), cached)
      BY <1>0, <1>h, <1>t, <2>1, IdleHalt, HaltStage
    <3> QED BY <1>0, <2>1, <2>5, <3>1, Moved DEF Quiet
  <2> QED BY <2>1, <2>3, <2>4, <2>5
<1>9. CASE Attest
  <2>1. UNCHANGED <<world, cached>> /\ run.pc = "attesting"
    BY <1>9 DEF Attest
  <2>2. CASE run' = Seen(~Ineligible(world), Halt("oracle-refusal"))
    <3> DEFINE lost == ~Ineligible(world)  r == Halt("oracle-refusal")
    <3>1. "oracle-refusal" \in Halts BY DEF Halts
    <3>2. /\ r \in RunType /\ StageInv(r, att') /\ r.halt # "gate-deny" /\ r.pc # "retryParent"
          /\ (run.clean => Deserved(r)) => TruthInv(r, cached)
      BY <1>0, <1>h, <1>t, <2>1, <3>1, HaltStage
    <3>3. r.halt = "oracle-refusal" BY <1>0 DEF Halt, RunType
    <3>4. ~lost => Deserved(r) BY <3>3 DEF Deserved
    <3>5. lost \in BOOLEAN /\ run' = Seen(lost, r) BY <2>2 DEF Ineligible
    <3> HIDE DEF lost, r
    <3> QED BY <1>0, <2>1, <3>2, <3>4, <3>5, SeenMoved
  <2>3. CASE run' = Halt("threw")
    <3>1. /\ Halt("threw") \in RunType /\ StageInv(Halt("threw"), att') /\ TruthInv(Halt("threw"), cached)
      BY <1>0, <1>h, <1>t, <2>1, IdleHalt, HaltStage
    <3> QED BY <1>0, <2>1, <2>3, <3>1, Moved
  <2>4. ASSUME NEW blind \in BOOLEAN,
               OracleSigns(run.profile.addr), blind \/ ~PolicyForbids(world),
               run' = [run EXCEPT !.pc = IF run.dry THEN "ended" ELSE "executing"],
               att' = [recipient |-> run.profile.addr,
                       hash |-> HashOf(run.quote.quote, run.quote.payer),
                       truth |-> world, blind |-> blind]
        PROVE  PipelineInv'
    <3> DEFINE r == [run EXCEPT !.pc = IF run.dry THEN "ended" ELSE "executing"]
    <3>1. HashOf(run.quote.quote, run.quote.payer) = run.quote
      BY <1>0 DEF HashOf, RunType, Quotes
    <3>2. /\ world.names["recipient"].tier \in Tiers /\ world.names["parent"].tier \in Tiers
          /\ world.names["swapper"].tier \in Tiers
      BY <1>0 DEF WorldType, Profiles
    <3>3. world.names["recipient"].tier + world.names["parent"].tier > 0
      BY <2>4, <3>2 DEF OracleSigns, Tiers
    <3>4. Vouched(att') BY <2>4, <3>3 DEF Vouched, OracleSigns
    <3>5. att'.hash = run.quote BY <2>4, <3>1
    <3>6. /\ r \in RunType /\ r.halt = "none" /\ r.sent = NoQuote
          /\ r.dry = run.dry /\ r.quote = run.quote /\ r.profile = run.profile /\ r.policy = run.policy
          /\ r.clean = run.clean /\ r.lost = run.lost /\ r.swapper = run.swapper /\ r.caller = run.caller
          /\ r.pc = IF run.dry THEN "ended" ELSE "executing"
      BY <1>0, <1>h, <2>1 DEF RunType, Stages
    <3>r. run' = r BY <2>4
    <3> HIDE DEF r
    <3>7. StageInv(r, att') BY <3>4, <3>5, <3>6 DEF StageInv
    <3>8. Truthful(r, cached) BY <1>t, <3>6 DEF Truthful
    <3>9. Knows(r) BY <1>t, <2>1, <3>6 DEF Knows, Deserved, Past
    <3>10. RetryKnows(r) BY <3>6 DEF RetryKnows
    <3>11. TruthInv(r, cached) BY <3>8, <3>9, <3>10 DEF TruthInv
    <3> QED BY <1>0, <2>1, <3>6, <3>r, <3>7, <3>11, Moved
  <2> QED BY <1>9, <2>2, <2>3, <2>4 DEF Attest
<1>10. CASE Execute
  <2>1. /\ run.pc = "executing" /\ UNCHANGED cached /\ Quiet
        /\ run' \in {[run EXCEPT !.pc = "ended", !.sent = run.quote], Halt("swap-failed")}
    BY <1>10 DEF Execute
  <2>2. CASE run' = Halt("swap-failed")
    <3>1. /\ Halt("swap-failed") \in RunType /\ StageInv(Halt("swap-failed"), att)
          /\ TruthInv(Halt("swap-failed"), cached)
      BY <1>0, <1>h, <1>t, <2>1, IdleHalt, HaltStage
    <3> QED BY <1>0, <2>1, <2>2, <3>1, Moved DEF Quiet
  <2>3. CASE run' = [run EXCEPT !.pc = "ended", !.sent = run.quote]
    <3> DEFINE r == [run EXCEPT !.pc = "ended", !.sent = run.quote]
    <3>1. /\ r \in RunType /\ r.pc = "ended" /\ r.halt = "none"
          /\ r.sent = run.quote /\ r.dry = run.dry /\ r.clean = run.clean /\ r.lost = run.lost
          /\ r.swapper = run.swapper /\ r.caller = run.caller
      BY <1>0, <1>h, <2>1 DEF RunType, Stages
    <3>2. Vouched(att) /\ att.hash = run.quote /\ ~run.dry BY <1>0, <2>1 DEF StageInv
    <3> HIDE DEF r
    <3>3. StageInv(r, att) BY <3>1, <3>2 DEF StageInv
    <3>4. TruthInv(r, cached) BY <1>t, <3>1 DEF TruthInv, Truthful, Knows, RetryKnows, Deserved, Past
    <3>5. run' = r BY <2>3 DEF r
    <3> QED BY <1>0, <2>1, <3>1, <3>3, <3>4, <3>5, Moved DEF Quiet
  <2> QED BY <2>1, <2>2, <2>3
<1> QED BY <1>1, <1>2, <1>3, <1>4, <1>5, <1>6, <1>7, <1>8, <1>9, <1>10 DEF Step, Timed

\* What goes on outside of the run.
LEMMA OutsideInv ==
  PipelineInv /\ (Start \/ EditNames \/ EditPolicy \/ Expire \/ UNCHANGED pipelineVars) => PipelineInv'
<1> SUFFICES ASSUME PipelineInv, Start \/ EditNames \/ EditPolicy \/ Expire \/ UNCHANGED pipelineVars
             PROVE  PipelineInv'
  OBVIOUS
<1>0. /\ world \in WorldType /\ cached \in [Name -> Entries] /\ run \in RunType
      /\ StageInv(run, att) /\ TruthInv(run, cached)
  BY DEF PipelineInv
<1>2. CASE Start
  <2>1. /\ NoRun \in RunType /\ NoRun.halt = "none" /\ NoRun.sent = NoQuote
    BY MissApart DEF NoRun, RunType, Stages, Halts
  <2>2. world' = world /\ cached' = cached BY <1>2 DEF Start
  <2>3. PICK dry \in BOOLEAN, caller \in BOOLEAN :
          run' \in {[NoRun EXCEPT !.pc = "recipient", !.dry = dry, !.caller = caller,
                                  !.clean = \A n \in Name : cached[n] \in {Miss, world.names[n]}],
                    [NoRun EXCEPT !.pc = "ended", !.halt = "threw", !.dry = dry]}
    BY <1>2 DEF Start
  <2> DEFINE true == \A n \in Name : cached[n] \in {Miss, world.names[n]}
  <2>4. CASE run' = [NoRun EXCEPT !.pc = "recipient", !.dry = dry, !.caller = caller, !.clean = true]
    <3> DEFINE r == [NoRun EXCEPT !.pc = "recipient", !.dry = dry, !.caller = caller, !.clean = true]
    <3>1. true \in BOOLEAN OBVIOUS
    <3> HIDE DEF true
    <3>2. /\ r \in RunType /\ r.pc = "recipient" /\ r.halt = "none" /\ r.sent = NoQuote /\ r.clean = true
          /\ ~r.lost /\ r.swapper = Miss
      BY <2>1, <3>1 DEF RunType, Stages, NoRun
    <3>3. run' = r BY <2>4
    <3> HIDE DEF r
    <3>4. StageInv(r, att') BY <3>2 DEF StageInv
    <3>5. Truthful(r, cached) BY <3>2 DEF Truthful, true
    <3>6. Knows(r) /\ RetryKnows(r) BY <3>2 DEF Knows, RetryKnows, Deserved, Past
    <3>7. TruthInv(r, cached) BY <3>5, <3>6 DEF TruthInv
    <3> QED BY <1>0, <2>2, <3>2, <3>3, <3>4, <3>7, Moved
  <2>5. CASE run' = [NoRun EXCEPT !.pc = "ended", !.halt = "threw", !.dry = dry]
    <3> DEFINE r == [NoRun EXCEPT !.pc = "ended", !.halt = "threw", !.dry = dry]
    <3>1. r \in RunType /\ r.pc = "ended" /\ r.halt = "threw" /\ r.sent = NoQuote /\ ~r.clean
      BY <2>1 DEF RunType, Stages, Halts, NoRun
    <3>2. run' = r BY <2>5
    <3> HIDE DEF r
    <3>3. StageInv(r, att') BY <3>1 DEF StageInv
    <3>4. TruthInv(r, cached) BY <3>1 DEF TruthInv, Truthful, Knows, RetryKnows
    <3> QED BY <1>0, <2>2, <3>1, <3>2, <3>3, <3>4, Moved
  <2> QED BY <2>3, <2>4, <2>5
<1>3. CASE EditNames
  <2>1. PICK n \in Name, p \in [addr : Address, tier : Tiers] :
          /\ world' = [world EXCEPT !.names[n] = p]
          /\ run' = [run EXCEPT !.clean = FALSE, !.lost = TRUE] /\ UNCHANGED <<cached, att>>
    BY <1>3 DEF EditNames
  <2>2. p \in Profiles BY DEF Profiles
  <2>3. world' \in WorldType BY <1>0, <2>1, <2>2 DEF WorldType
  <2>4. /\ run' \in RunType /\ run'.pc = run.pc /\ run'.halt = run.halt /\ run'.sent = run.sent
        /\ run'.quote = run.quote /\ run'.dry = run.dry /\ run'.fresh = run.fresh /\ run'.policy = run.policy
        /\ ~run'.clean /\ run'.lost
    BY <1>0, <2>1 DEF RunType
  <2>5. StageInv(run, att)' BY <1>0, <2>1, <2>4 DEF StageInv, Vouched, PolicyForbids
  <2>6. TruthInv(run, cached)' BY <2>4 DEF TruthInv, Truthful, Knows, RetryKnows
  <2>7. cached' \in [Name -> Entries] BY <1>0, <2>1
  <2> QED BY <2>3, <2>4, <2>5, <2>6, <2>7 DEF PipelineInv, WorldType, RunType, Entries
<1>4. CASE EditPolicy
  <2>1. PICK p \in Policies :
          /\ world' = [world EXCEPT !.policy = p]
          /\ run' = [run EXCEPT !.clean = FALSE] /\ UNCHANGED <<cached, att>>
    BY <1>4 DEF EditPolicy
  <2>2. world' \in WorldType /\ world'.names = world.names BY <1>0, <2>1 DEF WorldType
  <2>3. /\ run' \in RunType /\ run'.pc = run.pc /\ run'.halt = run.halt /\ run'.sent = run.sent
        /\ run'.quote = run.quote /\ run'.dry = run.dry /\ run'.fresh = run.fresh /\ run'.policy = run.policy
        /\ ~run'.clean /\ run'.lost = run.lost
    BY <1>0, <2>1 DEF RunType
  <2>4. StageInv(run, att)' BY <1>0, <2>1, <2>3 DEF StageInv, Vouched, PolicyForbids
  <2>5. TrueRecipient' = TrueRecipient BY <2>2 DEF TrueRecipient
  <2>6. RetryKnows(run)' BY <1>0, <2>2, <2>3, <2>5 DEF TruthInv, RetryKnows, GateAllows
  <2>7. TruthInv(run, cached)' BY <2>3, <2>6 DEF TruthInv, Truthful, Knows
  <2>8. cached' \in [Name -> Entries] BY <1>0, <2>1
  <2> QED BY <2>2, <2>3, <2>4, <2>7, <2>8 DEF PipelineInv, WorldType, RunType, Entries
<1>5. CASE Expire
  <2>1. PICK n \in Name : cached' = [cached EXCEPT ![n] = Miss] BY <1>5 DEF Expire
  <2>2. world' = world /\ run' = run /\ att' = att BY <1>5 DEF Expire
  <2>3. cached' \in [Name -> Entries] BY <1>0, <2>1 DEF Entries
  <2>4. Truthful(run, cached')
    <3>1. ASSUME \A m \in Name : cached[m] \in {Miss, world.names[m]}
          PROVE  \A m \in Name : cached'[m] \in {Miss, world.names[m]}
      BY <1>0, <2>1, <3>1
    <3> QED BY <1>0, <3>1 DEF TruthInv, Truthful
  <2>5. TruthInv(run, cached') BY <1>0, <2>4 DEF TruthInv
  <2>6. StageInv(run, att') BY <1>0, <2>2
  <2> QED BY <1>0, <2>2, <2>3, <2>5, <2>6, Moved
<1>6. CASE UNCHANGED pipelineVars
  <2>1. world' = world /\ run' = run /\ att' = att /\ cached' = cached BY <1>6 DEF pipelineVars
  <2> QED BY <1>0, <2>1, Moved
<1> QED BY <1>2, <1>3, <1>4, <1>5, <1>6

LEMMA InitInv == PipelineInit => PipelineInv
<1> SUFFICES ASSUME PipelineInit PROVE PipelineInv OBVIOUS
<1> USE PipelineAssumption
<1>1. world \in WorldType BY DEF PipelineInputsTyped, PipelineInit, WorldType
<1>2. cached \in [Name -> Entries]
  BY DEF PipelineInputsTyped, PipelineInit, Entries, IsFlake
<1>3. NoRun \in RunType BY MissApart DEF NoRun, RunType, Stages, Halts
<1>4. StageInv(NoRun, att) /\ TruthInv(NoRun, cached)
  BY DEF StageInv, NoRun, TruthInv, Truthful, Knows, RetryKnows
<1> QED BY <1>1, <1>2, <1>3, <1>4 DEF PipelineInit, PipelineInv

LEMMA NextInv == PipelineInv /\ [PipelineNext]_pipelineVars => PipelineInv'
  BY StepInv, OutsideInv DEF PipelineNext

LEMMA InvContains == PipelineInv => PipelineTypeOK /\ StaleCacheIsContained
<1> SUFFICES ASSUME PipelineInv PROVE PipelineTypeOK /\ StaleCacheIsContained OBVIOUS
<1>1. PipelineTypeOK BY DEF PipelineInv, WorldType, RunType, PipelineTypeOK, Entries, StageInv
<1>2. StaleCacheNeverSettles /\ SentIsAttested
  BY DEF PipelineInv, StageInv, Vouched, StaleCacheNeverSettles, SentIsAttested
<1>3. GateDenyIsDeserved BY DEF PipelineInv, TruthInv, RetryKnows, GateDenyIsDeserved
<1>4. RefusalEndsWithEntry BY DEF PipelineInv, TruthInv, Knows, Deserved, RefusalEndsWithEntry
<1> QED BY <1>1, <1>2, <1>3, <1>4 DEF StaleCacheIsContained

(* The pipeline's state keeps its types (orchestrate.ts:263).               *)
THEOREM PipelineTyped == PipelineSpec => []PipelineTypeOK
  BY InitInv, NextInv, InvContains, PTL DEF PipelineSpec

(* Whatever the cache held and whatever was edited between two awaits, what *)
(* a run sends is what the oracle signed and was true when it did, a dry    *)
(* run sends nothing, a denial at the gate whose retry was answered in full *)
(* is deserved, and so is every refusal of a run that was shown the truth   *)
(* (orchestrate.ts:348-622).                                                *)
THEOREM StaleCacheContained == PipelineSpec => []StaleCacheIsContained
  BY InitInv, NextInv, InvContains, PTL DEF PipelineSpec

-----------------------------------------------------------------------------
(***************************************************************************)
(* An answer of the oracle (packages/oracle/src/index.ts), for every       *)
(* combination of reads that fail.                                         *)
(***************************************************************************)
HandlerStages == {"idle", "resolving", "fillAddress", "inheriting", "policies", "valuing", "answered"}
Statuses == {0, 200, 400, 403, 500, 502}
Request == [pc : HandlerStages, amount : [Side -> Nat], apiKey : BOOLEAN, status : Statuses]
ProfileRead == [addr : AddressRead, tier : TierOrdinals, sig : BOOLEAN]
Fact == [tier : TierOrdinals, sig : BOOLEAN, parent : TierOrdinals, policy : OraclePolicies \cup {Unpublished}, valued : BOOLEAN]

HandlerTyped ==
  /\ req \in Request /\ (req.pc = "answered" <=> req.status # 0)
  /\ profile \in [Side -> ProfileRead] /\ policy \in [Side -> OraclePolicies \cup {Unpublished}]
  /\ facts \in [Side -> Fact]

\* What the handler knows at each await, against the truth.
SideInv(s) ==
  /\ req.pc \in {"fillAddress", "inheriting"} => profile[s].tier <= facts[s].tier
  /\ req.pc \in {"fillAddress", "inheriting", "policies", "valuing"} => (profile[s].sig => facts[s].sig)
  /\ req.pc \in {"inheriting", "policies", "valuing"} => profile[s].addr = "claimed"
  /\ req.pc \in {"policies", "valuing"} =>
       profile[s].tier # None /\ profile[s].tier <= Standing(s)
  /\ req.pc = "valuing" => policy[s] \in {facts[s].policy, Unpublished}

HandlerInv ==
  /\ HandlerTyped /\ \A s \in Side : SideInv(s)
  /\ SignedWithinBothPolicies /\ RefusalHasCause

\* The handler goes on to its next await, or answers.
LEMMA HandlerMoved ==
  ASSUME req \in Request, NEW from, NEW to \in HandlerStages, Go(from, to)
  PROVE  /\ req' \in Request /\ req.pc = from /\ req'.pc = to /\ req'.status = req.status
         /\ req'.amount = req.amount
  BY DEF Go, Request
LEMMA Answered ==
  ASSUME req \in Request, NEW from, NEW status \in Statuses, Answer(from, status)
  PROVE  /\ req' \in Request /\ req.pc = from /\ req'.pc = "answered" /\ req'.status = status
         /\ req'.amount = req.amount
<1>1. "answered" \in HandlerStages BY DEF HandlerStages
<1> QED BY <1>1 DEF Answer, Request

\* What is learnt about a side replaces one field of its record.
LEMMA TierLearnt ==
  ASSUME NEW p \in ProfileRead, NEW t \in TierOrdinals, NEW q, q = [p EXCEPT !.tier = t]
  PROVE  q \in ProfileRead /\ q.tier = t /\ q.addr = p.addr /\ q.sig = p.sig
  BY DEF ProfileRead
LEMMA ParentLearnt ==
  ASSUME NEW f \in Fact, NEW t \in TierOrdinals, NEW g, g = [f EXCEPT !.parent = t]
  PROVE  g \in Fact /\ g.parent = t /\ g.tier = f.tier /\ g.sig = f.sig
  BY DEF Fact
LEMMA ValueLearnt ==
  ASSUME NEW f \in Fact, NEW v \in BOOLEAN, NEW g, g = [f EXCEPT !.valued = v]
  PROVE  g \in Fact /\ g.tier = f.tier /\ g.sig = f.sig /\ g.parent = f.parent /\ g.policy = f.policy
         /\ g.valued = v
  BY DEF Fact

\* Between the first await and the answer nothing is promised yet.
LEMMA Unanswered ==
  ASSUME HandlerTyped', req'.pc # "answered", \A s \in Side : SideInv(s)'
  PROVE  HandlerInv'
  BY DEF HandlerInv, SignedWithinBothPolicies, RefusalHasCause, Signed

\* An answer that neither signs nor blames promises nothing.
LEMMA FailedAnswer ==
  ASSUME HandlerInv, NEW from \in HandlerStages, NEW status \in {400, 500, 502}, Answer(from, status),
         profile' \in [Side -> ProfileRead], policy' \in [Side -> OraclePolicies \cup {Unpublished}],
         facts' \in [Side -> Fact]
  PROVE  HandlerInv'
<1>1. req' \in Request /\ req'.pc = "answered" /\ req'.status = status
  <2>1. req \in Request /\ status \in Statuses BY DEF HandlerInv, HandlerTyped, Statuses
  <2> QED BY <2>1, Answered
<1> QED BY <1>1 DEF HandlerInv, HandlerTyped, SideInv, SignedWithinBothPolicies, RefusalHasCause, Signed

\* The better of the two tiers a side can show is counted like each.
LEMMA StandingTyped ==
  ASSUME OracleInputsTyped, facts \in [Side -> Fact], NEW s \in Side
  PROVE  Standing(s) \in Nat /\ facts[s].tier <= Standing(s)
         /\ (s \in Subnames => facts[s].parent <= Standing(s))
<1>1. facts[s].tier \in Nat /\ facts[s].parent \in Nat BY DEF OracleInputsTyped, Fact
<1> QED BY <1>1 DEF Standing

LEMMA OtherSide == \A s \in Side : Other(s) \in Side
<1> SUFFICES ASSUME NEW s \in Side PROVE Other(s) \in Side OBVIOUS
<1>1. \E t \in Side : t # s BY DEF Side
<1> QED BY <1>1 DEF Other

LEMMA InheritInv == ASSUME OracleInputsTyped, HandlerInv, Inherit PROVE HandlerInv'
<1>0. /\ req \in Request /\ profile \in [Side -> ProfileRead] /\ facts \in [Side -> Fact]
      /\ policy \in [Side -> OraclePolicies \cup {Unpublished}] /\ None \in TierOrdinals
  BY DEF HandlerInv, HandlerTyped, OracleInputsTyped
<1>1. PICK parent \in [Side -> TierOrdinals], found \in [Side -> TierOrdinals] :
        /\ \A s \in Side : found[s] <= parent[s]
        /\ LET tier == [s \in Side |-> EffectiveTier(s, found[s])] IN
           /\ profile' = [s \in Side |-> [profile[s] EXCEPT !.tier = tier[s]]]
           /\ facts' = [s \in Side |-> [facts[s] EXCEPT !.parent = parent[s]]]
           /\ IF AtFloor(tier) THEN Go("inheriting", "policies") ELSE Answer("inheriting", 403)
  BY DEF Inherit
<1> DEFINE tier == [s \in Side |-> EffectiveTier(s, found[s])]
<1>2. req.pc = "inheriting" /\ policy' = policy BY <1>1 DEF Inherit, Go, Answer
<1>3. ASSUME NEW s \in Side
      PROVE  /\ profile'[s] \in ProfileRead /\ profile'[s].tier = tier[s]
             /\ profile'[s].addr = profile[s].addr /\ profile'[s].sig = profile[s].sig
             /\ facts'[s] \in Fact /\ facts'[s].parent = parent[s]
             /\ facts'[s].tier = facts[s].tier /\ facts'[s].sig = facts[s].sig
  <2>1. profile[s] \in ProfileRead /\ facts[s] \in Fact /\ parent[s] \in TierOrdinals /\ found[s] \in TierOrdinals BY <1>0
  <2>2. tier[s] \in TierOrdinals BY <1>0, <2>1 DEF EffectiveTier, ProfileRead
  <2> DEFINE t == tier[s]
  <2>3. /\ profile'[s] = [profile[s] EXCEPT !.tier = t]
        /\ facts'[s] = [facts[s] EXCEPT !.parent = parent[s]]
    BY <1>1
  <2> HIDE DEF tier
  <2> QED BY <2>1, <2>2, <2>3, TierLearnt, ParentLearnt
<1>4. profile' \in [Side -> ProfileRead] /\ facts' \in [Side -> Fact]
  <2>1. \A s \in Side : profile'[s] \in ProfileRead BY <1>3
  <2>2. \A s \in Side : facts'[s] \in Fact BY <1>3
  <2> QED BY <1>1, <2>1, <2>2
<1>5. ASSUME NEW s \in Side PROVE tier[s] <= Standing(s)' /\ profile'[s].tier = tier[s]
  <2>1. /\ Standing(s)' \in Nat /\ facts'[s].tier <= Standing(s)'
        /\ (s \in Subnames => facts'[s].parent <= Standing(s)')
    <3>1. facts'[s].tier \in Nat /\ facts'[s].parent \in Nat
      BY <1>3 DEF OracleInputsTyped, Fact
    <3> QED BY <3>1 DEF Standing
  <2>2. facts'[s].tier = facts[s].tier /\ facts'[s].parent = parent[s]
    BY <1>3
  <2>3. profile[s].tier <= facts[s].tier BY <1>2 DEF HandlerInv, SideInv
  <2>4. tier[s] = profile[s].tier \/ (s \in Subnames /\ tier[s] = found[s])
    BY DEF EffectiveTier
  <2>5. profile'[s].tier = tier[s] BY <1>3
  <2>6. /\ found[s] \in Nat /\ parent[s] \in Nat /\ found[s] <= parent[s]
        /\ profile[s].tier \in Nat /\ facts[s].tier \in Nat
    <3>1. found[s] <= parent[s] BY <1>1
    <3>2. profile[s] \in ProfileRead /\ facts[s] \in Fact BY <1>0
    <3> QED BY <3>1, <3>2 DEF OracleInputsTyped, ProfileRead, Fact
  <2> HIDE DEF tier
  <2> QED BY <2>1, <2>2, <2>3, <2>4, <2>5, <2>6
<1>6. ASSUME NEW s \in Side PROVE profile'[s].addr = "claimed" /\ (profile'[s].sig => facts'[s].sig)
  BY <1>2, <1>3 DEF HandlerInv, SideInv
<1> HIDE DEF tier
<1>7. CASE AtFloor(tier) /\ Go("inheriting", "policies")
  <2>1. req' \in Request /\ req'.pc = "policies" /\ req'.status = 0
    BY <1>0, <1>2, <1>7, HandlerMoved DEF HandlerStages, HandlerInv, HandlerTyped
  <2>2. HandlerTyped' BY <1>0, <1>2, <1>4, <2>1 DEF HandlerTyped
  <2>3. \A s \in Side : SideInv(s)'
    BY <1>5, <1>6, <1>7, <2>1 DEF SideInv, AtFloor
  <2> QED BY <2>1, <2>2, <2>3, Unanswered
<1>8. CASE ~AtFloor(tier) /\ Answer("inheriting", 403)
  <2>1. req' \in Request /\ req'.pc = "answered" /\ req'.status = 403
    BY <1>0, <1>8, Answered DEF Statuses
  <2>2. HandlerTyped' BY <1>0, <1>2, <1>4, <2>1 DEF HandlerTyped
  <2>3. PICK s \in Side : profile'[s].tier = None BY <1>5, <1>8 DEF AtFloor
  <2>4. Misread(s)' \/ TrueTier(s)' = None
    <3>1. TrueTier(s)' \in Nat
      <4>1. facts'[s] \in Fact BY <1>3
      <4> QED BY <4>1 DEF TrueTier, OracleInputsTyped, Fact
    <3>2. ~(profile'[s].tier < TrueTier(s)') => TrueTier(s)' = None BY <2>3, <3>1 DEF None
    <3> QED BY <3>2 DEF Misread
  <2>5. RefusalHasCause' BY <2>4 DEF RefusalHasCause
  <2> QED BY <2>1, <2>2, <2>5 DEF HandlerInv, SideInv, SignedWithinBothPolicies, Signed
<1> QED BY <1>1, <1>7, <1>8 DEF tier

\* The tier a profile carries is a number.
LEMMA ProfileTierTyped == ASSUME OracleInputsTyped, NEW p \in ProfileRead PROVE p.tier \in Nat
  BY DEF OracleInputsTyped, ProfileRead

\* And so are the tiers that are true of a side.
LEMMA FactNumbersTyped ==
  ASSUME OracleInputsTyped, NEW f \in Fact PROVE f.tier \in Nat /\ f.parent \in Nat
  BY DEF OracleInputsTyped, Fact

\* Each side's value is its amount or nothing, and what is decided on is the truth.
LEMMA DecideInv == ASSUME OracleInputsTyped, HandlerInv, Decide PROVE HandlerInv'
<1>0. /\ req \in Request /\ profile \in [Side -> ProfileRead] /\ facts \in [Side -> Fact]
      /\ policy \in [Side -> OraclePolicies \cup {Unpublished}] /\ \A s \in Side : SideInv(s)
  BY DEF HandlerInv, HandlerTyped
<1>1. PICK valuable \in [Side -> BOOLEAN], status \in {200, 403, 500} :
        /\ status = 403 <=> \E s \in Side : ~Accepts(s, Valued(valuable)[s])
        /\ Answer("valuing", status)
        /\ facts' = [s \in Side |-> [facts[s] EXCEPT !.valued = valuable[s] /\ req.apiKey]]
        /\ UNCHANGED <<profile, policy>>
  BY DEF Decide
<1> DEFINE signs == \A s \in Side : Accepts(s, Valued(valuable)[s])
<1>2. /\ profile' = profile /\ policy' = policy /\ req'.amount = req.amount
      /\ req' \in Request /\ req'.pc = "answered" /\ req'.status = status
      /\ req.pc = "valuing" /\ (status = 403 <=> ~signs)
  BY <1>0, <1>1, Answered DEF Statuses
<1>3. ASSUME NEW s \in Side
      PROVE  /\ facts'[s].tier = facts[s].tier /\ facts'[s].parent = facts[s].parent
             /\ facts'[s].policy = facts[s].policy /\ facts'[s].sig = facts[s].sig
             /\ facts'[s].valued = (valuable[s] /\ req.apiKey)
             /\ facts'[s] \in Fact
  <2> DEFINE v == valuable[s] /\ req.apiKey
  <2>1. facts[s] \in Fact /\ v \in BOOLEAN BY <1>0
  <2>2. facts'[s] = [facts[s] EXCEPT !.valued = v] BY <1>1
  <2> HIDE DEF v
  <2>5. /\ facts'[s].tier = facts[s].tier /\ facts'[s].parent = facts[s].parent
        /\ facts'[s].policy = facts[s].policy /\ facts'[s].sig = facts[s].sig
        /\ facts'[s].valued = v /\ facts'[s] \in Fact
    BY <2>1, <2>2, ValueLearnt
  <2> QED BY <2>5 DEF v
<1>4. HandlerTyped' BY <1>0, <1>1, <1>2, <1>3 DEF HandlerTyped
<1>5. ASSUME NEW s \in Side
      PROVE  /\ profile[s].addr = "claimed" /\ profile[s].tier # None
             /\ profile[s].tier <= Standing(s) /\ policy[s] \in {facts[s].policy, Unpublished}
             /\ Standing(s)' = Standing(s) /\ Standing(s) \in Nat /\ profile[s].tier \in Nat
             /\ Other(s) \in Side /\ req.amount[s] \in Nat /\ (profile[s].sig => facts'[s].sig)
  <2>1. /\ profile[s].addr = "claimed" /\ profile[s].tier # None
        /\ profile[s].tier <= Standing(s) /\ policy[s] \in {facts[s].policy, Unpublished}
    BY <1>0, <1>2 DEF SideInv
  <2>2. Standing(s)' = Standing(s) BY <1>3 DEF Standing
  <2>3. Standing(s) \in Nat /\ profile[s].tier \in Nat
    <3>1. profile[s] \in ProfileRead BY <1>0
    <3> QED BY <1>0, <3>1, StandingTyped, ProfileTierTyped
  <2>4. Other(s) \in Side /\ req.amount[s] \in Nat BY <1>0, OtherSide DEF Request
  <2>5. profile[s].sig => facts'[s].sig BY <1>0, <1>2, <1>3 DEF SideInv
  <2> QED BY <2>1, <2>2, <2>3, <2>4, <2>5
<1>6. ASSUME NEW s \in Side, policy[s] # Unpublished
      PROVE  /\ policy[s] = facts'[s].policy /\ policy[s].minTier \in Nat
             /\ policy[s].maxSize \in Nat
  BY <1>0, <1>3, <1>5, <1>6 DEF OracleInputsTyped
<1>7. ASSUME NEW s \in Side
      PROVE  Valued(valuable)[s] = IF /\ policy[s] # Unpublished /\ policy[s].maxSize > 0
                                      /\ req.amount[s] > 0 /\ facts'[s].valued
                                   THEN req.amount[s] ELSE 0
  BY <1>3 DEF Valued, HasSize
<1>8. SignedWithinBothPolicies'
  <2> SUFFICES ASSUME signs, NEW s \in Side
               PROVE  LET p == facts'[s].policy IN
                      /\ profile[s].addr = "claimed" /\ Standing(s) # None
                      /\ policy[s] # Unpublished =>
                           /\ p.minTier <= Standing(Other(s))
                           /\ p.maxSize > 0 /\ facts'[s].valued => req.amount[s] <= p.maxSize
                           /\ p.tokens # {} => Inbound[s] \in p.tokens
                           /\ p.sig => facts'[Other(s)].sig
    BY <1>2, <1>5 DEF SignedWithinBothPolicies, Signed
  <2>1. Standing(s) # None BY <1>5 DEF None
  <2>2. ASSUME policy[s] # Unpublished
        PROVE  LET p == policy[s] IN
               /\ p.minTier <= profile[Other(s)].tier
               /\ p.maxSize > 0 /\ facts'[s].valued => req.amount[s] <= p.maxSize
               /\ p.tokens # {} => Inbound[s] \in p.tokens
               /\ p.sig => profile[Other(s)].sig
    <3> DEFINE value == Valued(valuable)[s]
    <3>1. /\ profile[Other(s)].tier >= policy[s].minTier
          /\ value = 0 \/ value <= policy[s].maxSize
          /\ policy[s].tokens = {} \/ Inbound[s] \in policy[s].tokens
          /\ policy[s].sig => profile[Other(s)].sig
      BY <2>2 DEF Accepts
    <3>2. policy[s].maxSize > 0 /\ facts'[s].valued => req.amount[s] <= policy[s].maxSize
      BY <1>5, <1>6, <1>7, <2>2, <3>1
    <3>3. policy[s].minTier <= profile[Other(s)].tier
      BY <1>5, <1>6, <2>2, <3>1
    <3> QED BY <3>1, <3>2, <3>3
  <2>3. policy[s] # Unpublished => policy[s].minTier <= Standing(Other(s))
    BY <1>5, <1>6, <2>2
  <2> QED BY <1>5, <1>6, <2>1, <2>2, <2>3
<1>9. RefusalHasCause'
  <2> SUFFICES ASSUME ~signs
               PROVE  \E s \in Side :
                        \/ Misread(s)' \/ (TrueTier(s) = None)'
                        \/ LET p == facts'[s].policy IN p # Unpublished /\
                             \/ p.minTier > TrueTier(Other(s))'
                             \/ p.maxSize > 0 /\ facts'[s].valued /\ req.amount[s] > p.maxSize
                             \/ p.tokens # {} /\ Inbound[s] \notin p.tokens
                             \/ p.sig /\ ~facts'[Other(s)].sig
    BY <1>2 DEF RefusalHasCause
  <2>1. PICK s \in Side : ~Accepts(s, Valued(valuable)[s]) OBVIOUS
  <2>2. /\ policy[s] # Unpublished
        /\ \/ ~(profile[Other(s)].tier >= policy[s].minTier)
           \/ ~(Valued(valuable)[s] = 0 \/ Valued(valuable)[s] <= policy[s].maxSize)
           \/ ~(policy[s].tokens = {} \/ Inbound[s] \in policy[s].tokens)
           \/ ~(policy[s].sig => profile[Other(s)].sig)
    BY <2>1 DEF Accepts
  <2>3. ASSUME ~(profile[Other(s)].tier >= policy[s].minTier), ~Misread(Other(s))'
        PROVE  policy[s].minTier > TrueTier(Other(s))'
    <3>1. Other(s) \in Side /\ profile[Other(s)].tier \in Nat /\ policy[s].minTier \in Nat
      BY <1>5, <1>6, <2>2
    <3>2. ASSUME NEW t \in Side PROVE TrueTier(t)' \in Nat
      <4>1. facts'[t] \in Fact BY <1>3
      <4>2. facts'[t].tier \in Nat /\ facts'[t].parent \in Nat BY <4>1, FactNumbersTyped
      <4> QED BY <4>2 DEF TrueTier
    <3>3. TrueTier(Other(s))' \in Nat BY <3>1, <3>2
    <3>4. ~(profile[Other(s)].tier < TrueTier(Other(s))') BY <1>2, <2>3 DEF Misread
    <3> QED BY <2>3, <3>1, <3>3, <3>4
  <2>4. ~(Valued(valuable)[s] = 0 \/ Valued(valuable)[s] <= policy[s].maxSize)
          => policy[s].maxSize > 0 /\ facts'[s].valued /\ req.amount[s] > policy[s].maxSize
    BY <1>5, <1>6, <1>7, <2>2
  <2>5. policy[s] = facts'[s].policy BY <1>6, <2>2
  <2>6. ASSUME policy[s].sig, ~profile[Other(s)].sig, ~Misread(Other(s))' PROVE ~facts'[Other(s)].sig
    BY <1>2, <2>6 DEF Misread
  <2>7. Other(s) \in Side BY <1>5
  <2>8. CASE Misread(Other(s))' BY <2>7, <2>8
  <2>9. CASE ~Misread(Other(s))'
    BY <2>2, <2>3, <2>4, <2>5, <2>6, <2>9
  <2> QED BY <2>8, <2>9
<1>10. \A s \in Side : SideInv(s)' BY <1>2 DEF SideInv
<1> QED BY <1>4, <1>8, <1>9, <1>10 DEF HandlerInv

LEMMA HandlerStep == HandlerInv /\ [OracleNext]_oracleVars => HandlerInv'
<1> SUFFICES ASSUME HandlerInv, [OracleNext]_oracleVars PROVE HandlerInv' OBVIOUS
<1> USE OracleAssumption
<1>0. /\ req \in Request /\ profile \in [Side -> ProfileRead] /\ facts \in [Side -> Fact]
      /\ policy \in [Side -> OraclePolicies \cup {Unpublished}] /\ None \in TierOrdinals /\ TierOrdinals \subseteq Nat
      /\ Amounts \subseteq Nat /\ (req.pc = "answered" <=> req.status # 0)
      /\ \A s \in Side : SideInv(s)
  BY DEF HandlerInv, HandlerTyped, OracleInputsTyped
<1>u. Unread \in ProfileRead /\ NoFacts \in Fact /\ NoRequest \in Request
  BY <1>0 DEF Unread, ProfileRead, AddressRead, NoFacts, Fact, NoRequest, Request, HandlerStages, Statuses
<1>1. CASE Reject
  BY <1>0, <1>1, FailedAnswer DEF Reject, HandlerStages
<1>2. CASE Receive
  <2>1. PICK amount \in [Side -> Amounts], apiKey \in BOOLEAN :
          req' = [pc |-> "resolving", amount |-> amount, apiKey |-> apiKey, status |-> 0]
    BY <1>2 DEF Receive
  <2>2. req' \in Request /\ req'.pc = "resolving" /\ req'.status = 0
    <3>1. amount \in [Side -> Nat] BY <1>0
    <3> QED BY <2>1, <3>1 DEF Request, HandlerStages, Statuses
  <2>3. HandlerTyped' BY <1>0, <1>2, <2>2 DEF Receive, HandlerTyped
  <2> QED BY <2>2, <2>3, Unanswered DEF SideInv
<1>3. CASE ResolveBoth
  <2>1. CASE Answer("resolving", 502) /\ UNCHANGED <<profile, policy, facts>>
    BY <1>0, <2>1, FailedAnswer DEF HandlerStages
  <2>2. ASSUME Go("resolving", "fillAddress"), policy' = policy,
               NEW true \in [Side -> Standings],
               profile' \in [Side -> UNION {Findable(true[s]) : s \in Side}],
               \A s \in Side : profile'[s] \in Findable(true[s]),
               facts' = [s \in Side |-> [NoFacts EXCEPT !.tier = true[s].tier, !.sig = true[s].sig]]
        PROVE  HandlerInv'
    <3>1. req' \in Request /\ req'.pc = "fillAddress" /\ req'.status = 0
      <4>1. req \in Request BY <1>0
      <4>2. Go("resolving", "fillAddress") BY <2>2
      <4>3. req.pc = "resolving" BY <4>2 DEF Go
      <4>4. req.status = 0 BY <1>0, <4>3
      <4> QED BY <4>1, <4>2, <4>4, HandlerMoved DEF HandlerStages
    <3>2. ASSUME NEW s \in Side
          PROVE  facts'[s] \in Fact /\ facts'[s].tier = true[s].tier /\ facts'[s].sig = true[s].sig
      <4>1. true[s].tier \in TierOrdinals /\ true[s].sig \in BOOLEAN BY DEF Standings
      <4> QED BY <1>0, <1>u, <2>2, <4>1 DEF Fact, NoFacts
    <3>3. ASSUME NEW s \in Side
          PROVE  /\ profile'[s] \in ProfileRead /\ profile'[s].tier <= true[s].tier
                 /\ (profile'[s].sig => true[s].sig)
      BY <2>2 DEF Findable, ProfileRead
    <3>4. HandlerTyped'
      <4>1. profile' \in [Side -> ProfileRead] BY <2>2, <3>3
      <4>2. facts' \in [Side -> Fact] BY <2>2, <3>2
      <4> QED BY <1>0, <2>2, <3>1, <4>1, <4>2 DEF HandlerTyped
    <3>5. \A s \in Side : SideInv(s)' BY <3>1, <3>2, <3>3 DEF SideInv
    <3> QED BY <3>1, <3>4, <3>5, Unanswered
  <2> QED BY <1>3, <2>1, <2>2 DEF ResolveBoth
<1>4. CASE FillAddresses
  <2>1. PICK addr \in [Side -> AddressRead] :
          /\ profile' = [s \in Side |-> [profile[s] EXCEPT !.addr = addr[s]]]
          /\ IF \A s \in Side : addr[s] = "claimed"
             THEN Go("fillAddress", "inheriting") ELSE Answer("fillAddress", 400)
          /\ UNCHANGED <<policy, facts>>
    BY <1>4 DEF FillAddresses
  <2>2. ASSUME NEW s \in Side
        PROVE  /\ profile'[s] \in ProfileRead /\ profile'[s].addr = addr[s]
               /\ profile'[s].tier = profile[s].tier /\ profile'[s].sig = profile[s].sig
    BY <1>0, <2>1 DEF ProfileRead
  <2>3. profile' \in [Side -> ProfileRead] BY <2>1, <2>2
  <2>4. CASE Answer("fillAddress", 400)
    BY <1>0, <2>1, <2>3, <2>4, FailedAnswer DEF HandlerStages
  <2>5. CASE (\A s \in Side : addr[s] = "claimed") /\ Go("fillAddress", "inheriting")
    <3>1. req' \in Request /\ req'.pc = "inheriting" /\ req'.status = 0 /\ req.pc = "fillAddress"
      BY <1>0, <2>5, HandlerMoved DEF HandlerStages
    <3>2. HandlerTyped' BY <1>0, <2>1, <2>3, <3>1 DEF HandlerTyped
    <3>3. \A s \in Side : SideInv(s)' BY <1>0, <2>1, <2>2, <2>5, <3>1 DEF SideInv
    <3> QED BY <3>1, <3>2, <3>3, Unanswered
  <2> QED BY <2>1, <2>4, <2>5
<1>5. CASE Inherit BY <1>5, InheritInv
<1>6. CASE ReadPolicies
  <2>1. CASE Answer("policies", 502) /\ UNCHANGED <<profile, policy, facts>>
    BY <1>0, <2>1, FailedAnswer DEF HandlerStages
  <2>2. ASSUME Go("policies", "valuing"), profile' = profile,
               NEW published \in [Side -> OraclePolicies \cup {Unpublished}],
               NEW got \in [Side -> OraclePolicies \cup {Unpublished}],
               \A s \in Side : got[s] \in {published[s], Unpublished}, policy' = got,
               facts' = [s \in Side |-> [facts[s] EXCEPT !.policy = published[s]]]
        PROVE  HandlerInv'
    <3>1. req' \in Request /\ req'.pc = "valuing" /\ req'.status = 0 /\ req.pc = "policies"
      BY <1>0, <2>2, HandlerMoved DEF HandlerStages
    <3>2. ASSUME NEW s \in Side
          PROVE  /\ facts'[s] \in Fact /\ facts'[s].policy = published[s]
                 /\ facts'[s].tier = facts[s].tier /\ facts'[s].parent = facts[s].parent
                 /\ facts'[s].sig = facts[s].sig
      BY <1>0, <2>2 DEF Fact
    <3>3. HandlerTyped' BY <1>0, <2>2, <3>1, <3>2 DEF HandlerTyped
    <3>4. \A s \in Side : SideInv(s)' BY <1>0, <2>2, <3>1, <3>2 DEF SideInv, Standing
    <3> QED BY <3>1, <3>3, <3>4, Unanswered
  <2> QED BY <1>6, <2>1, <2>2 DEF ReadPolicies
<1>7. CASE Decide BY <1>7, DecideInv
<1>8. CASE NextRequest
  <2>1. HandlerTyped' /\ req'.pc = "idle"
    BY <1>8, <1>u DEF NextRequest, HandlerTyped, NoRequest
  <2> QED BY <2>1, Unanswered DEF SideInv
<1>9. CASE UNCHANGED oracleVars
  BY <1>9 DEF oracleVars, HandlerInv, HandlerTyped, SideInv, Standing, SignedWithinBothPolicies,
              RefusalHasCause, Signed, Misread, TrueTier
<1> QED BY <1>1, <1>2, <1>3, <1>4, <1>5, <1>6, <1>7, <1>8, <1>9 DEF OracleNext

LEMMA HandlerInit == OracleInit => HandlerInv
<1> SUFFICES ASSUME OracleInit PROVE HandlerInv OBVIOUS
<1> USE OracleAssumption
<1>1. HandlerTyped /\ req.pc = "idle"
  BY DEF OracleInit, OracleInputsTyped, HandlerTyped, NoRequest, Request, HandlerStages, Statuses, Unread, NoFacts, ProfileRead,
         AddressRead, Fact
<1> QED BY <1>1 DEF HandlerInv, SideInv, SignedWithinBothPolicies, RefusalHasCause, Signed

LEMMA HandlerTypeOK == HandlerInv => OracleTypeOK
  BY DEF HandlerInv, HandlerTyped, OracleTypeOK, Request, HandlerStages, Statuses, ProfileRead, Fact

(* The handler's state keeps its types (index.ts:82).                       *)
THEOREM OracleTyped == OracleSpec => []OracleTypeOK
  BY HandlerInit, HandlerStep, HandlerTypeOK, PTL DEF OracleSpec

(* Whatever was degraded, unreachable or refused on the way, what the       *)
(* oracle signs holds of the truth (index.ts:170-402).                      *)
THEOREM SignedIsTrue == OracleSpec => []SignedWithinBothPolicies
<1>1. HandlerInv => SignedWithinBothPolicies BY DEF HandlerInv
<1> QED BY <1>1, HandlerInit, HandlerStep, PTL DEF OracleSpec

(* Whoever is refused on policy grounds is refused for a cause that the     *)
(* truth bears out, unless a side was read short: never for a valuation or  *)
(* a policy's read that failed (index.ts:233-250, 308-402).                 *)
THEOREM RefusedForCause == OracleSpec => []RefusalHasCause
<1>1. HandlerInv => RefusalHasCause BY DEF HandlerInv
<1> QED BY <1>1, HandlerInit, HandlerStep, PTL DEF OracleSpec

-----------------------------------------------------------------------------
(***************************************************************************)
(* One name's RiskPolicy record (packages/core/src/risk-policy.ts), for any *)
(* set of documents, clock and number of changes of the sources.           *)
(***************************************************************************)
ReaderRec == [pc : {"idle", "endpointRecord", "fetching", "policyRecord", "gateway", "resolved", "threw"},
              tag : Tag, sawExpired : BOOLEAN, doc : Docs \cup {Absent},
              source : {"none", "endpoint", "text-record", "expired", "absent", "name", "pin"},
              sure : BOOLEAN]
PublisherRec == [pc : {"idle", "pinning", "lookup", "acked"}, text : Text]

\* No text on its way to the record holds an invalid document.
Good(text) == text \in Text /\ (text # Absent => text.doc.valid)
\* What a text points at is pinned.
Kept(text) == text # Absent /\ text.at = "ipfs" => text.doc \in pins

SourcesTyped ==
  /\ recordNow \in 0..RecordMaxTime /\ recordEdits \in 0..MaxRecordEdits
  /\ latest \in Records /\ final \in Records
  /\ served \in Docs \cup {Absent} /\ pins \subseteq Docs

\* A text is good when its publishing begins, and pinned before it is sent.
TextsInv ==
  /\ pub \in PublisherRec /\ Good(pub.text) /\ (pub.pc # "idle" => pub.text # Absent)
  /\ pub.pc = "lookup" => Kept(pub.text)
  /\ mempool \in Seq(Text) /\ \A i \in 1..Len(mempool) : Good(mempool[i]) /\ Kept(mempool[i])
  /\ Good(latest.policy) /\ Kept(latest.policy)
  /\ Good(final.policy) /\ final.policy \in finals /\ finals \subseteq Text

\* A document that an enforcing reader holds was in a finalized record; a reader
\* that threw has met no invalid text.
ReaderInv(r) ==
  /\ r \in ReaderRec
  /\ r.tag = "finalized" /\ (r.pc = "gateway" \/ r.source \in {"text-record", "pin"}) =>
       \E text \in finals \ {Absent} : text.doc = r.doc
  /\ r.pc \in {"idle", "endpointRecord", "fetching", "policyRecord", "gateway"} => r.source = "none"
  /\ r.pc = "threw" => r.source \in {"endpoint", "name", "pin"}

\* What an undisturbed lookup knows of the sources it has passed.
LooseLive(records) == records.endpoint /\ served # Absent /\ ~served.valid
HasPin(records) == records.policy # Absent /\ records.policy.at = "ipfs"
KnowledgeInv(r) ==
  r.sure =>
    /\ r.pc = "fetching" => Current(r.tag).endpoint
    /\ r.pc \in {"policyRecord", "gateway"} => ~LiveInForce(Current(r.tag))
    /\ r.pc = "gateway" => HasPin(Current(r.tag))
    /\ r.pc = "resolved" => r.doc = FirstInForce(Current(r.tag))
    /\ r.pc = "threw" => \/ LooseLive(Current(r.tag))
                         \/ ~LiveInForce(Current(r.tag)) /\ HasPin(Current(r.tag))

RecordInv == SourcesTyped /\ TextsInv /\ ReaderInv(rd) /\ KnowledgeInv(rd)

-----------------------------------------------------------------------------
\* The first of the two documents in force, one case at a time.
LEMMA FirstInForceIs ==
  ASSUME NEW records \in Records, RecordInputsTyped
  PROVE  /\ LiveInForce(records) => FirstInForce(records) = served
         /\ ~LiveInForce(records) =>
              FirstInForce(records) =
                IF records.policy # Absent /\ ~Expired(records.policy.doc)
                THEN records.policy.doc ELSE Absent
<1> DEFINE docs == <<IF records.endpoint THEN served ELSE Absent,
                     IF records.policy = Absent THEN Absent ELSE records.policy.doc>>
           inForce == {i \in 1..2 : docs[i] # Absent /\ ~Expired(docs[i])}
<1>1. FirstInForce(records) =
        IF inForce = {} THEN Absent ELSE docs[CHOOSE i \in inForce : \A j \in inForce : i <= j]
  BY DEF FirstInForce
<1>2. 1..2 = {1, 2} OBVIOUS
<1>3. records.policy # Absent => records.policy.doc # Absent
  BY DEF Records, Text, RecordInputsTyped
<1>4. 1 \in inForce <=> LiveInForce(records)
  BY <1>2 DEF LiveInForce
<1>5. 2 \in inForce <=> records.policy # Absent /\ ~Expired(records.policy.doc)
  BY <1>2, <1>3
<1>6. inForce \subseteq {1, 2} BY <1>2
<1>7. docs[1] = IF records.endpoint THEN served ELSE Absent OBVIOUS
<1>8. records.policy # Absent => docs[2] = records.policy.doc OBVIOUS
<1> HIDE DEF inForce, docs
<1>9. CASE 1 \in inForce
  <2>1. \A i \in inForce : (\A j \in inForce : i <= j) <=> i = 1 BY <1>6, <1>9
  <2>2. (CHOOSE i \in inForce : \A j \in inForce : i <= j) = 1 BY <1>9, <2>1
  <2> QED BY <1>1, <1>4, <1>7, <1>9, <2>2 DEF LiveInForce
<1>10. CASE 1 \notin inForce /\ 2 \in inForce
  <2>1. \A i \in inForce : (\A j \in inForce : i <= j) <=> i = 2 BY <1>6, <1>10
  <2>2. (CHOOSE i \in inForce : \A j \in inForce : i <= j) = 2 BY <1>10, <2>1
  <2> QED BY <1>1, <1>4, <1>5, <1>8, <1>10, <2>2
<1>11. CASE 1 \notin inForce /\ 2 \notin inForce
  BY <1>1, <1>4, <1>5, <1>6, <1>11
<1> QED BY <1>9, <1>10, <1>11

\* A step of the publisher: the reader and what it reads are as they were.
LEMMA PublishInv ==
  ASSUME RecordInputsTyped, RecordInv, StartPublish \/ Pin \/ SendSetText \/ PublishFails
  PROVE  RecordInv'
<1>1. UNCHANGED <<recordNow, latest, final, served, rd, finals>>
  BY DEF StartPublish, Pin, SendSetText, PublishFails
<1>2. ReaderInv(rd)' BY <1>1 DEF RecordInv, ReaderInv, ReaderRec, Tag
<1>3. KnowledgeInv(rd)'
  BY <1>1 DEF RecordInv, KnowledgeInv, LiveInForce, LooseLive, HasPin, FirstInForce, Current, Expired
<1>4. pins \subseteq pins' BY DEF StartPublish, Pin, SendSetText, PublishFails, Pinned
<1>5. \A text : Kept(text) => Kept(text)' BY <1>4 DEF Kept
<1>6. /\ Good(latest.policy)' /\ Kept(latest.policy)' /\ Good(final.policy)'
      /\ (final.policy \in finals)' /\ (finals \subseteq Text)'
  <2>1. Kept(latest.policy)' BY <1>1, <1>4 DEF RecordInv, TextsInv, Kept
  <2> QED BY <1>1, <2>1 DEF RecordInv, TextsInv, Good, Text
<1>7. CASE StartPublish
  <2>1. PICK doc \in Docs, pref \in {"inline", "ipfs", "auto"} :
          /\ doc.valid /\ recordEdits < MaxRecordEdits /\ recordEdits' = recordEdits + 1
          /\ pub' = [pc |-> IF StorageFor(doc, pref) = "ipfs" THEN "pinning" ELSE "lookup",
                     text |-> [at |-> StorageFor(doc, pref), doc |-> doc]]
          /\ UNCHANGED <<pins, mempool>>
    BY <1>7 DEF StartPublish, Publishable
  <2>2. StorageFor(doc, pref) \in {"inline", "ipfs"} BY DEF StorageFor
  <2>3. pub' \in PublisherRec BY <2>1, <2>2 DEF PublisherRec, Text
  <2>4. Good(pub.text)' BY <2>1, <2>2, <2>3 DEF PublisherRec, Good, Text
  <2>5. (pub.pc = "lookup" => Kept(pub.text))' /\ (pub.text # Absent)'
    BY <2>1, <2>2 DEF Kept, RecordInputsTyped
  <2>6. SourcesTyped' BY <1>1, <2>1 DEF RecordInv, SourcesTyped, RecordInputsTyped, Records, Text
  <2>7. (mempool \in Seq(Text) /\ \A i \in 1..Len(mempool) : Good(mempool[i]) /\ Kept(mempool[i]))'
    BY <2>1 DEF RecordInv, TextsInv, Good, Kept, Text
  <2>8. TextsInv' BY <1>6, <2>3, <2>4, <2>5, <2>7 DEF TextsInv, PublisherRec, Text
  <2> QED BY <1>2, <1>3, <2>6, <2>8 DEF RecordInv
<1>8. CASE Pin \/ PublishFails
  <2>1. UNCHANGED <<recordEdits, mempool>> /\ pins' \subseteq Docs
    BY <1>8 DEF Pin, PublishFails, Pinned, RecordInv, SourcesTyped, TextsInv, Good, Text,
                PublisherRec
  <2>2. SourcesTyped' BY <1>1, <2>1 DEF RecordInv, SourcesTyped, Records, Text
  <2>3. (mempool \in Seq(Text) /\ \A i \in 1..Len(mempool) : Good(mempool[i]) /\ Kept(mempool[i]))'
    BY <1>4, <2>1 DEF RecordInv, TextsInv, Good, Kept, Text
  <2>4. /\ pub' \in PublisherRec /\ Good(pub.text)'
        /\ (pub.pc # "idle" => pub.text # Absent)'
    BY <1>8 DEF Pin, PublishFails, NotPublishing, RecordInv, TextsInv, PublisherRec, Good, Text
  <2>5. (pub.pc = "lookup" => Kept(pub.text))'
    BY <1>8 DEF Pin, PublishFails, Pinned, NotPublishing, RecordInv, TextsInv, PublisherRec, Kept
  <2>6. TextsInv' BY <1>6, <2>3, <2>4, <2>5 DEF TextsInv, PublisherRec, Text
  <2> QED BY <1>2, <1>3, <2>2, <2>6 DEF RecordInv
<1>9. CASE SendSetText
  <2>1. /\ UNCHANGED <<recordEdits, pins>> /\ pub' = [pub EXCEPT !.pc = "acked"]
        /\ mempool' = Append(mempool, pub.text) /\ Good(pub.text) /\ Kept(pub.text)
    BY <1>9 DEF SendSetText, RecordInv, TextsInv
  <2>2. SourcesTyped' BY <1>1, <2>1 DEF RecordInv, SourcesTyped, Records, Text
  <2>3. mempool \in Seq(Text) /\ pub.text \in Text BY <2>1 DEF RecordInv, TextsInv, Good
  <2>4. mempool' \in Seq(Text) BY <2>1, <2>3
  <2>5. ASSUME NEW i \in 1..Len(mempool') PROVE Good(mempool'[i]) /\ Kept(mempool'[i])
    <3>1. CASE i \in 1..Len(mempool)
      <4>1. mempool'[i] = mempool[i] BY <2>1, <2>3, <3>1
      <4> QED BY <3>1, <4>1 DEF RecordInv, TextsInv
    <3>2. CASE i = Len(mempool) + 1
      <4>1. mempool'[i] = pub.text BY <2>1, <2>3, <3>2
      <4> QED BY <2>1, <4>1
    <3> QED BY <2>1, <2>3, <3>1, <3>2
  <2>6. (\A i \in 1..Len(mempool) : Good(mempool[i]) /\ Kept(mempool[i]))'
    BY <2>1, <2>5 DEF Good, Kept, Text
  <2>7. /\ pub' \in PublisherRec /\ Good(pub.text)' /\ (pub.pc # "lookup")'
        /\ (pub.text # Absent)'
    BY <1>9, <2>1 DEF SendSetText, RecordInv, TextsInv, PublisherRec, Good, Text
  <2>8. TextsInv' BY <1>6, <2>4, <2>6, <2>7 DEF TextsInv, PublisherRec, Text
  <2> QED BY <1>2, <1>3, <2>2, <2>8 DEF RecordInv
<1> QED BY <1>7, <1>8, <1>9

\* The sources change: a reader under way knows nothing for sure any more.
LEMMA DisturbInv ==
  ASSUME RecordInputsTyped, RecordInv, Disturb, finals \subseteq finals', UNCHANGED pub
  PROVE  ReaderInv(rd)' /\ KnowledgeInv(rd)'
<1>1. rd' = [rd EXCEPT !.sure = (rd.pc = "idle")] /\ rd \in ReaderRec
  BY DEF Disturb, RecordInv, ReaderInv
<1>2. /\ rd' \in ReaderRec /\ rd'.pc = rd.pc /\ rd'.tag = rd.tag /\ rd'.doc = rd.doc
      /\ rd'.source = rd.source /\ rd'.sure = (rd.pc = "idle")
  BY <1>1 DEF ReaderRec
<1>3. ReaderInv(rd)' BY <1>2 DEF RecordInv, ReaderInv, ReaderRec, Tag
<1>4. KnowledgeInv(rd)' BY <1>2 DEF KnowledgeInv
<1> QED BY <1>3, <1>4

LEMMA SourceInv ==
  ASSUME RecordInputsTyped, RecordInv,
         Mine \/ SetEndpoint \/ Finalize \/ RecordTick \/ (\E doc \in Docs \cup {Absent} : Serve(doc))
  PROVE  RecordInv'
<1>1. Disturb /\ UNCHANGED <<pub, pins>> /\ finals \subseteq finals'
  BY DEF Mine, SetEndpoint, Finalize, RecordTick, Serve
<1>2. ReaderInv(rd)' /\ KnowledgeInv(rd)' BY <1>1, DisturbInv
<1>3. /\ pub' \in PublisherRec /\ Good(pub.text)' /\ (pub.pc # "idle" => pub.text # Absent)'
      /\ (pub.pc = "lookup" => Kept(pub.text))'
  BY <1>1 DEF RecordInv, TextsInv, PublisherRec, Good, Kept, Text
<1>4. CASE Mine
  <2>1. /\ mempool # <<>> /\ mempool' = Tail(mempool) /\ mempool \in Seq(Text)
        /\ latest' = [latest EXCEPT !.policy = Head(mempool)]
        /\ UNCHANGED <<recordNow, final, served, recordEdits, finals>>
    BY <1>4 DEF Mine, RecordInv, TextsInv
  <2>2. Head(mempool) = mempool[1] /\ 1 \in 1..Len(mempool) BY <2>1
  <2>3. Good(Head(mempool)) /\ Kept(Head(mempool)) BY <2>2 DEF RecordInv, TextsInv
  <2>4. latest \in Records BY DEF RecordInv, SourcesTyped
  <2>5. latest' \in Records /\ latest'.policy = Head(mempool)
    BY <2>1, <2>3, <2>4 DEF Records, Good
  <2>6. SourcesTyped' BY <1>1, <2>1, <2>5 DEF RecordInv, SourcesTyped, Records, Text
  <2>7. mempool' \in Seq(Text) /\ Len(mempool') = Len(mempool) - 1 BY <2>1
  <2>8. ASSUME NEW i \in 1..Len(mempool') PROVE Good(mempool'[i]) /\ Kept(mempool'[i])
    <3>1. i + 1 \in 1..Len(mempool) /\ mempool'[i] = mempool[i + 1] BY <2>1, <2>7
    <3> QED BY <3>1 DEF RecordInv, TextsInv
  <2>9. (\A i \in 1..Len(mempool) : Good(mempool[i]) /\ Kept(mempool[i]))'
    BY <1>1, <2>8 DEF Good, Kept, Text
  <2>10. Good(latest.policy)' /\ Kept(latest.policy)'
    BY <1>1, <2>3, <2>5 DEF Good, Kept, Text
  <2>11. Good(final.policy)' /\ (final.policy \in finals)' /\ (finals \subseteq Text)'
    BY <2>1 DEF RecordInv, TextsInv, Good, Text
  <2>12. TextsInv' BY <1>3, <2>7, <2>9, <2>10, <2>11 DEF TextsInv, PublisherRec, Text
  <2> QED BY <1>2, <2>6, <2>12 DEF RecordInv
<1>5. CASE ~Mine
  <2>1. UNCHANGED mempool /\ latest'.policy = latest.policy /\ latest' \in Records
    BY <1>5 DEF SetEndpoint, Finalize, RecordTick, Serve, RecordInv, SourcesTyped, Records
  <2>2. (mempool \in Seq(Text) /\ \A i \in 1..Len(mempool) : Good(mempool[i]) /\ Kept(mempool[i]))'
    BY <1>1, <2>1 DEF RecordInv, TextsInv, Good, Kept, Text
  <2>3. Good(latest.policy)' /\ Kept(latest.policy)'
    BY <1>1, <2>1 DEF RecordInv, TextsInv, Good, Kept, Text
  <2>4. /\ final' \in Records
        /\ \/ final' = final /\ finals' = finals
           \/ final' = latest /\ finals' = finals \cup {latest.policy}
    BY <1>5 DEF SetEndpoint, Finalize, RecordTick, Serve, RecordInv, SourcesTyped
  <2>5. Good(final.policy)' /\ (final.policy \in finals)' /\ (finals \subseteq Text)'
    BY <2>4 DEF RecordInv, TextsInv, Good, Text
  <2>6. TextsInv' BY <1>3, <2>2, <2>3, <2>5 DEF TextsInv, PublisherRec, Text
  <2>7. recordNow' \in 0..RecordMaxTime /\ recordEdits' \in 0..MaxRecordEdits
    BY <1>5 DEF SetEndpoint, Finalize, RecordTick, Serve, RecordInv, SourcesTyped, RecordInputsTyped
  <2>8. served' \in Docs \cup {Absent}
    BY <1>5 DEF SetEndpoint, Finalize, RecordTick, Serve, RecordInv, SourcesTyped
  <2>9. SourcesTyped'
    BY <1>1, <2>1, <2>4, <2>7, <2>8 DEF RecordInv, SourcesTyped, Records, Text
  <2> QED BY <1>2, <2>6, <2>9 DEF RecordInv
<1> QED BY <1>4, <1>5

-----------------------------------------------------------------------------
\* A read of the reader's: the sources stay, and what it leaves it with will do.
LEMMA ReadingInv ==
  ASSUME RecordInputsTyped, RecordInv, NEW from, NEW next, Reading(from, next),
         ReaderInv(next), KnowledgeInv(next)
  PROVE  RecordInv'
<1>1. rd' = next /\ UNCHANGED <<recordNow, latest, final, served, mempool, pins, recordEdits, pub, finals>>
  BY DEF Reading
<1>2. SourcesTyped' BY <1>1 DEF RecordInv, SourcesTyped, Records, Text
<1>3. TextsInv' BY <1>1 DEF RecordInv, TextsInv, PublisherRec, Good, Kept, Text
<1>4. ReaderInv(rd)' BY <1>1 DEF ReaderInv, ReaderRec, Tag
<1>5. KnowledgeInv(rd)' BY <1>1 DEF KnowledgeInv, LiveInForce, LooseLive, HasPin, FirstInForce, Current, Expired
<1> QED BY <1>2, <1>3, <1>4, <1>5 DEF RecordInv

\* A reader that is no longer sure claims nothing.
LEMMA UnsureInv ==
  ASSUME NEW next, ReaderInv(next)
  PROVE  ReaderInv(Unsure(next)) /\ KnowledgeInv(Unsure(next))
<1>1. Unsure(next) = [next EXCEPT !.sure = FALSE] /\ next \in ReaderRec BY DEF Unsure, ReaderInv
<1>2. /\ Unsure(next) \in ReaderRec /\ Unsure(next).pc = next.pc /\ Unsure(next).tag = next.tag
      /\ Unsure(next).doc = next.doc /\ Unsure(next).source = next.source /\ ~Unsure(next).sure
  BY <1>1 DEF ReaderRec
<1>3. ReaderInv(Unsure(next)) BY <1>2 DEF ReaderInv
<1> QED BY <1>2, <1>3 DEF KnowledgeInv

\* On to the next source, or to the end without a policy.
LEMMA NextSourceInv ==
  ASSUME RecordInputsTyped, RecordInv, NEW expired \in BOOLEAN,
         rd.pc \in {"endpointRecord", "fetching", "policyRecord"}
  PROVE  /\ ReaderInv(NextSource(expired))
         /\ NextSource(expired).tag = rd.tag /\ NextSource(expired).sure = rd.sure
         /\ rd.pc \in {"endpointRecord", "fetching"} => NextSource(expired).pc = "policyRecord"
         /\ rd.pc = "policyRecord" =>
              NextSource(expired).pc = "resolved" /\ NextSource(expired).doc = Absent
<1> DEFINE next == NextSource(expired)
<1>0. rd \in ReaderRec /\ rd.source = "none" BY DEF RecordInv, ReaderInv
<1>1. CASE rd.pc \in {"endpointRecord", "fetching"}
  <2>1. next = [rd EXCEPT !.pc = "policyRecord", !.sawExpired = expired] BY <1>1 DEF NextSource
  <2>2. /\ next \in ReaderRec /\ next.pc = "policyRecord" /\ next.tag = rd.tag
        /\ next.sure = rd.sure /\ next.source = "none"
    BY <1>0, <2>1 DEF ReaderRec
  <2> QED BY <1>1, <2>2 DEF ReaderInv
<1>2. CASE rd.pc = "policyRecord"
  <2>1. next = [rd EXCEPT !.pc = "resolved", !.doc = Absent,
                   !.source = IF rd.sawExpired \/ expired THEN "expired" ELSE "absent"]
    BY <1>2 DEF NextSource
  <2>2. /\ next \in ReaderRec /\ next.pc = "resolved" /\ next.tag = rd.tag /\ next.doc = Absent
        /\ next.sure = rd.sure /\ next.source \in {"expired", "absent"}
    BY <1>0, <2>1 DEF ReaderRec
  <2> QED BY <1>2, <2>2 DEF ReaderInv
<1> QED BY <1>1, <1>2

\* What a document, read from wherever the reader is, does to the lookup.
LEMMA ClassifyInv ==
  ASSUME RecordInputsTyped, RecordInv, NEW doc \in Docs \cup {Absent},
         NEW source \in {"endpoint", "text-record"},
         rd.pc \in {"fetching", "policyRecord"},
         rd.pc = "fetching" <=> source = "endpoint",
         source # "endpoint" /\ doc # Absent =>
           /\ doc.valid
           /\ rd.tag = "finalized" => \E text \in finals \ {Absent} : text.doc = doc
  PROVE  /\ ReaderInv(Classify(doc, source))
         /\ Classify(doc, source).tag = rd.tag /\ Classify(doc, source).sure = rd.sure
         /\ Classify(doc, source).pc = "threw" => doc # Absent /\ ~doc.valid
         /\ doc # Absent /\ ~Expired(doc) =>
              \/ Classify(doc, source).pc = "threw"
              \/ Classify(doc, source).pc = "resolved" /\ Classify(doc, source).doc = doc
         /\ ~(doc # Absent /\ ~Expired(doc)) =>
              \/ Classify(doc, source).pc = "threw"
              \/ rd.pc = "fetching" /\ Classify(doc, source).pc = "policyRecord"
              \/ /\ rd.pc = "policyRecord" /\ Classify(doc, source).pc = "resolved"
                 /\ Classify(doc, source).doc = Absent
<1> DEFINE next == Classify(doc, source)
<1>0. rd \in ReaderRec /\ rd.source = "none" BY DEF RecordInv, ReaderInv
<1>1. CASE doc = Absent
  <2>1. next = NextSource(FALSE) BY <1>1 DEF Classify
  <2> QED BY <1>1, <2>1, NextSourceInv
<1>2. CASE doc # Absent /\ ~doc.valid
  <2>1. next = [rd EXCEPT !.pc = "threw", !.source = source] BY <1>2 DEF Classify
  <2>2. source = "endpoint" BY <1>2
  <2>3. /\ next \in ReaderRec /\ next.pc = "threw" /\ next.tag = rd.tag /\ next.sure = rd.sure
        /\ next.source = "endpoint"
    BY <1>0, <2>1, <2>2 DEF ReaderRec
  <2>4. ReaderInv(next) BY <2>3 DEF ReaderInv
  <2> QED BY <1>2, <2>3, <2>4
<1>3. CASE doc # Absent /\ doc.valid /\ Expired(doc)
  <2>1. next = NextSource(TRUE) BY <1>3 DEF Classify
  <2> QED BY <1>3, <2>1, NextSourceInv
<1>4. CASE doc # Absent /\ doc.valid /\ ~Expired(doc)
  <2>1. next = [rd EXCEPT !.pc = "resolved", !.doc = doc, !.source = source]
    BY <1>4 DEF Classify
  <2>2. /\ next \in ReaderRec /\ next.pc = "resolved" /\ next.tag = rd.tag /\ next.sure = rd.sure
        /\ next.source = source /\ next.doc = doc
    BY <1>0, <2>1 DEF ReaderRec
  <2>3. ReaderInv(next) BY <1>4, <2>2 DEF ReaderInv
  <2> QED BY <1>4, <2>2, <2>3
<1> QED BY <1>1, <1>2, <1>3, <1>4

\* A lookup begins, or its result is taken: nothing is claimed.
LEMMA EdgeInv ==
  ASSUME RecordInputsTyped, RecordInv, StartLookup \/ ReaderDone
  PROVE  RecordInv'
<1>1. ASSUME NEW tag \in Tag,
             Reading("idle", [NotReading EXCEPT !.pc = "endpointRecord", !.tag = tag])
      PROVE  RecordInv'
  <2> DEFINE next == [NotReading EXCEPT !.pc = "endpointRecord", !.tag = tag]
  <2>2. /\ next \in ReaderRec /\ next.pc = "endpointRecord" /\ next.source = "none"
    BY DEF NotReading, ReaderRec
  <2>3. ReaderInv(next) /\ KnowledgeInv(next) BY <2>2 DEF ReaderInv, KnowledgeInv
  <2> HIDE DEF next
  <2> QED BY <1>1, <2>3, ReadingInv DEF next
<1>3. ASSUME NEW tag \in Tag,
             Reading("idle", Unsure([NotReading EXCEPT !.pc = "threw", !.tag = tag, !.source = "name"]))
      PROVE  RecordInv'
  <2> DEFINE next == [NotReading EXCEPT !.pc = "threw", !.tag = tag, !.source = "name"]
  <2>2. /\ next \in ReaderRec /\ next.pc = "threw" /\ next.source = "name"
    BY DEF NotReading, ReaderRec
  <2>3. ReaderInv(next) BY <2>2 DEF ReaderInv
  <2> HIDE DEF next
  <2>4. ReaderInv(Unsure(next)) /\ KnowledgeInv(Unsure(next)) BY <2>3, UnsureInv
  <2> QED BY <1>3, <2>4, ReadingInv DEF next
<1>2. CASE ReaderDone
  <2>1. NotReading \in ReaderRec /\ NotReading.pc = "idle" /\ NotReading.source = "none"
    BY DEF NotReading, ReaderRec, Tag
  <2>2. ReaderInv(NotReading) /\ KnowledgeInv(NotReading) BY <2>1 DEF ReaderInv, KnowledgeInv
  <2> QED BY <1>2, <2>2, ReadingInv DEF ReaderDone
<1> QED BY <1>1, <1>2, <1>3 DEF StartLookup

\* The endpoint record is read, or the read fails.
LEMMA EndpointRecordInv ==
  ASSUME RecordInputsTyped, RecordInv, ReadEndpointRecord
  PROVE  RecordInv'
<1>0. rd.pc = "endpointRecord" /\ rd \in ReaderRec /\ rd.source = "none"
  BY DEF ReadEndpointRecord, Reading, RecordInv, ReaderInv
<1>1. CASE Reading("endpointRecord", Unsure(NextSource(FALSE)))
  <2>1. ReaderInv(NextSource(FALSE)) BY <1>0, NextSourceInv
  <2>2. ReaderInv(Unsure(NextSource(FALSE))) /\ KnowledgeInv(Unsure(NextSource(FALSE)))
    BY <2>1, UnsureInv
  <2> QED BY <1>1, <2>2, ReadingInv
<1>2. ASSUME NEW records \in ReadAt(rd.tag),
             Reading("endpointRecord",
               [rd EXCEPT !.pc = IF records.endpoint THEN "fetching" ELSE "policyRecord",
                          !.sure = @ /\ records = Current(rd.tag)])
      PROVE  RecordInv'
  <2> DEFINE next == [rd EXCEPT !.pc = IF records.endpoint THEN "fetching" ELSE "policyRecord",
                                !.sure = @ /\ records = Current(rd.tag)]
  <2>1. /\ next \in ReaderRec /\ next.source = "none" /\ next.tag = rd.tag
        /\ next.pc = IF records.endpoint THEN "fetching" ELSE "policyRecord"
        /\ next.sure <=> rd.sure /\ records = Current(rd.tag)
    BY <1>0 DEF ReaderRec
  <2>2. ReaderInv(next) BY <2>1 DEF ReaderInv
  <2>3. KnowledgeInv(next) BY <2>1 DEF KnowledgeInv, LiveInForce
  <2> HIDE DEF next
  <2> QED BY <1>2, <2>2, <2>3, ReadingInv DEF next
<1> QED BY <1>1, <1>2 DEF ReadEndpointRecord

\* The live document is fetched, or the fetch fails.
LEMMA FetchInv ==
  ASSUME RecordInputsTyped, RecordInv, FetchFromEndpoint
  PROVE  RecordInv'
<1>0. rd.pc = "fetching" /\ rd \in ReaderRec /\ served \in Docs \cup {Absent}
  BY DEF FetchFromEndpoint, Reading, RecordInv, ReaderInv, SourcesTyped
<1>1. CASE Reading("fetching", Unsure(NextSource(FALSE)))
  <2>1. ReaderInv(NextSource(FALSE)) BY <1>0, NextSourceInv
  <2>2. ReaderInv(Unsure(NextSource(FALSE))) /\ KnowledgeInv(Unsure(NextSource(FALSE)))
    BY <2>1, UnsureInv
  <2> QED BY <1>1, <2>2, ReadingInv
<1>2. CASE Reading("fetching", Classify(served, "endpoint"))
  <2> DEFINE next == Classify(served, "endpoint")
  <2>1. /\ ReaderInv(next) /\ next.tag = rd.tag /\ next.sure = rd.sure
        /\ next.pc = "threw" => served # Absent /\ ~served.valid
        /\ served # Absent /\ ~Expired(served) =>
             next.pc = "threw" \/ (next.pc = "resolved" /\ next.doc = served)
        /\ ~(served # Absent /\ ~Expired(served)) =>
             next.pc = "threw" \/ next.pc = "policyRecord"
    BY <1>0, ClassifyInv
  <2>2. rd.sure => Current(rd.tag).endpoint BY <1>0 DEF RecordInv, KnowledgeInv
  <2>3. Current(rd.tag) \in Records BY DEF Current, RecordInv, SourcesTyped
  <2>4. LiveInForce(Current(rd.tag)) => FirstInForce(Current(rd.tag)) = served
    BY <2>3, FirstInForceIs
  <2>5. rd.sure => (LiveInForce(Current(rd.tag)) <=> served # Absent /\ ~Expired(served))
    BY <2>2 DEF LiveInForce
  <2> HIDE DEF next
  <2>6. KnowledgeInv(next)
    <3> SUFFICES ASSUME next.sure
                 PROVE  /\ next.pc \in {"policyRecord", "resolved", "threw"}
                        /\ next.pc = "policyRecord" => ~LiveInForce(Current(rd.tag))
                        /\ next.pc = "resolved" => next.doc = FirstInForce(Current(rd.tag))
                        /\ next.pc = "threw" => LooseLive(Current(rd.tag))
      BY <2>1 DEF KnowledgeInv
    <3>1. rd.sure BY <2>1
    <3>2. next.pc = "threw" => LooseLive(Current(rd.tag)) BY <2>1, <2>2, <3>1 DEF LooseLive
    <3> QED BY <2>1, <2>4, <2>5, <3>1, <3>2
  <2> QED BY <1>2, <2>1, <2>6, ReadingInv DEF next
<1> QED BY <1>1, <1>2 DEF FetchFromEndpoint

\* A document that the text record holds ends the lookup.
LEMMA EndKnows ==
  ASSUME RecordInputsTyped, RecordInv, rd.pc = "policyRecord",
         NEW doc \in Docs \cup {Absent}, NEW next, next.tag = rd.tag,
         next.sure => /\ rd.sure
                      /\ doc = IF Current(rd.tag).policy = Absent
                               THEN Absent ELSE Current(rd.tag).policy.doc,
         doc # Absent /\ ~Expired(doc) => next.pc = "resolved" /\ next.doc = doc,
         ~(doc # Absent /\ ~Expired(doc)) => next.pc = "resolved" /\ next.doc = Absent
  PROVE  KnowledgeInv(next)
<1>0. next.pc = "resolved" OBVIOUS
<1> SUFFICES ASSUME next.sure PROVE next.doc = FirstInForce(Current(rd.tag))
  BY <1>0 DEF KnowledgeInv
<1>1. Current(rd.tag) \in Records BY DEF Current, RecordInv, SourcesTyped
<1>2. ~LiveInForce(Current(rd.tag)) BY DEF RecordInv, KnowledgeInv
<1>3. FirstInForce(Current(rd.tag)) =
        IF Current(rd.tag).policy # Absent /\ ~Expired(Current(rd.tag).policy.doc)
        THEN Current(rd.tag).policy.doc ELSE Absent
  BY <1>1, <1>2, FirstInForceIs
<1>4. Current(rd.tag).policy # Absent => Current(rd.tag).policy.doc # Absent
  BY <1>1 DEF Records, Text, RecordInputsTyped
<1> QED BY <1>3, <1>4

\* What ReadAt answers is the latest or the final records; with the finalized tag, the final ones.
LEMMA ReadAtGood ==
  ASSUME RecordInputsTyped, RecordInv, NEW records \in ReadAt(rd.tag), records.policy # Absent
  PROVE  /\ records.policy.doc \in Docs /\ records.policy.doc.valid
         /\ rd.tag = "finalized" =>
              \E text \in finals \ {Absent} : text.doc = records.policy.doc
<1>1. records = latest \/ records = final BY DEF ReadAt, Current
<1>2. Good(records.policy) BY <1>1 DEF RecordInv, TextsInv
<1>3. rd.tag = "finalized" => records = final BY DEF ReadAt, Current
<1>4. final.policy \in finals BY DEF RecordInv, TextsInv
<1>5. rd.tag = "finalized" => records.policy \in finals \ {Absent} BY <1>3, <1>4
<1> QED BY <1>2, <1>5 DEF Good, Text

\* The text record is read, or the read fails.
LEMMA PolicyRecordInv ==
  ASSUME RecordInputsTyped, RecordInv, ReadPolicyRecord
  PROVE  RecordInv'
<1>0. rd.pc = "policyRecord" /\ rd \in ReaderRec /\ rd.source = "none"
  BY DEF ReadPolicyRecord, Reading, RecordInv, ReaderInv
<1>1. CASE Reading("policyRecord", Unsure(NextSource(FALSE)))
  <2>1. ReaderInv(NextSource(FALSE)) BY <1>0, NextSourceInv
  <2>2. ReaderInv(Unsure(NextSource(FALSE))) /\ KnowledgeInv(Unsure(NextSource(FALSE)))
    BY <2>1, UnsureInv
  <2> QED BY <1>1, <2>2, ReadingInv
<1> DEFINE DocOf(text) == IF text = Absent THEN Absent ELSE text.doc
           Then(text) == IF text # Absent /\ text.at = "ipfs"
                         THEN [rd EXCEPT !.pc = "gateway", !.doc = text.doc]
                         ELSE Classify(DocOf(text), "text-record")
           Left(records) == [Then(records.policy) EXCEPT !.sure = @ /\ records = Current(rd.tag)]
<1>2. ASSUME NEW records \in ReadAt(rd.tag), Reading("policyRecord", Left(records))
      PROVE  RecordInv'
  <2> DEFINE text == records.policy
             next == Left(records)
  <2>1. text # Absent =>
          /\ text.doc \in Docs /\ text.doc.valid
          /\ rd.tag = "finalized" => \E t \in finals \ {Absent} : t.doc = text.doc
    BY ReadAtGood
  <2>2. CASE text # Absent /\ text.at = "ipfs"
    <3>1. next = [[rd EXCEPT !.pc = "gateway", !.doc = text.doc]
                    EXCEPT !.sure = @ /\ records = Current(rd.tag)]
      BY <2>2
    <3>2. /\ next \in ReaderRec /\ next.pc = "gateway" /\ next.doc = text.doc
          /\ next.tag = rd.tag /\ next.source = "none"
          /\ next.sure <=> rd.sure /\ records = Current(rd.tag)
      BY <1>0, <2>1, <2>2, <3>1 DEF ReaderRec
    <3>3. ReaderInv(next) BY <2>1, <2>2, <3>2 DEF ReaderInv
    <3>4. rd.sure => ~LiveInForce(Current(rd.tag)) BY <1>0 DEF RecordInv, KnowledgeInv
    <3>5. KnowledgeInv(next) BY <2>2, <3>2, <3>4 DEF KnowledgeInv, HasPin
    <3> HIDE DEF next
    <3> QED BY <1>2, <3>3, <3>5, ReadingInv DEF next
  <2>3. CASE ~(text # Absent /\ text.at = "ipfs")
    <3> DEFINE doc == DocOf(text)
               mid == Classify(doc, "text-record")
    <3>1. doc \in Docs \cup {Absent} BY <2>1
    <3>2. /\ ReaderInv(mid) /\ mid.tag = rd.tag /\ mid.sure = rd.sure
          /\ doc # Absent /\ ~Expired(doc) => mid.pc = "resolved" /\ mid.doc = doc
          /\ ~(doc # Absent /\ ~Expired(doc)) => mid.pc = "resolved" /\ mid.doc = Absent
      <4>1. doc # Absent => /\ doc.valid
                            /\ rd.tag = "finalized" => \E t \in finals \ {Absent} : t.doc = doc
        BY <2>1
      <4> HIDE DEF doc
      <4> QED BY <1>0, <3>1, <4>1, ClassifyInv
    <3>3. next = [mid EXCEPT !.sure = @ /\ records = Current(rd.tag)] BY <2>3
    <3>4. mid \in ReaderRec BY <3>2 DEF ReaderInv
    <3> HIDE DEF mid, next
    <3>5. /\ next \in ReaderRec /\ next.pc = mid.pc /\ next.tag = mid.tag
          /\ next.doc = mid.doc /\ next.source = mid.source
          /\ next.sure <=> mid.sure /\ records = Current(rd.tag)
      BY <3>3, <3>4 DEF ReaderRec
    <3>6. ReaderInv(next) BY <3>2, <3>5 DEF ReaderInv
    <3>7. next.sure => /\ rd.sure
                       /\ doc = IF Current(rd.tag).policy = Absent
                                THEN Absent ELSE Current(rd.tag).policy.doc
      BY <3>2, <3>5
    <3> HIDE DEF doc
    <3>8. KnowledgeInv(next) BY <1>0, <3>1, <3>2, <3>5, <3>7, EndKnows
    <3>9. Reading("policyRecord", next) BY <1>2 DEF next
    <3> QED BY <3>6, <3>8, <3>9, ReadingInv
  <2> QED BY <2>2, <2>3
<1>3. \/ Reading("policyRecord", Unsure(NextSource(FALSE)))
      \/ \E records \in ReadAt(rd.tag) : Reading("policyRecord", Left(records))
  BY DEF ReadPolicyRecord
<1> HIDE DEF Left
<1> QED BY <1>1, <1>2, <1>3

\* A pin is not found under the whole record: the lookup throws.
LEMMA GatewayInv ==
  ASSUME RecordInputsTyped, RecordInv, FetchFromIpfs
  PROVE  RecordInv'
<1> DEFINE next == [rd EXCEPT !.pc = "threw", !.source = "pin"]
<1>1. Reading("gateway", next) BY DEF FetchFromIpfs
<1>2. rd.pc = "gateway" /\ rd \in ReaderRec BY <1>1 DEF Reading, RecordInv, ReaderInv
<1>3. /\ next \in ReaderRec /\ next.pc = "threw" /\ next.source = "pin" /\ next.doc = rd.doc
      /\ next.tag = rd.tag /\ next.sure = rd.sure
  BY <1>2 DEF ReaderRec
<1> HIDE DEF next
<1>4. rd.tag = "finalized" => \E text \in finals \ {Absent} : text.doc = rd.doc
  BY <1>2 DEF RecordInv, ReaderInv
<1>5. ReaderInv(next) BY <1>3, <1>4 DEF ReaderInv
<1>6. rd.sure => ~LiveInForce(Current(rd.tag)) /\ HasPin(Current(rd.tag))
  BY <1>2 DEF RecordInv, KnowledgeInv
<1>7. KnowledgeInv(next) BY <1>3, <1>6 DEF KnowledgeInv
<1> QED BY <1>1, <1>5, <1>7, ReadingInv

-----------------------------------------------------------------------------
\* At first nothing is published and nobody reads.
LEMMA InitRecord == ASSUME RecordInputsTyped, RecordInit PROVE RecordInv
<1>1. SourcesTyped BY DEF RecordInputsTyped, RecordInit, SourcesTyped, Records, Text
<1>2. TextsInv
  BY DEF RecordInit, TextsInv, NotPublishing, PublisherRec, Good, Kept, Text
<1>3. rd \in ReaderRec /\ rd.pc = "idle" /\ rd.source = "none"
  BY DEF RecordInit, NotReading, ReaderRec, Tag
<1>4. ReaderInv(rd) /\ KnowledgeInv(rd) BY <1>3 DEF ReaderInv, KnowledgeInv
<1> QED BY <1>1, <1>2, <1>4 DEF RecordInv

LEMMA NextRecord == ASSUME RecordInputsTyped, RecordInv, [RecordNext]_recordVars PROVE RecordInv'
<1>1. CASE UNCHANGED recordVars
  <2>1. UNCHANGED <<recordNow, latest, final, served, mempool, pins, recordEdits, pub, rd, finals>>
    BY <1>1 DEF recordVars
  <2>2. SourcesTyped' BY <2>1 DEF RecordInv, SourcesTyped, Records, Text
  <2>3. TextsInv' BY <2>1 DEF RecordInv, TextsInv, PublisherRec, Good, Kept, Text
  <2>4. ReaderInv(rd)' BY <2>1 DEF RecordInv, ReaderInv, ReaderRec, Tag
  <2>5. KnowledgeInv(rd)'
    BY <2>1 DEF RecordInv, KnowledgeInv, LiveInForce, LooseLive, HasPin, FirstInForce, Current, Expired
  <2> QED BY <2>2, <2>3, <2>4, <2>5 DEF RecordInv
<1>2. CASE RecordNext
  BY <1>2, PublishInv, SourceInv, EdgeInv, EndpointRecordInv, FetchInv, PolicyRecordInv,
     GatewayInv DEF RecordNext
<1> QED BY <1>1, <1>2

LEMMA RecordInvariant == RecordSpec => []RecordInv
<1>1. RecordInit => RecordInv BY InitRecord, RecordAssumption
<1>2. RecordInv /\ [RecordNext]_recordVars => RecordInv' BY NextRecord, RecordAssumption
<1> QED BY <1>1, <1>2, PTL DEF RecordSpec

LEMMA RecordTypes == RecordInv => RecordTypeOK
  BY DEF RecordInv, SourcesTyped, TextsInv, ReaderInv, ReaderRec, PublisherRec, RecordTypeOK

(* The record, what is on its way to it, and its reader stay well formed   *)
(* for every set of documents (risk-policy.ts:104).                        *)
THEOREM RecordTyped == RecordSpec => []RecordTypeOK
  BY RecordTypes, RecordInvariant, PTL

(* An undisturbed lookup finds the first policy in force, or throws for a   *)
(* live document that loosens the floor or a pin with no live document in   *)
(* force before it, for every set of documents and every interleaving with  *)
(* a publisher (risk-policy.ts:187, 250, 271).                              *)
THEOREM LookupExact == RecordSpec => []LookupIsExact
<1>1. RecordInv => LookupIsExact 
  BY DEF RecordInv, KnowledgeInv, LooseLive, HasPin, LookupIsExact
<1> QED BY <1>1, RecordInvariant, PTL

(* An enforcing reader goes by finalized records, no record points at a    *)
(* document that nobody pinned, and no document that is written throws     *)
(* (risk-policy.ts:138, 471, 465).                                         *)
THEOREM PublishedSound == RecordSpec => []PublishedIsSound
<1>1. RecordInv => FinalizedReaderIsStable
  BY DEF RecordInv, ReaderInv, FinalizedReaderIsStable
<1>2. RecordInv => RecordIsPinned BY DEF RecordInv, TextsInv, Kept, RecordIsPinned
<1>3. RecordInv => TextRecordParses BY DEF RecordInv, ReaderInv, TextRecordParses
<1>4. RecordInv => PublishedIsSound BY <1>1, <1>2, <1>3 DEF PublishedIsSound
<1> QED BY <1>4, RecordInvariant, PTL

-----------------------------------------------------------------------------
(***************************************************************************)
(* The parts together, as module SwapPath composes them: a step is one of   *)
(* one part, and leaves the others where they were.                        *)
(***************************************************************************)
PathInv == AgeInv /\ RecordInv /\ HandlerInv /\ PipelineInv

LEMMA PathStarts == PathInit => PathInv
<1> SUFFICES ASSUME PathInit PROVE PathInv OBVIOUS
<1>1. Init /\ RecordInit /\ OracleInit /\ PipelineInit BY DEF PathInit
<1> QED BY <1>1, InitAge, InitRecord, RecordAssumption, HandlerInit, InitInv DEF PathInv

\* What a step of the whole is to each part.
LEMMA PathStepsApart ==
  ASSUME [PathNext]_pathVars
  PROVE  /\ [Next]_vars /\ [RecordNext]_recordVars
         /\ [OracleNext]_oracleVars /\ [PipelineNext]_pipelineVars
<1>1. CASE UNCHANGED pathVars BY <1>1 DEF pathVars, cacheVars
<1>2. CASE PathNext BY <1>2 DEF PathNext, cacheVars
<1> QED BY <1>1, <1>2

LEMMA PathSteps == PathInv /\ [PathNext]_pathVars => PathInv'
<1> SUFFICES ASSUME PathInv, [PathNext]_pathVars PROVE PathInv' OBVIOUS
<1>1. AgeInv' BY PathStepsApart, StepAge DEF PathInv
<1>2. RecordInv' BY PathStepsApart, NextRecord, RecordAssumption DEF PathInv
<1>3. HandlerInv' BY PathStepsApart, HandlerStep DEF PathInv
<1>4. PipelineInv' BY PathStepsApart, NextInv DEF PathInv
<1> QED BY <1>1, <1>2, <1>3, <1>4 DEF PathInv

LEMMA PathInvariant == PathSpec => []PathInv
  BY PathStarts, PathSteps, PTL DEF PathSpec

(* Whatever the other parts do, each keeps its state within its types       *)
(* (resolver-cache.ts:39, risk-policy.ts:104, oracle index.ts:82,           *)
(* orchestrate.ts:263).                                                     *)
THEOREM PathTyped == PathSpec => []PathTypeOK
<1>1. PathInv => PathTypeOK
  BY AgeTypeOK, RecordTypes, HandlerTypeOK, InvContains DEF PathInv, PathTypeOK
<1> QED BY <1>1, PathInvariant, PTL

(* Taken together the parts behave as each does by itself, so that what is  *)
(* proved of one alone holds of it here (resolver-cache.ts:72,              *)
(* risk-policy.ts:187, oracle index.ts:170, orchestrate.ts:263).            *)
THEOREM PathIsItsParts ==
  PathSpec => Spec /\ RecordSpec /\ OracleSpec /\ PipelineInit /\ [][PipelineNext]_pipelineVars
<1>1. PathInit => Init /\ RecordInit /\ OracleInit /\ PipelineInit BY DEF PathInit
<1>2. [PathNext]_pathVars => /\ [Next]_vars /\ [RecordNext]_recordVars
                            /\ [OracleNext]_oracleVars /\ [PipelineNext]_pipelineVars
  BY PathStepsApart
<1> QED BY <1>1, <1>2, PTL DEF PathSpec, Spec, RecordSpec, OracleSpec
=============================================================================
