--------------------------- MODULE ResolverCache ---------------------------
(***************************************************************************)
(* The trust-profile cache of packages/core/src/resolver-cache.ts.  Several *)
(* callers of one process look one ENS name up concurrently: a lookup that  *)
(* misses awaits the resolver, and whoever returns last writes the entry.   *)
(* The map is keyed by name and names do not interact, so one name is       *)
(* modelled.  The resolver reads a profile layer by layer, each at the      *)
(* latest block of a replica that may lag, and a layer that fails leaves    *)
(* its part empty: a profile may mix versions of the records, lack a layer  *)
(* (and so show a lower tier), or have flake shape.                         *)
(***************************************************************************)
EXTENDS Integers

CONSTANTS Callers,     \* the concurrent lookups of the process
          TTL,         \* ttlMs, in clock units
          MaxLatency,  \* bound: how long the awaited resolver may take
          Lag,         \* bound: how far a replica is behind the latest block
          Layers,      \* the reads a profile is put together from
          MaxTime,     \* bound on the clock
          MaxVersion   \* bound on the edits of the records

ASSUME CacheAssumption == /\ TTL \in Nat \ {0} /\ MaxLatency \in Nat /\ Lag \in Nat
                          /\ Layers \in Nat /\ MaxTime \in Nat /\ MaxVersion \in Nat

VARIABLES now, version, editedAt, cache, lookups,
          goodAt    \* observer: when a usable profile last came back
vars == <<now, version, editedAt, cache, lookups, goodAt>>

\* The oldest version of the records that some layer shows, and what became of the
\* layers: all there, some missing, or those missing without which there is no address
\* or no tier.
Quality == {"whole", "partial", "flake"}
Profile == [oldest : 0..MaxVersion, quality : Quality]
Blank == [oldest |-> MaxVersion, quality |-> "whole"]
NoEntry == [profile |-> Blank, askedAt |-> 0, expiresAt |-> 0]
Idle == [pc |-> "idle", bypass |-> FALSE, since |-> 0, left |-> 0, profile |-> Blank, askedAt |-> 0]

Init == /\ now = 0 /\ version = 0
        /\ editedAt = [v \in 0..MaxVersion |-> 0]
        /\ cache = NoEntry
        /\ lookups = [c \in Callers |-> Idle]
        /\ goodAt = -TTL

\* Mutant: entries live for ever.
FreshIgnoringExpiry(entry) == entry # NoEntry

\* A hit: an entry is there and has not expired.
Fresh(entry) == entry.expiresAt > now

Hit(bypass) == ~bypass /\ Fresh(cache)

\* The lookup returns the entry, or drops a stale one and asks the resolver.
Lookup(c) == \E bypass \in BOOLEAN :
  /\ lookups[c].pc = "idle"
  /\ lookups' = [lookups EXCEPT ![c] =
       IF Hit(bypass)
       THEN [pc |-> "served", bypass |-> bypass, since |-> now, left |-> 0,
             profile |-> cache.profile, askedAt |-> cache.askedAt]
       ELSE [pc |-> "resolving", bypass |-> bypass, since |-> now, left |-> Layers,
             profile |-> Blank, askedAt |-> now]]
  /\ cache' = IF bypass \/ Hit(bypass) THEN cache ELSE NoEntry
  /\ UNCHANGED <<now, version, editedAt, goodAt>>

\* What a replica may show: the records of now, or those of a moment within its lag.
Shown(v) == v <= version /\ (v < version => now - editedAt[v + 1] <= Lag)

WithLayer(p, v) == [p EXCEPT !.oldest = IF v < @ THEN v ELSE @]
WithoutLayer(p, quality) == [p EXCEPT !.quality = IF @ = "flake" THEN @ ELSE quality]

\* The resolver reads the next layer, or fails to.
ReadLayer(c) == \E p \in {WithLayer(lookups[c].profile, v) : v \in {v \in 0..MaxVersion : Shown(v)}}
                         \cup {WithoutLayer(lookups[c].profile, q) : q \in {"partial", "flake"}} :
  /\ lookups[c].pc = "resolving" /\ lookups[c].left > 0
  /\ lookups' = [lookups EXCEPT ![c].left = @ - 1, ![c].profile = p]
  /\ UNCHANGED <<now, version, editedAt, cache, goodAt>>

\* The resolver throws: nothing is written.
ResolveFails(c) ==
  /\ lookups[c].pc = "resolving"
  /\ lookups' = [lookups EXCEPT ![c] = Idle]
  /\ UNCHANGED <<now, version, editedAt, cache, goodAt>>

\* isFlakeShape: no address or tier none; a profile that lacks another layer passes.
IsFlakeShape(profile) == profile.quality = "flake"

\* Mutant: the entry lives twice as long.
EntryOfTwice(l) == [profile |-> l.profile, askedAt |-> l.askedAt, expiresAt |-> now + 2 * TTL]

EntryOf(l) == [profile |-> l.profile, askedAt |-> l.askedAt, expiresAt |-> now + TTL]

\* Mutants: a flake clears the entry; a lookup past the cache does not populate it.
EntryOrCleared(l) == IF IsFlakeShape(l.profile) THEN NoEntry ELSE EntryOf(l)
EntryUnlessBypassed(l) == IF IsFlakeShape(l.profile) \/ l.bypass THEN cache ELSE EntryOf(l)

EntryAfter(l) == IF IsFlakeShape(l.profile) THEN cache ELSE EntryOf(l)

\* The await is over: write the entry, return the profile.
Resume(c) ==
  /\ lookups[c].pc = "resolving" /\ lookups[c].left = 0
  /\ cache' = EntryAfter(lookups[c])
  /\ goodAt' = IF lookups[c].profile.quality = "flake" THEN goodAt ELSE now
  /\ lookups' = [lookups EXCEPT ![c].pc = "served"]
  /\ UNCHANGED <<now, version, editedAt>>

CallerUses(c) ==
  /\ lookups[c].pc = "served"
  /\ lookups' = [lookups EXCEPT ![c] = Idle]
  /\ UNCHANGED <<now, version, editedAt, cache, goodAt>>

EditRecords ==
  /\ version < MaxVersion
  /\ version' = version + 1
  /\ editedAt' = [editedAt EXCEPT ![version'] = now]
  /\ UNCHANGED <<now, cache, lookups, goodAt>>

\* Time passes, but no await outlives the resolver's own time limits.
Tick ==
  /\ now < MaxTime
  /\ \A c \in Callers : lookups[c].pc = "resolving" => now < lookups[c].since + MaxLatency
  /\ now' = now + 1
  /\ UNCHANGED <<version, editedAt, cache, lookups, goodAt>>

Next == EditRecords \/ Tick
        \/ \E c \in Callers : Lookup(c) \/ ReadLayer(c) \/ ResolveFails(c)
                              \/ Resume(c) \/ CallerUses(c)

Spec == Init /\ [][Next]_vars
-----------------------------------------------------------------------------
TypeOK ==
  /\ now \in 0..MaxTime /\ version \in 0..MaxVersion
  /\ editedAt \in [0..MaxVersion -> 0..MaxTime]
  /\ cache \in [profile : Profile, askedAt : 0..MaxTime, expiresAt : 0..(MaxTime + TTL)]
  /\ lookups \in [Callers -> [pc : {"idle", "resolving", "served"}, bypass : BOOLEAN,
                              since : 0..MaxTime, left : 0..Layers,
                              profile : Profile, askedAt : 0..MaxTime]]
  /\ goodAt \in (-TTL)..MaxTime

Served(c) == lookups[c].pc = "served"

(* Staleness is bounded although an older read may be written over a newer  *)
(* one with a fresh expiry and the layers of a profile are read one after   *)
(* the other from replicas that lag: no part of what a caller is served had *)
(* been replaced a TTL, a resolver latency and a lag before it asked        *)
(* (resolver-cache.ts:72-97, risk-policy.ts:144-147).                       *)
StalenessBounded == \A c \in Callers :
  LET l == lookups[c] IN
  Served(c) /\ l.profile.oldest < version
    => l.since - editedAt[l.profile.oldest + 1] < TTL + MaxLatency + Lag

(* A refresh takes effect.  A caller past the cache gets its own read, no   *)
(* part of it replaced more than a lag before it asked; and once a usable   *)
(* profile has come back, past the cache or not, whoever asks later is not  *)
(* served what had been asked for a latency earlier: a slower lookup may    *)
(* undo the refresh, but only one that was under way (resolver-cache.ts:72, *)
(* 97, orchestrate.ts:392).                                                 *)
RefreshTakesEffect == \A c \in Callers :
  LET l == lookups[c] IN Served(c) =>
    /\ l.bypass /\ l.profile.oldest < version => editedAt[l.profile.oldest + 1] >= l.since - Lag
    /\ l.since > goodAt => l.askedAt >= goodAt - MaxLatency

(* Bad reads pass.  One of flake shape reaches only the caller that made it *)
(* and takes no good answer away: for a TTL after a usable profile came     *)
(* back there is an entry.  One that lacks a layer is kept, and so served   *)
(* to others, but for less than a TTL and a latency after it was asked for  *)
(* (resolver-cache.ts:10-18, 95, 108-112).                                  *)
BadReadsPass ==
  /\ cache.profile.quality # "flake"
  /\ goodAt + TTL > now => Fresh(cache)
  /\ \A c \in Callers : Served(c) /\ lookups[c].profile.quality = "partial"
       => lookups[c].since - lookups[c].askedAt < TTL + MaxLatency
=============================================================================
