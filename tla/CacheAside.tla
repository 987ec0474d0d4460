----------------------------- MODULE CacheAside -----------------------------
(***************************************************************************)
(* How the restaurant service uses Redis (utils/redis.ts).  A public       *)
(* reader that misses a key reads the database and stores what it found    *)
(* for five minutes; a handler that has changed rows deletes afterwards    *)
(* one of the keys that show them, or none.  The two are not synchronised. *)
(*                                                                         *)
(* What an entry says is not modelled, only how it compares with the       *)
(* database: "current"; "outdated", current when it was stored and changed *)
(* since; "late", read before a change and stored after it.                *)
(***************************************************************************)
EXTENDS Naturals, FiniteSets

CONSTANTS
  Keys,
  Readers,      \* public requests that read through the cache
  Handlers,     \* requests that change rows
  None          \* null

ASSUME CacheAssumption == None \notin Keys

VARIABLES
  entry,        \* Redis
  lookup,       \* what each reader found in the database and has yet to store
  dropping,     \* the keys each handler has yet to delete
  missed        \* history: keys whose deletion did not take place

cacheVars == <<entry, lookup, dropping, missed>>

NoLookup == [key |-> None, data |-> "current"]

CacheTypeOK ==
  /\ entry \in [Keys -> {"none", "current", "outdated", "late"}]
  /\ lookup \in [Readers -> [key : Keys \cup {None}, data : {"current", "old"}]]
  /\ dropping \in [Handlers -> SUBSET Keys]
  /\ missed \subseteq Keys

CacheInit ==
  /\ entry = [k \in Keys |-> "none"]
  /\ lookup = [r \in Readers |-> NoLookup]
  /\ dropping = [s \in Handlers |-> {}]
  /\ missed = {}

-----------------------------------------------------------------------------
\* cache.get() finds nothing, or fails, and the reader runs its SELECTs.  A
\* hit is answered at once and changes nothing.
Read(r, k) ==
  /\ lookup[r] = NoLookup
  /\ lookup' = [lookup EXCEPT ![r].key = k]
  /\ UNCHANGED <<entry, dropping, missed>>

\* cache.set().
Store(r) ==
  LET k == lookup[r].key IN
    /\ k # None
    /\ entry' = [entry EXCEPT ![k] =
                   IF lookup[r].data = "current" THEN "current" ELSE "late"]
    /\ missed' = missed \ {k}
    /\ lookup' = [lookup EXCEPT ![r] = NoLookup]
    /\ UNCHANGED dropping

\* cache.set() fails, or the reader's process stops.
StoreFails(r) ==
  /\ lookup[r] # NoLookup
  /\ lookup' = [lookup EXCEPT ![r] = NoLookup]
  /\ UNCHANGED <<entry, dropping, missed>>

\* The rows that the keys of shown show have changed: an entry that was right is
\* wrong now, and so is what a reader has read and not yet stored.
Outdate(shown) ==
  /\ entry' = [k \in Keys |->
       IF k \in shown /\ entry[k] = "current" THEN "outdated" ELSE entry[k]]
  /\ lookup' = [r \in Readers |->
       IF lookup[r].key \in shown THEN [lookup[r] EXCEPT !.data = "old"] ELSE lookup[r]]

\* Handler s commits such a change and goes on to delete the keys of named: not
\* always all of shown.
Change(s, shown, named) ==
  /\ Outdate(shown)
  /\ dropping' = [dropping EXCEPT ![s] = @ \cup named]
  /\ UNCHANGED missed

\* The handler deletes no key.
ChangeUnseen(shown) == Outdate(shown) /\ UNCHANGED <<dropping, missed>>

\* cache.del() or cache.delPattern().
Drop(s) ==
  /\ dropping[s] # {}
  /\ entry' = [k \in Keys |-> IF k \in dropping[s] THEN "none" ELSE entry[k]]
  /\ missed' = missed \ dropping[s]
  /\ dropping' = [dropping EXCEPT ![s] = {}]
  /\ UNCHANGED lookup

\* The deletion fails, which only the log tells, or the process stops.
DropFails(s) ==
  /\ dropping[s] # {}
  /\ missed' = missed \cup dropping[s]
  /\ dropping' = [dropping EXCEPT ![s] = {}]
  /\ UNCHANGED <<entry, lookup>>

\* The time to live is over.
Expire(k) ==
  /\ entry[k] # "none"
  /\ entry' = [entry EXCEPT ![k] = "none"]
  /\ missed' = missed \ {k}
  /\ UNCHANGED <<lookup, dropping>>

CacheNext ==
  \/ \E r \in Readers : Store(r) \/ StoreFails(r)
  \/ \E s \in Handlers : Drop(s) \/ DropFails(s)
  \/ \E k \in Keys : Expire(k)
=============================================================================
