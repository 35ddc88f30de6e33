---------------------------- MODULE Subscription ----------------------------
(***************************************************************************)
(* One reload of the subscriptions after another (SubscriptionManager of   *)
(* subscription/manager.rs, as load_subscriptions of main.rs uses it):     *)
(* load the cache, fetch source by source, save the cache, merge and       *)
(* deduplicate, build the validator, then install it and the nodes, which  *)
(* a starting daemon does in one step and a running one in two.  The       *)
(* process may crash and restart; the cache file is all that survives.     *)
(*                                                                         *)
(* The node list of a source is what the parser made of its body: nodes    *)
(* without a source.                                                       *)
(***************************************************************************)
EXTENDS Process, Validator

CONSTANTS
  Sources,     \* the configured sources: a sequence of names
  Feeds,       \* Feeds[s]: what source s may serve, parsed
  Steps,       \* Steps[s]: its pipeline
  Strategy,    \* deduplication
  MaxReloads,  \* bound: reloads
  MaxCrashes   \* bound: crashes

ASSUME SubscriptionAssumption ==
  /\ Sources \in Seq(STRING) /\ Strategy \in Strategies
  /\ MaxReloads \in Nat /\ MaxCrashes \in Nat

VARIABLES
  disk,       \* the cache file: nodes by source (a truncated file reads as empty)
  path,       \* this reload's configuration names the cache file
  cache,      \* the copy a reload works on
  new,        \* new_source_map
  next,       \* index of the source to fetch
  all,        \* all_nodes
  up,         \* the daemon has started
  validator,  \* the routing table in use; empty when the daemon is down
  served,     \* the nodes the HTTP server hands out
  pc,         \* where the reload is
  fetched,    \* history: sources fetched in this reload
  lastGood,   \* history: the last nodes of each source that were saved
  lost,       \* history: sources whose saved nodes a torn write has lost
  reloads, crashes

inForce == <<up, validator, served>>
saves == <<lastGood, lost>>
vars == <<disk, path, cache, new, next, all, inForce, pc, fetched, saves, reloads, crashes>>

SourceSet == {Sources[i] : i \in DOMAIN Sources}
Empty == <<>>   \* the empty map

\* HashMap::insert.
Insert(map, key, value) ==
  [k \in DOMAIN map \cup {key} |-> IF k = key THEN value ELSE map[k]]

\* The source's name goes into its nodes, after the pipeline has run.
Tagged(nodes, source) == [i \in DOMAIN nodes |-> [nodes[i] EXCEPT !.source = source]]
-----------------------------------------------------------------------------
\* The timer, a signal or a start-up: reload begins with load_cache if there is a
\* cache_file, which a changed configuration may add or remove.
Start ==
  /\ pc = "idle" /\ reloads < MaxReloads
  /\ reloads' = reloads + 1
  /\ path' \in BOOLEAN
  /\ cache' = IF path' THEN disk ELSE Empty
  /\ new' = Empty /\ next' = 1 /\ fetched' = {}
  /\ pc' = "fetch"
  /\ UNCHANGED <<disk, all, inForce, saves, crashes>>

\* The source answers: fetch_source parses and processes, reload tags and stores.
FetchOk ==
  /\ pc = "fetch" /\ next <= Len(Sources)
  /\ \E raw \in Feeds[Sources[next]] :
       LET s == Sources[next]
           nodes == Tagged(ApplyPipeline(raw, Steps[s]), s)
       IN /\ cache' = Insert(cache, s, nodes)
          /\ new' = Insert(new, s, nodes)
          /\ fetched' = fetched \cup {s}
  /\ next' = next + 1
  /\ UNCHANGED <<disk, path, all, inForce, pc, saves, reloads, crashes>>

\* It does not answer in 30 s, or with an error, or the file cannot be read.
FetchErr ==
  /\ pc = "fetch" /\ next <= Len(Sources)
  /\ LET s == Sources[next]
     IN new' = IF s \in DOMAIN cache THEN Insert(new, s, Tagged(cache[s], s)) ELSE new
  /\ next' = next + 1
  /\ UNCHANGED <<disk, path, cache, all, inForce, pc, fetched, saves, reloads, crashes>>

ToSaveFetched == [s \in fetched |-> new[s]]   \* (mutant) only what was fetched is saved

\* save_cache writes the whole map, with sources that failed this time.
ToSave == cache

\* There is no cache file, or fs::write cannot open it: it stays as it is.
NotSaved ==
  /\ pc = "fetch" /\ next > Len(Sources)
  /\ pc' = "merge"
  /\ UNCHANGED <<disk, path, cache, new, next, all, inForce, fetched, saves, reloads, crashes>>

\* fs::write truncates the file first, then writes it.
Truncate ==
  /\ pc = "fetch" /\ next > Len(Sources) /\ path
  /\ disk' = Empty
  /\ pc' = "writing"
  /\ UNCHANGED <<path, cache, new, next, all, inForce, fetched, saves, reloads, crashes>>

\* The cache is saved in full.
Save ==
  /\ pc = "writing"
  /\ disk' = ToSave
  /\ lost' = lost \ DOMAIN ToSave
  /\ lastGood' = [s \in DOMAIN lastGood \cup fetched |->
                    IF s \in fetched THEN new[s] ELSE lastGood[s]]
  /\ pc' = "merge"
  /\ UNCHANGED <<path, cache, new, next, all, inForce, fetched, reloads, crashes>>

\* Writing fails (a full disk): the error is dropped and the file left truncated.
SaveErr ==
  /\ pc = "writing"
  /\ lost' = DOMAIN lastGood
  /\ pc' = "merge"
  /\ UNCHANGED <<disk, path, cache, new, next, all, inForce, fetched, lastGood, reloads, crashes>>

\* The nodes of all sources, in the order of the configuration.
Merged ==
  Concat([i \in DOMAIN Sources |->
    LET s == Sources[i] IN IF s \in DOMAIN new THEN new[s] ELSE <<>>])

Merge ==
  /\ pc = "merge"
  /\ all' = Deduplicate(Merged, Strategy)
  /\ pc' = "build"
  /\ UNCHANGED <<disk, path, cache, new, next, inForce, fetched, saves, reloads, crashes>>

\* build_state: a starting daemon comes up with the validator and its nodes.
ComeUp ==
  /\ pc = "build" /\ Builds(all) /\ ~up
  /\ up' = TRUE /\ validator' = BuildValidator(all) /\ served' = all
  /\ pc' = "idle"
  /\ UNCHANGED <<disk, path, cache, new, next, all, fetched, saves, reloads, crashes>>

\* A running one replaces the validator, awaits the prune of the pool (see GrpcPool)
\* and replaces the state of the HTTP server.
WriteValidator ==
  /\ pc = "build" /\ Builds(all) /\ up
  /\ validator' = BuildValidator(all)
  /\ pc' = "http"
  /\ UNCHANGED <<disk, path, cache, new, next, all, up, served, fetched, saves, reloads, crashes>>

WriteHttp ==
  /\ pc = "http"
  /\ served' = all
  /\ pc' = "idle"
  /\ UNCHANGED <<disk, path, cache, new, next, all, up, validator, fetched, saves, reloads, crashes>>

\* build_validator fails: a running daemon keeps what it has, a starting one does
\* not come up.
BuildErr ==
  /\ pc = "build" /\ ~Builds(all)
  /\ pc' = "idle"
  /\ UNCHANGED <<disk, path, cache, new, next, all, inForce, fetched, saves, reloads, crashes>>

\* Power loss, kill, or a shutdown in the middle of a reload, then a restart.
Crash ==
  /\ crashes < MaxCrashes
  /\ crashes' = crashes + 1
  /\ lost' = IF pc = "writing" THEN DOMAIN lastGood ELSE lost
  /\ pc' = "idle"
  /\ cache' = Empty /\ new' = Empty /\ next' = 1 /\ fetched' = {}
  /\ up' = FALSE /\ all' = <<>> /\ validator' = <<>> /\ served' = <<>>
  /\ UNCHANGED <<disk, path, lastGood, reloads>>

Init ==
  /\ disk = Empty /\ path = TRUE /\ cache = Empty /\ new = Empty /\ next = 1
  /\ up = FALSE /\ all = <<>> /\ validator = <<>> /\ served = <<>>
  /\ pc = "idle" /\ fetched = {} /\ lastGood = Empty /\ lost = {}
  /\ reloads = 0 /\ crashes = 0

Next ==
  \/ Start \/ FetchOk \/ FetchErr \/ NotSaved \/ Truncate \/ Save \/ SaveErr
  \/ Merge \/ ComeUp \/ WriteValidator \/ WriteHttp \/ BuildErr \/ Crash

Spec == Init /\ [][Next]_vars
-----------------------------------------------------------------------------
(* Properties *)

\* With a cache file, a source that is not fetched is served from the last nodes of
\* it that were ever saved, however many reloads failed since and whatever crashed in
\* between, unless a torn write has lost them and it has not been fetched since.
FallbackComplete ==
  (pc \in {"merge", "build"} /\ path) =>
    \A s \in DOMAIN lastGood \ (fetched \cup lost) : s \in DOMAIN new /\ new[s] = lastGood[s]

\* The nodes behind the validator: between the two writes of a reload the new ones.
Installed == IF pc = "http" THEN all ELSE served

\* Each node the HTTP server hands out is routed to its own upstream, at both ends of
\* the time window, unless another one spells the same UUID differently.  Between the
\* two writes of a reload this holds of the nodes that the new list still has.
EveryNodeReachable ==
  \A i \in DOMAIN served, now \in {0, 2 * Window} :
    /\ \E j \in DOMAIN Installed : Installed[j] = served[i]
    /\ \A j \in DOMAIN Installed : Installed[j].uuid.key = served[i].uuid.key =>
                                    Installed[j].uuid.text = served[i].uuid.text
    => MatchAuthId(validator, [key |-> served[i].uuid.key, time |-> Window], now)
         = {Upstream(served[i])}
=============================================================================
