-------------------------- MODULE SubscriptionProofs --------------------------
(* Proofs of the safety properties of Subscription, for every configuration of *)
(* sources, names that occur twice among them, for all that sources may serve  *)
(* and every pipeline and strategy.                                            *)
EXTENDS Subscription, TLAPS

-------------------------------------------------------------------------------
(* The inductive invariant *)

Steady == {"idle", "fetch", "merge", "build", "http"}

TypeOK ==
  /\ pc \in Steady \cup {"writing"} /\ path \in BOOLEAN
  /\ pc = "writing" => path
  /\ next \in 1..(Len(Sources) + 1)
  /\ fetched \subseteq SourceSet
  /\ DOMAIN lastGood \subseteq SourceSet

\* The sources the loop of reload has been through.
Done == {Sources[i] : i \in 1..(next - 1)}

\* The name of its source is in every node of the cache, on disk and in memory.
NodesTagged ==
  /\ \A s \in DOMAIN disk : disk[s] = Tagged(disk[s], s)
  /\ \A s \in DOMAIN cache : cache[s] = Tagged(cache[s], s)

\* Between two writes the file has what was saved last, but for what was lost.
DiskHas ==
  IF pc = "writing" THEN disk = Empty ELSE
    /\ lost \cap DOMAIN disk = {}
    /\ \A s \in DOMAIN lastGood \ lost : s \in DOMAIN disk /\ disk[s] = lastGood[s]

\* The copy of a reload that reads the file has it too, with the sources fetched so far.
CacheHas ==
  pc \in {"fetch", "writing"} =>
    /\ lost \cap DOMAIN cache \subseteq fetched
    /\ path => \A s \in DOMAIN lastGood \ (fetched \cup lost) :
                 s \in DOMAIN cache /\ cache[s] = lastGood[s]
    /\ fetched \subseteq DOMAIN cache \cap DOMAIN new
    /\ \A s \in fetched : new[s] = cache[s]

\* A source the loop has been through has in new_source_map what the cache has.
NewHas ==
  /\ pc = "fetch" => \A s \in Done \cap DOMAIN cache : s \in DOMAIN new /\ new[s] = cache[s]
  /\ pc = "writing" => \A s \in SourceSet \cap DOMAIN cache : s \in DOMAIN new /\ new[s] = cache[s]

\* The nodes behind the validator were accepted, and their table is in force.
TableServed ==
  Builds(Installed) /\ validator = BuildValidator(Installed)

IInv == /\ TypeOK /\ NodesTagged /\ DiskHas /\ CacheHas /\ NewHas
        /\ FallbackComplete /\ TableServed
-------------------------------------------------------------------------------
(* Facts about the maps and the tags *)

\* Nodes that have the name of their source keep it: reload tags the cached ones again.
LEMMA TaggedTwice ==
  ASSUME NEW nodes, NEW s
  PROVE  Tagged(nodes, s) = Tagged(Tagged(nodes, s), s)
BY Zenon DEF Tagged

\* The sources the loop has been through, and those there are.
LEMMA SourceFacts ==
  ASSUME next \in 1..(Len(Sources) + 1)
  PROVE  /\ Len(Sources) \in Nat
         /\ Done \subseteq SourceSet
         /\ next <= Len(Sources) => Sources[next] \in SourceSet
         /\ next > Len(Sources) => Done = SourceSet
         /\ next = 1 => Done = {}
BY SubscriptionAssumption DEF Done, SourceSet

-------------------------------------------------------------------------------
(* The steps *)

\* A source that answers is in both maps afterwards, with its name in its nodes.
LEMMA FetchOkFacts ==
  ASSUME FetchOk
  PROVE  \E nodes : /\ nodes = Tagged(nodes, Sources[next])
                    /\ cache' = Insert(cache, Sources[next], nodes)
                    /\ new' = Insert(new, Sources[next], nodes)
<1>1. PICK raw \in Feeds[Sources[next]] :
        LET nodes == Tagged(ApplyPipeline(raw, Steps[Sources[next]]), Sources[next])
        IN cache' = Insert(cache, Sources[next], nodes) /\ new' = Insert(new, Sources[next], nodes)
  BY DEF FetchOk
<1> DEFINE nodes == Tagged(ApplyPipeline(raw, Steps[Sources[next]]), Sources[next])
<1>2. nodes = Tagged(nodes, Sources[next])
  BY TaggedTwice
<1> QED BY <1>1, <1>2

\* A fetch that succeeds keeps the invariant: the source goes over from what was
\* saved to what was fetched.
LEMMA FetchOkStep == IInv /\ FetchOk => IInv'
<1> SUFFICES ASSUME IInv, FetchOk PROVE IInv'
  OBVIOUS
<1> DEFINE s == Sources[next]
<1>1. PICK nodes : /\ nodes = Tagged(nodes, s)
                   /\ cache' = Insert(cache, s, nodes) /\ new' = Insert(new, s, nodes)
  BY FetchOkFacts
<1>2. /\ pc = "fetch" /\ pc' = "fetch" /\ next <= Len(Sources) /\ next' = next + 1
      /\ fetched' = fetched \cup {s}
      /\ path' = path /\ disk' = disk /\ all' = all /\ validator' = validator /\ served' = served
      /\ lastGood' = lastGood /\ lost' = lost
  BY DEF FetchOk, saves, inForce
<1>3. /\ DOMAIN cache' = DOMAIN cache \cup {s} /\ cache'[s] = nodes
      /\ \A k \in DOMAIN cache \ {s} : cache'[k] = cache[k]
  BY <1>1 DEF Insert
<1>4. /\ DOMAIN new' = DOMAIN new \cup {s} /\ new'[s] = nodes
      /\ \A k \in DOMAIN new \ {s} : new'[k] = new[k]
  BY <1>1 DEF Insert
<1>5. s \in SourceSet /\ Len(Sources) \in Nat /\ next \in Nat
  BY <1>2, SourceFacts DEF IInv, TypeOK
<1>6. Done' = Done \cup {s}
  BY SMTT(60), ZenonT(60), <1>2, <1>5 DEF Done, IInv, TypeOK
<1> HIDE DEF s
<1>7. TypeOK'
  BY <1>2, <1>5 DEF IInv, TypeOK
<1>8. NodesTagged'
  BY <1>1, <1>2, <1>3 DEF IInv, NodesTagged
<1>9. DiskHas'
  BY <1>2 DEF IInv, DiskHas
<1>10. CacheHas'
  BY <1>2, <1>3, <1>4 DEF IInv, CacheHas
<1>11. NewHas'
  BY <1>2, <1>3, <1>4, <1>6 DEF IInv, NewHas
<1>12. FallbackComplete' /\ TableServed'
  BY <1>2 DEF IInv, FallbackComplete, TableServed, Installed
<1> QED BY <1>7, <1>8, <1>9, <1>10, <1>11, <1>12 DEF IInv

\* A fetch that fails keeps the invariant: what the cache has of the source goes
\* into new_source_map as it is.
LEMMA FetchErrStep == IInv /\ FetchErr => IInv'
<1> SUFFICES ASSUME IInv, FetchErr PROVE IInv'
  OBVIOUS
<1> DEFINE s == Sources[next]
<1>1. /\ pc = "fetch" /\ pc' = "fetch" /\ next <= Len(Sources) /\ next' = next + 1
      /\ new' = IF s \in DOMAIN cache THEN Insert(new, s, Tagged(cache[s], s)) ELSE new
      /\ fetched' = fetched /\ cache' = cache
      /\ path' = path /\ disk' = disk /\ all' = all /\ validator' = validator /\ served' = served
      /\ lastGood' = lastGood /\ lost' = lost
  BY DEF FetchErr, saves, inForce
<1>2. s \in SourceSet /\ Len(Sources) \in Nat /\ next \in Nat
  BY <1>1, SourceFacts DEF IInv, TypeOK
<1>3. Done' = Done \cup {s}
  BY <1>1, <1>2 DEF Done, IInv, TypeOK
<1> HIDE DEF s
<1>4. /\ s \in DOMAIN cache => s \in DOMAIN new' /\ new'[s] = cache[s]
      /\ \A k \in DOMAIN new \ {s} : k \in DOMAIN new' /\ new'[k] = new[k]
  <2>1. CASE s \in DOMAIN cache
    <3>1. new' = Insert(new, s, cache[s])
      BY <1>1, <2>1 DEF IInv, NodesTagged
    <3> QED BY <3>1 DEF Insert
  <2>2. CASE s \notin DOMAIN cache
    BY <1>1, <2>2
  <2> QED BY <2>1, <2>2
<1>5. TypeOK' /\ NodesTagged' /\ DiskHas'
  BY <1>1, <1>2 DEF IInv, TypeOK, NodesTagged, DiskHas
<1>6. CacheHas'
  BY <1>1, <1>4 DEF IInv, CacheHas
<1>7. NewHas'
  BY <1>1, <1>3, <1>4 DEF IInv, NewHas
<1>8. FallbackComplete' /\ TableServed'
  BY <1>1 DEF IInv, FallbackComplete, TableServed, Installed
<1> QED BY <1>5, <1>6, <1>7, <1>8 DEF IInv

\* A write of the cache that ends puts on disk what the history remembers.
LEMMA SaveStep == IInv /\ Save => IInv'
<1> SUFFICES ASSUME IInv, Save PROVE IInv'
  OBVIOUS
<1>1. /\ pc = "writing" /\ pc' = "merge" /\ disk' = cache /\ lost' = lost \ DOMAIN cache
      /\ DOMAIN lastGood' = DOMAIN lastGood \cup fetched
      /\ \A s \in DOMAIN lastGood' :
           lastGood'[s] = IF s \in fetched THEN new[s] ELSE lastGood[s]
      /\ cache' = cache /\ new' = new /\ next' = next /\ fetched' = fetched
      /\ path' = path /\ all' = all /\ validator' = validator /\ served' = served
  BY DEF Save, ToSave, inForce
<1>2. \A s \in DOMAIN lastGood' \ lost' :
        s \in DOMAIN cache /\ cache[s] = lastGood'[s] /\ s \in SourceSet
  BY <1>1 DEF IInv, TypeOK, CacheHas
<1>3. TypeOK' /\ NodesTagged'
  BY <1>1 DEF IInv, TypeOK, NodesTagged, Steady
<1>4. DiskHas'
  BY <1>1, <1>2 DEF DiskHas
<1>5. FallbackComplete'
  BY <1>1, <1>2 DEF IInv, NewHas, FallbackComplete
<1>6. CacheHas' /\ NewHas' /\ TableServed'
  BY <1>1 DEF IInv, CacheHas, NewHas, TableServed, Installed
<1> QED BY <1>3, <1>4, <1>5, <1>6 DEF IInv

\* Beginning, failing and omitting to write keep the invariant.
LEMMA WriteStep == IInv /\ (Truncate \/ SaveErr \/ NotSaved) => IInv'
<1>1. ASSUME IInv, Truncate PROVE IInv'
  <2>1. Done = SourceSet
    BY <1>1, SourceFacts DEF Truncate, IInv, TypeOK
  <2> QED BY <1>1, <2>1 DEF Truncate, saves, inForce, Empty, IInv, TypeOK, NodesTagged, DiskHas, CacheHas,
             NewHas, FallbackComplete, TableServed, Installed
<1>2. ASSUME IInv, SaveErr PROVE IInv'
  <2>1. /\ pc = "writing" /\ pc' = "merge" /\ disk = Empty /\ lost' = DOMAIN lastGood
        /\ UNCHANGED <<disk, path, cache, new, next, all, validator, served, fetched, lastGood>>
    BY <1>2 DEF SaveErr, inForce, IInv, DiskHas
  <2> QED BY <1>2, <2>1 DEF Steady, Empty, IInv, TypeOK, NodesTagged, DiskHas, CacheHas, NewHas,
             FallbackComplete, TableServed, Installed
<1>3. ASSUME IInv, NotSaved PROVE IInv'
  <2>1. Done = SourceSet
    BY <1>3, SourceFacts DEF NotSaved, IInv, TypeOK
  <2>2. /\ pc = "fetch" /\ pc' = "merge"
        /\ UNCHANGED <<disk, path, cache, new, next, all, validator, served, fetched, lastGood, lost>>
    BY <1>3 DEF NotSaved, saves, inForce
  <2>3. FallbackComplete'
    BY <1>3, <2>1, <2>2 DEF IInv, TypeOK, CacheHas, NewHas, FallbackComplete
  <2> QED BY <1>3, <2>2, <2>3 DEF Steady, IInv, TypeOK, NodesTagged, DiskHas, CacheHas, NewHas,
             TableServed, Installed
<1> QED BY <1>1, <1>2, <1>3

\* The other steps of a reload, and a crash, keep the invariant.
LEMMA OtherStep == IInv /\ (Start \/ Merge \/ ComeUp \/ WriteValidator \/ WriteHttp \/ BuildErr \/ Crash) => IInv'
<1>1. ASSUME IInv, Start PROVE IInv'
  <2>1. /\ pc = "idle" /\ pc' = "fetch" /\ next' = 1 /\ fetched' = {}
        /\ path' \in BOOLEAN /\ cache' = (IF path' THEN disk ELSE Empty)
        /\ UNCHANGED <<disk, all, validator, served, lastGood, lost>>
    BY <1>1 DEF Start, saves, inForce
  <2>2. Done' = {}
    BY <2>1 DEF Done
  <2>3. TypeOK'
    BY <1>1, <2>1, SubscriptionAssumption DEF IInv, TypeOK, Steady
  <2>4. NodesTagged' /\ DiskHas' /\ CacheHas'
    BY <1>1, <2>1 DEF IInv, NodesTagged, DiskHas, CacheHas, Empty
  <2>5. NewHas' /\ FallbackComplete' /\ TableServed'
    BY <1>1, <2>1, <2>2 DEF IInv, NewHas, FallbackComplete, TableServed, Installed
  <2> QED BY <2>3, <2>4, <2>5 DEF IInv
<1>2. ASSUME IInv, Merge PROVE IInv'
  BY <1>2 DEF Merge, saves, inForce, Steady, IInv, TypeOK, NodesTagged, DiskHas, CacheHas, NewHas,
     FallbackComplete, TableServed, Installed
<1>3. ASSUME IInv, ComeUp \/ WriteValidator PROVE IInv'
  <2>1. /\ pc = "build" /\ Builds(all) /\ validator' = BuildValidator(all) /\ all' = all
        /\ (pc' = "idle" /\ served' = all) \/ pc' = "http"
        /\ UNCHANGED <<disk, path, cache, new, next, fetched, lastGood, lost>>
    BY <1>3 DEF ComeUp, WriteValidator, saves
  <2>2. TableServed'
    BY <2>1 DEF TableServed, Installed
  <2> QED BY <1>3, <2>1, <2>2 DEF Steady, IInv, TypeOK, NodesTagged, DiskHas, CacheHas, NewHas,
             FallbackComplete
<1>4. ASSUME IInv, WriteHttp PROVE IInv'
  <2>1. /\ pc = "http" /\ pc' = "idle" /\ served' = all
        /\ UNCHANGED <<disk, path, cache, new, next, all, validator, fetched, lastGood, lost>>
    BY <1>4 DEF WriteHttp, saves
  <2>2. TableServed'
    BY <1>4, <2>1 DEF IInv, TableServed, Installed
  <2> QED BY <1>4, <2>1, <2>2 DEF Steady, IInv, TypeOK, NodesTagged, DiskHas, CacheHas, NewHas,
             FallbackComplete
<1>5. ASSUME IInv, BuildErr PROVE IInv'
  BY <1>5 DEF BuildErr, saves, inForce, Steady, IInv, TypeOK, NodesTagged, DiskHas, CacheHas, NewHas,
     FallbackComplete, TableServed, Installed
<1>6. ASSUME IInv, Crash PROVE IInv'
  <2>1. /\ pc' = "idle" /\ lost' = (IF pc = "writing" THEN DOMAIN lastGood ELSE lost)
        /\ cache' = Empty /\ next' = 1 /\ fetched' = {} /\ validator' = <<>> /\ served' = <<>>
        /\ UNCHANGED <<disk, path, lastGood>>
    BY <1>6 DEF Crash
  <2>2. TypeOK'
    BY <1>6, <2>1, SubscriptionAssumption DEF IInv, TypeOK, Steady
  <2>3. NodesTagged' /\ DiskHas'
    BY <1>6, <2>1 DEF IInv, NodesTagged, DiskHas, Empty
  <2>4. TableServed'
    BY <2>1 DEF TableServed, Installed, Builds, BuildValidator
  <2>5. CacheHas' /\ NewHas' /\ FallbackComplete'
    BY <2>1 DEF CacheHas, NewHas, FallbackComplete
  <2> QED BY <2>2, <2>3, <2>4, <2>5 DEF IInv
<1> QED BY <1>1, <1>2, <1>3, <1>4, <1>5, <1>6

\* The daemon's start satisfies the invariant.
LEMMA InitInv == Init => IInv
<1> SUFFICES ASSUME Init PROVE IInv
  OBVIOUS
<1>1. TypeOK
  BY SubscriptionAssumption DEF Init, TypeOK, Steady, Empty
<1>2. TableServed
  BY DEF Init, TableServed, Installed, Builds, BuildValidator
<1> QED BY <1>1, <1>2 DEF Init, IInv, NodesTagged, DiskHas, CacheHas, NewHas, FallbackComplete, Empty

\* The invariant holds through every sequence of reloads, failures and crashes.
THEOREM Invariance == Spec => []IInv
<1>1. IInv /\ UNCHANGED vars => IInv'
  BY DEF vars, saves, inForce, IInv, TypeOK, NodesTagged, DiskHas, CacheHas, NewHas, Done,
     FallbackComplete, TableServed, Installed
<1>2. IInv /\ [Next]_vars => IInv'
  BY <1>1, FetchOkStep, FetchErrStep, SaveStep, WriteStep, OtherStep DEF Next
<1> QED BY InitInv, <1>2, PTL DEF Spec

\* reload serves a source that does not answer from the last nodes that were saved
\* of it, unless a torn write of the cache file has lost them.
THEOREM FallbacksAreComplete == Spec => []FallbackComplete
<1>1. IInv => FallbackComplete
  BY DEF IInv
<1> QED BY Invariance, <1>1, PTL

\* match_auth_id finds the upstream of every node the HTTP server hands out, at
\* both ends of the time window; between the two writes of a reload, of every one
\* that the new list still has.
THEOREM ServedNodesAreReachable == Spec => []EveryNodeReachable
<1>1. IInv => EveryNodeReachable
  <2> SUFFICES ASSUME IInv, NEW i \in DOMAIN served, NEW now \in {0, 2 * Window},
                      NEW k \in DOMAIN Installed, Installed[k] = served[i],
                      \A j \in DOMAIN Installed : Installed[j].uuid.key = served[i].uuid.key =>
                                                    Installed[j].uuid.text = served[i].uuid.text
               PROVE  MatchAuthId(validator, [key |-> served[i].uuid.key, time |-> Window], now)
                        = {Upstream(served[i])}
    BY DEF EveryNodeReachable
  <2> DEFINE auth == [key |-> served[i].uuid.key, time |-> Window]
             matching == {j \in DOMAIN validator : Verify(validator[j].uuid.key, auth, now)}
  <2>1. /\ DOMAIN validator = DOMAIN Installed
        /\ \A j \in DOMAIN Installed : /\ validator[j].uuid = Installed[j].uuid
                                        /\ validator[j].upstream = Upstream(Installed[j])
    BY DEF IInv, TableServed, BuildValidator
  <2>2. \A j \in DOMAIN Installed \ {k} : Installed[j].uuid.text # served[i].uuid.text
    BY DEF IInv, TableServed, Builds, Accepted, Distinct
  <2>3. now - Window \in -Window..Window
    BY DEF Window
  <2>4. matching = {k}
    BY <2>1, <2>2, <2>3 DEF Verify
  <2> HIDE DEF matching, auth
  <2>5. (CHOOSE m \in matching : \A j \in matching \ {m} : m < j) = k
    BY <2>4
  <2> QED BY <2>1, <2>4, <2>5 DEF MatchAuthId, matching, auth
<1> QED BY Invariance, <1>1, PTL
===============================================================================
