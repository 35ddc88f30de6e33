--------------------------- MODULE GrpcPoolProofs ---------------------------
(* The steps of GrpcPool keep slots, endpoints, connections and drivers        *)
(* together; the proofs of its safety properties, for every number of relays,  *)
(* endpoints, slots and connections.                                           *)
EXTENDS GrpcPoolLocks

-----------------------------------------------------------------------------
(* Slots stay with their endpoints and connections with their drivers *)

\* Slots and connections keep their endpoints while nothing new is put in the
\* map, in a slot or in the hands of a relay.
LEMMA KeyStay ==
    ASSUME TypeOK, KeyInv,
           madeFor' = madeFor, nextSlot' = nextSlot, nextConn' = nextConn, dialled' = dialled,
           \A k \in Keys : conns'[k] \in {conns[k], 0},
           \A s \in Slots : cached'[s] \in {cached[s], 0},
           \A t \in RelayTasks : slot'[t] \in {slot[t], 0},
           \A t \in RelayTasks : slot'[t] # 0 => key'[t] = key[t],
           \A t \in RelayTasks : pc'[t] \in {"ready", "stream"} =>
               pc[t] \in {"ready", "stream"} /\ using'[t] = using[t] /\ key'[t] = key[t]
    PROVE  KeyInv'
<1>1. \A k \in Keys : conns'[k] # 0 => conns'[k] < nextSlot' /\ madeFor'[conns'[k]] = k
    BY DEF KeyInv
<1>2. \A t \in RelayTasks : slot'[t] # 0 =>
          slot'[t] < nextSlot' /\ madeFor'[slot'[t]] = key'[t]
    BY DEF KeyInv
<1>3. \A s \in Slots : cached'[s] # 0 => s < nextSlot' /\ dialled'[cached'[s]] = madeFor'[s]
    BY DEF KeyInv
<1>4. \A t \in RelayTasks : pc'[t] \in {"ready", "stream"} =>
          using'[t] \in ConnIds /\ using'[t] < nextConn' /\ dialled'[using'[t]] = key'[t]
    BY DEF KeyInv
<1>. QED
    BY <1>1, <1>2, <1>3, <1>4 DEF KeyInv

\* Cached connections keep their drivers while no driver moves and nothing new
\* is cached.
LEMMA ConnStay ==
    ASSUME TypeOK, ConnInv, nextConn' = nextConn,
           \A i \in ConnIds : conn'[i] \in {conn[i], "closed"},
           \A s \in Slots : cached'[s] \in {cached[s], 0},
           \A i \in ConnIds : pc'[Driver(i)] = pc[Driver(i)] /\ slot'[Driver(i)] = slot[Driver(i)]
    PROVE  ConnInv'
<1>1. \A s \in Slots : cached[s] # 0 => cached[s] \in ConnIds
    BY BoundsAssumption DEF TypeOK, PoolTypeOK, ConnIds
<1>. QED
    BY <1>1 DEF ConnInv, CachedHasDriver

\* The steps that hand a slot or a connection from one owner to the next: a relay
\* task finds or creates its slot, takes the cached connection or stores a new one,
\* and a driver takes its slot and clears it.
OwnerMoves ==
    \/ \E t \in RelayTasks : Lookup(t) \/ Reuse(t) \/ DialOk(t)
    \/ \E i \in ConnIds : DriverWakes(i) \/ DriverClear(i)

\* get_or_create and the driver task keep every slot, connection and cache entry
\* with the endpoint it was made for.
LEMMA OwnerMoveStep == IInv /\ OwnerMoves => (SlotInv /\ KeyInv /\ ConnInv /\ SnapshotCurrent)'
<1> SUFFICES ASSUME IInv, OwnerMoves
             PROVE  (SlotInv /\ KeyInv /\ ConnInv /\ SnapshotCurrent)'
    OBVIOUS
<1> USE DEF IInv, TypeOK
<1>1. ASSUME NEW t \in RelayTasks, Lookup(t)
      PROVE  (SlotInv /\ KeyInv /\ ConnInv /\ SnapshotCurrent)'
  <2> DEFINE s == slot'[t]
  <2>1. key[t] \in Keys /\ t \in Tasks
    BY <1>1, TaskFacts DEF Lookup, SlotFor, SlotInv
  <2>2. /\ s \in Slots /\ s < nextSlot' /\ conns'[key[t]] = s /\ madeFor'[s] = key[t]
        /\ \A k \in Keys \ {key[t]} : conns'[k] = conns[k]
        /\ conns[key[t]] # 0 => s = conns[key[t]]
    <3>1. CASE conns[key[t]] # 0
      <4>1. s = conns[key[t]] /\ conns' = conns /\ madeFor' = madeFor /\ nextSlot' = nextSlot
        BY <1>1, <2>1, <3>1 DEF Lookup, SlotFor, TaskTypeOK
      <4>2. s \in Slots
        BY <2>1, <3>1, <4>1 DEF PoolTypeOK, Slots
      <4>3. conns[key[t]] < nextSlot /\ madeFor[conns[key[t]]] = key[t]
        BY Zenon, <2>1, <3>1 DEF KeyInv
      <4>. QED
        BY Zenon, <4>1, <4>2, <4>3
    <3>2. CASE conns[key[t]] = 0
      <4>1. s = nextSlot /\ nextSlot \in Slots /\ nextSlot' = nextSlot + 1
        BY <1>1, <2>1, <3>2, BoundsAssumption DEF Lookup, SlotFor, PoolTypeOK, TaskTypeOK, Slots
      <4>2. conns' = [conns EXCEPT ![key[t]] = s] /\ madeFor' = [madeFor EXCEPT ![s] = key[t]]
        BY <1>1, <3>2, <4>1 DEF Lookup, SlotFor
      <4>3. s < nextSlot'
        BY <4>1, BoundsAssumption DEF Slots
      <4>. QED
        BY <2>1, <3>2, <4>1, <4>2, <4>3 DEF PoolTypeOK
    <3>. QED
      BY <3>1, <3>2
  <2>3. /\ nextSlot' >= nextSlot
        /\ \A r \in Slots : r < nextSlot => madeFor'[r] = madeFor[r] /\ r < nextSlot'
    <3>1. CASE conns[key[t]] # 0
      BY <1>1, <3>1, BoundsAssumption DEF Lookup, SlotFor, PoolTypeOK
    <3>2. CASE conns[key[t]] = 0
      <4>1. nextSlot' = nextSlot + 1 /\ madeFor' = [madeFor EXCEPT ![nextSlot] = key[t]]
        BY <1>1, <3>2 DEF Lookup, SlotFor
      <4>. QED
        BY <4>1, BoundsAssumption DEF PoolTypeOK, Slots
    <3>. QED
      BY <3>1, <3>2
  <2>4. /\ \A u \in Tasks \ {t} : slot'[u] = slot[u] /\ pc'[u] = pc[u]
        /\ pc'[t] = "lock"
        /\ UNCHANGED <<key, using, cached, dialled, conn, nextConn, stale>>
    BY <1>1, <2>1 DEF Lookup, SlotFor, TaskTypeOK, connVars
  <2>5. SlotInv'
    BY <2>1, <2>2, <2>4, TaskFacts DEF SlotInv
  <2>6. KeyInv'
    <3>1. ASSUME NEW k \in Keys, conns'[k] # 0
          PROVE  conns'[k] < nextSlot' /\ madeFor'[conns'[k]] = k
      <4>1. CASE k = key[t]
        BY <2>2, <4>1
      <4>2. CASE k # key[t]
        <5>1. conns'[k] = conns[k] /\ conns[k] \in Slots
          BY SMTT(30), Zenon, <2>2, <3>1, <4>2, BoundsAssumption DEF PoolTypeOK, Slots
        <5>. QED
          BY <2>3, <3>1, <5>1 DEF KeyInv
      <4>. QED
        BY <4>1, <4>2
    <3>2. ASSUME NEW u \in RelayTasks, slot'[u] # 0
          PROVE  slot'[u] < nextSlot' /\ madeFor'[slot'[u]] = key'[u]
      <4>1. CASE u = t
        BY <2>2, <2>4, <4>1
      <4>2. CASE u # t
        <5>1. slot'[u] = slot[u] /\ slot[u] \in Slots
          BY <2>4, <3>2, <4>2, TaskFacts, BoundsAssumption DEF TaskTypeOK, Slots
        <5>. QED
          BY <2>3, <2>4, <3>2, <5>1 DEF KeyInv
      <4>. QED
        BY <4>1, <4>2
    <3>3. \A r \in Slots : cached'[r] # 0 =>
              r < nextSlot' /\ dialled'[cached'[r]] = madeFor'[r]
      BY <2>3, <2>4 DEF KeyInv
    <3>4. \A u \in RelayTasks : pc'[u] \in {"ready", "stream"} =>
              using'[u] \in ConnIds /\ using'[u] < nextConn' /\ dialled'[using'[u]] = key'[u]
      BY <2>4, TaskFacts DEF KeyInv
    <3>. QED
      BY Zenon, <3>1, <3>2, <3>3, <3>4 DEF KeyInv
  <2>7. ConnInv'
    BY <2>4, TaskFacts, ConnStay
  <2>8. SnapshotCurrent'
    <3>1. \A p \in stale : p[1] \in Keys /\ p[2] \in Slots /\ p[2] # 0
      BY BoundsAssumption DEF TaskTypeOK, Slots
    <3>2. ASSUME NEW p \in stale PROVE conns'[p[1]] = p[2]
      <4>1. conns[p[1]] = p[2] /\ p[1] \in Keys /\ p[2] # 0
        BY Zenon, <3>1, <3>2 DEF SnapshotCurrent
      <4>2. CASE p[1] = key[t]
        BY <2>2, <4>1, <4>2
      <4>3. CASE p[1] # key[t]
        BY <2>2, <4>1, <4>3
      <4>. QED
        BY <4>2, <4>3
    <3>3. stale' = stale
      BY <2>4
    <3>. QED
      BY Zenon, <3>2, <3>3 DEF SnapshotCurrent
  <2>. QED
    BY <2>5, <2>6, <2>7, <2>8
<1>2. ASSUME NEW t \in RelayTasks, Reuse(t)
      PROVE  (SlotInv /\ KeyInv /\ ConnInv /\ SnapshotCurrent)'
  <2>1. t \in Tasks /\ slot[t] \in Slots /\ slot[t] # 0
    BY <1>2, TaskFacts, BoundsAssumption DEF Reuse, Holds, SlotInv, Slots
  <2>2. UNCHANGED <<conns, cached, madeFor, nextSlot, nextConn, conn, dialled, key, stale>>
    BY Zenon, <1>2 DEF Reuse, connVars
  <2>3. /\ \A u \in Tasks \ {t} : slot'[u] = slot[u] /\ pc'[u] = pc[u]
        /\ \A u \in RelayTasks \ {t} : using'[u] = using[u]
        /\ slot'[t] = 0 /\ pc'[t] = "ready" /\ using'[t] = cached[slot[t]]
    BY <1>2, <2>1 DEF Reuse, Release, TaskTypeOK
  <2>4. cached[slot[t]] \in ConnIds
    BY <1>2, <2>1, BoundsAssumption DEF Reuse, PoolTypeOK, ConnIds
  <2>5. cached[slot[t]] < nextConn /\ dialled[cached[slot[t]]] = key[t]
    BY Zenon, <1>2, <2>1, <2>4 DEF Reuse, ConnInv, KeyInv
  <2>6. SlotInv'
    BY ZenonT(60), <1>2, <2>1, <2>2, <2>3, TaskFacts DEF Reuse, Holds, SlotInv
  <2>7. KeyInv'
    BY SMTT(60), ZenonT(60), <2>2, <2>3, <2>4, <2>5, TaskFacts DEF KeyInv
  <2>8. ConnInv'
    BY Zenon, <2>2, <2>3, TaskFacts, ConnStay
  <2>9. SnapshotCurrent'
    BY <2>2 DEF SnapshotCurrent
  <2>. QED
    BY <2>6, <2>7, <2>8, <2>9
<1>3. ASSUME NEW t \in RelayTasks, DialOk(t)
      PROVE  (SlotInv /\ KeyInv /\ ConnInv /\ SnapshotCurrent)'
  <2> DEFINE c == nextConn
             d == Driver(c)
             s == slot[t]
  <2>1. t \in Tasks /\ s \in Slots /\ s # 0 /\ key[t] \in Keys
    BY <1>3, TaskFacts, BoundsAssumption DEF DialOk, SlotInv, Slots
  <2>2. c \in ConnIds /\ c # 0 /\ nextConn' = c + 1 /\ c \in Nat
    BY <1>3, BoundsAssumption DEF DialOk, PoolTypeOK, ConnIds
  <2>3. d \in Tasks /\ d # t /\ d \notin RelayTasks /\ d # Reload /\ d # Pruner
    BY <2>2, TaskFacts
  <2>4. UNCHANGED <<conns, madeFor, nextSlot, key, stale>>
    BY <1>3 DEF DialOk
  <2>5. /\ \A u \in Tasks \ {t, d} : slot'[u] = slot[u] /\ pc'[u] = pc[u]
        /\ slot'[t] = 0 /\ pc'[t] = "ready" /\ slot'[d] = s /\ pc'[d] = "run"
        /\ \A u \in RelayTasks \ {t} : using'[u] = using[u]
        /\ using'[t] = c
    BY <1>3, <2>1, <2>3 DEF DialOk, TaskTypeOK
  <2>6. /\ \A i \in ConnIds \ {c} : conn'[i] = conn[i] /\ dialled'[i] = dialled[i]
        /\ dialled'[c] = key[t]
        /\ \A r \in Slots \ {s} : cached'[r] = cached[r]
        /\ cached'[s] = c
    BY <1>3, <2>1, <2>2 DEF DialOk, PoolTypeOK, ConnTypeOK
  <2>7. SlotInv'
    BY <2>1, <2>2, <2>3, <2>4, <2>5, TaskFacts DEF SlotInv
  <2>8. \A r \in Slots : cached[r] # 0 => cached[r] \in ConnIds /\ cached[r] < c
    BY BoundsAssumption DEF ConnInv, PoolTypeOK, ConnIds
  <2>9. KeyInv'
    <3>1. \A k \in Keys : conns'[k] # 0 => conns'[k] < nextSlot' /\ madeFor'[conns'[k]] = k
      BY <2>4 DEF KeyInv
    <3>2. \A u \in RelayTasks : slot'[u] # 0 =>
              slot'[u] < nextSlot' /\ madeFor'[slot'[u]] = key'[u]
      BY SMTT(60), ZenonT(60), <2>3, <2>4, <2>5, TaskFacts DEF KeyInv
    <3>3. ASSUME NEW r \in Slots, cached'[r] # 0
          PROVE  r < nextSlot' /\ dialled'[cached'[r]] = madeFor'[r]
      <4>1. CASE r = s
        BY <2>1, <2>4, <2>6, <4>1 DEF KeyInv
      <4>2. CASE r # s
        <5>1. cached'[r] = cached[r] /\ cached[r] \in ConnIds /\ cached[r] # c
          BY <2>2, <2>6, <2>8, <3>3, <4>2, BoundsAssumption DEF ConnIds
        <5>. QED
          BY <2>4, <2>6, <3>3, <5>1 DEF KeyInv
      <4>. QED
        BY <4>1, <4>2
    <3>4. ASSUME NEW u \in RelayTasks, pc'[u] \in {"ready", "stream"}
          PROVE  using'[u] \in ConnIds /\ using'[u] < nextConn' /\ dialled'[using'[u]] = key'[u]
      <4>1. CASE u = t
        BY <2>2, <2>4, <2>5, <2>6, <4>1
      <4>2. CASE u # t
        <5>1. using'[u] = using[u] /\ using[u] \in ConnIds /\ using[u] < c
              /\ dialled[using[u]] = key[u]
          BY Zenon, <2>3, <2>5, <3>4, <4>2, TaskFacts DEF KeyInv
        <5>. QED
          BY <2>2, <2>4, <2>6, <5>1, BoundsAssumption DEF ConnIds
      <4>. QED
        BY <4>1, <4>2
    <3>. QED
      BY <3>1, <3>2, <3>3, <3>4 DEF KeyInv
  <2>10. ConnInv'
    <3>1. \A i \in ConnIds \ {c} : Driver(i) # d /\ Driver(i) # t /\ Driver(i) \in Tasks
      BY <2>2, TaskFacts
    <3>2. \A i \in ConnIds : i >= nextConn' => pc'[Driver(i)] = "none"
      BY <2>2, <2>5, <3>1, BoundsAssumption DEF ConnInv, ConnIds
    <3>3. \A i \in ConnIds : pc'[Driver(i)] = "wait" => conn'[i] = "closed"
      BY <2>5, <2>6, <3>1 DEF ConnInv
    <3>4. \A r \in Slots : cached'[r] # 0 => cached'[r] < nextConn'
      BY <2>2, <2>6, <2>8, BoundsAssumption DEF ConnIds
    <3>5. ASSUME NEW r \in Slots, cached'[r] # 0
          PROVE  /\ slot'[Driver(cached'[r])] = r
                 /\ pc'[Driver(cached'[r])] \in {"run", "wait"}
      <4>1. CASE r = s
        BY <2>5, <2>6, <4>1
      <4>2. CASE r # s
        <5>1. cached'[r] = cached[r] /\ cached[r] \in ConnIds \ {c}
          BY <2>2, <2>6, <2>8, <3>5, <4>2, BoundsAssumption DEF ConnIds
        <5>. QED
          BY <2>5, <3>1, <3>5, <5>1 DEF ConnInv, CachedHasDriver
      <4>. QED
        BY <4>1, <4>2
    <3>. QED
      BY Zenon, <3>2, <3>3, <3>4, <3>5 DEF ConnInv, CachedHasDriver
  <2>11. SnapshotCurrent'
    BY <2>4 DEF SnapshotCurrent
  <2>. QED
    BY <2>7, <2>9, <2>10, <2>11
<1>4. ASSUME NEW i \in ConnIds, DriverWakes(i)
      PROVE  (SlotInv /\ KeyInv /\ ConnInv /\ SnapshotCurrent)'
  <2>1. /\ \A u \in Tasks \ {Driver(i)} : slot'[u] = slot[u] /\ pc'[u] = pc[u]
        /\ slot'[Driver(i)] = slot[Driver(i)] /\ pc'[Driver(i)] = "wait"
        /\ pc[Driver(i)] = "run" /\ conn[i] = "closed"
    BY <1>4, TaskFacts DEF DriverWakes, Join, TaskTypeOK
  <2>2. UNCHANGED <<conns, cached, madeFor, nextSlot, nextConn, conn, dialled, key, using, stale>>
    BY <1>4 DEF DriverWakes, connVars
  <2>3. SlotInv'
    BY Zenon, <2>1, <2>2, TaskFacts DEF SlotInv
  <2>4. KeyInv'
    BY Zenon, <2>1, <2>2, TaskFacts, KeyStay
  <2>5. \A s \in Slots : cached[s] # 0 => cached[s] \in ConnIds
    BY BoundsAssumption DEF PoolTypeOK, ConnIds
  <2>6. ConnInv'
    BY <2>1, <2>2, <2>5, TaskFacts DEF ConnInv, CachedHasDriver
  <2>7. SnapshotCurrent'
    BY <2>2 DEF SnapshotCurrent
  <2>. QED
    BY <2>3, <2>4, <2>6, <2>7
<1>5. ASSUME NEW i \in ConnIds, DriverClear(i)
      PROVE  (SlotInv /\ KeyInv /\ ConnInv /\ SnapshotCurrent)'
  <2>1. /\ \A u \in Tasks \ {Driver(i)} : slot'[u] = slot[u] /\ pc'[u] = pc[u]
        /\ slot'[Driver(i)] = 0 /\ pc'[Driver(i)] = "done" /\ pc[Driver(i)] = "wait"
        /\ slot[Driver(i)] \in Slots
    BY <1>5, TaskFacts DEF DriverClear, Cleared, Holds, Release, TaskTypeOK, SlotInv
  <2>2. UNCHANGED <<conns, madeFor, nextSlot, nextConn, conn, dialled, key, using, stale>>
    BY <1>5 DEF DriverClear, Cleared, connVars
  <2>3. /\ \A s \in Slots : cached'[s] \in {cached[s], 0}
        /\ \A s \in Slots : s = slot[Driver(i)] => cached'[s] # i
    <3>1. cached \in [Slots -> {0} \cup ConnIds] /\ i # 0
      BY SMTT(60), ZenonT(60), BoundsAssumption DEF PoolTypeOK, ConnIds
    <3>2. cached' = [cached EXCEPT ![slot[Driver(i)]] = IF @ = i THEN 0 ELSE @]
      BY Zenon, <1>5 DEF DriverClear, Cleared
    <3>. QED
      BY ONLY <2>1, <3>1, <3>2
  <2>4. SlotInv'
    BY Zenon, <2>1, <2>2, TaskFacts DEF SlotInv
  <2>5. KeyInv'
    BY Zenon, <2>1, <2>2, <2>3, TaskFacts, KeyStay
  <2>6. \A s \in Slots : cached[s] # 0 => cached[s] \in ConnIds
    BY BoundsAssumption DEF PoolTypeOK, ConnIds
  <2>7. ConnInv'
    <3>1. CachedHasDriver'
      BY <2>1, <2>3, <2>6, TaskFacts DEF ConnInv, CachedHasDriver
    <3>. QED
      BY <2>1, <2>2, <2>3, <3>1, TaskFacts DEF ConnInv
  <2>8. SnapshotCurrent'
    BY <2>2 DEF SnapshotCurrent
  <2>. QED
    BY <2>4, <2>5, <2>7, <2>8
<1>. QED
    BY <1>1, <1>2, <1>3, <1>4, <1>5 DEF OwnerMoves

\* Every step of the pool keeps slots, connections and cache entries with the
\* endpoint they were made for, and the prune snapshot current.
LEMMA OwnerStep == IInv /\ [Next]_vars => (SlotInv /\ KeyInv /\ ConnInv /\ SnapshotCurrent)'
<1> SUFFICES ASSUME IInv, [Next]_vars
             PROVE  (SlotInv /\ KeyInv /\ ConnInv /\ SnapshotCurrent)'
    BY ZenonT(60)
<1> USE DEF IInv, TypeOK
<1>1. ASSUME NEW t \in RelayTasks, NEW k \in Keys, Match(t, k)
      PROVE  (SlotInv /\ KeyInv /\ ConnInv /\ SnapshotCurrent)'
  <2>1. SlotInv'
    BY Zenon, <1>1, TaskFacts DEF Match, SlotInv, TaskTypeOK
  <2>2. /\ madeFor' = madeFor /\ nextSlot' = nextSlot /\ nextConn' = nextConn /\ dialled' = dialled
        /\ \A l \in Keys : conns'[l] \in {conns[l], 0}
        /\ \A r \in Slots : cached'[r] \in {cached[r], 0}
        /\ \A j \in ConnIds : conn'[j] \in {conn[j], "closed"}
    BY <1>1 DEF Match, poolVars, connVars, PoolTypeOK, ConnTypeOK
  <2>3. /\ \A u \in RelayTasks : slot'[u] \in {slot[u], 0}
        /\ \A u \in RelayTasks : slot'[u] # 0 => key'[u] = key[u]
        /\ \A u \in RelayTasks : pc'[u] \in {"ready", "stream"} =>
              pc[u] \in {"ready", "stream"} /\ using'[u] = using[u] /\ key'[u] = key[u]
        /\ \A j \in ConnIds : pc'[Driver(j)] = pc[Driver(j)] /\ slot'[Driver(j)] = slot[Driver(j)]
    BY <1>1, TaskFacts DEF Match, SlotInv, TaskTypeOK
  <2>4. SnapshotCurrent'
    BY <1>1 DEF Match, poolVars, connVars, SnapshotCurrent, PoolTypeOK
  <2>. QED
    BY Zenon, <2>1, <2>2, <2>3, <2>4, KeyStay, ConnStay
<1>2. ASSUME NEW t \in RelayTasks, AskLock(t)
      PROVE  (SlotInv /\ KeyInv /\ ConnInv /\ SnapshotCurrent)'
  <2>1. SlotInv'
    BY Zenon, <1>2, TaskFacts DEF AskLock, Join, SlotInv, TaskTypeOK
  <2>2. /\ madeFor' = madeFor /\ nextSlot' = nextSlot /\ nextConn' = nextConn /\ dialled' = dialled
        /\ \A l \in Keys : conns'[l] \in {conns[l], 0}
        /\ \A r \in Slots : cached'[r] \in {cached[r], 0}
        /\ \A j \in ConnIds : conn'[j] \in {conn[j], "closed"}
    BY <1>2 DEF AskLock, connVars, PoolTypeOK, ConnTypeOK
  <2>3. /\ \A u \in RelayTasks : slot'[u] \in {slot[u], 0}
        /\ \A u \in RelayTasks : slot'[u] # 0 => key'[u] = key[u]
        /\ \A u \in RelayTasks : pc'[u] \in {"ready", "stream"} =>
              pc[u] \in {"ready", "stream"} /\ using'[u] = using[u] /\ key'[u] = key[u]
        /\ \A j \in ConnIds : pc'[Driver(j)] = pc[Driver(j)] /\ slot'[Driver(j)] = slot[Driver(j)]
    BY Zenon, <1>2, TaskFacts DEF AskLock, Join, TaskTypeOK
  <2>4. SnapshotCurrent'
    BY <1>2 DEF AskLock, Join, connVars, SnapshotCurrent, PoolTypeOK
  <2>. QED
    BY Zenon, <2>1, <2>2, <2>3, <2>4, KeyStay, ConnStay
<1>3. ASSUME NEW t \in RelayTasks, Dial(t)
      PROVE  (SlotInv /\ KeyInv /\ ConnInv /\ SnapshotCurrent)'
  <2>1. SlotInv'
    BY Zenon, <1>3, TaskFacts DEF Dial, Holds, SlotInv, TaskTypeOK
  <2>2. /\ madeFor' = madeFor /\ nextSlot' = nextSlot /\ nextConn' = nextConn /\ dialled' = dialled
        /\ \A l \in Keys : conns'[l] \in {conns[l], 0}
        /\ \A r \in Slots : cached'[r] \in {cached[r], 0}
        /\ \A j \in ConnIds : conn'[j] \in {conn[j], "closed"}
    BY <1>3 DEF Dial, poolVars, connVars, PoolTypeOK, ConnTypeOK
  <2>3. /\ \A u \in RelayTasks : slot'[u] \in {slot[u], 0}
        /\ \A u \in RelayTasks : slot'[u] # 0 => key'[u] = key[u]
        /\ \A u \in RelayTasks : pc'[u] \in {"ready", "stream"} =>
              pc[u] \in {"ready", "stream"} /\ using'[u] = using[u] /\ key'[u] = key[u]
        /\ \A j \in ConnIds : pc'[Driver(j)] = pc[Driver(j)] /\ slot'[Driver(j)] = slot[Driver(j)]
    BY ZenonT(60), <1>3, TaskFacts DEF Dial, Holds, TaskTypeOK
  <2>4. SnapshotCurrent'
    BY <1>3 DEF Dial, poolVars, connVars, SnapshotCurrent, PoolTypeOK
  <2>. QED
    BY <2>1, <2>2, <2>3, <2>4, KeyStay, ConnStay
<1>4. ASSUME NEW t \in RelayTasks, DialErr(t)
      PROVE  (SlotInv /\ KeyInv /\ ConnInv /\ SnapshotCurrent)'
  <2>1. SlotInv'
    BY Zenon, <1>4, TaskFacts DEF DialErr, Release, SlotInv, TaskTypeOK
  <2>2. /\ madeFor' = madeFor /\ nextSlot' = nextSlot /\ nextConn' = nextConn /\ dialled' = dialled
        /\ \A l \in Keys : conns'[l] \in {conns[l], 0}
        /\ \A r \in Slots : cached'[r] \in {cached[r], 0}
        /\ \A j \in ConnIds : conn'[j] \in {conn[j], "closed"}
    BY <1>4 DEF DialErr, connVars, PoolTypeOK, ConnTypeOK
  <2>3. /\ \A u \in RelayTasks : slot'[u] \in {slot[u], 0}
        /\ \A u \in RelayTasks : slot'[u] # 0 => key'[u] = key[u]
        /\ \A u \in RelayTasks : pc'[u] \in {"ready", "stream"} =>
              pc[u] \in {"ready", "stream"} /\ using'[u] = using[u] /\ key'[u] = key[u]
        /\ \A j \in ConnIds : pc'[Driver(j)] = pc[Driver(j)] /\ slot'[Driver(j)] = slot[Driver(j)]
    BY <1>4, TaskFacts DEF DialErr, Release, TaskTypeOK
  <2>4. SnapshotCurrent'
    BY <1>4 DEF DialErr, connVars, SnapshotCurrent, PoolTypeOK
  <2>. QED
    BY <2>1, <2>2, <2>3, <2>4, KeyStay, ConnStay
<1>5. ASSUME NEW t \in RelayTasks, ReadyOk(t)
      PROVE  (SlotInv /\ KeyInv /\ ConnInv /\ SnapshotCurrent)'
  <2>1. SlotInv'
    BY Zenon, <1>5, TaskFacts DEF ReadyOk, SlotInv, TaskTypeOK
  <2>2. /\ madeFor' = madeFor /\ nextSlot' = nextSlot /\ nextConn' = nextConn /\ dialled' = dialled
        /\ \A l \in Keys : conns'[l] \in {conns[l], 0}
        /\ \A r \in Slots : cached'[r] \in {cached[r], 0}
        /\ \A j \in ConnIds : conn'[j] \in {conn[j], "closed"}
    BY Zenon, <1>5 DEF ReadyOk, poolVars, connVars, PoolTypeOK, ConnTypeOK
  <2>3. /\ \A u \in RelayTasks : slot'[u] \in {slot[u], 0}
        /\ \A u \in RelayTasks : slot'[u] # 0 => key'[u] = key[u]
        /\ \A u \in RelayTasks : pc'[u] \in {"ready", "stream"} =>
              pc[u] \in {"ready", "stream"} /\ using'[u] = using[u] /\ key'[u] = key[u]
        /\ \A j \in ConnIds : pc'[Driver(j)] = pc[Driver(j)] /\ slot'[Driver(j)] = slot[Driver(j)]
    BY <1>5, TaskFacts DEF ReadyOk, TaskTypeOK
  <2>4. SnapshotCurrent'
    BY <1>5 DEF ReadyOk, poolVars, connVars, SnapshotCurrent, PoolTypeOK
  <2>. QED
    BY <2>1, <2>2, <2>3, <2>4, KeyStay, ConnStay
<1>6. ASSUME NEW t \in RelayTasks, ReadyErr(t)
      PROVE  (SlotInv /\ KeyInv /\ ConnInv /\ SnapshotCurrent)'
  <2>1. SlotInv'
    BY Zenon, <1>6, TaskFacts DEF ReadyErr, Evict, SlotInv, TaskTypeOK
  <2>2. /\ madeFor' = madeFor /\ nextSlot' = nextSlot /\ nextConn' = nextConn /\ dialled' = dialled
        /\ \A l \in Keys : conns'[l] \in {conns[l], 0}
        /\ \A r \in Slots : cached'[r] \in {cached[r], 0}
        /\ \A j \in ConnIds : conn'[j] \in {conn[j], "closed"}
    BY Zenon, <1>6 DEF ReadyErr, Evict, connVars, PoolTypeOK, ConnTypeOK
  <2>3. /\ \A u \in RelayTasks : slot'[u] \in {slot[u], 0}
        /\ \A u \in RelayTasks : slot'[u] # 0 => key'[u] = key[u]
        /\ \A u \in RelayTasks : pc'[u] \in {"ready", "stream"} =>
              pc[u] \in {"ready", "stream"} /\ using'[u] = using[u] /\ key'[u] = key[u]
        /\ \A j \in ConnIds : pc'[Driver(j)] = pc[Driver(j)] /\ slot'[Driver(j)] = slot[Driver(j)]
    BY <1>6, TaskFacts DEF ReadyErr, TaskTypeOK
  <2>4. SnapshotCurrent'
    BY Zenon, <1>6 DEF ReadyErr, connVars, SnapshotCurrent, PoolTypeOK
  <2>. QED
    BY <2>1, <2>2, <2>3, <2>4, KeyStay, ConnStay
<1>7. ASSUME NEW t \in RelayTasks, ReadyErrAgain(t)
      PROVE  (SlotInv /\ KeyInv /\ ConnInv /\ SnapshotCurrent)'
  <2>1. SlotInv'
    BY Zenon, <1>7, TaskFacts DEF ReadyErrAgain, SlotInv, TaskTypeOK
  <2>2. /\ madeFor' = madeFor /\ nextSlot' = nextSlot /\ nextConn' = nextConn /\ dialled' = dialled
        /\ \A l \in Keys : conns'[l] \in {conns[l], 0}
        /\ \A r \in Slots : cached'[r] \in {cached[r], 0}
        /\ \A j \in ConnIds : conn'[j] \in {conn[j], "closed"}
    BY <1>7 DEF ReadyErrAgain, poolVars, connVars, PoolTypeOK, ConnTypeOK
  <2>3. /\ \A u \in RelayTasks : slot'[u] \in {slot[u], 0}
        /\ \A u \in RelayTasks : slot'[u] # 0 => key'[u] = key[u]
        /\ \A u \in RelayTasks : pc'[u] \in {"ready", "stream"} =>
              pc[u] \in {"ready", "stream"} /\ using'[u] = using[u] /\ key'[u] = key[u]
        /\ \A j \in ConnIds : pc'[Driver(j)] = pc[Driver(j)] /\ slot'[Driver(j)] = slot[Driver(j)]
    BY <1>7, TaskFacts DEF ReadyErrAgain, TaskTypeOK
  <2>4. SnapshotCurrent'
    BY <1>7 DEF ReadyErrAgain, poolVars, connVars, SnapshotCurrent, PoolTypeOK
  <2>. QED
    BY <2>1, <2>2, <2>3, <2>4, KeyStay, ConnStay
<1>8. ASSUME NEW t \in RelayTasks, StreamEnd(t)
      PROVE  (SlotInv /\ KeyInv /\ ConnInv /\ SnapshotCurrent)'
  <2>1. SlotInv'
    BY Zenon, <1>8, TaskFacts DEF StreamEnd, SlotInv, TaskTypeOK
  <2>2. /\ madeFor' = madeFor /\ nextSlot' = nextSlot /\ nextConn' = nextConn /\ dialled' = dialled
        /\ \A l \in Keys : conns'[l] \in {conns[l], 0}
        /\ \A r \in Slots : cached'[r] \in {cached[r], 0}
        /\ \A j \in ConnIds : conn'[j] \in {conn[j], "closed"}
    BY <1>8 DEF StreamEnd, poolVars, connVars, PoolTypeOK, ConnTypeOK
  <2>3. /\ \A u \in RelayTasks : slot'[u] \in {slot[u], 0}
        /\ \A u \in RelayTasks : slot'[u] # 0 => key'[u] = key[u]
        /\ \A u \in RelayTasks : pc'[u] \in {"ready", "stream"} =>
              pc[u] \in {"ready", "stream"} /\ using'[u] = using[u] /\ key'[u] = key[u]
        /\ \A j \in ConnIds : pc'[Driver(j)] = pc[Driver(j)] /\ slot'[Driver(j)] = slot[Driver(j)]
    BY <1>8, TaskFacts DEF StreamEnd, TaskTypeOK
  <2>4. SnapshotCurrent'
    BY <1>8 DEF StreamEnd, poolVars, connVars, SnapshotCurrent, PoolTypeOK
  <2>. QED
    BY <2>1, <2>2, <2>3, <2>4, KeyStay, ConnStay
<1>9. ASSUME NEW t \in RelayTasks, StreamBroken(t)
      PROVE  (SlotInv /\ KeyInv /\ ConnInv /\ SnapshotCurrent)'
  <2>1. SlotInv'
    BY Zenon, <1>9, TaskFacts DEF StreamBroken, Evict, SlotInv, TaskTypeOK
  <2>2. /\ madeFor' = madeFor /\ nextSlot' = nextSlot /\ nextConn' = nextConn /\ dialled' = dialled
        /\ \A l \in Keys : conns'[l] \in {conns[l], 0}
        /\ \A r \in Slots : cached'[r] \in {cached[r], 0}
        /\ \A j \in ConnIds : conn'[j] \in {conn[j], "closed"}
    BY Zenon, <1>9 DEF StreamBroken, Evict, connVars, PoolTypeOK, ConnTypeOK
  <2>3. /\ \A u \in RelayTasks : slot'[u] \in {slot[u], 0}
        /\ \A u \in RelayTasks : slot'[u] # 0 => key'[u] = key[u]
        /\ \A u \in RelayTasks : pc'[u] \in {"ready", "stream"} =>
              pc[u] \in {"ready", "stream"} /\ using'[u] = using[u] /\ key'[u] = key[u]
        /\ \A j \in ConnIds : pc'[Driver(j)] = pc[Driver(j)] /\ slot'[Driver(j)] = slot[Driver(j)]
    BY Zenon, <1>9, TaskFacts DEF StreamBroken, TaskTypeOK
  <2>4. SnapshotCurrent'
    BY <1>9 DEF StreamBroken, connVars, SnapshotCurrent, PoolTypeOK
  <2>. QED
    BY <2>1, <2>2, <2>3, <2>4, KeyStay, ConnStay
<1>10. ASSUME NEW i \in ConnIds, ConnFails(i)
      PROVE  (SlotInv /\ KeyInv /\ ConnInv /\ SnapshotCurrent)'
  <2>1. SlotInv'
    BY ZenonT(60), <1>10, TaskFacts DEF ConnFails, taskVars, SlotInv, TaskTypeOK
  <2>2. /\ madeFor' = madeFor /\ nextSlot' = nextSlot /\ nextConn' = nextConn /\ dialled' = dialled
        /\ \A l \in Keys : conns'[l] \in {conns[l], 0}
        /\ \A r \in Slots : cached'[r] \in {cached[r], 0}
        /\ \A j \in ConnIds : conn'[j] \in {conn[j], "closed"}
    BY <1>10 DEF ConnFails, poolVars, PoolTypeOK, ConnTypeOK
  <2>3. /\ \A u \in RelayTasks : slot'[u] \in {slot[u], 0}
        /\ \A u \in RelayTasks : slot'[u] # 0 => key'[u] = key[u]
        /\ \A u \in RelayTasks : pc'[u] \in {"ready", "stream"} =>
              pc[u] \in {"ready", "stream"} /\ using'[u] = using[u] /\ key'[u] = key[u]
        /\ \A j \in ConnIds : pc'[Driver(j)] = pc[Driver(j)] /\ slot'[Driver(j)] = slot[Driver(j)]
    BY Zenon, <1>10, TaskFacts DEF ConnFails, taskVars, TaskTypeOK
  <2>4. SnapshotCurrent'
    BY <1>10 DEF ConnFails, poolVars, taskVars, SnapshotCurrent, PoolTypeOK
  <2>. QED
    BY ZenonT(60), <2>1, <2>2, <2>3, <2>4, KeyStay, ConnStay
<1>11. ASSUME NEW A \in SUBSET Keys, SetValidator(A)
      PROVE  (SlotInv /\ KeyInv /\ ConnInv /\ SnapshotCurrent)'
  <2>1. SlotInv'
    BY ZenonT(60), <1>11, TaskFacts DEF SetValidator, SlotInv, TaskTypeOK
  <2>2. /\ madeFor' = madeFor /\ nextSlot' = nextSlot /\ nextConn' = nextConn /\ dialled' = dialled
        /\ \A l \in Keys : conns'[l] \in {conns[l], 0}
        /\ \A r \in Slots : cached'[r] \in {cached[r], 0}
        /\ \A j \in ConnIds : conn'[j] \in {conn[j], "closed"}
    BY <1>11 DEF SetValidator, poolVars, connVars, PoolTypeOK, ConnTypeOK
  <2>3. /\ \A u \in RelayTasks : slot'[u] \in {slot[u], 0}
        /\ \A u \in RelayTasks : slot'[u] # 0 => key'[u] = key[u]
        /\ \A u \in RelayTasks : pc'[u] \in {"ready", "stream"} =>
              pc[u] \in {"ready", "stream"} /\ using'[u] = using[u] /\ key'[u] = key[u]
        /\ \A j \in ConnIds : pc'[Driver(j)] = pc[Driver(j)] /\ slot'[Driver(j)] = slot[Driver(j)]
    BY <1>11, TaskFacts DEF SetValidator, TaskTypeOK
  <2>4. SnapshotCurrent'
    BY <1>11 DEF SetValidator, poolVars, connVars, SnapshotCurrent, PoolTypeOK
  <2>. QED
    BY <2>1, <2>2, <2>3, <2>4, KeyStay, ConnStay, Zenon
<1>12. ASSUME NEW d \in IdleTimeouts, SetIdleTimeout(d)
      PROVE  (SlotInv /\ KeyInv /\ ConnInv /\ SnapshotCurrent)'
  <2>1. SlotInv'
    BY Zenon, <1>12, TaskFacts DEF SetIdleTimeout, taskVars, SlotInv, TaskTypeOK
  <2>2. /\ madeFor' = madeFor /\ nextSlot' = nextSlot /\ nextConn' = nextConn /\ dialled' = dialled
        /\ \A l \in Keys : conns'[l] \in {conns[l], 0}
        /\ \A r \in Slots : cached'[r] \in {cached[r], 0}
        /\ \A j \in ConnIds : conn'[j] \in {conn[j], "closed"}
    BY <1>12 DEF SetIdleTimeout, connVars, PoolTypeOK, ConnTypeOK
  <2>3. /\ \A u \in RelayTasks : slot'[u] \in {slot[u], 0}
        /\ \A u \in RelayTasks : slot'[u] # 0 => key'[u] = key[u]
        /\ \A u \in RelayTasks : pc'[u] \in {"ready", "stream"} =>
              pc[u] \in {"ready", "stream"} /\ using'[u] = using[u] /\ key'[u] = key[u]
        /\ \A j \in ConnIds : pc'[Driver(j)] = pc[Driver(j)] /\ slot'[Driver(j)] = slot[Driver(j)]
    BY <1>12, TaskFacts DEF SetIdleTimeout, taskVars, TaskTypeOK
  <2>4. SnapshotCurrent'
    BY <1>12 DEF SetIdleTimeout, connVars, taskVars, SnapshotCurrent, PoolTypeOK
  <2>. QED
    BY Zenon, <2>1, <2>2, <2>3, <2>4, KeyStay, ConnStay
<1>13. ASSUME PruneScan
      PROVE  (SlotInv /\ KeyInv /\ ConnInv /\ SnapshotCurrent)'
  <2>1. SlotInv'
    BY Zenon, <1>13, TaskFacts DEF PruneScan, StaleEntries, SlotInv, TaskTypeOK
  <2>2. /\ madeFor' = madeFor /\ nextSlot' = nextSlot /\ nextConn' = nextConn /\ dialled' = dialled
        /\ \A l \in Keys : conns'[l] \in {conns[l], 0}
        /\ \A r \in Slots : cached'[r] \in {cached[r], 0}
        /\ \A j \in ConnIds : conn'[j] \in {conn[j], "closed"}
    BY Zenon, <1>13 DEF PruneScan, StaleEntries, poolVars, connVars, PoolTypeOK, ConnTypeOK
  <2>3. /\ \A u \in RelayTasks : slot'[u] \in {slot[u], 0}
        /\ \A u \in RelayTasks : slot'[u] # 0 => key'[u] = key[u]
        /\ \A u \in RelayTasks : pc'[u] \in {"ready", "stream"} =>
              pc[u] \in {"ready", "stream"} /\ using'[u] = using[u] /\ key'[u] = key[u]
        /\ \A j \in ConnIds : pc'[Driver(j)] = pc[Driver(j)] /\ slot'[Driver(j)] = slot[Driver(j)]
    BY Zenon, <1>13, TaskFacts DEF PruneScan, StaleEntries, TaskTypeOK
  <2>4. SnapshotCurrent'
    BY <1>13 DEF PruneScan, StaleEntries, poolVars, connVars, SnapshotCurrent, PoolTypeOK
  <2>. QED
    BY Zenon, <2>1, <2>2, <2>3, <2>4, KeyStay, ConnStay
<1>14. ASSUME NEW k \in Keys, NEW s \in Slots, PruneRemove(k, s)
      PROVE  (SlotInv /\ KeyInv /\ ConnInv /\ SnapshotCurrent)'
  <2>1. SlotInv'
    BY ZenonT(60), <1>14, TaskFacts DEF PruneRemove, Remaining, Join, SlotInv, TaskTypeOK
  <2>2. /\ madeFor' = madeFor /\ nextSlot' = nextSlot /\ nextConn' = nextConn /\ dialled' = dialled
        /\ \A l \in Keys : conns'[l] \in {conns[l], 0}
        /\ \A r \in Slots : cached'[r] \in {cached[r], 0}
        /\ \A j \in ConnIds : conn'[j] \in {conn[j], "closed"}
    BY Zenon, <1>14 DEF PruneRemove, Remaining, connVars, PoolTypeOK, ConnTypeOK
  <2>3. /\ \A u \in RelayTasks : slot'[u] \in {slot[u], 0}
        /\ \A u \in RelayTasks : slot'[u] # 0 => key'[u] = key[u]
        /\ \A u \in RelayTasks : pc'[u] \in {"ready", "stream"} =>
              pc[u] \in {"ready", "stream"} /\ using'[u] = using[u] /\ key'[u] = key[u]
        /\ \A j \in ConnIds : pc'[Driver(j)] = pc[Driver(j)] /\ slot'[Driver(j)] = slot[Driver(j)]
    BY Zenon, <1>14, TaskFacts DEF PruneRemove, Remaining, Join, TaskTypeOK
  <2>4. SnapshotCurrent'
    <3>1. /\ \A p \in stale' : p \in stale /\ p # <<k, s>> /\ p = <<p[1], p[2]>> /\ p[1] \in Keys
          /\ \A l \in Keys \ {k} : conns'[l] = conns[l]
          /\ <<k, s>> \in stale
      BY SMTT(30), Zenon, <1>14 DEF PruneRemove, Remaining, PoolTypeOK, TaskTypeOK
    <3>2. conns[k] = s
      BY <3>1 DEF SnapshotCurrent
    <3>. QED
      BY <3>1, <3>2 DEF SnapshotCurrent
  <2>. QED
    BY Zenon, <2>1, <2>2, <2>3, <2>4, KeyStay, ConnStay
<1>15. ASSUME PruneClear
      PROVE  (SlotInv /\ KeyInv /\ ConnInv /\ SnapshotCurrent)'
  <2>1. SlotInv'
    BY Zenon, <1>15, TaskFacts DEF PruneClear, Holds, Release, SlotInv, TaskTypeOK
  <2>2. /\ madeFor' = madeFor /\ nextSlot' = nextSlot /\ nextConn' = nextConn /\ dialled' = dialled
        /\ \A l \in Keys : conns'[l] \in {conns[l], 0}
        /\ \A r \in Slots : cached'[r] \in {cached[r], 0}
        /\ \A j \in ConnIds : conn'[j] \in {conn[j], "closed"}
    BY Zenon, <1>15 DEF PruneClear, connVars, PoolTypeOK, ConnTypeOK
  <2>3. /\ \A u \in RelayTasks : slot'[u] \in {slot[u], 0}
        /\ \A u \in RelayTasks : slot'[u] # 0 => key'[u] = key[u]
        /\ \A u \in RelayTasks : pc'[u] \in {"ready", "stream"} =>
              pc[u] \in {"ready", "stream"} /\ using'[u] = using[u] /\ key'[u] = key[u]
        /\ \A j \in ConnIds : pc'[Driver(j)] = pc[Driver(j)] /\ slot'[Driver(j)] = slot[Driver(j)]
    BY ZenonT(60), <1>15, TaskFacts DEF PruneClear, Holds, Release, TaskTypeOK
  <2>4. SnapshotCurrent'
    BY <1>15 DEF PruneClear, connVars, SnapshotCurrent, PoolTypeOK
  <2>. QED
    BY ZenonT(60), <2>1, <2>2, <2>3, <2>4, KeyStay, ConnStay
<1>16. ASSUME PruneDone
      PROVE  (SlotInv /\ KeyInv /\ ConnInv /\ SnapshotCurrent)'
  <2>1. SlotInv'
    BY Zenon, <1>16, TaskFacts DEF PruneDone, SlotInv, TaskTypeOK
  <2>2. /\ madeFor' = madeFor /\ nextSlot' = nextSlot /\ nextConn' = nextConn /\ dialled' = dialled
        /\ \A l \in Keys : conns'[l] \in {conns[l], 0}
        /\ \A r \in Slots : cached'[r] \in {cached[r], 0}
        /\ \A j \in ConnIds : conn'[j] \in {conn[j], "closed"}
    BY Zenon, <1>16 DEF PruneDone, poolVars, connVars, PoolTypeOK, ConnTypeOK
  <2>3. /\ \A u \in RelayTasks : slot'[u] \in {slot[u], 0}
        /\ \A u \in RelayTasks : slot'[u] # 0 => key'[u] = key[u]
        /\ \A u \in RelayTasks : pc'[u] \in {"ready", "stream"} =>
              pc[u] \in {"ready", "stream"} /\ using'[u] = using[u] /\ key'[u] = key[u]
        /\ \A j \in ConnIds : pc'[Driver(j)] = pc[Driver(j)] /\ slot'[Driver(j)] = slot[Driver(j)]
    BY Zenon, <1>16, TaskFacts DEF PruneDone, TaskTypeOK
  <2>4. SnapshotCurrent'
    BY <1>16 DEF PruneDone, poolVars, connVars, SnapshotCurrent, PoolTypeOK
  <2>. QED
    BY <2>1, <2>2, <2>3, <2>4, KeyStay, ConnStay
<1>17. ASSUME IdleScan
      PROVE  (SlotInv /\ KeyInv /\ ConnInv /\ SnapshotCurrent)'
  <2>1. SlotInv'
    BY Zenon, <1>17, TaskFacts DEF IdleScan, SlotInv, TaskTypeOK
  <2>2. /\ madeFor' = madeFor /\ nextSlot' = nextSlot /\ nextConn' = nextConn /\ dialled' = dialled
        /\ \A l \in Keys : conns'[l] \in {conns[l], 0}
        /\ \A r \in Slots : cached'[r] \in {cached[r], 0}
        /\ \A j \in ConnIds : conn'[j] \in {conn[j], "closed"}
    BY Zenon, <1>17 DEF IdleScan, poolVars, connVars, PoolTypeOK, ConnTypeOK
  <2>3. /\ \A u \in RelayTasks : slot'[u] \in {slot[u], 0}
        /\ \A u \in RelayTasks : slot'[u] # 0 => key'[u] = key[u]
        /\ \A u \in RelayTasks : pc'[u] \in {"ready", "stream"} =>
              pc[u] \in {"ready", "stream"} /\ using'[u] = using[u] /\ key'[u] = key[u]
        /\ \A j \in ConnIds : pc'[Driver(j)] = pc[Driver(j)] /\ slot'[Driver(j)] = slot[Driver(j)]
    BY Zenon, <1>17, TaskFacts DEF IdleScan, TaskTypeOK
  <2>4. SnapshotCurrent'
    BY ZenonT(60), <1>17 DEF IdleScan, poolVars, connVars, SnapshotCurrent, PoolTypeOK
  <2>. QED
    BY <2>1, <2>2, <2>3, <2>4, KeyStay, ConnStay
<1>18. ASSUME NEW s \in Slots, IdleVisit(s)
      PROVE  (SlotInv /\ KeyInv /\ ConnInv /\ SnapshotCurrent)'
  <2>1. SlotInv'
    BY Zenon, <1>18, TaskFacts DEF IdleVisit, Join, SlotInv, TaskTypeOK
  <2>2. /\ madeFor' = madeFor /\ nextSlot' = nextSlot /\ nextConn' = nextConn /\ dialled' = dialled
        /\ \A l \in Keys : conns'[l] \in {conns[l], 0}
        /\ \A r \in Slots : cached'[r] \in {cached[r], 0}
        /\ \A j \in ConnIds : conn'[j] \in {conn[j], "closed"}
    BY <1>18 DEF IdleVisit, connVars, PoolTypeOK, ConnTypeOK
  <2>3. /\ \A u \in RelayTasks : slot'[u] \in {slot[u], 0}
        /\ \A u \in RelayTasks : slot'[u] # 0 => key'[u] = key[u]
        /\ \A u \in RelayTasks : pc'[u] \in {"ready", "stream"} =>
              pc[u] \in {"ready", "stream"} /\ using'[u] = using[u] /\ key'[u] = key[u]
        /\ \A j \in ConnIds : pc'[Driver(j)] = pc[Driver(j)] /\ slot'[Driver(j)] = slot[Driver(j)]
    BY Zenon, <1>18, TaskFacts DEF IdleVisit, Join, TaskTypeOK
  <2>4. SnapshotCurrent'
    BY <1>18 DEF IdleVisit, Join, connVars, SnapshotCurrent, PoolTypeOK
  <2>. QED
    BY Zenon, <2>1, <2>2, <2>3, <2>4, KeyStay, ConnStay
<1>19. ASSUME IdleClear
      PROVE  (SlotInv /\ KeyInv /\ ConnInv /\ SnapshotCurrent)'
  <2>1. SlotInv'
    BY Zenon, <1>19, TaskFacts DEF IdleClear, Holds, Release, SlotInv, TaskTypeOK
  <2>2. /\ madeFor' = madeFor /\ nextSlot' = nextSlot /\ nextConn' = nextConn /\ dialled' = dialled
        /\ \A l \in Keys : conns'[l] \in {conns[l], 0}
        /\ \A r \in Slots : cached'[r] \in {cached[r], 0}
        /\ \A j \in ConnIds : conn'[j] \in {conn[j], "closed"}
    BY Zenon, <1>19 DEF IdleClear, connVars, PoolTypeOK, ConnTypeOK
  <2>3. /\ \A u \in RelayTasks : slot'[u] \in {slot[u], 0}
        /\ \A u \in RelayTasks : slot'[u] # 0 => key'[u] = key[u]
        /\ \A u \in RelayTasks : pc'[u] \in {"ready", "stream"} =>
              pc[u] \in {"ready", "stream"} /\ using'[u] = using[u] /\ key'[u] = key[u]
        /\ \A j \in ConnIds : pc'[Driver(j)] = pc[Driver(j)] /\ slot'[Driver(j)] = slot[Driver(j)]
    BY Zenon, <1>19, TaskFacts DEF IdleClear, Holds, Release, TaskTypeOK
  <2>4. SnapshotCurrent'
    BY <1>19 DEF IdleClear, connVars, SnapshotCurrent, PoolTypeOK
  <2>. QED
    BY <2>1, <2>2, <2>3, <2>4, KeyStay, ConnStay
<1>20. ASSUME IdleDone
      PROVE  (SlotInv /\ KeyInv /\ ConnInv /\ SnapshotCurrent)'
  <2>1. SlotInv'
    BY Zenon, <1>20, TaskFacts DEF IdleDone, SlotInv, TaskTypeOK
  <2>2. /\ madeFor' = madeFor /\ nextSlot' = nextSlot /\ nextConn' = nextConn /\ dialled' = dialled
        /\ \A l \in Keys : conns'[l] \in {conns[l], 0}
        /\ \A r \in Slots : cached'[r] \in {cached[r], 0}
        /\ \A j \in ConnIds : conn'[j] \in {conn[j], "closed"}
    BY <1>20 DEF IdleDone, poolVars, connVars, PoolTypeOK, ConnTypeOK
  <2>3. /\ \A u \in RelayTasks : slot'[u] \in {slot[u], 0}
        /\ \A u \in RelayTasks : slot'[u] # 0 => key'[u] = key[u]
        /\ \A u \in RelayTasks : pc'[u] \in {"ready", "stream"} =>
              pc[u] \in {"ready", "stream"} /\ using'[u] = using[u] /\ key'[u] = key[u]
        /\ \A j \in ConnIds : pc'[Driver(j)] = pc[Driver(j)] /\ slot'[Driver(j)] = slot[Driver(j)]
    BY Zenon, <1>20, TaskFacts DEF IdleDone, TaskTypeOK
  <2>4. SnapshotCurrent'
    BY <1>20 DEF IdleDone, poolVars, connVars, SnapshotCurrent, PoolTypeOK
  <2>. QED
    BY <2>1, <2>2, <2>3, <2>4, KeyStay, ConnStay
<1>21. ASSUME Tick
      PROVE  (SlotInv /\ KeyInv /\ ConnInv /\ SnapshotCurrent)'
  <2>1. SlotInv'
    BY Zenon, <1>21, TaskFacts DEF Tick, taskVars, SlotInv, TaskTypeOK
  <2>2. /\ madeFor' = madeFor /\ nextSlot' = nextSlot /\ nextConn' = nextConn /\ dialled' = dialled
        /\ \A l \in Keys : conns'[l] \in {conns[l], 0}
        /\ \A r \in Slots : cached'[r] \in {cached[r], 0}
        /\ \A j \in ConnIds : conn'[j] \in {conn[j], "closed"}
    BY <1>21 DEF Tick, poolVars, connVars, PoolTypeOK, ConnTypeOK
  <2>3. /\ \A u \in RelayTasks : slot'[u] \in {slot[u], 0}
        /\ \A u \in RelayTasks : slot'[u] # 0 => key'[u] = key[u]
        /\ \A u \in RelayTasks : pc'[u] \in {"ready", "stream"} =>
              pc[u] \in {"ready", "stream"} /\ using'[u] = using[u] /\ key'[u] = key[u]
        /\ \A j \in ConnIds : pc'[Driver(j)] = pc[Driver(j)] /\ slot'[Driver(j)] = slot[Driver(j)]
    BY <1>21, TaskFacts DEF Tick, taskVars, TaskTypeOK
  <2>4. SnapshotCurrent'
    BY <1>21 DEF Tick, poolVars, connVars, taskVars, SnapshotCurrent, PoolTypeOK
  <2>. QED
    BY <2>1, <2>2, <2>3, <2>4, KeyStay, ConnStay
<1>22. ASSUME UNCHANGED vars
      PROVE  (SlotInv /\ KeyInv /\ ConnInv /\ SnapshotCurrent)'
  <2>1. SlotInv'
    BY Zenon, <1>22, TaskFacts DEF vars, taskVars, SlotInv, TaskTypeOK
  <2>2. /\ madeFor' = madeFor /\ nextSlot' = nextSlot /\ nextConn' = nextConn /\ dialled' = dialled
        /\ \A l \in Keys : conns'[l] \in {conns[l], 0}
        /\ \A r \in Slots : cached'[r] \in {cached[r], 0}
        /\ \A j \in ConnIds : conn'[j] \in {conn[j], "closed"}
    BY Zenon, <1>22 DEF vars, poolVars, connVars, PoolTypeOK, ConnTypeOK
  <2>3. /\ \A u \in RelayTasks : slot'[u] \in {slot[u], 0}
        /\ \A u \in RelayTasks : slot'[u] # 0 => key'[u] = key[u]
        /\ \A u \in RelayTasks : pc'[u] \in {"ready", "stream"} =>
              pc[u] \in {"ready", "stream"} /\ using'[u] = using[u] /\ key'[u] = key[u]
        /\ \A j \in ConnIds : pc'[Driver(j)] = pc[Driver(j)] /\ slot'[Driver(j)] = slot[Driver(j)]
    BY Zenon, <1>22, TaskFacts DEF vars, taskVars, TaskTypeOK
  <2>4. SnapshotCurrent'
    BY <1>22 DEF vars, poolVars, connVars, taskVars, SnapshotCurrent, PoolTypeOK
  <2>. QED
    BY <2>1, <2>2, <2>3, <2>4, KeyStay, ConnStay
<1>23. ASSUME OwnerMoves
       PROVE  (SlotInv /\ KeyInv /\ ConnInv /\ SnapshotCurrent)'
    BY <1>23, OwnerMoveStep
<1>. QED
    BY <1>1, <1>2, <1>3, <1>4, <1>5, <1>6, <1>7, <1>8, <1>9, <1>10, <1>11, <1>12, <1>13, <1>14, <1>15, <1>16, <1>17, <1>18, <1>19, <1>20, <1>21, <1>22, <1>23, Zenon
    DEF OwnerMoves, Next, RelayStep, RelayEnv, ConnUnused, DriverStep, ReloadStep, PrunerStep

-----------------------------------------------------------------------------
(* The theorems *)

\* The empty pool of GrpcPool::new satisfies the inductive invariant.
LEMMA InitInv == Init => IInv
<1> SUFFICES ASSUME Init PROVE IInv
    OBVIOUS
<1>1. PoolTypeOK
    BY BoundsAssumption DEF Init, PoolTypeOK
<1>2. ConnTypeOK /\ TimeTypeOK
    BY BoundsAssumption DEF Init, ConnTypeOK, TimeTypeOK
<1>3. TaskTypeOK
    BY BoundsAssumption DEF Init, TaskTypeOK, Pcs
<1>4. LockInv
    BY TaskFacts DEF Init, LockInv
<1>5. SlotInv
    BY Zenon, TaskFacts DEF Init, SlotInv
<1>6. KeyInv
    BY ZenonT(60), TaskFacts DEF Init, KeyInv
<1>7. ConnInv
    BY ZenonT(60), TaskFacts DEF Init, ConnInv, CachedHasDriver
<1>8. SnapshotCurrent
    BY DEF Init, SnapshotCurrent
<1>. QED
    BY <1>1, <1>2, <1>3, <1>4, <1>5, <1>6, <1>7, <1>8 DEF IInv, TypeOK

\* The inductive invariant holds in every reachable state of the pool.
THEOREM Invariance == Spec => []IInv
<1>1. Init => IInv
    BY InitInv
<1>2. IInv /\ [Next]_vars => IInv'
  <2> SUFFICES ASSUME IInv, [Next]_vars PROVE IInv'
    OBVIOUS
  <2>1. TypeOK'
    BY TypeStep DEF IInv
  <2>2. LockInv'
    BY LockStep DEF IInv
  <2>3. (SlotInv /\ KeyInv /\ ConnInv /\ SnapshotCurrent)'
    BY OwnerStep
  <2>. QED
    BY <2>1, <2>2, <2>3 DEF IInv
<1>. QED
    BY <1>1, <1>2, PTL DEF Spec

\* Every variable of the pool has its type, whatever its tasks do.
THEOREM TypeCorrect == Spec => []TypeOK
<1>1. IInv => TypeOK
    BY DEF IInv
<1>. QED
    BY <1>1, Invariance, PTL

\* However many relays ask for one endpoint at once, get_or_create never runs
\* two handshakes under one slot.
THEOREM OneHandshakePerSlot == Spec => []SingleHandshake
<1>1. IInv => SingleHandshake
  <2> SUFFICES ASSUME IInv, NEW t \in RelayTasks, pc[t] = "connect"
               PROVE  /\ lock[slot[t]] # <<>> /\ Head(lock[slot[t]]) = t
                      /\ cached[slot[t]] = 0
                      /\ \A u \in RelayTasks \ {t} : pc[u] = "connect" => slot[u] # slot[t]
    BY DEF SingleHandshake
  <2>1. slot[t] \in Slots
    BY ZenonT(60) DEF IInv, SlotInv
  <2>2. lock[slot[t]] \in Seq(Tasks)
    BY ZenonT(60), <2>1 DEF IInv, TypeOK, PoolTypeOK
  <2>3. lock[slot[t]] # <<>> /\ lock[slot[t]][1] = t /\ cached[slot[t]] = 0
    BY DEF IInv, LockInv
  <2>4. Head(lock[slot[t]]) = t
    BY <2>2, <2>3, TailFacts
  <2>5. \A u \in RelayTasks \ {t} : pc[u] = "connect" => slot[u] # slot[t]
    BY <2>3 DEF IInv, LockInv
  <2>. QED
    BY Zenon, <2>3, <2>4, <2>5
<1>. QED
    BY <1>1, Invariance, PTL

\* A connection in the pool always has a driver task that has still to clear it.
THEOREM DriversGuardTheCache == Spec => []CachedHasDriver
<1>1. IInv => CachedHasDriver
    BY DEF IInv, ConnInv
<1>. QED
    BY <1>1, Invariance, PTL

\* No relay is ever handed a connection to another endpoint.
THEOREM RelaysReachTheirEndpoint == Spec => []RightEndpoint
<1>1. IInv => RightEndpoint
    BY DEF IInv, KeyInv, RightEndpoint
<1>. QED
    BY <1>1, Invariance, PTL

\* prune_to_endpoints clears the slots it removes from the map, and no others.
THEOREM SnapshotStaysCurrent == Spec => []SnapshotCurrent
<1>1. IInv => SnapshotCurrent
    BY DEF IInv
<1>. QED
    BY <1>1, Invariance, PTL

\* A driver that runs late leaves the connection that replaced its own alone.
THEOREM DriversClearTheirOwn == Spec => DriverClearsOwn
<1> DEFINE D == \A i \in ConnIds, s \in Slots :
                   pc[Driver(i)] = "wait" /\ pc'[Driver(i)] = "done" /\ cached'[s] # cached[s]
                   => cached[s] = i /\ conn[i] = "closed"
<1>1. IInv /\ [Next]_vars => [D]_vars
  <2> SUFFICES ASSUME IInv, Next,
                      NEW i \in ConnIds, NEW s \in Slots,
                      pc[Driver(i)] = "wait", pc'[Driver(i)] = "done", cached'[s] # cached[s]
               PROVE  cached[s] = i /\ conn[i] = "closed"
    BY Zenon
  <2>1. conn[i] = "closed"
    BY DEF IInv, ConnInv
  <2>2. Driver(i) \in Tasks /\ Driver(i) \notin RelayTasks /\ Driver(i) # Reload /\ Driver(i) # Pruner
    BY TaskFacts
  <2>3. pc \in [Tasks -> Pcs] /\ cached \in [Slots -> 0..MaxConns]
    BY DEF IInv, TypeOK, TaskTypeOK, PoolTypeOK
  <2>4. ASSUME NEW t \in RelayTasks, RelayStep(t) \/ RelayEnv(t) PROVE FALSE
    <3>1. ASSUME NEW x, pc' = [pc EXCEPT ![t] = x] PROVE FALSE
      BY <2>2, <2>3, <3>1
    <3>2. ASSUME DialOk(t) PROVE FALSE
      <4>1. pc' = [pc EXCEPT ![t] = "ready", ![Driver(nextConn)] = "run"]
        BY <3>2 DEF DialOk
      <4>. QED
        BY <2>2, <2>3, <4>1
    <3>. QED
      BY <2>4, <3>1, <3>2, Zenon
         DEF RelayStep, RelayEnv, Match, Lookup, SlotFor, AskLock, Reuse, Dial, DialErr, ReadyOk,
             ReadyErr, ReadyErrAgain, StreamEnd, StreamBroken
  <2>5. ASSUME NEW j \in ConnIds, ConnFails(j) \/ ConnUnused(j) PROVE FALSE
    BY Zenon, <2>5 DEF ConnFails, ConnUnused, taskVars
  <2>6. ASSUME NEW j \in ConnIds, DriverWakes(j) PROVE FALSE
    BY Zenon, <2>2, <2>3, <2>6 DEF DriverWakes
  <2>7. ASSUME NEW j \in ConnIds, DriverClear(j) PROVE cached[s] = i
    <3>1. i = j
      <4>1. pc' = [pc EXCEPT ![Driver(j)] = "done"]
        BY ZenonT(60), <2>7 DEF DriverClear, Cleared
      <4>2. Driver(i) = Driver(j)
        BY <2>2, <2>3, <4>1
      <4>. QED
        BY Zenon, <4>2, TaskFacts
    <3>. QED
      BY Zenon, <2>3, <2>7, <3>1 DEF DriverClear, Cleared
  <2>8. ASSUME \/ ReloadStep \/ PrunerStep \/ IdleScan \/ Tick
               \/ \E A \in SUBSET Keys : SetValidator(A)
               \/ \E e \in IdleTimeouts : SetIdleTimeout(e)
        PROVE  FALSE
    BY Zenon, <2>2, <2>3, <2>8
       DEF ReloadStep, PruneScan, StaleEntries, PruneRemove, Remaining, PruneClear, PruneDone, PrunerStep, IdleVisit,
           IdleClear, IdleDone, IdleScan, Tick, SetValidator, SetIdleTimeout, taskVars
  <2>. QED
    BY Zenon, <2>1, <2>4, <2>5, <2>6, <2>7, <2>8 DEF Next, DriverStep
<1>2. Spec => [][D]_vars
    BY <1>1, Invariance, PTL DEF Spec
<1>. QED
    BY <1>2 DEF DriverClearsOwn

-----------------------------------------------------------------------------
(* Idle pruning *)

\* `now` is in the past, and a scan that runs has a timeout to compare with.
TimeInv ==
    /\ now <= clock
    /\ pc[Pruner] \in {"sweep", "wait"} => maxIdle \in Nat \ {0}

\* Only the pruner moves the pruner.
LEMMA PrunerMoves ==
    ASSUME TypeOK, Next, ~PrunerStep, ~IdleScan
    PROVE  pc'[Pruner] = pc[Pruner] /\ maxIdle' = maxIdle /\ now' = now
<1>1. pc \in [Tasks -> Pcs] /\ nextConn \in Nat
    BY BoundsAssumption DEF TypeOK, TaskTypeOK, PoolTypeOK
<1>2. ASSUME NEW u \in Tasks \ {Pruner}, NEW x, pc' = [pc EXCEPT ![u] = x]
      PROVE  pc'[Pruner] = pc[Pruner]
    BY <1>1, <1>2, TaskFacts
<1>3. ASSUME NEW t \in RelayTasks, RelayStep(t) \/ RelayEnv(t)
      PROVE  pc'[Pruner] = pc[Pruner] /\ UNCHANGED timeVars
  <2>1. t \in Tasks \ {Pruner}
    BY TaskFacts
  <2>2. ASSUME DialOk(t) PROVE pc'[Pruner] = pc[Pruner]
    <3>1. nextConn \in ConnIds
      BY <1>1, <2>2, BoundsAssumption DEF DialOk, TypeOK, PoolTypeOK, ConnIds
    <3>2. pc' = [pc EXCEPT ![t] = "ready", ![Driver(nextConn)] = "run"]
      BY <2>2 DEF DialOk
    <3>. QED
      BY <1>1, <2>1, <3>1, <3>2, TaskFacts
  <2>. QED
    BY <1>2, <1>3, <2>1, <2>2, Zenon
       DEF RelayStep, RelayEnv, Match, Lookup, SlotFor, AskLock, Reuse, Dial, DialOk, DialErr, ReadyOk,
           ReadyErr, ReadyErrAgain, StreamEnd, StreamBroken
<1>4. ASSUME NEW i \in ConnIds, ConnFails(i) \/ ConnUnused(i) \/ DriverStep(i)
      PROVE  pc'[Pruner] = pc[Pruner] /\ UNCHANGED timeVars
  <2>1. Driver(i) \in Tasks \ {Pruner}
    BY TaskFacts
  <2>. QED
    BY <1>2, <1>4, <2>1, Zenon DEF ConnFails, ConnUnused, DriverStep, DriverWakes, DriverClear, Cleared, taskVars
<1>5. ASSUME ReloadStep \/ \E A \in SUBSET Keys : SetValidator(A)
      PROVE  pc'[Pruner] = pc[Pruner] /\ UNCHANGED timeVars
  <2>1. Reload \in Tasks \ {Pruner}
    BY TaskFacts
  <2>. QED
    BY Zenon, <1>2, <1>5, <2>1
       DEF ReloadStep, PruneScan, StaleEntries, PruneRemove, Remaining, PruneClear, PruneDone, SetValidator
<1>6. ASSUME Tick \/ \E d \in IdleTimeouts : SetIdleTimeout(d)
      PROVE  pc'[Pruner] = pc[Pruner] /\ maxIdle' = maxIdle /\ now' = now
    BY <1>6 DEF Tick, SetIdleTimeout, taskVars, timeVars
<1>. QED
    BY Zenon, <1>3, <1>4, <1>5, <1>6 DEF Next, timeVars

\* Every step keeps the time prune_idle has read behind the clock, and its timeout
\* above zero while it sweeps.
LEMMA TimeStep == TypeOK /\ TimeInv /\ [Next]_vars => TimeInv'
<1> SUFFICES ASSUME TypeOK, TimeInv, [Next]_vars PROVE TimeInv'
    OBVIOUS
<1>1. clock \in Nat /\ now \in Nat /\ idleTimeout \in Nat /\ pc \in [Tasks -> Pcs]
    BY BoundsAssumption DEF TypeOK, TimeTypeOK, PoolTypeOK, TaskTypeOK
<1>2. clock' = clock \/ clock' = clock + 1
    BY ZenonT(60) DEF Next, RelayStep, RelayEnv, Match, Lookup, SlotFor, AskLock, Reuse, Dial, DialOk, DialErr,
           ReadyOk, ReadyErr, ReadyErrAgain, StreamEnd, StreamBroken, ConnFails,
           ConnUnused, DriverStep, DriverWakes, DriverClear, Cleared, SetValidator, SetIdleTimeout,
           ReloadStep, PruneScan, StaleEntries, PruneRemove, Remaining, PruneClear, PruneDone, PrunerStep, IdleVisit,
           IdleClear, IdleDone, IdleScan, Tick, vars, timeVars
<1>3. CASE IdleScan
  <2>1. now' = clock /\ clock' = clock /\ maxIdle' = idleTimeout /\ idleTimeout # 0
    BY Zenon, <1>3 DEF IdleScan
  <2>. QED
    BY ONLY <1>1, <2>1 DEF TimeInv
<1>4. CASE PrunerStep
  <2>1. pc[Pruner] \in {"sweep", "wait"} /\ maxIdle' = maxIdle /\ now' = now
    BY Zenon, <1>4 DEF PrunerStep, IdleVisit, IdleClear, IdleDone, Holds, timeVars
  <2>. QED
    BY <1>1, <1>2, <2>1 DEF TimeInv
<1>5. CASE Next /\ ~IdleScan /\ ~PrunerStep
  <2>1. pc'[Pruner] = pc[Pruner] /\ maxIdle' = maxIdle /\ now' = now
    BY Zenon, <1>5, PrunerMoves
  <2>. QED
    BY <1>1, <1>2, <2>1 DEF TimeInv
<1>6. CASE UNCHANGED vars
    BY <1>6 DEF vars, taskVars, timeVars, TimeInv
<1>. QED
    BY <1>3, <1>4, <1>5, <1>6

\* prune_idle closes no connection that was used within its timeout, although
\* it reads the time before it waits for the slot.
THEOREM IdlePruningSparesUsed == Spec => IdleClearsOnlyIdle
<1> DEFINE D == \A s \in Slots :
                   pc[Pruner] = "wait" /\ pc'[Pruner] = "sweep" /\ cached[s] # 0 /\ cached'[s] = 0
                   => lastUsed[s] + maxIdle <= clock
<1>1. Init => TimeInv
    BY TaskFacts DEF Init, TimeInv
<1>2. Spec => []TimeInv
    BY <1>1, TimeStep, TypeCorrect, PTL DEF Spec
<1>3. TypeOK /\ TimeInv /\ [Next]_vars => [D]_vars
  <2> SUFFICES ASSUME TypeOK, TimeInv, Next, NEW s \in Slots,
                      pc[Pruner] = "wait", pc'[Pruner] = "sweep", cached[s] # 0, cached'[s] = 0
               PROVE  lastUsed[s] + maxIdle <= clock
    OBVIOUS
  <2>1. /\ clock \in Nat /\ now \in Nat /\ now <= clock /\ maxIdle \in Nat \ {0}
        /\ lastUsed[s] \in Nat /\ cached \in [Slots -> 0..MaxConns]
    BY SMTT(30), Zenon, BoundsAssumption DEF TypeOK, TimeTypeOK, PoolTypeOK, TimeInv
  <2>2. IdleClear
    BY Zenon, PrunerMoves DEF PrunerStep, IdleVisit, IdleDone, IdleScan
  <2>3. s = slot[Pruner] /\ IdleFor(s) >= maxIdle
    BY <2>1, <2>2, Zenon DEF IdleClear
  <2>. QED
    BY <2>1, <2>3 DEF IdleFor
<1>4. Spec => [][D]_vars
    BY <1>2, <1>3, TypeCorrect, PTL DEF Spec
<1>. QED
    BY <1>4 DEF IdleClearsOnlyIdle
=============================================================================
