--------------------------- MODULE GrpcPoolLocks ----------------------------
(* The inductive invariant of GrpcPool, facts about its data, and the proofs *)
(* that its steps preserve the types and keep the lock queues in order.      *)
EXTENDS GrpcPool, Integers, TLAPS

-----------------------------------------------------------------------------
(* Facts about the data *)

\* The tasks that use the pool are all different.
LEMMA TaskFacts ==
    /\ RelayTasks \subseteq Tasks /\ DriverTasks \subseteq Tasks
    /\ Reload \in Tasks /\ Pruner \in Tasks /\ Reload # Pruner
    /\ Reload \notin RelayTasks /\ Reload \notin DriverTasks
    /\ Pruner \notin RelayTasks /\ Pruner \notin DriverTasks
    /\ \A i \in ConnIds : Driver(i) \in DriverTasks
    /\ \A i \in ConnIds : Driver(i) \in Tasks
    /\ \A i \in ConnIds : Driver(i) \notin RelayTasks
    /\ \A i \in ConnIds : Driver(i) # Reload /\ Driver(i) # Pruner
    /\ \A i, j \in ConnIds : Driver(i) = Driver(j) => i = j
    /\ \A t \in RelayTasks : t \notin DriverTasks
BY DEF Tasks, RelayTasks, DriverTasks, Reload, Pruner, Relay, Driver

\* What dropping the guard does to a queue.
LEMMA TailFacts ==
    ASSUME NEW S, NEW q \in Seq(S), q # <<>>
    PROVE  /\ Tail(q) \in Seq(S)
           /\ Head(q) = q[1]
           /\ Head(q) \in S
           /\ Len(q) \in Nat \ {0}
           /\ Len(Tail(q)) = Len(q) - 1
           /\ \A j \in 1..(Len(q) - 1) : Tail(q)[j] = q[j + 1]
OBVIOUS

\* What asking for the lock does to a queue.
LEMMA AppendFacts ==
    ASSUME NEW S, NEW q \in Seq(S), NEW t \in S
    PROVE  /\ Append(q, t) \in Seq(S)
           /\ Len(q) \in Nat
           /\ Len(Append(q, t)) = Len(q) + 1
           /\ \A j \in 1..Len(q) : Append(q, t)[j] = q[j]
           /\ Append(q, t)[Len(q) + 1] = t
OBVIOUS

-----------------------------------------------------------------------------
(* The inductive invariant *)

\* Whoever is in a queue waits for that slot or dials under it, nobody is in a
\* queue twice, and the relay that dials is first and has found the slot empty.
LockInv ==
    /\ \A s \in Slots : \A i \in 1..Len(lock[s]) :
          pc[lock[s][i]] \in {"wait", "connect"} /\ slot[lock[s][i]] = s
    /\ \A s \in Slots : \A i, j \in 1..Len(lock[s]) : lock[s][i] = lock[s][j] => i = j
    /\ \A t \in RelayTasks :
          pc[t] = "connect" =>
              lock[slot[t]] # <<>> /\ lock[slot[t]][1] = t /\ cached[slot[t]] = 0

\* Tasks that will use their slot have one, and a relay past its match has an
\* endpoint.
SlotInv ==
    /\ \A t \in RelayTasks :
          /\ pc[t] \in {"lock", "wait", "connect"} => slot[t] \in Slots
          /\ pc[t] = "start" => slot[t] = 0
          /\ pc[t] # "start" => key[t] \in Keys
    /\ \A i \in ConnIds : pc[Driver(i)] \in {"run", "wait"} => slot[Driver(i)] \in Slots
    /\ pc[Reload] = "wait" => slot[Reload] \in Slots
    /\ pc[Pruner] = "wait" => slot[Pruner] \in Slots

\* A slot belongs to the endpoint that made it: in the map, in the hands of a
\* relay, and by the connection it caches.
KeyInv ==
    /\ \A k \in Keys : conns[k] # 0 => conns[k] < nextSlot /\ madeFor[conns[k]] = k
    /\ \A t \in RelayTasks : slot[t] # 0 => slot[t] < nextSlot /\ madeFor[slot[t]] = key[t]
    /\ \A s \in Slots : cached[s] # 0 => s < nextSlot /\ dialled[cached[s]] = madeFor[s]
    /\ \A t \in RelayTasks : pc[t] \in {"ready", "stream"} =>
          using[t] \in ConnIds /\ using[t] < nextConn /\ dialled[using[t]] = key[t]

\* Connections are numbered as they are made, and a cached one has its driver.
ConnInv ==
    /\ \A i \in ConnIds : i >= nextConn => pc[Driver(i)] = "none"
    /\ \A i \in ConnIds : pc[Driver(i)] = "wait" => conn[i] = "closed"
    /\ \A s \in Slots : cached[s] # 0 => cached[s] < nextConn
    /\ CachedHasDriver

IInv == TypeOK /\ LockInv /\ SlotInv /\ KeyInv /\ ConnInv /\ SnapshotCurrent

-----------------------------------------------------------------------------
(* Every step keeps the types *)

\* Asking for a lock and dropping it keep the types of the queues and the Arcs.
LEMMA JoinType ==
    ASSUME PoolTypeOK, TaskTypeOK, NEW t \in Tasks, NEW s \in Slots, Join(t, s)
    PROVE  lock' \in [Slots -> Seq(Tasks)] /\ slot' \in [Tasks -> 0..MaxSlots]
<1>1. lock' \in [Slots -> Seq(Tasks)]
    BY AppendFacts DEF Join, PoolTypeOK
<1>2. s \in 0..MaxSlots
    BY BoundsAssumption DEF Slots
<1>. QED
    BY <1>1, <1>2 DEF Join, TaskTypeOK

\* Dropping the guard of a slot's mutex leaves a queue of tasks at every slot.
LEMMA ReleaseType ==
    ASSUME PoolTypeOK, TaskTypeOK, NEW t \in Tasks, slot[t] \in Slots,
           lock[slot[t]] # <<>>, Release(t)
    PROVE  lock' \in [Slots -> Seq(Tasks)] /\ slot' \in [Tasks -> 0..MaxSlots]
<1>1. lock' \in [Slots -> Seq(Tasks)]
    BY TailFacts DEF Release, PoolTypeOK
<1>2. 0 \in 0..MaxSlots
    BY BoundsAssumption
<1>. QED
    BY <1>1, <1>2 DEF Release, TaskTypeOK

\* A clock reading and None are values of the fields they are stored in.
LEMMA ZeroTypes ==
    0 \in 0..MaxSlots /\ 0 \in 0..MaxConns /\ 0 \in 0..MaxClock
BY BoundsAssumption

\* Every step of the pool keeps the variables within their types.
LEMMA TypeStep == TypeOK /\ LockInv /\ SlotInv /\ [Next]_vars => TypeOK'
<1> SUFFICES ASSUME TypeOK, LockInv, SlotInv, [Next]_vars
             PROVE  TypeOK'
    OBVIOUS
<1> USE DEF TypeOK
<1>1. ASSUME NEW t \in RelayTasks, NEW k \in Keys, Match(t, k) PROVE TypeOK'
  <2>1. PoolTypeOK' /\ ConnTypeOK' /\ TimeTypeOK'
    BY <1>1 DEF Match, poolVars, connVars, timeVars, PoolTypeOK, ConnTypeOK, TimeTypeOK
  <2>2. TaskTypeOK'
    BY Zenon, <1>1 DEF Match, TaskTypeOK, Pcs
  <2>. QED
    BY <2>1, <2>2
<1>2. ASSUME NEW t \in RelayTasks, Lookup(t) PROVE TypeOK'
  <2>1. ConnTypeOK' /\ TimeTypeOK'
    BY <1>2 DEF Lookup, SlotFor, connVars, timeVars, ConnTypeOK, TimeTypeOK
  <2>2. key[t] \in Keys
    BY <1>2 DEF Lookup, SlotFor, SlotInv
  <2>3. CASE conns[key[t]] # 0
    <3>1. PoolTypeOK'
      BY <1>2, <2>3 DEF Lookup, SlotFor, PoolTypeOK
    <3>2. TaskTypeOK'
      BY ZenonT(60), <1>2, <2>2, <2>3, TaskFacts DEF Lookup, SlotFor, PoolTypeOK, TaskTypeOK, Pcs
    <3>. QED
      BY <2>1, <3>1, <3>2
  <2>4. CASE conns[key[t]] = 0
    <3>1. nextSlot \in Slots /\ nextSlot \in 0..MaxSlots /\ nextSlot + 1 \in 1..(MaxSlots + 1)
      BY <1>2, <2>4, BoundsAssumption DEF Lookup, SlotFor, PoolTypeOK, Slots
    <3>2. PoolTypeOK'
      BY Zenon, <1>2, <2>2, <2>4, <3>1 DEF Lookup, SlotFor, PoolTypeOK
    <3>3. TaskTypeOK'
      BY <1>2, <2>4, <3>1, TaskFacts DEF Lookup, SlotFor, TaskTypeOK, Pcs
    <3>. QED
      BY <2>1, <3>2, <3>3
  <2>. QED
    BY <2>3, <2>4
<1>3. ASSUME NEW t \in RelayTasks, AskLock(t) PROVE TypeOK'
  <2>1. ConnTypeOK' /\ TimeTypeOK'
    BY <1>3 DEF AskLock, connVars, timeVars, ConnTypeOK, TimeTypeOK
  <2>2. t \in Tasks /\ slot[t] \in Slots
    BY <1>3, TaskFacts DEF AskLock, SlotInv
  <2>3. lock' \in [Slots -> Seq(Tasks)] /\ slot' \in [Tasks -> 0..MaxSlots]
    BY <1>3, <2>2, JoinType DEF AskLock
  <2>4. PoolTypeOK'
    BY <1>3, <2>3 DEF AskLock, PoolTypeOK
  <2>5. TaskTypeOK'
    BY Zenon, <1>3, <2>2, <2>3 DEF AskLock, TaskTypeOK, Pcs
  <2>. QED
    BY <2>1, <2>2, <2>3, <2>4, <2>5
<1>4. ASSUME NEW t \in RelayTasks, Reuse(t) PROVE TypeOK'
  <2>1. ConnTypeOK' /\ TimeTypeOK'
    BY <1>4 DEF Reuse, connVars, timeVars, ConnTypeOK, TimeTypeOK
  <2>2. t \in Tasks /\ slot[t] \in Slots /\ lock[slot[t]] # <<>>
    BY <1>4, TaskFacts DEF Reuse, Holds, SlotInv
  <2>3. lock' \in [Slots -> Seq(Tasks)] /\ slot' \in [Tasks -> 0..MaxSlots]
    BY <1>4, <2>2, ReleaseType DEF Reuse
  <2>4. PoolTypeOK'
    BY Zenon, <1>4, <2>2, <2>3 DEF Reuse, PoolTypeOK, TimeTypeOK
  <2>5. TaskTypeOK'
    BY Zenon, <1>4, <2>2, <2>3 DEF Reuse, PoolTypeOK, TaskTypeOK, Pcs
  <2>. QED
    BY <2>1, <2>2, <2>3, <2>4, <2>5
<1>5. ASSUME NEW t \in RelayTasks, Dial(t) PROVE TypeOK'
  <2>1. PoolTypeOK' /\ ConnTypeOK' /\ TimeTypeOK'
    BY <1>5 DEF Dial, poolVars, connVars, timeVars, PoolTypeOK, ConnTypeOK, TimeTypeOK
  <2>2. TaskTypeOK'
    BY <1>5, TaskFacts DEF Dial, TaskTypeOK, Pcs
  <2>. QED
    BY <2>1, <2>2
<1>6. ASSUME NEW t \in RelayTasks, DialOk(t) PROVE TypeOK'
  <2>1. TimeTypeOK'
    BY <1>6 DEF DialOk, timeVars, TimeTypeOK
  <2>2. t \in Tasks /\ slot[t] \in Slots /\ lock[slot[t]] # <<>> /\ key[t] \in Keys
    BY <1>6, TaskFacts DEF DialOk, SlotInv, LockInv
  <2>3. /\ nextConn \in ConnIds /\ nextConn \in 0..MaxConns
        /\ nextConn + 1 \in 1..(MaxConns + 1)
    BY <1>6, BoundsAssumption DEF DialOk, PoolTypeOK, ConnIds
  <2>4. Driver(nextConn) \in Tasks
    BY <2>3, TaskFacts
  <2>5. lock' \in [Slots -> Seq(Tasks)]
    BY <1>6, <2>2, TailFacts DEF DialOk, PoolTypeOK
  <2>6. PoolTypeOK'
    BY Zenon, <1>6, <2>2, <2>3, <2>5 DEF DialOk, PoolTypeOK, TimeTypeOK
  <2>7. ConnTypeOK'
    BY <1>6, <2>2, <2>3 DEF DialOk, ConnTypeOK
  <2>8. TaskTypeOK'
    BY Zenon, <1>6, <2>2, <2>3, <2>4, ZeroTypes DEF DialOk, TaskTypeOK, Pcs
  <2>. QED
    BY <2>1, <2>2, <2>3, <2>4, <2>5, <2>6, <2>7, <2>8
<1>7. ASSUME NEW t \in RelayTasks, DialErr(t) PROVE TypeOK'
  <2>1. ConnTypeOK' /\ TimeTypeOK'
    BY <1>7 DEF DialErr, connVars, timeVars, ConnTypeOK, TimeTypeOK
  <2>2. t \in Tasks /\ slot[t] \in Slots /\ lock[slot[t]] # <<>>
    BY <1>7, TaskFacts DEF DialErr, SlotInv, LockInv
  <2>3. lock' \in [Slots -> Seq(Tasks)] /\ slot' \in [Tasks -> 0..MaxSlots]
    BY Zenon, <1>7, <2>2, ReleaseType DEF DialErr
  <2>4. PoolTypeOK'
    BY Zenon, <1>7, <2>2, <2>3 DEF DialErr, PoolTypeOK, TimeTypeOK
  <2>5. TaskTypeOK'
    BY Zenon, <1>7, <2>2, <2>3, ZeroTypes DEF DialErr, PoolTypeOK, TaskTypeOK, Pcs
  <2>. QED
    BY <2>1, <2>2, <2>3, <2>4, <2>5
<1>8. ASSUME NEW t \in RelayTasks, ReadyOk(t) PROVE TypeOK'
  <2>1. PoolTypeOK' /\ ConnTypeOK' /\ TimeTypeOK'
    BY <1>8 DEF ReadyOk, poolVars, connVars, timeVars, PoolTypeOK, ConnTypeOK, TimeTypeOK
  <2>2. TaskTypeOK'
    BY <1>8, TaskFacts DEF ReadyOk, TaskTypeOK, Pcs
  <2>. QED
    BY <2>1, <2>2
<1>9. ASSUME NEW t \in RelayTasks, ReadyErr(t) PROVE TypeOK'
  <2>1. ConnTypeOK' /\ TimeTypeOK'
    BY <1>9 DEF ReadyErr, connVars, timeVars, ConnTypeOK, TimeTypeOK
  <2>2. key[t] \in Keys
    BY <1>9 DEF ReadyErr, SlotInv
  <2>3. PoolTypeOK'
    BY Zenon, <1>9, <2>2, ZeroTypes DEF ReadyErr, Evict, PoolTypeOK
  <2>4. TaskTypeOK'
    BY <1>9, TaskFacts, ZeroTypes DEF ReadyErr, TaskTypeOK, Pcs
  <2>. QED
    BY <2>1, <2>2, <2>3, <2>4
<1>10. ASSUME NEW t \in RelayTasks, ReadyErrAgain(t) PROVE TypeOK'
  <2>1. PoolTypeOK' /\ ConnTypeOK' /\ TimeTypeOK'
    BY <1>10 DEF ReadyErrAgain, poolVars, connVars, timeVars, PoolTypeOK, ConnTypeOK, TimeTypeOK
  <2>2. TaskTypeOK'
    BY <1>10, TaskFacts, ZeroTypes DEF ReadyErrAgain, TaskTypeOK, Pcs
  <2>. QED
    BY <2>1, <2>2
<1>11. ASSUME NEW t \in RelayTasks, StreamEnd(t) PROVE TypeOK'
  <2>1. PoolTypeOK' /\ ConnTypeOK' /\ TimeTypeOK'
    BY <1>11 DEF StreamEnd, poolVars, connVars, timeVars, PoolTypeOK, ConnTypeOK, TimeTypeOK
  <2>2. TaskTypeOK'
    BY <1>11, TaskFacts, ZeroTypes DEF StreamEnd, TaskTypeOK, Pcs
  <2>. QED
    BY <2>1, <2>2
<1>12. ASSUME NEW t \in RelayTasks, StreamBroken(t) PROVE TypeOK'
  <2>1. ConnTypeOK' /\ TimeTypeOK'
    BY <1>12 DEF StreamBroken, connVars, timeVars, ConnTypeOK, TimeTypeOK
  <2>2. key[t] \in Keys
    BY <1>12 DEF StreamBroken, SlotInv
  <2>3. PoolTypeOK'
    BY Zenon, <1>12, <2>2, ZeroTypes DEF StreamBroken, Evict, PoolTypeOK
  <2>4. TaskTypeOK'
    BY <1>12, TaskFacts, ZeroTypes DEF StreamBroken, TaskTypeOK, Pcs
  <2>. QED
    BY <2>1, <2>2, <2>3, <2>4
<1>13. ASSUME NEW i \in ConnIds, ConnFails(i) PROVE TypeOK'
  <2>1. PoolTypeOK' /\ TaskTypeOK' /\ TimeTypeOK'
    BY Zenon, <1>13 DEF ConnFails, poolVars, taskVars, timeVars, PoolTypeOK, TaskTypeOK, TimeTypeOK
  <2>2. ConnTypeOK'
    BY <1>13 DEF ConnFails, ConnTypeOK
  <2>. QED
    BY <2>1, <2>2
<1>14. ASSUME NEW i \in ConnIds, DriverWakes(i) PROVE TypeOK'
  <2>1. ConnTypeOK' /\ TimeTypeOK'
    BY <1>14 DEF DriverWakes, connVars, timeVars, ConnTypeOK, TimeTypeOK
  <2>2. Driver(i) \in Tasks /\ slot[Driver(i)] \in Slots
    BY <1>14, TaskFacts DEF DriverWakes, SlotInv
  <2>3. lock' \in [Slots -> Seq(Tasks)] /\ slot' \in [Tasks -> 0..MaxSlots]
    BY <1>14, <2>2, JoinType DEF DriverWakes
  <2>4. PoolTypeOK'
    BY <1>14, <2>3 DEF DriverWakes, PoolTypeOK
  <2>5. TaskTypeOK'
    BY Zenon, <1>14, <2>2, <2>3 DEF DriverWakes, TaskTypeOK, Pcs
  <2>. QED
    BY <2>1, <2>2, <2>3, <2>4, <2>5
<1>15. ASSUME NEW i \in ConnIds, DriverClear(i) PROVE TypeOK'
  <2>1. ConnTypeOK' /\ TimeTypeOK'
    BY <1>15 DEF DriverClear, Cleared, connVars, timeVars, ConnTypeOK, TimeTypeOK
  <2>2. Driver(i) \in Tasks /\ slot[Driver(i)] \in Slots /\ lock[slot[Driver(i)]] # <<>>
    BY <1>15, TaskFacts DEF DriverClear, Cleared, Holds, SlotInv
  <2>3. lock' \in [Slots -> Seq(Tasks)] /\ slot' \in [Tasks -> 0..MaxSlots]
    BY Zenon, <1>15, <2>2, ReleaseType DEF DriverClear, Cleared
  <2>4. PoolTypeOK'
    BY Zenon, <1>15, <2>2, <2>3, ZeroTypes DEF DriverClear, Cleared, PoolTypeOK, TimeTypeOK
  <2>5. TaskTypeOK'
    BY Zenon, <1>15, <2>2, <2>3 DEF DriverClear, Cleared, PoolTypeOK, TaskTypeOK, Pcs
  <2>. QED
    BY <2>1, <2>2, <2>3, <2>4, <2>5
<1>16. ASSUME NEW A \in SUBSET Keys, SetValidator(A) PROVE TypeOK'
  <2>1. PoolTypeOK' /\ ConnTypeOK' /\ TimeTypeOK'
    BY <1>16 DEF SetValidator, poolVars, connVars, timeVars, PoolTypeOK, ConnTypeOK, TimeTypeOK
  <2>2. TaskTypeOK'
    BY <1>16, TaskFacts DEF SetValidator, TaskTypeOK, Pcs
  <2>. QED
    BY <2>1, <2>2
<1>17. ASSUME NEW d \in IdleTimeouts, SetIdleTimeout(d) PROVE TypeOK'
  <2>1. ConnTypeOK' /\ TaskTypeOK' /\ TimeTypeOK'
    BY <1>17 DEF SetIdleTimeout, connVars, taskVars, timeVars, ConnTypeOK, TaskTypeOK, TimeTypeOK
  <2>2. PoolTypeOK'
    BY <1>17 DEF SetIdleTimeout, PoolTypeOK
  <2>. QED
    BY <2>1, <2>2
<1>18. ASSUME PruneScan PROVE TypeOK'
  <2>1. PoolTypeOK' /\ ConnTypeOK' /\ TimeTypeOK'
    BY Zenon, <1>18 DEF PruneScan, StaleEntries, poolVars, connVars, timeVars, PoolTypeOK, ConnTypeOK, TimeTypeOK
  <2>2. \A k \in Keys : conns[k] # 0 => conns[k] \in Slots
    BY BoundsAssumption DEF PoolTypeOK, Slots
  <2>3. stale' \in SUBSET (Keys \X Slots)
    BY <1>18, <2>2 DEF PruneScan, StaleEntries
  <2>4. TaskTypeOK'
    BY Zenon, <1>18, <2>3, TaskFacts DEF PruneScan, StaleEntries, TaskTypeOK, Pcs
  <2>. QED
    BY <2>1, <2>2, <2>3, <2>4
<1>19. ASSUME NEW k \in Keys, NEW s \in Slots, PruneRemove(k, s) PROVE TypeOK'
  <2>1. ConnTypeOK' /\ TimeTypeOK'
    BY <1>19 DEF PruneRemove, Remaining, connVars, timeVars, ConnTypeOK, TimeTypeOK
  <2>2. lock' \in [Slots -> Seq(Tasks)] /\ slot' \in [Tasks -> 0..MaxSlots]
    BY Zenon, <1>19, JoinType, TaskFacts DEF PruneRemove, Remaining, PoolTypeOK, TaskTypeOK
  <2>3. PoolTypeOK'
    BY Zenon, <1>19, <2>2, ZeroTypes DEF PruneRemove, Remaining, PoolTypeOK
  <2>4. TaskTypeOK'
    BY Zenon, <1>19, <2>2, TaskFacts DEF PruneRemove, Remaining, TaskTypeOK, Pcs
  <2>. QED
    BY <2>1, <2>2, <2>3, <2>4
<1>20. ASSUME PruneClear PROVE TypeOK'
  <2>1. ConnTypeOK' /\ TimeTypeOK'
    BY <1>20 DEF PruneClear, connVars, timeVars, ConnTypeOK, TimeTypeOK
  <2>2. Reload \in Tasks /\ slot[Reload] \in Slots /\ lock[slot[Reload]] # <<>>
    BY <1>20, TaskFacts DEF PruneClear, Holds, SlotInv
  <2>3. lock' \in [Slots -> Seq(Tasks)] /\ slot' \in [Tasks -> 0..MaxSlots]
    BY Zenon, <1>20, <2>2, ReleaseType DEF PruneClear
  <2>4. PoolTypeOK'
    BY Zenon, <1>20, <2>2, <2>3, ZeroTypes DEF PruneClear, PoolTypeOK, TimeTypeOK
  <2>5. TaskTypeOK'
    BY Zenon, <1>20, <2>2, <2>3 DEF PruneClear, PoolTypeOK, TaskTypeOK, Pcs
  <2>. QED
    BY <2>1, <2>2, <2>3, <2>4, <2>5
<1>21. ASSUME PruneDone PROVE TypeOK'
  <2>1. PoolTypeOK' /\ ConnTypeOK' /\ TimeTypeOK'
    BY <1>21 DEF PruneDone, poolVars, connVars, timeVars, PoolTypeOK, ConnTypeOK, TimeTypeOK
  <2>2. TaskTypeOK'
    BY <1>21, TaskFacts DEF PruneDone, TaskTypeOK, Pcs
  <2>. QED
    BY <2>1, <2>2
<1>22. ASSUME IdleScan PROVE TypeOK'
  <2>1. PoolTypeOK' /\ ConnTypeOK'
    BY <1>22 DEF IdleScan, poolVars, connVars, PoolTypeOK, ConnTypeOK
  <2>2. visit' \in SUBSET Slots
    BY <1>22, BoundsAssumption DEF IdleScan, PoolTypeOK, Slots
  <2>3. TaskTypeOK'
    BY <1>22, <2>2, TaskFacts DEF IdleScan, TaskTypeOK, Pcs
  <2>4. TimeTypeOK'
    BY Zenon, <1>22 DEF IdleScan, PoolTypeOK, TimeTypeOK
  <2>. QED
    BY <2>1, <2>2, <2>3, <2>4
<1>23. ASSUME NEW s \in Slots, IdleVisit(s) PROVE TypeOK'
  <2>1. ConnTypeOK' /\ TimeTypeOK'
    BY <1>23 DEF IdleVisit, connVars, timeVars, ConnTypeOK, TimeTypeOK
  <2>2. lock' \in [Slots -> Seq(Tasks)] /\ slot' \in [Tasks -> 0..MaxSlots]
    BY <1>23, JoinType, TaskFacts DEF IdleVisit
  <2>3. PoolTypeOK'
    BY <1>23, <2>2 DEF IdleVisit, PoolTypeOK
  <2>4. TaskTypeOK'
    BY Zenon, <1>23, <2>2, TaskFacts DEF IdleVisit, TaskTypeOK, Pcs
  <2>. QED
    BY <2>1, <2>2, <2>3, <2>4
<1>24. ASSUME IdleClear PROVE TypeOK'
  <2>1. ConnTypeOK' /\ TimeTypeOK'
    BY <1>24 DEF IdleClear, connVars, timeVars, ConnTypeOK, TimeTypeOK
  <2>2. Pruner \in Tasks /\ slot[Pruner] \in Slots /\ lock[slot[Pruner]] # <<>>
    BY Zenon, <1>24, TaskFacts DEF IdleClear, Holds, SlotInv
  <2>3. lock' \in [Slots -> Seq(Tasks)] /\ slot' \in [Tasks -> 0..MaxSlots]
    BY Zenon, <1>24, <2>2, ReleaseType DEF IdleClear
  <2>4. PoolTypeOK'
    BY Zenon, <1>24, <2>2, <2>3, ZeroTypes DEF IdleClear, PoolTypeOK, TimeTypeOK
  <2>5. TaskTypeOK'
    BY Zenon, <1>24, <2>2, <2>3 DEF IdleClear, PoolTypeOK, TaskTypeOK, Pcs
  <2>. QED
    BY <2>1, <2>2, <2>3, <2>4, <2>5
<1>25. ASSUME IdleDone PROVE TypeOK'
  <2>1. PoolTypeOK' /\ ConnTypeOK' /\ TimeTypeOK'
    BY <1>25 DEF IdleDone, poolVars, connVars, timeVars, PoolTypeOK, ConnTypeOK, TimeTypeOK
  <2>2. TaskTypeOK'
    BY <1>25, TaskFacts DEF IdleDone, TaskTypeOK, Pcs
  <2>. QED
    BY <2>1, <2>2
<1>26. ASSUME Tick PROVE TypeOK'
  <2>1. PoolTypeOK' /\ ConnTypeOK' /\ TaskTypeOK'
    BY Zenon, <1>26 DEF Tick, poolVars, connVars, taskVars, PoolTypeOK, ConnTypeOK, TaskTypeOK
  <2>2. TimeTypeOK'
    BY <1>26, BoundsAssumption DEF Tick, TimeTypeOK
  <2>. QED
    BY <2>1, <2>2
<1>27. CASE UNCHANGED vars
  <2>1. PoolTypeOK' /\ ConnTypeOK'
    BY <1>27 DEF vars, poolVars, connVars, PoolTypeOK, ConnTypeOK
  <2>2. TaskTypeOK' /\ TimeTypeOK'
    BY <1>27 DEF vars, taskVars, timeVars, TaskTypeOK, TimeTypeOK
  <2>. QED
    BY <2>1, <2>2
<1>. QED
    BY Zenon, <1>1, <1>2, <1>3, <1>4, <1>5, <1>6, <1>7, <1>8, <1>9, <1>10, <1>11, <1>12, <1>13, <1>14, <1>15, <1>16, <1>17, <1>18, <1>19, <1>20, <1>21, <1>22, <1>23, <1>24, <1>25, <1>26, <1>27
    DEF Next, RelayStep, RelayEnv, ConnUnused, DriverStep, ReloadStep, PrunerStep

-----------------------------------------------------------------------------
(* Every step keeps the lock discipline *)

\* A task at the end of a queue.
LEMMA LockJoin ==
    ASSUME TypeOK, LockInv, SlotInv,
           NEW t \in Tasks, NEW s \in Slots, Join(t, s),
           pc[t] \notin {"wait", "connect"}, pc' = [pc EXCEPT ![t] = "wait"],
           cached' = cached
    PROVE  LockInv'
<1> USE DEF TypeOK
<1>1. /\ \A u \in Tasks \ {t} : pc'[u] = pc[u] /\ slot'[u] = slot[u]
      /\ pc'[t] = "wait" /\ slot'[t] = s
    BY DEF Join, TaskTypeOK
<1>2. /\ \A r \in Slots : lock[r] \in Seq(Tasks)
      /\ \A r \in Slots \ {s} : lock'[r] = lock[r]
      /\ lock'[s] = Append(lock[s], t)
    BY DEF Join, PoolTypeOK
<1>3. \A r \in Slots : \A i \in 1..Len(lock[r]) : lock[r][i] \in Tasks \ {t}
    BY <1>2 DEF LockInv
<1>7. /\ \A r \in Slots : \A i, j \in 1..Len(lock[r]) : lock[r][i] = lock[r][j] => i = j
      /\ \A r \in Slots : \A i \in 1..Len(lock[r]) :
            pc[lock[r][i]] \in {"wait", "connect"} /\ slot[lock[r][i]] = r
    BY Zenon DEF LockInv
<1>8. /\ Len(lock[s]) \in Nat
      /\ Len(lock'[s]) = Len(lock[s]) + 1
      /\ \A l \in 1..Len(lock[s]) : lock'[s][l] = lock[s][l]
      /\ lock'[s][Len(lock[s]) + 1] = t
  <2>1. lock[s] \in Seq(Tasks)
    BY Zenon, <1>2
  <2>2. ASSUME NEW p \in Seq(Tasks)
        PROVE  /\ Len(p) \in Nat
               /\ Len(Append(p, t)) = Len(p) + 1
               /\ \A l \in 1..Len(p) : Append(p, t)[l] = p[l]
               /\ Append(p, t)[Len(p) + 1] = t
    BY ONLY <2>2, t \in Tasks, AppendFacts
  <2>3. lock'[s] = Append(lock[s], t)
    BY Zenon, <1>2
  <2>. QED
    BY Zenon, <2>1, <2>2, <2>3
<1>4. ASSUME NEW r \in Slots, NEW i \in 1..Len(lock'[r])
      PROVE  pc'[lock'[r][i]] \in {"wait", "connect"} /\ slot'[lock'[r][i]] = r
  <2>1. CASE r # s
    <3>1. i \in 1..Len(lock[r]) /\ lock'[r][i] = lock[r][i]
      BY Zenon, <1>2, <2>1
    <3>2. lock[r][i] \in Tasks \ {t}
      BY Zenon, <1>3, <3>1
    <3>3. pc[lock[r][i]] \in {"wait", "connect"} /\ slot[lock[r][i]] = r
      BY Zenon, <1>7, <3>1
    <3>4. pc'[lock[r][i]] = pc[lock[r][i]] /\ slot'[lock[r][i]] = slot[lock[r][i]]
      BY Zenon, <1>1, <3>2
    <3>. QED
      BY ONLY <3>1, <3>3, <3>4
  <2>2. CASE r = s /\ i = Len(lock[s]) + 1
    BY ZenonT(60), <1>1, <1>8, <2>2
  <2>3. CASE r = s /\ i \in 1..Len(lock[s])
    <3>1. lock'[r][i] = lock[r][i] /\ lock[r][i] \in Tasks \ {t}
      BY Zenon, <1>3, <1>8, <2>3
    <3>2. pc[lock[r][i]] \in {"wait", "connect"} /\ slot[lock[r][i]] = r
      BY Zenon, <1>7, <2>3
    <3>3. pc'[lock[r][i]] = pc[lock[r][i]] /\ slot'[lock[r][i]] = slot[lock[r][i]]
      BY Zenon, <1>1, <3>1
    <3>. QED
      BY ONLY <3>1, <3>2, <3>3
  <2>4. r = s => i = Len(lock[s]) + 1 \/ i \in 1..Len(lock[s])
    BY ONLY <1>4, <1>8
  <2>. QED
    BY Zenon, <2>1, <2>2, <2>3, <2>4
<1>5. ASSUME NEW r \in Slots, NEW i \in 1..Len(lock'[r]), NEW j \in 1..Len(lock'[r]),
             lock'[r][i] = lock'[r][j]
      PROVE  i = j
  <2>1. CASE r # s
    <3>1. lock'[r] = lock[r]
      BY Zenon, <1>2, <2>1
    <3>. QED
      BY ZenonT(60), <1>5, <1>7, <3>1
  <2>2. CASE r = s
    <3>1. CASE i \in 1..Len(lock[s]) /\ j \in 1..Len(lock[s])
      <4>1. lock'[r][i] = lock[r][i] /\ lock'[r][j] = lock[r][j]
        BY Zenon, <1>8, <2>2, <3>1
      <4>2. lock[r][i] = lock[r][j]
        BY Zenon, <1>5, <4>1
      <4>. QED
        BY Zenon, <1>7, <2>2, <3>1, <4>2
    <3>2. CASE i = Len(lock[s]) + 1 /\ j \in 1..Len(lock[s])
      BY ZenonT(60), <1>3, <1>5, <1>8, <2>2, <3>2
    <3>3. CASE j = Len(lock[s]) + 1 /\ i \in 1..Len(lock[s])
      BY ZenonT(60), <1>3, <1>5, <1>8, <2>2, <3>3
    <3>4. CASE i = Len(lock[s]) + 1 /\ j = Len(lock[s]) + 1
      BY Zenon, <3>4
    <3>5. /\ i = Len(lock[s]) + 1 \/ i \in 1..Len(lock[s])
          /\ j = Len(lock[s]) + 1 \/ j \in 1..Len(lock[s])
      BY ONLY <1>5, <1>8, <2>2
    <3>. QED
      BY Zenon, <3>1, <3>2, <3>3, <3>4, <3>5
  <2>. QED
    BY Zenon, <2>1, <2>2
<1>6. ASSUME NEW u \in RelayTasks, pc'[u] = "connect"
      PROVE  lock'[slot'[u]] # <<>> /\ lock'[slot'[u]][1] = u /\ cached'[slot'[u]] = 0
  <2>1. u \in Tasks /\ u # t
    BY <1>1, <1>6, TaskFacts
  <2>2. pc[u] = "connect" /\ slot'[u] = slot[u] /\ slot[u] \in Slots
    BY Zenon, <1>1, <1>6, <2>1 DEF SlotInv
  <2>3. lock[slot[u]] # <<>> /\ lock[slot[u]][1] = u /\ cached[slot[u]] = 0
    BY Zenon, <2>2 DEF LockInv
  <2>. QED
    BY SMTT(30), ZenonT(60), <1>2, <2>2, <2>3, AppendFacts
<1>. QED
    BY Zenon, <1>4, <1>5, <1>6 DEF LockInv

\* The holder drops its guard; it may have changed the slot.
LEMMA LockLeave ==
    ASSUME TypeOK, LockInv, SlotInv,
           NEW t \in Tasks, slot[t] \in Slots, lock[slot[t]] # <<>>, lock[slot[t]][1] = t,
           lock' = [lock EXCEPT ![slot[t]] = Tail(@)],
           pc'[t] \notin {"wait", "connect"},
           \A u \in Tasks \ {t} : pc[u] \in {"wait", "connect"} =>
               pc'[u] = pc[u] /\ slot'[u] = slot[u],
           \A u \in RelayTasks \ {t} : pc'[u] = "connect" => pc[u] = "connect",
           \A r \in Slots \ {slot[t]} : cached'[r] = cached[r]
    PROVE  LockInv'
<1> DEFINE s == slot[t]
           q == lock[s]
<1> USE DEF TypeOK
<1>1. /\ \A r \in Slots : lock[r] \in Seq(Tasks)
      /\ \A r \in Slots \ {s} : lock'[r] = lock[r]
      /\ lock'[s] = Tail(q)
    BY Zenon DEF PoolTypeOK
<1>2. /\ Len(q) \in Nat \ {0} /\ Len(lock'[s]) = Len(q) - 1
      /\ \A j \in 1..(Len(q) - 1) : lock'[s][j] = q[j + 1]
  <2>1. q \in Seq(Tasks) /\ q # <<>>
    BY <1>1
  <2>2. ASSUME NEW p \in Seq(Tasks), p # <<>>
        PROVE  /\ Len(p) \in Nat \ {0} /\ Len(Tail(p)) = Len(p) - 1
               /\ \A j \in 1..(Len(p) - 1) : Tail(p)[j] = p[j + 1]
    BY <2>2, TailFacts
  <2>3. /\ Len(q) \in Nat \ {0} /\ Len(Tail(q)) = Len(q) - 1
        /\ \A j \in 1..(Len(q) - 1) : Tail(q)[j] = q[j + 1]
    BY Zenon, <2>1, <2>2
  <2>. QED
    BY Zenon, <1>1, <2>3
<1>3. \A r \in Slots : \A i \in 1..Len(lock[r]) :
         (r # s \/ i # 1) => lock[r][i] \in Tasks \ {t}
  <2>1. ASSUME NEW r \in Slots, NEW i \in 1..Len(lock[r]), r # s \/ i # 1
        PROVE  lock[r][i] \in Tasks \ {t}
    <3>1. lock[r][i] \in Tasks
      BY <1>1
    <3>2. 1 \in 1..Len(q)
      BY ONLY <1>2
    <3>3. lock[r][i] # t
      <4>1. slot[lock[r][i]] = r
        BY Zenon DEF LockInv
      <4>2. CASE r # s
        BY Zenon, <4>1, <4>2
      <4>3. CASE r = s
        <5>1. \A a, b \in 1..Len(q) : q[a] = q[b] => a = b
          BY Zenon DEF LockInv
        <5>2. i \in 1..Len(q) /\ lock[r][i] = q[i] /\ q[1] = t
          BY Zenon, <4>3
        <5>. QED
          BY Zenon, <2>1, <3>2, <4>3, <5>1, <5>2
      <4>. QED
        BY Zenon, <4>2, <4>3
    <3>. QED
      BY Zenon, <3>1, <3>3
  <2>. QED
    BY Zenon, <2>1
<1>4. \A r \in Slots : \A i \in 1..Len(lock'[r]) :
         \E l \in 1..Len(lock[r]) : (r # s \/ l # 1) /\ lock'[r][i] = lock[r][l]
                                    /\ (r # s => l = i) /\ (r = s => l = i + 1)
  <2>1. ASSUME NEW i \in 1..Len(lock'[s])
        PROVE  i + 1 \in 1..Len(q) /\ i + 1 # 1 /\ lock'[s][i] = q[i + 1]
    BY ONLY <1>2, <2>1
  <2>2. ASSUME NEW r \in Slots, r # s, NEW i \in 1..Len(lock'[r])
        PROVE  i \in 1..Len(lock[r]) /\ lock'[r][i] = lock[r][i]
    BY Zenon, <1>1, <2>2
  <2>3. ASSUME NEW r \in Slots, NEW i \in 1..Len(lock'[r])
        PROVE  \E l \in 1..Len(lock[r]) : (r # s \/ l # 1) /\ lock'[r][i] = lock[r][l]
                                           /\ (r # s => l = i) /\ (r = s => l = i + 1)
    <3>1. CASE r = s
      <4>1. i + 1 \in 1..Len(lock[r]) /\ i + 1 # 1 /\ lock'[r][i] = lock[r][i + 1]
        BY Zenon, <2>1, <3>1
      <4>. QED
        BY Zenon, <3>1, <4>1
    <3>2. CASE r # s
      BY Zenon, <2>2, <3>2
    <3>. QED
      BY Zenon, <3>1, <3>2
  <2>. QED
    BY Zenon, <2>3
<1>5. ASSUME NEW r \in Slots, NEW i \in 1..Len(lock'[r])
      PROVE  pc'[lock'[r][i]] \in {"wait", "connect"} /\ slot'[lock'[r][i]] = r
  <2>1. PICK l \in 1..Len(lock[r]) : (r # s \/ l # 1) /\ lock'[r][i] = lock[r][l]
    BY Zenon, <1>4
  <2>2. lock[r][l] \in Tasks \ {t}
    BY Zenon, <1>3, <2>1
  <2>3. pc[lock[r][l]] \in {"wait", "connect"} /\ slot[lock[r][l]] = r
    BY ZenonT(60) DEF LockInv
  <2>4. pc'[lock[r][l]] = pc[lock[r][l]] /\ slot'[lock[r][l]] = slot[lock[r][l]]
    BY Zenon, <2>2, <2>3
  <2>. QED
    BY ONLY <2>1, <2>3, <2>4
<1>6. ASSUME NEW r \in Slots, NEW i \in 1..Len(lock'[r]), NEW j \in 1..Len(lock'[r]),
             lock'[r][i] = lock'[r][j]
      PROVE  i = j
  <2>1. PICK l \in 1..Len(lock[r]) : lock'[r][i] = lock[r][l] /\ (r # s => l = i) /\ (r = s => l = i + 1)
    BY ZenonT(60), <1>4
  <2>2. PICK k \in 1..Len(lock[r]) : lock'[r][j] = lock[r][k] /\ (r # s => k = j) /\ (r = s => k = j + 1)
    BY ZenonT(60), <1>4
  <2>3. l = k
    <3>1. lock[r][l] = lock[r][k]
      BY ZenonT(60), <1>6, <2>1, <2>2
    <3>2. \A a, b \in 1..Len(lock[r]) : lock[r][a] = lock[r][b] => a = b
      BY Zenon DEF LockInv
    <3>. QED
      BY Zenon, <3>1, <3>2
  <2>4. i \in Int /\ j \in Int
    BY ONLY i \in 1..Len(lock'[r]), j \in 1..Len(lock'[r])
  <2>. QED
    BY ONLY <2>1, <2>2, <2>3, <2>4
<1>7. ASSUME NEW u \in RelayTasks, pc'[u] = "connect"
      PROVE  lock'[slot'[u]] # <<>> /\ lock'[slot'[u]][1] = u /\ cached'[slot'[u]] = 0
  <2>1. u \in Tasks /\ u # t
    BY Zenon, <1>7, TaskFacts
  <2>2. pc[u] = "connect" /\ slot'[u] = slot[u] /\ slot[u] \in Slots
    BY <1>7, <2>1 DEF SlotInv
  <2>3. lock[slot[u]] # <<>> /\ lock[slot[u]][1] = u /\ cached[slot[u]] = 0
    BY Zenon, <2>2 DEF LockInv
  <2>4. slot[u] # s
    BY Zenon, <2>1, <2>3
  <2>5. lock'[slot[u]] = lock[slot[u]] /\ cached'[slot[u]] = cached[slot[u]]
    BY Zenon, <1>1, <2>2, <2>4
  <2>. QED
    BY Zenon, <2>2, <2>3, <2>5
<1>. QED
    BY <1>5, <1>6, <1>7, Zenon DEF LockInv

\* No queue changes, and nobody starts to dial.
LEMMA LockStay ==
    ASSUME TypeOK, LockInv, SlotInv, lock' = lock,
           \A u \in Tasks : pc[u] \in {"wait", "connect"} =>
               pc'[u] = pc[u] /\ slot'[u] = slot[u],
           \A u \in RelayTasks : pc'[u] = "connect" => pc[u] = "connect",
           \A s \in Slots : cached'[s] \in {cached[s], 0}
    PROVE  LockInv'
<1> USE DEF TypeOK
<1>1. \A s \in Slots : lock[s] \in Seq(Tasks)
    BY DEF PoolTypeOK
<1>2. \A s \in Slots : \A i \in 1..Len(lock[s]) : lock[s][i] \in Tasks
    BY <1>1
<1>3. \A u \in RelayTasks : pc'[u] = "connect" =>
         slot[u] \in Slots /\ slot'[u] = slot[u] /\ pc[u] = "connect"
    BY Zenon, TaskFacts DEF SlotInv
<1>4. \A s \in Slots : \A i \in 1..Len(lock'[s]) :
         pc'[lock'[s][i]] \in {"wait", "connect"} /\ slot'[lock'[s][i]] = s
  <2> SUFFICES ASSUME NEW s \in Slots, NEW i \in 1..Len(lock[s])
               PROVE  pc'[lock[s][i]] \in {"wait", "connect"} /\ slot'[lock[s][i]] = s
    OBVIOUS
  <2>1. lock[s][i] \in Tasks
    BY <1>2
  <2>2. pc[lock[s][i]] \in {"wait", "connect"} /\ slot[lock[s][i]] = s
    BY Zenon DEF LockInv
  <2>. QED
    BY Zenon, <2>1, <2>2
<1>5. \A s \in Slots : \A i, j \in 1..Len(lock'[s]) : lock'[s][i] = lock'[s][j] => i = j
    BY Zenon DEF LockInv
<1>6. ASSUME NEW u \in RelayTasks, pc'[u] = "connect"
      PROVE  lock'[slot'[u]] # <<>> /\ lock'[slot'[u]][1] = u /\ cached'[slot'[u]] = 0
  <2>1. slot[u] \in Slots /\ slot'[u] = slot[u] /\ pc[u] = "connect"
    BY <1>3, <1>6
  <2>2. lock[slot[u]] # <<>> /\ lock[slot[u]][1] = u /\ cached[slot[u]] = 0
    BY <2>1 DEF LockInv
  <2>. QED
    BY <2>1, <2>2
<1>. QED
    BY <1>4, <1>5, <1>6, Zenon DEF LockInv

\* Any step.
LEMMA LockStep == TypeOK /\ LockInv /\ SlotInv /\ ConnInv /\ [Next]_vars => LockInv'
<1> SUFFICES ASSUME TypeOK, LockInv, SlotInv, ConnInv, [Next]_vars
             PROVE  LockInv'
    BY Zenon
<1> USE DEF TypeOK
<1>1. ASSUME NEW t \in RelayTasks, NEW k \in Keys, Match(t, k) PROVE LockInv'
  <2>1. /\ \A u \in Tasks : pc[u] \in {"wait", "connect"} => pc'[u] = pc[u] /\ slot'[u] = slot[u]
        /\ \A u \in RelayTasks : pc'[u] = "connect" => pc[u] = "connect"
    BY <1>1, TaskFacts DEF Match, TaskTypeOK
  <2>2. lock' = lock /\ \A s \in Slots : cached'[s] \in {cached[s], 0}
    BY <1>1 DEF Match, PoolTypeOK, poolVars
  <2>. QED
    BY <2>1, <2>2, LockStay
<1>2. ASSUME NEW t \in RelayTasks, Lookup(t) PROVE LockInv'
  <2>1. /\ \A u \in Tasks : pc[u] \in {"wait", "connect"} => pc'[u] = pc[u] /\ slot'[u] = slot[u]
        /\ \A u \in RelayTasks : pc'[u] = "connect" => pc[u] = "connect"
    BY Zenon, <1>2, TaskFacts DEF Lookup, SlotFor, TaskTypeOK
  <2>2. lock' = lock /\ \A s \in Slots : cached'[s] \in {cached[s], 0}
    BY <1>2 DEF Lookup, SlotFor, PoolTypeOK
  <2>. QED
    BY <2>1, <2>2, LockStay
<1>3. ASSUME NEW t \in RelayTasks, ReadyOk(t) PROVE LockInv'
  <2>1. /\ \A u \in Tasks : pc[u] \in {"wait", "connect"} => pc'[u] = pc[u] /\ slot'[u] = slot[u]
        /\ \A u \in RelayTasks : pc'[u] = "connect" => pc[u] = "connect"
    BY <1>3, TaskFacts DEF ReadyOk, TaskTypeOK
  <2>2. lock' = lock /\ \A s \in Slots : cached'[s] \in {cached[s], 0}
    BY <1>3 DEF ReadyOk, PoolTypeOK, poolVars
  <2>. QED
    BY <2>1, <2>2, LockStay
<1>4. ASSUME NEW t \in RelayTasks, ReadyErr(t) PROVE LockInv'
  <2>1. /\ \A u \in Tasks : pc[u] \in {"wait", "connect"} => pc'[u] = pc[u] /\ slot'[u] = slot[u]
        /\ \A u \in RelayTasks : pc'[u] = "connect" => pc[u] = "connect"
    BY Zenon, <1>4, TaskFacts DEF ReadyErr, Evict, TaskTypeOK
  <2>2. lock' = lock /\ \A s \in Slots : cached'[s] \in {cached[s], 0}
    BY Zenon, <1>4 DEF ReadyErr, Evict, PoolTypeOK
  <2>. QED
    BY <2>1, <2>2, LockStay
<1>5. ASSUME NEW t \in RelayTasks, ReadyErrAgain(t) PROVE LockInv'
  <2>1. /\ \A u \in Tasks : pc[u] \in {"wait", "connect"} => pc'[u] = pc[u] /\ slot'[u] = slot[u]
        /\ \A u \in RelayTasks : pc'[u] = "connect" => pc[u] = "connect"
    BY <1>5, TaskFacts DEF ReadyErrAgain, TaskTypeOK
  <2>2. lock' = lock /\ \A s \in Slots : cached'[s] \in {cached[s], 0}
    BY <1>5 DEF ReadyErrAgain, PoolTypeOK, poolVars
  <2>. QED
    BY <2>1, <2>2, LockStay
<1>6. ASSUME NEW t \in RelayTasks, StreamEnd(t) PROVE LockInv'
  <2>1. /\ \A u \in Tasks : pc[u] \in {"wait", "connect"} => pc'[u] = pc[u] /\ slot'[u] = slot[u]
        /\ \A u \in RelayTasks : pc'[u] = "connect" => pc[u] = "connect"
    BY <1>6, TaskFacts DEF StreamEnd, TaskTypeOK
  <2>2. lock' = lock /\ \A s \in Slots : cached'[s] \in {cached[s], 0}
    BY <1>6 DEF StreamEnd, PoolTypeOK, poolVars
  <2>. QED
    BY <2>1, <2>2, LockStay
<1>7. ASSUME NEW t \in RelayTasks, StreamBroken(t) PROVE LockInv'
  <2>1. /\ \A u \in Tasks : pc[u] \in {"wait", "connect"} => pc'[u] = pc[u] /\ slot'[u] = slot[u]
        /\ \A u \in RelayTasks : pc'[u] = "connect" => pc[u] = "connect"
    BY Zenon, <1>7, TaskFacts DEF StreamBroken, Evict, TaskTypeOK
  <2>2. lock' = lock /\ \A s \in Slots : cached'[s] \in {cached[s], 0}
    BY Zenon, <1>7 DEF StreamBroken, Evict, PoolTypeOK
  <2>. QED
    BY <2>1, <2>2, LockStay
<1>8. ASSUME NEW A \in SUBSET Keys, SetValidator(A) PROVE LockInv'
  <2>1. /\ \A u \in Tasks : pc[u] \in {"wait", "connect"} => pc'[u] = pc[u] /\ slot'[u] = slot[u]
        /\ \A u \in RelayTasks : pc'[u] = "connect" => pc[u] = "connect"
        /\ lock' = lock /\ cached' = cached
    BY Zenon, <1>8, TaskFacts DEF SetValidator, TaskTypeOK, poolVars
  <2>. QED
    BY Zenon, <2>1, LockStay
<1>9. ASSUME PruneScan PROVE LockInv'
  <2>1. /\ \A u \in Tasks : pc[u] \in {"wait", "connect"} => pc'[u] = pc[u] /\ slot'[u] = slot[u]
        /\ \A u \in RelayTasks : pc'[u] = "connect" => pc[u] = "connect"
        /\ lock' = lock /\ cached' = cached
    BY <1>9, TaskFacts, Zenon DEF PruneScan, StaleEntries, TaskTypeOK, poolVars
  <2>. QED
    BY Zenon, <2>1, LockStay
<1>10. ASSUME PruneDone PROVE LockInv'
  <2>1. /\ \A u \in Tasks : pc[u] \in {"wait", "connect"} => pc'[u] = pc[u] /\ slot'[u] = slot[u]
        /\ \A u \in RelayTasks : pc'[u] = "connect" => pc[u] = "connect"
        /\ lock' = lock /\ cached' = cached
    BY Zenon, <1>10, TaskFacts DEF PruneDone, TaskTypeOK, poolVars
  <2>. QED
    BY ZenonT(60), <2>1, LockStay
<1>11. ASSUME IdleScan PROVE LockInv'
  <2>1. /\ \A u \in Tasks : pc[u] \in {"wait", "connect"} => pc'[u] = pc[u] /\ slot'[u] = slot[u]
        /\ \A u \in RelayTasks : pc'[u] = "connect" => pc[u] = "connect"
        /\ lock' = lock /\ cached' = cached
    BY Zenon, <1>11, TaskFacts DEF IdleScan, TaskTypeOK, poolVars
  <2>. QED
    BY <2>1, LockStay
<1>12. ASSUME IdleDone PROVE LockInv'
  <2>1. /\ \A u \in Tasks : pc[u] \in {"wait", "connect"} => pc'[u] = pc[u] /\ slot'[u] = slot[u]
        /\ \A u \in RelayTasks : pc'[u] = "connect" => pc[u] = "connect"
        /\ lock' = lock /\ cached' = cached
    BY <1>12, TaskFacts DEF IdleDone, TaskTypeOK, poolVars
  <2>. QED
    BY <2>1, LockStay
<1>13. ASSUME UNCHANGED <<pc, slot, lock, cached>> PROVE LockInv'
    BY <1>13, LockStay
<1>14. ASSUME NEW t \in RelayTasks, AskLock(t) PROVE LockInv'
    BY Zenon, <1>14, TaskFacts, LockJoin DEF AskLock, SlotInv
<1>15. ASSUME NEW i \in ConnIds, DriverWakes(i) PROVE LockInv'
    BY Zenon, <1>15, TaskFacts, LockJoin DEF DriverWakes, SlotInv
<1>16. ASSUME NEW k \in Keys, NEW s \in Slots, PruneRemove(k, s) PROVE LockInv'
  <2>1. CASE conns[k] # 0
    BY <1>16, <2>1, TaskFacts, LockJoin DEF PruneRemove, Remaining
  <2>2. CASE conns[k] = 0
    BY <1>16, <2>2, LockStay DEF PruneRemove, Remaining
  <2>. QED
    BY <2>1, <2>2
<1>17. ASSUME NEW s \in Slots, IdleVisit(s) PROVE LockInv'
    BY Zenon, <1>17, TaskFacts, LockJoin DEF IdleVisit
<1>18. ASSUME NEW t \in RelayTasks, Reuse(t) PROVE LockInv'
  <2>1. t \in Tasks /\ slot[t] \in Slots
    BY <1>18, TaskFacts, Zenon DEF Reuse, Holds, SlotInv
  <2>2. lock[slot[t]] # <<>> /\ lock[slot[t]] \in Seq(Tasks)
    BY <1>18, <2>1 DEF Reuse, Holds, PoolTypeOK
  <2>3. lock[slot[t]][1] = t
    <3>1. Head(lock[slot[t]]) = t
      BY Zenon, <1>18 DEF Reuse, Holds
    <3>. QED
      BY Zenon, <2>2, <3>1, TailFacts
  <2>4. lock' = [lock EXCEPT ![slot[t]] = Tail(@)]
    BY <1>18 DEF Reuse, Release
  <2>5. /\ pc'[t] \notin {"wait", "connect"}
        /\ \A u \in Tasks \ {t} : pc[u] \in {"wait", "connect"} => pc'[u] = pc[u] /\ slot'[u] = slot[u]
        /\ \A u \in RelayTasks \ {t} : pc'[u] = "connect" => pc[u] = "connect"
    BY Zenon, <1>18, <2>1, TaskFacts DEF Reuse, Release, TaskTypeOK
  <2>6. \A r \in Slots \ {slot[t]} : cached'[r] = cached[r]
    BY <1>18, <2>1 DEF Reuse, PoolTypeOK
  <2>. QED
    BY Zenon, <2>1, <2>2, <2>3, <2>4, <2>5, <2>6, LockLeave
<1>19. ASSUME NEW t \in RelayTasks, DialErr(t) PROVE LockInv'
  <2>1. t \in Tasks /\ slot[t] \in Slots
    BY Zenon, <1>19, TaskFacts DEF DialErr, Holds, SlotInv
  <2>2. lock[slot[t]] # <<>> /\ lock[slot[t]] \in Seq(Tasks)
    BY Zenon, <1>19, <2>1 DEF DialErr, Holds, PoolTypeOK, LockInv
  <2>3. lock[slot[t]][1] = t
    BY Zenon, <1>19, <2>1, <2>2 DEF DialErr, Holds, LockInv
  <2>4. lock' = [lock EXCEPT ![slot[t]] = Tail(@)]
    BY <1>19 DEF DialErr, Release
  <2>5. /\ pc'[t] \notin {"wait", "connect"}
        /\ \A u \in Tasks \ {t} : pc[u] \in {"wait", "connect"} => pc'[u] = pc[u] /\ slot'[u] = slot[u]
        /\ \A u \in RelayTasks \ {t} : pc'[u] = "connect" => pc[u] = "connect"
    BY Zenon, <1>19, <2>1, TaskFacts DEF DialErr, Release, TaskTypeOK
  <2>6. \A r \in Slots \ {slot[t]} : cached'[r] = cached[r]
    BY <1>19, <2>1 DEF DialErr, PoolTypeOK
  <2>. QED
    BY Zenon, <2>1, <2>2, <2>3, <2>4, <2>5, <2>6, LockLeave
<1>20. ASSUME NEW i \in ConnIds, DriverClear(i) PROVE LockInv'
  <2>1. Driver(i) \in Tasks /\ slot[Driver(i)] \in Slots
    BY Zenon, <1>20, TaskFacts DEF DriverClear, Cleared, Holds, SlotInv
  <2>2. lock[slot[Driver(i)]] # <<>> /\ lock[slot[Driver(i)]] \in Seq(Tasks)
    BY Zenon, <1>20, <2>1 DEF DriverClear, Cleared, Holds, PoolTypeOK
  <2>3. lock[slot[Driver(i)]][1] = Driver(i)
    <3>1. Head(lock[slot[Driver(i)]]) = Driver(i)
      BY Zenon, <1>20 DEF DriverClear, Holds
    <3>. QED
      BY Zenon, <2>2, <3>1, TailFacts
  <2>4. lock' = [lock EXCEPT ![slot[Driver(i)]] = Tail(@)]
    BY <1>20 DEF DriverClear, Cleared, Release
  <2>5. /\ pc'[Driver(i)] \notin {"wait", "connect"}
        /\ \A u \in Tasks \ {Driver(i)} : pc[u] \in {"wait", "connect"} => pc'[u] = pc[u] /\ slot'[u] = slot[u]
        /\ \A u \in RelayTasks \ {Driver(i)} : pc'[u] = "connect" => pc[u] = "connect"
    BY ZenonT(60), <1>20, <2>1, TaskFacts DEF DriverClear, Cleared, Release, TaskTypeOK
  <2>6. \A r \in Slots \ {slot[Driver(i)]} : cached'[r] = cached[r]
    BY <1>20, <2>1 DEF DriverClear, Cleared, PoolTypeOK
  <2>. QED
    BY Zenon, <2>1, <2>2, <2>3, <2>4, <2>5, <2>6, LockLeave
<1>21. ASSUME PruneClear PROVE LockInv'
  <2>1. Reload \in Tasks /\ slot[Reload] \in Slots
    BY Zenon, <1>21, TaskFacts DEF PruneClear, Holds, SlotInv
  <2>2. lock[slot[Reload]] # <<>> /\ lock[slot[Reload]] \in Seq(Tasks)
    BY <1>21, <2>1 DEF PruneClear, Holds, PoolTypeOK
  <2>3. lock[slot[Reload]][1] = Reload
    BY <1>21, <2>1, <2>2 DEF PruneClear, Holds
  <2>4. lock' = [lock EXCEPT ![slot[Reload]] = Tail(@)]
    BY <1>21 DEF PruneClear, Release
  <2>5. /\ pc'[Reload] \notin {"wait", "connect"}
        /\ \A u \in Tasks \ {Reload} : pc[u] \in {"wait", "connect"} => pc'[u] = pc[u] /\ slot'[u] = slot[u]
        /\ \A u \in RelayTasks \ {Reload} : pc'[u] = "connect" => pc[u] = "connect"
    BY Zenon, <1>21, <2>1, TaskFacts DEF PruneClear, Release, TaskTypeOK
  <2>6. \A r \in Slots \ {slot[Reload]} : cached'[r] = cached[r]
    BY <1>21, <2>1 DEF PruneClear, PoolTypeOK
  <2>. QED
    BY Zenon, <2>1, <2>2, <2>3, <2>4, <2>5, <2>6, LockLeave
<1>22. ASSUME IdleClear PROVE LockInv'
  <2>1. Pruner \in Tasks /\ slot[Pruner] \in Slots
    BY <1>22, TaskFacts, Zenon DEF IdleClear, Holds, SlotInv
  <2>2. lock[slot[Pruner]] # <<>> /\ lock[slot[Pruner]] \in Seq(Tasks)
    BY <1>22, <2>1 DEF IdleClear, Holds, PoolTypeOK
  <2>3. lock[slot[Pruner]][1] = Pruner
    <3>1. Head(lock[slot[Pruner]]) = Pruner
      BY Zenon, <1>22 DEF IdleClear, Holds
    <3>. QED
      BY Zenon, <2>2, <3>1, TailFacts
  <2>4. lock' = [lock EXCEPT ![slot[Pruner]] = Tail(@)]
    BY <1>22 DEF IdleClear, Release
  <2>5. /\ pc'[Pruner] \notin {"wait", "connect"}
        /\ \A u \in Tasks \ {Pruner} : pc[u] \in {"wait", "connect"} => pc'[u] = pc[u] /\ slot'[u] = slot[u]
        /\ \A u \in RelayTasks \ {Pruner} : pc'[u] = "connect" => pc[u] = "connect"
    BY Zenon, <1>22, <2>1, TaskFacts DEF IdleClear, Release, TaskTypeOK
  <2>6. \A r \in Slots \ {slot[Pruner]} : cached'[r] = cached[r]
    BY <1>22, <2>1 DEF IdleClear, PoolTypeOK
  <2>. QED
    BY Zenon, <2>1, <2>2, <2>3, <2>4, <2>5, <2>6, LockLeave
<1>23. ASSUME NEW t \in RelayTasks, DialOk(t) PROVE LockInv'
  <2>1. t \in Tasks /\ slot[t] \in Slots
    BY Zenon, <1>23, TaskFacts DEF DialOk, Holds, SlotInv
  <2>2. lock[slot[t]] # <<>> /\ lock[slot[t]] \in Seq(Tasks)
    BY Zenon, <1>23, <2>1 DEF DialOk, Holds, PoolTypeOK, LockInv
  <2>3. lock[slot[t]][1] = t
    BY Zenon, <1>23, <2>1, <2>2 DEF DialOk, Holds, LockInv
  <2>4. lock' = [lock EXCEPT ![slot[t]] = Tail(@)]
    BY <1>23 DEF DialOk, Release
  <2>5. /\ pc'[t] \notin {"wait", "connect"}
        /\ \A u \in Tasks \ {t} : pc[u] \in {"wait", "connect"} => pc'[u] = pc[u] /\ slot'[u] = slot[u]
        /\ \A u \in RelayTasks \ {t} : pc'[u] = "connect" => pc[u] = "connect"
    <3>1. nextConn \in ConnIds
      BY <1>23, BoundsAssumption DEF DialOk, PoolTypeOK, ConnIds
    <3>2. pc[Driver(nextConn)] = "none" /\ Driver(nextConn) \in Tasks
      BY <3>1, TaskFacts, BoundsAssumption DEF ConnInv, ConnIds
    <3>. QED
      BY Zenon, <1>23, <2>1, <3>1, <3>2, TaskFacts DEF DialOk, TaskTypeOK
  <2>6. \A r \in Slots \ {slot[t]} : cached'[r] = cached[r]
    BY Zenon, <1>23, <2>1 DEF DialOk, PoolTypeOK
  <2>. QED
    BY Zenon, <2>1, <2>2, <2>3, <2>4, <2>5, <2>6, LockLeave
<1>24. ASSUME NEW t \in RelayTasks, Dial(t) PROVE LockInv'
  <2>1. t \in Tasks /\ slot[t] \in Slots
    BY <1>24, TaskFacts, Zenon DEF Dial, Holds, SlotInv
  <2>2. lock[slot[t]] # <<>> /\ lock[slot[t]] \in Seq(Tasks) /\ Head(lock[slot[t]]) = t
    BY <1>24, <2>1 DEF Dial, Holds, PoolTypeOK
  <2>3. lock[slot[t]][1] = t
    BY <2>2
  <2>4. \A s \in Slots : \A j \in 1..Len(lock[s]) : lock[s][j] \in Tasks
    BY DEF PoolTypeOK
  <2>5. /\ lock' = lock /\ cached' = cached /\ slot' = slot
        /\ \A u \in Tasks \ {t} : pc'[u] = pc[u]
        /\ pc'[t] = "connect"
    BY <1>24, <2>1 DEF Dial, poolVars, TaskTypeOK
  <2>6. \A s \in Slots : \A i \in 1..Len(lock[s]) :
          pc'[lock[s][i]] \in {"wait", "connect"} /\ slot[lock[s][i]] = s
    <3>1. \A u \in Tasks : pc[u] \in {"wait", "connect"} => pc'[u] \in {"wait", "connect"}
      BY ONLY <2>5
    <3>. QED
      BY <2>4, <3>1, Zenon DEF LockInv
  <2>7. \A u \in RelayTasks : pc'[u] = "connect" =>
          lock[slot[u]] # <<>> /\ lock[slot[u]][1] = u /\ cached[slot[u]] = 0
    <3>1. cached[slot[t]] = 0
      BY <1>24 DEF Dial
    <3>2. \A u \in RelayTasks : u \in Tasks
      BY TaskFacts
    <3>. QED
      BY Zenon, <2>2, <2>3, <2>5, <3>1, <3>2 DEF LockInv
  <2>. QED
    BY ZenonT(30), <2>5, <2>6, <2>7 DEF LockInv
<1>25. ASSUME NEW i \in ConnIds, ConnFails(i) PROVE LockInv'
    BY <1>25, <1>13 DEF ConnFails, poolVars, taskVars
<1>26. ASSUME NEW d \in IdleTimeouts, SetIdleTimeout(d) PROVE LockInv'
    BY <1>26, <1>13 DEF SetIdleTimeout, taskVars
<1>27. ASSUME Tick PROVE LockInv'
    BY <1>27, <1>13 DEF Tick, poolVars, taskVars
<1>28. ASSUME UNCHANGED vars PROVE LockInv'
    BY <1>28, <1>13 DEF vars, poolVars, taskVars
<1>. QED
    BY <1>1, <1>2, <1>3, <1>4, <1>5, <1>6, <1>7, <1>8, <1>9, <1>10, <1>11, <1>12, <1>14, <1>15, <1>16, <1>17, <1>18, <1>19, <1>20, <1>21, <1>22, <1>23, <1>24, <1>25, <1>26, <1>27, <1>28, Zenon
    DEF Next, RelayStep, RelayEnv, ConnUnused, DriverStep, ReloadStep, PrunerStep
=============================================================================
