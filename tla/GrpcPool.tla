------------------------------ MODULE GrpcPool ------------------------------
(***************************************************************************)
(* The pool of upstream HTTP/2 connections (relay/transport/grpc.rs) and   *)
(* the tasks that use it: relays that open a tunnel                        *)
(* (relay/outbound/grpc.rs), one driver task per established connection,   *)
(* the reload that prunes endpoints that left the routing table, and the   *)
(* periodic idle pruner.                                                   *)
(*                                                                         *)
(* A slot is an Arc<Mutex<Option<PooledConn>>>.  It outlives its entry in  *)
(* `conns`: any task may still hold the Arc.  The tokio mutex is FIFO, so  *)
(* a lock is the sequence of the tasks that asked for it; the head holds   *)
(* it, and try_lock succeeds only when nobody holds or awaits it.          *)
(* Connection ids and slots are numbered from 1; 0 stands for None.        *)
(***************************************************************************)
EXTENDS Naturals, Sequences, FiniteSets

CONSTANTS Relays,       \* relay tasks; each opens one tunnel
          Keys,         \* endpoints (sni:addr)
          NoKey,        \* not yet matched, or never dialled
          MaxSlots,     \* bound on the slots ever created
          MaxConns,     \* bound on the connections ever dialled
          MaxClock,     \* bound on the clock
          IdleTimeouts  \* pool idle timeouts a configuration may set; 0 = None

ASSUME KeyAssumption == NoKey \notin Keys

ASSUME BoundsAssumption ==
    /\ MaxSlots \in Nat
    /\ MaxConns \in Nat
    /\ MaxClock \in Nat
    /\ IdleTimeouts \subseteq Nat
    /\ IdleTimeouts # {}

Slots   == 1..MaxSlots
ConnIds == 1..MaxConns

Relay(r)  == <<"relay", r>>
Driver(i) == <<"driver", i>>
Reload    == <<"reload", 0>>
Pruner    == <<"pruner", 0>>

RelayTasks  == {Relay(r) : r \in Relays}
DriverTasks == {Driver(i) : i \in ConnIds}
Tasks       == RelayTasks \cup DriverTasks \cup {Reload, Pruner}

VARIABLES
    \* the pool
    conns,        \* [Keys -> slot or 0]: the DashMap
    cached,       \* [Slots -> connection id or 0]: the Option in the mutex
    lastUsed,     \* [Slots -> clock]: last_used of the cached connection
    lock,         \* [Slots -> Seq(Tasks)]: the mutex, holder first
    madeFor,      \* [Slots -> key whose entry created the slot] (history)
    nextSlot, nextConn,
    idleTimeout,
    \* connections, outside the pool
    conn,         \* [ConnIds -> "none", "open" or "closed"]
    dialled,      \* [ConnIds -> key it was dialled for] (history)
    \* tasks
    pc,           \* [Tasks -> control state]
    slot,         \* [Tasks -> slot the task holds an Arc of, or 0]
    key,          \* [RelayTasks -> endpoint]
    using,        \* [RelayTasks -> connection whose SendRequest it has, or 0]
    retried,      \* [RelayTasks -> BOOLEAN]: in the second get_or_create
    active,       \* endpoints of the current validator
    stale,        \* <<key, slot>> pairs the reload still has to drop
    visit,        \* slots the idle scan still has to look at
    clock, now, maxIdle   \* time; `now` and `max_idle` of the idle scan

poolVars == <<conns, cached, lastUsed, lock, madeFor, nextSlot, nextConn, idleTimeout>>
connVars == <<conn, dialled>>
taskVars == <<pc, slot, key, using, retried, active, stale, visit>>
timeVars == <<clock, now, maxIdle>>
vars     == <<poolVars, connVars, taskVars, timeVars>>

-----------------------------------------------------------------------------
(* The slot mutex *)

\* (mutant) A lock that several tasks may hold at once.
HoldsShared(t) == pc[t] = "wait" /\ lock[slot[t]] # <<>>

Holds(t) == pc[t] = "wait" /\ lock[slot[t]] # <<>> /\ Head(lock[slot[t]]) = t

\* (mutant) The guard goes into the handle that is returned, and is never dropped.
ReleaseNever(t) ==
    /\ slot' = [slot EXCEPT ![t] = 0]
    /\ UNCHANGED lock

\* Dropping the guard passes the mutex on; the task's Arc goes with it.
Release(t) ==
    /\ lock' = [lock EXCEPT ![slot[t]] = Tail(@)]
    /\ slot' = [slot EXCEPT ![t] = 0]

\* slot.lock().await
Join(t, s) ==
    /\ lock' = [lock EXCEPT ![s] = Append(@, t)]
    /\ slot' = [slot EXCEPT ![t] = s]

-----------------------------------------------------------------------------
(* get_or_create and open_grpc_tunnel, run by a relay task *)

\* The relay has matched an upstream of the current validator.
Match(t, k) ==
    /\ pc[t] = "start"
    /\ k \in active
    /\ key' = [key EXCEPT ![t] = k]
    /\ pc' = [pc EXCEPT ![t] = "lookup"]
    /\ UNCHANGED <<poolVars, connVars, slot, using, retried, active, stale, visit, timeVars>>

\* (mutant) All endpoints share one entry.
SlotForAny(k) == IF nextSlot > 1 THEN 1 ELSE 0

SlotFor(k) == conns[k]

\* conns.entry(key).or_insert_with(..).clone()
Lookup(t) ==
    /\ pc[t] = "lookup"
    /\ IF SlotFor(key[t]) # 0
       THEN /\ slot' = [slot EXCEPT ![t] = SlotFor(key[t])]
            /\ UNCHANGED <<conns, madeFor, nextSlot>>
       ELSE /\ nextSlot <= MaxSlots
            /\ slot' = [slot EXCEPT ![t] = nextSlot]
            /\ conns' = [conns EXCEPT ![key[t]] = nextSlot]
            /\ madeFor' = [madeFor EXCEPT ![nextSlot] = key[t]]
            /\ nextSlot' = nextSlot + 1
    /\ pc' = [pc EXCEPT ![t] = "lock"]
    /\ UNCHANGED <<cached, lastUsed, lock, nextConn, idleTimeout, connVars,
                   key, using, retried, active, stale, visit, timeVars>>

AskLock(t) ==
    /\ pc[t] = "lock"
    /\ Join(t, slot[t])
    /\ pc' = [pc EXCEPT ![t] = "wait"]
    /\ UNCHANGED <<conns, cached, lastUsed, madeFor, nextSlot, nextConn, idleTimeout,
                   connVars, key, using, retried, active, stale, visit, timeVars>>

\* The slot has a connection: touch it and hand out a clone of its handle.
Reuse(t) ==
    /\ Holds(t)
    /\ cached[slot[t]] # 0
    /\ using' = [using EXCEPT ![t] = cached[slot[t]]]
    /\ lastUsed' = [lastUsed EXCEPT ![slot[t]] = clock]
    /\ Release(t)
    /\ pc' = [pc EXCEPT ![t] = "ready"]
    /\ UNCHANGED <<conns, cached, madeFor, nextSlot, nextConn, idleTimeout, connVars,
                   key, retried, active, stale, visit, timeVars>>

\* The slot is empty: dial, keeping the guard.
Dial(t) ==
    /\ Holds(t)
    /\ cached[slot[t]] = 0
    /\ pc' = [pc EXCEPT ![t] = "connect"]
    /\ UNCHANGED <<poolVars, connVars, slot, key, using, retried, active,
                   stale, visit, timeVars>>

\* connect_h2 succeeds: the driver is spawned, the slot filled, the guard
\* dropped; no await lies between the spawn and the store.  The id drawn
\* before dialling is only ever compared with other ids, so ids are counted
\* here, by established connection.
DialOk(t) ==
    /\ pc[t] = "connect"
    /\ nextConn <= MaxConns
    /\ nextConn' = nextConn + 1
    /\ conn' = [conn EXCEPT ![nextConn] = "open"]
    /\ dialled' = [dialled EXCEPT ![nextConn] = key[t]]
    /\ cached' = [cached EXCEPT ![slot[t]] = nextConn]
    /\ lastUsed' = [lastUsed EXCEPT ![slot[t]] = clock]
    /\ using' = [using EXCEPT ![t] = nextConn]
    /\ lock' = [lock EXCEPT ![slot[t]] = Tail(@)]
    /\ slot' = [slot EXCEPT ![t] = 0, ![Driver(nextConn)] = slot[t]]
    /\ pc' = [pc EXCEPT ![t] = "ready", ![Driver(nextConn)] = "run"]
    /\ UNCHANGED <<conns, madeFor, nextSlot, idleTimeout, key, retried, active,
                   stale, visit, timeVars>>

\* connect_h2 fails or one of its timeouts fires: the slot stays None.
DialErr(t) ==
    /\ pc[t] = "connect"
    /\ Release(t)
    /\ using' = [using EXCEPT ![t] = 0]
    /\ pc' = [pc EXCEPT ![t] = "done"]
    /\ UNCHANGED <<conns, cached, lastUsed, madeFor, nextSlot, nextConn, idleTimeout,
                   connVars, key, retried, active, stale, visit, timeVars>>

\* poll_ready on a live connection, then send_request: the tunnel is open.
ReadyOk(t) ==
    /\ pc[t] = "ready"
    /\ conn[using[t]] = "open"
    /\ pc' = [pc EXCEPT ![t] = "stream"]
    /\ UNCHANGED <<poolVars, connVars, slot, key, using, retried, active, stale, visit, timeVars>>

\* evict: by endpoint, and only if the slot's mutex is free at this instant.
Evict(k) ==
    cached' = IF conns[k] # 0 /\ lock[conns[k]] = <<>>
              THEN [cached EXCEPT ![conns[k]] = 0]
              ELSE cached

\* poll_ready on a dead connection: evict and call get_or_create once more.
ReadyErr(t) ==
    /\ pc[t] = "ready"
    /\ conn[using[t]] = "closed"
    /\ ~retried[t]
    /\ Evict(key[t])
    /\ retried' = [retried EXCEPT ![t] = TRUE]
    /\ pc' = [pc EXCEPT ![t] = "lookup"]
    /\ UNCHANGED <<conns, lastUsed, lock, madeFor, nextSlot, nextConn, idleTimeout,
                   connVars, slot, key, using, active, stale, visit, timeVars>>

\* "h2 not ready after reconnect": the relay fails.
ReadyErrAgain(t) ==
    /\ pc[t] = "ready"
    /\ conn[using[t]] = "closed"
    /\ retried[t]
    /\ using' = [using EXCEPT ![t] = 0]
    /\ pc' = [pc EXCEPT ![t] = "done"]
    /\ UNCHANGED <<poolVars, connVars, slot, key, retried, active, stale, visit, timeVars>>

\* The tunnel ends: a clean end, a stream error, or an error path that does
\* not look at the pool.
StreamEnd(t) ==
    /\ pc[t] = "stream"
    /\ using' = [using EXCEPT ![t] = 0]
    /\ pc' = [pc EXCEPT ![t] = "done"]
    /\ UNCHANGED <<poolVars, connVars, slot, key, retried, active, stale, visit, timeVars>>

\* The upload or the response headers end with a connection error, of the
\* upstream connection or, in the fast relay, of the client's own (Relay),
\* and the relay evicts its endpoint, whatever connection is cached there by now.
StreamBroken(t) ==
    /\ pc[t] = "stream"
    /\ Evict(key[t])
    /\ using' = [using EXCEPT ![t] = 0]
    /\ pc' = [pc EXCEPT ![t] = "done"]
    /\ UNCHANGED <<conns, lastUsed, lock, madeFor, nextSlot, nextConn, idleTimeout,
                   connVars, slot, key, retried, active, stale, visit, timeVars>>

-----------------------------------------------------------------------------
(* Connections and their driver tasks *)

\* The peer closes, or the transport fails. (external)
ConnFails(i) ==
    /\ conn[i] = "open"
    /\ conn' = [conn EXCEPT ![i] = "closed"]
    /\ UNCHANGED <<poolVars, dialled, taskVars, timeVars>>

\* h2 closes a connection once no handle and no stream of it is left. (external)
ConnUnused(i) ==
    /\ \A s \in Slots : cached[s] # i
    /\ \A t \in RelayTasks : using[t] # i
    /\ ConnFails(i)

\* connection.await returns in the driver, which asks for its slot.
DriverWakes(i) ==
    /\ pc[Driver(i)] = "run"
    /\ conn[i] = "closed"
    /\ Join(Driver(i), slot[Driver(i)])
    /\ pc' = [pc EXCEPT ![Driver(i)] = "wait"]
    /\ UNCHANGED <<conns, cached, lastUsed, madeFor, nextSlot, nextConn, idleTimeout, connVars,
                   key, using, retried, active, stale, visit, timeVars>>

\* (mutants) No id check; and no clearing.
ClearedAny(c, i)  == 0
ClearedNone(c, i) == c

Cleared(c, i) == IF c = i THEN 0 ELSE c

\* The driver has the lock: clear the slot if it still holds this connection.
DriverClear(i) ==
    LET d == Driver(i)
    IN  /\ Holds(d)
        /\ cached' = [cached EXCEPT ![slot[d]] = Cleared(@, i)]
        /\ Release(d)
        /\ pc' = [pc EXCEPT ![d] = "done"]
        /\ UNCHANGED <<conns, lastUsed, madeFor, nextSlot, nextConn, idleTimeout, connVars,
                       key, using, retried, active, stale, visit, timeVars>>

-----------------------------------------------------------------------------
(* A reload: the validator is replaced, then prune_to_endpoints runs *)

SetValidator(A) ==
    /\ pc[Reload] = "idle"
    /\ active' = A
    /\ pc' = [pc EXCEPT ![Reload] = "scan"]
    /\ UNCHANGED <<poolVars, connVars, slot, key, using, retried, stale, visit, timeVars>>

\* reload_full also sets the pool's idle timeout, before it sets the validator.
SetIdleTimeout(d) ==
    /\ pc[Reload] = "idle"
    /\ idleTimeout' = d
    /\ UNCHANGED <<conns, cached, lastUsed, lock, madeFor, nextSlot, nextConn, connVars,
                   taskVars, timeVars>>

StaleEntries == {<<k, conns[k]>> : k \in {k \in Keys \ active : conns[k] # 0}}

PruneScan ==
    /\ pc[Reload] = "scan"
    /\ stale' = StaleEntries
    /\ pc' = [pc EXCEPT ![Reload] = "sweep"]
    /\ UNCHANGED <<poolVars, connVars, slot, key, using, retried, active, visit, timeVars>>

\* (mutant) An entry stays in the list after its turn.
RemainingAll(p) == stale

Remaining(p) == stale \ {p}

\* conns.remove(&key), which drops whatever slot the key has now; then the
\* lock of the slot in the snapshot is awaited.
PruneRemove(k, s) ==
    /\ pc[Reload] = "sweep"
    /\ <<k, s>> \in stale
    /\ stale' = Remaining(<<k, s>>)
    /\ conns' = [conns EXCEPT ![k] = 0]
    /\ IF conns[k] # 0
       THEN Join(Reload, s) /\ pc' = [pc EXCEPT ![Reload] = "wait"]
       ELSE UNCHANGED <<lock, slot, pc>>
    /\ UNCHANGED <<cached, lastUsed, madeFor, nextSlot, nextConn, idleTimeout, connVars,
                   key, using, retried, active, visit, timeVars>>

PruneClear ==
    /\ Holds(Reload)
    /\ cached' = [cached EXCEPT ![slot[Reload]] = 0]
    /\ Release(Reload)
    /\ pc' = [pc EXCEPT ![Reload] = "sweep"]
    /\ UNCHANGED <<conns, lastUsed, madeFor, nextSlot, nextConn, idleTimeout, connVars,
                   key, using, retried, active, stale, visit, timeVars>>

PruneDone ==
    /\ pc[Reload] = "sweep"
    /\ stale = {}
    /\ pc' = [pc EXCEPT ![Reload] = "idle"]
    /\ UNCHANGED <<poolVars, connVars, slot, key, using, retried, active,
                   stale, visit, timeVars>>

-----------------------------------------------------------------------------
(* prune_idle, on its own timer *)

Tick ==
    /\ clock < MaxClock
    /\ clock' = clock + 1
    /\ UNCHANGED <<poolVars, connVars, taskVars, now, maxIdle>>

\* `now` is read once, before any slot is locked.
IdleScan ==
    /\ pc[Pruner] = "idle"
    /\ idleTimeout # 0
    /\ maxIdle' = idleTimeout
    /\ now' = clock
    /\ visit' = {conns[k] : k \in Keys} \ {0}
    /\ pc' = [pc EXCEPT ![Pruner] = "sweep"]
    /\ UNCHANGED <<poolVars, connVars, slot, key, using, retried, active, stale, clock>>

IdleVisit(s) ==
    /\ pc[Pruner] = "sweep"
    /\ s \in visit
    /\ visit' = visit \ {s}
    /\ Join(Pruner, s)
    /\ pc' = [pc EXCEPT ![Pruner] = "wait"]
    /\ UNCHANGED <<conns, cached, lastUsed, madeFor, nextSlot, nextConn, idleTimeout, connVars, key, using, retried, active, stale, timeVars>>

\* (mutant) The distance to last_used, in either direction.
IdleForAbs(s) == IF lastUsed[s] > now THEN lastUsed[s] - now ELSE now - lastUsed[s]

\* duration_since saturates at zero for a connection used after `now`.
IdleFor(s) == IF lastUsed[s] > now THEN 0 ELSE now - lastUsed[s]

IdleClear ==
    LET s == slot[Pruner]
    IN  /\ Holds(Pruner)
        /\ cached' = [cached EXCEPT ![s] = IF IdleFor(s) >= maxIdle THEN 0 ELSE @]
        /\ Release(Pruner)
        /\ pc' = [pc EXCEPT ![Pruner] = "sweep"]
        /\ UNCHANGED <<conns, lastUsed, madeFor, nextSlot, nextConn, idleTimeout, connVars,
                       key, using, retried, active, stale, visit, timeVars>>

IdleDone ==
    /\ pc[Pruner] = "sweep"
    /\ visit = {}
    /\ pc' = [pc EXCEPT ![Pruner] = "idle"]
    /\ UNCHANGED <<poolVars, connVars, slot, key, using, retried, active,
                   stale, visit, timeVars>>

-----------------------------------------------------------------------------
Init ==
    /\ conns = [k \in Keys |-> 0]
    /\ cached = [s \in Slots |-> 0]
    /\ lastUsed = [s \in Slots |-> 0]
    /\ lock = [s \in Slots |-> <<>>]
    /\ madeFor = [s \in Slots |-> NoKey]
    /\ nextSlot = 1
    /\ nextConn = 1
    /\ idleTimeout \in IdleTimeouts
    /\ conn = [i \in ConnIds |-> "none"]
    /\ dialled = [i \in ConnIds |-> NoKey]
    /\ pc = [t \in Tasks |-> IF t \in RelayTasks THEN "start"
                             ELSE IF t \in DriverTasks THEN "none" ELSE "idle"]
    /\ slot = [t \in Tasks |-> 0]
    /\ key = [t \in RelayTasks |-> NoKey]
    /\ using = [t \in RelayTasks |-> 0]
    /\ retried = [t \in RelayTasks |-> FALSE]
    /\ active \in SUBSET Keys
    /\ stale = {}
    /\ visit = {}
    /\ clock = 0
    /\ now = 0
    /\ maxIdle = 0

\* What a relay task does by itself, and what may befall it.
RelayStep(t) ==
    \/ Lookup(t) \/ AskLock(t) \/ Reuse(t) \/ Dial(t) \/ DialOk(t) \/ DialErr(t)
    \/ ReadyErr(t) \/ ReadyErrAgain(t)

RelayEnv(t) ==
    \/ \E k \in Keys : Match(t, k)
    \/ ReadyOk(t) \/ StreamEnd(t) \/ StreamBroken(t)

DriverStep(i) == DriverWakes(i) \/ DriverClear(i)

ReloadStep ==
    \/ PruneScan \/ PruneClear \/ PruneDone
    \/ \E k \in Keys, s \in Slots : PruneRemove(k, s)

PrunerStep == IdleClear \/ IdleDone \/ \E s \in Slots : IdleVisit(s)

Next ==
    \/ \E t \in RelayTasks : RelayStep(t) \/ RelayEnv(t)
    \/ \E i \in ConnIds : ConnFails(i) \/ ConnUnused(i) \/ DriverStep(i)
    \/ \E A \in SUBSET Keys : SetValidator(A)
    \/ \E d \in IdleTimeouts : SetIdleTimeout(d)
    \/ ReloadStep
    \/ PrunerStep \/ IdleScan \/ Tick

\* Spawned tasks are polled, and connect_h2 ends within its three timeouts.
Fairness ==
    /\ \A t \in RelayTasks : WF_vars(RelayStep(t))
    /\ \A i \in ConnIds : WF_vars(DriverStep(i)) /\ WF_vars(ConnUnused(i))
    /\ WF_vars(ReloadStep)
    /\ WF_vars(PrunerStep)

Spec     == Init /\ [][Next]_vars
FairSpec == Spec /\ Fairness

-----------------------------------------------------------------------------
(* Properties *)

Pcs == {"start", "lookup", "lock", "wait", "connect", "ready", "stream", "done",
        "none", "run", "idle", "scan", "sweep"}

PoolTypeOK ==
    /\ conns \in [Keys -> 0..MaxSlots]
    /\ cached \in [Slots -> 0..MaxConns]
    /\ lastUsed \in [Slots -> 0..MaxClock]
    /\ lock \in [Slots -> Seq(Tasks)]
    /\ madeFor \in [Slots -> Keys \cup {NoKey}]
    /\ nextSlot \in 1..(MaxSlots + 1)
    /\ nextConn \in 1..(MaxConns + 1)
    /\ idleTimeout \in IdleTimeouts

ConnTypeOK ==
    /\ conn \in [ConnIds -> {"none", "open", "closed"}]
    /\ dialled \in [ConnIds -> Keys \cup {NoKey}]

TaskTypeOK ==
    /\ pc \in [Tasks -> Pcs]
    /\ slot \in [Tasks -> 0..MaxSlots]
    /\ key \in [RelayTasks -> Keys \cup {NoKey}]
    /\ using \in [RelayTasks -> 0..MaxConns]
    /\ retried \in [RelayTasks -> BOOLEAN]
    /\ active \in SUBSET Keys
    /\ stale \in SUBSET (Keys \X Slots)
    /\ visit \in SUBSET Slots

TimeTypeOK ==
    /\ clock \in 0..MaxClock
    /\ now \in 0..MaxClock
    /\ maxIdle \in IdleTimeouts \cup {0}

\* Every variable of the pool, of its connections and of its tasks has its type.
TypeOK == PoolTypeOK /\ ConnTypeOK /\ TaskTypeOK /\ TimeTypeOK

\* Bursts that find the same slot share a single handshake: no two relays dial
\* under one slot, and the relay that dials is the holder of its slot's mutex.
SingleHandshake ==
    \A t \in RelayTasks :
        pc[t] = "connect" =>
            /\ lock[slot[t]] # <<>> /\ Head(lock[slot[t]]) = t
            /\ cached[slot[t]] = 0
            /\ \A u \in RelayTasks \ {t} : pc[u] = "connect" => slot[u] # slot[t]

\* A cached connection always has its driver, which has not yet looked at the
\* slot: nothing that dies in the pool can stay there unnoticed.
CachedHasDriver ==
    \A s \in Slots :
        cached[s] # 0 =>
            /\ slot[Driver(cached[s])] = s
            /\ pc[Driver(cached[s])] \in {"run", "wait"}

\* A relay is only ever handed a connection dialled for its own endpoint,
\* whatever pruning and re-insertion did to the map in between.
RightEndpoint ==
    \A t \in RelayTasks :
        pc[t] \in {"ready", "stream"} => dialled[using[t]] = key[t]

\* The driver of an old connection that runs late never clears the slot of the
\* connection that replaced it (the id check in connect_h2).
DriverClearsOwn ==
    [][\A i \in ConnIds, s \in Slots :
          pc[Driver(i)] = "wait" /\ pc'[Driver(i)] = "done" /\ cached'[s] # cached[s]
          => cached[s] = i /\ conn[i] = "closed"]_vars

\* What prune_idle closes has really been unused for the timeout when it
\* closes it, although `now` was read before the slot's lock was awaited.
IdleClearsOnlyIdle ==
    [][\A s \in Slots :
          pc[Pruner] = "wait" /\ pc'[Pruner] = "sweep" /\ cached[s] # 0 /\ cached'[s] = 0
          => lastUsed[s] + maxIdle <= clock]_vars

\* The snapshot prune_to_endpoints works from stays right until it is used:
\* the slot it is about to clear is the one it takes out of the map.
SnapshotCurrent == \A p \in stale : conns[p[1]] = p[2]

\* A connection that died is not handed out for ever: its driver clears it.
DeadIsCleared ==
    \A i \in ConnIds :
        (conn[i] = "closed") ~> (\A s \in Slots : cached[s] # i)

\* Every task that asks for a slot gets it: nobody waits on a slot for ever,
\* so a reload gets through its pruning and a relay reaches its connection.
LockServed ==
    \A t \in Tasks : (pc[t] \in {"lock", "wait"}) ~> (pc[t] \notin {"lock", "wait"})

-----------------------------------------------------------------------------
(* What a comment in the code says, and the code does not do *)

\* "Drop cached connections that are no longer present in the active routing
\* table": a cached connection is in a slot of the map, or the reload is about
\* to clear that slot.
CachedIsReachable ==
    \A s \in Slots :
        cached[s] # 0 => \/ \E k \in Keys : conns[k] = s
                         \/ pc[Reload] = "wait" /\ slot[Reload] = s
=============================================================================
