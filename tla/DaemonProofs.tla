---------------------------- MODULE DaemonProofs ----------------------------
(***************************************************************************)
(* The publication of node lists by Daemon, proved for any set of          *)
(* configurations, channel capacity and bounds.  The inductive invariant   *)
(* follows a reload through its writes: which of its local copies are      *)
(* already those in force, and which list of nodes is the newer one.       *)
(***************************************************************************)
EXTENDS Daemon, TLAPS

\* The control points of a reload once its nodes are loaded, before and after
\* it has replaced the validator.
Loaded  == {"config", "timeouts", "pool", "validator"}
Between == {"prune", "http"}

\* A full reload and the configuration in memory agree about the listener, and
\* once it has replaced the configuration, about all of it; a subscription
\* reload works with the configuration in memory.
LocalsCurrent ==
  /\ pc \in {"boot", "build", "read", "config", "timeouts", "pool"} => mode = "full"
  /\ (mode = "full" /\ pc = "config") => cfg.listener = shared.listener
  /\ (mode = "full" /\ pc \in {"timeouts", "pool", "validator", "prune", "http"}) => cfg = shared
  /\ (mode = "subs" /\ pc \in {"load", "validator", "prune", "http"}) => cfg = shared

\* The numbers of the node lists: the one in force, the one being installed.
ListsOrdered ==
  /\ pc \in {"boot", "build"} => /\ fetches = 0 /\ validator.fetch = 0 /\ http.nodes.fetch = 0
                                 /\ listener = http.listener
  /\ Running => /\ fetches > 0 /\ validator.fetch > 0 /\ validator.fetch <= fetches
                /\ pc \notin Between => http.nodes = validator
  /\ pc \in Loaded => nodes.fetch = fetches /\ nodes.body = cfg.body /\ validator.fetch < fetches
  /\ pc \in Between => validator = nodes /\ nodes.body = cfg.body /\ http.nodes.fetch < validator.fetch

\* What a full reload has written is in force; and unless an earlier one was cut
\* short, so is everything it has not still to write.
InForce ==
  /\ (mode = "full" /\ pc \in {"pool", "validator", "prune", "http"}) => idle.relay = shared.body
  /\ (mode = "full" /\ pc \in {"validator", "prune", "http"}) => idle.pool = shared.body
  /\ (Running /\ ~cut) =>
    /\ (mode = "full" /\ pc = "timeouts") \/ idle.relay = shared.body
    /\ (mode = "full" /\ pc \in {"timeouts", "pool"}) \/ idle.pool = shared.body
    /\ (mode = "full" /\ pc \in {"timeouts", "pool", "validator"}) \/ validator.body = shared.body
    /\ (mode = "full" /\ pc \in {"timeouts", "pool", "validator", "prune", "http"})
         \/ (http.users = shared.body /\ http.outputs = shared.body)

IInv == TypeOK /\ LocalsCurrent /\ ListsOrdered /\ ListenerKept /\ InForce

\* A configuration of the file has the fields main uses.
LEMMA ConfigsTyped == Configs \subseteq ConfigType
<1>1. ASSUME NEW c \in Configs PROVE c \in ConfigType
  <2>1. c.listener \in Listeners /\ c.body \in Bodies /\ c.timer \in BOOLEAN
    BY ConfigAssumption DEF Listeners, Bodies
  <2>2. c = [listener |-> c.listener, timer |-> c.timer, body |-> c.body]
    BY ConfigAssumption
  <2> DEFINE l == c.listener
             t == c.timer
             b == c.body
  <2>3. [listener |-> l, timer |-> t, body |-> b] \in ConfigType
    <3> HIDE DEF l, t, b
    <3>1. l \in Listeners /\ b \in Bodies /\ t \in BOOLEAN
      BY <2>1 DEF l, t, b
    <3> QED BY <3>1 DEF ConfigType
  <2> QED BY <2>2, <2>3
<1> QED BY <1>1

\* The invariant holds when the process starts.
LEMMA IInvInit == Init => IInv
<1> SUFFICES ASSUME Init PROVE IInv
  OBVIOUS
<1> DEFINE c == CHOOSE d \in Configs : TRUE
<1>1. c \in Configs
  BY ConfigAssumption
<1>2. c \in ConfigType
  BY <1>1, ConfigsTyped
<1>3. /\ listener = c.listener /\ shared = c /\ cfg = c
      /\ idle = [relay |-> c.body, pool |-> c.body]
      /\ nodes = [body |-> c.body, fetch |-> 0] /\ validator = [body |-> c.body, fetch |-> 0]
      /\ http = [listener |-> c.listener, users |-> c.body, outputs |-> c.body,
                 nodes |-> [body |-> c.body, fetch |-> 0]]
  BY DEF Init, Page
<1> HIDE DEF c
<1>4. TypeOK
  <2>1. c.listener \in Listeners /\ c.body \in Bodies
    BY <1>2 DEF ConfigType
  <2> DEFINE none == [body |-> c.body, fetch |-> 0]
  <2>2. none \in NodeLists
    BY <2>1 DEF NodeLists
  <2> HIDE DEF none
  <2>3. /\ listener \in Listeners /\ shared \in ConfigType /\ cfg \in ConfigType
        /\ idle \in [relay : Bodies, pool : Bodies]
    BY <1>2, <1>3, <2>1
  <2>4. nodes = none /\ validator = none
        /\ http = [listener |-> c.listener, users |-> c.body, outputs |-> c.body, nodes |-> none]
    BY <1>3 DEF none
  <2>5. /\ validator \in NodeLists /\ nodes \in NodeLists
        /\ http \in [listener : Listeners, users : Bodies, outputs : Bodies, nodes : NodeLists]
    BY <2>1, <2>2, <2>4
  <2>6. /\ full \in 0..Capacity /\ subs \in 0..Capacity /\ attempt \in 1..MaxAttempts /\ fetches \in Nat
    BY BoundsAssumption DEF Init
  <2>7. /\ sig \in [pending : BOOLEAN, task : {"recv", "send"}] /\ events \in Seq({"change", "other"})
        /\ file \in FileContents
    BY DEF Init
  <2> QED BY <2>3, <2>5, <2>6, <2>7, Zenon DEF Init, TypeOK
<1>5. LocalsCurrent /\ ListsOrdered /\ ListenerKept /\ InForce
  BY <1>2, <1>3 DEF Init, LocalsCurrent, ListsOrdered, ListenerKept, InForce, Running, Loaded, Between, ConfigType
<1> QED BY <1>4, <1>5 DEF IInv

\* Every step of main, its tasks and the environment keeps the types.
LEMMA TypeStep == TypeOK /\ [Next]_vars => TypeOK'
<1> SUFFICES ASSUME TypeOK, [Next]_vars PROVE TypeOK'
  OBVIOUS
<1> USE ConfigsTyped, BoundsAssumption
<1>1. CASE Boot
  BY SMTT(60), ZenonT(60), <1>1
     DEF Boot, TypeOK, ConfigType, NodeLists, FileContents, state, local, tasks, history
<1>2. CASE Build
  BY <1>2 DEF Build, Page, Fetched, TypeOK, ConfigType, NodeLists, FileContents, state, local, tasks, history
<1>3. CASE BuildErr
  BY <1>3 DEF BuildErr, TypeOK, ConfigType, NodeLists, FileContents, state, local, tasks, history
<1>4. CASE TakeFull
  BY <1>4 DEF TakeFull, TypeOK, ConfigType, NodeLists, FileContents, state, local, tasks, history
<1>5. CASE TakeSubs
  BY <1>5 DEF TakeSubs, TypeOK, ConfigType, NodeLists, FileContents, state, local, tasks, history
<1>6. CASE ReadOk
  <2>1. attempt' \in 1..MaxAttempts
    BY <1>6 DEF ReadOk
  <2> QED BY <1>6, <2>1, ZenonT(60) DEF ReadOk, TypeOK, ConfigType, NodeLists, FileContents, state, local, tasks, history
<1>7. CASE ReadRetry
  BY <1>7 DEF ReadRetry, MayRetry, TypeOK, ConfigType, NodeLists, FileContents, state, local, tasks, history
<1>8. CASE ReadErr
  <2>1. /\ unread' = FALSE /\ pc' = "loop"
        /\ UNCHANGED <<file, state, full, subs, quit, mode, cfg, nodes, fetches, tasks, cut>>
    BY <1>8 DEF ReadErr
  <2>2. attempt' \in 1..MaxAttempts
    BY <1>8 DEF ReadErr
  <2> QED BY <2>1, <2>2, ZenonT(60) DEF TypeOK, state, tasks
<1>9. CASE LoadOk
  <2>1. cfg' \in ConfigType
    BY <1>9, ZenonT(60) DEF LoadOk, PreserveRunningRelay, TypeOK, ConfigType
  <2>2. nodes' \in NodeLists /\ fetches' \in Nat
    BY <1>9 DEF LoadOk, Fetched, TypeOK, ConfigType, NodeLists
  <2> QED BY <1>9, <2>1, <2>2 DEF LoadOk, TypeOK, ConfigType, NodeLists, FileContents, state, local, tasks, history
<1>10. CASE LoadErr
  BY <1>10 DEF LoadErr, TypeOK, ConfigType, NodeLists, FileContents, state, local, tasks, history
<1>11. CASE WriteConfig
  <2>1. shared' \in ConfigType /\ cut' \in BOOLEAN
    BY <1>11, Zenon DEF WriteConfig, TypeOK
  <2>2. pc' \in {"timeouts", "loop"}
        /\ UNCHANGED <<file, listener, idle, validator, http, full, subs, quit, local, tasks, unread>>
    BY <1>11 DEF WriteConfig
  <2> QED BY <2>1, <2>2 DEF TypeOK, local, tasks
<1>12. CASE SetRelayTimeout
  <2>1. idle' \in [relay : Bodies, pool : Bodies]
    BY <1>12, Zenon DEF SetRelayTimeout, TypeOK, ConfigType
  <2> QED BY <1>12, <2>1 DEF SetRelayTimeout, TypeOK, ConfigType, NodeLists, FileContents, state, local, tasks, history
<1>13. CASE SetPoolTimeout
  <2>1. idle' \in [relay : Bodies, pool : Bodies]
    BY <1>13, Zenon DEF SetPoolTimeout, TypeOK, ConfigType
  <2> QED BY <1>13, <2>1 DEF SetPoolTimeout, TypeOK, ConfigType, NodeLists, FileContents, state, local, tasks, history
<1>14. CASE WriteValidator
  BY <1>14 DEF WriteValidator, TypeOK, ConfigType, NodeLists, FileContents, state, local, tasks, history
<1>15. CASE PruneDone
  BY <1>15 DEF PruneDone, TypeOK, ConfigType, NodeLists, FileContents, state, local, tasks, history
<1>16. CASE WriteHttp
  BY <1>16 DEF WriteHttp, NewPage, Page, TypeOK, ConfigType, NodeLists, FileContents, state, local, tasks, history
<1>17. CASE Leave
  BY <1>17 DEF Leave, Running, TypeOK, ConfigType, NodeLists, FileContents, state, local, tasks, history
<1>18. CASE SigRecv
  BY <1>18 DEF SigRecv, Running, TypeOK, ConfigType, NodeLists, FileContents, state, local, tasks, history
<1>19. CASE SigSend
  <2>1. sig' \in [pending : BOOLEAN, task : {"recv", "send"}]
    BY Zenon, <1>19 DEF SigSend, TypeOK
  <2>2. full' \in 0..Capacity
    BY SMTT(30), <1>19 DEF SigSend, TypeOK
  <2> QED BY <1>19, <2>1, <2>2 DEF SigSend, TypeOK, state, local, history
<1>20. CASE TimerFires
  BY <1>20 DEF TimerFires, TypeOK, ConfigType, NodeLists, FileContents, state, local, tasks, history
<1>21. CASE TimerSend
  BY <1>21 DEF TimerSend, Running, TypeOK, ConfigType, NodeLists, FileContents, state, local, tasks, history
<1>22. CASE WatchStart
  BY <1>22 DEF WatchStart, TypeOK, ConfigType, NodeLists, FileContents, state, local, tasks, history
<1>23. CASE WatchEvent
  BY SMTT(30), <1>23 DEF WatchEvent, MaySend, TypeOK, ConfigType, NodeLists, FileContents, state, local, tasks, history
<1>24. CASE WatchQuit
  BY <1>24 DEF WatchQuit, TypeOK, ConfigType, NodeLists, FileContents, state, local, tasks, history
<1>25. CASE Edit
  <2>1. events' \in Seq({"change", "other"})
    BY <1>25 DEF Edit, TypeOK
  <2>2. unread' \in BOOLEAN
    BY <1>25 DEF Edit, TypeOK
  <2> QED BY <1>25, <2>1, <2>2 DEF Edit, TypeOK, ConfigType, NodeLists, FileContents, state, local, tasks, history
<1>26. CASE OtherEvent
  <2>1. events' \in Seq({"change", "other"})
    BY <1>26 DEF OtherEvent, TypeOK
  <2> QED BY <1>26, <2>1 DEF OtherEvent, TypeOK, ConfigType, NodeLists, FileContents, state, local, tasks, history
<1>27. CASE Signal
  <2>1. sig' \in [pending : BOOLEAN, task : {"recv", "send"}]
    BY <1>27, Zenon DEF Signal, TypeOK
  <2> QED BY <1>27, <2>1 DEF Signal, TypeOK, ConfigType, NodeLists, FileContents, state, local, tasks, history
<1>28. CASE Terminate
  BY <1>28 DEF Terminate, Running, TypeOK, ConfigType, NodeLists, FileContents, state, local, tasks, history
<1>29. CASE UNCHANGED vars
  BY <1>29 DEF TypeOK, vars, state, local, tasks, history
<1> QED BY <1>1, <1>2, <1>3, <1>4, <1>5, <1>6, <1>7, <1>8, <1>9, <1>10, <1>11, <1>12, <1>13, <1>14, <1>15, <1>16, <1>17, <1>18, <1>19, <1>20, <1>21, <1>22, <1>23, <1>24, <1>25, <1>26, <1>27, <1>28, <1>29 DEF Next, Main, Reloading, Watch, Environment

\* Every step keeps the reload's copies, the order of the node lists and the
\* listener's settings.
LEMMA PublishStep == IInv /\ [Next]_vars => (LocalsCurrent /\ ListsOrdered /\ ListenerKept)'
<1> SUFFICES ASSUME IInv, [Next]_vars PROVE (LocalsCurrent /\ ListsOrdered /\ ListenerKept)'
  OBVIOUS
<1> USE ConfigsTyped DEF IInv, TypeOK, ConfigType, NodeLists
<1>1. CASE Boot
  BY <1>1 DEF Boot, LocalsCurrent, ListsOrdered, ListenerKept, Loaded, Between, Running, state, local, tasks, history
<1>2. CASE Build
  BY <1>2 DEF Build, Page, Fetched, LocalsCurrent, ListsOrdered, ListenerKept, Loaded, Between, Running, state, local, tasks, history
<1>3. CASE BuildErr
  BY <1>3 DEF BuildErr, LocalsCurrent, ListsOrdered, ListenerKept, Loaded, Between, Running, state, local, tasks, history
<1>4. CASE TakeFull
  BY <1>4 DEF TakeFull, LocalsCurrent, ListsOrdered, ListenerKept, Loaded, Between, Running, state, local, tasks, history
<1>5. CASE TakeSubs
  BY <1>5 DEF TakeSubs, LocalsCurrent, ListsOrdered, ListenerKept, Loaded, Between, Running, state, local, tasks, history
<1>6. CASE ReadOk
  BY <1>6 DEF ReadOk, LocalsCurrent, ListsOrdered, ListenerKept, Loaded, Between, Running, state, local, tasks, history
<1>7. CASE ReadRetry
  BY <1>7 DEF ReadRetry, MayRetry, LocalsCurrent, ListsOrdered, ListenerKept, Loaded, Between, Running, state, local, tasks, history
<1>8. CASE ReadErr
  BY <1>8 DEF ReadErr, MayRetry, LocalsCurrent, ListsOrdered, ListenerKept, Loaded, Between, Running, state, local, tasks, history
<1>9. CASE LoadOk
  BY <1>9 DEF LoadOk, Fetched, PreserveRunningRelay, LocalsCurrent, ListsOrdered, ListenerKept, Loaded, Between, Running, state, local, tasks, history
<1>10. CASE LoadErr
  BY <1>10 DEF LoadErr, LocalsCurrent, ListsOrdered, ListenerKept, Loaded, Between, Running, state, local, tasks, history
<1>11. CASE WriteConfig
  BY <1>11 DEF WriteConfig, LocalsCurrent, ListsOrdered, ListenerKept, Loaded, Between, Running, state, local, tasks, history
<1>12. CASE SetRelayTimeout
  BY <1>12 DEF SetRelayTimeout, LocalsCurrent, ListsOrdered, ListenerKept, Loaded, Between, Running, state, local, tasks, history
<1>13. CASE SetPoolTimeout
  BY <1>13 DEF SetPoolTimeout, LocalsCurrent, ListsOrdered, ListenerKept, Loaded, Between, Running, state, local, tasks, history
<1>14. CASE WriteValidator
  BY <1>14 DEF WriteValidator, LocalsCurrent, ListsOrdered, ListenerKept, Loaded, Between, Running, state, local, tasks, history
<1>15. CASE PruneDone
  BY <1>15 DEF PruneDone, LocalsCurrent, ListsOrdered, ListenerKept, Loaded, Between, Running, state, local, tasks, history
<1>16. CASE WriteHttp
  BY <1>16 DEF WriteHttp, NewPage, Page, LocalsCurrent, ListsOrdered, ListenerKept, Loaded, Between, Running, state, local, tasks, history
<1>17. CASE Leave
  BY <1>17 DEF Leave, LocalsCurrent, ListsOrdered, ListenerKept, Loaded, Between, Running, state, local, tasks, history
<1>18. CASE SigRecv
  BY <1>18 DEF SigRecv, LocalsCurrent, ListsOrdered, ListenerKept, Loaded, Between, Running, state, local, tasks, history
<1>19. CASE SigSend
  BY <1>19 DEF SigSend, LocalsCurrent, ListsOrdered, ListenerKept, Loaded, Between, Running, state, local, tasks, history
<1>20. CASE TimerFires
  BY <1>20 DEF TimerFires, LocalsCurrent, ListsOrdered, ListenerKept, Loaded, Between, Running, state, local, tasks, history
<1>21. CASE TimerSend
  BY <1>21 DEF TimerSend, LocalsCurrent, ListsOrdered, ListenerKept, Loaded, Between, Running, state, local, tasks, history
<1>22. CASE WatchStart
  BY <1>22 DEF WatchStart, LocalsCurrent, ListsOrdered, ListenerKept, Loaded, Between, Running, state, local, tasks, history
<1>23. CASE WatchEvent
  BY <1>23 DEF WatchEvent, MaySend, LocalsCurrent, ListsOrdered, ListenerKept, Loaded, Between, Running, state, local, tasks, history
<1>24. CASE WatchQuit
  BY <1>24 DEF WatchQuit, LocalsCurrent, ListsOrdered, ListenerKept, Loaded, Between, Running, state, local, tasks, history
<1>25. CASE Edit
  BY <1>25 DEF Edit, LocalsCurrent, ListsOrdered, ListenerKept, Loaded, Between, Running, state, local, tasks, history
<1>26. CASE OtherEvent
  BY <1>26 DEF OtherEvent, LocalsCurrent, ListsOrdered, ListenerKept, Loaded, Between, Running, state, local, tasks, history
<1>27. CASE Signal
  BY <1>27 DEF Signal, LocalsCurrent, ListsOrdered, ListenerKept, Loaded, Between, Running, state, local, tasks, history
<1>28. CASE Terminate
  BY <1>28 DEF Terminate, LocalsCurrent, ListsOrdered, ListenerKept, Loaded, Between, Running, state, local, tasks, history
<1>29. CASE UNCHANGED vars
  BY <1>29 DEF LocalsCurrent, ListsOrdered, ListenerKept, Loaded, Between, Running, vars, state, local, tasks, history
<1> QED BY SMTT(30), Zenon, <1>1, <1>2, <1>3, <1>4, <1>5, <1>6, <1>7, <1>8, <1>9, <1>10, <1>11, <1>12, <1>13, <1>14, <1>15, <1>16, <1>17, <1>18, <1>19, <1>20, <1>21, <1>22, <1>23, <1>24, <1>25, <1>26, <1>27, <1>28, <1>29 DEF Next, Main, Reloading, Watch, Environment

\* What is in force follows the configuration in memory at every step.
LEMMA InForceStep == IInv /\ [Next]_vars => InForce'
<1> SUFFICES ASSUME IInv, [Next]_vars PROVE InForce'
  OBVIOUS
<1> USE ConfigsTyped DEF IInv, TypeOK, ConfigType, NodeLists
<1>1. CASE Boot
  BY SMTT(30), Zenon, <1>1 DEF Boot, LocalsCurrent, ListsOrdered, InForce, Loaded, Between, Running, state, local, tasks, history
<1>2. CASE Build
  BY <1>2 DEF Build, Page, Fetched, LocalsCurrent, ListsOrdered, InForce, Loaded, Between, Running, state, local, tasks, history
<1>3. CASE BuildErr
  BY <1>3 DEF BuildErr, LocalsCurrent, ListsOrdered, InForce, Loaded, Between, Running, state, local, tasks, history
<1>4. CASE TakeFull
  BY <1>4 DEF TakeFull, LocalsCurrent, ListsOrdered, InForce, Loaded, Between, Running, state, local, tasks, history
<1>5. CASE TakeSubs
  BY <1>5 DEF TakeSubs, LocalsCurrent, ListsOrdered, InForce, Loaded, Between, Running, state, local, tasks, history
<1>6. CASE ReadOk
  BY <1>6 DEF ReadOk, LocalsCurrent, ListsOrdered, InForce, Loaded, Between, Running, state, local, tasks, history
<1>7. CASE ReadRetry
  BY <1>7 DEF ReadRetry, MayRetry, LocalsCurrent, ListsOrdered, InForce, Loaded, Between, Running, state, local, tasks, history
<1>8. CASE ReadErr
  BY <1>8 DEF ReadErr, MayRetry, LocalsCurrent, ListsOrdered, InForce, Loaded, Between, Running, state, local, tasks, history
<1>9. CASE LoadOk
  BY <1>9 DEF LoadOk, Fetched, PreserveRunningRelay, LocalsCurrent, ListsOrdered, InForce, Loaded, Between, Running, state, local, tasks, history
<1>10. CASE LoadErr
  BY <1>10 DEF LoadErr, LocalsCurrent, ListsOrdered, InForce, Loaded, Between, Running, state, local, tasks, history
<1>11. CASE WriteConfig
  <2>1. mode' = "full"
    BY <1>11 DEF WriteConfig, LocalsCurrent, local
  <2>2. CASE pc' = "timeouts"
    BY <2>1, <2>2, Zenon DEF InForce
  <2>3. CASE pc' = "loop" /\ cut' = TRUE
    BY <2>3, Zenon DEF InForce
  <2> QED BY <1>11, <2>2, <2>3, Zenon DEF WriteConfig
<1>12. CASE SetRelayTimeout
  BY <1>12 DEF SetRelayTimeout, LocalsCurrent, ListsOrdered, InForce, Loaded, Between, Running, state, local, tasks, history
<1>13. CASE SetPoolTimeout
  BY <1>13 DEF SetPoolTimeout, LocalsCurrent, ListsOrdered, InForce, Loaded, Between, Running, state, local, tasks, history
<1>14. CASE WriteValidator
  BY SMTT(30), Zenon, <1>14 DEF WriteValidator, LocalsCurrent, ListsOrdered, InForce, Loaded, Between, Running, state, local, tasks, history
<1>15. CASE PruneDone
  BY <1>15 DEF PruneDone, LocalsCurrent, ListsOrdered, InForce, Loaded, Between, Running, state, local, tasks, history
<1>16. CASE WriteHttp
  BY SMTT(30), Zenon, <1>16 DEF WriteHttp, NewPage, Page, LocalsCurrent, ListsOrdered, InForce, Loaded, Between, Running, state, local, tasks, history
<1>17. CASE Leave
  BY <1>17 DEF Leave, LocalsCurrent, ListsOrdered, InForce, Loaded, Between, Running, state, local, tasks, history
<1>18. CASE SigRecv
  BY <1>18 DEF SigRecv, LocalsCurrent, ListsOrdered, InForce, Loaded, Between, Running, state, local, tasks, history
<1>19. CASE SigSend
  BY <1>19 DEF SigSend, LocalsCurrent, ListsOrdered, InForce, Loaded, Between, Running, state, local, tasks, history
<1>20. CASE TimerFires
  BY <1>20 DEF TimerFires, LocalsCurrent, ListsOrdered, InForce, Loaded, Between, Running, state, local, tasks, history
<1>21. CASE TimerSend
  BY <1>21 DEF TimerSend, LocalsCurrent, ListsOrdered, InForce, Loaded, Between, Running, state, local, tasks, history
<1>22. CASE WatchStart
  BY <1>22 DEF WatchStart, LocalsCurrent, ListsOrdered, InForce, Loaded, Between, Running, state, local, tasks, history
<1>23. CASE WatchEvent
  BY <1>23 DEF WatchEvent, MaySend, LocalsCurrent, ListsOrdered, InForce, Loaded, Between, Running, state, local, tasks, history
<1>24. CASE WatchQuit
  BY <1>24 DEF WatchQuit, LocalsCurrent, ListsOrdered, InForce, Loaded, Between, Running, state, local, tasks, history
<1>25. CASE Edit
  BY <1>25 DEF Edit, LocalsCurrent, ListsOrdered, InForce, Loaded, Between, Running, state, local, tasks, history
<1>26. CASE OtherEvent
  BY <1>26 DEF OtherEvent, LocalsCurrent, ListsOrdered, InForce, Loaded, Between, Running, state, local, tasks, history
<1>27. CASE Signal
  BY <1>27 DEF Signal, LocalsCurrent, ListsOrdered, InForce, Loaded, Between, Running, state, local, tasks, history
<1>28. CASE Terminate
  BY <1>28 DEF Terminate, LocalsCurrent, ListsOrdered, InForce, Loaded, Between, Running, state, local, tasks, history
<1>29. CASE UNCHANGED vars
  BY <1>29 DEF InForce, Running, vars, state, local, tasks, history
<1> QED BY <1>1, <1>2, <1>3, <1>4, <1>5, <1>6, <1>7, <1>8, <1>9, <1>10, <1>11, <1>12, <1>13, <1>14, <1>15, <1>16, <1>17, <1>18, <1>19, <1>20, <1>21, <1>22, <1>23, <1>24, <1>25, <1>26, <1>27, <1>28, <1>29 DEF Next, Main, Reloading, Watch, Environment

\* The invariant is inductive, and so holds throughout.
THEOREM Invariance == Spec => []IInv
<1>1. IInv /\ [Next]_vars => IInv'
  BY TypeStep, PublishStep, InForceStep DEF IInv
<1> QED BY <1>1, IInvInit, PTL DEF Spec

\* Every variable of the daemon keeps its type; in particular the reload
\* channels never hold more than their capacity.
THEOREM TypeCorrect == Spec => []TypeOK
<1>1. IInv => TypeOK
  BY DEF IInv
<1> QED BY <1>1, Invariance, PTL

\* preserve_running_relay works: after any reloads of any configurations, the
\* configuration in memory and the links name the listener that is bound.
THEOREM ListenerStays == Spec => []ListenerKept
<1>1. IInv => ListenerKept
  BY DEF IInv
<1> QED BY <1>1, Invariance, PTL

\* The HTTP server never hands out nodes the relay does not accept yet.
THEOREM AcceptedBeforeServed == Spec => []ServedIsAccepted
<1>1. IInv => ServedIsAccepted
  BY DEF IInv, ListsOrdered, ServedIsAccepted, Running, Between
<1> QED BY <1>1, Invariance, PTL

\* Between reloads everything in force stems from the configuration in memory.
THEOREM ReloadsSettle == Spec => []Settled
<1>1. IInv => Settled
  <2> SUFFICES ASSUME IInv, pc = "loop", ~cut PROVE Settled
    BY DEF Settled
  <2>1. Running
    BY DEF Running
  <2>2. /\ idle.relay = shared.body /\ idle.pool = shared.body
        /\ validator.body = shared.body /\ http.users = shared.body /\ http.outputs = shared.body
    BY <2>1 DEF IInv, InForce
  <2>3. http.nodes = validator /\ http.listener = listener
    BY <2>1 DEF IInv, ListsOrdered, ListenerKept, Between
  <2>4. idle = [relay |-> shared.body, pool |-> shared.body]
    BY <2>2 DEF IInv, TypeOK
  <2>5. http = [listener |-> listener, users |-> shared.body, outputs |-> shared.body, nodes |-> validator]
    BY <2>2, <2>3 DEF IInv, TypeOK
  <2>6. [shared EXCEPT !.listener = listener].listener = listener
        /\ [shared EXCEPT !.listener = listener].body = shared.body
    BY DEF IInv, TypeOK, ConfigType
  <2> QED BY <2>2, <2>4, <2>5, <2>6 DEF Settled, Page
<1> QED BY <1>1, Invariance, PTL

\* A subscription reload changes nodes only: it leaves the configuration, and
\* the users and outputs of the HTTP server, as they are.
THEOREM SubsReloadsChangeNodesOnly == Spec => SubsKeepOutputs
<1> DEFINE Keep == (mode = "subs" /\ ~cut) =>
                     shared' = shared /\ http'.users = http.users /\ http'.outputs = http.outputs
<1>a. IInv /\ [Next]_vars => [Keep]_vars
  <2> SUFFICES ASSUME IInv, [Next]_vars, mode = "subs", ~cut
               PROVE  shared' = shared /\ http'.users = http.users /\ http'.outputs = http.outputs
    OBVIOUS
  <2>1. CASE UNCHANGED <<shared, http>>
    BY <2>1
  <2>2. CASE Build \/ WriteConfig
    BY <2>2 DEF Build, WriteConfig, IInv, LocalsCurrent
  <2>3. CASE WriteHttp
    <3>1. http.outputs = shared.body
      BY <2>3 DEF WriteHttp, IInv, InForce, Running
    <3> QED BY <2>3, <3>1 DEF WriteHttp, NewPage
  <2>4. UNCHANGED <<shared, http>> \/ Build \/ WriteConfig \/ WriteHttp
    BY ZenonT(30) DEF Next, Main, Reloading, Watch, Environment, vars, state,
           Boot, BuildErr, TakeFull, TakeSubs, ReadOk, ReadRetry, ReadErr, LoadOk, LoadErr,
           SetRelayTimeout, SetPoolTimeout, WriteValidator, PruneDone, Leave, SigRecv, SigSend, TimerFires, TimerSend,
           WatchStart, WatchEvent, WatchQuit, Edit, OtherEvent, Signal, Terminate
  <2> QED BY <2>1, <2>2, <2>3, <2>4
<1> QED BY <1>a, Invariance, PTL DEF Spec, SubsKeepOutputs

\* The steps of start-up and of both reloads implement the publication that
\* Published describes; every other step leaves what it sees alone.
THEOREM ImplementsPublished == Spec => Publishes
<1>1. Init => P!Init
  <2> SUFFICES ASSUME Init PROVE P!Init
    OBVIOUS
  <2> DEFINE c == CHOOSE d \in Configs : TRUE
  <2>1. c \in ConfigType
    BY ConfigAssumption, ConfigsTyped
  <2>2. /\ listener = c.listener /\ http.listener = c.listener
        /\ validator.fetch = 0 /\ http.nodes.fetch = 0 /\ fetches = 0
    BY DEF Init, Page
  <2> HIDE DEF c
  <2> QED BY <2>1, <2>2 DEF P!Init, ConfigType
<1>2. IInv /\ IInv' /\ [Next]_vars => [P!Next]_P!vars
  <2> SUFFICES ASSUME IInv, IInv', [Next]_vars PROVE P!Next \/ UNCHANGED P!vars
    OBVIOUS
  <2> USE DEF IInv, TypeOK, NodeLists, P!vars
  <2>1. CASE Build
    <3>1. fetches = 0 /\ cfg.listener \in Listeners
      BY <2>1 DEF Build, ListsOrdered, ConfigType
    <3>2. /\ fetches' = 0 + 1 /\ listener' = cfg.listener /\ http'.listener = cfg.listener
          /\ validator'.fetch = 0 + 1 /\ http'.nodes.fetch = 0 + 1
      BY Zenon, <2>1, <3>1 DEF Build, Fetched, Page
    <3>3. P!Start
      BY ONLY <3>1, <3>2 DEF P!Start
    <3> QED BY Zenon, <3>3 DEF P!Next
  <2>2. CASE LoadOk
    BY <2>2 DEF LoadOk, ListsOrdered, Running, state
  <2>3. CASE WriteValidator
    BY <2>3 DEF WriteValidator, ListsOrdered, Running, Loaded, Between, local, P!Next, P!Accept
  <2>4. CASE WriteHttp
    <3>1. fetches > 0 /\ http.nodes.fetch < validator.fetch /\ validator = nodes
      BY <2>4 DEF WriteHttp, ListsOrdered, Running, Between
    <3>2. http'.nodes = nodes /\ http'.listener = http.listener
      <4>1. shared.listener = http.listener /\ (mode = "full" => cfg = shared)
        BY Zenon, <2>4 DEF WriteHttp, ListenerKept, LocalsCurrent, Running
      <4> QED BY Zenon, <2>4, <4>1 DEF WriteHttp, NewPage, Page
    <3> QED BY <2>4, <3>1, <3>2 DEF WriteHttp, local, P!Next, P!Publish
  <2>5. CASE UNCHANGED <<fetches, listener, http, validator>>
    BY <2>5
  <2>6. Build \/ LoadOk \/ WriteValidator \/ WriteHttp \/ UNCHANGED <<fetches, listener, http, validator>>
    BY ZenonT(60) DEF Next, Main, Reloading, Watch, Environment, vars, state, local,
           Boot, BuildErr, TakeFull, TakeSubs, ReadOk, ReadRetry, ReadErr, LoadErr, WriteConfig,
           SetRelayTimeout, SetPoolTimeout, PruneDone, Leave, SigRecv, SigSend, TimerFires, TimerSend, WatchStart,
           WatchEvent, WatchQuit, Edit, OtherEvent, Signal, Terminate
  <2> QED BY <2>1, <2>2, <2>3, <2>4, <2>5, <2>6
<1> QED BY <1>1, <1>2, Invariance, PTL DEF Spec, Publishes, P!Spec
=============================================================================
