------------------------------- MODULE Daemon -------------------------------
(***************************************************************************)
(* The life of the daemon (main.rs): start-up, the main loop with its two  *)
(* reload channels, the tasks that feed them (SIGUSR1, the configuration   *)
(* watcher, the subscription timer), the two kinds of reload step by step, *)
(* and shutdown.                                                           *)
(*                                                                         *)
(* A configuration is abstracted to three fields: "listener" (listen,      *)
(* port, network, service_name), "timer" (whether update_interval is not   *)
(* 0) and "body" (everything else: sources, users, outputs, timeouts).     *)
(* A fetched node list is the body it was fetched for and the number of    *)
(* the fetch.  What a fetch does inside is the subject of Subscription.    *)
(***************************************************************************)
EXTENDS Integers, Sequences

CONSTANTS
  Configs,        \* what a loadable configuration file may say
  Missing,        \* the file is not there (ErrorKind::NotFound)
  Broken,         \* the file does not parse
  Capacity,       \* of the reload channels (4 in the code)
  MaxAttempts,    \* of load_config_with_retry (6 in the code)
  MaxFetches,     \* bound: fetches that succeed; the ones after that fail
  MaxQueue        \* bound: events waiting in the watcher's queue

\* A configuration has the three fields; the file's other states differ.
ASSUME ConfigAssumption ==
  /\ \A c \in Configs : c = [listener |-> c.listener, timer |-> c.timer, body |-> c.body]
  /\ \A c \in Configs : c.timer \in BOOLEAN
  /\ Configs # {} /\ Missing \notin Configs /\ Broken \notin Configs /\ Missing # Broken

ASSUME BoundsAssumption ==
  /\ Capacity \in Nat \ {0} /\ MaxAttempts \in Nat \ {0}
  /\ MaxFetches \in Nat \ {0} /\ MaxQueue \in Nat \ {0}

VARIABLES
  file,       \* the configuration file
  listener,   \* the settings the relay listener was bound with
  shared,     \* shared_cfg
  idle,       \* [relay, pool]: the body whose idle timeouts are in force
  validator,  \* validator_rw: the node list it was built from
  http,       \* http_state_rw: [listener, users, outputs, nodes]
  full, subs, \* messages in the reload channels
  quit,       \* a message is in the quit channel
  pc,         \* where main is
  mode,       \* which reload is running
  cfg,        \* the configuration this reload works with
  nodes,      \* the node list this reload fetched
  attempt,    \* the counter of load_config_with_retry, 1 when it is not running
  fetches,    \* load_subscriptions calls that succeeded
  sig,        \* SIGUSR1 task: [pending, task]
  timer,      \* subscription timer task
  watcher,    \* the watch_file thread
  events,     \* the watcher's queue of file events
  unread,     \* history: a watched edit that no reload has read yet
  cut         \* history: a full reload stopped halfway, and none has ended since

state == <<listener, shared, idle, validator, http>>
local == <<mode, cfg, nodes, attempt, fetches>>
tasks == <<sig, timer, watcher, events>>
history == <<unread, cut>>
vars == <<file, state, full, subs, quit, pc, local, tasks, history>>

FileContents == Configs \cup {Missing, Broken}
Bodies == {c.body : c \in Configs}
Listeners == {c.listener : c \in Configs}
ConfigType == [listener : Listeners, timer : BOOLEAN, body : Bodies]
NodeLists == [body : Bodies, fetch : Nat]

\* main is past start-up and has not left its loop.
Running == pc \notin {"boot", "build", "exit"}
-----------------------------------------------------------------------------
(* Start-up *)

\* main loads the configuration; an error ends the process.
Boot ==
  /\ pc = "boot"
  /\ \/ /\ file \in Configs
        /\ cfg' = file
        /\ pc' = "build"
     \/ /\ file \notin Configs
        /\ pc' = "exit"
        /\ UNCHANGED cfg
  /\ UNCHANGED <<file, state, full, subs, quit, mode, nodes, attempt, fetches, tasks, history>>

FetchedSame(c) == [body |-> c.body, fetch |-> fetches]  \* (mutant) the previous fetch again

\* The nodes of the next fetch, for the subscription section of a configuration.
Fetched(c) == [body |-> c.body, fetch |-> fetches + 1]

\* What HttpState::new is given by a full reload.
Page(c, ns) ==
  [listener |-> c.listener, users |-> c.body, outputs |-> c.body, nodes |-> ns]

\* build_state, then everything main spawns before its loop; the watcher's
\* thread starts later.
Build ==
  /\ pc = "build"
  /\ fetches' = fetches + 1
  /\ listener' = cfg.listener
  /\ shared' = cfg
  /\ idle' = [relay |-> cfg.body, pool |-> cfg.body]
  /\ validator' = Fetched(cfg)
  /\ http' = Page(cfg, Fetched(cfg))
  /\ timer' = IF cfg.timer THEN "sleep" ELSE "off"
  /\ watcher' = "spawned"
  /\ pc' = "loop"
  /\ UNCHANGED <<file, full, subs, quit, mode, cfg, nodes, attempt, sig, events, history>>

\* load_subscriptions fails, or an address does not parse: main returns the error.
BuildErr ==
  /\ pc = "build"
  /\ pc' = "exit"
  /\ UNCHANGED <<file, state, full, subs, quit, local, tasks, history>>
-----------------------------------------------------------------------------
(* The main loop *)

\* The select is biased: quit, then a full reload, then a subscription reload.
TakeFull ==
  /\ pc = "loop" /\ ~quit /\ full > 0
  /\ full' = full - 1
  /\ mode' = "full"
  /\ pc' = "read"
  /\ UNCHANGED <<file, state, subs, quit, cfg, nodes, attempt, fetches, tasks, history>>

\* reload_subs starts from the configuration in memory.
TakeSubs ==
  /\ pc = "loop" /\ ~quit /\ full = 0 /\ subs > 0
  /\ subs' = subs - 1
  /\ mode' = "subs"
  /\ cfg' = shared
  /\ pc' = "load"
  /\ UNCHANGED <<file, state, full, quit, nodes, attempt, fetches, tasks, history>>

\* Either select takes the quit message; a reload in progress is dropped.
Leave ==
  /\ Running /\ quit
  /\ pc' = "exit"
  /\ attempt' = 1
  /\ UNCHANGED <<file, state, full, subs, quit, mode, cfg, nodes, fetches, tasks, history>>
-----------------------------------------------------------------------------
(* The two reloads *)

PreserveNothing(c) == c  \* (mutant) the new listener settings are taken over

\* preserve_running_relay: the listener's settings stay what they are.
PreserveRunningRelay(c) == [c EXCEPT !.listener = shared.listener]

\* load_config_with_retry reads the file.
ReadOk ==
  /\ pc = "read" /\ file \in Configs
  /\ cfg' = file
  /\ attempt' = 1
  /\ unread' = FALSE
  /\ pc' = "load"
  /\ UNCHANGED <<file, state, full, subs, quit, mode, nodes, fetches, tasks, cut>>

\* Is there an attempt left?
MayRetry == attempt < MaxAttempts

\* (mutant) the attempts are not counted
ReadRetryUncounted ==
  /\ pc = "read" /\ file = Missing /\ MayRetry
  /\ UNCHANGED vars

\* A file that is not there is tried again after 80 ms.
ReadRetry ==
  /\ pc = "read" /\ file = Missing /\ MayRetry
  /\ attempt' = attempt + 1
  /\ UNCHANGED <<file, state, full, subs, quit, pc, mode, cfg, nodes, fetches, tasks, history>>

\* Out of attempts, or the file does not parse: the reload fails.
ReadErr ==
  /\ pc = "read"
  /\ file = Broken \/ (file = Missing /\ ~MayRetry)
  /\ attempt' = 1
  /\ unread' = FALSE
  /\ pc' = "loop"
  /\ UNCHANGED <<file, state, full, subs, quit, mode, cfg, nodes, fetches, tasks, cut>>

\* load_subscriptions; a full reload then fixes its effective configuration.
LoadOk ==
  /\ pc = "load" /\ fetches < MaxFetches
  /\ fetches' = fetches + 1
  /\ nodes' = Fetched(cfg)
  /\ \/ /\ mode = "full"
        /\ cfg' = PreserveRunningRelay(cfg)
        /\ pc' = "config"
     \/ /\ mode = "subs"
        /\ pc' = "validator"
        /\ UNCHANGED cfg
  /\ UNCHANGED <<file, state, full, subs, quit, mode, attempt, tasks, history>>

LoadErr ==
  /\ pc = "load"
  /\ pc' = "loop"
  /\ UNCHANGED <<file, state, full, subs, quit, local, tasks, history>>

\* The shared configuration is replaced, then the log filter, which may fail:
\* the reload then stops with the configuration replaced and nothing else.
WriteConfig ==
  /\ pc = "config"
  /\ shared' = cfg
  /\ \/ pc' = "timeouts" /\ cut' = cut
     \/ pc' = "loop" /\ cut' = TRUE
  /\ UNCHANGED <<file, listener, idle, validator, http, full, subs, quit, local, tasks, unread>>

\* set_relay_idle_timeout, then the pool's set_idle_timeout, each behind its lock.
SetRelayTimeout ==
  /\ pc = "timeouts"
  /\ idle' = [idle EXCEPT !.relay = cfg.body]
  /\ pc' = "pool"
  /\ UNCHANGED <<file, listener, shared, validator, http, full, subs, quit, local, tasks, history>>

SetPoolTimeout ==
  /\ pc = "pool"
  /\ idle' = [idle EXCEPT !.pool = cfg.body]
  /\ pc' = "validator"
  /\ UNCHANGED <<file, listener, shared, validator, http, full, subs, quit, local, tasks, history>>

\* The validator is replaced; prune_to_endpoints follows (see GrpcPool).
WriteValidator ==
  /\ pc = "validator"
  /\ validator' = nodes
  /\ pc' = "prune"
  /\ UNCHANGED <<file, listener, shared, idle, http, full, subs, quit, local, tasks, history>>

PruneDone ==
  /\ pc = "prune"
  /\ pc' = "http"
  /\ UNCHANGED <<file, state, full, subs, quit, local, tasks, history>>

NewPageStale == [Page(cfg, nodes) EXCEPT !.nodes = http.nodes]  \* (mutant) the old node list is kept
NewPageUsers == [Page(cfg, nodes) EXCEPT !.users = http.users]  \* (mutant) a full reload keeps the users

\* The HTTP state a reload installs: a subscription reload keeps the users
\* that are being served and takes the rest from the shared configuration.
NewPage ==
  IF mode = "full"
  THEN Page(cfg, nodes)
  ELSE [listener |-> shared.listener, users |-> http.users,
        outputs |-> shared.body, nodes |-> nodes]

WriteHttp ==
  /\ pc = "http"
  /\ http' = NewPage
  /\ cut' = (cut /\ mode = "subs")
  /\ pc' = "loop"
  /\ UNCHANGED <<file, listener, shared, idle, validator, full, subs, quit, local, tasks, unread>>
-----------------------------------------------------------------------------
(* The tasks that ask for reloads *)

\* spawn_sigusr1_reload: deliveries coalesce until the task receives one, and
\* the task waits while the channel is full.
SigRecv ==
  /\ Running /\ sig.pending /\ sig.task = "recv"
  /\ sig' = [pending |-> FALSE, task |-> "send"]
  /\ UNCHANGED <<file, state, full, subs, quit, pc, local, timer, watcher, events, history>>

SigSend ==
  /\ Running /\ sig.task = "send" /\ full < Capacity
  /\ sig' = [sig EXCEPT !.task = "recv"]
  /\ full' = full + 1
  /\ UNCHANGED <<file, state, subs, quit, pc, local, timer, watcher, events, history>>

\* spawn_subscription_timer: sleep, then send.
TimerFires ==
  /\ Running /\ timer = "sleep"
  /\ timer' = "send"
  /\ UNCHANGED <<file, state, full, subs, quit, pc, local, sig, watcher, events, history>>

TimerSend ==
  /\ Running /\ timer = "send" /\ subs < Capacity
  /\ timer' = "sleep"
  /\ subs' = subs + 1
  /\ UNCHANGED <<file, state, full, quit, pc, local, sig, watcher, events, history>>

\* watch_file sets its watch up, or gives up; the process may be ending already.
WatchStart ==
  /\ watcher = "spawned"
  /\ watcher' \in {"watching", "failed"}
  /\ UNCHANGED <<file, state, full, subs, quit, pc, local, sig, timer, events, history>>

MaySendNever == full < Capacity  \* (mutant) a send is not released by the receiver's end

\* May the watcher pass a change on: there is room in the channel, or the
\* receiver is gone and the send fails at once.
MaySend == full < Capacity \/ pc = "exit"

\* (mutant) changes are ignored while a reload runs
WatchEventIdle ==
  /\ watcher = "watching" /\ events # <<>>
  /\ events' = Tail(events)
  /\ \/ (Head(events) = "other" \/ pc # "loop") /\ UNCHANGED full
     \/ Head(events) = "change" /\ pc = "loop" /\ MaySend /\ full' = full + 1
  /\ UNCHANGED <<file, state, subs, quit, pc, local, sig, timer, watcher, history>>

\* An event of the file asks for a full reload; others are passed over.
WatchEvent ==
  /\ watcher = "watching" /\ events # <<>>
  /\ events' = Tail(events)
  /\ \/ Head(events) = "other" /\ UNCHANGED full
     \/ Head(events) = "change" /\ MaySend /\ full' = IF pc = "exit" THEN full ELSE full + 1
  /\ UNCHANGED <<file, state, subs, quit, pc, local, sig, timer, watcher, history>>

\* The quit message is looked at only when no event came for 200 ms.
WatchQuit ==
  /\ watcher = "watching" /\ events = <<>> /\ pc = "exit"
  /\ watcher' = "stopped"
  /\ UNCHANGED <<file, state, full, subs, quit, pc, local, sig, timer, events, history>>
-----------------------------------------------------------------------------
(* The environment *)

\* Somebody changes, truncates, removes or replaces the file; the watcher sees
\* what happens after its watch is set up.
Edit ==
  /\ Len(events) < MaxQueue
  /\ file' \in FileContents \ {file}
  /\ events' = IF watcher = "watching" THEN Append(events, "change") ELSE events
  /\ unread' = (unread \/ watcher = "watching")
  /\ UNCHANGED <<state, full, subs, quit, pc, local, sig, timer, watcher, cut>>

\* Another file of the watched directory changes (the directory also holds
\* relative cache files), or the file is only accessed.
OtherEvent ==
  /\ Len(events) < MaxQueue /\ watcher = "watching"
  /\ events' = Append(events, "other")
  /\ UNCHANGED <<file, state, full, subs, quit, pc, local, sig, timer, watcher, history>>

\* SIGUSR1, once the handler is installed.
Signal ==
  /\ Running
  /\ sig' = [sig EXCEPT !.pending = TRUE]
  /\ UNCHANGED <<file, state, full, subs, quit, pc, local, timer, watcher, events, history>>

\* SIGTERM or SIGINT, passed on by spawn_shutdown_signal's task.
Terminate ==
  /\ Running /\ ~quit
  /\ quit' = TRUE
  /\ UNCHANGED <<file, state, full, subs, pc, local, tasks, history>>
-----------------------------------------------------------------------------
Init ==
  /\ file \in FileContents
  /\ LET c == CHOOSE d \in Configs : TRUE   \* placeholders until Build
         none == [body |-> c.body, fetch |-> 0]
     IN /\ listener = c.listener /\ shared = c /\ cfg = c
        /\ idle = [relay |-> c.body, pool |-> c.body]
        /\ nodes = none /\ validator = none /\ http = Page(c, none)
  /\ full = 0 /\ subs = 0 /\ quit = FALSE
  /\ pc = "boot" /\ mode = "full" /\ attempt = 1 /\ fetches = 0
  /\ sig = [pending |-> FALSE, task |-> "recv"]
  /\ timer = "off" /\ watcher = "off" /\ events = <<>>
  /\ unread = FALSE /\ cut = FALSE

Reloading ==
  \/ TakeFull \/ TakeSubs \/ ReadOk \/ ReadRetry \/ ReadErr \/ LoadOk \/ LoadErr
  \/ WriteConfig \/ SetRelayTimeout \/ SetPoolTimeout \/ WriteValidator \/ PruneDone \/ WriteHttp

Main == Boot \/ Build \/ BuildErr \/ Reloading \/ Leave

Watch == WatchStart \/ WatchEvent \/ WatchQuit

Environment == Edit \/ OtherEvent \/ Signal \/ Terminate \/ TimerFires

Next == Main \/ SigRecv \/ SigSend \/ TimerSend \/ Watch \/ Environment

Spec == Init /\ [][Next]_vars

(***************************************************************************)
(* Fairness: the tokio scheduler keeps running ready tasks, fetches time   *)
(* out after 30 s and the prune terminates (PruneTerminates of GrpcPool),  *)
(* so main never stays at a step; the watcher is a thread of its own.      *)
(* Nothing is assumed of the environment: edits, other events, signals and *)
(* firings of the timer may come for ever or not at all, and a property    *)
(* that needs one of them to stop says so itself.                          *)
(***************************************************************************)
Fairness ==
  /\ WF_vars(Main)
  /\ WF_vars(SigRecv) /\ WF_vars(SigSend) /\ WF_vars(TimerSend) /\ WF_vars(Watch)

FairSpec == Spec /\ Fairness
-----------------------------------------------------------------------------
(* Properties *)

\* Every variable keeps its type.
TypeOK ==
  /\ file \in FileContents /\ listener \in Listeners
  /\ shared \in ConfigType /\ cfg \in ConfigType
  /\ idle \in [relay : Bodies, pool : Bodies]
  /\ validator \in NodeLists /\ nodes \in NodeLists
  /\ http \in [listener : Listeners, users : Bodies, outputs : Bodies, nodes : NodeLists]
  /\ full \in 0..Capacity /\ subs \in 0..Capacity /\ quit \in BOOLEAN
  /\ pc \in {"boot", "build", "loop", "read", "load", "config", "timeouts", "pool",
             "validator", "prune", "http", "exit"}
  /\ mode \in {"full", "subs"} /\ attempt \in 1..MaxAttempts /\ fetches \in Nat
  /\ sig \in [pending : BOOLEAN, task : {"recv", "send"}]
  /\ timer \in {"off", "sleep", "send"}
  /\ watcher \in {"off", "spawned", "watching", "failed", "stopped"}
  /\ events \in Seq({"change", "other"})
  /\ unread \in BOOLEAN /\ cut \in BOOLEAN

\* Whatever the reloads read, the configuration in memory and the links the HTTP
\* server hands out keep the settings the relay listener was bound with.
ListenerKept ==
  Running => shared.listener = listener /\ http.listener = listener

\* The HTTP server hands out the nodes the relay accepts, except between the two
\* writes of a reload, and then older ones: never nodes the relay does not know yet.
ServedIsAccepted ==
  Running => \/ http.nodes = validator
             \/ pc \in {"prune", "http"} /\ http.nodes.fetch < validator.fetch

\* Between reloads everything in force comes from the one configuration in
\* memory, also after reloads that failed or were overtaken.  A full reload that
\* the log filter stopped halfway breaks this; the next one that ends mends it.
Settled ==
  (pc = "loop" /\ ~cut) =>
    /\ validator.body = shared.body
    /\ idle = [relay |-> shared.body, pool |-> shared.body]
    /\ http = Page([shared EXCEPT !.listener = listener], validator)

\* A subscription reload changes nodes only, though it takes the outputs from the
\* shared configuration and not from the state it replaces.
SubsKeepOutputs ==
  [][(mode = "subs" /\ ~cut) =>
        shared' = shared /\ http'.users = http.users /\ http'.outputs = http.outputs]_vars

\* A change of the file that the watcher could see is read by a later full
\* reload, whatever the daemon was doing and however full the channel was.
EditIsRead == unread ~> (~unread \/ pc = "exit")

\* After SIGTERM main leaves its loop, whatever comes in.  The watcher's thread,
\* for which the runtime waits, then stops too, also when it was waiting to send
\* or had not started; only a directory that never falls quiet keeps it alive,
\* since watch_file looks at its quit channel after 200 ms without an event.
ProcessEnds ==
  /\ quit ~> pc = "exit"
  /\ []<><<Edit \/ OtherEvent>>_vars
       \/ (quit ~> (pc = "exit" /\ watcher \notin {"spawned", "watching"}))

\* A timer message is served unless full reloads, which the biased select takes
\* first, keep coming for ever; and even then the sources are fetched again, by
\* those reloads, unless their reading of the file fails for ever.
RefetchHappens ==
  /\ []<><<TakeFull>>_vars
       \/ (subs > 0 ~> ((mode = "subs" /\ pc = "load") \/ pc = "exit"))
  /\ []<><<ReadErr>>_vars
       \/ (subs > 0 ~> pc \in {"load", "exit"})

\* What main promises the relay and the HTTP server (see Published).
P == INSTANCE Published WITH
  up <- fetches > 0, bound <- listener, advertised <- http.listener,
  accepted <- validator.fetch, served <- http.nodes.fetch

\* The reloads, step by step, implement the two-step publication.
Publishes == P!Spec
=============================================================================
