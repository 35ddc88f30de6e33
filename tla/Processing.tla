----------------------------- MODULE Processing -----------------------------
(***************************************************************************)
(* What subscription/process.rs computes for its callers: a call of        *)
(* apply_pipeline on a list of nodes, as fetch_source (manager.rs) and     *)
(* render_output (http/server.rs) make it, then a call of                  *)
(* deduplicate_nodes on the result, as reload (manager.rs) makes it on the *)
(* lists of all sources, which Subscription tags and merges.               *)
(***************************************************************************)
EXTENDS Process, FiniteSets

CONSTANT Cases   \* [lists, pipelines, strategies]: what may come together

ASSUME CasesAssumption ==
  \A c \in Cases : /\ \A list \in c.lists : IsList(list)
                   /\ \A p \in c.pipelines : IsList(p)
                   /\ c.strategies \subseteq Strategies

VARIABLES
  fetched,    \* the nodes the pipeline is called with
  pipeline,   \* its steps
  policy,     \* the strategy of the deduplication
  processed,  \* the nodes after the pipeline
  merged,     \* the nodes after the deduplication
  stage       \* "fetched", "processed", "merged"

procVars == <<fetched, pipeline, policy, processed, merged, stage>>

ProcInit ==
  /\ \E c \in Cases : fetched \in c.lists /\ pipeline \in c.pipelines /\ policy \in c.strategies
  /\ processed = <<>> /\ merged = <<>> /\ stage = "fetched"

RunPipeline ==
  /\ stage = "fetched"
  /\ processed' = ApplyPipeline(fetched, pipeline)
  /\ stage' = "processed"
  /\ UNCHANGED <<fetched, pipeline, policy, merged>>

RunDedup ==
  /\ stage = "processed"
  /\ merged' = Deduplicate(processed, policy)
  /\ stage' = "merged"
  /\ UNCHANGED <<fetched, pipeline, policy, processed>>

ProcNext == RunPipeline \/ RunDedup

ProcSpec == ProcInit /\ [][ProcNext]_procVars
-----------------------------------------------------------------------------
\* Does node i of the list win over the others of its name?  The reference for
\* deduplicate_nodes: by position for first and last, else by the documented
\* order of address types, the earlier node winning ties.
Wins(nodes, strategy, i) ==
  LET rank(k) == Priority(strategy, nodes[k].server)
  IN \A j \in DOMAIN nodes \ {i} :
       nodes[j].name = nodes[i].name =>
         CASE strategy = "last" -> i > j
           [] strategy = "first" -> i < j
           [] OTHER -> rank(i) > rank(j) \/ (rank(i) = rank(j) /\ i < j)

\* Is out the list of the nodes at these positions, in their order?
Consists(out, nodes, positions) ==
  /\ IsList(out)
  /\ \E h \in [DOMAIN out -> positions] :
       /\ \A i, j \in DOMAIN out : i < j => h[i] < h[j]
       /\ \A p \in positions : \E j \in DOMAIN out : h[j] = p
       /\ \A j \in DOMAIN out : out[j] = nodes[h[j]]

\* The nodes of the same name before node i.
Before(nodes, i) == {j \in 1..(i - 1) : nodes[j].name = nodes[i].name}

\* The k-th repetition of a name gets the number k.
Numbered(nodes, i) ==
  LET k == Cardinality(Before(nodes, i))
  IN IF k = 0 THEN nodes[i] ELSE [nodes[i] EXCEPT !.name = Append(@, k)]

\* Every strategy that drops nodes keeps exactly the winner of each name, in the
\* order of the merged list; the default keeps all and numbers the repetitions.
DedupMatchesReference ==
  stage = "merged" =>
    IF policy = "rename"
    THEN merged = [i \in DOMAIN processed |-> Numbered(processed, i)]
    ELSE Consists(merged, processed, {i \in DOMAIN processed : Wins(processed, policy, i)})

\* A pipeline keeps the order of the nodes, adds none, and changes or drops only
\* nodes some step selects: the others come out as they came in.  Of those it
\* changes, it changes name, security and packet encoding at most.
UnselectedUntouched == stage # "fetched" => Faithful(processed, fetched, pipeline)
=============================================================================
