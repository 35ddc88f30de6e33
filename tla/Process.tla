------------------------------ MODULE Process ------------------------------
(***************************************************************************)
(* The processing of node lists (subscription/process.rs): the pipeline of *)
(* filter, remove and transform steps, and the deduplication by name.      *)
(*                                                                         *)
(* A name is a sequence of tokens; a token that is a number n stands for   *)
(* the text " (n)", and Emoji for an emoji.  A regular expression is the   *)
(* set of texts it matches, and whether it compiles; a rename rule is what *)
(* it makes of the names it changes.  A server is the kind of its address: *)
(* "v4", "v6", "[v6]" (in brackets, as a URL has it), "domain" or "".      *)
(***************************************************************************)
EXTENDS Integers, Sequences

CONSTANT Emoji   \* the token of an emoji

NoValue == "unset"   \* an Option that is None

\* The lists one after the other, as flat_map and extend have them.
Concat(lists) ==
  LET upTo[k \in 0..Len(lists)] == IF k = 0 THEN <<>> ELSE upTo[k - 1] \o lists[k]
  IN upTo[Len(lists)]

\* The members of the list at these positions, as a filter leaves them.
Pick(list, positions) ==
  LET picked[k \in 0..Len(list)] ==
        IF k = 0 THEN <<>>
        ELSE IF k \in positions THEN Append(picked[k - 1], list[k]) ELSE picked[k - 1]
  IN picked[Len(list)]

IsList(list) == Len(list) \in Nat /\ list = [i \in 1..Len(list) |-> list[i]]
-----------------------------------------------------------------------------
(* Pipeline *)

\* compile_patterns: what does not compile is dropped with a warning.
CompilePatterns(patterns) == {p \in patterns : p.valid}

AnyMatch(patterns, text) == \E p \in patterns : text \in p.matches

\* is_selected of apply_step: both filters match, an empty one matches all.
Selected(step, node) ==
  LET names == CompilePatterns(step.filter)
      sources == CompilePatterns(step.filterSource)
      matched == /\ names = {} \/ AnyMatch(names, node.name)
                 /\ sources = {} \/ AnyMatch(sources, node.source)
  IN matched # step.invert

StripEmoji(name) == Pick(name, {i \in DOMAIN name : name[i] # Emoji})

\* replace_all of one rule; a rule that does not compile is not there.
Rename(name, rule) ==
  IF rule.valid /\ name \in DOMAIN rule.to THEN rule.to[name] ELSE name

Override(option, old) == IF option = NoValue THEN old ELSE option

\* What a step makes of a selected node: rename rules in order, then the rest.
Transform(step, node) ==
  LET after[k \in 0..Len(step.rename)] ==
        IF k = 0 THEN node.name ELSE Rename(after[k - 1], step.rename[k])
      renamed == after[Len(step.rename)]
  IN [node EXCEPT !.name = IF step.removeEmoji THEN StripEmoji(renamed) ELSE renamed,
                  !.security = Override(step.security, @),
                  !.packet = Override(step.packet, @)]

\* filter(|n| !is_selected(n)): what a removing step leaves, in order.
KeepOthers(nodes, step) == Pick(nodes, {i \in DOMAIN nodes : ~Selected(step, nodes[i])})

\* (mutant) the actions of a step apply to every node
ApplyStepToAll(nodes, step) ==
  IF step.remove THEN KeepOthers(nodes, step)
  ELSE [i \in DOMAIN nodes |-> Transform(step, nodes[i])]

ApplyStep(nodes, step) ==
  IF step.remove THEN KeepOthers(nodes, step)
  ELSE [i \in DOMAIN nodes |->
          IF Selected(step, nodes[i]) THEN Transform(step, nodes[i]) ELSE nodes[i]]

\* The steps one after the other.
ApplyPipeline(nodes, steps) ==
  LET after[k \in 0..Len(steps)] == IF k = 0 THEN nodes ELSE ApplyStep(after[k - 1], steps[k])
  IN after[Len(steps)]

\* Is m the node n, but for what a step may change?
SameNode(m, n) ==
  /\ DOMAIN m = DOMAIN n
  /\ \A field \in DOMAIN n \ {"name", "security", "packet"} : m[field] = n[field]

\* h tells where the nodes of out stand in nodes: in the same order, and changed
\* at most as a step may change them.
ComesFrom(out, nodes, h) ==
  /\ \A i, j \in DOMAIN out : i < j => h[i] < h[j]
  /\ \A j \in DOMAIN out : SameNode(out[j], nodes[h[j]])

\* Node i is still there, as it was.
Untouched(out, nodes, h, i) == \E j \in DOMAIN out : h[j] = i /\ out[j] = nodes[i]

Unselected(node, steps) == \A k \in DOMAIN steps : ~Selected(steps[k], node)

\* What a pipeline may do to a list: the nodes that are left are in order, and
\* those that no step selects are left as they were.
Faithful(out, nodes, steps) ==
  \E h \in [DOMAIN out -> DOMAIN nodes] :
    /\ ComesFrom(out, nodes, h)
    /\ \A i \in DOMAIN nodes : Unselected(nodes[i], steps) => Untouched(out, nodes, h, i)
-----------------------------------------------------------------------------
(* Deduplication *)

Strategies == {"rename", "first", "last", "prefer_ipv4", "prefer_ipv6",
               "prefer_domain_then_ipv4", "prefer_domain_then_ipv6", "unknown"}

\* get_address_type: brackets do not parse as an IPv6 address.
AddressType(server) ==
  CASE server = "" -> "unknown"
    [] server = "v4" -> "v4"
    [] server = "v6" -> "v6"
    [] OTHER -> "domain"

\* DedupStrategy::address_priority: best first; what is not listed has priority 0.
Ranking(strategy) ==
  CASE strategy = "prefer_ipv4" -> <<"v4", "domain", "v6">>
    [] strategy = "prefer_ipv6" -> <<"v6", "domain", "v4">>
    [] strategy = "prefer_domain_then_ipv4" -> <<"domain", "v4", "v6">>
    [] strategy = "prefer_domain_then_ipv6" -> <<"domain", "v6", "v4">>
    [] OTHER -> <<>>

Priority(strategy, server) ==
  LET ranks == {r \in DOMAIN Ranking(strategy) : Ranking(strategy)[r] = AddressType(server)}
  IN IF ranks = {} THEN 0 ELSE 4 - CHOOSE r \in ranks : TRUE

\* The counter is per original name; format!("{} ({})") appends a token.
RenameNext(acc, node) ==
  LET tag == node.name
      known == tag \in DOMAIN acc.seen
      count == IF known THEN acc.seen[tag] + 1 ELSE 0
  IN [seen |-> [t \in DOMAIN acc.seen \cup {tag} |-> IF t = tag THEN count ELSE acc.seen[t]],
      out  |-> Append(acc.out, IF known THEN [node EXCEPT !.name = Append(tag, count)] ELSE node)]

DedupRename(nodes) ==
  LET after[k \in 0..Len(nodes)] ==
        IF k = 0 THEN [seen |-> <<>>, out |-> <<>>] ELSE RenameNext(after[k - 1], nodes[k])
  IN after[Len(nodes)].out

\* (mutant) a later node of the same priority replaces the best so far
BetterOrEqual(new, best) == new >= best

\* The scan for the best index replaces its choice only for a higher priority.
Better(new, best) == new > best

Best(nodes, strategy, indices) ==
  LET rank(i) == Priority(strategy, nodes[i].server)
      best[k \in 0..Len(indices)] ==
        IF k = 0 THEN [index |-> indices[1], priority |-> -1]
        ELSE IF Better(rank(indices[k]), best[k - 1].priority)
             THEN [index |-> indices[k], priority |-> rank(indices[k])] ELSE best[k - 1]
  IN best[Len(indices)].index

\* The index kept for the nodes of one name, given in list order.
KeptIndex(nodes, strategy, indices) ==
  CASE Len(indices) = 1 -> indices[1]
    [] strategy = "first" -> indices[1]
    [] strategy = "last" -> indices[Len(indices)]
    [] OTHER -> Best(nodes, strategy, indices)

\* name_indices: the indices of the nodes of one name.
NameIndices(nodes, name) ==
  Pick([i \in DOMAIN nodes |-> i], {i \in DOMAIN nodes : nodes[i].name = name})

Deduplicate(nodes, strategy) ==
  IF strategy = "rename" THEN DedupRename(nodes)
  ELSE Pick(nodes, {KeptIndex(nodes, strategy, NameIndices(nodes, nodes[i].name)) : i \in DOMAIN nodes})
=============================================================================
