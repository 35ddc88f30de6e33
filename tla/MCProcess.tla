----------------------------- MODULE MCProcess -----------------------------
(***************************************************************************)
(* Processing of all short node lists.                                     *)
(***************************************************************************)
EXTENDS Processing, SequencesExt

ANode == [name |-> <<"a">>, source |-> "", server |-> "v4", uuid |-> 0,
          security |-> "auto", packet |-> "default"]

\* Names that are equal, differ, or look like a numbered repetition.
DedupNodes ==
  {[ANode EXCEPT !.name = n, !.server = a] :
     n \in {<<"a">>, <<"a", 1>>}, a \in {"v4", "v6", "[v6]", "domain"}}

StepNodes ==
  {[ANode EXCEPT !.name = n, !.source = s] :
     n \in {<<"a">>, <<Emoji, "a">>, <<"b">>}, s \in {"", "s"}}

Pattern(ok, texts) == [valid |-> ok, matches |-> texts]

\* Steps with each kind of filter, one that does not compile among them, inverted
\* or not, that remove or transform;
\* renaming makes an "a" a "b", which a later step may select.
Steps ==
  {[filter |-> f, filterSource |-> fs, invert |-> inv, remove |-> rem, rename |-> r,
    removeEmoji |-> rem = (inv /\ r = <<>>), security |-> NoValue, packet |-> p] :
     f \in {{}, {Pattern(TRUE, {<<"a">>, <<Emoji, "a">>})}, {Pattern(FALSE, {<<"a">>})}},
     fs \in {{}, {Pattern(TRUE, {"s"})}},
     inv \in BOOLEAN, rem \in BOOLEAN,
     r \in {<<>>, <<[valid |-> TRUE, to |-> (<<"a">> :> <<"b">>)]>>},
     p \in {NoValue, "xudp"}}

StepPairs == {<<>>} \cup {<<s, t>> : s, t \in Steps}

Lists(nodes, longest) ==   \* the UUID tells nodes apart
  {[i \in DOMAIN list |-> [list[i] EXCEPT !.uuid = i]] : list \in BoundedSeq(nodes, longest)}

\* Every strategy on lists of three, and every pair of steps on lists of two.
MCCases ==
  {[lists |-> Lists(DedupNodes, 3), pipelines |-> {<<>>}, strategies |-> Strategies],
   [lists |-> Lists(StepNodes, 2), pipelines |-> StepPairs, strategies |-> {"first"}]}
=============================================================================
