----------------------------- MODULE LinkOrder -----------------------------
(***************************************************************************)
(* deferred_link_dependency_order (safety.rs): the order in which the hard *)
(* links of an archive are made once all other entries are on disk.        *)
(*                                                                         *)
(* links is a sequence of [source, dest] records and present the set of    *)
(* paths that exist.  A link whose source is the destination of another    *)
(* deferred link waits for it; any other source must be present.           *)
(***************************************************************************)
EXTENDS Naturals, Sequences, FiniteSets

\* `destinations`, a map collected from a list: the last link of a path wins.
Producers(links, i) == {j \in DOMAIN links : links[j].dest = links[i].source}
Dependency(links, i) ==
    CHOOSE j \in Producers(links, i) : \A k \in Producers(links, i) : k <= j
Waits(links, i) == Producers(links, i) # {}

\* Every source is made by a deferred link or is there already.
SourcesPresent(links, present) ==
    \A i \in DOMAIN links : Waits(links, i) \/ links[i].source \in present

\* The indexes of S in ascending order.
InOrder(S) ==
    CHOOSE s \in [1 .. Cardinality(S) -> S] :
        \A a, b \in 1 .. Cardinality(S) : a < b => s[a] < s[b]

\* Mutant: dependency_counts is left at zero.
ReadyAll(links) == DOMAIN links

\* Links without a dependency.
ReadyAtFirst(links) == {i \in DOMAIN links : ~ Waits(links, i)}

\* Links that become ready when link i has been made.
ReadyAfter(links, i) ==
    {k \in DOMAIN links : Waits(links, k) /\ Dependency(links, k) = i}

\* One round of the loop: the first link of the queue is made.
Turn(links, r) ==
    IF r.ready = <<>>
      THEN r
      ELSE [ready |-> Tail(r.ready) \o InOrder(ReadyAfter(links, Head(r.ready))),
            order |-> Append(r.order, Head(r.ready))]

\* The queue and the order after k rounds.
Round(links) ==
    LET round[k \in 0 .. Len(links)] ==
          IF k = 0
            THEN [ready |-> InOrder(ReadyAtFirst(links)), order |-> <<>>]
            ELSE Turn(links, round[k - 1])
    IN  round

\* The order; it is short of some links exactly when the call fails.
DeferredLinkOrder(links) == Round(links)[Len(links)].order
OrderFound(links) == Len(DeferredLinkOrder(links)) = Len(links)

-----------------------------------------------------------------------------
(* The reference: some arrangement puts every link after its dependency.   *)
Respects(links, order) ==
    \A a, b \in DOMAIN order :
        (Waits(links, order[b]) /\ Dependency(links, order[b]) = order[a]) => a < b
Arrangements(links) ==
    {s \in [DOMAIN links -> DOMAIN links] :
        \A a, b \in DOMAIN links : s[a] = s[b] => a = b}
=============================================================================
