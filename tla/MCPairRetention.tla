-------------------------- MODULE MCPairRetention --------------------------
(* Small instances of PairRetention for TLC.                                *)
EXTENDS PairRetention

CONSTANTS a, b, k, s

FourPhases == {a, b, k, s}
ThreeOld == {a, b, s}
ThreePaired == {a, b, k}

\* Bundles of one kind: none, one, redundant ones, and one that is already what
\* a removal would leave.
Bundlings == {{}, {{k}}, {{a, k}}, {{a, b, k}, {k}}, {{a, k}, {a, b, k}}}

Place(looseSnapshots, loosePacks, snapshotBundles, packBundles) ==
    {Loose("snapshot", p) : p \in looseSnapshots} \cup {Loose("pack", p) : p \in loosePacks}
        \cup {Bundle("snapshot", S) : S \in snapshotBundles}
        \cup {Bundle("pack", S) : S \in packBundles}

Flushed(d) == [disk |-> d, sure |-> d, raw |-> {}]

\* Every placement of the three pairs, complete pairs only, the kept one there.
AllPairs ==
    {Flushed(Place(x[1], x[2], x[3], x[4])) :
        x \in {y \in (SUBSET {a, b, k}) \X (SUBSET {a, b, k}) \X Bundlings \X Bundlings :
                 LET snapshots == y[1] \cup UNION y[3]
                     packs == y[2] \cup UNION y[4]
                 IN  snapshots = packs /\ k \in snapshots}}

\* A snapshot without a pack, in a file, a bundle or both.
Packless ==
    {Flushed(Place(ls, {}, bs, {{a, k}})) :
        ls \in {{}, {s}}, bs \in {{{a, s, k}}, {{a, k}, {a, s, k}}}}
    \cup {Flushed(Place({a, s}, {a}, {{k}}, {{k}}))}

\* The bundles a removal would leave exist, and were never flushed.
Unflushed ==
    {LET d == Place(l, l, {{a, b, k}, {k}}, {{a, b, k}, {k}})
         soft == {Bundle("snapshot", {k}), Bundle("pack", {k})}
     IN  [disk |-> d, sure |-> d \ soft, raw |-> soft] : l \in SUBSET {a, b}}

AllStores == AllPairs \cup Packless \cup Unflushed
LooseStore == {Flushed(Place({a}, {a}, {{k}}, {{k}}))}

Everything == [commands |-> Commands, faults |-> {"abort"}]
RetentionOnPower == [commands |-> {"retention"}, faults |-> {"power"}]
RetentionOnBoth == [commands |-> {"retention"}, faults |-> {"abort", "power"}]
PassingScenarios == {Everything, RetentionOnPower}
AnyFault == {RetentionOnBoth}
=============================================================================
