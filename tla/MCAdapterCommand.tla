-------------------------- MODULE MCAdapterCommand --------------------------
(* Small instances of AdapterCommand for TLC: one static and one dynamic file *)
(* and the manifest; generator versions that change, add and drop files.      *)
EXTENDS AdapterCommand

CONSTANTS g1, g2, u

OneGenerated == {g1}
TwoGenerated == {g1, g2}
OneUserText == {u}
StaticAndDynamic == {2}

TextsAndManifests ==
    Generated \cup UserText \cup [1 .. N - 1 -> Generated \cup {Nothing}]

\* The first version, one that changes the static file and drops the dynamic
\* one, and one that drops the static file.
ThreeGenerations == {<<g1, g1>>, <<g2, Nothing>>, <<Nothing, g1>>}

EveryOption == {{}, {"force"}, {"acceptModified"}}

\* Two edits while nothing fails, one with faults.
FewerEditsWithFaults == faults = 0 \/ edits <= 1
=============================================================================
