--------------------------- MODULE MCConfigEntries ---------------------------
(* Two devices in up to two entries; the first can take over an address    *)
(* the second had.                                                         *)
EXTENDS ConfigEntries

CONSTANTS d1, d2, a1, a2, a3

MCReach == {<<d1, a1>>, <<d1, a2>>, <<d2, a2>>, <<d2, a3>>}

\* A search finds nothing, or both devices.
MCFound == {NoDevices, [d \in {d1, d2} |-> IF d = d1 THEN a2 ELSE a3]}
=============================================================================
