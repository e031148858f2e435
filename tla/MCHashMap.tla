------------------------------- MODULE MCHashMap -------------------------------
(***************************************************************************)
(* Small instances of HashMap.                                              *)
(***************************************************************************)
EXTENDS HashMap

CONSTANTS k1, k2, k3, k4, v1, v2

\* Two keys with the same hash, and one that meets them until the map has grown.
MCHash == [k \in Key |-> IF k = k1 \/ k = k2 THEN 1 ELSE IF k = k3 THEN 5 ELSE 6]
=============================================================================
