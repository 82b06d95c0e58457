--------------------------- MODULE MCSchemaCache ---------------------------
(***************************************************************************)
(* Small instances of SchemaCache: tA and tB on backend b1, tC on b2; the  *)
(* lookups v1 and v2 are for tA and tB.                                    *)
(***************************************************************************)
EXTENDS SchemaCache

CONSTANTS tA, tB, tC, b1, b2, v1, v2

MCRoutes == <<b1, b2>>
MCBackendOf == [t \in Tools |-> IF t = tC THEN b2 ELSE b1]
MCTarget == [v \in Lookups |-> IF v = v1 THEN tA ELSE tB]
=============================================================================
