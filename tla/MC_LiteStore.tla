---------------------------- MODULE MC_LiteStore ----------------------------
(***************************************************************************)
(* A keyed entry with three versions, the last one a tombstone, and a log  *)
(* entry.  Two drop lists overlap: one for both older versions, one for    *)
(* the oldest again, as two devices that saw it superseded write them; the *)
(* second one also drops the log entry.                                    *)
(***************************************************************************)
EXTENDS LiteStore, TLC

CONSTANTS v1, v2, v3, msg, d1, d2, field

MCEntry   == {v1, v2, v3, msg}
MCKeyOf   == [e \in MCEntry |-> IF e = msg THEN NoKey ELSE field]
MCVersion == v1 :> 1 @@ v2 :> 2 @@ v3 :> 3 @@ msg :> 1
MCTargets == d1 :> {v1, v2} @@ d2 :> {v1, msg}
=============================================================================
