---------------------------- MODULE MC_LiteSync ----------------------------
(* One device that watches, its mirror, and what another device sends there. *)
EXTENDS LiteSync

CONSTANTS a, r1, r2
MC_Author == (r1 :> a) @@ (r2 :> Other)

(* Bound: of the faults, MaxFaults happen in one behaviour. *)
CONSTANT MaxFaults
FewFaults == breaks' + reloads' + restarts' + timeouts' <= MaxFaults
MC_Next == Next /\ FewFaults
MC_Spec == Init /\ [][MC_Next]_vars /\ WF_vars(System)
=============================================================================
