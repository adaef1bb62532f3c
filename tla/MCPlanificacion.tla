-------------------------- MODULE MCPlanificacion --------------------------
(***************************************************************************)
(* Instances of Planificacion for TLC.                                     *)
(***************************************************************************)
EXTENDS Planificacion

CONSTANTS c1, c2, d1

UnaCPU == <<c1>>
TamUniforme == [p \in Pids |-> 1]
\* The third process has no pages, as one started only to launch others.
TamMixto == <<1, 2, 0>>
=============================================================================
