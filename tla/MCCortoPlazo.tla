---------------------------- MODULE MCCortoPlazo ----------------------------
(***************************************************************************)
(* Instances of CortoPlazo for TLC.                                        *)
(***************************************************************************)
EXTENDS CortoPlazo

CONSTANTS c1, c2

UnaCPU == <<c1>>
DosCPU == <<c1, c2>>
\* Two processes that block and one that does not: any of them is preempted by
\* a process that comes back from a short burst.
Programas == << <<"NOOP", "IO", "EXIT">>, <<"NOOP", "NOOP", "EXIT">>,
                <<"IO", "NOOP", "EXIT">> >>
Cortos == << <<"NOOP", "EXIT">>, <<"NOOP", "EXIT">>, <<"IO", "EXIT">> >>
=============================================================================
