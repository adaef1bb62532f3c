------------------------------ MODULE MCColaIO ------------------------------
(***************************************************************************)
(* Instances of ColaIO for TLC.                                            *)
(***************************************************************************)
EXTENDS ColaIO

CONSTANTS p1, p2, p3, p4, a1, a2, b1, A, B

DosYUno == a1 :> A @@ a2 :> A @@ b1 :> B
Uno == a1 :> A
UnoYUno == a1 :> A @@ b1 :> B

QuitaBajoElBarrido ==
  {[estan |-> <<a1, b1>>, vienen |-> {}, caen |-> {a1}, carrera |-> TRUE, quita |-> TRUE]}

\* Two names, and a second device of one of them comes late; both devices of a
\* name may go; the only device of a name goes while another comes, at any moment;
\* and the only one of a name goes and takes entries out under the pass.
ConYSinCaidas ==
  {[estan |-> <<a1, b1>>, vienen |-> {a2}, caen |-> {}, carrera |-> FALSE, quita |-> FALSE],
   [estan |-> <<a1, a2>>, vienen |-> {}, caen |-> {a1, a2}, carrera |-> FALSE, quita |-> FALSE],
   [estan |-> <<a1>>, vienen |-> {a2}, caen |-> {a1}, carrera |-> TRUE, quita |-> FALSE]}
   \cup QuitaBajoElBarrido
CaeElUnico == {[estan |-> <<a1>>, vienen |-> {}, caen |-> {a1}, carrera |-> FALSE, quita |-> FALSE]}

DosUnoUno == p1 :> 2 @@ p2 :> 1 @@ p3 :> 1
UnoCadaUno == [p \in Pids |-> 1]
=============================================================================
