----------------------------- MODULE MCMemoria -----------------------------
(* Instances of Memoria for TLC. *)
EXTENDS Memoria

CONSTANTS c1, c2, p1, p2, p3, p4

\* In bytes, with pages of two: two pages (the second not whole), one and one,
\* and a process with no tables.
TamCuatro == p1 :> 3 @@ p2 :> 2 @@ p3 :> 2 @@ p4 :> 0

LimpioOSucio == {{}, {0}}

\* No operator chooses among CPUs, nor among processes of one size.
Simetria == Permutations(CPUs) \cup Permutations({p2, p3})

\* Bound: with a cache in the CPUs, the process of two pages and one of one page.
DosConCache == conCache => /\ fase[p4] = "nuevo"
                           /\ fase[p2] = "nuevo" \/ fase[p3] = "nuevo"

=============================================================================
