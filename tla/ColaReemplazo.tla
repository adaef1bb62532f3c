--------------------------- MODULE ColaReemplazo ---------------------------
(***************************************************************************)
(* What replacement in the TLB means, with no array and no times: a queue  *)
(* of at most `entradas` keys that loses its head when a key comes in and  *)
(* there is no room. FIFO keeps the place of a key that is used again, LRU *)
(* sends it to the end.                                                    *)
(***************************************************************************)
EXTENDS Integers, SequencesExt

CONSTANT Claves

VARIABLES
  entradas, algoritmo,
  cola,
  clave, veces         \* the key last used, and how many uses there have been

vars == <<entradas, algoritmo, cola, clave, veces>>

Init ==
  /\ entradas \in Nat /\ algoritmo \in {"FIFO", "LRU"}
  /\ cola = <<>>
  /\ clave = <<>> /\ veces = 0

Entra(k) == Append(IF Len(cola) < entradas THEN cola ELSE Tail(cola), k)
Vuelve(k) == IF algoritmo = "FIFO" THEN cola ELSE Append(RemoveFirst(cola, k), k)

Usar(k) ==
  /\ entradas > 0
  /\ cola' = IF k \in Range(cola) THEN Vuelve(k) ELSE Entra(k)
  /\ clave' = k /\ veces' = veces + 1

Vaciar == cola' = <<>> /\ UNCHANGED <<clave, veces>>

Next ==
  /\ (\E k \in Claves : Usar(k)) \/ Vaciar
  /\ UNCHANGED <<entradas, algoritmo>>

Spec == Init /\ [][Next]_vars
=============================================================================
