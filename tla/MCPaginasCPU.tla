---------------------------- MODULE MCPaginasCPU ----------------------------
(* Instances of PaginasCPU for TLC. *)
EXTENDS PaginasCPU

CONSTANTS p1, p2, A

\* The second process shares with the first the number of one page.
TresYUna == p1 :> 3 @@ p2 :> 1

CPU(entradas, algoritmo, paginas, clock) ==
  [ENTRADAS_TLB |-> entradas, REEMPLAZO_TLB |-> algoritmo,
   ENTRADAS_CACHE |-> paginas, REEMPLAZO_CACHE |-> clock]

\* The files of src/cpu: swap (and estabilidad4), cpu, tlb, cache, corto (and
\* largo), estabilidad1 and estabilidad2, with three entries of TLB for four.
SinCache == {CPU(0, "FIFO", 0, "CLOCK"), CPU(2, "FIFO", 0, "CLOCK_MODIFICADO"),
             CPU(3, "LRU", 0, "CLOCK")}
ConClock == {CPU(0, "FIFO", 2, "CLOCK"), CPU(3, "LRU", 2, "CLOCK"), CPU(3, "FIFO", 2, "CLOCK")}
ConClockM == {CPU(3, "LRU", 2, "CLOCK_MODIFICADO")}
Archivos == ((SinCache \cup ConClockM) \X {TRUE}) \cup (ConClock \X {FALSE})

SoloCache == {<<CPU(0, "FIFO", 2, "CLOCK"), TRUE>>}
=============================================================================
