---------------------------- MODULE CicloDeVida ----------------------------
(***************************************************************************)
(* What the kernel promises of each process, whatever its threads do: the  *)
(* seven states of nombre_estado, one at a time and along these arrows     *)
(* only, and a program counter kept when the process blocks, which only    *)
(* moves forward in the programs modelled (system calls, no GOTO).         *)
(*                                                                         *)
(*   NEW -> READY -> EXEC -> BLOCKED -> SUSP_BLOCKED -> SUSP_READY -> READY *)
(*                   EXEC -> EXIT       BLOCKED -> READY                    *)
(***************************************************************************)
EXTENDS Integers

CONSTANT MaxPid

VARIABLES estado, pc

Pids == 1..MaxPid
Estado == {"SIN_CREAR", "NEW", "READY", "EXEC", "BLOCKED", "SUSP_BLOCKED",
           "SUSP_READY", "EXIT"}

Tipos == estado \in [Pids -> Estado] /\ pc \in [Pids -> Nat]

\* The process the kernel is started with is the only one created at first.
Init ==
  /\ estado = [p \in Pids |-> IF p = 1 THEN "NEW" ELSE "SIN_CREAR"]
  /\ pc = [p \in Pids |-> 0]

Pasa(p, de, a) == estado[p] = de /\ estado' = [estado EXCEPT ![p] = a]

\* Pids are given in order.
Crear(p) ==
  /\ \A q \in 1..(p - 1) : estado[q] # "SIN_CREAR"
  /\ Pasa(p, "SIN_CREAR", "NEW")
  /\ UNCHANGED pc

Admitir(p)   == Pasa(p, "NEW", "READY") /\ UNCHANGED pc
Despachar(p) == Pasa(p, "READY", "EXEC") /\ UNCHANGED pc

\* A process blocks on a system call: it will go on after it.
Bloquear(p) ==
  /\ Pasa(p, "EXEC", "BLOCKED")
  /\ pc' \in [Pids -> Nat]
  /\ pc'[p] > pc[p]
  /\ \A q \in Pids \ {p} : pc'[q] = pc[q]

Desbloquear(p) ==
  /\ Pasa(p, "BLOCKED", "READY") \/ Pasa(p, "SUSP_BLOCKED", "SUSP_READY")
  /\ UNCHANGED pc

Suspender(p)    == Pasa(p, "BLOCKED", "SUSP_BLOCKED") /\ UNCHANGED pc
Desuspender(p)  == Pasa(p, "SUSP_READY", "READY") /\ UNCHANGED pc
Finalizar(p)    == Pasa(p, "EXEC", "EXIT") /\ UNCHANGED pc

Next ==
  \E p \in Pids : estado'[p] # estado[p] /\
    \/ Crear(p) \/ Admitir(p) \/ Despachar(p) \/ Bloquear(p)
    \/ Desbloquear(p) \/ Suspender(p) \/ Desuspender(p) \/ Finalizar(p)

Spec == Init /\ [][Next]_<<estado, pc>>
=============================================================================
