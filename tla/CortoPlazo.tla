----------------------------- MODULE CortoPlazo -----------------------------
(***************************************************************************)
(* The short term planner with bursts (SJF and SRT) and the preemption of  *)
(* a CPU, both sides: the planner thread of the kernel, its dispatch and   *)
(* interrupt threads (one of each per CPU), and in each CPU the            *)
(* instruction cycle and the two threads that listen to the kernel.        *)
(*                                                                         *)
(* Planificacion is the kernel with all its queues and no preemption; here *)
(* a process is admitted at once, blocks on a device that exists and comes *)
(* back, and is never suspended.                                           *)
(*                                                                         *)
(* A step is what one thread does between two points where another thread  *)
(* or module can see it. A burst is measured in units of time and kept in  *)
(* quarters of a unit, so that ALFA may be 0, 1/4 .. 1.                    *)
(***************************************************************************)
EXTENDS Integers, SequencesExt

CONSTANTS
  Pids,               \* processes, each created once
  CpusConectadas,     \* lista_CPU when the planners start
  Nadie,              \* NULL
  Algoritmos,         \* values of ALGORITMO_CORTO_PLAZO to consider
  Programa,           \* of each process: its instructions, EXIT the last
  EstimacionInicial,  \* ESTIMACION_INICIAL
  Alfa,               \* ALFA, in quarters
  Rafagas,            \* times a process may have spent in the CPU
  Carreras            \* what may happen at an unlucky moment, see Entorno

\* "desalojo": a process makes a blocking system call while the planner decides
\* to preempt it or before the CPU has noticed. "contexto": the interrupt
\* overtakes the context of the process it is for (two sockets). "bandera": it
\* arrives before the CPU has cleared the flag of the one before. "syscall": a
\* system call arrives before the process has been added to EXEC.
Entorno == {"desalojo", "contexto", "bandera", "syscall"}

Cpus == Range(CpusConectadas)

ASSUME ConstantesCortoOK ==
  /\ CpusConectadas \in Seq(Cpus) /\ IsInjective(CpusConectadas)
  /\ Algoritmos \subseteq {"SJF", "SRT"}
  /\ Programa \in [Pids -> Seq({"NOOP", "IO", "EXIT"})]
  /\ \A p \in Pids : Programa[p] # <<>> /\ Last(Programa[p]) = "EXIT"
  /\ EstimacionInicial \in Nat /\ Alfa \in 0..4
  /\ Rafagas \subseteq Nat /\ Rafagas # {}
  /\ Carreras \subseteq Entorno
  /\ Nadie \notin Pids \cup Cpus

VARIABLES
  algoritmo,   \* ALGORITMO_CORTO_PLAZO, read when the kernel starts
  nuevos,      \* processes not yet admitted
  ready,       \* cola_READY
  lista,       \* EXEC, BLOCKED, EXIT: only searched by pid
  pcb,         \* programCounter, rafaga_anterior, estimacion_proxima_rafaga (x4)
  corto,       \* contador_replanificacion_corto or .._corto_desalojo
  plan,        \* planner thread: where it is, its process, the CPU it preempts
  listaCPU,    \* lista_CPU: its order
  running,     \* nodoCPU.proceso_running (estado is OCUPADO iff not NULL)
  desalojado,  \* binario_desalojado
  caido,       \* the kernel died of a NULL dereference
  disp, intr,  \* dispatch and interrupt thread of each CPU in the kernel
  enIO,        \* requests of each process queued for or served by a device
  aCpu, aInt,  \* sockets kernel -> CPU: dispatch, interrupt
  deCpu, deInt,\* sockets CPU -> kernel
  cpu,         \* each CPU: its globals, semaphores and place in the cycle
  hecho        \* history: instructions each process has executed

admVars == <<algoritmo, nuevos>>
procVars == <<admVars, ready, lista, pcb, corto>>
cpusVars == <<listaCPU, running>>
hilosVars == <<disp, intr>>
aVars == <<aCpu, aInt>>
deVars == <<deCpu, deInt>>
vars == <<procVars, plan, cpusVars, desalojado, caido, hilosVars, enIO, aVars,
          deVars, cpu, hecho>>

Envia(socket, c, m) == [socket EXCEPT ![c] = Append(@, m)]
Recibe(socket, c) == [socket EXCEPT ![c] = Tail(@)]

-----------------------------------------------------------------------------
(* Lists of processes. agregar_a_READY, _BLOCKED and _EXIT post both tokens  *)
(* of the short term; each planner waits for one of them.                    *)

agregar_a_READY(p) == ready' = Append(ready, p) /\ corto' = corto + 1

Mueve(g, h, p) == [lista EXCEPT ![g] = @ \ {p}, ![h] = @ \cup {p}]

\* A process enters READY from the long term planner.
Admitir(p) ==
  /\ p \in nuevos
  /\ nuevos' = nuevos \ {p}
  /\ agregar_a_READY(p)
  /\ UNCHANGED <<algoritmo, lista, pcb, plan, cpusVars, desalojado, caido,
                 hilosVars, enIO, aVars, deVars, cpu, hecho>>

-----------------------------------------------------------------------------
(* The planner thread: corto_plazo_SJF_READY, corto_plazo_SRT_READY.         *)

\* calculo_SJF. estimado_rafaga_anterior is never assigned after INIT_PROC.
calculo_SJF(x) ==
  IF x.rafaga = -1 THEN 4 * EstimacionInicial
  ELSE x.rafaga * Alfa + EstimacionInicial * (4 - Alfa)

\* aplicar_SFJ
Estimadas == [p \in Pids |-> IF p \in Range(ready)
                             THEN [pcb[p] EXCEPT !.est = calculo_SJF(pcb[p])]
                             ELSE pcb[p]]

\* Mutant of OrdenadaPor: the list is left as it is.
OrdenadaPor_sin_ordenar(s, x) == s

\* list_sort with tiene_rafaga_mas_corta (a merge sort whose comparator accepts
\* equals keeps their order): a before b when shorter, or equal and in front.
OrdenadaPor(s, x) ==
  LET antes(i, j) == \/ x[s[i]].est < x[s[j]].est
                     \/ x[s[i]].est = x[s[j]].est /\ i <= j
  IN [k \in DOMAIN s |->
        s[CHOOSE i \in DOMAIN s : Cardinality({j \in DOMAIN s : antes(j, i)}) = k]]

PlanQuieto == [en |-> "espera", p |-> Nadie, c |-> Nadie]

CortoDespierta ==
  /\ plan.en = "espera"
  /\ corto > 0
  /\ corto' = corto - 1
  /\ IF ready = <<>> THEN UNCHANGED <<ready, pcb, plan>>
     ELSE /\ pcb' = Estimadas
          /\ ready' = OrdenadaPor(ready, Estimadas)
          /\ plan' = [plan EXCEPT !.en = "busca", !.p = Head(ready')]
  /\ UNCHANGED <<admVars, lista, cpusVars, desalojado, caido, hilosVars, enIO,
                 aVars, deVars, cpu, hecho>>

Libres == {i \in DOMAIN listaCPU : running[listaCPU[i]] = Nadie}

Bloqueante(c) ==
  LET p == cpu[c].pid
  IN p # Nadie /\ Programa[p][cpu[c].pc + 1] # "NOOP"

\* No CPU is about to make, and no thread is serving, a blocking system call; each
\* has the context it was sent, whose first instruction may be one.
SinLlamadas ==
  \A c \in Cpus :
    /\ deCpu[c] = <<>> /\ disp[c].en = "recibe"
    /\ ~cpu[c].esp => cpu[c].en # "vacia" /\ ~Bloqueante(c)
    /\ "contexto" \in Carreras \/ (aCpu[c] = <<>> /\ (cpu[c].esp => cpu[c].ctx = 0))

\* buscar_cpu_disponible, and the send of the context when there is a free CPU.
\* SJF gives up when there is none; SRT goes on to preempt.
buscar_cpu_disponible ==
  /\ plan.en = "busca"
  /\ IF Libres # {}
     THEN LET c == listaCPU[Min(Libres)]
          IN /\ running' = [running EXCEPT ![c] = plan.p]
             /\ aCpu' = Envia(aCpu, c, [op |-> "CONTEXTO", p |-> plan.p,
                                        pc |-> pcb[plan.p].pc])
             /\ plan' = [plan EXCEPT !.en = "a_exec"]
     ELSE /\ \/ algoritmo = "SJF" /\ plan' = PlanQuieto
             \/ /\ algoritmo = "SRT"
                /\ "desalojo" \in Carreras \/ SinLlamadas
                /\ plan' = [plan EXCEPT !.en = "desaloja"]
          /\ UNCHANGED <<running, aCpu>>
  /\ UNCHANGED <<procVars, listaCPU, desalojado, caido, hilosVars, enIO, aInt,
                 deVars, cpu, hecho>>

\* mutex_cpus is kept by the planner from here to ConfirmarDesalojo.
MutexTomado == plan.en = "confirma"

\* The interrupt is for a process whose context the CPU has already taken.
ContextoLlego(c) ==
  \/ "contexto" \in Carreras
  \/ \A i \in DOMAIN aCpu[c] : aCpu[c][i].p # running[c]

\* ... and the CPU is done with the interrupt before.
BanderaBaja(c) == "bandera" \in Carreras \/ ~cpu[c].pend

\* buscar_cpu_disponible_desalojo. _tiene_estimacion_mas_grande reads a nodoCPU
\* as if it were a t_pcb, past its end: list_sort leaves any order. The CPU may
\* have been freed since it was found busy: its NULL process is dereferenced; so
\* is the NULL node of an empty list when no CPU has connected.
buscar_cpu_disponible_desalojo ==
  /\ plan.en = "desaloja"
  /\ \E f \in Bijection(DOMAIN listaCPU, DOMAIN listaCPU) :
       listaCPU' = [i \in DOMAIN listaCPU |-> listaCPU[f[i]]]
  /\ LET v == Head(listaCPU')
         q == running[v]
     IN IF listaCPU = <<>> \/ q = Nadie THEN caido' = TRUE /\ UNCHANGED <<plan, aInt>>
        ELSE /\ UNCHANGED caido
             /\ IF pcb[q].est > pcb[plan.p].est
                THEN /\ ContextoLlego(v) /\ BanderaBaja(v)
                     /\ aInt' = Envia(aInt, v, q)
                     /\ plan' = [plan EXCEPT !.en = "confirma", !.c = v]
                ELSE /\ plan' = PlanQuieto
                     /\ UNCHANGED aInt
  /\ UNCHANGED <<procVars, running, desalojado, hilosVars, enIO, aCpu, deVars, cpu,
                 hecho>>

\* Mutant of ConfirmarDesalojo: the planner does not wait for the CPU.
ConfirmarDesalojo_sin_espera ==
  /\ plan.en = "confirma"
  /\ desalojado' = desalojado - 1
  /\ running' = [running EXCEPT ![plan.c] = plan.p]
  /\ aCpu' = Envia(aCpu, plan.c, [op |-> "CONTEXTO_INTERRUPCION", p |-> plan.p,
                                  pc |-> pcb[plan.p].pc])
  /\ plan' = [plan EXCEPT !.en = "a_exec", !.c = Nadie]
  /\ UNCHANGED <<procVars, listaCPU, caido, hilosVars, enIO, aInt, deVars, cpu,
                 hecho>>

\* Mutant of ConfirmarDesalojo: proceso_running = proceso is forgotten.
ConfirmarDesalojo_sin_marcar ==
  /\ plan.en = "confirma"
  /\ desalojado > 0
  /\ desalojado' = desalojado - 1
  /\ aCpu' = Envia(aCpu, plan.c, [op |-> "CONTEXTO_INTERRUPCION", p |-> plan.p,
                                  pc |-> pcb[plan.p].pc])
  /\ plan' = [plan EXCEPT !.en = "a_exec", !.c = Nadie]
  /\ UNCHANGED <<procVars, cpusVars, caido, hilosVars, enIO, aInt, deVars, cpu,
                 hecho>>

\* sem_wait(binario_desalojado), then mark the CPU, send the context, unlock.
ConfirmarDesalojo ==
  /\ plan.en = "confirma"
  /\ desalojado > 0
  /\ desalojado' = desalojado - 1
  /\ running' = [running EXCEPT ![plan.c] = plan.p]
  /\ aCpu' = Envia(aCpu, plan.c, [op |-> "CONTEXTO_INTERRUPCION", p |-> plan.p,
                                  pc |-> pcb[plan.p].pc])
  /\ plan' = [plan EXCEPT !.en = "a_exec", !.c = Nadie]
  /\ UNCHANGED <<procVars, listaCPU, caido, hilosVars, enIO, aInt, deVars, cpu,
                 hecho>>

\* Mutant of ReadyAExec: the process stays in READY.
ReadyAExec_sin_sacar ==
  /\ plan.en = "a_exec"
  /\ lista' = [lista EXCEPT !["EXEC"] = @ \cup {plan.p}]
  /\ plan' = PlanQuieto
  /\ UNCHANGED <<admVars, ready, pcb, corto, cpusVars, desalojado, caido, hilosVars,
                 enIO, aVars, deVars, cpu, hecho>>

\* list_remove_element from READY and agregar_a_EXEC.
ReadyAExec ==
  /\ plan.en = "a_exec"
  /\ ready' = RemoveFirst(ready, plan.p)
  /\ lista' = [lista EXCEPT !["EXEC"] = @ \cup {plan.p}]
  /\ plan' = PlanQuieto
  /\ UNCHANGED <<admVars, pcb, corto, cpusVars, desalojado, caido, hilosVars, enIO,
                 aVars, deVars, cpu, hecho>>

-----------------------------------------------------------------------------
(* atender_kernel_cpu_dispatch: one thread per CPU.                          *)

\* running after liberar_cpu(p): the first node of the list that has p.
liberar_cpu(p) ==
  LET I == {i \in DOMAIN listaCPU : running[listaCPU[i]] = p}
  IN IF I = {} THEN running ELSE [running EXCEPT ![listaCPU[Min(I)]] = Nadie]

HiloVa(h, c, e) == [h EXCEPT ![c].en = e]
HiloCon(h, c, e, m) == [h EXCEPT ![c] = [en |-> e, p |-> m.p, pc |-> m.pc]]
HiloQueda(h, c) == [h EXCEPT ![c] = [en |-> "recibe", p |-> Nadie, pc |-> 0]]

\* How long a fetch takes against two list operations of the planner.
YaEnExec(p) == "syscall" \in Carreras \/ ~(plan.en = "a_exec" /\ plan.p = p)

RecibeLlamada(c, op, e) ==
  /\ disp[c].en = "recibe"
  /\ deCpu[c] # <<>> /\ Head(deCpu[c]).op = op
  /\ YaEnExec(Head(deCpu[c]).p)
  /\ deCpu' = Recibe(deCpu, c)
  /\ disp' = HiloCon(disp, c, e, Head(deCpu[c]))
  /\ UNCHANGED <<procVars, plan, cpusVars, desalojado, caido, intr, enIO, aVars,
                 deInt, cpu, hecho>>

SysComienzoIO(c) == RecibeLlamada(c, "IO", "io_libera")
SysExit(c) == RecibeLlamada(c, "EXIT", "exit_busca")

\* Mutant of LiberarPorIO: exec_a_blocked is not called.
LiberarPorIO_sin_bloquear(c) ==
  /\ disp[c].en = "io_libera"
  /\ ~MutexTomado
  /\ running' = liberar_cpu(disp[c].p)
  /\ disp' = HiloVa(disp, c, "io_encola")
  /\ UNCHANGED <<procVars, plan, listaCPU, desalojado, caido, intr, enIO, aVars,
                 deVars, cpu, hecho>>

\* liberar_cpu waits while the planner has mutex_cpus.
LiberarPorIO(c) ==
  /\ disp[c].en = "io_libera"
  /\ ~MutexTomado
  /\ running' = liberar_cpu(disp[c].p)
  /\ disp' = HiloVa(disp, c, "io_bloquea")
  /\ UNCHANGED <<procVars, plan, listaCPU, desalojado, caido, intr, enIO, aVars,
                 deVars, cpu, hecho>>

\* Mutant of exec_a_blocked: the pc of the message is not kept.
exec_a_blocked_sin_pc(p, pc) ==
  IF p \notin lista["EXEC"] THEN UNCHANGED <<lista, pcb, corto>>
  ELSE /\ lista' = Mueve("EXEC", "BLOCKED", p)
       /\ \E t \in Rafagas : pcb' = [pcb EXCEPT ![p].rafaga = t]
       /\ corto' = corto + 1

\* exec_a_blocked: nothing happens when the process is not in EXEC. The burst
\* is the time since the last context was sent.
exec_a_blocked(p, pc) ==
  IF p \notin lista["EXEC"] THEN UNCHANGED <<lista, pcb, corto>>
  ELSE /\ lista' = Mueve("EXEC", "BLOCKED", p)
       /\ \E t \in Rafagas : pcb' = [pcb EXCEPT ![p].pc = pc, ![p].rafaga = t]
       /\ corto' = corto + 1

BloquearPorIO(c) ==
  /\ disp[c].en = "io_bloquea"
  /\ exec_a_blocked(disp[c].p, disp[c].pc)
  /\ disp' = HiloVa(disp, c, "io_encola")
  /\ UNCHANGED <<admVars, ready, plan, cpusVars, desalojado, caido, intr, enIO,
                 aVars, deVars, cpu, hecho>>

agregar_a_cola_por_IO(c) ==
  /\ disp[c].en = "io_encola"
  /\ enIO' = [enIO EXCEPT ![disp[c].p] = @ + 1]
  /\ disp' = HiloQueda(disp, c)
  /\ UNCHANGED <<procVars, plan, cpusVars, desalojado, caido, intr, aVars, deVars,
                 cpu, hecho>>

\* EXIT_PID: the memory has ended the process; buscar_proceso_por_pid, which
\* takes it out of its list, may not find it.
ExitBusca(c) ==
  LET p == disp[c].p
  IN /\ disp[c].en = "exit_busca"
     /\ IF p \in lista["EXEC"] \cup lista["BLOCKED"]
        THEN /\ lista' = [g \in DOMAIN lista |-> lista[g] \ {p}]
             /\ disp' = HiloVa(disp, c, "exit_libera")
        ELSE disp' = HiloQueda(disp, c) /\ UNCHANGED lista
     /\ UNCHANGED <<admVars, ready, pcb, corto, plan, cpusVars, desalojado, caido,
                    intr, enIO, aVars, deVars, cpu, hecho>>

\* liberar_cpu and agregar_a_EXIT.
ExitLibera(c) ==
  /\ disp[c].en = "exit_libera"
  /\ ~MutexTomado
  /\ running' = liberar_cpu(disp[c].p)
  /\ lista' = [lista EXCEPT !["EXIT"] = @ \cup {disp[c].p}]
  /\ corto' = corto + 1
  /\ disp' = HiloQueda(disp, c)
  /\ UNCHANGED <<admVars, ready, pcb, plan, listaCPU, desalojado, caido, intr, enIO,
                 aVars, deVars, cpu, hecho>>

\* FIN_IO of some device: blocked_a_ready.
FinIO(p) ==
  /\ enIO[p] > 0
  /\ enIO' = [enIO EXCEPT ![p] = @ - 1]
  /\ IF p \in lista["BLOCKED"]
     THEN /\ lista' = [lista EXCEPT !["BLOCKED"] = @ \ {p}]
          /\ agregar_a_READY(p)
     ELSE UNCHANGED <<lista, ready, corto>>
  /\ UNCHANGED <<admVars, pcb, plan, cpusVars, desalojado, caido, hilosVars, aVars,
                 deVars, cpu, hecho>>

-----------------------------------------------------------------------------
(* atender_kernel_cpu_interrupt: one thread per CPU.                         *)

\* SYS_INTERRUPT: take the process out of EXEC (or BLOCKED), keep its pc,
\* subtract the time it ran from its estimate, free its CPU without the mutex.
\* A process that is in neither list is a NULL that the next line reads.
SysInterrupt(c) ==
  LET m == Head(deInt[c])
  IN /\ intr[c].en = "recibe"
     /\ deInt[c] # <<>>
     /\ deInt' = Recibe(deInt, c)
     /\ IF m.p \notin lista["EXEC"] \cup lista["BLOCKED"]
        THEN caido' = TRUE /\ UNCHANGED <<lista, pcb, running, intr>>
        ELSE /\ lista' = [g \in DOMAIN lista |-> lista[g] \ {m.p}]
             /\ \E t \in Rafagas : pcb' = [pcb EXCEPT ![m.p].pc = m.pc,
                                                      ![m.p].est = @ - 4 * t]
             /\ running' = liberar_cpu(m.p)
             /\ intr' = HiloCon(intr, c, "a_ready", m)
             /\ UNCHANGED caido
     /\ UNCHANGED <<admVars, ready, corto, plan, listaCPU, desalojado, disp, enIO,
                    aVars, deCpu, cpu, hecho>>

\* Mutant of DesalojadoAReady: the planner is not told.
DesalojadoAReady_sin_post(c) ==
  /\ intr[c].en = "a_ready"
  /\ agregar_a_READY(intr[c].p)
  /\ intr' = HiloQueda(intr, c)
  /\ UNCHANGED <<admVars, lista, pcb, plan, cpusVars, desalojado, caido, disp, enIO,
                 aVars, deVars, cpu, hecho>>

\* agregar_a_READY and sem_post(binario_desalojado).
DesalojadoAReady(c) ==
  /\ intr[c].en = "a_ready"
  /\ agregar_a_READY(intr[c].p)
  /\ desalojado' = desalojado + 1
  /\ intr' = HiloQueda(intr, c)
  /\ UNCHANGED <<admVars, lista, pcb, plan, cpusVars, caido, disp, enIO, aVars,
                 deVars, cpu, hecho>>

-----------------------------------------------------------------------------
(* The CPU module. Its two listening threads write the globals pid, pc and   *)
(* interrupcion_pendiente whatever the cycle is doing.                       *)

\* CONTEXTO always posts sem_contexto; CONTEXTO_INTERRUPCION only when the CPU
\* says it waits for one, and then sem_interrupt.
RecibeContexto(c) ==
  LET m == Head(aCpu[c])
  IN /\ aCpu[c] # <<>>
     /\ aCpu' = Recibe(aCpu, c)
     /\ cpu' = [cpu EXCEPT ![c].pid = m.p, ![c].pc = m.pc,
                           ![c].ctx = IF m.op = "CONTEXTO" \/ cpu[c].esp
                                     THEN @ + 1 ELSE @,
                           ![c].int = IF m.op = "CONTEXTO" THEN @ ELSE @ + 1]
     /\ UNCHANGED <<procVars, plan, cpusVars, desalojado, caido, hilosVars, enIO,
                    aInt, deVars, hecho>>

\* An interrupt for another pid is ignored.
RecibeInterrupt(c) ==
  /\ aInt[c] # <<>>
  /\ aInt' = Recibe(aInt, c)
  /\ cpu' = [cpu EXCEPT ![c].pend = @ \/ Head(aInt[c]) = cpu[c].pid]
  /\ UNCHANGED <<procVars, plan, cpusVars, desalojado, caido, hilosVars, enIO,
                 aCpu, deVars, hecho>>

\* Top of the cycle with esperar_contexto set.
CpuEspera(c) ==
  /\ cpu[c].en = "ciclo" /\ cpu[c].esp
  /\ cpu[c].ctx > 0
  /\ cpu' = [cpu EXCEPT ![c].esp = FALSE, ![c].ctx = @ - 1]
  /\ UNCHANGED <<procVars, plan, cpusVars, desalojado, caido, hilosVars, enIO,
                 aVars, deVars, hecho>>

\* A planner that is about to preempt finds the CPU in an instruction that does
\* not block, and the interrupt arrives before it ends.
Sereno(c) ==
  \/ "desalojo" \in Carreras
  \/ plan.en \notin {"desaloja", "confirma"}
  \/ cpu[c].pend

\* fetch, decode and execute. NOOP stands for the instructions that stay in the
\* CPU, IO for the system calls that block (DUMP_MEMORY is another, which sets
\* esperar_contexto before its flush). EXIT does not move the pc.
CpuEjecuta(c) ==
  LET p == cpu[c].pid
      i == Programa[p][cpu[c].pc + 1]
      sig == IF i = "EXIT" THEN cpu[c].pc ELSE cpu[c].pc + 1
  IN /\ cpu[c].en = "ciclo" /\ ~cpu[c].esp
     /\ Sereno(c)
     /\ hecho' = [hecho EXCEPT ![p] = @ + 1]
     /\ cpu' = [cpu EXCEPT ![c].pc = sig,
                           ![c].en = IF i = "NOOP" THEN "revisa" ELSE "vacia"]
     /\ deCpu' = IF i = "NOOP" THEN deCpu
                 ELSE Envia(deCpu, c, [op |-> i, p |-> p, pc |-> sig])
     /\ UNCHANGED <<procVars, plan, cpusVars, desalojado, caido, hilosVars, enIO,
                    aVars, deInt>>

\* desalojar_proceso, then esperar_contexto = true.
CpuVacia(c) ==
  /\ cpu[c].en = "vacia"
  /\ cpu' = [cpu EXCEPT ![c].esp = TRUE, ![c].en = "revisa"]
  /\ UNCHANGED <<procVars, plan, cpusVars, desalojado, caido, hilosVars, enIO,
                 aVars, deVars, hecho>>

\* check_interrupt, also after a system call that blocked.
check_interrupt(c) ==
  /\ cpu[c].en = "revisa"
  /\ cpu' = [cpu EXCEPT ![c].en = IF cpu[c].pend THEN "aguarda" ELSE "ciclo"]
  /\ deInt' = IF cpu[c].pend
              THEN Envia(deInt, c, [p |-> cpu[c].pid, pc |-> cpu[c].pc]) ELSE deInt
  /\ UNCHANGED <<procVars, plan, cpusVars, desalojado, caido, hilosVars, enIO,
                 aVars, deCpu, hecho>>

\* sem_wait(sem_interrupt).
CpuAguarda(c) ==
  /\ cpu[c].en = "aguarda"
  /\ cpu[c].int > 0
  /\ cpu' = [cpu EXCEPT ![c].int = @ - 1, ![c].en = "limpia"]
  /\ UNCHANGED <<procVars, plan, cpusVars, desalojado, caido, hilosVars, enIO,
                 aVars, deVars, hecho>>

\* Mutant of CpuLimpia: interrupcion_pendiente stays set.
CpuLimpia_sin_bajar(c) ==
  /\ cpu[c].en = "limpia"
  /\ cpu' = [cpu EXCEPT ![c].en = "ciclo"]
  /\ UNCHANGED <<procVars, plan, cpusVars, desalojado, caido, hilosVars, enIO,
                 aVars, deVars, hecho>>

CpuLimpia(c) ==
  /\ cpu[c].en = "limpia"
  /\ cpu' = [cpu EXCEPT ![c].pend = FALSE, ![c].en = "ciclo"]
  /\ UNCHANGED <<procVars, plan, cpusVars, desalojado, caido, hilosVars, enIO,
                 aVars, deVars, hecho>>

-----------------------------------------------------------------------------
HiloQuieto == [en |-> "recibe", p |-> Nadie, pc |-> 0]
CpuQuieta == [en |-> "ciclo", pid |-> Nadie, pc |-> 0, esp |-> TRUE, ctx |-> 0,
              int |-> 0, pend |-> FALSE]

Init ==
  /\ algoritmo \in Algoritmos
  /\ nuevos = Pids /\ ready = <<>>
  /\ lista = [g \in {"EXEC", "BLOCKED", "EXIT"} |-> {}]
  /\ pcb = [p \in Pids |-> [pc |-> 0, rafaga |-> -1, est |-> 4 * EstimacionInicial]]
  /\ corto = 0
  /\ plan = PlanQuieto
  /\ listaCPU = CpusConectadas
  /\ running = [c \in Cpus |-> Nadie]
  /\ desalojado = 0 /\ caido = FALSE
  /\ disp = [c \in Cpus |-> HiloQuieto] /\ intr = [c \in Cpus |-> HiloQuieto]
  /\ enIO = [p \in Pids |-> 0]
  /\ aCpu = [c \in Cpus |-> <<>>] /\ aInt = [c \in Cpus |-> <<>>]
  /\ deCpu = [c \in Cpus |-> <<>>] /\ deInt = [c \in Cpus |-> <<>>]
  /\ cpu = [c \in Cpus |-> CpuQuieta]
  /\ hecho = [p \in Pids |-> 0]

Planificador ==
  \/ CortoDespierta \/ buscar_cpu_disponible \/ buscar_cpu_disponible_desalojo
  \/ ConfirmarDesalojo \/ ReadyAExec

HiloDispatch(c) ==
  \/ SysComienzoIO(c) \/ LiberarPorIO(c) \/ BloquearPorIO(c)
  \/ agregar_a_cola_por_IO(c) \/ SysExit(c) \/ ExitBusca(c) \/ ExitLibera(c)

HiloInterrupt(c) == SysInterrupt(c) \/ DesalojadoAReady(c)

CicloCpu(c) ==
  \/ CpuEspera(c) \/ CpuEjecuta(c) \/ CpuVacia(c) \/ check_interrupt(c)
  \/ CpuAguarda(c) \/ CpuLimpia(c)

\* The kernel takes no step once it has fallen.
Next ==
  /\ ~caido
  /\ \/ \E p \in Pids : Admitir(p) \/ FinIO(p)
     \/ Planificador
     \/ \E c \in Cpus : HiloDispatch(c) \/ HiloInterrupt(c) \/ CicloCpu(c)
                          \/ RecibeContexto(c) \/ RecibeInterrupt(c)

Spec == Init /\ [][Next]_vars

Justicia ==
  /\ \A p \in Pids : WF_vars(~caido /\ Admitir(p)) /\ WF_vars(~caido /\ FinIO(p))
  /\ WF_vars(~caido /\ Planificador)
  /\ \A c \in Cpus :
       /\ WF_vars(~caido /\ HiloDispatch(c)) /\ WF_vars(~caido /\ HiloInterrupt(c))
       /\ WF_vars(~caido /\ CicloCpu(c)) /\ WF_vars(~caido /\ RecibeContexto(c))
       /\ WF_vars(~caido /\ RecibeInterrupt(c))

FairSpec == Spec /\ Justicia

-----------------------------------------------------------------------------
(* Properties *)

PidONadie == Pids \cup {Nadie}
Grupos == {"EXEC", "BLOCKED", "EXIT"}
Contextos == [op : {"CONTEXTO", "CONTEXTO_INTERRUPCION"}, p : Pids, pc : Nat]
Llamadas == [op : {"IO", "EXIT"}, p : Pids, pc : Nat]

TiposKernel ==
  /\ algoritmo \in Algoritmos /\ nuevos \subseteq Pids
  /\ ready \in Seq(Pids) /\ lista \in [Grupos -> SUBSET Pids]
  /\ pcb \in [Pids -> [pc : Nat, rafaga : Rafagas \cup {-1}, est : Int]]
  /\ corto \in Nat /\ desalojado \in Nat /\ caido \in BOOLEAN
  /\ listaCPU \in Seq(Cpus) /\ running \in [Cpus -> PidONadie]
  /\ enIO \in [Pids -> Nat]

TiposHilos ==
  /\ plan \in [en : {"espera", "busca", "desaloja", "confirma", "a_exec"},
               p : PidONadie, c : Cpus \cup {Nadie}]
  /\ plan.en # "espera" => plan.p \in Pids
  /\ plan.en = "confirma" => plan.c \in Cpus
  /\ disp \in [Cpus -> [en : {"recibe", "io_libera", "io_bloquea", "io_encola",
                              "exit_busca", "exit_libera"}, p : PidONadie, pc : Nat]]
  /\ intr \in [Cpus -> [en : {"recibe", "a_ready"}, p : PidONadie, pc : Nat]]
  /\ \A c \in Cpus : /\ disp[c].en # "recibe" => disp[c].p \in Pids
                     /\ intr[c].en # "recibe" => intr[c].p \in Pids

TiposCpu ==
  /\ aCpu \in [Cpus -> Seq(Contextos)] /\ aInt \in [Cpus -> Seq(Pids)]
  /\ deCpu \in [Cpus -> Seq(Llamadas)] /\ deInt \in [Cpus -> Seq([p : Pids, pc : Nat])]
  /\ cpu \in [Cpus -> [en : {"ciclo", "vacia", "revisa", "aguarda", "limpia"},
                       pid : PidONadie, pc : Nat, esp : BOOLEAN, ctx : Nat,
                       int : Nat, pend : BOOLEAN]]
  /\ hecho \in [Pids -> Nat]

\* Every variable has its type, and a thread that is not idle has a process.
TypeOK == TiposKernel /\ TiposHilos /\ TiposCpu

\* Where a PCB may be: a list, or the hand of a thread that took it out of one.
Sitios == (({"nuevos", "ready"} \cup Grupos) \X {Nadie}) \cup ({"disp", "intr"} \X Cpus)
En(x, p) ==
  CASE x[1] = "nuevos" -> p \in nuevos
    [] x[1] = "ready" -> p \in Range(ready)
    [] x[1] = "disp" -> disp[x[2]].en = "exit_libera" /\ disp[x[2]].p = p
    [] x[1] = "intr" -> intr[x[2]].en = "a_ready" /\ intr[x[2]].p = p
    [] OTHER -> p \in lista[x[1]]

\* However a preemption crosses a system call of the process it is for, the PCB
\* is not lost and not filed twice: buscar_proceso_por_pid takes it out under
\* the mutex of its list, and whoever comes second does not find it
\* (kernel_cpu_interrupt.c:16, planificadores.c:617-635 and 661-700).
UnSoloLugar ==
  /\ IsInjective(ready)
  /\ \A p \in Pids :
       \E x \in Sitios : En(x, p) /\ \A y \in Sitios \ {x} : ~En(y, p)

\* binario_desalojado is one semaphore for all CPUs, and the planner does not
\* look at which CPU posts it: a confirmation is there only for the preemption
\* the planner waits for, and only once (kernel_manejo_cpus.c:164-170).
UnaConfirmacion ==
  LET avisos == Cardinality({c \in Cpus : intr[c].en = "a_ready"})
  IN /\ desalojado + avisos <= 1
     /\ desalojado + avisos = 1 => plan.en = "confirma"
     /\ \A c \in Cpus : intr[c].en = "a_ready" => c = plan.c

\* A CPU in the middle of a process and not asked to leave it.
Ejecutando(c) == cpu[c].en = "ciclo" /\ ~cpu[c].esp /\ ~cpu[c].pend

\* The kernel and the CPUs agree: the process a CPU executes is the one its node
\* has, it is in EXEC or on its way, and no other CPU executes it.
AcuerdoConLaCpu ==
  \A c \in Cpus : Ejecutando(c) =>
    /\ running[c] = cpu[c].pid
    /\ cpu[c].pid \in lista["EXEC"] \/ (plan.en = "a_exec" /\ plan.p = cpu[c].pid)
    /\ \A d \in Cpus \ {c} : running[d] # cpu[c].pid

\* No instruction is repeated or skipped, however often the process is preempted
\* or blocks: a CPU executes the instruction that follows the last one executed,
\* wherever that was (check_interrupt, SYS_INTERRUPT, exec_a_blocked).
ContinuaDondeIba ==
  \A c \in Cpus : (cpu[c].en = "ciclo" /\ ~cpu[c].esp)
                    => cpu[c].pc = hecho[cpu[c].pid]

\* A process is BLOCKED from the time its IO is to be queued until a device ends
\* it, and at no other time: it does not execute during its IO, and its IO is not
\* forgotten (kernel_cpu_dispatch.c:29-32, kernel_io.c:12-17).
BloqueadoMientrasIO ==
  \A p \in Pids :
    LET pedidos == enIO[p] + Cardinality({c \in Cpus : disp[c].en = "io_encola"
                                                         /\ disp[c].p = p})
    IN pedidos = IF p \in lista["BLOCKED"] THEN 1 ELSE 0

\* The kernel does not fall: the CPU it preempts has a process, and the process of
\* an interrupt that is answered is in a list (kernel_manejo_cpus.c:163,
\* kernel_cpu_interrupt.c:16-17).
KernelEnPie == ~caido

KernelQuieto ==
  /\ plan.en = "espera" /\ corto = 0
  /\ \A c \in Cpus : disp[c].en = "recibe" /\ intr[c].en = "recibe"

\* What the planner promises once it has nothing left to look at: no process is in
\* READY with a CPU free and, with SRT, none is shorter than the one that
\* executes (planificadores.c:505-506), though each event posts one token only.
NadieMasCorto ==
  KernelQuieto => \A p \in Range(ready), c \in Cpus :
    /\ running[c] # Nadie
    /\ algoritmo = "SRT" => pcb[running[c]].est <= pcb[p].est

\* The comment on the sort says the CPUs are ordered by estimate: the one that is
\* preempted has the longest (kernel_manejo_cpus.c:161).
DesalojaAlMasLargo ==
  \A c, d \in Cpus : aInt[c] # <<>> /\ running[d] # Nadie
                       => pcb[running[d]].est <= pcb[Head(aInt[c])].est

\* Every process ends: the kernel never waits for ever for a CPU to confirm, nor
\* a CPU for a context.
TodosSalen == \A p \in Pids : <>(p \in lista["EXIT"])
=============================================================================
