----------------------- MODULE PlanificacionCpu_proofs -----------------------
(***************************************************************************)
(* Proofs about the table of CPUs of Planificacion: to which CPU a process *)
(* is given, until when it is marked there, that no token of the short     *)
(* term planner is lost, that the lists refine the life cycle of           *)
(* CicloDeVida, that whoever is blocked will be woken, and what happens to *)
(* the frames of a process that is suspended, that ends or that may run.   *)
(***************************************************************************)
EXTENDS Planificacion_proofs, FiniteSetTheorems

-----------------------------------------------------------------------------
(* The inductive invariant.                                                 *)

\* The process has been given to a CPU: it is in EXEC, or the short term planner
\* has sent it and has still to file it there.
Despachado(p) ==
  p \in lista["EXEC"] \/ (hilo["corto"].en = "a_exec" /\ hilo["corto"].p = p)

\* Its PCB is in the hand of the EXIT_PID that will free the CPU.
Saliendo(p) == \E d \in CPUs : hilo[d].en = "exit_libera" /\ hilo[d].p = p

\* Handlers of the system call of a process that is still marked on their CPU,
\* and those that have freed it and have still to block the process.
ConCpu == {"dump_libera", "exit_espera", "busca_EXEC", "busca_BLOCKED", "busca_SUSP",
           "exit_libera"}
PorBloquear == {"io_bloquea", "dump_bloquea"}

\* A node is marked for a process that was dispatched and for one node only, and
\* it is in the list.
MarcaConsistente ==
  /\ \A c \in CPUs, p \in Pids : running[c] = p =>
       c \in Range(listaCPU) /\ (Despachado(p) \/ Saliendo(p))
  /\ \A c, d \in CPUs : running[c] # Nadie /\ running[c] = running[d] => c = d

\* What the CPU runs, what its last message says and what its handler carries is
\* the process marked on its node, and only one of the three at a time.
CpuConsistente ==
  /\ \A c \in CPUs : cpu[c].p # Nadie => running[c] = cpu[c].p
  /\ \A c \in CPUs : \A i \in 1..Len(deCpu[c]) : deCpu[c][i].op # "INIT_PROC" =>
       i = Len(deCpu[c]) /\ cpu[c].p = Nadie /\ running[c] = deCpu[c][i].p
  /\ \A c \in CPUs : hilo[c].en \in ConCpu =>
       running[c] = hilo[c].p /\ cpu[c].p = Nadie /\ deCpu[c] = <<>>

\* A process about to be blocked is marked nowhere and only one handler has it.
BloqueoConsistente ==
  \A c \in CPUs : hilo[c].en \in PorBloquear =>
    /\ Despachado(hilo[c].p)
    /\ \A d \in CPUs : running[d] # hilo[c].p
    /\ \A d \in CPUs : hilo[d].en \in PorBloquear /\ hilo[d].p = hilo[c].p => d = c

\* The program counters on their way are past the one in the PCB.
PcAvanza ==
  /\ \A c \in CPUs : cpu[c].p # Nadie => cpu[c].pc >= programCounter[cpu[c].p]
  /\ \A c \in CPUs : \A i \in 1..Len(deCpu[c]) : deCpu[c][i].op \in {"IO", "DUMP"} =>
       deCpu[c][i].pc > programCounter[deCpu[c][i].p]
  /\ \A c \in CPUs : hilo[c].en \in PorBloquear \cup {"dump_libera"} =>
       hilo[c].pc > programCounter[hilo[c].p]

CpuInv == MarcaConsistente /\ CpuConsistente /\ BloqueoConsistente /\ PcAvanza

-----------------------------------------------------------------------------
(* What the operations do to what the invariant speaks of.                  *)

\* What the proofs about the CPUs use of the types.
LEMMA HechosCpu ==
  ASSUME IInv
  PROVE  /\ TiposPlan /\ TiposHilo /\ TiposCPU /\ Nadie \notin Pids
         /\ \A c \in CPUs : c \in Hilos /\ c \notin {"main", "largo", "corto", "memoria"}
         /\ "corto" \in Hilos
         /\ \A c \in CPUs : running[c] \in PidONadie /\ cpu[c].p \in PidONadie
                            /\ deCpu[c] \in Seq(Llamadas)
         /\ \A t \in Hilos : hilo[t].en \notin Ociosas => hilo[t].p \in Pids
BY HilosDe, Disjuntos, ConstantesOK DEF IInv, TypeOK, TiposHilo, TiposCPU

\* The node of a process is freed, and no other.
LEMMA LiberarMarcada ==
  ASSUME IInv, MarcaConsistente, NEW c \in CPUs, NEW p \in Pids, running[c] = p
  PROVE  liberar_cpu(p) = [running EXCEPT ![c] = Nadie]
<1> DEFINE I == {i \in DOMAIN listaCPU : running[listaCPU[i]] = p}
<1>1. p # Nadie /\ c \in Range(listaCPU) /\ TiposCPU
  BY HechosCpu DEF MarcaConsistente
<1>2. I # {}
  BY <1>1 DEF Range
<1>3. Min(I) \in I /\ listaCPU[Min(I)] \in CPUs
  BY <1>1, <1>2, MinDeLista
<1>4. listaCPU[Min(I)] = c
  BY <1>1, <1>3 DEF MarcaConsistente
<1> QED BY <1>2, <1>4 DEF liberar_cpu

\* A message added at the end, and one taken from the front.
LEMMA UnMensajeMas ==
  ASSUME NEW s \in Seq(Llamadas), NEW m \in Llamadas
  PROVE  /\ Len(Append(s, m)) = Len(s) + 1
         /\ Append(s, m)[Len(s) + 1] = m
         /\ \A i \in 1..Len(s) : Append(s, m)[i] = s[i]
BY AppendProperties

\* A socket after its first message is taken.
LEMMA UnMensajeMenos ==
  ASSUME NEW s \in Seq(Llamadas), s # <<>>
  PROVE  /\ Len(s) \in Nat \ {0} /\ Head(s) = s[1] /\ Head(s) \in Llamadas
         /\ Len(Tail(s)) = Len(s) - 1
         /\ \A i \in 1..(Len(s) - 1) : Tail(s)[i] = s[i + 1]
         /\ Len(s) = 1 => Tail(s) = <<>>
<1>1. Len(s) \in Nat \ {0} /\ 1 \in 1..Len(s)
  BY EmptySeq, LenProperties
<1>2. Tail(s) \in Seq(Llamadas) /\ Len(Tail(s)) = Len(s) - 1
      /\ \A i \in 1..(Len(s) - 1) : Tail(s)[i] = s[i + 1]
  BY HeadTailProperties
<1>3. Len(s) = 1 => Tail(s) = <<>>
  <2>1. PICK t \in Seq(Llamadas) : t = Tail(s)
    BY <1>2
  <2> QED BY <1>1, <1>2, <2>1, EmptySeq
<1>4. Head(s) = s[1] /\ s[1] \in Llamadas
  BY <1>1, ElementOfSeq
<1> QED BY <1>1, <1>2, <1>3, <1>4

\* What is in a dispatch socket.
LEMMA Mensajes ==
  ASSUME IInv, NEW c \in CPUs, NEW i \in 1..Len(deCpu[c])
  PROVE  deCpu[c][i] \in Llamadas /\ deCpu[c][i].p \in Pids /\ deCpu[c][i].pc \in Pc
<1>1. deCpu[c] \in Seq(Llamadas)
  BY HechosCpu
<1>2. deCpu[c][i] \in Llamadas
  BY <1>1, ElementOfSeq
<1> QED BY <1>2 DEF Llamadas

\* The call a dispatch thread reads, when it is not an INIT_PROC, is the only one
\* in its socket and its process is the one marked on the CPU.
LEMMA LlamadaUnica ==
  ASSUME IInv, CpuConsistente, NEW c \in CPUs, NEW op, Recibe(c, op), op # "INIT_PROC"
  PROVE  LET m == Head(deCpu[c])
         IN /\ m \in Llamadas /\ m.op = op /\ m.p \in Pids /\ running[c] = m.p
            /\ m = deCpu[c][1] /\ 1 \in 1..Len(deCpu[c])
            /\ cpu[c].p = Nadie /\ deCpu' = [deCpu EXCEPT ![c] = <<>>]
            /\ hilo[c].en = "recibe"
<1> DEFINE m == Head(deCpu[c])
<1>1. deCpu[c] \in Seq(Llamadas) /\ deCpu[c] # <<>> /\ m.op = op /\ hilo[c].en = "recibe"
      /\ deCpu' = [deCpu EXCEPT ![c] = Tail(@)]
  BY HechosCpu DEF Recibe
<1>2. m = deCpu[c][1] /\ 1 \in 1..Len(deCpu[c]) /\ m \in Llamadas /\ m.p \in Pids
  <2>1. /\ Len(deCpu[c]) \in Nat \ {0} /\ m = deCpu[c][1] /\ m \in Llamadas
    BY <1>1, UnMensajeMenos
  <2> QED BY <2>1 DEF Llamadas
<1>3. 1 = Len(deCpu[c]) /\ cpu[c].p = Nadie /\ running[c] = m.p
  BY <1>1, <1>2 DEF CpuConsistente
<1>4. Tail(deCpu[c]) = <<>>
  BY <1>1, <1>3, UnMensajeMenos
<1> QED BY <1>1, <1>2, <1>3, <1>4

-----------------------------------------------------------------------------
(* The steps keep the invariant.                                            *)

\* What the handler of a CPU may do while the table of CPUs, the CPUs and EXEC
\* stay as they are: nothing, leave what it was doing (but for the end of
\* EXIT_PID), or go on looking for the process that ends.
Sigue(c) ==
  \/ hilo'[c] = hilo[c]
  \/ hilo[c].en # "exit_libera" /\ hilo'[c].en \notin ConCpu \cup PorBloquear
  \/ /\ hilo[c].en \in ConCpu \ {"exit_libera"} /\ hilo'[c].en \in ConCpu \ {"dump_libera"}
     /\ hilo'[c].p = hilo[c].p

\* A step that leaves the table of CPUs (but for one that connects), the CPUs
\* and EXEC as they are, and the short term planner where it is.
Ajeno ==
  /\ UNCHANGED <<running, cpu, deCpu, programCounter>>
  /\ listaCPU' = listaCPU \/ \E c \in CPUs : listaCPU' = Append(listaCPU, c)
  /\ lista'["EXEC"] = lista["EXEC"]
  /\ \/ hilo'["corto"] = hilo["corto"]
     \/ {hilo["corto"].en, hilo'["corto"].en} \subseteq {"apagado", "espera", "busca_cpu"}
  /\ \A c \in CPUs : Sigue(c)

\* A step that is of no CPU keeps CpuInv.
LEMMA CpuAjeno ==
  ASSUME IInv, CpuInv, Ajeno
  PROVE  CpuInv'
<1> USE DEF CpuInv
<1>0. /\ UNCHANGED <<running, cpu, deCpu, programCounter>> /\ lista'["EXEC"] = lista["EXEC"]
      /\ Range(listaCPU) \subseteq Range(listaCPU') /\ \A c \in CPUs : Sigue(c)
  <2>1. \A c \in CPUs : Range(Append(listaCPU, c)) = Range(listaCPU) \cup {c}
    BY HechosCpu, AppendPropiedades DEF TiposCPU
  <2> QED BY <2>1 DEF Ajeno
<1>1. \A p : Despachado(p)' <=> Despachado(p)
  BY <1>0 DEF Ajeno, Despachado
<1>2. \A p : Saliendo(p) => Saliendo(p)'
  <2> SUFFICES ASSUME NEW p, NEW d \in CPUs, hilo[d].en = "exit_libera", hilo[d].p = p
               PROVE  Saliendo(p)'
    BY DEF Saliendo
  <2>1. hilo'[d] = hilo[d]
    BY <1>0 DEF Sigue
  <2> QED BY <2>1 DEF Saliendo
<1>3. MarcaConsistente'
  BY <1>0, <1>1, <1>2 DEF MarcaConsistente
<1>4. CpuConsistente'
  BY <1>0 DEF CpuConsistente, Sigue
<1>5. \A c \in CPUs : hilo'[c].en \in PorBloquear => hilo'[c] = hilo[c]
  BY <1>0 DEF Sigue, ConCpu, PorBloquear
<1>6. BloqueoConsistente'
  BY <1>0, <1>1, <1>5 DEF BloqueoConsistente
<1>7. \A c \in CPUs : hilo'[c].en = "dump_libera" => hilo'[c] = hilo[c]
  BY <1>0 DEF Sigue, ConCpu, PorBloquear
<1>8. PcAvanza'
  BY <1>0, <1>5, <1>7 DEF PcAvanza
<1> QED BY <1>3, <1>4, <1>6, <1>8

\* The handlers of the planners, of INIT_PROC, of the devices, of the timers and
\* of the answers of the memory.
LEMMA OtrosAjenos ==
  ASSUME IInv,
         \/ \E t \in {"main", "largo"} \cup CPUs : Creacion(t)
         \/ ejecutar_planificadores \/ Largo
         \/ \E d \in Ios : IO(d)
         \/ \E p \in Pids : Timer(p)
         \/ Memoria \/ RespuestasMemoria \/ UNCHANGED vars
         \/ \E c \in CPUs : conectar_cpu(c) \/ agregar_a_cola_por_IO(c) \/ ReiniciarFinalizar(c)
  PROVE  /\ Ajeno
         /\ \A c \in CPUs : hilo'[c].en \in PorBloquear <=> hilo[c].en \in PorBloquear
         /\ \/ hilo'["corto"] = hilo["corto"]
            \/ hilo["corto"].en = "apagado" /\ hilo'["corto"].en = "espera"
<1> DEFINE Igual == /\ \A c \in CPUs : hilo'[c].en \in PorBloquear <=> hilo[c].en \in PorBloquear
                    /\ \/ hilo'["corto"] = hilo["corto"]
                       \/ hilo["corto"].en = "apagado" /\ hilo'["corto"].en = "espera"
<1> SUFFICES Ajeno /\ Igual
  OBVIOUS
<1> DEFINE Otro == CPUs \cup {"corto"}
<1>0. hilo \in [Hilos -> [en : Etiquetas, p : PidONadie, pc : Pc]] /\ Otro \subseteq Hilos
  BY HechosCpu DEF TiposHilo
<1>a. ASSUME UNCHANGED <<running, cpu, deCpu, programCounter, listaCPU>>,
             lista'["EXEC"] = lista["EXEC"], hilo'["corto"] = hilo["corto"],
             \A c \in CPUs : Sigue(c) /\ (hilo'[c] = hilo[c] \/ hilo[c].en \notin PorBloquear),
             \A c \in CPUs : hilo'[c] = hilo[c] \/ hilo'[c].en \notin PorBloquear
      PROVE  Ajeno /\ Igual
  BY <1>a DEF Ajeno
<1>b. ASSUME NEW t \in Hilos, \/ \E e : Va(t, e) \/ Queda(t, e) \/ \E p, k : VaCon(t, e, p, k)
                              \/ UNCHANGED hilo
      PROVE  \A u \in Hilos \ {t} : hilo'[u] = hilo[u]
  BY <1>0, <1>b DEF Va, Queda, VaCon
<1> HIDE DEF Otro
<1>1. ASSUME NEW t \in {"main", "largo"} \cup CPUs, Creacion(t) PROVE Ajeno /\ Igual
  <2>1. /\ UNCHANGED <<running, cpu, deCpu, programCounter, listaCPU, lista>>
        /\ hilo[t].en \in {"init_consulta", "init_consulta_susp", "init_a_new", "crear_envia",
                           "crear_espera", "crear_saca", "crear_agrega", "crear_reinicia"}
    BY <1>1 DEF Creacion, ConsultarNEW, ConsultarSUSP, InitAgregaNEW, EnviarCrear, RespuestaCrear,
       SacarDeNEW, CreadoAReady, ReiniciarCrear, planVars, cpuVars
  <2>2. \E e \in {"init_consulta_susp", "init_a_new", "crear_envia", "crear_espera", "crear_saca",
                  "crear_agrega", "crear_reinicia", "espera", Reposo(t)} : Va(t, e) \/ Queda(t, e)
    BY <1>1 DEF Creacion, ConsultarNEW, ConsultarSUSP, InitAgregaNEW, EnviarCrear, RespuestaCrear,
       SacarDeNEW, CreadoAReady, ReiniciarCrear
  <2>3. t \in Hilos /\ t # "corto"
    BY HilosDe, Disjuntos
  <2>4. /\ hilo'["corto"] = hilo["corto"] /\ \A c \in CPUs \ {t} : hilo'[c] = hilo[c]
        /\ hilo'[t].en \notin ConCpu \cup PorBloquear /\ hilo[t].en \notin PorBloquear \cup {"exit_libera"}
    <3>1. \A u \in Hilos \ {t} : hilo'[u] = hilo[u]
      BY <1>b, <2>2, <2>3
    <3>2. hilo'[t].en \notin ConCpu \cup PorBloquear
      BY <1>0, <2>2, <2>3 DEF Va, Queda, Parado, Reposo, ConCpu, PorBloquear
    <3> QED BY <2>1, <2>3, <3>1, <3>2, HilosDe DEF PorBloquear
  <2> QED BY <1>a, <2>1, <2>4 DEF Sigue
<1>2. CASE ejecutar_planificadores
  <2>1. /\ hilo["corto"].en = "apagado"
        /\ UNCHANGED <<running, cpu, deCpu, programCounter, listaCPU, lista>>
    BY <1>2 DEF ejecutar_planificadores, planVars, cpuVars, IInv, Arranque
  <2>2. /\ hilo'["corto"].en = "espera" /\ \A c \in CPUs : hilo'[c] = hilo[c]
    BY <1>0, <1>2, HechosCpu DEF ejecutar_planificadores, Parado
  <2> QED BY <2>1, <2>2 DEF Ajeno, Sigue
<1>3. CASE Largo
  <2>1. UNCHANGED <<running, cpu, deCpu, programCounter, listaCPU, lista>>
    BY <1>3 DEF Largo, LargoDespierta, LargoEligeNEW, LargoEligeSUSP, EnviarDesuspender,
       RespuestaDesuspender, DesuspendidoAReady, ReiniciarDesuspender, planVars, cpuVars
  <2>2. \E e : Va("largo", e) \/ Queda("largo", e) \/ \E p, k : VaCon("largo", e, p, k)
    BY <1>3 DEF Largo, LargoDespierta, LargoEligeNEW, LargoEligeSUSP, EnviarDesuspender,
       RespuestaDesuspender, DesuspendidoAReady, ReiniciarDesuspender, Elige
  <2>3. hilo'["corto"] = hilo["corto"] /\ \A c \in CPUs : hilo'[c] = hilo[c]
    BY <1>b, <2>2, HilosDe, HechosCpu
  <2> QED BY <1>a, <2>1, <2>3 DEF Sigue
<1>5. ASSUME NEW d \in Ios, IO(d) PROVE Ajeno /\ Igual
  <2>1. UNCHANGED <<running, cpu, deCpu, programCounter, listaCPU>>
    BY <1>5 DEF IO, atender_cola_espera, FinIO, FinIOSusp, planVars, cpuVars
  <2>2. lista'["EXEC"] = lista["EXEC"]
    BY <1>5, HechosCpu DEF IO, atender_cola_espera, FinIO, FinIOSusp, planVars, DesdeBLOCKED,
       DesdeSUSP_BLOCKED, TiposPlan, Grupos
  <2>3. UNCHANGED hilo \/ \E e : Queda(d, e) \/ \E p, k : VaCon(d, e, p, k)
    BY <1>5 DEF IO, atender_cola_espera, FinIO, FinIOSusp
  <2>4. d \in Hilos /\ d # "corto" /\ d \notin CPUs
    BY HilosDe, Disjuntos, ConstantesOK
  <2>5. hilo'["corto"] = hilo["corto"] /\ \A c \in CPUs : hilo'[c] = hilo[c]
    BY <1>b, <2>3, <2>4, HilosDe
  <2> QED BY <1>a, <2>1, <2>2, <2>5 DEF Sigue
<1>6. ASSUME NEW p \in Pids, Timer(p) PROVE Ajeno /\ Igual
  <2>1. UNCHANGED <<running, cpu, deCpu, programCounter, listaCPU, hilo>>
    BY <1>6 DEF Timer, TimerVence, TimerSuspende, TimerAvisa, cpuVars
  <2>2. lista'["EXEC"] = lista["EXEC"]
    BY <1>6, HechosCpu DEF Timer, TimerVence, TimerSuspende, TimerAvisa, Mueve, TiposPlan, Grupos
  <2> QED BY <1>a, <2>1, <2>2 DEF Sigue
<1>7. CASE Memoria \/ UNCHANGED vars
  BY <1>7, <1>a DEF Memoria, vars, planVars, cpuVars, Sigue
<1>8. CASE RespuestasMemoria
  <2>1. UNCHANGED <<running, cpu, deCpu, programCounter, listaCPU>>
    BY <1>8 DEF RespuestasMemoria, RespuestaPedido, RespuestaDump, RespuestaDumpSusp,
       RespuestaDesconocida, planVars, cpuVars
  <2>2. lista'["EXEC"] = lista["EXEC"]
    BY <1>8, HechosCpu DEF RespuestasMemoria, RespuestaPedido, RespuestaDump, RespuestaDumpSusp,
       RespuestaDesconocida, planVars, DesdeBLOCKED, DesdeSUSP_BLOCKED, TiposPlan, Grupos
  <2>3. UNCHANGED hilo \/ \E e : Queda("memoria", e) \/ \E p, k : VaCon("memoria", e, p, k)
    BY <1>8 DEF RespuestasMemoria, RespuestaPedido, RespuestaDump, RespuestaDumpSusp,
       RespuestaDesconocida
  <2>4. hilo'["corto"] = hilo["corto"] /\ \A c \in CPUs : hilo'[c] = hilo[c]
    BY <1>b, <2>3, HilosDe, HechosCpu
  <2> QED BY <1>a, <2>1, <2>2, <2>4 DEF Sigue
<1>9. ASSUME NEW c \in CPUs, conectar_cpu(c) PROVE Ajeno /\ Igual
  <2>1. /\ UNCHANGED <<running, cpu, deCpu, programCounter, hilo, lista>>
        /\ listaCPU' = Append(listaCPU, c) /\ listaCPU \in Seq(CPUs)
    BY <1>9, HechosCpu DEF conectar_cpu, planVars, cpuVars, TiposCPU
  <2>2. Range(listaCPU) \subseteq Range(listaCPU')
    BY <2>1, AppendPropiedades
  <2> QED BY <2>1, <2>2 DEF Ajeno, Sigue
<1>10. ASSUME NEW c \in CPUs, agregar_a_cola_por_IO(c) \/ ReiniciarFinalizar(c)
       PROVE  Ajeno /\ Igual
  <2>1. /\ UNCHANGED <<running, cpu, deCpu, programCounter, listaCPU, lista>>
        /\ hilo[c].en \notin PorBloquear \cup {"exit_libera"} /\ Queda(c, "recibe")
    BY <1>10 DEF PorBloquear, agregar_a_cola_por_IO, ReiniciarFinalizar, planVars, cpuVars
  <2>2. /\ hilo'["corto"] = hilo["corto"] /\ hilo'[c].en = "recibe"
        /\ \A d \in CPUs \ {c} : hilo'[d] = hilo[d]
    BY <1>0, <2>1, HechosCpu DEF Queda, Parado
  <2> QED BY <1>a, <2>1, <2>2 DEF Sigue, ConCpu, PorBloquear
<1> QED BY <1>1, <1>2, <1>3, <1>5, <1>6, <1>7, <1>8, <1>9, <1>10

\* CpuInv: the threads that have nothing to do with a CPU.
LEMMA CpuOtros ==
  ASSUME IInv, CpuInv,
         \/ \E t \in {"main", "largo"} \cup CPUs : Creacion(t)
         \/ ejecutar_planificadores \/ Largo
         \/ \E d \in Ios : IO(d)
         \/ \E p \in Pids : Timer(p)
         \/ Memoria \/ RespuestasMemoria \/ UNCHANGED vars
         \/ \E c \in CPUs : conectar_cpu(c) \/ agregar_a_cola_por_IO(c) \/ ReiniciarFinalizar(c)
  PROVE  CpuInv'
BY OtrosAjenos, CpuAjeno

\* CpuInv: the planner takes a token.
LEMMA CpuDespierta ==
  ASSUME IInv, CpuInv, CortoDespierta
  PROVE  CpuInv'
<1>1. /\ UNCHANGED <<running, cpu, deCpu, programCounter, listaCPU, lista>>
      /\ hilo["corto"].en = "espera"
      /\ UNCHANGED hilo \/ \E p : VaCon("corto", "busca_cpu", p, 0)
  BY DEF CortoDespierta, cpuVars
<1>2. /\ hilo'["corto"].en \in {"espera", "busca_cpu"}
      /\ \A c \in CPUs : hilo'[c] = hilo[c]
  BY <1>1, HechosCpu DEF VaCon, TiposHilo
<1> QED BY <1>1, <1>2, CpuAjeno DEF Ajeno, Sigue

\* CpuInv: the planner looks for a free CPU and sends it the context.
LEMMA CpuDespacho ==
  ASSUME IInv, CpuInv, enviar_a_cpu
  PROVE  CpuInv'
<1> USE DEF CpuInv
<1> DEFINE p == hilo["corto"].p
<1>0. /\ hilo \in [Hilos -> [en : Etiquetas, p : PidONadie, pc : Pc]] /\ "corto" \in Hilos
      /\ \A c \in CPUs : c \in Hilos /\ c # "corto"
      /\ hilo["corto"].en = "busca_cpu" /\ p \in Pids
      /\ UNCHANGED <<lista, programCounter, listaCPU, deCpu>>
  BY HechosCpu DEF TiposHilo, enviar_a_cpu, planVars, Ociosas
<1>1. CASE Libres = {}
  <2>1. Queda("corto", "espera") /\ UNCHANGED <<running, cpu>>
    BY <1>1 DEF enviar_a_cpu
  <2>2. hilo'["corto"].en = "espera" /\ \A c \in CPUs : hilo'[c] = hilo[c]
    BY <1>0, <2>1 DEF Queda, Parado
  <2> QED BY <1>0, <2>1, <2>2, CpuAjeno DEF Ajeno, Sigue
<1>2. CASE Libres # {}
  <2> DEFINE k == listaCPU[Min(Libres)]
  <2>1. Min(Libres) \in Libres /\ k \in CPUs
    BY <1>2, HechosCpu, MinDeLista DEF Libres
  <2>2. PICK c \in CPUs :
          /\ c = k /\ running[c] = Nadie /\ c \in Range(listaCPU)
          /\ running' = [running EXCEPT ![c] = p]
          /\ cpu' = [cpu EXCEPT ![c] = [p |-> p, pc |-> programCounter[p]]]
          /\ Va("corto", "a_exec")
    BY <1>2, <2>1 DEF enviar_a_cpu, Libres, Range
  <2> HIDE DEF k
  <2>3. /\ hilo'["corto"].en = "a_exec" /\ hilo'["corto"].p = p
        /\ \A d \in CPUs : hilo'[d] = hilo[d]
    BY <1>0, <2>2 DEF Va
  <2>4. /\ running'[c] = p /\ cpu'[c].p = p /\ cpu'[c].pc = programCounter[p]
        /\ \A d \in CPUs \ {c} : running'[d] = running[d] /\ cpu'[d] = cpu[d]
    BY <2>2, HechosCpu DEF TiposCPU
  <2>5. ~Despachado(p) /\ ~Saliendo(p)
    <3>1. En("READY", p)
      BY <1>0, EnPartes DEF IInv, PunteroVigente, Estados
    <3>2. /\ \A g \in Grupos : p \notin lista[g]
          /\ \A t \in Hilos : ~(hilo[t].p = p /\ hilo[t].en \in EnMano(t))
      BY <1>0, <3>1, NoEstaEnOtro, Disjuntos DEF IInv, Lugar, Estados
    <3>3. \A d \in CPUs : "exit_libera" \in EnMano(d)
      BY Manos, HechosCpu
    <3> QED BY <1>0, <3>2, <3>3 DEF Despachado, Saliendo, Grupos
  <2>6. \A d \in CPUs : running[d] # p
    BY <1>0, <2>5, HechosCpu DEF MarcaConsistente
  <2>7. \A r : /\ Despachado(r) => Despachado(r)'
               /\ Saliendo(r) <=> Saliendo(r)'
    BY <1>0, <2>3 DEF Despachado, Saliendo
  <2>8. \A r : r = p => Despachado(r)'
    BY <2>3 DEF Despachado
  <2>9. MarcaConsistente'
    <3>1. ASSUME NEW d \in CPUs, NEW r \in Pids, running'[d] = r
          PROVE  d \in Range(listaCPU') /\ (Despachado(r)' \/ Saliendo(r)')
      <4>1. CASE d = c
        BY <1>0, <2>2, <2>4, <2>8, <3>1, <4>1
      <4>2. CASE d # c
        BY <1>0, <2>4, <2>7, <3>1, <4>2 DEF MarcaConsistente
      <4> QED BY <4>1, <4>2
    <3>2. \A d, e \in CPUs : running'[d] # Nadie /\ running'[d] = running'[e] => d = e
      BY <2>4, <2>6 DEF MarcaConsistente
    <3> QED BY <3>1, <3>2 DEF MarcaConsistente
  <2>10. hilo[c].en \notin ConCpu
    <3>1. hilo[c].en \in ConCpu => hilo[c].p \in Pids
      BY HechosCpu DEF ConCpu, Ociosas
    <3> QED BY <2>2, <3>1, HechosCpu DEF CpuConsistente
  <2>11. \A i \in 1..Len(deCpu[c]) : deCpu[c][i].op = "INIT_PROC"
    <3>1. \A i \in 1..Len(deCpu[c]) : deCpu[c][i].p \in Pids
      BY Mensajes
    <3> QED BY <2>2, <3>1, HechosCpu DEF CpuConsistente
  <2>12. CpuConsistente'
    BY <1>0, <2>3, <2>4, <2>10, <2>11 DEF CpuConsistente
  <2>13. BloqueoConsistente'
    BY <1>0, <2>3, <2>4, <2>5, <2>7 DEF BloqueoConsistente
  <2>14. PcAvanza'
    <3>1. programCounter[p] \in Int
      BY <1>0, HechosCpu DEF TiposPlan, Pc
    <3> QED BY <1>0, <2>3, <2>4, <3>1 DEF PcAvanza
  <2> QED BY <2>9, <2>12, <2>13, <2>14
<1> QED BY <1>1, <1>2

\* CpuInv: the process leaves READY for EXEC.
LEMMA CpuAExec ==
  ASSUME IInv, CpuInv, ReadyAExec
  PROVE  CpuInv'
<1> USE DEF CpuInv
<1> DEFINE p == hilo["corto"].p
<1>1. /\ hilo["corto"].en = "a_exec" /\ hilo'["corto"].en = "espera"
      /\ \A d \in CPUs : hilo'[d] = hilo[d]
      /\ UNCHANGED <<running, programCounter, listaCPU, cpu, deCpu>>
      /\ lista'["EXEC"] = lista["EXEC"] \cup {p}
  BY HechosCpu DEF ReadyAExec, Queda, Parado, TiposHilo, TiposPlan, Grupos, cpuVars
<1>2. \A r : Despachado(r)' <=> Despachado(r)
  BY <1>1 DEF Despachado
<1>3. \A r : Saliendo(r)' <=> Saliendo(r)
  BY <1>1 DEF Saliendo
<1>4. MarcaConsistente' /\ CpuConsistente'
  BY <1>1, <1>2, <1>3 DEF MarcaConsistente, CpuConsistente
<1>5. BloqueoConsistente' /\ PcAvanza'
  BY <1>1, <1>2 DEF BloqueoConsistente, PcAvanza
<1> QED BY <1>4, <1>5

\* A CPU sends a call: the tables stay as they are.
LEMMA CpuLlama ==
  ASSUME IInv, CpuInv, NEW c \in CPUs, Cpu(c)
  PROVE  CpuInv'
<1> USE DEF CpuInv
<1> DEFINE p == cpu[c].p
           s == deCpu[c]
           n == Len(s)
<1>0. /\ p \in Pids /\ running[c] = p /\ hilo[c].en \notin ConCpu
      /\ \A i \in 1..n : s[i].op = "INIT_PROC"
      /\ s \in Seq(Llamadas) /\ n \in Nat
      /\ cpu[c].pc >= programCounter[p] /\ programCounter[p] \in Int /\ cpu[c].pc \in Pc
      /\ cpu \in [CPUs -> [p : PidONadie, pc : Pc]] /\ deCpu \in [CPUs -> Seq(Llamadas)]
  <2>1. p # Nadie /\ p \in PidONadie
    BY HechosCpu DEF Cpu, CpuBloqueante, CpuInitProc, PuedeLlamar
  <2>2. p \in Pids /\ s \in Seq(Llamadas)
    BY <2>1, HechosCpu DEF PidONadie
  <2>3. programCounter[p] \in Int /\ cpu[c].pc \in Pc
    BY <2>2, HechosCpu DEF TiposPlan, TiposCPU, Pc
  <2> QED BY <2>1, <2>2, <2>3, LenProperties, HechosCpu DEF CpuConsistente, PcAvanza, TiposCPU
<1>1. UNCHANGED <<running, programCounter, listaCPU, lista, hilo>>
  BY DEF Cpu, CpuBloqueante, CpuInitProc, planVars
<1>2. MarcaConsistente' /\ BloqueoConsistente'
  BY <1>1 DEF MarcaConsistente, BloqueoConsistente, Despachado, Saliendo
<1>3. ASSUME NEW m \in Llamadas, m.p = p, deCpu' = [deCpu EXCEPT ![c] = Append(@, m)]
      PROVE  /\ Len(deCpu'[c]) = n + 1 /\ deCpu'[c][n + 1] = m
             /\ \A i \in 1..n : deCpu'[c][i] = s[i]
             /\ \A d \in CPUs \ {c} : deCpu'[d] = deCpu[d]
  BY <1>0, <1>3, UnMensajeMas
<1>4. CASE CpuBloqueante(c)
  <2>1. PICK op \in {"IO", "DUMP", "EXIT", "IO_INEXISTENTE"}, k \in Pc :
          /\ Llama(c, op, k)
          /\ op \in {"IO", "DUMP"} => k = cpu[c].pc + 1
    <3>1. CASE \E op \in {"EXIT"} \cup ({"IO_INEXISTENTE"} \cap Instrucciones) : Llama(c, op, cpu[c].pc)
      BY <1>0, <3>1
    <3>2. CASE /\ cpu[c].pc < MaxPc
               /\ \E op \in {"IO", "DUMP"} \cap Instrucciones : Llama(c, op, cpu[c].pc + 1)
      <4>1. cpu[c].pc + 1 \in Pc
        BY <1>0, <3>2, ConstantesOK DEF Pc
      <4> QED BY <3>2, <4>1
    <3> QED BY <1>4, <3>1, <3>2 DEF CpuBloqueante
  <2>2. PICK m \in Llamadas : /\ m = [op |-> op, p |-> p, pc |-> k]
                              /\ deCpu' = [deCpu EXCEPT ![c] = Append(@, m)]
    BY <1>0, <2>1 DEF Llama, Llamadas
  <2>3. /\ cpu'[c].p = Nadie /\ \A d \in CPUs \ {c} : cpu'[d] = cpu[d]
    BY <1>0, <1>4 DEF CpuBloqueante
  <2>4. /\ Len(deCpu'[c]) = n + 1 /\ deCpu'[c][n + 1] = m
        /\ \A i \in 1..n : deCpu'[c][i] = s[i]
        /\ \A d \in CPUs \ {c} : deCpu'[d] = deCpu[d]
    BY <1>3, <2>2
  <2>5. CpuConsistente'
    <3>1. ASSUME NEW i \in 1..Len(deCpu'[c]), deCpu'[c][i].op # "INIT_PROC"
          PROVE  i = Len(deCpu'[c]) /\ cpu'[c].p = Nadie /\ running'[c] = deCpu'[c][i].p
      <4>1. i = n + 1
        BY <1>0, <2>4, <3>1
      <4> QED BY <1>0, <1>1, <2>2, <2>3, <2>4, <4>1
    <3>2. ASSUME NEW d \in CPUs \ {c}
          PROVE  /\ deCpu'[d] = deCpu[d] /\ cpu'[d] = cpu[d] /\ running'[d] = running[d]
                 /\ hilo'[d] = hilo[d]
      BY <1>1, <2>3, <2>4
    <3>3. \A d \in CPUs : \A i \in 1..Len(deCpu'[d]) : deCpu'[d][i].op # "INIT_PROC" =>
             i = Len(deCpu'[d]) /\ cpu'[d].p = Nadie /\ running'[d] = deCpu'[d][i].p
      BY <3>1, <3>2 DEF CpuConsistente
    <3>4. \A d \in CPUs : hilo'[d].en \in ConCpu =>
             running'[d] = hilo'[d].p /\ cpu'[d].p = Nadie /\ deCpu'[d] = <<>>
      BY <1>0, <1>1, <3>2 DEF CpuConsistente
    <3>5. \A d \in CPUs : cpu'[d].p # Nadie => running'[d] = cpu'[d].p
      BY <2>3, <3>2 DEF CpuConsistente
    <3> QED BY <3>3, <3>4, <3>5 DEF CpuConsistente
  <2>6. PcAvanza'
    <3>1. ASSUME NEW i \in 1..Len(deCpu'[c]), deCpu'[c][i].op \in {"IO", "DUMP"}
          PROVE  deCpu'[c][i].pc > programCounter[deCpu'[c][i].p]
      <4>1. i = n + 1
        BY <1>0, <2>4, <3>1
      <4> QED BY <1>0, <2>1, <2>2, <2>4, <3>1, <4>1 DEF Pc
    <3> QED BY <1>0, <1>1, <2>3, <2>4, <3>1, HechosCpu DEF PcAvanza
  <2> QED BY <1>2, <2>5, <2>6
<1>5. CASE CpuInitProc(c)
  <2>1. PICK m \in Llamadas : /\ m = [op |-> "INIT_PROC", p |-> p, pc |-> cpu[c].pc]
                              /\ deCpu' = [deCpu EXCEPT ![c] = Append(@, m)]
    BY <1>0, <1>5 DEF CpuInitProc, Llama, Llamadas
  <2>2. /\ cpu'[c].p = p /\ cpu'[c].pc = cpu[c].pc + 1
        /\ \A d \in CPUs \ {c} : cpu'[d] = cpu[d]
    BY <1>0, <1>5 DEF CpuInitProc
  <2>3. /\ Len(deCpu'[c]) = n + 1 /\ deCpu'[c][n + 1] = m
        /\ \A i \in 1..n : deCpu'[c][i] = s[i]
        /\ \A d \in CPUs \ {c} : deCpu'[d] = deCpu[d]
    BY <1>3, <2>1
  <2>4. \A i \in 1..Len(deCpu'[c]) : deCpu'[c][i].op = "INIT_PROC"
    BY <1>0, <2>1, <2>3
  <2>5. CpuConsistente'
    <3>1. ASSUME NEW d \in CPUs \ {c}
          PROVE  /\ deCpu'[d] = deCpu[d] /\ cpu'[d] = cpu[d] /\ running'[d] = running[d]
                 /\ hilo'[d] = hilo[d]
      BY <1>1, <2>2, <2>3
    <3>2. \A d \in CPUs : \A i \in 1..Len(deCpu'[d]) : deCpu'[d][i].op # "INIT_PROC" =>
             i = Len(deCpu'[d]) /\ cpu'[d].p = Nadie /\ running'[d] = deCpu'[d][i].p
      BY <2>4, <3>1 DEF CpuConsistente
    <3>3. \A d \in CPUs : hilo'[d].en \in ConCpu =>
             running'[d] = hilo'[d].p /\ cpu'[d].p = Nadie /\ deCpu'[d] = <<>>
      BY <1>0, <1>1, <3>1 DEF CpuConsistente
    <3>4. \A d \in CPUs : cpu'[d].p # Nadie => running'[d] = cpu'[d].p
      BY <1>0, <1>1, <2>2, <3>1 DEF CpuConsistente
    <3> QED BY <3>2, <3>3, <3>4 DEF CpuConsistente
  <2>6. cpu'[c].pc >= programCounter[p]
    BY <1>0, <2>2 DEF Pc
  <2>7. PcAvanza'
    BY <1>1, <2>2, <2>3, <2>4, <2>6 DEF PcAvanza
  <2> QED BY <1>2, <2>5, <2>7
<1> QED BY <1>4, <1>5 DEF Cpu

\* A dispatch thread frees the node of a process and will block it next.
LEMMA CpuLibera ==
  ASSUME IInv, CpuInv, NEW c \in CPUs, NEW p \in Pids, NEW e \in PorBloquear, NEW k \in Pc,
         running[c] = p, cpu[c].p = Nadie, k > programCounter[p], hilo[c].en # "exit_libera",
         running' = liberar_cpu(p), UNCHANGED <<cpu, lista, programCounter, listaCPU>>,
         deCpu' = [deCpu EXCEPT ![c] = <<>>],
         hilo' = [hilo EXCEPT ![c] = [en |-> e, p |-> p, pc |-> k]]
  PROVE  CpuInv'
<1> USE DEF CpuInv
<1>1. /\ running'[c] = Nadie /\ \A d \in CPUs \ {c} : running'[d] = running[d]
      /\ running'[c] # p /\ \A d \in CPUs : running'[d] # p
  <2>1. liberar_cpu(p) = [running EXCEPT ![c] = Nadie]
    BY LiberarMarcada
  <2> QED BY <2>1, HechosCpu DEF TiposCPU, MarcaConsistente
<1>2. /\ hilo'[c].en = e /\ hilo'[c].p = p /\ hilo'[c].pc = k /\ hilo'["corto"] = hilo["corto"]
      /\ \A d \in CPUs \ {c} : hilo'[d] = hilo[d]
      /\ deCpu'[c] = <<>> /\ Len(deCpu'[c]) = 0
      /\ \A d \in CPUs \ {c} : deCpu'[d] = deCpu[d]
  BY HechosCpu DEF TiposHilo, TiposCPU
<1>3. Despachado(p)
  <2>1. ~Saliendo(p)
    <3> SUFFICES ASSUME NEW d \in CPUs, hilo[d].en = "exit_libera", hilo[d].p = p PROVE FALSE
      BY DEF Saliendo
    <3>1. running[d] = p
      BY DEF CpuConsistente, ConCpu
    <3> QED BY <3>1, HechosCpu DEF MarcaConsistente
  <2> QED BY <2>1 DEF MarcaConsistente
<1>4. \A r : /\ Despachado(r)' <=> Despachado(r)
             /\ Saliendo(r) => Saliendo(r)'
  <2>1. \A r : Despachado(r)' <=> Despachado(r)
    BY <1>2 DEF Despachado
  <2>2. \A r : Saliendo(r) => Saliendo(r)'
    BY <1>2 DEF Saliendo
  <2> QED BY <2>1, <2>2
<1>5. e \notin ConCpu /\ e # "dump_libera"
  BY DEF ConCpu, PorBloquear
<1>6. MarcaConsistente'
  BY <1>1, <1>4, HechosCpu DEF MarcaConsistente
<1>7. CpuConsistente'
  <2>1. ASSUME NEW d \in CPUs \ {c}
        PROVE  /\ deCpu'[d] = deCpu[d] /\ cpu'[d] = cpu[d] /\ running'[d] = running[d]
               /\ hilo'[d] = hilo[d]
    BY <1>1, <1>2
  <2>2. \A d \in CPUs : \A i \in 1..Len(deCpu'[d]) : deCpu'[d][i].op # "INIT_PROC" =>
           i = Len(deCpu'[d]) /\ cpu'[d].p = Nadie /\ running'[d] = deCpu'[d][i].p
    BY <1>2, <2>1 DEF CpuConsistente
  <2>3. \A d \in CPUs : hilo'[d].en \in ConCpu =>
           running'[d] = hilo'[d].p /\ cpu'[d].p = Nadie /\ deCpu'[d] = <<>>
    BY <1>2, <1>5, <2>1 DEF CpuConsistente
  <2>4. \A d \in CPUs : cpu'[d].p # Nadie => running'[d] = cpu'[d].p
    BY <2>1 DEF CpuConsistente
  <2> QED BY <2>2, <2>3, <2>4 DEF CpuConsistente
<1>8. BloqueoConsistente'
  <2>1. ASSUME NEW d \in CPUs, hilo[d].en \in PorBloquear PROVE hilo[d].p # p
    BY <2>1 DEF BloqueoConsistente
  <2>2. ASSUME NEW d \in CPUs, hilo'[d].en \in PorBloquear
        PROVE  /\ \E r : r = hilo'[d].p /\ Despachado(r)'
               /\ \A g \in CPUs : running'[g] # hilo'[d].p
               /\ \A g \in CPUs : hilo'[g].en \in PorBloquear /\ hilo'[g].p = hilo'[d].p => g = d
    <3>1. CASE d = c
      BY <1>1, <1>2, <1>3, <1>4, <2>1, <3>1
    <3>2. CASE d # c
      <4>1. hilo[d].p # Nadie
        BY <1>2, <2>2, <3>2, HechosCpu DEF PorBloquear, Ociosas
      <4> QED BY <1>1, <1>2, <1>4, <2>1, <2>2, <3>2, <4>1 DEF BloqueoConsistente
    <3> QED BY <3>1, <3>2
  <2>3. \A d \in CPUs : hilo'[d].en \in PorBloquear => Despachado(hilo[d].p)'
    BY <2>2 DEF Despachado
  <2> QED BY <2>2, <2>3 DEF BloqueoConsistente
<1>9. PcAvanza'
  BY <1>2 DEF PcAvanza
<1> QED BY <1>6, <1>7, <1>8, <1>9

\* A dispatch thread reads a call and keeps the node marked, or goes on with an
\* INIT_PROC.
LEMMA CpuAtiende ==
  ASSUME IInv, CpuInv, NEW c \in CPUs, SysInitProc(c) \/ SysDumpMemory(c) \/ SysExit(c)
  PROVE  CpuInv'
<1> USE DEF CpuInv
<1>1. PICK op \in {"INIT_PROC", "DUMP", "EXIT", "IO_INEXISTENTE"} :
        /\ Recibe(c, op)
        /\ op = "INIT_PROC" => VaCon(c, "init_consulta", siguientePid, 0)
        /\ op = "DUMP" => VaCon(c, "dump_libera", Head(deCpu[c]).p, Head(deCpu[c]).pc)
        /\ op \in {"EXIT", "IO_INEXISTENTE"} =>
             VaCon(c, "exit_espera", Head(deCpu[c]).p, Head(deCpu[c]).pc)
  BY DEF SysInitProc, SysDumpMemory, SysExit, init_proc_pid
<1>2. UNCHANGED <<running, cpu, lista, programCounter, listaCPU>>
  BY DEF SysInitProc, SysDumpMemory, SysExit, planVars
<1>3. PICK e \in {"init_consulta", "dump_libera", "exit_espera"} : \E p, k : VaCon(c, e, p, k)
  BY <1>1
<1>4. /\ hilo'["corto"] = hilo["corto"] /\ hilo[c].en = "recibe" /\ hilo'[c].en = e
      /\ \A d \in CPUs \ {c} : hilo'[d] = hilo[d]
      /\ \A d \in CPUs \ {c} : deCpu'[d] = deCpu[d]
  BY <1>1, <1>3, HechosCpu DEF VaCon, TiposHilo, TiposCPU, Recibe
<1>5. \A r : Despachado(r)' <=> Despachado(r)
  BY <1>2, <1>4 DEF Despachado
<1>6. \A r : Saliendo(r) => Saliendo(r)'
  BY <1>4 DEF Saliendo
<1>7. MarcaConsistente'
  BY <1>2, <1>5, <1>6 DEF MarcaConsistente
<1>8. \A d \in CPUs : hilo'[d].en \in PorBloquear => hilo'[d] = hilo[d]
  BY <1>4 DEF PorBloquear
<1>9. BloqueoConsistente'
  BY <1>2, <1>5, <1>8 DEF BloqueoConsistente
<1>10. \A d \in CPUs \ {c} : /\ deCpu'[d] = deCpu[d] /\ cpu'[d] = cpu[d]
                             /\ running'[d] = running[d] /\ hilo'[d] = hilo[d]
  BY <1>2, <1>4
<1>11. CASE op = "INIT_PROC"
  <2>1. e \notin ConCpu /\ e # "dump_libera"
    BY <1>1, <1>4, <1>11, HechosCpu DEF VaCon, TiposHilo, ConCpu
  <2>2. /\ Len(deCpu[c]) \in Nat \ {0} /\ Len(deCpu'[c]) = Len(deCpu[c]) - 1
        /\ \A i \in 1..(Len(deCpu[c]) - 1) : deCpu'[c][i] = deCpu[c][i + 1]
    <3>1. PICK s \in Seq(Llamadas) : s = deCpu[c] /\ s # <<>>
      BY <1>1, HechosCpu DEF Recibe
    <3>2. deCpu'[c] = Tail(s)
      BY <1>1, <3>1, HechosCpu DEF Recibe, TiposCPU
    <3> QED BY <3>1, <3>2, UnMensajeMenos
  <2>3. ASSUME NEW i \in 1..Len(deCpu'[c])
        PROVE  /\ i + 1 \in 1..Len(deCpu[c]) /\ deCpu'[c][i] = deCpu[c][i + 1]
               /\ i + 1 = Len(deCpu[c]) => i = Len(deCpu'[c])
    <3>1. PICK n \in Nat \ {0} : n = Len(deCpu[c])
      BY <2>2
    <3>2. Len(deCpu'[c]) = n - 1 /\ \A j \in 1..(n - 1) : deCpu'[c][j] = deCpu[c][j + 1]
      BY <2>2, <3>1
    <3>3. i \in 1..(n - 1)
      BY <2>3, <3>2
    <3>4. i + 1 \in 1..n /\ (i + 1 = n => i = n - 1)
      BY <3>1, <3>3
    <3> QED BY <3>1, <3>2, <3>3, <3>4
  <2>4. CpuConsistente'
    <3>1. \A i \in 1..Len(deCpu'[c]) : deCpu'[c][i].op # "INIT_PROC" =>
             i = Len(deCpu'[c]) /\ cpu'[c].p = Nadie /\ running'[c] = deCpu'[c][i].p
      BY <1>2, <2>3 DEF CpuConsistente
    <3>2. \A d \in CPUs : \A i \in 1..Len(deCpu'[d]) : deCpu'[d][i].op # "INIT_PROC" =>
             i = Len(deCpu'[d]) /\ cpu'[d].p = Nadie /\ running'[d] = deCpu'[d][i].p
      BY <1>10, <3>1 DEF CpuConsistente
    <3>3. \A d \in CPUs : hilo'[d].en \in ConCpu =>
             running'[d] = hilo'[d].p /\ cpu'[d].p = Nadie /\ deCpu'[d] = <<>>
      BY <1>4, <1>10, <2>1 DEF CpuConsistente
    <3>4. \A d \in CPUs : cpu'[d].p # Nadie => running'[d] = cpu'[d].p
      BY <1>2 DEF CpuConsistente
    <3> QED BY <3>2, <3>3, <3>4 DEF CpuConsistente
  <2>5. PcAvanza'
    <3>1. \A d \in CPUs : cpu'[d].p # Nadie => cpu'[d].pc >= programCounter'[cpu'[d].p]
      BY <1>2 DEF PcAvanza
    <3>2. \A d \in CPUs : \A i \in 1..Len(deCpu'[d]) : deCpu'[d][i].op \in {"IO", "DUMP"} =>
             deCpu'[d][i].pc > programCounter'[deCpu'[d][i].p]
      <4>1. \A i \in 1..Len(deCpu'[c]) : deCpu'[c][i].op \in {"IO", "DUMP"} =>
               deCpu'[c][i].pc > programCounter'[deCpu'[c][i].p]
        <5> SUFFICES ASSUME NEW i \in 1..Len(deCpu'[c]), deCpu'[c][i].op \in {"IO", "DUMP"}
                     PROVE  deCpu'[c][i].pc > programCounter'[deCpu'[c][i].p]
          OBVIOUS
        <5>1. PICK j \in 1..Len(deCpu[c]) : deCpu'[c][i] = deCpu[c][j]
          BY <2>3
        <5> QED BY <1>2, <5>1 DEF PcAvanza
      <4>2. \A d \in CPUs \ {c} : deCpu'[d] = deCpu[d]
        BY <1>10
      <4> QED BY <1>2, <4>1, <4>2 DEF PcAvanza
    <3>3. \A d \in CPUs : hilo'[d].en \in PorBloquear \cup {"dump_libera"} =>
             hilo'[d].pc > programCounter'[hilo'[d].p]
      BY <1>2, <1>4, <1>8, <1>10, <2>1 DEF PcAvanza
    <3> QED BY <3>1, <3>2, <3>3 DEF PcAvanza
  <2> QED BY <1>7, <1>9, <2>4, <2>5
<1>12. CASE op # "INIT_PROC"
  <2> DEFINE m == Head(deCpu[c])
  <2>1. /\ m.op = op /\ running[c] = m.p /\ cpu[c].p = Nadie
        /\ m = deCpu[c][1] /\ 1 \in 1..Len(deCpu[c])
        /\ deCpu' = [deCpu EXCEPT ![c] = <<>>]
    BY <1>1, <1>12, LlamadaUnica
  <2>2. /\ hilo'[c].p = m.p /\ hilo'[c].pc = m.pc /\ e \in {"dump_libera", "exit_espera"}
        /\ e = "dump_libera" => op = "DUMP"
    BY <1>1, <1>4, <1>12, HechosCpu DEF VaCon, TiposHilo
  <2>3. deCpu'[c] = <<>> /\ Len(deCpu'[c]) = 0
    BY <2>1, HechosCpu DEF TiposCPU
  <2>4. e = "dump_libera" => m.pc > programCounter[m.p]
    BY <2>1, <2>2 DEF PcAvanza
  <2> HIDE DEF m
  <2>5. CpuConsistente'
    <3>1. \A d \in CPUs : \A i \in 1..Len(deCpu'[d]) : deCpu'[d][i].op # "INIT_PROC" =>
             i = Len(deCpu'[d]) /\ cpu'[d].p = Nadie /\ running'[d] = deCpu'[d][i].p
      BY <1>10, <2>3 DEF CpuConsistente
    <3>2. \A d \in CPUs : hilo'[d].en \in ConCpu =>
             running'[d] = hilo'[d].p /\ cpu'[d].p = Nadie /\ deCpu'[d] = <<>>
      BY <1>2, <1>10, <2>1, <2>2, <2>3 DEF CpuConsistente
    <3>3. \A d \in CPUs : cpu'[d].p # Nadie => running'[d] = cpu'[d].p
      BY <1>2 DEF CpuConsistente
    <3> QED BY <3>1, <3>2, <3>3 DEF CpuConsistente
  <2>6. PcAvanza'
    <3>1. \A d \in CPUs : cpu'[d].p # Nadie => cpu'[d].pc >= programCounter'[cpu'[d].p]
      BY <1>2 DEF PcAvanza
    <3>2. \A d \in CPUs : \A i \in 1..Len(deCpu'[d]) : deCpu'[d][i].op \in {"IO", "DUMP"} =>
             deCpu'[d][i].pc > programCounter'[deCpu'[d][i].p]
      BY <1>2, <1>10, <2>3 DEF PcAvanza
    <3>3. \A d \in CPUs : hilo'[d].en \in PorBloquear \cup {"dump_libera"} =>
             hilo'[d].pc > programCounter'[hilo'[d].p]
      BY <1>2, <1>4, <1>10, <2>2, <2>4 DEF PcAvanza, PorBloquear
    <3> QED BY <3>1, <3>2, <3>3 DEF PcAvanza
  <2> QED BY <1>7, <1>9, <2>5, <2>6
<1> QED BY <1>11, <1>12

\* exec_a_blocked: a process that was marked nowhere leaves EXEC, and the thread
\* that blocked it lets it go.
LEMMA CpuBloquea ==
  ASSUME IInv, CpuInv, NEW c \in CPUs, hilo[c].en \in PorBloquear,
         exec_a_blocked(hilo[c].p, hilo[c].pc),
         UNCHANGED <<running, cpu, deCpu, listaCPU>>,
         Va(c, "io_encola") \/ Queda(c, "recibe")
  PROVE  CpuInv'
<1> USE DEF CpuInv
<1> DEFINE p == hilo[c].p
           k == hilo[c].pc
<1>1. /\ hilo'["corto"] = hilo["corto"] /\ \A d \in CPUs \ {c} : hilo'[d] = hilo[d]
      /\ hilo'[c].en \in {"io_encola", "recibe"} /\ p \in Pids /\ k \in Pc
  <2>1. p \in Pids
    BY HechosCpu DEF PorBloquear, Ociosas
  <2> QED BY <2>1, HechosCpu DEF TiposHilo, Va, Queda, Parado
<1>2. hilo'[c].en \notin ConCpu \cup PorBloquear /\ hilo[c].en # "exit_libera"
  BY <1>1 DEF ConCpu, PorBloquear
<1>3. CASE p \notin lista["EXEC"]
  <2>1. UNCHANGED <<lista, programCounter>>
    BY <1>3 DEF exec_a_blocked
  <2> QED BY <1>1, <1>2, <2>1, CpuAjeno DEF Ajeno, Sigue
<1>4. CASE p \in lista["EXEC"]
  <2>1. /\ lista'["EXEC"] = lista["EXEC"] \ {p}
        /\ programCounter' = [programCounter EXCEPT ![p] = k]
    BY <1>4, HechosCpu DEF exec_a_blocked, Mueve, TiposPlan, Grupos
  <2>2. /\ \A d \in CPUs : running[d] # p
        /\ \A d \in CPUs \ {c} : hilo[d].en \in PorBloquear => hilo[d].p # p
    BY DEF BloqueoConsistente
  <2>3. \A r : r # p /\ Despachado(r) => Despachado(r)'
    BY <1>1, <2>1 DEF Despachado
  <2>4. \A r : Saliendo(r) => Saliendo(r)'
    BY <1>1, <1>2 DEF Saliendo
  <2>5. MarcaConsistente'
    BY <2>2, <2>3, <2>4 DEF MarcaConsistente
  <2>6. CpuConsistente'
    BY <1>1, <1>2 DEF CpuConsistente
  <2>7. BloqueoConsistente'
    <3>1. ASSUME NEW d \in CPUs, hilo'[d].en \in PorBloquear
          PROVE  /\ d # c /\ hilo'[d] = hilo[d] /\ hilo[d].p # p /\ Despachado(hilo[d].p)
      BY <1>1, <1>2, <2>2, <3>1 DEF BloqueoConsistente
    <3>2. \A d \in CPUs : hilo'[d].en \in PorBloquear => \E r : r = hilo[d].p /\ Despachado(r)'
      BY <2>3, <3>1
    <3>3. \A d \in CPUs : hilo'[d].en \in PorBloquear => Despachado(hilo[d].p)'
      BY <3>1, <3>2 DEF Despachado
    <3> QED BY <3>1, <3>3 DEF BloqueoConsistente
  <2>8. \A r \in Pids : r # p => programCounter'[r] = programCounter[r]
    BY <2>1, HechosCpu DEF TiposPlan
  <2>9. PcAvanza'
    <3>1. \A d \in CPUs : cpu'[d].p # Nadie => cpu'[d].pc >= programCounter'[cpu'[d].p]
      <4>1. \A d \in CPUs : cpu[d].p # Nadie => cpu[d].p # p /\ cpu[d].p \in Pids
        BY <2>2, HechosCpu DEF CpuConsistente, PidONadie
      <4> QED BY <2>8, <4>1 DEF PcAvanza
    <3>2. ASSUME NEW d \in CPUs, NEW i \in 1..Len(deCpu[d]), deCpu[d][i].op \in {"IO", "DUMP"}
          PROVE  deCpu[d][i].pc > programCounter'[deCpu[d][i].p]
      <4>1. deCpu[d][i].p # p /\ deCpu[d][i].p \in Pids
        BY <2>2, <3>2, Mensajes DEF CpuConsistente
      <4> QED BY <2>8, <3>2, <4>1 DEF PcAvanza
    <3>3. ASSUME NEW d \in CPUs, hilo'[d].en \in PorBloquear \cup {"dump_libera"}
          PROVE  hilo'[d].pc > programCounter'[hilo'[d].p]
      <4>1. d # c /\ hilo'[d] = hilo[d]
        BY <1>1, <1>2, <3>3 DEF ConCpu
      <4>2. hilo[d].p # p
        BY <2>2, <3>3, <4>1 DEF CpuConsistente, ConCpu
      <4>3. hilo[d].p \in Pids
        BY <3>3, <4>1, HechosCpu DEF PorBloquear, Ociosas
      <4> QED BY <2>8, <3>3, <4>1, <4>2, <4>3 DEF PcAvanza
    <3> QED BY <3>1, <3>2, <3>3 DEF PcAvanza
  <2> QED BY <2>5, <2>6, <2>7, <2>9
<1> QED BY <1>3, <1>4

\* EXIT_PID finds the process in one of the lists, or goes on with the next one.
LEMMA CpuBusca ==
  ASSUME IInv, CpuInv, NEW c \in CPUs, buscar_proceso_por_pid(c)
  PROVE  CpuInv'
<1> USE DEF CpuInv
<1> DEFINE p == hilo[c].p
<1>1. PICK en \in {"busca_EXEC", "busca_BLOCKED", "busca_SUSP"},
           g \in {"EXEC", "BLOCKED", "SUSP_BLOCKED"},
           sigue \in {"busca_BLOCKED", "busca_SUSP", "recibe"} : Busca(c, en, g, sigue)
  BY DEF buscar_proceso_por_pid
<1>2. /\ hilo[c].en = en /\ UNCHANGED <<running, cpu, deCpu, programCounter, listaCPU>>
      /\ en \in ConCpu \ {"exit_libera", "dump_libera"} /\ en \notin PorBloquear
  BY <1>1 DEF Busca, buscar_proceso_por_pid, cpuVars, ConCpu, PorBloquear
<1>3. \A u \in {"corto"} \cup (CPUs \ {c}) : hilo'[u] = hilo[u]
  BY <1>1, HechosCpu DEF Busca, Va, Queda, TiposHilo
<1>4. CASE p \notin lista[g]
  <2>1. /\ UNCHANGED lista
        /\ (sigue = "recibe" /\ Queda(c, "recibe")) \/ (sigue # "recibe" /\ Va(c, sigue))
    BY <1>1, <1>4 DEF Busca
  <2>2. \/ hilo'[c].en = "recibe"
        \/ hilo'[c].en \in {"busca_BLOCKED", "busca_SUSP"} /\ hilo'[c].p = p
    BY <2>1, HechosCpu DEF Va, Queda, Parado, TiposHilo
  <2>3. Sigue(c)
    BY <1>2, <2>2 DEF Sigue, ConCpu, PorBloquear
  <2> QED BY <1>2, <1>3, <2>1, <2>3, CpuAjeno DEF Ajeno, Sigue
<1>5. CASE p \in lista[g]
  <2>1. /\ lista' = [lista EXCEPT ![g] = @ \ {p}]
        /\ hilo'[c].en = "exit_libera" /\ hilo'[c].p = p
    BY <1>1, <1>5, HechosCpu DEF Busca, Va, TiposHilo
  <2>2. running[c] = p /\ cpu[c].p = Nadie /\ deCpu[c] = <<>>
    BY <1>2 DEF CpuConsistente
  <2>3. \A r : /\ r # p /\ Despachado(r) => Despachado(r)'
               /\ Saliendo(r) => Saliendo(r)'
    <3>1. \A r : r # p /\ Despachado(r) => Despachado(r)'
      BY <1>3, <2>1, HechosCpu DEF Despachado, TiposPlan, Grupos
    <3>2. \A r : Saliendo(r) => Saliendo(r)'
      BY <1>2, <1>3, <2>1 DEF Saliendo
    <3> QED BY <3>1, <3>2
  <2>4. \A r : r = hilo'[c].p => Saliendo(r)'
    BY <2>1 DEF Saliendo
  <2>5. MarcaConsistente'
    BY <1>2, <2>1, <2>3, <2>4 DEF MarcaConsistente
  <2>6. CpuConsistente'
    BY <1>2, <1>3, <2>1, <2>2 DEF CpuConsistente
  <2>7. ASSUME NEW d \in CPUs, hilo'[d].en \in PorBloquear
        PROVE  /\ d # c /\ hilo'[d] = hilo[d]
               /\ hilo[d].p # p /\ \E r : r = hilo[d].p /\ Despachado(r)'
    <3>1. d # c /\ hilo'[d] = hilo[d]
      BY <1>3, <2>1, <2>7 DEF PorBloquear
    <3>2. hilo[d].p # p
      BY <2>2, <2>7, <3>1 DEF BloqueoConsistente
    <3> QED BY <2>3, <2>7, <3>1, <3>2 DEF BloqueoConsistente
  <2>8. \A d \in CPUs : hilo'[d].en \in PorBloquear => Despachado(hilo[d].p)'
    BY <2>7 DEF Despachado
  <2>9. BloqueoConsistente'
    BY <1>2, <2>7, <2>8 DEF BloqueoConsistente
  <2>10. PcAvanza'
    BY <1>2, <1>3, <2>1 DEF PcAvanza, PorBloquear
  <2> QED BY <2>5, <2>6, <2>9, <2>10
<1> QED BY <1>4, <1>5

\* EXIT_PID frees the node, and only then files the process in EXIT.
LEMMA CpuSale ==
  ASSUME IInv, CpuInv, NEW c \in CPUs, LiberarYSalir(c)
  PROVE  CpuInv'
<1> USE DEF CpuInv
<1> DEFINE p == hilo[c].p
<1>1. /\ hilo[c].en = "exit_libera" /\ p \in Pids
      /\ running[c] = p /\ cpu[c].p = Nadie /\ deCpu[c] = <<>>
      /\ UNCHANGED <<cpu, deCpu, programCounter, listaCPU>>
      /\ lista'["EXEC"] = lista["EXEC"]
  <2>1. hilo[c].en = "exit_libera" /\ p \in Pids
    BY HechosCpu DEF LiberarYSalir, Ociosas
  <2> QED BY <2>1, HechosCpu DEF LiberarYSalir, CpuConsistente, ConCpu, cpuVars, agregar_a_EXIT,
             TiposPlan, Grupos
<1>2. /\ \A u \in {"corto"} \cup (CPUs \ {c}) : hilo'[u] = hilo[u]
      /\ hilo'[c].en = "exit_reinicia"
  BY HechosCpu DEF LiberarYSalir, Va, TiposHilo
<1>3. /\ running'[c] = Nadie /\ \A d \in CPUs \ {c} : running'[d] = running[d] /\ running[d] # p
  <2>1. liberar_cpu(p) = [running EXCEPT ![c] = Nadie]
    BY <1>1, LiberarMarcada
  <2> QED BY <1>1, <2>1, HechosCpu DEF LiberarYSalir, TiposCPU, MarcaConsistente
<1>4. \A r : /\ Despachado(r)' <=> Despachado(r)
             /\ r # p /\ Saliendo(r) => Saliendo(r)'
  <2>1. \A r : Despachado(r)' <=> Despachado(r)
    BY <1>1, <1>2 DEF Despachado
  <2>2. \A r : r # p /\ Saliendo(r) => Saliendo(r)'
    BY <1>2 DEF Saliendo
  <2> QED BY <2>1, <2>2
<1>5. MarcaConsistente'
  BY <1>1, <1>3, <1>4, HechosCpu DEF MarcaConsistente
<1>6. CpuConsistente'
  <2>1. ASSUME NEW d \in CPUs \ {c}
        PROVE  /\ deCpu'[d] = deCpu[d] /\ cpu'[d] = cpu[d] /\ running'[d] = running[d]
               /\ hilo'[d] = hilo[d]
    BY <1>1, <1>2, <1>3
  <2>2. Len(deCpu'[c]) = 0
    BY <1>1
  <2>3. \A d \in CPUs : \A i \in 1..Len(deCpu'[d]) : deCpu'[d][i].op # "INIT_PROC" =>
           i = Len(deCpu'[d]) /\ cpu'[d].p = Nadie /\ running'[d] = deCpu'[d][i].p
    BY <2>1, <2>2 DEF CpuConsistente
  <2>4. \A d \in CPUs : hilo'[d].en \in ConCpu =>
           running'[d] = hilo'[d].p /\ cpu'[d].p = Nadie /\ deCpu'[d] = <<>>
    BY <1>2, <2>1 DEF CpuConsistente, ConCpu
  <2>5. \A d \in CPUs : cpu'[d].p # Nadie => running'[d] = cpu'[d].p
    BY <1>1, <2>1 DEF CpuConsistente
  <2> QED BY <2>3, <2>4, <2>5 DEF CpuConsistente
<1>7. BloqueoConsistente'
  <2>1. \A d \in CPUs : hilo'[d].en \in PorBloquear => hilo'[d] = hilo[d] /\ hilo[d].p \in Pids
    BY <1>2, HechosCpu DEF PorBloquear, Ociosas
  <2> QED BY <1>3, <1>4, <2>1, HechosCpu DEF BloqueoConsistente
<1>8. PcAvanza'
  BY <1>1, <1>2 DEF PcAvanza, PorBloquear
<1> QED BY <1>5, <1>6, <1>7, <1>8

\* CpuInv: the dispatch threads.
LEMMA CpuDispatch ==
  ASSUME IInv, CpuInv, NEW c \in CPUs, Dispatch(c)
  PROVE  CpuInv'
<1>1. CASE SysComienzoIO(c)
  <2> DEFINE m == Head(deCpu[c])
  <2>1. Recibe(c, "IO") /\ VaCon(c, "io_bloquea", m.p, m.pc) /\ running' = liberar_cpu(m.p)
        /\ UNCHANGED <<cpu, lista, programCounter, listaCPU>>
    BY <1>1 DEF SysComienzoIO, planVars
  <2>2. /\ m \in Llamadas /\ m.op = "IO" /\ running[c] = m.p /\ m.p \in Pids
        /\ m = deCpu[c][1] /\ 1 \in 1..Len(deCpu[c])
        /\ cpu[c].p = Nadie /\ deCpu' = [deCpu EXCEPT ![c] = <<>>] /\ hilo[c].en = "recibe"
    BY <2>1, LlamadaUnica DEF CpuInv
  <2>3. m.pc > programCounter[m.p] /\ m.pc \in Pc
    BY <2>2, Mensajes DEF CpuInv, PcAvanza
  <2> HIDE DEF m
  <2> QED BY <2>1, <2>2, <2>3, CpuLibera DEF VaCon, PorBloquear
<1>2. CASE LiberarPorDump(c)
  <2> DEFINE p == hilo[c].p
             k == hilo[c].pc
  <2>1. /\ hilo[c].en = "dump_libera" /\ Va(c, "dump_bloquea") /\ running' = liberar_cpu(p)
        /\ UNCHANGED <<cpu, deCpu, lista, programCounter, listaCPU>>
    BY <1>2 DEF LiberarPorDump, planVars, cpuVars
  <2>2. /\ running[c] = p /\ cpu[c].p = Nadie /\ deCpu[c] = <<>> /\ k > programCounter[p]
        /\ p \in Pids /\ k \in Pc
    BY <2>1, HechosCpu DEF CpuInv, CpuConsistente, PcAvanza, ConCpu, Ociosas, TiposHilo
  <2>3. deCpu' = [deCpu EXCEPT ![c] = <<>>]
    BY <2>1, <2>2, HechosCpu DEF TiposCPU
  <2>4. hilo' = [hilo EXCEPT ![c] = [en |-> "dump_bloquea", p |-> p, pc |-> k]]
    <3>1. PICK h \in [en : Etiquetas, p : PidONadie, pc : Pc] : h = hilo[c]
      BY HechosCpu DEF TiposHilo
    <3>2. [h EXCEPT !.en = "dump_bloquea"] = [en |-> "dump_bloquea", p |-> h.p, pc |-> h.pc]
      OBVIOUS
    <3> QED BY <2>1, <3>1, <3>2 DEF Va
  <2> HIDE DEF p, k
  <2> QED BY <2>1, <2>2, <2>3, <2>4, CpuLibera DEF PorBloquear
<1>3. CASE BloquearPorIO(c)
  BY <1>3, CpuBloquea DEF BloquearPorIO, PorBloquear, cpuVars
<1>4. CASE BloquearPorDump(c)
  BY <1>4, CpuBloquea DEF BloquearPorDump, PorBloquear, cpuVars
<1>5. CASE agregar_a_cola_por_IO(c) \/ ReiniciarFinalizar(c)
  BY <1>5, CpuOtros
<1>6. CASE SysInitProc(c) \/ SysDumpMemory(c) \/ SysExit(c)
  BY <1>6, CpuAtiende
<1>7. CASE RespuestaFinalizar(c)
  <2>1. /\ UNCHANGED <<running, cpu, deCpu, programCounter, listaCPU, lista>>
        /\ hilo[c].en = "exit_espera" /\ (Va(c, "busca_EXEC") \/ Queda(c, "recibe"))
    BY <1>7 DEF RespuestaFinalizar, planVars, cpuVars
  <2>2. /\ hilo'["corto"] = hilo["corto"] /\ \A d \in CPUs \ {c} : hilo'[d] = hilo[d]
        /\ hilo'[c].en = "recibe" \/ (hilo'[c].en = "busca_EXEC" /\ hilo'[c].p = hilo[c].p)
    BY <2>1, HechosCpu DEF Va, Queda, Parado, TiposHilo
  <2> QED BY <2>1, <2>2, CpuAjeno DEF Ajeno, Sigue, ConCpu, PorBloquear
<1>8. CASE buscar_proceso_por_pid(c)
  BY <1>8, CpuBusca
<1>9. CASE LiberarYSalir(c)
  BY <1>9, CpuSale
<1> QED BY <1>1, <1>2, <1>3, <1>4, <1>5, <1>6, <1>7, <1>8, <1>9 DEF Dispatch

\* CpuInv at the start: no CPU has a process.
LEMMA CpuInicial == Init => CpuInv
<1> SUFFICES ASSUME Init PROVE CpuInv
  OBVIOUS
<1>1. \A c \in CPUs : /\ running[c] = Nadie /\ cpu[c].p = Nadie /\ deCpu[c] = <<>>
                      /\ hilo[c].en = "recibe" /\ Len(deCpu[c]) = 0
  <2>1. \A c \in CPUs : c \in Hilos /\ c \notin {"main", "largo", "corto"}
    BY HilosDe, Disjuntos
  <2> QED BY <2>1 DEF Init, Parado
<1> QED BY <1>1, ConstantesOK DEF CpuInv, MarcaConsistente, CpuConsistente, BloqueoConsistente,
           PcAvanza, ConCpu, PorBloquear

\* CpuInv is inductive.
LEMMA CpuPaso == IInv /\ CpuInv /\ [Next]_vars => CpuInv'
<1> SUFFICES ASSUME IInv, CpuInv, [Next]_vars PROVE CpuInv'
  OBVIOUS
<1> QED BY CpuOtros, CpuDespierta, CpuDespacho, CpuAExec, CpuLlama, CpuDispatch DEF Next, Corto

\* The invariant of the table of CPUs holds in every behaviour.
THEOREM InvarianteCpu == Spec => []CpuInv
<1> QED BY Invariante, CpuInicial, CpuPaso, PTL DEF Spec

\* A process is given to one CPU at a time: no interleaving of the short term
\* planner with the handlers that free a node marks it on two, nor leaves it
\* executing on two.
THEOREM UnaSolaCpu == Spec => []UnaCpuPorProceso
<1>1. CpuInv => UnaCpuPorProceso
  BY DEF CpuInv, MarcaConsistente, CpuConsistente, UnaCpuPorProceso
<1> QED BY <1>1, InvarianteCpu, PTL

\* A process is filed in EXIT only after its node was freed, and is never marked
\* again.
THEOREM LaSalidaLibera == Spec => []SalidaLiberaCpu
<1>1. IInv /\ CpuInv => SalidaLiberaCpu
  <2> SUFFICES ASSUME IInv, CpuInv, NEW p \in lista["EXIT"], NEW c \in CPUs, running[c] = p
               PROVE  FALSE
    BY DEF SalidaLiberaCpu
  <2>1. p \in Pids /\ En("EXIT", p)
    BY HechosCpu, EnPartes DEF TiposPlan, Grupos
  <2>2. /\ \A g \in Grupos \ {"EXIT"} : p \notin lista[g]
        /\ \A q \in Estados : p \notin Range(cola[q])
        /\ \A t \in Hilos : ~(hilo[t].p = p /\ hilo[t].en \in EnMano(t))
    BY <2>1, NoEstaEnOtro, Disjuntos DEF IInv, Lugar, Grupos
  <2>3. ~Saliendo(p)
    <3>1. \A d \in CPUs : d \in Hilos /\ "exit_libera" \in EnMano(d)
      BY Manos, HechosCpu
    <3> QED BY <2>2, <3>1 DEF Saliendo
  <2>4. ~Despachado(p)
    BY <2>2 DEF Despachado, IInv, PunteroVigente, Grupos, Estados
  <2> QED BY <2>1, <2>3, <2>4 DEF CpuInv, MarcaConsistente
<1> QED BY <1>1, Invariante, InvarianteCpu, PTL

-----------------------------------------------------------------------------
(* No token of the short term planner is lost, when a system call never      *)
(* overtakes the filing of its process in EXEC.                              *)

\* Without that race the process on its way to EXEC is still on its CPU; and the
\* CPUs connected from the start are the first of the list.
DespachoSeguro ==
  /\ hilo["corto"].en = "a_exec" => \E c \in CPUs : cpu[c].p = hilo["corto"].p
  /\ \A i \in 1..Len(CpusAlInicio) : i <= Len(listaCPU) /\ listaCPU[i] = CpusAlInicio[i]

Uno(b) == IF b THEN 1 ELSE 0

CpusLibres == {c \in Range(CpusAlInicio) : running[c] = Nadie}
Bloqueando == {c \in CPUs : hilo[c].en \in PorBloquear}

\* Tokens posted, the one the planner has in its hand, and those that the
\* handlers that have freed a CPU will post when they block the process.
Fichas == corto + Cardinality(Bloqueando) + Uno(hilo["corto"].en = "busca_cpu")
PorDespachar == Len(cola["READY"]) - Uno(hilo["corto"].en = "a_exec")

\* There is a token for each process of READY or for each free CPU.
FichasAlcanzan == Fichas >= PorDespachar \/ Fichas >= Cardinality(CpusLibres)

FichasInv == DespachoSeguro /\ IsFiniteSet(Bloqueando) /\ FichasAlcanzan

\* The types of what is counted.
LEMMA Cuentas ==
  IInv /\ FichasInv =>
    /\ corto \in Nat /\ Len(cola["READY"]) \in Nat /\ cola["READY"] \in Seq(Pids)
    /\ Cardinality(Bloqueando) \in Nat
    /\ IsFiniteSet(CpusLibres) /\ Cardinality(CpusLibres) \in Nat
    /\ hilo \in [Hilos -> [en : Etiquetas, p : PidONadie, pc : Pc]]
<1> SUFFICES ASSUME IInv, FichasInv
             PROVE  /\ corto \in Nat /\ Len(cola["READY"]) \in Nat /\ cola["READY"] \in Seq(Pids)
                    /\ Cardinality(Bloqueando) \in Nat
                    /\ IsFiniteSet(CpusLibres) /\ Cardinality(CpusLibres) \in Nat
                    /\ hilo \in [Hilos -> [en : Etiquetas, p : PidONadie, pc : Pc]]
  OBVIOUS
<1>1. corto \in Nat /\ cola["READY"] \in Seq(Pids)
  BY HechosCpu DEF TiposPlan, Estados
<1>2. Cardinality(Bloqueando) \in Nat
  BY FS_CardinalityType DEF FichasInv
<1>3. IsFiniteSet(CpusLibres)
  <2> DEFINE s == CpusAlInicio
             T == Range(s)
  <2>1. s \in Seq(CPUs) /\ DOMAIN s = 1..Len(s) /\ Len(s) \in Nat
    BY ConstantesOK, LenProperties
  <2>2. IsFiniteSet(1..Len(s))
    BY <2>1, FS_Interval
  <2>3. s \in Surjection(1..Len(s), T)
    BY <2>1 DEF Surjection, Range
  <2>4. IsFiniteSet(T)
    <3> HIDE DEF s, T
    <3> QED BY <2>2, <2>3, FS_Surjection
  <2> QED BY <2>4, FS_Subset DEF CpusLibres
<1>4. hilo \in [Hilos -> [en : Etiquetas, p : PidONadie, pc : Pc]]
  BY HechosCpu DEF TiposHilo
<1> QED BY <1>1, <1>2, <1>3, <1>4, FS_CardinalityType, LenProperties

\* A node that is freed adds at most one free CPU.
LEMMA UnaLibreMas ==
  ASSUME IInv, FichasInv, CpuInv, NEW c \in CPUs, NEW p \in Pids, running[c] = p,
         running' = liberar_cpu(p)
  PROVE  /\ Cardinality(CpusLibres') \in Nat
         /\ Cardinality(CpusLibres') <= Cardinality(CpusLibres) + 1
<1>1. running' = [running EXCEPT ![c] = Nadie]
  BY LiberarMarcada DEF CpuInv
<1>2. CpusLibres' \subseteq CpusLibres \cup {c}
  <2>1. Range(CpusAlInicio) \subseteq CPUs
    BY ConstantesOK, LenProperties, ElementOfSeq DEF Range
  <2> QED BY <1>1, <2>1, HechosCpu DEF CpusLibres, TiposCPU
<1>3. IsFiniteSet(CpusLibres) /\ Cardinality(CpusLibres) \in Nat
  BY Cuentas
<1> DEFINE S == CpusLibres \cup {c}
<1>4. IsFiniteSet(S) /\ Cardinality(S) <= Cardinality(CpusLibres) + 1
  <2>1. /\ IsFiniteSet(S)
        /\ Cardinality(S) = IF c \in CpusLibres THEN Cardinality(CpusLibres)
                            ELSE Cardinality(CpusLibres) + 1
    BY <1>3, FS_AddElement, Zenon
  <2> QED BY <1>3, <2>1
<1>5. Cardinality(S) \in Nat
  BY <1>4, FS_CardinalityType
<1>6. IsFiniteSet(CpusLibres') /\ Cardinality(CpusLibres') <= Cardinality(S)
  <2> HIDE DEF S
  <2>1. CpusLibres' \in SUBSET S
    BY <1>2 DEF S
  <2> QED BY <1>4, <2>1, FS_Subset
<1>7. Cardinality(CpusLibres') \in Nat
  BY <1>6, FS_CardinalityType
<1> HIDE DEF S
<1> QED BY <1>3, <1>4, <1>5, <1>6, <1>7

\* The handlers that are about to block: one more, one less, the same.
LEMMA UnBloqueoMas ==
  ASSUME IInv, FichasInv, NEW c \in CPUs, hilo[c].en \notin PorBloquear,
         hilo'[c].en \in PorBloquear, \A d \in CPUs \ {c} : hilo'[d] = hilo[d]
  PROVE  IsFiniteSet(Bloqueando') /\ Cardinality(Bloqueando') = Cardinality(Bloqueando) + 1
<1>1. Bloqueando' = Bloqueando \cup {c} /\ c \notin Bloqueando
  BY DEF Bloqueando
<1>2. IsFiniteSet(Bloqueando)
  BY DEF FichasInv
<1>3. IsFiniteSet(Bloqueando \cup {c}) /\ Cardinality(Bloqueando \cup {c}) = Cardinality(Bloqueando) + 1
  BY <1>1, <1>2, FS_AddElement
<1> QED BY <1>1, <1>3

\* A thread goes by the line where it posts its token.
LEMMA UnBloqueoMenos ==
  ASSUME IInv, FichasInv, NEW c \in CPUs, hilo[c].en \in PorBloquear,
         hilo'[c].en \notin PorBloquear, \A d \in CPUs \ {c} : hilo'[d] = hilo[d]
  PROVE  IsFiniteSet(Bloqueando') /\ Cardinality(Bloqueando') = Cardinality(Bloqueando) - 1
<1>1. Bloqueando' = Bloqueando \ {c} /\ c \in Bloqueando
  BY DEF Bloqueando
<1>2. IsFiniteSet(Bloqueando)
  BY DEF FichasInv
<1>3. IsFiniteSet(Bloqueando \ {c}) /\ Cardinality(Bloqueando \ {c}) = Cardinality(Bloqueando) - 1
  BY <1>1, <1>2, FS_RemoveElement
<1> QED BY <1>1, <1>3

\* A step that neither frees nor marks a node, nor blocks a process, and that
\* posts a token for the process it adds to READY.
LEMMA FichasIgual ==
  ASSUME IInv, FichasInv,
         \A c \in CPUs : hilo'[c].en \in PorBloquear <=> hilo[c].en \in PorBloquear,
         UNCHANGED running,
         hilo'["corto"].en = "busca_cpu" <=> hilo["corto"].en = "busca_cpu",
         hilo'["corto"].en = "a_exec" <=> hilo["corto"].en = "a_exec",
         \/ corto' = corto /\ Len(cola'["READY"]) = Len(cola["READY"])
         \/ corto' = corto + 1 /\ Len(cola'["READY"]) = Len(cola["READY"]) + 1
  PROVE  IsFiniteSet(Bloqueando') /\ FichasAlcanzan'
<1>1. Bloqueando' = Bloqueando /\ CpusLibres' = CpusLibres
  BY DEF Bloqueando, CpusLibres
<1>2. IsFiniteSet(Bloqueando')
  BY <1>1 DEF FichasInv
<1>3. PICK k \in Nat, n \in Nat, b \in Nat, f \in Nat :
        /\ k = corto /\ n = Len(cola["READY"])
        /\ b = Cardinality(Bloqueando) /\ f = Cardinality(CpusLibres)
  BY Cuentas
<1>4. Cardinality(Bloqueando') = b /\ Cardinality(CpusLibres') = f
  BY <1>1, <1>3
<1>5. PICK u \in {0, 1}, v \in {0, 1} :
        /\ Uno(hilo["corto"].en = "busca_cpu") = u /\ Uno(hilo'["corto"].en = "busca_cpu") = u
        /\ Uno(hilo["corto"].en = "a_exec") = v /\ Uno(hilo'["corto"].en = "a_exec") = v
  BY DEF Uno
<1>6. k + b + u >= n - v \/ k + b + u >= f
  BY <1>3, <1>5 DEF FichasInv, FichasAlcanzan, Fichas, PorDespachar
<1>7. PICK l \in Nat, m \in Nat :
        /\ l = corto' /\ m = Len(cola'["READY"])
        /\ (l = k /\ m = n) \/ (l = k + 1 /\ m = n + 1)
  <2>1. CASE corto' = corto /\ Len(cola'["READY"]) = Len(cola["READY"])
    BY <1>3, <2>1
  <2>2. CASE corto' = corto + 1 /\ Len(cola'["READY"]) = Len(cola["READY"]) + 1
    <3>1. corto' = k + 1 /\ Len(cola'["READY"]) = n + 1 /\ k + 1 \in Nat /\ n + 1 \in Nat
      BY <1>3, <2>2
    <3> QED BY <3>1
  <2> QED BY <2>1, <2>2
<1>8. l + b + u >= m - v \/ l + b + u >= f
  <2>1. CASE l = k /\ m = n
    BY <1>6, <2>1
  <2>2. CASE l = k + 1 /\ m = n + 1
    <3>1. l \in Int /\ m \in Int /\ k \in Int /\ n \in Int /\ b \in Int /\ f \in Int
          /\ u \in Int /\ v \in Int
      OBVIOUS
    <3>2. k + b + u >= n - v => (k + 1) + b + u >= (n + 1) - v
      BY <3>1
    <3>3. k + b + u >= f => (k + 1) + b + u >= f
      BY <3>1
    <3> QED BY <1>6, <2>2, <3>2, <3>3
  <2> QED BY <1>7, <2>1, <2>2
<1>9. Fichas' = l + b + u /\ PorDespachar' = m - v
  BY <1>4, <1>5, <1>7 DEF Fichas, PorDespachar
<1>10. FichasAlcanzan'
  BY <1>4, <1>8, <1>9 DEF FichasAlcanzan
<1> QED BY <1>2, <1>10

\* A process added to READY comes with a token.
LEMMA ReadyConFicha ==
  ASSUME IInv, NEW p \in Pids, cola' = Agrega(cola, "READY", p)
  PROVE  Len(cola'["READY"]) = Len(cola["READY"]) + 1
BY HechosCpu, AppendProperties DEF Agrega, TiposPlan, Estados

\* FichasInv: the threads that neither free nor mark a CPU.
LEMMA FichasOtros ==
  ASSUME IInv, CpuInv, FichasInv,
         \/ \E t \in {"main", "largo"} \cup CPUs : Creacion(t)
         \/ ejecutar_planificadores \/ Largo
         \/ \E d \in Ios : IO(d)
         \/ \E p \in Pids : Timer(p)
         \/ Memoria \/ RespuestasMemoria \/ UNCHANGED vars
         \/ \E c \in CPUs : conectar_cpu(c) \/ agregar_a_cola_por_IO(c) \/ ReiniciarFinalizar(c)
  PROVE  FichasInv'
<1> DEFINE r == Len(cola["READY"])
           rr == Len(cola'["READY"])
           ConFicha == (corto' = corto /\ rr = r) \/ (corto' = corto + 1 /\ rr = r + 1)
<1>0. /\ Ajeno
      /\ \A c \in CPUs : hilo'[c].en \in PorBloquear <=> hilo[c].en \in PorBloquear
      /\ \/ hilo'["corto"] = hilo["corto"]
         \/ hilo["corto"].en = "apagado" /\ hilo'["corto"].en = "espera"
  BY OtrosAjenos
<1>a. \A q \in Estados \ {"READY"} : \A s : cola' = [cola EXCEPT ![q] = s] => rr = r
  BY HechosCpu DEF TiposPlan, Estados
<1>b. \A t \in Hilos : hilo[t].en \notin Ociosas => hilo[t].p \in Pids
  BY HechosCpu
<1>c. ASSUME NEW p \in Pids, DesdeBLOCKED(p) PROVE ConFicha
  BY <1>c, ReadyConFicha DEF DesdeBLOCKED, agregar_a_READY
<1>d. ASSUME NEW p, DesdeSUSP_BLOCKED(p), UNCHANGED corto PROVE ConFicha
  BY <1>d, <1>a DEF DesdeSUSP_BLOCKED, agregar_a_SUSP_READY, Agrega, Estados
<1>1. ConFicha
  <2>1. ASSUME NEW t \in {"main", "largo"} \cup CPUs, Creacion(t) PROVE ConFicha
    <3>1. t \in Hilos
      BY HilosDe
    <3>2. CASE CreadoAReady(t)
      <4>1. hilo[t].p \in Pids
        BY <1>b, <3>1, <3>2 DEF CreadoAReady, Ociosas
      <4> QED BY <3>2, <4>1, ReadyConFicha DEF CreadoAReady, agregar_a_READY
    <3>3. CASE InitAgregaNEW(t) \/ SacarDeNEW(t)
      BY <3>3, <1>a DEF InitAgregaNEW, SacarDeNEW, agregar_a_NEW, Agrega, Estados
    <3>4. CASE ConsultarNEW(t) \/ ConsultarSUSP(t) \/ EnviarCrear(t) \/ RespuestaCrear(t)
               \/ ReiniciarCrear(t)
      BY <3>4 DEF ConsultarNEW, ConsultarSUSP, EnviarCrear, RespuestaCrear, ReiniciarCrear, planVars
    <3> QED BY <2>1, <3>2, <3>3, <3>4 DEF Creacion
  <2>2. CASE Largo
    <3>1. CASE DesuspendidoAReady
      <4>1. hilo["largo"].p \in Pids
        BY <1>b, <3>1, HilosDe DEF DesuspendidoAReady, Ociosas
      <4>2. corto' = corto + 1 /\ cola'["READY"] = Append(cola["READY"], hilo["largo"].p)
        BY <3>1, HechosCpu DEF DesuspendidoAReady, Agrega, TiposPlan, Estados
      <4>3. cola["READY"] \in Seq(Pids)
        BY HechosCpu DEF TiposPlan, Estados
      <4> QED BY <4>1, <4>2, <4>3, AppendProperties
    <3>2. CASE LargoEligeNEW \/ LargoEligeSUSP
      <4>1. UNCHANGED cola \/ \E q \in {"NEW", "SUSP_READY"} : \E s : cola' = [cola EXCEPT ![q] = s]
        BY <3>2 DEF LargoEligeNEW, LargoEligeSUSP, Elige
      <4> QED BY <3>2, <4>1, <1>a DEF LargoEligeNEW, LargoEligeSUSP, Estados
    <3>3. CASE LargoDespierta \/ EnviarDesuspender \/ RespuestaDesuspender \/ ReiniciarDesuspender
      BY <3>3 DEF LargoDespierta, EnviarDesuspender, RespuestaDesuspender, ReiniciarDesuspender,
         planVars
    <3> QED BY <2>2, <3>1, <3>2, <3>3 DEF Largo
  <2>3. ASSUME NEW d \in Ios, IO(d) PROVE ConFicha
    <3>1. CASE FinIO(d)
      <4>1. enIO[d] \in Pids
        BY <3>1 DEF FinIO, IInv, TypeOK, TiposIO, PidONadie
      <4> QED BY <3>1, <4>1, <1>c DEF FinIO
    <3> QED BY <2>3, <3>1, <1>d DEF IO, atender_cola_espera, FinIOSusp, planVars
  <2>4. CASE RespuestasMemoria
    <3>1. CASE RespuestaDump
      <4>1. Head(deMemoria).p \in Pids
        <5>1. deMemoria \in Seq(Respuestas) /\ deMemoria # <<>>
          BY <3>1 DEF RespuestaDump, RecibeMemoria, IInv, TypeOK, TiposMem
        <5>2. Head(deMemoria) \in Respuestas
          BY <5>1, HeadTailProperties
        <5> QED BY <5>2 DEF Respuestas
      <4> QED BY <3>1, <4>1, <1>c DEF RespuestaDump
    <3> QED BY <2>4, <3>1, <1>d DEF RespuestasMemoria, RespuestaPedido, RespuestaDumpSusp,
               RespuestaDesconocida, planVars
  <2>5. CASE \/ ejecutar_planificadores \/ Memoria \/ UNCHANGED vars
             \/ \E p \in Pids : Timer(p)
             \/ \E c \in CPUs : conectar_cpu(c) \/ agregar_a_cola_por_IO(c) \/ ReiniciarFinalizar(c)
    BY <2>5 DEF ejecutar_planificadores, Memoria, vars, Timer, TimerVence, TimerSuspende,
       TimerAvisa, conectar_cpu, agregar_a_cola_por_IO, ReiniciarFinalizar, planVars
  <2> QED BY <2>1, <2>2, <2>3, <2>4, <2>5
<1>2. IsFiniteSet(Bloqueando') /\ FichasAlcanzan'
  BY <1>0, <1>1, FichasIgual DEF Ajeno
<1>3. DespachoSeguro'
  <2>1. /\ hilo'["corto"].en = "a_exec" => hilo["corto"] = hilo'["corto"]
        /\ UNCHANGED cpu
    BY <1>0 DEF Ajeno
  <2>2. \A i \in 1..Len(CpusAlInicio) : i <= Len(listaCPU') /\ listaCPU'[i] = CpusAlInicio[i]
    <3>1. listaCPU \in Seq(CPUs) /\ CpusAlInicio \in Seq(CPUs)
      BY HechosCpu, ConstantesOK DEF TiposCPU
    <3>2. \A c \in CPUs : /\ Len(Append(listaCPU, c)) = Len(listaCPU) + 1
                          /\ \A i \in 1..Len(listaCPU) : Append(listaCPU, c)[i] = listaCPU[i]
      BY <3>1, AppendProperties
    <3>3. Len(listaCPU) \in Nat /\ Len(CpusAlInicio) \in Nat
      BY <3>1, LenProperties
    <3> QED BY <1>0, <3>2, <3>3 DEF Ajeno, FichasInv, DespachoSeguro
  <2> QED BY <2>1, <2>2 DEF FichasInv, DespachoSeguro
<1> QED BY <1>2, <1>3 DEF FichasInv

\* The short term planner spends a token: on nothing, on no free CPU, or on one
\* of each.
LEMMA FichasCorto ==
  ASSUME IInv, CpuInv, FichasInv, Corto
  PROVE  FichasInv'
<1>0. PICK k \in Nat, n \in Nat, b \in Nat, f \in Nat :
        /\ k = corto /\ n = Len(cola["READY"])
        /\ b = Cardinality(Bloqueando) /\ f = Cardinality(CpusLibres)
  BY Cuentas
<1>1. CASE CortoDespierta
  <2>1. /\ hilo["corto"].en = "espera" /\ corto' = k - 1 /\ k > 0
        /\ UNCHANGED <<cola, running, cpu, listaCPU>>
        /\ \/ UNCHANGED hilo /\ cola["READY"] = <<>>
           \/ \E p : VaCon("corto", "busca_cpu", p, 0)
    BY <1>0, <1>1 DEF CortoDespierta, cpuVars
  <2>2. /\ \/ hilo' = hilo /\ n = 0
           \/ hilo'["corto"].en = "busca_cpu"
        /\ \A c \in CPUs : hilo'[c] = hilo[c]
    BY <1>0, <2>1, HechosCpu, EmptySeq DEF VaCon, TiposHilo
  <2>3. Bloqueando' = Bloqueando /\ CpusLibres' = CpusLibres
    BY <2>1, <2>2 DEF Bloqueando, CpusLibres
  <2>4. k >= n \/ k >= f \/ k + b >= n \/ k + b >= f
    BY <1>0, <2>1 DEF FichasInv, FichasAlcanzan, Fichas, PorDespachar, Uno
  <2>5. FichasAlcanzan'
    <3>1. Cardinality(Bloqueando') = b /\ Cardinality(CpusLibres') = f /\ Len(cola'["READY"]) = n
      BY <1>0, <2>1, <2>3
    <3> QED BY <2>1, <2>2, <2>4, <3>1 DEF FichasAlcanzan, Fichas, PorDespachar, Uno
  <2> QED BY <2>1, <2>2, <2>3, <2>5 DEF FichasInv, DespachoSeguro
<1>2. CASE enviar_a_cpu /\ Libres = {}
  <2>1. /\ Queda("corto", "espera") /\ UNCHANGED <<running, cpu, corto, cola, listaCPU>>
        /\ hilo["corto"].en = "busca_cpu"
    BY <1>2 DEF enviar_a_cpu, planVars
  <2>2. hilo'["corto"].en = "espera" /\ \A c \in CPUs : hilo'[c] = hilo[c]
    BY <2>1, HechosCpu DEF Queda, Parado, TiposHilo
  <2>3. Bloqueando' = Bloqueando /\ CpusLibres' = CpusLibres
    BY <2>1, <2>2 DEF Bloqueando, CpusLibres
  <2>4. CpusLibres = {}
    <3> SUFFICES ASSUME NEW c \in CpusLibres PROVE FALSE
      OBVIOUS
    <3>1. PICK i \in 1..Len(CpusAlInicio) : c = CpusAlInicio[i] /\ running[c] = Nadie
      BY ConstantesOK, LenProperties DEF CpusLibres, Range
    <3>2. i \in DOMAIN listaCPU /\ listaCPU[i] = c
      BY <3>1, ConstantesOK, LenProperties, HechosCpu DEF FichasInv, DespachoSeguro, TiposCPU
    <3> QED BY <1>2, <3>1, <3>2 DEF Libres
  <2>5. FichasAlcanzan'
    <3>1. Cardinality(Bloqueando') = b /\ Cardinality(CpusLibres') = 0
      BY <1>0, <2>3, <2>4, FS_EmptySet
    <3> QED BY <1>0, <2>1, <2>2, <3>1 DEF FichasAlcanzan, Fichas, PorDespachar, Uno
  <2> QED BY <2>1, <2>2, <2>3, <2>5 DEF FichasInv, DespachoSeguro
<1>3. CASE enviar_a_cpu /\ Libres # {}
  <2> DEFINE i == Min(Libres)
             c == listaCPU[i]
  <2>1. i \in Libres /\ c \in CPUs /\ \A j \in Libres : i <= j
    <3>1. i \in Libres /\ c \in CPUs
      BY <1>3, HechosCpu, MinDeLista DEF Libres
    <3>2. Libres \in SUBSET Nat
      BY HechosCpu, LenProperties DEF Libres, TiposCPU
    <3> HIDE DEF i, c
    <3>3. \A j \in Libres : i <= j
      BY <1>3, <3>2, MinEsta DEF i
    <3> QED BY <3>1, <3>3
  <2>2. /\ hilo["corto"].en = "busca_cpu" /\ Va("corto", "a_exec")
        /\ running' = [running EXCEPT ![c] = hilo["corto"].p]
        /\ cpu' = [cpu EXCEPT ![c] = [p |-> hilo["corto"].p, pc |-> programCounter[hilo["corto"].p]]]
        /\ UNCHANGED <<cola, corto, listaCPU>>
    BY <1>3 DEF enviar_a_cpu, planVars
  <2>3. /\ hilo'["corto"].en = "a_exec" /\ hilo'["corto"].p = hilo["corto"].p
        /\ \A d \in CPUs : hilo'[d] = hilo[d] /\ hilo["corto"].p \in Pids
    BY <2>2, HechosCpu DEF Va, TiposHilo, Ociosas
  <2>4. PICK d \in CPUs : d = c /\ running[d] = Nadie
    BY <2>1 DEF Libres
  <2>5. cpu'[d].p = hilo["corto"].p
    BY <2>2, <2>4, HechosCpu DEF TiposCPU
  <2>6. Bloqueando' = Bloqueando
    BY <2>3 DEF Bloqueando
  <2>7. CpusLibres' = CpusLibres \ {d}
    <3>1. \A e \in CPUs : running'[e] = Nadie <=> running[e] = Nadie /\ e # d
      BY <2>2, <2>3, <2>4, HechosCpu DEF TiposCPU
    <3>2. Range(CpusAlInicio) \subseteq CPUs
      BY ConstantesOK, LenProperties, ElementOfSeq DEF Range
    <3> QED BY <3>1, <3>2 DEF CpusLibres
  <2>8. d \in CpusLibres \/ CpusLibres = {}
    <3> SUFFICES ASSUME NEW e \in CpusLibres PROVE d \in CpusLibres
      OBVIOUS
    <3>1. PICK j \in 1..Len(CpusAlInicio) : e = CpusAlInicio[j] /\ running[e] = Nadie
      BY ConstantesOK, LenProperties DEF CpusLibres, Range
    <3>2. j \in DOMAIN listaCPU /\ listaCPU[j] = e
      BY <3>1, ConstantesOK, LenProperties, HechosCpu DEF FichasInv, DespachoSeguro, TiposCPU
    <3>3. i <= j /\ i \in 1..Len(listaCPU)
      BY <2>1, <3>1, <3>2, HechosCpu, LenProperties DEF Libres, TiposCPU
    <3> HIDE DEF i
    <3>4. i \in 1..Len(CpusAlInicio)
      BY <3>1, <3>3, HechosCpu, ConstantesOK, LenProperties DEF TiposCPU
    <3>5. d = CpusAlInicio[i]
      BY <2>4, <3>4 DEF FichasInv, DespachoSeguro
    <3> QED BY <2>4, <3>4, <3>5, ConstantesOK, LenProperties DEF CpusLibres, Range
  <2> HIDE DEF i, c
  <2>9. \/ f = 0 /\ Cardinality(CpusLibres') = 0
        \/ Cardinality(CpusLibres') = f - 1
    <3>1. IsFiniteSet(CpusLibres)
      BY Cuentas
    <3>2. CASE d \in CpusLibres
      <4>1. Cardinality(CpusLibres \ {d}) = f - 1
        BY <1>0, <3>1, <3>2, FS_RemoveElement
      <4> QED BY <2>7, <4>1
    <3>3. CASE CpusLibres = {}
      BY <1>0, <2>7, <3>3, FS_EmptySet
    <3> QED BY <2>8, <3>2, <3>3
  <2>10. k + b + 1 >= n \/ k + b + 1 >= f
    BY <1>0, <2>2 DEF FichasInv, FichasAlcanzan, Fichas, PorDespachar, Uno
  <2>11. FichasAlcanzan'
    <3>1. Cardinality(Bloqueando') = b /\ Len(cola'["READY"]) = n /\ corto' = k
      BY <1>0, <2>2, <2>6
    <3>2. k + b >= n - 1 \/ k + b >= Cardinality(CpusLibres')
      BY <2>9, <2>10
    <3> QED BY <2>3, <3>1, <3>2 DEF FichasAlcanzan, Fichas, PorDespachar, Uno
  <2>12. DespachoSeguro'
    BY <2>2, <2>3, <2>5 DEF FichasInv, DespachoSeguro
  <2> QED BY <2>6, <2>11, <2>12 DEF FichasInv
<1>4. CASE ReadyAExec
  <2> DEFINE p == hilo["corto"].p
             s == cola["READY"]
  <2>1. /\ hilo["corto"].en = "a_exec" /\ Queda("corto", "espera") /\ p \in Range(s)
        /\ cola' = [cola EXCEPT !["READY"] = Saca(@, p)]
        /\ UNCHANGED <<running, cpu, corto, listaCPU>>
    BY <1>4 DEF ReadyAExec, cpuVars, IInv, PunteroVigente
  <2>2. hilo'["corto"].en = "espera" /\ \A c \in CPUs : hilo'[c] = hilo[c]
    BY <2>1, HechosCpu DEF Queda, Parado, TiposHilo
  <2>3. Len(cola'["READY"]) = n - 1
    <3>1. s \in Seq(Pids) /\ cola'["READY"] = RemoveFirst(s, p)
      BY <2>1, HechosCpu DEF TiposPlan, Estados, Saca
    <3>2. PICK i \in 1..Len(s) : RemoveFirst(s, p) = RemoveAt(s, i)
      BY <2>1, <3>1, RemoveFirstPresente
    <3>3. Len(RemoveAt(s, i)) = Len(s) - 1
      BY <3>1, <3>2, RemoveAtPropiedades, Zenon
    <3> QED BY <1>0, <3>1, <3>2, <3>3
  <2>4. Bloqueando' = Bloqueando /\ CpusLibres' = CpusLibres
    BY <2>1, <2>2 DEF Bloqueando, CpusLibres
  <2>5. FichasAlcanzan'
    <3>1. Cardinality(Bloqueando') = b /\ Cardinality(CpusLibres') = f /\ corto' = k
      BY <1>0, <2>1, <2>4
    <3>2. k + b >= n - 1 \/ k + b >= f
      BY <1>0, <2>1 DEF FichasInv, FichasAlcanzan, Fichas, PorDespachar, Uno
    <3> QED BY <2>2, <2>3, <3>1, <3>2 DEF FichasAlcanzan, Fichas, PorDespachar, Uno
  <2> QED BY <2>1, <2>2, <2>4, <2>5 DEF FichasInv, DespachoSeguro
<1> QED BY <1>1, <1>2, <1>3, <1>4 DEF Corto


\* A system call leaves the CPU of its process, which is not the one on its way
\* to EXEC.
LEMMA FichasCpu ==
  ASSUME IInv, CpuInv, FichasInv, "syscall" \notin Carreras, NEW c \in CPUs, Cpu(c)
  PROVE  FichasInv'
<1>1. /\ UNCHANGED <<hilo, running, cola, corto, listaCPU>> /\ PuedeLlamar(c)
      /\ \/ cpu' = [cpu EXCEPT ![c] = [p |-> Nadie, pc |-> 0]]
         \/ cpu' = [cpu EXCEPT ![c].pc = @ + 1]
  BY DEF Cpu, CpuBloqueante, CpuInitProc, planVars
<1>2. ASSUME NEW d \in CPUs, hilo["corto"].en = "a_exec", cpu[d].p = hilo["corto"].p
      PROVE  cpu'[d].p = hilo["corto"].p
  <2>1. CASE d # c
    BY <1>1, <1>2, <2>1, HechosCpu DEF TiposCPU
  <2>2. CASE d = c
    BY <1>1, <1>2, <2>2 DEF PuedeLlamar
  <2> QED BY <2>1, <2>2
<1>3. DespachoSeguro'
  BY <1>1, <1>2 DEF FichasInv, DespachoSeguro
<1>4. IsFiniteSet(Bloqueando') /\ FichasAlcanzan'
  BY <1>1, FichasIgual
<1> QED BY <1>3, <1>4 DEF FichasInv

\* A dispatch thread moves, and the CPUs and the short term planner do not.
LEMMA DespachoIgual ==
  ASSUME FichasInv, UNCHANGED <<cpu, listaCPU>>, hilo'["corto"] = hilo["corto"]
  PROVE  DespachoSeguro'
BY DEF FichasInv, DespachoSeguro

\* The handler that frees a node of a process it will block is itself a token.
LEMMA FichasLibera ==
  ASSUME IInv, CpuInv, FichasInv, NEW c \in CPUs, NEW p \in Pids, running[c] = p,
         running' = liberar_cpu(p), UNCHANGED <<cola, corto, listaCPU, cpu>>,
         hilo[c].en \notin PorBloquear, hilo'[c].en \in PorBloquear,
         \A u \in Hilos \ {c} : hilo'[u] = hilo[u]
  PROVE  FichasInv'
<1>0. PICK k \in Nat, n \in Nat, b \in Nat, f \in Nat :
        /\ k = corto /\ n = Len(cola["READY"])
        /\ b = Cardinality(Bloqueando) /\ f = Cardinality(CpusLibres)
  BY Cuentas
<1>1. hilo'["corto"] = hilo["corto"] /\ \A d \in CPUs \ {c} : hilo'[d] = hilo[d]
  BY HechosCpu
<1>2. IsFiniteSet(Bloqueando') /\ Cardinality(Bloqueando') = b + 1
  BY <1>0, <1>1, UnBloqueoMas
<1>3. Cardinality(CpusLibres') \in Nat /\ Cardinality(CpusLibres') <= f + 1
  BY <1>0, UnaLibreMas
<1>4. PICK u \in {0, 1}, v \in {0, 1} :
        /\ Uno(hilo["corto"].en = "busca_cpu") = u /\ Uno(hilo'["corto"].en = "busca_cpu") = u
        /\ Uno(hilo["corto"].en = "a_exec") = v /\ Uno(hilo'["corto"].en = "a_exec") = v
  BY <1>1 DEF Uno
<1>5. k + b + u >= n - v \/ k + b + u >= f
  BY <1>0, <1>4 DEF FichasInv, FichasAlcanzan, Fichas, PorDespachar
<1>6. FichasAlcanzan'
  <2>1. PICK g \in Nat : g = Cardinality(CpusLibres') /\ g <= f + 1
    BY <1>3
  <2>2. k + (b + 1) + u >= n - v \/ k + (b + 1) + u >= g
    BY <1>5, <2>1
  <2>3. corto' = k /\ Len(cola'["READY"]) = n
    BY <1>0
  <2> QED BY <1>2, <1>4, <2>1, <2>2, <2>3 DEF FichasAlcanzan, Fichas, PorDespachar
<1> QED BY <1>1, <1>2, <1>6, DespachoIgual DEF FichasInv

\* exec_a_blocked finds its process in EXEC, and the token the handler stood for
\* is posted.
LEMMA FichasBloquea ==
  ASSUME IInv, CpuInv, FichasInv, NEW c \in CPUs, hilo[c].en \in PorBloquear,
         exec_a_blocked(hilo[c].p, hilo[c].pc), UNCHANGED <<cola, running, cpu, listaCPU>>,
         hilo'[c].en \notin PorBloquear, \A u \in Hilos \ {c} : hilo'[u] = hilo[u]
  PROVE  FichasInv'
<1>0. PICK k \in Nat, n \in Nat, b \in Nat, f \in Nat :
        /\ k = corto /\ n = Len(cola["READY"])
        /\ b = Cardinality(Bloqueando) /\ f = Cardinality(CpusLibres)
  BY Cuentas
<1>1. hilo'["corto"] = hilo["corto"] /\ \A d \in CPUs \ {c} : hilo'[d] = hilo[d]
  BY HechosCpu
<1>2. corto' = k + 1
  <2>1. hilo[c].p \in lista["EXEC"]
    <3> SUFFICES ASSUME hilo["corto"].en = "a_exec", hilo["corto"].p = hilo[c].p PROVE FALSE
      BY DEF CpuInv, BloqueoConsistente, Despachado
    <3>1. PICK d \in CPUs : cpu[d].p = hilo[c].p
      BY DEF FichasInv, DespachoSeguro
    <3>2. hilo[c].p # Nadie
      BY HechosCpu DEF PorBloquear, Ociosas
    <3> QED BY <3>1, <3>2 DEF CpuInv, CpuConsistente, BloqueoConsistente
  <2> QED BY <1>0, <2>1 DEF exec_a_blocked
<1>3. IsFiniteSet(Bloqueando') /\ Cardinality(Bloqueando') = b - 1
  BY <1>0, <1>1, UnBloqueoMenos
<1>4. PICK u \in {0, 1}, v \in {0, 1} :
        /\ Uno(hilo["corto"].en = "busca_cpu") = u /\ Uno(hilo'["corto"].en = "busca_cpu") = u
        /\ Uno(hilo["corto"].en = "a_exec") = v /\ Uno(hilo'["corto"].en = "a_exec") = v
  BY <1>1 DEF Uno
<1>5. k + b + u >= n - v \/ k + b + u >= f
  BY <1>0, <1>4 DEF FichasInv, FichasAlcanzan, Fichas, PorDespachar
<1>6. CpusLibres' = CpusLibres
  BY DEF CpusLibres
<1>7. FichasAlcanzan'
  BY <1>0, <1>2, <1>3, <1>4, <1>5, <1>6 DEF FichasAlcanzan, Fichas, PorDespachar
<1> QED BY <1>1, <1>3, <1>7, DespachoIgual DEF FichasInv

\* EXIT_PID frees a node and posts.
LEMMA FichasSale ==
  ASSUME IInv, CpuInv, FichasInv, NEW c \in CPUs, LiberarYSalir(c)
  PROVE  FichasInv'
<1>0. PICK k \in Nat, n \in Nat, b \in Nat, f \in Nat :
        /\ k = corto /\ n = Len(cola["READY"])
        /\ b = Cardinality(Bloqueando) /\ f = Cardinality(CpusLibres)
  BY Cuentas
<1>1. /\ hilo[c].en = "exit_libera" /\ hilo[c].p \in Pids /\ running[c] = hilo[c].p
      /\ running' = liberar_cpu(hilo[c].p) /\ corto' = k + 1
      /\ UNCHANGED <<cola, listaCPU, cpu>> /\ Va(c, "exit_reinicia")
  <2>1. hilo[c].en = "exit_libera"
    BY DEF LiberarYSalir
  <2>2. hilo[c].p \in Pids /\ running[c] = hilo[c].p
    BY <2>1, HechosCpu DEF CpuInv, CpuConsistente, ConCpu, Ociosas
  <2> QED BY <1>0, <2>1, <2>2 DEF LiberarYSalir, agregar_a_EXIT, cpuVars
<1>2. /\ hilo'["corto"] = hilo["corto"]
      /\ \A d \in CPUs : hilo'[d].en \in PorBloquear <=> hilo[d].en \in PorBloquear
  BY <1>1, HechosCpu DEF Va, TiposHilo, PorBloquear
<1>3. Bloqueando' = Bloqueando /\ IsFiniteSet(Bloqueando')
  BY <1>2 DEF Bloqueando, FichasInv
<1>4. Cardinality(CpusLibres') \in Nat /\ Cardinality(CpusLibres') <= f + 1
  BY <1>0, <1>1, UnaLibreMas
<1>5. PICK u \in {0, 1}, v \in {0, 1} :
        /\ Uno(hilo["corto"].en = "busca_cpu") = u /\ Uno(hilo'["corto"].en = "busca_cpu") = u
        /\ Uno(hilo["corto"].en = "a_exec") = v /\ Uno(hilo'["corto"].en = "a_exec") = v
  BY <1>2 DEF Uno
<1>6. k + b + u >= n - v \/ k + b + u >= f
  BY <1>0, <1>5 DEF FichasInv, FichasAlcanzan, Fichas, PorDespachar
<1>7. Cardinality(Bloqueando') = b /\ Len(cola'["READY"]) = n
  BY <1>0, <1>1, <1>3
<1>8. FichasAlcanzan'
  BY <1>1, <1>4, <1>5, <1>6, <1>7 DEF FichasAlcanzan, Fichas, PorDespachar
<1> QED BY <1>1, <1>2, <1>3, <1>8, DespachoIgual DEF FichasInv

\* FichasInv: the dispatch threads.
LEMMA FichasDispatch ==
  ASSUME IInv, CpuInv, FichasInv, NEW c \in CPUs, Dispatch(c)
  PROVE  FichasInv'
<1>a. ASSUME NEW e \in Etiquetas, Va(c, e) \/ Queda(c, e) \/ \E p, k : VaCon(c, e, p, k)
      PROVE  hilo'[c].en = e /\ \A u \in Hilos \ {c} : hilo'[u] = hilo[u]
  BY <1>a, HechosCpu DEF Va, Queda, VaCon, Parado, TiposHilo
<1>b. ASSUME UNCHANGED <<running, cpu, listaCPU, cola, corto>>, hilo[c].en \notin PorBloquear,
             hilo'[c].en \notin PorBloquear, \A u \in Hilos \ {c} : hilo'[u] = hilo[u]
      PROVE  FichasInv'
  <2>1. hilo'["corto"] = hilo["corto"] /\ \A d \in CPUs \ {c} : hilo'[d] = hilo[d]
    BY <1>b, HechosCpu
  <2> QED BY <1>b, <2>1, FichasIgual, DespachoIgual DEF FichasInv
<1>1. CASE SysComienzoIO(c)
  <2> DEFINE m == Head(deCpu[c])
  <2>1. Recibe(c, "IO") /\ VaCon(c, "io_bloquea", m.p, m.pc) /\ running' = liberar_cpu(m.p)
        /\ UNCHANGED <<cpu, cola, corto, listaCPU>>
    BY <1>1 DEF SysComienzoIO, planVars
  <2>2. running[c] = m.p /\ m.p \in Pids /\ hilo[c].en = "recibe"
    BY <2>1, LlamadaUnica DEF CpuInv
  <2>3. hilo'[c].en = "io_bloquea" /\ \A u \in Hilos \ {c} : hilo'[u] = hilo[u]
    BY <2>1, <1>a DEF Etiquetas
  <2> HIDE DEF m
  <2> QED BY <2>1, <2>2, <2>3, FichasLibera DEF PorBloquear
<1>2. CASE LiberarPorDump(c)
  <2>1. /\ hilo[c].en = "dump_libera" /\ Va(c, "dump_bloquea") /\ running' = liberar_cpu(hilo[c].p)
        /\ UNCHANGED <<cpu, cola, corto, listaCPU>>
    BY <1>2 DEF LiberarPorDump, planVars, cpuVars
  <2>2. running[c] = hilo[c].p /\ hilo[c].p \in Pids
    BY <2>1, HechosCpu DEF CpuInv, CpuConsistente, ConCpu, Ociosas
  <2>3. hilo'[c].en = "dump_bloquea" /\ \A u \in Hilos \ {c} : hilo'[u] = hilo[u]
    BY <2>1, <1>a DEF Etiquetas
  <2> QED BY <2>1, <2>2, <2>3, FichasLibera DEF PorBloquear
<1>3. CASE BloquearPorIO(c) \/ BloquearPorDump(c)
  <2>1. /\ hilo[c].en \in PorBloquear /\ exec_a_blocked(hilo[c].p, hilo[c].pc)
        /\ UNCHANGED <<cola, running, cpu, listaCPU>>
        /\ Va(c, "io_encola") \/ Queda(c, "recibe")
    BY <1>3 DEF BloquearPorIO, BloquearPorDump, PorBloquear, cpuVars
  <2>2. hilo'[c].en \in {"io_encola", "recibe"} /\ \A u \in Hilos \ {c} : hilo'[u] = hilo[u]
    BY <2>1, <1>a DEF Etiquetas
  <2>3. hilo'[c].en \notin PorBloquear
    BY <2>2 DEF PorBloquear
  <2> QED BY <2>1, <2>2, <2>3, FichasBloquea
<1>4. CASE agregar_a_cola_por_IO(c) \/ ReiniciarFinalizar(c)
  BY <1>4, FichasOtros
<1>5. CASE SysInitProc(c) \/ SysDumpMemory(c) \/ SysExit(c)
  <2>1. /\ UNCHANGED <<running, cpu, listaCPU, cola, corto>> /\ hilo[c].en = "recibe"
        /\ \E e \in {"init_consulta", "dump_libera", "exit_espera"} : \E p, k : VaCon(c, e, p, k)
    BY <1>5 DEF SysInitProc, SysDumpMemory, SysExit, init_proc_pid, Recibe, planVars
  <2>2. hilo'[c].en \notin PorBloquear /\ \A u \in Hilos \ {c} : hilo'[u] = hilo[u]
    BY <2>1, <1>a DEF Etiquetas, PorBloquear
  <2> QED BY <2>1, <2>2, <1>b DEF PorBloquear
<1>6. CASE RespuestaFinalizar(c)
  <2>1. /\ UNCHANGED <<running, cpu, listaCPU, cola, corto>> /\ hilo[c].en = "exit_espera"
        /\ Va(c, "busca_EXEC") \/ Queda(c, "recibe")
    BY <1>6 DEF RespuestaFinalizar, planVars, cpuVars
  <2>2. hilo'[c].en \notin PorBloquear /\ \A u \in Hilos \ {c} : hilo'[u] = hilo[u]
    BY <2>1, <1>a DEF Etiquetas, PorBloquear
  <2> QED BY <2>1, <2>2, <1>b DEF PorBloquear
<1>7. CASE buscar_proceso_por_pid(c)
  <2>1. /\ UNCHANGED <<running, cpu, listaCPU, cola, corto>>
        /\ hilo[c].en \in {"busca_EXEC", "busca_BLOCKED", "busca_SUSP"}
        /\ \/ Va(c, "exit_libera") \/ Queda(c, "recibe")
           \/ Va(c, "busca_BLOCKED") \/ Va(c, "busca_SUSP")
    BY <1>7 DEF buscar_proceso_por_pid, Busca, cpuVars
  <2>2. hilo'[c].en \notin PorBloquear /\ \A u \in Hilos \ {c} : hilo'[u] = hilo[u]
    BY <2>1, <1>a DEF Etiquetas, PorBloquear
  <2> QED BY <2>1, <2>2, <1>b DEF PorBloquear
<1>8. CASE LiberarYSalir(c)
  BY <1>8, FichasSale
<1> QED BY <1>1, <1>2, <1>3, <1>4, <1>5, <1>6, <1>7, <1>8 DEF Dispatch

\* FichasInv at the start: READY is empty and the planner is off.
LEMMA FichasInicial == Init => FichasInv
<1> SUFFICES ASSUME Init PROVE FichasInv
  OBVIOUS
<1>1. /\ \A c \in CPUs : hilo[c].en = "recibe"
      /\ hilo["corto"].en = "apagado" /\ corto = 0 /\ cola["READY"] = <<>>
      /\ listaCPU = CpusAlInicio
  BY HilosDe, Disjuntos DEF Init, Parado, Estados
<1>2. Bloqueando = {}
  BY <1>1 DEF Bloqueando, PorBloquear
<1>3. IsFiniteSet(Bloqueando) /\ Cardinality(Bloqueando) = 0
  BY <1>2, FS_EmptySet
<1>4. FichasAlcanzan
  BY <1>1, <1>3 DEF FichasAlcanzan, Fichas, PorDespachar, Uno
<1>5. DespachoSeguro
  BY <1>1, ConstantesOK, LenProperties DEF DespachoSeguro
<1> QED BY <1>3, <1>4, <1>5 DEF FichasInv

\* FichasInv is inductive.
LEMMA FichasPaso ==
  "syscall" \notin Carreras /\ IInv /\ CpuInv /\ FichasInv /\ [Next]_vars => FichasInv'
<1> SUFFICES ASSUME "syscall" \notin Carreras, IInv, CpuInv, FichasInv, [Next]_vars
             PROVE  FichasInv'
  OBVIOUS
<1> QED BY FichasOtros, FichasCorto, FichasCpu, FichasDispatch DEF Next

\* At rest no token is left, so nothing is left to do with one.
LEMMA QuietoSinFichas == IInv /\ FichasInv => SinTrabajoPerdido
<1> SUFFICES ASSUME IInv, FichasInv, corto = 0, \A t \in {"corto"} \cup CPUs : Quieto(t),
                    cola["READY"] # <<>>, NEW c \in Range(CpusAlInicio), running[c] = Nadie
             PROVE  FALSE
  BY DEF SinTrabajoPerdido
<1>1. hilo["corto"].en = "espera" /\ \A d \in CPUs : hilo[d].en = "recibe"
  BY Disjuntos, HechosCpu DEF Quieto, Reposo
<1>2. Bloqueando = {}
  BY <1>1 DEF Bloqueando, PorBloquear
<1>3. Cardinality(Bloqueando) = 0
  BY <1>2, FS_EmptySet
<1>4. PICK n \in Nat, f \in Nat : n = Len(cola["READY"]) /\ f = Cardinality(CpusLibres)
  BY Cuentas
<1>5. n # 0
  BY <1>4, Cuentas, EmptySeq
<1>6. f # 0
  <2>1. IsFiniteSet(CpusLibres) /\ c \in CpusLibres
    BY Cuentas DEF CpusLibres
  <2> QED BY <1>4, <2>1, FS_EmptySet
<1> QED BY <1>1, <1>3, <1>4, <1>5, <1>6 DEF FichasInv, FichasAlcanzan, Fichas, PorDespachar, Uno

\* One token per event is enough: when no system call overtakes the filing of its
\* process in EXEC, the short term planner never sleeps with a process in READY
\* and a CPU connected from the start free, for any number of both.
THEOREM SinFichasPerdidas == "syscall" \notin Carreras => (Spec => []SinTrabajoPerdido)
<1> SUFFICES ASSUME "syscall" \notin Carreras PROVE Spec => []SinTrabajoPerdido
  OBVIOUS
<1>1. IInv /\ CpuInv /\ FichasInv /\ [Next]_vars => FichasInv'
  BY FichasPaso
<1> QED BY <1>1, FichasInicial, QuietoSinFichas, Invariante, InvarianteCpu, PTL DEF Spec

-----------------------------------------------------------------------------
(* The lists refine the life cycle of a process.                            *)

\* The state that goes with each place.
EstadoDelLugar(x) ==
  IF x \in Hilos
  THEN IF x \in CPUs /\ hilo[x].en = "exit_libera" THEN "EXIT" ELSE "NEW"
  ELSE IF x = "TIMER" THEN "BLOCKED" ELSE x

EstadosDe == [p \in Pids |-> EstadoDe(p)]

\* A process is in the state of the one place where it is.
LEMMA EstadoPorLugar ==
  IInv => \A p \in Pids, a \in Lugar : En(a, p) => EstadoDe(p) = EstadoDelLugar(a)
<1> SUFFICES ASSUME IInv, NEW p \in Pids, NEW a \in Lugar, En(a, p)
             PROVE  EstadoDe(p) = EstadoDelLugar(a)
  OBVIOUS
<1>1. /\ p < siguientePid /\ siguientePid \in Int /\ p \in Int
      /\ \A q \in Estados \ {a} : p \notin Range(cola[q])
      /\ \A g \in Grupos \ {a} : p \notin lista[g]
      /\ \A t \in Hilos \ {a} : ~(hilo[t].p = p /\ hilo[t].en \in EnMano(t))
  BY NoEstaEnOtro, HechosCpu, ConstantesOK DEF IInv, TiposPlan, Pids
<1>2. ~(p >= siguientePid)
  BY <1>1
<1>3. \A c \in CPUs : "exit_libera" \in EnMano(c) /\ c \in Hilos
  BY Manos, HechosCpu
<1>4. CASE a \in Estados
  <2>1. p \in Range(cola[a]) /\ a \notin Hilos /\ a \notin Grupos
    BY <1>4, EnPartes, Disjuntos
  <2>2. /\ \A g \in Grupos : p \notin lista[g]
        /\ \A c \in CPUs : ~(hilo[c].p = p /\ hilo[c].en = "exit_libera")
    BY <1>1, <1>3, <2>1
  <2>3. CASE a = "NEW"
    BY <1>1, <1>2, <2>1, <2>2, <2>3 DEF EstadoDe, EstadoDelLugar, Estados, Grupos
  <2>4. CASE a # "NEW"
    <3>1. a \in {"READY", "SUSP_READY"} /\ \A q \in {"READY", "SUSP_READY"} : p \in Range(cola[q]) <=> q = a
      BY <1>1, <1>4, <2>1, <2>4 DEF Estados
    <3>2. (CHOOSE q \in {"READY", "SUSP_READY"} : p \in Range(cola[q])) = a
      BY <3>1
    <3> QED BY <1>2, <2>1, <3>1, <3>2 DEF EstadoDe, EstadoDelLugar
  <2> QED BY <2>3, <2>4
<1>5. CASE a \in Grupos
  <2>1. /\ p \in lista[a] /\ a \notin Hilos /\ a \notin Estados
        /\ \A q \in {"READY", "SUSP_READY"} : p \notin Range(cola[q])
    BY <1>1, <1>5, EnPartes, Disjuntos DEF Estados
  <2>2. CASE a = "TIMER"
    <3>1. \A g \in Grupos \ {"TIMER"} : p \notin lista[g]
      BY <1>1, <2>2
    <3> QED BY <1>2, <2>1, <2>2, <3>1 DEF EstadoDe, EstadoDelLugar
  <2>3. CASE a # "TIMER"
    <3>1. \A g \in Grupos \ {"TIMER"} : p \in lista[g] <=> g = a
      BY <1>1, <1>5, <2>1, <2>3
    <3>2. (CHOOSE g \in Grupos \ {"TIMER"} : p \in lista[g]) = a
      BY <1>5, <2>3, <3>1
    <3>3. \E g \in Grupos \ {"TIMER"} : p \in lista[g]
      BY <1>5, <2>1, <2>3
    <3> QED BY <1>2, <2>1, <2>3, <3>2, <3>3 DEF EstadoDe, EstadoDelLugar
  <2> QED BY <2>2, <2>3
<1>6. CASE a \in Hilos
  <2>1. /\ hilo[a].p = p /\ hilo[a].en \in EnMano(a) /\ a \notin Estados /\ a \notin Grupos
        /\ \A q \in {"READY", "SUSP_READY"} : p \notin Range(cola[q])
        /\ \A g \in Grupos : p \notin lista[g]
    BY <1>1, <1>6, EnPartes, Disjuntos DEF Estados
  <2>2. (\E c \in CPUs : hilo[c].p = p /\ hilo[c].en = "exit_libera")
          <=> a \in CPUs /\ hilo[a].en = "exit_libera"
    BY <1>1, <1>3, <2>1
  <2>3. EstadoDe(p) = IF \E c \in CPUs : hilo[c].p = p /\ hilo[c].en = "exit_libera"
                      THEN "EXIT" ELSE "NEW"
    BY <1>2, <2>1 DEF EstadoDe, Grupos
  <2> QED BY <1>6, <2>2, <2>3 DEF EstadoDelLugar
<1> QED BY <1>4, <1>5, <1>6 DEF Lugar

\* The state of a process follows from where it is, after the step too.
LEMMA EstadoPorLugarPrima ==
  IInv' => \A p \in Pids, a \in Lugar : En(a, p)' => EstadoDe(p)' = EstadoDelLugar(a)'
<1>1. (IInv => \A p \in Pids, a \in Lugar : En(a, p) => EstadoDe(p) = EstadoDelLugar(a))'
  BY EstadoPorLugar, PTL
<1> QED BY <1>1

\* What a step does that moves no process but p.
ColasAparte(p) ==
  \A r \in Pids \ {p}, q \in Estados : r \in Range(cola[q]) => r \in Range(cola'[q])
ListasAparte(p) ==
  \A r \in Pids \ {p}, g \in Grupos : r \in lista[g] => r \in lista'[g]
ManosAparte(p) ==
  \A r \in Pids \ {p}, t \in Hilos : hilo[t].p = r /\ hilo[t].en \in EnMano(t) =>
    /\ hilo'[t].p = r /\ hilo'[t].en \in EnMano(t)
    /\ hilo'[t].en = "exit_libera" <=> hilo[t].en = "exit_libera"
Aparte(p) == ColasAparte(p) /\ ListasAparte(p) /\ ManosAparte(p)

\* A step that moves p only leaves every other process in its state.
LEMMA EstadoAparte ==
  ASSUME IInv, IInv', UNCHANGED siguientePid, NEW p, Aparte(p)
  PROVE  \A r \in Pids \ {p} : EstadoDe(r)' = EstadoDe(r)
<1> SUFFICES ASSUME NEW r \in Pids \ {p} PROVE EstadoDe(r)' = EstadoDe(r)
  OBVIOUS
<1>1. CASE r < siguientePid
  <2>1. PICK a \in Lugar : En(a, r)
    BY <1>1 DEF IInv, UnSoloLugar
  <2>2. En(a, r)' /\ EstadoDelLugar(a)' = EstadoDelLugar(a)
    <3>1. CASE a \in Estados
      BY <2>1, <3>1, EnPartes, EnPartesPrima, Disjuntos DEF Aparte, ColasAparte, EstadoDelLugar
    <3>2. CASE a \in Grupos
      BY <2>1, <3>2, EnPartes, EnPartesPrima, Disjuntos DEF Aparte, ListasAparte, EstadoDelLugar
    <3>3. CASE a \in Hilos
      BY <2>1, <3>3, EnPartes, EnPartesPrima DEF Aparte, ManosAparte, EstadoDelLugar
    <3> QED BY <3>1, <3>2, <3>3 DEF Lugar
  <2> QED BY <2>1, <2>2, EstadoPorLugar, EstadoPorLugarPrima
<1>2. CASE ~(r < siguientePid)
  <2>1. r >= siguientePid
    BY <1>2, HechosCpu, ConstantesOK DEF TiposPlan, Pids
  <2> QED BY <2>1 DEF EstadoDe
<1> QED BY <1>1, <1>2

\* A step that moves nothing is a stutter of the life cycle.
LEMMA CicloQuieto ==
  ASSUME IInv, IInv', UNCHANGED <<siguientePid, programCounter>>, Aparte(Nadie)
  PROVE  UNCHANGED <<EstadosDe, programCounter>>
<1>1. \A r \in Pids : EstadoDe(r)' = EstadoDe(r)
  BY EstadoAparte, ConstantesOK
<1>2. EstadosDe' = [r \in Pids |-> EstadoDe(r)']
  BY DEF EstadosDe
<1> QED BY <1>1, <1>2 DEF EstadosDe

\* The move of one process, in the life cycle.
LEMMA CicloMueve ==
  ASSUME IInv, IInv', UNCHANGED siguientePid, NEW p \in Pids, Aparte(p),
         NEW a \in Lugar, NEW b \in Lugar, En(a, p), En(b, p)'
  PROVE  /\ EstadosDe \in [Pids -> {EstadosDe[r] : r \in Pids}]
         /\ EstadosDe[p] = EstadoDelLugar(a)
         /\ EstadosDe' = [EstadosDe EXCEPT ![p] = EstadoDelLugar(b)']
<1>1. \A r \in Pids \ {p} : EstadoDe(r)' = EstadoDe(r)
  BY EstadoAparte
<1>2. EstadoDe(p) = EstadoDelLugar(a) /\ EstadoDe(p)' = EstadoDelLugar(b)'
  BY EstadoPorLugar, EstadoPorLugarPrima
<1>3. EstadosDe' = [r \in Pids |-> EstadoDe(r)']
  BY DEF EstadosDe
<1> QED BY <1>1, <1>2, <1>3 DEF EstadosDe

\* The arrows that leave the program counter alone.
Flechas == {<<"NEW", "READY">>, <<"READY", "EXEC">>, <<"BLOCKED", "READY">>,
            <<"SUSP_BLOCKED", "SUSP_READY">>, <<"BLOCKED", "SUSP_BLOCKED">>,
            <<"SUSP_READY", "READY">>, <<"EXEC", "EXIT">>}

CicloPasos == Ciclo!Next \/ UNCHANGED <<EstadosDe, programCounter>>

\* A change of state that the diagram allows is a step of CicloDeVida.
LEMMA CicloFlecha ==
  ASSUME NEW p \in Pids, UNCHANGED programCounter, NEW a, NEW b,
         EstadosDe[p] = a, EstadosDe' = [EstadosDe EXCEPT ![p] = b],
         <<a, b>> \in Flechas
  PROVE  CicloPasos
<1>1. EstadosDe'[p] = b /\ a # b
  BY DEF EstadosDe, Flechas
<1>2. \/ Ciclo!Admitir(p) \/ Ciclo!Despachar(p) \/ Ciclo!Desbloquear(p)
      \/ Ciclo!Suspender(p) \/ Ciclo!Desuspender(p) \/ Ciclo!Finalizar(p)
  BY DEF Flechas, EstadosDe, Ciclo!Admitir, Ciclo!Despachar, Ciclo!Desbloquear, Ciclo!Suspender,
     Ciclo!Desuspender, Ciclo!Finalizar, Ciclo!Pasa
<1>3. p \in Ciclo!Pids
  BY DEF Ciclo!Pids, Pids
<1> QED BY <1>1, <1>2, <1>3 DEF CicloPasos, Ciclo!Next, EstadosDe

\* A process that changes place without changing state.
LEMMA CicloMismo ==
  ASSUME NEW p \in Pids, UNCHANGED programCounter,
         EstadosDe' = [EstadosDe EXCEPT ![p] = EstadosDe[p]]
  PROVE  CicloPasos
BY DEF CicloPasos, EstadosDe

\* How the operations on threads, queues and lists leave the other processes.
LEMMA ManoAparte ==
  ASSUME TiposHilo, NEW t \in Hilos, NEW e, NEW p,
         Va(t, e) \/ Queda(t, e) \/ \E r, k : VaCon(t, e, r, k),
         \/ hilo[t].en \notin EnMano(t) \/ hilo[t].p = p
         \/ /\ Va(t, e) /\ e \in EnMano(t)
            /\ e = "exit_libera" <=> hilo[t].en = "exit_libera"
  PROVE  ManosAparte(p)
<1>1. /\ \A u \in Hilos \ {t} : hilo'[u] = hilo[u]
      /\ Va(t, e) => hilo'[t].en = e /\ hilo'[t].p = hilo[t].p
  BY DEF TiposHilo, Va, Queda, VaCon
<1> QED BY <1>1 DEF ManosAparte

\* One process added to a queue or taken out of it moves no other.
LEMMA ColaAparte ==
  ASSUME IInv, NEW p, NEW q \in Estados,
         \/ UNCHANGED cola
         \/ \E r \in Pids : cola' = Agrega(cola, q, r)
         \/ cola' = [cola EXCEPT ![q] = Saca(@, p)]
  PROVE  ColasAparte(p)
<1>0. cola \in [Estados -> Seq(Pids)] /\ \A x \in Estados : IsInjective(cola[x])
  BY DEF IInv, TypeOK, TiposPlan, UnSoloLugar
<1>1. ASSUME NEW r \in Pids, cola' = Agrega(cola, q, r) PROVE ColasAparte(p)
  <2>1. cola'[q] = Append(cola[q], r) /\ \A x \in Estados \ {q} : cola'[x] = cola[x]
    BY <1>0, <1>1 DEF Agrega
  <2>2. Range(cola'[q]) = Range(cola[q]) \cup {r}
    BY <1>0, <2>1, AppendPropiedades
  <2> QED BY <2>1, <2>2 DEF ColasAparte
<1>2. CASE cola' = [cola EXCEPT ![q] = Saca(@, p)]
  <2>1. cola'[q] = RemoveFirst(cola[q], p) /\ \A x \in Estados \ {q} : cola'[x] = cola[x]
    BY <1>0, <1>2 DEF Saca
  <2>2. Range(cola[q]) \ {p} \subseteq Range(cola'[q])
    BY <1>0, <2>1, RemoveFirstPropiedades
  <2> QED BY <2>1, <2>2 DEF ColasAparte
<1>3. CASE UNCHANGED cola
  BY <1>3 DEF ColasAparte
<1> QED BY <1>1, <1>2, <1>3

\* Nor does one added to a list, taken out of it or moved.
LEMMA ListaAparte ==
  ASSUME TiposPlan, NEW p, NEW g \in Grupos, NEW h \in Grupos,
         \/ UNCHANGED lista
         \/ lista' = [lista EXCEPT ![g] = @ \ {p}]
         \/ lista' = [lista EXCEPT ![g] = @ \cup {p}]
         \/ lista' = Mueve(g, h, p)
  PROVE  ListasAparte(p)
BY DEF TiposPlan, ListasAparte, Mueve

\* INIT_PROC and the admission of a process.
LEMMA CicloCreacion ==
  ASSUME IInv, IInv', NEW t \in {"main", "largo"} \cup CPUs, Creacion(t)
  PROVE  CicloPasos
<1>p. PICK p : p = hilo[t].p
  OBVIOUS
<1>0. /\ t \in Hilos /\ t \in Lugar /\ TiposHilo /\ TiposPlan
      /\ hilo[t].en \notin Ociosas => p \in Pids
      /\ p = hilo[t].p /\ UNCHANGED <<siguientePid, programCounter, lista>>
  <2>1. UNCHANGED <<siguientePid, programCounter, lista>>
    BY DEF Creacion, ConsultarNEW, ConsultarSUSP, InitAgregaNEW, EnviarCrear,
       RespuestaCrear, SacarDeNEW, CreadoAReady, ReiniciarCrear, planVars
  <2> QED BY <1>p, <2>1, HilosDe, HechosCpu DEF Lugar
<1>a. \A r : ListasAparte(r)
  BY <1>0 DEF ListasAparte
<1>b. ASSUME UNCHANGED cola, ManosAparte(Nadie) PROVE CicloPasos
  BY <1>0, <1>a, <1>b, CicloQuieto DEF Aparte, ColasAparte, CicloPasos
<1>1. CASE ConsultarNEW(t) \/ ConsultarSUSP(t)
  <2>1. /\ t # "largo" /\ UNCHANGED cola
        /\ \E e \in {"init_consulta_susp", "init_a_new", "crear_envia"} : Va(t, e)
        /\ hilo[t].en # "exit_libera"
    BY <1>1 DEF ConsultarNEW, ConsultarSUSP, planVars, IInv, Arranque
  <2>2. \A e \in {"init_consulta_susp", "init_a_new", "crear_envia"} : e \in EnMano(t)
    BY <1>0, <2>1, Manos
  <2>3. ManosAparte(Nadie)
    BY <1>0, <2>1, <2>2, ManoAparte
  <2> QED BY <1>b, <2>1, <2>3
<1>2. CASE EnviarCrear(t) \/ ReiniciarCrear(t)
  <2>1. /\ UNCHANGED cola /\ hilo[t].en \in {"crear_envia", "crear_reinicia"}
        /\ hilo[t].en = "crear_envia" => Va(t, "crear_espera")
        /\ hilo[t].en = "crear_reinicia" => Queda(t, Reposo(t))
    BY <1>2 DEF EnviarCrear, ReiniciarCrear, planVars
  <2>2. /\ hilo[t].en = "crear_reinicia" => hilo[t].en \notin EnMano(t)
        /\ t = "largo" => hilo[t].en \notin EnMano(t)
        /\ t # "largo" => "crear_espera" \in EnMano(t)
    BY <1>0, <2>1, Manos
  <2>3. ManosAparte(Nadie)
    BY <1>0, <2>1, <2>2, ManoAparte
  <2> QED BY <1>b, <2>1, <2>3
<1>3. CASE RespuestaCrear(t)
  <2>1. /\ UNCHANGED cola /\ hilo[t].en = "crear_espera"
        /\ \/ Va(t, "crear_saca")
           \/ t = "largo" /\ Queda(t, "espera")
           \/ Va(t, "init_a_new")
    BY <1>3 DEF RespuestaCrear, planVars
  <2>2. /\ t = "largo" => hilo[t].en \notin EnMano(t)
        /\ t # "largo" => "crear_saca" \in EnMano(t) /\ "init_a_new" \in EnMano(t)
    BY <1>0, <2>1, Manos
  <2>3. ManosAparte(Nadie)
    BY <1>0, <2>1, <2>2, ManoAparte
  <2> QED BY <1>b, <2>1, <2>3
<1>4. CASE InitAgregaNEW(t)
  <2>1. /\ hilo[t].en = "init_a_new" /\ p \in Pids /\ t # "largo"
        /\ cola' = Agrega(cola, "NEW", p) /\ Queda(t, Reposo(t))
    BY <1>0, <1>4 DEF InitAgregaNEW, agregar_a_NEW, Ociosas, IInv, Arranque
  <2>2. En(t, p) /\ "NEW" \in Lugar
    BY <1>0, <2>1, Manos, EnPartes DEF Lugar, Estados
  <2>3. En("NEW", p)'
    BY <1>0, <2>1, AppendPropiedades, EnPartesPrima DEF TiposPlan, Agrega, Estados
  <2>4. Aparte(p)
    BY <1>0, <1>a, <2>1, ManoAparte, ColaAparte DEF Aparte, Estados
  <2>5. EstadoDelLugar(t) = "NEW" /\ EstadoDelLugar("NEW")' = "NEW"
    BY <1>0, <2>1, Disjuntos DEF EstadoDelLugar, Estados
  <2>6. EstadosDe[p] = "NEW" /\ EstadosDe' = [EstadosDe EXCEPT ![p] = "NEW"]
    BY <1>0, <2>1, <2>2, <2>3, <2>4, <2>5, CicloMueve
  <2> QED BY <1>0, <2>1, <2>6, CicloMismo
<1>5. CASE SacarDeNEW(t)
  <2>1. /\ hilo[t].en = "crear_saca" /\ p \in Pids
        /\ cola' = [cola EXCEPT !["NEW"] = Saca(@, p)] /\ Va(t, "crear_agrega")
    BY <1>0, <1>5 DEF SacarDeNEW, Ociosas
  <2>2. PICK a \in {"NEW", t} : En(a, p) /\ a \in Lugar
    <3>1. CASE t = "largo"
      BY <1>0, <2>1, <3>1, EnPartes DEF IInv, PunteroVigente, Estados, Lugar
    <3>2. CASE t # "largo"
      BY <1>0, <2>1, <3>2, Manos, EnPartes
    <3> QED BY <3>1, <3>2
  <2>3. En(t, p)' /\ hilo'[t].en = "crear_agrega"
    <3>1. hilo'[t].en = "crear_agrega" /\ hilo'[t].p = p
      BY <1>0, <2>1 DEF Va, TiposHilo
    <3>2. "crear_agrega" \in EnMano(t)
      BY <1>0, Manos
    <3> QED BY <1>0, <3>1, <3>2, EnPartesPrima
  <2>4. Aparte(p)
    BY <1>0, <1>a, <2>1, ManoAparte, ColaAparte DEF Aparte, Estados
  <2>5. EstadoDelLugar(a) = "NEW" /\ EstadoDelLugar(t)' = "NEW"
    BY <1>0, <2>1, <2>3, Disjuntos DEF EstadoDelLugar, Estados
  <2>6. EstadosDe[p] = "NEW" /\ EstadosDe' = [EstadosDe EXCEPT ![p] = "NEW"]
    BY <1>0, <2>1, <2>2, <2>3, <2>4, <2>5, CicloMueve
  <2> QED BY <1>0, <2>1, <2>6, CicloMismo
<1>6. CASE CreadoAReady(t)
  <2>1. /\ hilo[t].en = "crear_agrega" /\ p \in Pids
        /\ cola' = Agrega(cola, "READY", p) /\ Va(t, "crear_reinicia")
    BY <1>0, <1>6 DEF CreadoAReady, agregar_a_READY, Ociosas
  <2>2. En(t, p) /\ "READY" \in Lugar
    BY <1>0, <2>1, Manos, EnPartes DEF Lugar, Estados
  <2>3. En("READY", p)'
    BY <1>0, <2>1, AppendPropiedades, EnPartesPrima DEF TiposPlan, Agrega, Estados
  <2>4. Aparte(p)
    BY <1>0, <1>a, <2>1, ManoAparte, ColaAparte DEF Aparte, Estados
  <2>5. EstadoDelLugar(t) = "NEW" /\ EstadoDelLugar("READY")' = "READY"
    BY <1>0, <2>1, Disjuntos DEF EstadoDelLugar, Estados
  <2>6. EstadosDe[p] = "NEW" /\ EstadosDe' = [EstadosDe EXCEPT ![p] = "READY"]
    BY <1>0, <2>1, <2>2, <2>3, <2>4, <2>5, CicloMueve
  <2> QED BY <1>0, <2>1, <2>6, CicloFlecha DEF Flechas
<1> QED BY <1>1, <1>2, <1>3, <1>4, <1>5, <1>6 DEF Creacion

\* The long term planner.
LEMMA CicloLargo ==
  ASSUME IInv, IInv', Largo
  PROVE  CicloPasos
<1>p. PICK p : p = hilo["largo"].p
  OBVIOUS
<1>0. /\ "largo" \in Hilos /\ TiposHilo /\ TiposPlan
      /\ hilo["largo"].en \notin Ociosas => p \in Pids
      /\ p = hilo["largo"].p /\ UNCHANGED <<siguientePid, programCounter, lista>>
      /\ hilo["largo"].en \notin EnMano("largo")
      /\ \E e : Va("largo", e) \/ Queda("largo", e) \/ \E r, k : VaCon("largo", e, r, k)
  <2>1. /\ UNCHANGED <<siguientePid, programCounter, lista>> /\ hilo["largo"].en # "crear_agrega"
        /\ \E e : Va("largo", e) \/ Queda("largo", e) \/ \E r, k : VaCon("largo", e, r, k)
    BY DEF Largo, LargoDespierta, LargoEligeNEW, LargoEligeSUSP, Elige, EnviarDesuspender,
       RespuestaDesuspender, DesuspendidoAReady, ReiniciarDesuspender, planVars
  <2> QED BY <1>p, <2>1, HilosDe, HechosCpu, Manos
<1>a. \A r : ListasAparte(r) /\ ManosAparte(r)
  BY <1>0, ManoAparte DEF ListasAparte
<1>b. ASSUME ColasAparte(Nadie) PROVE CicloPasos
  BY <1>0, <1>a, <1>b, CicloQuieto DEF Aparte, CicloPasos
<1>1. CASE LargoDespierta \/ EnviarDesuspender \/ RespuestaDesuspender \/ ReiniciarDesuspender
  BY <1>1, <1>b DEF LargoDespierta, EnviarDesuspender, RespuestaDesuspender, ReiniciarDesuspender,
     planVars, ColasAparte
<1>2. CASE LargoEligeNEW \/ LargoEligeSUSP
  <2>1. UNCHANGED cola \/ \E q \in {"NEW", "SUSP_READY"} : \E s \in Reordenadas(cola[q]) :
                             cola' = [cola EXCEPT ![q] = s]
    BY <1>2 DEF LargoEligeNEW, LargoEligeSUSP, Elige
  <2>2. ASSUME NEW q \in {"NEW", "SUSP_READY"}, NEW s \in Reordenadas(cola[q]),
               cola' = [cola EXCEPT ![q] = s]
        PROVE  ColasAparte(Nadie)
    <3>1. cola[q] \in Seq(Pids)
      BY <1>0 DEF TiposPlan, Estados
    <3>2. Range(s) = Range(cola[q])
      BY <3>1, ReordenadasPropiedades
    <3> QED BY <1>0, <2>2, <3>2 DEF ColasAparte, TiposPlan, Estados
  <2> QED BY <1>b, <2>1, <2>2 DEF ColasAparte
<1>3. CASE DesuspendidoAReady
  <2>1. /\ hilo["largo"].en = "desus_agrega" /\ p \in Pids /\ p \in Range(cola["SUSP_READY"])
        /\ cola' = Agrega([cola EXCEPT !["SUSP_READY"] = Saca(@, p)], "READY", p)
    BY <1>0, <1>3 DEF DesuspendidoAReady, Ociosas, IInv, PunteroVigente
  <2>2. /\ cola["READY"] \in Seq(Pids) /\ cola["SUSP_READY"] \in Seq(Pids)
        /\ IsInjective(cola["SUSP_READY"])
        /\ cola'["READY"] = Append(cola["READY"], p)
        /\ cola'["SUSP_READY"] = RemoveFirst(cola["SUSP_READY"], p)
        /\ \A q \in Estados \ {"READY", "SUSP_READY"} : cola'[q] = cola[q]
    BY <1>0, <2>1 DEF TiposPlan, Agrega, Saca, Estados, IInv, UnSoloLugar
  <2>3. /\ Range(cola'["READY"]) = Range(cola["READY"]) \cup {p}
        /\ Range(cola["SUSP_READY"]) \ {p} \subseteq Range(cola'["SUSP_READY"])
    <3>1. Range(Append(cola["READY"], p)) = Range(cola["READY"]) \cup {p}
      BY <2>1, <2>2, AppendPropiedades
    <3>2. Range(RemoveFirst(cola["SUSP_READY"], p)) = Range(cola["SUSP_READY"]) \ {p}
      BY <2>2, RemoveFirstPropiedades
    <3> QED BY <2>2, <3>1, <3>2
  <2>4. Aparte(p)
    BY <1>a, <2>2, <2>3 DEF Aparte, ColasAparte
  <2>5. /\ "READY" \in Lugar /\ "SUSP_READY" \in Lugar /\ En("SUSP_READY", p) /\ En("READY", p)'
        /\ EstadoDelLugar("SUSP_READY") = "SUSP_READY" /\ EstadoDelLugar("READY")' = "READY"
    BY <2>1, <2>3, EnPartes, EnPartesPrima, Disjuntos DEF Lugar, Estados, EstadoDelLugar
  <2>6. EstadosDe[p] = "SUSP_READY" /\ EstadosDe' = [EstadosDe EXCEPT ![p] = "READY"]
    BY <1>0, <2>1, <2>4, <2>5, CicloMueve
  <2> QED BY <1>0, <2>1, <2>6, CicloFlecha DEF Flechas
<1> QED BY <1>1, <1>2, <1>3 DEF Largo

\* The short term planner.
LEMMA CicloCorto ==
  ASSUME IInv, IInv', Corto
  PROVE  CicloPasos
<1>p. PICK p : p = hilo["corto"].p
  OBVIOUS
<1>0. /\ "corto" \in Hilos /\ TiposHilo /\ TiposPlan
      /\ hilo["corto"].en \notin Ociosas => p \in Pids
      /\ p = hilo["corto"].p /\ UNCHANGED <<siguientePid, programCounter>>
      /\ hilo["corto"].en \notin EnMano("corto")
      /\ \/ UNCHANGED hilo
         \/ \E e : Va("corto", e) \/ Queda("corto", e) \/ \E r, k : VaCon("corto", e, r, k)
  <2>1. /\ UNCHANGED <<siguientePid, programCounter>>
        /\ hilo["corto"].en \in {"espera", "busca_cpu", "a_exec"}
        /\ \/ UNCHANGED hilo
           \/ \E e : Va("corto", e) \/ Queda("corto", e) \/ \E r, k : VaCon("corto", e, r, k)
    BY DEF Corto, CortoDespierta, enviar_a_cpu, ReadyAExec, planVars
  <2> QED BY <1>p, <2>1, HilosDe, HechosCpu, Manos
<1>a. \A r : ManosAparte(r)
  <2>1. CASE UNCHANGED hilo
    BY <2>1 DEF ManosAparte
  <2>2. CASE \E e : Va("corto", e) \/ Queda("corto", e) \/ \E r, k : VaCon("corto", e, r, k)
    BY <1>0, <2>2, ManoAparte
  <2> QED BY <1>0, <2>1, <2>2
<1>1. CASE CortoDespierta \/ enviar_a_cpu
  <2>1. UNCHANGED <<cola, lista>>
    BY <1>1 DEF CortoDespierta, enviar_a_cpu, planVars
  <2> QED BY <1>0, <1>a, <2>1, CicloQuieto DEF Aparte, ColasAparte, ListasAparte, CicloPasos
<1>2. CASE ReadyAExec
  <2>1. /\ p \in Pids /\ p \in Range(cola["READY"])
        /\ cola' = [cola EXCEPT !["READY"] = Saca(@, p)]
        /\ lista' = [lista EXCEPT !["EXEC"] = @ \cup {p}]
    BY <1>0, <1>2 DEF ReadyAExec, Ociosas, IInv, PunteroVigente
  <2>2. Aparte(p)
    BY <1>0, <1>a, <2>1, ColaAparte, ListaAparte DEF Aparte, Estados, Grupos
  <2>3. /\ "READY" \in Lugar /\ "EXEC" \in Lugar /\ En("READY", p) /\ En("EXEC", p)'
        /\ EstadoDelLugar("READY") = "READY" /\ EstadoDelLugar("EXEC")' = "EXEC"
    BY <1>0, <2>1, EnPartes, EnPartesPrima, Disjuntos
       DEF Lugar, Estados, Grupos, EstadoDelLugar, TiposPlan
  <2>4. EstadosDe[p] = "READY" /\ EstadosDe' = [EstadosDe EXCEPT ![p] = "EXEC"]
    BY <1>0, <2>1, <2>2, <2>3, CicloMueve
  <2> QED BY <1>0, <2>1, <2>4, CicloFlecha DEF Flechas
<1> QED BY <1>1, <1>2 DEF Corto

\* A process leaves a group for another, or for one of the queues in order.
LEMMA CicloDeGrupo ==
  ASSUME IInv, IInv', UNCHANGED siguientePid, \A r : ManosAparte(r), NEW p \in Pids,
         NEW g \in Grupos, p \in lista[g],
         NEW x, \/ x \in Grupos \ {g} /\ lista' = Mueve(g, x, p) /\ UNCHANGED cola
                \/ /\ x \in Estados /\ lista' = [lista EXCEPT ![g] = @ \ {p}]
                   /\ cola' = Agrega(cola, x, p)
  PROVE  /\ EstadosDe[p] = IF g = "TIMER" THEN "BLOCKED" ELSE g
         /\ EstadosDe' = [EstadosDe EXCEPT ![p] = IF x = "TIMER" THEN "BLOCKED" ELSE x]
<1>0. TiposPlan
  BY HechosCpu
<1>1. x \in Lugar /\ x \notin Hilos /\ g \in Lugar /\ g \notin Hilos /\ En(g, p)
  BY EnPartes, Disjuntos DEF Lugar
<1>2. Aparte(p) /\ En(x, p)'
  <2>1. CASE x \in Grupos \ {g} /\ lista' = Mueve(g, x, p) /\ UNCHANGED cola
    <3>1. p \in lista'[x]
      BY <1>0, <2>1 DEF Mueve, TiposPlan
    <3> QED BY <1>0, <2>1, <3>1, ListaAparte, EnPartesPrima DEF Aparte, ColasAparte
  <2>2. CASE /\ x \in Estados /\ lista' = [lista EXCEPT ![g] = @ \ {p}]
             /\ cola' = Agrega(cola, x, p)
    <3>1. p \in Range(cola'[x])
      BY <1>0, <2>2, AppendPropiedades DEF Agrega, TiposPlan
    <3> QED BY <1>0, <2>2, <3>1, ListaAparte, ColaAparte, EnPartesPrima DEF Aparte
  <2> QED BY <2>1, <2>2
<1>3. /\ EstadoDelLugar(g) = IF g = "TIMER" THEN "BLOCKED" ELSE g
      /\ EstadoDelLugar(x)' = IF x = "TIMER" THEN "BLOCKED" ELSE x
  BY <1>1 DEF EstadoDelLugar
<1> QED BY <1>1, <1>2, <1>3, CicloMueve

\* The two sections of blocked_a_ready.
LEMMA CicloDespierta ==
  ASSUME IInv, IInv', UNCHANGED <<siguientePid, programCounter>>, \A r : ManosAparte(r),
         NEW p \in Pids, DesdeBLOCKED(p) \/ DesdeSUSP_BLOCKED(p)
  PROVE  CicloPasos
<1>1. CASE DesdeBLOCKED(p) /\ p \in lista["BLOCKED"]
  <2>1. EstadosDe[p] = "BLOCKED" /\ EstadosDe' = [EstadosDe EXCEPT ![p] = "READY"]
    BY <1>1, CicloDeGrupo DEF DesdeBLOCKED, agregar_a_READY, Estados, Grupos
  <2> QED BY <2>1, CicloFlecha DEF Flechas
<1>2. CASE DesdeSUSP_BLOCKED(p) /\ p \in lista["SUSP_BLOCKED"]
  <2>1. EstadosDe[p] = "SUSP_BLOCKED" /\ EstadosDe' = [EstadosDe EXCEPT ![p] = "SUSP_READY"]
    BY <1>2, CicloDeGrupo DEF DesdeSUSP_BLOCKED, agregar_a_SUSP_READY, Estados, Grupos
  <2> QED BY <2>1, CicloFlecha DEF Flechas
<1>3. CASE UNCHANGED <<cola, lista>>
  BY <1>3, CicloQuieto DEF Aparte, ColasAparte, ListasAparte, CicloPasos
<1> QED BY <1>1, <1>2, <1>3 DEF DesdeBLOCKED, DesdeSUSP_BLOCKED

\* The devices and the answers of the memory: threads with no PCB in their hand.
LEMMA CicloRespuestas ==
  ASSUME IInv, IInv', RespuestasMemoria \/ \E d \in Ios : IO(d)
  PROVE  CicloPasos
<1>a. ASSUME NEW t \in {"memoria"} \cup Ios, hilo[t].en \in {"recibe", "fin_susp"},
             NEW e, Va(t, e) \/ Queda(t, e) \/ \E r, k : VaCon(t, e, r, k)
      PROVE  \A r : ManosAparte(r)
  <2>1. t \in Hilos /\ t # "largo"
    BY HilosDe, Disjuntos
  <2>2. hilo[t].en \notin EnMano(t)
    BY <1>a, <2>1, Manos
  <2> QED BY <1>a, <2>1, <2>2, ManoAparte, HechosCpu
<1>b. UNCHANGED hilo => \A r : ManosAparte(r)
  BY DEF ManosAparte
<1>c. ASSUME \A r : ManosAparte(r), UNCHANGED <<siguientePid, programCounter, cola, lista>>
      PROVE  CicloPasos
  BY <1>c, CicloQuieto DEF Aparte, ColasAparte, ListasAparte, CicloPasos
<1>1. ASSUME NEW d \in Ios, IO(d) PROVE CicloPasos
  <2>1. CASE atender_cola_espera(d)
    BY <1>b, <1>c, <2>1 DEF atender_cola_espera, planVars
  <2>2. CASE FinIO(d)
    <3>1. /\ enIO[d] \in Pids /\ DesdeBLOCKED(enIO[d]) /\ UNCHANGED <<siguientePid, programCounter>>
          /\ hilo[d].en = "recibe" /\ VaCon(d, "fin_susp", enIO[d], 0)
      BY <2>2 DEF FinIO, IInv, TypeOK, TiposIO, PidONadie
    <3>2. \A r : ManosAparte(r)
      BY <1>a, <3>1
    <3> QED BY <3>1, <3>2, CicloDespierta
  <2>3. CASE FinIOSusp(d)
    <3>1. /\ DesdeSUSP_BLOCKED(hilo[d].p) /\ UNCHANGED <<siguientePid, programCounter>>
          /\ hilo[d].en = "fin_susp" /\ Queda(d, "recibe")
      BY <2>3 DEF FinIOSusp
    <3>2. hilo[d].p \in Pids
      BY <3>1, HilosDe, HechosCpu DEF Ociosas
    <3>3. \A r : ManosAparte(r)
      BY <1>a, <3>1
    <3> QED BY <3>1, <3>2, <3>3, CicloDespierta
  <2> QED BY <1>1, <2>1, <2>2, <2>3 DEF IO
<1>2. CASE RespuestasMemoria
  <2>1. CASE RespuestaPedido
    BY <1>b, <1>c, <2>1 DEF RespuestaPedido, planVars
  <2>2. CASE RespuestaDump
    <3>1. PICK p : p = Head(deMemoria).p
      OBVIOUS
    <3>2. p \in Pids
      <4>1. deMemoria \in Seq(Respuestas) /\ deMemoria # <<>>
        BY <2>2 DEF RespuestaDump, RecibeMemoria, IInv, TypeOK, TiposMem
      <4>2. Head(deMemoria) \in Respuestas
        BY <4>1, HeadTailProperties
      <4> QED BY <3>1, <4>2 DEF Respuestas
    <3>3. /\ DesdeBLOCKED(p) /\ UNCHANGED <<siguientePid, programCounter>>
          /\ hilo["memoria"].en = "recibe" /\ VaCon("memoria", "fin_susp", p, 0)
      BY <2>2, <3>1 DEF RespuestaDump, RecibeMemoria
    <3>4. \A r : ManosAparte(r)
      BY <1>a, <3>3
    <3> QED BY <3>2, <3>3, <3>4, CicloDespierta
  <2>3. CASE RespuestaDumpSusp
    <3>1. /\ DesdeSUSP_BLOCKED(hilo["memoria"].p) /\ UNCHANGED <<siguientePid, programCounter>>
          /\ hilo["memoria"].en = "fin_susp" /\ Queda("memoria", "recibe")
      BY <2>3 DEF RespuestaDumpSusp
    <3>2. hilo["memoria"].p \in Pids
      BY <3>1, HilosDe, HechosCpu DEF Ociosas
    <3>3. \A r : ManosAparte(r)
      BY <1>a, <3>1
    <3> QED BY <3>1, <3>2, <3>3, CicloDespierta
  <2>4. CASE RespuestaDesconocida
    <3>1. /\ UNCHANGED <<siguientePid, programCounter, cola, lista>>
          /\ hilo["memoria"].en = "recibe" /\ Queda("memoria", "fin")
      BY <2>4 DEF RespuestaDesconocida, RecibeMemoria, planVars
    <3> QED BY <1>a, <1>c, <3>1
  <2> QED BY <1>2, <2>1, <2>2, <2>3, <2>4 DEF RespuestasMemoria
<1> QED BY <1>1, <1>2

\* The timers: a process in the hand of its timer is still BLOCKED.
LEMMA CicloTimer ==
  ASSUME IInv, IInv', NEW p \in Pids, Timer(p)
  PROVE  CicloPasos
<1>0. /\ UNCHANGED <<cola, siguientePid, programCounter>> /\ \A r : ManosAparte(r)
  BY DEF Timer, TimerVence, TimerSuspende, TimerAvisa, ManosAparte
<1>a. UNCHANGED lista => CicloPasos
  BY <1>0, CicloQuieto DEF Aparte, ColasAparte, ListasAparte, CicloPasos
<1>1. CASE TimerVence(p)
  <2>1. PICK q \in LeePid(p) :
            lista' = IF q \in lista["BLOCKED"] THEN Mueve("BLOCKED", "TIMER", q) ELSE lista
    BY <1>1 DEF TimerVence
  <2>2. q \in Pids
    BY HechosCpu, LeePidTipo
  <2>3. CASE q \in lista["BLOCKED"]
    <3>1. EstadosDe[q] = "BLOCKED" /\ EstadosDe' = [EstadosDe EXCEPT ![q] = "BLOCKED"]
      BY <1>0, <2>1, <2>2, <2>3, CicloDeGrupo DEF Grupos
    <3> QED BY <1>0, <2>2, <3>1, CicloMismo
  <2>4. CASE q \notin lista["BLOCKED"]
    BY <1>a, <2>1, <2>4
  <2> QED BY <2>3, <2>4
<1>2. CASE TimerSuspende(p)
  <2>1. EstadosDe[p] = "BLOCKED" /\ EstadosDe' = [EstadosDe EXCEPT ![p] = "SUSP_BLOCKED"]
    BY <1>0, <1>2, CicloDeGrupo DEF TimerSuspende, Grupos
  <2> QED BY <1>0, <2>1, CicloFlecha DEF Flechas
<1>3. CASE TimerAvisa(p)
  BY <1>a, <1>3 DEF TimerAvisa
<1> QED BY <1>1, <1>2, <1>3 DEF Timer

\* exec_a_blocked: the program counter kept is past the one in the PCB.
LEMMA CicloBloquea ==
  ASSUME IInv, CpuInv, IInv', NEW c \in CPUs, hilo[c].en \in PorBloquear,
         exec_a_blocked(hilo[c].p, hilo[c].pc), UNCHANGED <<cola, siguientePid>>,
         \A r : ManosAparte(r)
  PROVE  CicloPasos
<1>1. PICK p \in Pids, k \in Pc : p = hilo[c].p /\ k = hilo[c].pc
  BY HechosCpu DEF PorBloquear, Ociosas, TiposHilo
<1>2. CASE p \notin lista["EXEC"]
  BY <1>1, <1>2, CicloQuieto DEF exec_a_blocked, Aparte, ColasAparte, ListasAparte, CicloPasos
<1>3. CASE p \in lista["EXEC"]
  <2>1. lista' = Mueve("EXEC", "BLOCKED", p) /\ programCounter' = [programCounter EXCEPT ![p] = k]
    BY <1>1, <1>3 DEF exec_a_blocked
  <2>2. EstadosDe[p] = "EXEC" /\ EstadosDe' = [EstadosDe EXCEPT ![p] = "BLOCKED"]
    BY <1>3, <2>1, CicloDeGrupo DEF Grupos
  <2>3. k > programCounter[p]
    BY <1>1 DEF CpuInv, PcAvanza
  <2>4. programCounter \in [Pids -> Pc] /\ Pc \subseteq Nat
    BY HechosCpu DEF TiposPlan, Pc
  <2>5. /\ programCounter' \in [Pids -> Nat] /\ programCounter'[p] > programCounter[p]
        /\ \A q \in Pids \ {p} : programCounter'[q] = programCounter[q]
    BY <2>1, <2>3, <2>4
  <2>6. Ciclo!Pids = Pids
    BY DEF Ciclo!Pids, Pids
  <2>7. Ciclo!Bloquear(p)
    BY <2>2, <2>5, <2>6 DEF Ciclo!Bloquear, Ciclo!Pasa, EstadosDe
  <2>8. EstadosDe'[p] # EstadosDe[p]
    BY <2>2 DEF EstadosDe
  <2> QED BY <2>6, <2>7, <2>8 DEF CicloPasos, Ciclo!Next, EstadosDe
<1> QED BY <1>2, <1>3

\* INIT_PROC takes the next pid.
LEMMA CicloCrea ==
  ASSUME IInv, IInv', NEW c \in CPUs, SysInitProc(c)
  PROVE  CicloPasos
<1>1. PICK n \in Pids :
        /\ n = siguientePid /\ siguientePid' = n + 1 /\ hilo[c].en = "recibe"
        /\ VaCon(c, "init_consulta", n, 0) /\ UNCHANGED <<cola, lista, programCounter>>
  BY DEF SysInitProc, init_proc_pid, Recibe
<1>2. /\ c \in Hilos /\ c # "largo" /\ c \in Lugar
      /\ hilo \in [Hilos -> [en : Etiquetas, p : PidONadie, pc : Pc]]
  BY HechosCpu DEF Lugar, TiposHilo
<1>3. hilo[c].en \notin EnMano(c) /\ "init_consulta" \in EnMano(c)
  BY <1>1, <1>2, Manos
<1>4. hilo'[c].p = n /\ hilo'[c].en = "init_consulta" /\ \A u \in Hilos \ {c} : hilo'[u] = hilo[u]
  BY <1>1, <1>2 DEF VaCon
<1>5. EstadoDe(n) = "SIN_CREAR" /\ EstadoDe(n)' = "NEW"
  <2>1. En(c, n)' /\ EstadoDelLugar(c)' = "NEW"
    BY <1>2, <1>3, <1>4, EnPartesPrima DEF EstadoDelLugar
  <2>2. n >= siguientePid
    BY <1>1, ConstantesOK DEF Pids
  <2> QED BY <1>2, <2>1, <2>2, EstadoPorLugarPrima DEF EstadoDe
<1>6. \A x \in Lugar, r \in Pids : En(x, r) => En(x, r)' /\ EstadoDelLugar(x)' = EstadoDelLugar(x)
  <2> SUFFICES ASSUME NEW x \in Lugar, NEW r \in Pids, En(x, r)
               PROVE  En(x, r)' /\ EstadoDelLugar(x)' = EstadoDelLugar(x)
    OBVIOUS
  <2>1. CASE x \in Hilos
    <3>1. x # c /\ hilo'[x] = hilo[x]
      BY <1>2, <1>3, <1>4, <2>1, EnPartes
    <3> QED BY <2>1, <3>1, EnPartes, EnPartesPrima DEF EstadoDelLugar
  <2>2. CASE x \in Estados \cup Grupos
    BY <1>1, <2>2, EnPartes, EnPartesPrima, Disjuntos DEF EstadoDelLugar
  <2> QED BY <2>1, <2>2 DEF Lugar
<1>7. \A r \in Pids : r < n => EstadoDe(r) # "SIN_CREAR" /\ EstadoDe(r)' = EstadoDe(r)
  <2> SUFFICES ASSUME NEW r \in Pids, r < n
               PROVE  EstadoDe(r) # "SIN_CREAR" /\ EstadoDe(r)' = EstadoDe(r)
    OBVIOUS
  <2>1. PICK x \in Lugar : En(x, r)
    BY <1>1 DEF IInv, UnSoloLugar
  <2>2. EstadoDe(r) = EstadoDelLugar(x) /\ EstadoDe(r)' = EstadoDelLugar(x)
    BY <1>6, <2>1, EstadoPorLugar, EstadoPorLugarPrima
  <2>3. EstadoDelLugar(x) # "SIN_CREAR"
    BY DEF EstadoDelLugar, Lugar, Estados, Grupos
  <2> QED BY <2>2, <2>3
<1>8. \A r \in Pids : r > n => EstadoDe(r) = "SIN_CREAR" /\ EstadoDe(r)' = "SIN_CREAR"
  <2> SUFFICES ASSUME NEW r \in Pids, r > n
               PROVE  EstadoDe(r) = "SIN_CREAR" /\ EstadoDe(r)' = "SIN_CREAR"
    OBVIOUS
  <2>1. r >= siguientePid /\ r >= siguientePid'
    BY <1>1, ConstantesOK DEF Pids
  <2> QED BY <2>1 DEF EstadoDe
<1>9. \A r \in Pids : r < n \/ r = n \/ r > n
  BY ConstantesOK DEF Pids
<1>10. EstadosDe' = [EstadosDe EXCEPT ![n] = "NEW"] /\ EstadosDe[n] = "SIN_CREAR"
  <2>1. EstadosDe' = [r \in Pids |-> EstadoDe(r)']
    BY DEF EstadosDe
  <2>2. \A r \in Pids : EstadoDe(r)' = IF r = n THEN "NEW" ELSE EstadoDe(r)
    BY <1>5, <1>7, <1>8, <1>9
  <2> QED BY <1>5, <2>1, <2>2 DEF EstadosDe
<1>11. \A q \in 1..(n - 1) : q \in Pids /\ EstadosDe[q] # "SIN_CREAR"
  <2> SUFFICES ASSUME NEW q \in 1..(n - 1) PROVE q \in Pids /\ EstadosDe[q] # "SIN_CREAR"
    OBVIOUS
  <2>1. q \in Pids /\ q < n
    BY ConstantesOK DEF Pids
  <2> QED BY <1>7, <2>1 DEF EstadosDe
<1>12. Ciclo!Crear(n)
  BY <1>1, <1>10, <1>11 DEF Ciclo!Crear, Ciclo!Pasa, EstadosDe
<1>13. EstadosDe'[n] # EstadosDe[n] /\ n \in Ciclo!Pids
  BY <1>10 DEF EstadosDe, Ciclo!Pids, Pids
<1> QED BY <1>12, <1>13 DEF CicloPasos, Ciclo!Next, EstadosDe

\* EXIT_PID takes out of its list a process that is executing, and no other.
LEMMA CicloBusca ==
  ASSUME IInv, CpuInv, IInv', NEW c \in CPUs, buscar_proceso_por_pid(c)
  PROVE  CicloPasos
<1>1. PICK en \in {"busca_EXEC", "busca_BLOCKED", "busca_SUSP"},
           g \in {"EXEC", "BLOCKED", "SUSP_BLOCKED"},
           sigue \in {"busca_BLOCKED", "busca_SUSP", "recibe"} : Busca(c, en, g, sigue)
  BY DEF buscar_proceso_por_pid
<1>2. /\ hilo[c].en = en /\ UNCHANGED <<cola, programCounter, siguientePid>>
      /\ c \in Hilos /\ c # "largo" /\ c \in Lugar /\ TiposHilo /\ TiposPlan
  BY <1>1, HechosCpu DEF Busca, buscar_proceso_por_pid, Lugar
<1>3. PICK p \in Pids : p = hilo[c].p
  BY <1>2, HechosCpu DEF Ociosas
<1>4. hilo[c].en \notin EnMano(c) /\ "exit_libera" \in EnMano(c)
  BY <1>2, Manos
<1>5. \A r : ManosAparte(r)
  <2>1. \E e : Va(c, e) \/ Queda(c, e)
    BY <1>1 DEF Busca
  <2> QED BY <1>2, <1>4, <2>1, ManoAparte
<1>6. CASE p \notin lista[g]
  <2>1. UNCHANGED lista
    BY <1>1, <1>3, <1>6 DEF Busca
  <2> QED BY <1>2, <1>5, <2>1, CicloQuieto DEF Aparte, ColasAparte, ListasAparte, CicloPasos
<1>7. CASE p \in lista[g]
  <2>1. lista' = [lista EXCEPT ![g] = @ \ {p}] /\ hilo'[c].en = "exit_libera" /\ hilo'[c].p = p
    BY <1>1, <1>2, <1>3, <1>7 DEF Busca, Va, TiposHilo
  <2>2. g \in Grupos /\ g \in Lugar /\ En(g, p) /\ g \notin Hilos
    BY <1>7, EnPartes, Disjuntos DEF Grupos, Lugar
  <2>3. g = "EXEC"
    <3>1. /\ \A h \in Grupos \ {g} : p \notin lista[h]
          /\ \A q \in Estados : p \notin Range(cola[q])
          /\ \A d \in CPUs : ~(hilo[d].p = p /\ hilo[d].en = "exit_libera")
      <4>1. \A d \in CPUs : "exit_libera" \in EnMano(d) /\ d \in Hilos
        BY Manos, HechosCpu
      <4> QED BY <2>2, <4>1, NoEstaEnOtro, Disjuntos DEF IInv
    <3>2. Despachado(p)
      <4>1. running[c] = p
        BY <1>2, <1>3 DEF CpuInv, CpuConsistente, ConCpu
      <4> QED BY <3>1, <4>1 DEF CpuInv, MarcaConsistente, Saliendo
    <3>3. p \in lista["EXEC"]
      BY <3>1, <3>2 DEF Despachado, IInv, PunteroVigente, Estados
    <3> QED BY <3>1, <3>3 DEF Grupos
  <2>4. Aparte(p)
    BY <1>2, <1>5, <2>1, <2>2, ListaAparte DEF Aparte, ColasAparte
  <2>5. En(c, p)'
    BY <1>2, <1>4, <2>1, EnPartesPrima
  <2>6. EstadoDelLugar(g) = "EXEC" /\ EstadoDelLugar(c)' = "EXIT"
    BY <1>2, <2>1, <2>2, <2>3 DEF EstadoDelLugar
  <2>7. EstadosDe[p] = "EXEC" /\ EstadosDe' = [EstadosDe EXCEPT ![p] = "EXIT"]
    BY <1>2, <2>2, <2>4, <2>5, <2>6, CicloMueve
  <2> QED BY <1>2, <2>7, CicloFlecha DEF Flechas
<1> QED BY <1>6, <1>7

\* The dispatch threads take steps of CicloDeVida, or none.
LEMMA CicloDispatch ==
  ASSUME IInv, CpuInv, IInv', NEW c \in CPUs, Dispatch(c)
  PROVE  CicloPasos
<1> DEFINE Libre(e) == e \notin EnMano(c)
<1>0. c \in Hilos /\ c # "largo" /\ c \in Lugar /\ TiposHilo /\ TiposPlan
  BY HechosCpu DEF Lugar
<1>1. \A e \in {"recibe", "io_bloquea", "io_encola", "dump_libera", "dump_bloquea",
                "exit_espera", "exit_reinicia"} : Libre(e)
  BY <1>0, Manos
<1>a. ASSUME Libre(hilo[c].en), NEW e, Va(c, e) \/ Queda(c, e) \/ \E r, k : VaCon(c, e, r, k)
      PROVE  \A r : ManosAparte(r)
  BY <1>0, <1>a, ManoAparte
<1> HIDE DEF Libre
<1>2. CASE SysComienzoIO(c) \/ SysDumpMemory(c) \/ SysExit(c)
  <2>1. /\ hilo[c].en = "recibe" /\ UNCHANGED planVars
        /\ \E e \in {"io_bloquea", "dump_libera", "exit_espera"} : \E r, k : VaCon(c, e, r, k)
    BY <1>2 DEF SysComienzoIO, SysDumpMemory, SysExit, Recibe
  <2>2. \A r : ManosAparte(r)
    BY <1>1, <1>a, <2>1
  <2> QED BY <2>1, <2>2, CicloQuieto DEF planVars, Aparte, ColasAparte, ListasAparte, CicloPasos
<1>3. CASE agregar_a_cola_por_IO(c) \/ LiberarPorDump(c) \/ RespuestaFinalizar(c) \/ ReiniciarFinalizar(c)
  <2>1. /\ hilo[c].en \in {"io_encola", "dump_libera", "exit_espera", "exit_reinicia"}
        /\ UNCHANGED planVars /\ \E e : Va(c, e) \/ Queda(c, e)
    BY <1>3 DEF agregar_a_cola_por_IO, LiberarPorDump, RespuestaFinalizar, ReiniciarFinalizar
  <2>2. \A r : ManosAparte(r)
    BY <1>1, <1>a, <2>1
  <2> QED BY <2>1, <2>2, CicloQuieto DEF planVars, Aparte, ColasAparte, ListasAparte, CicloPasos
<1>4. CASE BloquearPorIO(c) \/ BloquearPorDump(c)
  <2>1. /\ hilo[c].en \in {"io_bloquea", "dump_bloquea"} /\ UNCHANGED <<cola, siguientePid>>
        /\ exec_a_blocked(hilo[c].p, hilo[c].pc)
        /\ \E e : Va(c, e) \/ Queda(c, e)
    BY <1>4 DEF BloquearPorIO, BloquearPorDump
  <2>2. \A r : ManosAparte(r)
    BY <1>1, <1>a, <2>1
  <2> QED BY <2>1, <2>2, CicloBloquea DEF PorBloquear
<1>5. CASE SysInitProc(c)
  BY <1>5, CicloCrea
<1>6. CASE buscar_proceso_por_pid(c)
  BY <1>6, CicloBusca
<1>7. CASE LiberarYSalir(c)
  <2>1. PICK p \in Pids : p = hilo[c].p
    BY <1>7, HechosCpu DEF LiberarYSalir, Ociosas
  <2>2. /\ hilo[c].en = "exit_libera" /\ Va(c, "exit_reinicia")
        /\ lista' = [lista EXCEPT !["EXIT"] = @ \cup {p}]
        /\ UNCHANGED <<cola, siguientePid, programCounter>>
    BY <1>7, <2>1 DEF LiberarYSalir, agregar_a_EXIT
  <2>3. "exit_libera" \in EnMano(c)
    BY <1>0, Manos
  <2>4. Aparte(p)
    BY <1>0, <2>1, <2>2, ManoAparte, ListaAparte DEF Aparte, ColasAparte, Grupos
  <2>5. En(c, p) /\ En("EXIT", p)' /\ "EXIT" \in Lugar
    <3>1. "EXIT" \in Grupos /\ "EXIT" \in Lugar
      BY DEF Grupos, Lugar
    <3>2. En(c, p)
      BY <1>0, <2>1, <2>2, <2>3, EnPartes
    <3>3. p \in lista'["EXIT"]
      BY <1>0, <2>2 DEF TiposPlan, Grupos
    <3>4. En("EXIT", p)'
      BY <3>1, <3>3, EnPartesPrima
    <3> QED BY <3>1, <3>2, <3>4
  <2>6. EstadoDelLugar(c) = "EXIT" /\ EstadoDelLugar("EXIT")' = "EXIT"
    BY <1>0, <2>2, Disjuntos DEF EstadoDelLugar, Grupos
  <2>7. EstadosDe[p] = "EXIT" /\ EstadosDe' = [EstadosDe EXCEPT ![p] = "EXIT"]
    BY <1>0, <2>2, <2>4, <2>5, <2>6, CicloMueve
  <2> QED BY <2>2, <2>7, CicloMismo
<1> QED BY <1>2, <1>3, <1>4, <1>5, <1>6, <1>7 DEF Dispatch

\* What the environment does, and the start of the planners, move no process.
LEMMA CicloEntorno ==
  ASSUME IInv, IInv', \/ ejecutar_planificadores \/ Memoria \/ UNCHANGED vars
                      \/ \E c \in CPUs : Cpu(c) \/ conectar_cpu(c)
  PROVE  CicloPasos
<1>1. UNCHANGED planVars
  BY DEF ejecutar_planificadores, Memoria, vars, Cpu, CpuBloqueante, CpuInitProc, conectar_cpu
<1>2. ManosAparte(Nadie)
  <2>1. CASE ejecutar_planificadores
    <3>1. /\ hilo["main"].en = "arranca" /\ hilo["largo"].en = "apagado" /\ hilo["corto"].en = "apagado"
          /\ \A u \in Hilos \ {"main", "largo", "corto"} : hilo'[u] = hilo[u]
      BY <2>1, HechosCpu DEF ejecutar_planificadores, IInv, Arranque, TiposHilo
    <3>2. \A t \in {"main", "largo", "corto"} : hilo[t].en \notin EnMano(t)
      BY <3>1, HilosDe, Manos
    <3> QED BY <3>1, <3>2 DEF ManosAparte
  <2>2. CASE UNCHANGED hilo
    BY <2>2 DEF ManosAparte
  <2> QED BY <2>1, <2>2 DEF Memoria, vars, Cpu, CpuBloqueante, CpuInitProc, conectar_cpu
<1> QED BY <1>1, <1>2, CicloQuieto DEF planVars, Aparte, ColasAparte, ListasAparte, CicloPasos

\* No process has been created yet.
LEMMA CicloInicial == Init => Ciclo!Init
<1> SUFFICES ASSUME Init PROVE Ciclo!Init
  OBVIOUS
<1>1. IInv
  BY InvInicial
<1>2. siguientePid = 2 /\ programCounter = [p \in Pids |-> 0]
      /\ hilo["main"] = [en |-> "init_consulta", p |-> 1, pc |-> 0]
  BY HilosDe DEF Init
<1>3. EstadoDe(1) = "NEW"
  <2>1. "main" \in Hilos /\ "main" \in Lugar /\ "main" \notin CPUs /\ 1 \in Pids
    BY HilosDe, Disjuntos, ConstantesOK DEF Lugar, Pids
  <2>2. "init_consulta" \in EnMano("main")
    BY Manos, <2>1
  <2>3. En("main", 1)
    BY <1>2, <2>1, <2>2, EnPartes
  <2>4. EstadoDelLugar("main") = "NEW"
    BY <2>1 DEF EstadoDelLugar
  <2> QED BY <1>1, <2>1, <2>3, <2>4, EstadoPorLugar
<1>4. \A p \in Pids \ {1} : EstadoDe(p) = "SIN_CREAR"
  <2> SUFFICES ASSUME NEW p \in Pids \ {1} PROVE EstadoDe(p) = "SIN_CREAR"
    OBVIOUS
  <2>1. p >= siguientePid
    BY <1>2, ConstantesOK DEF Pids
  <2> QED BY <2>1 DEF EstadoDe
<1> QED BY <1>2, <1>3, <1>4 DEF Ciclo!Init, Ciclo!Pids, Pids

\* Every step of the kernel is one of CicloDeVida, or a stutter.
LEMMA CicloPaso == IInv /\ CpuInv /\ IInv' /\ [Next]_vars => CicloPasos
<1> SUFFICES ASSUME IInv, CpuInv, IInv', [Next]_vars PROVE CicloPasos
  OBVIOUS
<1> QED BY CicloCreacion, CicloLargo, CicloCorto, CicloDispatch, CicloRespuestas, CicloTimer,
           CicloEntorno DEF Next

\* The planners, the handlers, the timers and the devices together implement the
\* seven-state life cycle: whatever their interleaving, a process goes along one
\* of its arrows at a time, it is created once, it blocks with a program counter
\* past the system call, and it ends only from EXEC.
THEOREM CicloDeVidaCumplido == Spec => ImplementaCicloDeVida
<1>1. CicloPasos => [Ciclo!Next]_<<EstadosDe, programCounter>>
  BY DEF CicloPasos
<1>2. IInv /\ CpuInv /\ IInv' /\ [Next]_vars => [Ciclo!Next]_<<EstadosDe, programCounter>>
  BY <1>1, CicloPaso
<1> QED BY <1>2, CicloInicial, Invariante, InvarianteCpu, PTL
       DEF Spec, ImplementaCicloDeVida, Ciclo!Spec, EstadosDe

-----------------------------------------------------------------------------
(* Whoever is blocked will be woken, if no answer comes before its process  *)
(* is blocked or while its timer suspends it, and no dump is lost.          *)

\* The dump of a process is in one of the sockets of the memory.
DumpEnCamino(p) == \E m \in Range(aMemoria) \cup Range(deMemoria) : m.op = "DUMP" /\ m.p = p

\* Looking for it in SUSP_BLOCKED, having not found it in BLOCKED.
BuscadoEnSusp(p) == \E t \in Ios \cup {"memoria"} : hilo[t].en = "fin_susp" /\ hilo[t].p = p

\* What will wake a process. Pendiente, but that a thread in its second section is a
\* reason only for those it can still find.
Razon(p) ==
  \/ p \in Range(colaIO)
  \/ \E d \in Ios : enIO[d] = p /\ hilo[d].en = "recibe"
  \/ \E c \in CPUs : hilo[c].p = p /\ hilo[c].en = "io_encola"
  \/ DumpEnCamino(p)
  \/ p \in lista["SUSP_BLOCKED"] /\ BuscadoEnSusp(p)

Bloqueados == lista["BLOCKED"] \cup lista["TIMER"] \cup lista["SUSP_BLOCKED"]

MotivoInv ==
  /\ \A p \in Bloqueados : Razon(p)
  /\ \A c \in CPUs : hilo[c].en \in {"dump_libera", "dump_bloquea"} => DumpEnCamino(hilo[c].p)
  /\ \A d \in Ios : /\ hilo[d].en \in {"recibe", "fin_susp"}
                    /\ hilo[d].en = "fin_susp" => enIO[d] = hilo[d].p

SinDemoras == {"dump", "timer", "falla_dump"} \cap Carreras = {}

\* What a socket holds after a message is taken, or some are added.
LEMMA TomarMensaje ==
  ASSUME NEW S, NEW s \in Seq(S), s # <<>>
  PROVE  /\ Head(s) \in S /\ Tail(s) \in Seq(S)
         /\ \A m \in Range(s) : m = Head(s) \/ m \in Range(Tail(s))
<1>1. /\ Head(s) \in S /\ Tail(s) \in Seq(S) /\ Len(Tail(s)) = Len(s) - 1
      /\ \A i \in 1..Len(Tail(s)) : Tail(s)[i] = s[i + 1]
  BY HeadTailProperties
<1>2. DOMAIN s = 1..Len(s) /\ Len(s) \in Nat /\ DOMAIN Tail(s) = 1..Len(Tail(s))
  BY <1>1, LenProperties
<1>3. ASSUME NEW i \in 1..Len(s), i # 1 PROVE s[i] \in Range(Tail(s))
  <2>1. i - 1 \in 1..Len(Tail(s)) /\ Tail(s)[i - 1] = s[(i - 1) + 1] /\ (i - 1) + 1 = i
    BY <1>1, <1>2, <1>3
  <2> QED BY <1>2, <2>1 DEF Range
<1>4. Head(s) = s[1]
  OBVIOUS
<1> QED BY <1>1, <1>2, <1>3, <1>4 DEF Range

\* More requests leave every dump where it was.
LEMMA DumpsQuedan ==
  ASSUME TypeOK, UNCHANGED deMemoria,
         \/ UNCHANGED aMemoria
         \/ \E m \in Peticiones : aMemoria' = Append(aMemoria, m)
  PROVE  \A p : DumpEnCamino(p) => DumpEnCamino(p)'
<1>1. aMemoria \in Seq(Peticiones)
  BY DEF TypeOK, TiposMem
<1>2. ASSUME NEW m \in Peticiones, aMemoria' = Append(aMemoria, m)
      PROVE  Range(aMemoria) \subseteq Range(aMemoria')
  BY <1>1, <1>2, AppendPropiedades
<1>3. Range(aMemoria) \subseteq Range(aMemoria')
  BY <1>2
<1> QED BY <1>3 DEF DumpEnCamino

\* An answer is taken: the only dump that may go is its own.
LEMMA DumpsTomados ==
  ASSUME TypeOK, UNCHANGED aMemoria, deMemoria # <<>>, deMemoria' = Tail(deMemoria)
  PROVE  /\ Head(deMemoria) \in Respuestas
         /\ \A p : DumpEnCamino(p) =>
              DumpEnCamino(p)' \/ (Head(deMemoria).op = "DUMP" /\ Head(deMemoria).p = p)
<1>1. deMemoria \in Seq(Respuestas)
  BY DEF TypeOK, TiposMem
<1>2. PICK h : h = Head(deMemoria)
  OBVIOUS
<1>3. h \in Respuestas /\ \A m \in Range(deMemoria) : m = h \/ m \in Range(deMemoria')
  BY <1>1, <1>2, TomarMensaje
<1>4. ASSUME NEW p, DumpEnCamino(p) PROVE DumpEnCamino(p)' \/ (h.op = "DUMP" /\ h.p = p)
  <2>1. PICK m \in Range(aMemoria) \cup Range(deMemoria) : m.op = "DUMP" /\ m.p = p
    BY <1>4 DEF DumpEnCamino
  <2>2. m = h \/ m \in Range(aMemoria') \cup Range(deMemoria')
    BY <1>3, <2>1, Zenon
  <2>3. CASE m = h
    BY <2>1, <2>3
  <2>4. CASE m \in Range(aMemoria') \cup Range(deMemoria')
    BY <2>1, <2>4 DEF DumpEnCamino
  <2> QED BY <2>2, <2>3, <2>4
<1> QED BY <1>2, <1>3, <1>4

\* The memory turns the request of a dump into its answer.
LEMMA DumpsAtendidos ==
  ASSUME TypeOK, Memoria, "falla_dump" \notin Carreras
  PROVE  \A p : DumpEnCamino(p) => DumpEnCamino(p)'
<1>1. PICK m, r : /\ m = Head(aMemoria) /\ r = Atencion(m.op, m.p).r
                  /\ aMemoria' = Tail(aMemoria) /\ deMemoria' = deMemoria \o r
  BY DEF Memoria
<1>2. aMemoria \in Seq(Peticiones) /\ deMemoria \in Seq(Respuestas) /\ aMemoria # <<>>
  BY DEF TypeOK, TiposMem, Memoria
<1>3. m \in Peticiones /\ \A x \in Range(aMemoria) : x = m \/ x \in Range(aMemoria')
  BY <1>1, <1>2, TomarMensaje
<1>4. r \in Seq(Respuestas)
  BY <1>1, <1>3, AtencionTipo DEF TypeOK
<1>5. Range(deMemoria') = Range(deMemoria) \cup Range(r)
  BY <1>1, <1>2, <1>4, RangeConcatenation
<1>6. ASSUME m.op = "DUMP" PROVE \E x \in Range(r) : x.op = "DUMP" /\ x.p = m.p
  <2>1. r = <<Resp("DUMP", m.p, TRUE)>>
    BY <1>1, <1>6 DEF Atencion
  <2>2. r[1] = Resp("DUMP", m.p, TRUE) /\ 1 \in DOMAIN r
    BY <2>1
  <2>3. Resp("DUMP", m.p, TRUE).op = "DUMP" /\ Resp("DUMP", m.p, TRUE).p = m.p
    BY DEF Resp
  <2> QED BY <2>2, <2>3 DEF Range
<1> QED BY <1>3, <1>5, <1>6 DEF DumpEnCamino

\* A step that takes no reason away and blocks nobody.
LEMMA MotivoAjeno ==
  ASSUME MotivoInv, UNCHANGED ioVars,
         \A t \in Ios \cup {"memoria"} : hilo'[t] = hilo[t],
         \A c \in CPUs : /\ hilo[c].en = "io_encola" => hilo'[c] = hilo[c]
                         /\ hilo'[c].en \in {"dump_libera", "dump_bloquea"} =>
                              /\ hilo[c].en \in {"dump_libera", "dump_bloquea"}
                              /\ hilo'[c].p = hilo[c].p,
         \A p : DumpEnCamino(p) => DumpEnCamino(p)',
         \A p \in Bloqueados' :
           p \in Bloqueados /\ (p \in lista["SUSP_BLOCKED"] => p \in lista'["SUSP_BLOCKED"])
  PROVE  MotivoInv'
<1>1. ASSUME NEW p \in Bloqueados' PROVE Razon(p)'
  <2>1. Razon(p)
    BY <1>1 DEF MotivoInv
  <2> QED BY <1>1, <2>1 DEF Razon, ioVars, BuscadoEnSusp
<1>2. ASSUME NEW c \in CPUs, hilo'[c].en \in {"dump_libera", "dump_bloquea"}
      PROVE  DumpEnCamino(hilo[c].p)'
  <2>1. PICK q : q = hilo[c].p
    OBVIOUS
  <2>2. DumpEnCamino(q)' /\ hilo'[c].p = q
    BY <1>2, <2>1 DEF MotivoInv
  <2> QED BY <2>2 DEF DumpEnCamino
<1>3. \A d \in Ios : /\ hilo'[d].en \in {"recibe", "fin_susp"}
                     /\ hilo'[d].en = "fin_susp" => enIO'[d] = hilo'[d].p
  BY DEF MotivoInv, ioVars
<1> QED BY <1>1, <1>2, <1>3 DEF MotivoInv

\* A process that leaves a group by itself is blocked no more.
LEMMA DejaGrupo ==
  ASSUME TypeOK, UnSoloLugar, NEW g \in {"EXEC", "BLOCKED", "SUSP_BLOCKED"}, NEW p \in lista[g],
         lista' = [lista EXCEPT ![g] = @ \ {p}]
  PROVE  \A r \in Bloqueados' :
           /\ r \in Bloqueados
           /\ r \in lista["SUSP_BLOCKED"] => r \in lista'["SUSP_BLOCKED"]
<1>1. p \in Pids /\ g \in Grupos /\ lista \in [Grupos -> SUBSET Pids]
  BY DEF TypeOK, TiposPlan, Grupos
<1>2. En(g, p) /\ g \in Lugar
  BY <1>1, EnPartes DEF Lugar
<1>3. \A h \in Grupos \ {g} : p \notin lista[h]
  BY <1>1, <1>2, NoEstaEnOtro
<1>4. \A h \in Grupos : lista'[h] = IF h = g THEN lista[h] \ {p} ELSE lista[h]
  BY <1>1
<1>5. {"BLOCKED", "TIMER", "SUSP_BLOCKED"} \subseteq Grupos
  BY DEF Grupos
<1> QED BY <1>3, <1>4, <1>5 DEF Bloqueados

\* A step of one thread, and where it goes.
LEMMA SoloUno ==
  ASSUME TiposHilo, NEW t \in Hilos, NEW e
  PROVE  /\ Va(t, e) => /\ \A u \in Hilos \ {t} : hilo'[u] = hilo[u]
                        /\ hilo'[t].en = e /\ hilo'[t].p = hilo[t].p
         /\ Queda(t, e) => /\ \A u \in Hilos \ {t} : hilo'[u] = hilo[u]
                           /\ hilo'[t].en = e
         /\ \A p, k : VaCon(t, e, p, k) => /\ \A u \in Hilos \ {t} : hilo'[u] = hilo[u]
                                           /\ hilo'[t].en = e /\ hilo'[t].p = p
BY DEF TiposHilo, Va, Queda, VaCon, Parado

\* The planners, INIT_PROC, the CPUs, and the calls that neither block a process
\* nor ask for a dump.
LEMMA MotivoOtros ==
  ASSUME IInv, MotivoInv,
         \/ \E t \in {"main", "largo"} \cup CPUs : Creacion(t)
         \/ ejecutar_planificadores \/ Largo \/ Corto
         \/ \E c \in CPUs : Cpu(c) \/ conectar_cpu(c)
         \/ \E c \in CPUs : \/ SysComienzoIO(c) \/ SysInitProc(c) \/ LiberarPorDump(c) \/ SysExit(c)
                            \/ RespuestaFinalizar(c) \/ LiberarYSalir(c) \/ ReiniciarFinalizar(c)
         \/ \E p \in Pids : TimerAvisa(p)
         \/ UNCHANGED vars
  PROVE  MotivoInv'
<1> DEFINE EnDump == {"dump_libera", "dump_bloquea"}
           Grupo3 == {"BLOCKED", "TIMER", "SUSP_BLOCKED"}
<1>0. /\ TypeOK /\ TiposPlan /\ TiposHilo
      /\ \A c \in CPUs : c \in Hilos /\ c \notin Ios \cup {"memoria"}
      /\ \A t \in Ios \cup {"memoria", "main", "largo", "corto"} : t \in Hilos
      /\ Ios \cap {"main", "largo", "corto"} = {}
  BY HilosDe, Disjuntos, ConstantesOK, HechosCpu DEF IInv
<1>a. ASSUME UNCHANGED <<ioVars, deMemoria>>, \A g \in Grupo3 : lista'[g] = lista[g],
             UNCHANGED aMemoria \/ \E m \in Peticiones : aMemoria' = Append(aMemoria, m),
             UNCHANGED hilo \/
             \E t \in Hilos \ (Ios \cup {"memoria"}) :
               /\ \A u \in Hilos \ {t} : hilo'[u] = hilo[u]
               /\ hilo[t].en # "io_encola"
               /\ hilo'[t].en \in EnDump => hilo[t].en \in EnDump /\ hilo'[t].p = hilo[t].p
      PROVE  MotivoInv'
  <2>1. /\ \A t \in Ios \cup {"memoria"} : hilo'[t] = hilo[t]
        /\ \A c \in CPUs : /\ hilo[c].en = "io_encola" => hilo'[c] = hilo[c]
                           /\ hilo'[c].en \in EnDump =>
                                hilo[c].en \in EnDump /\ hilo'[c].p = hilo[c].p
    BY <1>0, <1>a
  <2>2. \A p : DumpEnCamino(p) => DumpEnCamino(p)'
    BY <1>0, <1>a, DumpsQuedan
  <2>3. \A p \in Bloqueados' :
          p \in Bloqueados /\ (p \in lista["SUSP_BLOCKED"] => p \in lista'["SUSP_BLOCKED"])
    BY <1>a DEF Bloqueados
  <2> QED BY <1>a, <2>1, <2>2, <2>3, MotivoAjeno
<1>b. ASSUME NEW t \in Hilos \ (Ios \cup {"memoria"}), hilo[t].en # "io_encola", NEW e,
             \/ Va(t, e) /\ (e \in EnDump => hilo[t].en \in EnDump)
             \/ e \notin EnDump /\ (Queda(t, e) \/ \E p, k : VaCon(t, e, p, k))
      PROVE  /\ \A u \in Hilos \ {t} : hilo'[u] = hilo[u]
             /\ hilo'[t].en \in EnDump => hilo[t].en \in EnDump /\ hilo'[t].p = hilo[t].p
  BY <1>0, <1>b, SoloUno
<1>1. ASSUME NEW t \in {"main", "largo"} \cup CPUs, Creacion(t) PROVE MotivoInv'
  <2>1. /\ UNCHANGED <<ioVars, deMemoria, lista>> /\ hilo[t].en # "io_encola"
        /\ aMemoria' = aMemoria \/ EnviarCrear(t)
    BY <1>1 DEF Creacion, ConsultarNEW, ConsultarSUSP, InitAgregaNEW, EnviarCrear, RespuestaCrear,
       SacarDeNEW, CreadoAReady, ReiniciarCrear, planVars, memVars
  <2>2. PICK e \in {"init_consulta_susp", "init_a_new", "crear_envia", "crear_espera", "crear_saca",
                    "crear_agrega", "crear_reinicia", "espera", Reposo(t)} : Va(t, e) \/ Queda(t, e)
    BY <1>1 DEF Creacion, ConsultarNEW, ConsultarSUSP, InitAgregaNEW, EnviarCrear, RespuestaCrear,
       SacarDeNEW, CreadoAReady, ReiniciarCrear
  <2>3. t \in Hilos \ (Ios \cup {"memoria"}) /\ e \notin EnDump
    BY <1>0, <2>2 DEF Reposo
  <2>4. UNCHANGED aMemoria \/ \E m \in Peticiones : aMemoria' = Append(aMemoria, m)
    <3>1. CASE EnviarCrear(t)
      <4>1. hilo[t].p \in Pids
        BY <1>0, <2>3, <3>1 DEF EnviarCrear, TiposHilo, Ociosas
      <4>2. [op |-> "CREAR", p |-> hilo[t].p] \in Peticiones
        BY <4>1 DEF Peticiones
      <4> QED BY <3>1, <4>2 DEF EnviarCrear, EnviarPedido
    <3> QED BY <2>1, <3>1
  <2>5. /\ \A u \in Hilos \ {t} : hilo'[u] = hilo[u]
        /\ hilo'[t].en \in EnDump => hilo[t].en \in EnDump /\ hilo'[t].p = hilo[t].p
    BY <1>b, <2>1, <2>2, <2>3
  <2> QED BY <1>a, <2>1, <2>3, <2>4, <2>5
<1>2. CASE ejecutar_planificadores
  <2>1. UNCHANGED <<ioVars, memVars, lista>>
    BY <1>2 DEF ejecutar_planificadores, planVars
  <2>2. \A t \in Hilos : t \notin {"main", "largo", "corto"} => hilo'[t] = hilo[t]
    BY <1>0, <1>2 DEF ejecutar_planificadores, TiposHilo
  <2>3. \A p : DumpEnCamino(p) => DumpEnCamino(p)'
    BY <1>0, <2>1, DumpsQuedan DEF memVars
  <2>4. Bloqueados' = Bloqueados /\ lista' = lista
    BY <2>1 DEF Bloqueados
  <2>5. \A t \in CPUs \cup Ios \cup {"memoria"} : hilo'[t] = hilo[t]
    BY <1>0, <2>2, Disjuntos
  <2> QED BY <2>1, <2>3, <2>4, <2>5, MotivoAjeno
<1>3. CASE Largo
  <2>1. /\ UNCHANGED <<ioVars, deMemoria, lista>>
        /\ hilo["largo"].en # "io_encola"
        /\ aMemoria' = aMemoria \/ EnviarDesuspender
    BY <1>3 DEF Largo, LargoDespierta, LargoEligeNEW, LargoEligeSUSP, EnviarDesuspender,
       RespuestaDesuspender, DesuspendidoAReady, ReiniciarDesuspender, planVars, memVars
  <2>2. PICK e \in Etiquetas \ EnDump :
          Va("largo", e) \/ Queda("largo", e) \/ \E p, k : VaCon("largo", e, p, k)
    BY <1>3 DEF Largo, LargoDespierta, LargoEligeNEW, LargoEligeSUSP, EnviarDesuspender,
       RespuestaDesuspender, DesuspendidoAReady, ReiniciarDesuspender, Elige, Etiquetas
  <2>3. "largo" \in Hilos \ (Ios \cup {"memoria"})
    BY <1>0
  <2>4. UNCHANGED aMemoria \/ \E m \in Peticiones : aMemoria' = Append(aMemoria, m)
    <3>1. CASE EnviarDesuspender
      <4>1. hilo["largo"].p \in Pids
        BY <1>0, <3>1 DEF EnviarDesuspender, TiposHilo, Ociosas
      <4>2. [op |-> "DESUSPENDER", p |-> hilo["largo"].p] \in Peticiones
        BY <4>1 DEF Peticiones
      <4> QED BY <3>1, <4>2 DEF EnviarDesuspender, EnviarPedido
    <3> QED BY <2>1, <3>1
  <2>5. /\ \A u \in Hilos \ {"largo"} : hilo'[u] = hilo[u]
        /\ hilo'["largo"].en \in EnDump =>
             hilo["largo"].en \in EnDump /\ hilo'["largo"].p = hilo["largo"].p
    BY <1>b, <2>1, <2>2, <2>3
  <2> QED BY <1>a, <2>1, <2>3, <2>4, <2>5
<1>4. CASE Corto
  <2>1. /\ UNCHANGED <<ioVars, memVars>> /\ hilo["corto"].en # "io_encola"
        /\ \A g \in Grupo3 : lista'[g] = lista[g]
    BY <1>0, <1>4 DEF Corto, CortoDespierta, enviar_a_cpu, ReadyAExec, planVars, TiposPlan, Grupos
  <2>2. UNCHANGED hilo \/ \E e \in Etiquetas \ EnDump :
          Va("corto", e) \/ Queda("corto", e) \/ \E p, k : VaCon("corto", e, p, k)
    BY <1>4 DEF Corto, CortoDespierta, enviar_a_cpu, ReadyAExec, Etiquetas
  <2>3. "corto" \in Hilos \ (Ios \cup {"memoria"})
    BY <1>0
  <2>4. UNCHANGED hilo \/
        /\ \A u \in Hilos \ {"corto"} : hilo'[u] = hilo[u]
        /\ hilo'["corto"].en \in EnDump =>
             hilo["corto"].en \in EnDump /\ hilo'["corto"].p = hilo["corto"].p
    BY <1>b, <2>1, <2>2, <2>3
  <2> QED BY <1>a, <2>1, <2>3, <2>4 DEF memVars
<1>5. ASSUME NEW c \in CPUs, Cpu(c) \/ conectar_cpu(c) PROVE MotivoInv'
  <2>1. UNCHANGED <<ioVars, memVars, lista, hilo>>
    BY <1>5 DEF Cpu, CpuBloqueante, CpuInitProc, conectar_cpu, planVars
  <2> QED BY <1>a, <2>1 DEF memVars
<1>6. ASSUME NEW c \in CPUs,
             \/ SysComienzoIO(c) \/ SysInitProc(c) \/ LiberarPorDump(c) \/ SysExit(c)
             \/ RespuestaFinalizar(c) \/ LiberarYSalir(c) \/ ReiniciarFinalizar(c)
      PROVE  MotivoInv'
  <2>1. /\ UNCHANGED <<ioVars, deMemoria>> /\ hilo[c].en # "io_encola"
        /\ aMemoria' = aMemoria \/ SysExit(c)
        /\ \A g \in Grupo3 : lista'[g] = lista[g]
    BY <1>0, <1>6 DEF SysComienzoIO, SysInitProc, LiberarPorDump, SysExit, RespuestaFinalizar,
       LiberarYSalir, ReiniciarFinalizar, Recibe, planVars, memVars, agregar_a_EXIT, TiposPlan, Grupos
  <2>2. \E e : \/ Va(c, e) /\ (e \in EnDump => hilo[c].en \in EnDump)
               \/ e \notin EnDump /\ (Queda(c, e) \/ \E p, k : VaCon(c, e, p, k))
    <3>1. SysComienzoIO(c) \/ SysInitProc(c) \/ SysExit(c) =>
            \E e \in {"io_bloquea", "init_consulta", "exit_espera"} : \E p, k : VaCon(c, e, p, k)
      BY DEF SysComienzoIO, SysInitProc, init_proc_pid, SysExit
    <3>2. LiberarPorDump(c) => Va(c, "dump_bloquea") /\ hilo[c].en \in EnDump
      BY DEF LiberarPorDump
    <3>3. LiberarYSalir(c) => Va(c, "exit_reinicia")
      BY DEF LiberarYSalir
    <3>4. RespuestaFinalizar(c) \/ ReiniciarFinalizar(c) => Va(c, "busca_EXEC") \/ Queda(c, "recibe")
      BY DEF RespuestaFinalizar, ReiniciarFinalizar
    <3> QED BY <1>6, <3>1, <3>2, <3>3, <3>4
  <2>3. c \in Hilos \ (Ios \cup {"memoria"})
    BY <1>0
  <2>4. UNCHANGED aMemoria \/ \E m \in Peticiones : aMemoria' = Append(aMemoria, m)
    <3>1. CASE SysExit(c)
      <4>1. PICK m : m = Head(deCpu[c])
        OBVIOUS
      <4>2. deCpu[c] \in Seq(Llamadas) /\ deCpu[c] # <<>>
        BY <3>1, HechosCpu DEF SysExit, Recibe
      <4>3. m \in Llamadas
        BY <4>1, <4>2, UnMensajeMenos
      <4>4. [op |-> "FINALIZAR", p |-> m.p] \in Peticiones
        BY <4>3 DEF Peticiones, Llamadas
      <4> QED BY <3>1, <4>1, <4>4 DEF SysExit
    <3> QED BY <2>1, <3>1
  <2>5. /\ \A u \in Hilos \ {c} : hilo'[u] = hilo[u]
        /\ hilo'[c].en \in EnDump => hilo[c].en \in EnDump /\ hilo'[c].p = hilo[c].p
    BY <1>b, <2>1, <2>2, <2>3
  <2> QED BY <1>a, <2>1, <2>3, <2>4, <2>5
<1>7. ASSUME NEW p \in Pids, TimerAvisa(p) PROVE MotivoInv'
  <2>1. UNCHANGED <<ioVars, deMemoria, lista, hilo>>
    BY <1>7 DEF TimerAvisa
  <2>2. PICK q \in LeePid(p) : aMemoria' = Append(aMemoria, [op |-> "SUSPENDER", p |-> q])
    BY <1>7 DEF TimerAvisa
  <2>3. [op |-> "SUSPENDER", p |-> q] \in Peticiones
    BY <1>0, LeePidTipo DEF Peticiones
  <2> QED BY <1>a, <2>1, <2>2, <2>3
<1>8. CASE UNCHANGED vars
  BY <1>8, <1>a DEF vars, planVars, memVars
<1> QED BY <1>1, <1>2, <1>3, <1>4, <1>5, <1>6, <1>7, <1>8

\* exec_a_blocked for a device: the request that will go to the queue is the reason.
LEMMA MotivoBloqueaIO ==
  ASSUME IInv, MotivoInv, NEW c \in CPUs, BloquearPorIO(c)
  PROVE  MotivoInv'
<1>0. /\ TypeOK /\ TiposPlan /\ TiposHilo /\ c \in Hilos
      /\ \A t \in Ios \cup {"memoria"} : t \in Hilos \ {c}
  BY HilosDe, Disjuntos, ConstantesOK, HechosCpu DEF IInv
<1>1. PICK p : p = hilo[c].p
  OBVIOUS
<1>2. /\ UNCHANGED <<ioVars, memVars>> /\ hilo[c].en = "io_bloquea"
      /\ \A u \in Hilos \ {c} : hilo'[u] = hilo[u]
      /\ hilo'[c].en = "io_encola" /\ hilo'[c].p = p
  BY <1>0, <1>1, SoloUno DEF BloquearPorIO
<1>3. \A r \in Bloqueados' : r = p \/ r \in Bloqueados
  <2>1. lista' = lista \/ lista' = Mueve("EXEC", "BLOCKED", p)
    BY <1>1 DEF BloquearPorIO, exec_a_blocked
  <2>2. \A g \in Grupos : lista'[g] \subseteq lista[g] \cup {p}
    BY <1>0, <2>1 DEF Mueve, TiposPlan
  <2>3. {"BLOCKED", "TIMER", "SUSP_BLOCKED"} \subseteq Grupos
    BY DEF Grupos
  <2> QED BY <2>2, <2>3 DEF Bloqueados
<1>4. \A r : r \in lista["SUSP_BLOCKED"] => r \in lista'["SUSP_BLOCKED"]
  BY <1>0 DEF BloquearPorIO, exec_a_blocked, Mueve, TiposPlan, Grupos
<1>5. \A r : DumpEnCamino(r)' <=> DumpEnCamino(r)
  BY <1>2 DEF DumpEnCamino, memVars
<1>6. ASSUME NEW r \in Bloqueados' PROVE Razon(r)'
  <2>1. CASE r = p
    BY <1>2, <2>1 DEF Razon
  <2>2. CASE r \in Bloqueados
    <3>1. Razon(r)
      BY <2>2 DEF MotivoInv
    <3>2. \A d \in CPUs : hilo[d].en = "io_encola" => hilo'[d] = hilo[d]
      BY <1>2, HilosDe
    <3>3. BuscadoEnSusp(r) => BuscadoEnSusp(r)'
      BY <1>0, <1>2 DEF BuscadoEnSusp
    <3> QED BY <1>0, <1>2, <1>4, <1>5, <3>1, <3>2, <3>3 DEF Razon, ioVars
  <2> QED BY <1>3, <1>6, <2>1, <2>2
<1>7. ASSUME NEW d \in CPUs, hilo'[d].en \in {"dump_libera", "dump_bloquea"}
      PROVE  DumpEnCamino(hilo[d].p)'
  <2>1. hilo'[d] = hilo[d]
    BY <1>2, <1>7, HilosDe
  <2>2. PICK q : q = hilo[d].p
    OBVIOUS
  <2>3. DumpEnCamino(q)' /\ hilo'[d].p = q
    BY <1>5, <1>7, <2>1, <2>2 DEF MotivoInv
  <2> QED BY <2>3 DEF DumpEnCamino
<1>8. \A d \in Ios : /\ hilo'[d].en \in {"recibe", "fin_susp"}
                     /\ hilo'[d].en = "fin_susp" => enIO'[d] = hilo'[d].p
  BY <1>0, <1>2 DEF MotivoInv, ioVars
<1> QED BY <1>6, <1>7, <1>8 DEF MotivoInv

\* exec_a_blocked for a dump: its request left before.
LEMMA MotivoBloqueaDump ==
  ASSUME IInv, MotivoInv, NEW c \in CPUs, BloquearPorDump(c)
  PROVE  MotivoInv'
<1>0. /\ TypeOK /\ TiposPlan /\ TiposHilo /\ c \in Hilos
      /\ \A t \in Ios \cup {"memoria"} : t \in Hilos \ {c}
  BY HilosDe, Disjuntos, ConstantesOK, HechosCpu DEF IInv
<1>1. PICK p : p = hilo[c].p
  OBVIOUS
<1>2. /\ UNCHANGED <<ioVars, memVars>> /\ hilo[c].en = "dump_bloquea"
      /\ \A u \in Hilos \ {c} : hilo'[u] = hilo[u]
      /\ hilo'[c].en = "recibe"
  BY <1>0, SoloUno DEF BloquearPorDump
<1>3. \A r \in Bloqueados' : r = p \/ r \in Bloqueados
  <2>1. lista' = lista \/ lista' = Mueve("EXEC", "BLOCKED", p)
    BY <1>1 DEF BloquearPorDump, exec_a_blocked
  <2>2. \A g \in Grupos : lista'[g] \subseteq lista[g] \cup {p}
    BY <1>0, <2>1 DEF Mueve, TiposPlan
  <2>3. {"BLOCKED", "TIMER", "SUSP_BLOCKED"} \subseteq Grupos
    BY DEF Grupos
  <2> QED BY <2>2, <2>3 DEF Bloqueados
<1>4. \A r : r \in lista["SUSP_BLOCKED"] => r \in lista'["SUSP_BLOCKED"]
  BY <1>0 DEF BloquearPorDump, exec_a_blocked, Mueve, TiposPlan, Grupos
<1>5. /\ \A r : DumpEnCamino(r)' <=> DumpEnCamino(r)
      /\ DumpEnCamino(p)
  BY <1>1, <1>2 DEF DumpEnCamino, memVars, MotivoInv
<1>6. ASSUME NEW r \in Bloqueados' PROVE Razon(r)'
  <2>1. CASE r = p
    BY <1>5, <2>1 DEF Razon
  <2>2. CASE r \in Bloqueados
    <3>1. Razon(r)
      BY <2>2 DEF MotivoInv
    <3>2. \A d \in CPUs : hilo[d].en = "io_encola" => hilo'[d] = hilo[d]
      BY <1>2, HilosDe
    <3>3. BuscadoEnSusp(r) => BuscadoEnSusp(r)'
      BY <1>0, <1>2 DEF BuscadoEnSusp
    <3> QED BY <1>0, <1>2, <1>4, <1>5, <3>1, <3>2, <3>3 DEF Razon, ioVars
  <2> QED BY <1>3, <1>6, <2>1, <2>2
<1>7. ASSUME NEW d \in CPUs, hilo'[d].en \in {"dump_libera", "dump_bloquea"}
      PROVE  DumpEnCamino(hilo[d].p)'
  <2>1. hilo'[d] = hilo[d]
    BY <1>2, <1>7, HilosDe
  <2>2. PICK q : q = hilo[d].p
    OBVIOUS
  <2>3. DumpEnCamino(q)' /\ hilo'[d].p = q
    BY <1>5, <1>7, <2>1, <2>2 DEF MotivoInv
  <2> QED BY <2>3 DEF DumpEnCamino
<1>8. \A d \in Ios : /\ hilo'[d].en \in {"recibe", "fin_susp"}
                     /\ hilo'[d].en = "fin_susp" => enIO'[d] = hilo'[d].p
  BY <1>0, <1>2 DEF MotivoInv, ioVars
<1> QED BY <1>6, <1>7, <1>8 DEF MotivoInv

\* SYS_DUMP_MEMORY: the request leaves first.
LEMMA MotivoDump ==
  ASSUME IInv, MotivoInv, NEW c \in CPUs, SysDumpMemory(c)
  PROVE  MotivoInv'
<1>0. /\ TypeOK /\ TiposPlan /\ TiposHilo /\ c \in Hilos
      /\ \A t \in Ios \cup {"memoria"} : t \in Hilos \ {c}
  BY HilosDe, Disjuntos, ConstantesOK, HechosCpu DEF IInv
<1>1. PICK p : p = Head(deCpu[c]).p
  OBVIOUS
<1>2. p \in Pids
  <2>1. deCpu[c] \in Seq(Llamadas) /\ deCpu[c] # <<>>
    BY HechosCpu DEF SysDumpMemory, Recibe
  <2>2. Head(deCpu[c]) \in Llamadas
    BY <2>1, UnMensajeMenos
  <2> QED BY <1>1, <2>2 DEF Llamadas
<1>3. PICK m \in Peticiones : m.op = "DUMP" /\ m.p = p /\ aMemoria' = Append(aMemoria, m)
  BY <1>1, <1>2 DEF SysDumpMemory, Peticiones
<1>4. /\ UNCHANGED <<ioVars, deMemoria, lista>> /\ hilo[c].en = "recibe"
      /\ \A u \in Hilos \ {c} : hilo'[u] = hilo[u]
      /\ hilo'[c].en = "dump_libera" /\ hilo'[c].p = p
  BY <1>0, <1>1, SoloUno DEF SysDumpMemory, Recibe, planVars
<1>5. /\ \A r : DumpEnCamino(r) => DumpEnCamino(r)'
      /\ DumpEnCamino(p)'
  <2>1. \A r : DumpEnCamino(r) => DumpEnCamino(r)'
    BY <1>0, <1>3, <1>4, DumpsQuedan
  <2>2. aMemoria \in Seq(Peticiones)
    BY <1>0 DEF TypeOK, TiposMem
  <2>3. m \in Range(aMemoria')
    BY <1>3, <2>2, AppendPropiedades
  <2>4. DumpEnCamino(p)'
    BY <1>3, <2>3 DEF DumpEnCamino
  <2> QED BY <2>1, <2>4
<1>6. ASSUME NEW r \in Bloqueados' PROVE Razon(r)'
  <2>1. Razon(r)
    BY <1>4, <1>6 DEF MotivoInv, Bloqueados
  <2>2. \A d \in CPUs : hilo[d].en = "io_encola" => hilo'[d] = hilo[d]
    BY <1>4, HilosDe
  <2>3. BuscadoEnSusp(r) => BuscadoEnSusp(r)'
    BY <1>0, <1>4 DEF BuscadoEnSusp
  <2> QED BY <1>0, <1>4, <1>5, <2>1, <2>2, <2>3 DEF Razon, ioVars
<1>7. ASSUME NEW d \in CPUs, hilo'[d].en \in {"dump_libera", "dump_bloquea"}
      PROVE  DumpEnCamino(hilo[d].p)'
  <2>1. PICK q : q = hilo'[d].p
    OBVIOUS
  <2>2. DumpEnCamino(q)'
    BY <1>4, <1>5, <1>7, <2>1, HilosDe DEF MotivoInv
  <2> QED BY <2>1, <2>2 DEF DumpEnCamino
<1>8. \A d \in Ios : /\ hilo'[d].en \in {"recibe", "fin_susp"}
                     /\ hilo'[d].en = "fin_susp" => enIO'[d] = hilo'[d].p
  BY <1>0, <1>4 DEF MotivoInv, ioVars
<1> QED BY <1>6, <1>7, <1>8 DEF MotivoInv

\* The queue of the devices: in, and out to a device that waits for a request.
LEMMA MotivoCola ==
  ASSUME IInv, MotivoInv,
         (\E c \in CPUs : agregar_a_cola_por_IO(c)) \/ (\E d \in Ios : atender_cola_espera(d))
  PROVE  MotivoInv'
<1>0. /\ TypeOK /\ TiposHilo
      /\ \A t \in CPUs \cup Ios \cup {"memoria"} : t \in Hilos
      /\ CPUs \cap (Ios \cup {"memoria"}) = {}
      /\ colaIO \in Seq(Pids) /\ Nadie \notin Pids /\ enIO \in [Ios -> PidONadie]
  BY HilosDe, Disjuntos, ConstantesOK, HechosCpu DEF IInv, TypeOK, TiposIO
<1>1. UNCHANGED <<memVars, lista>>
  BY DEF agregar_a_cola_por_IO, atender_cola_espera, planVars
<1>2. /\ \A r : DumpEnCamino(r)' <=> DumpEnCamino(r)
      /\ Bloqueados' = Bloqueados
  BY <1>1 DEF DumpEnCamino, memVars, Bloqueados
<1>3. ASSUME NEW c \in CPUs, agregar_a_cola_por_IO(c) PROVE MotivoInv'
  <2>1. PICK p : p = hilo[c].p
    OBVIOUS
  <2>2. /\ UNCHANGED enIO /\ hilo[c].en = "io_encola" /\ hilo'[c].en = "recibe"
        /\ \A u \in Hilos \ {c} : hilo'[u] = hilo[u]
        /\ p \in Pids /\ colaIO' = Append(colaIO, p)
    BY <1>0, <1>3, <2>1, SoloUno DEF agregar_a_cola_por_IO, TiposHilo, Ociosas
  <2>3. Range(colaIO') = Range(colaIO) \cup {p}
    BY <1>0, <2>2, AppendPropiedades
  <2>4. ASSUME NEW r \in Bloqueados' PROVE Razon(r)'
    <3>1. Razon(r)
      BY <1>2, <2>4 DEF MotivoInv
    <3>2. \A d \in CPUs : hilo[d].en = "io_encola" => d = c \/ hilo'[d] = hilo[d]
      BY <1>0, <2>2
    <3>3. BuscadoEnSusp(r) => BuscadoEnSusp(r)'
      BY <1>0, <2>2 DEF BuscadoEnSusp
    <3>4. \A d \in Ios : hilo'[d] = hilo[d]
      BY <1>0, <2>2
    <3>5. lista' = lista /\ enIO' = enIO
      BY <1>1, <2>2
    <3> QED BY <1>2, <2>1, <2>3, <3>1, <3>2, <3>3, <3>4, <3>5 DEF Razon
  <2>5. ASSUME NEW d \in CPUs, hilo'[d].en \in {"dump_libera", "dump_bloquea"}
        PROVE  DumpEnCamino(hilo[d].p)'
    <3>1. hilo'[d] = hilo[d]
      BY <1>0, <2>2, <2>5
    <3>2. PICK q : q = hilo[d].p
      OBVIOUS
    <3>3. DumpEnCamino(q)' /\ hilo'[d].p = q
      BY <1>2, <2>5, <3>1, <3>2 DEF MotivoInv
    <3> QED BY <3>3 DEF DumpEnCamino
  <2>6. \A d \in Ios : /\ hilo'[d].en \in {"recibe", "fin_susp"}
                       /\ hilo'[d].en = "fin_susp" => enIO'[d] = hilo'[d].p
    BY <1>0, <2>2 DEF MotivoInv
  <2> QED BY <2>4, <2>5, <2>6 DEF MotivoInv
<1>4. ASSUME NEW d \in Ios, atender_cola_espera(d) PROVE MotivoInv'
  <2>1. PICK p : p = Head(colaIO)
    OBVIOUS
  <2>2. /\ UNCHANGED hilo /\ enIO[d] = Nadie /\ colaIO # <<>> /\ colaIO' = Tail(colaIO)
        /\ enIO'[d] = p /\ \A e \in Ios \ {d} : enIO'[e] = enIO[e]
    BY <1>0, <1>4, <2>1 DEF atender_cola_espera
  <2>3. \A r \in Range(colaIO) : r = p \/ r \in Range(colaIO')
    BY <1>0, <2>1, <2>2, TomarMensaje
  <2>4. hilo[d].en = "recibe"
    <3>1. hilo[d].en = "fin_susp" => hilo[d].p \in Pids /\ enIO[d] = hilo[d].p
      BY <1>0 DEF MotivoInv, TiposHilo, Ociosas
    <3> QED BY <1>0, <2>2, <3>1 DEF MotivoInv
  <2>5. ASSUME NEW r \in Bloqueados' PROVE Razon(r)'
    <3>1. Razon(r)
      BY <1>2, <2>5 DEF MotivoInv
    <3>2. CASE r \in Range(colaIO)
      BY <2>2, <2>3, <2>4, <3>2 DEF Razon
    <3>3. CASE \E e \in Ios : enIO[e] = r /\ hilo[e].en = "recibe" /\ e # d
      BY <2>2, <3>3 DEF Razon
    <3>4. r # Nadie
      BY <1>0, <1>2, <2>5 DEF Bloqueados, TypeOK, TiposPlan, Grupos
    <3> QED BY <1>1, <1>2, <2>2, <3>1, <3>2, <3>3, <3>4 DEF Razon, BuscadoEnSusp
  <2>6. ASSUME NEW e \in CPUs, hilo'[e].en \in {"dump_libera", "dump_bloquea"}
        PROVE  DumpEnCamino(hilo[e].p)'
    <3>1. PICK q : q = hilo[e].p
      OBVIOUS
    <3>2. DumpEnCamino(q)' /\ hilo'[e].p = q
      BY <1>2, <2>2, <2>6, <3>1 DEF MotivoInv
    <3> QED BY <3>2 DEF DumpEnCamino
  <2>7. \A e \in Ios : /\ hilo'[e].en \in {"recibe", "fin_susp"}
                       /\ hilo'[e].en = "fin_susp" => enIO'[e] = hilo'[e].p
    BY <2>2, <2>4 DEF MotivoInv
  <2> QED BY <2>5, <2>6, <2>7 DEF MotivoInv
<1> QED BY <1>3, <1>4

\* A timer takes a process out of BLOCKED and files it in SUSP_BLOCKED.
LEMMA MotivoTimer ==
  ASSUME IInv, MotivoInv, NEW p \in Pids, TimerVence(p) \/ TimerSuspende(p)
  PROVE  MotivoInv'
<1>0. /\ TypeOK /\ lista \in [Grupos -> SUBSET Pids]
      /\ {"BLOCKED", "TIMER", "SUSP_BLOCKED"} \subseteq Grupos
  BY DEF IInv, TypeOK, TiposPlan, Grupos
<1>1. UNCHANGED <<hilo, memVars, ioVars>>
  BY DEF TimerVence, TimerSuspende
<1>2. \/ \E q : q \in lista["BLOCKED"] /\ lista' = Mueve("BLOCKED", "TIMER", q)
      \/ \E q : q \in lista["TIMER"] /\ lista' = Mueve("TIMER", "SUSP_BLOCKED", q)
      \/ lista' = lista
  BY DEF TimerVence, TimerSuspende
<1>3. \A r \in Bloqueados' :
        r \in Bloqueados /\ (r \in lista["SUSP_BLOCKED"] => r \in lista'["SUSP_BLOCKED"])
  BY <1>0, <1>2 DEF Mueve, Bloqueados
<1>4. \A r : DumpEnCamino(r) => DumpEnCamino(r)'
  BY <1>0, <1>1, DumpsQuedan DEF memVars
<1> QED BY <1>1, <1>3, <1>4, MotivoAjeno

\* EXIT_PID takes its process out of whatever group it is in.
LEMMA MotivoBusca ==
  ASSUME IInv, MotivoInv, NEW c \in CPUs, buscar_proceso_por_pid(c)
  PROVE  MotivoInv'
<1>0. /\ TypeOK /\ TiposHilo /\ UnSoloLugar /\ c \in Hilos
      /\ \A t \in Ios \cup {"memoria"} : t \in Hilos \ {c}
  BY HilosDe, Disjuntos, ConstantesOK, HechosCpu DEF IInv
<1>1. PICK p : p = hilo[c].p
  OBVIOUS
<1>2. /\ UNCHANGED <<ioVars, memVars>>
      /\ hilo[c].en \in {"busca_EXEC", "busca_BLOCKED", "busca_SUSP"}
      /\ \E e \in {"exit_libera", "busca_BLOCKED", "busca_SUSP", "recibe"} : Va(c, e) \/ Queda(c, e)
      /\ \/ UNCHANGED lista
         \/ \E g \in {"EXEC", "BLOCKED", "SUSP_BLOCKED"} :
              p \in lista[g] /\ lista' = [lista EXCEPT ![g] = @ \ {p}]
  BY <1>1 DEF buscar_proceso_por_pid, Busca
<1>3. \A r \in Bloqueados' :
        r \in Bloqueados /\ (r \in lista["SUSP_BLOCKED"] => r \in lista'["SUSP_BLOCKED"])
  <2>1. CASE UNCHANGED lista
    BY <2>1 DEF Bloqueados
  <2>2. ASSUME NEW g \in {"EXEC", "BLOCKED", "SUSP_BLOCKED"}, p \in lista[g],
               lista' = [lista EXCEPT ![g] = @ \ {p}]
        PROVE  \A r \in Bloqueados' :
                 r \in Bloqueados /\ (r \in lista["SUSP_BLOCKED"] => r \in lista'["SUSP_BLOCKED"])
    BY <1>0, <2>2, DejaGrupo
  <2> QED BY <1>2, <2>1, <2>2
<1>4. \A r : DumpEnCamino(r) => DumpEnCamino(r)'
  BY <1>0, <1>2, DumpsQuedan DEF memVars
<1>5. /\ \A u \in Hilos \ {c} : hilo'[u] = hilo[u]
      /\ hilo'[c].en \in {"exit_libera", "busca_BLOCKED", "busca_SUSP", "recibe"}
  BY <1>0, <1>2, SoloUno
<1>6. /\ \A t \in Ios \cup {"memoria"} : hilo'[t] = hilo[t]
      /\ \A d \in CPUs : /\ hilo[d].en = "io_encola" => hilo'[d] = hilo[d]
                         /\ hilo'[d].en \in {"dump_libera", "dump_bloquea"} =>
                              /\ hilo[d].en \in {"dump_libera", "dump_bloquea"}
                              /\ hilo'[d].p = hilo[d].p
  BY <1>0, <1>2, <1>5, HilosDe
<1> QED BY <1>2, <1>3, <1>4, <1>6, MotivoAjeno

\* The first section of blocked_a_ready: a process of BLOCKED is woken; one that is
\* suspended will be found by the second.
LEMMA PrimeraSeccion ==
  ASSUME IInv, NEW p \in Pids, DesdeBLOCKED(p), "timer" \notin Carreras
  PROVE  /\ lista'["SUSP_BLOCKED"] = lista["SUSP_BLOCKED"]
         /\ \A r \in Bloqueados' : r \in Bloqueados /\ (r = p => p \in lista["SUSP_BLOCKED"])
<1>0. /\ TypeOK /\ UnSoloLugar /\ lista \in [Grupos -> SUBSET Pids]
      /\ {"BLOCKED", "TIMER", "SUSP_BLOCKED"} \subseteq Grupos
  BY DEF IInv, TypeOK, TiposPlan, Grupos
<1>1. p \notin lista["TIMER"]
  BY DEF DesdeBLOCKED, FueraDeVentana
<1>2. CASE p \in lista["BLOCKED"]
  <2>1. lista' = [lista EXCEPT !["BLOCKED"] = @ \ {p}]
    BY <1>2 DEF DesdeBLOCKED
  <2>2. \A g \in Grupos : lista'[g] = IF g = "BLOCKED" THEN lista[g] \ {p} ELSE lista[g]
    BY <1>0, <2>1
  <2> QED BY <1>0, <1>1, <2>2 DEF Bloqueados
<1>3. CASE p \notin lista["BLOCKED"]
  BY <1>1, <1>3 DEF DesdeBLOCKED, Bloqueados
<1> QED BY <1>2, <1>3

\* The second section: after it the process is not in SUSP_BLOCKED.
LEMMA SegundaSeccion ==
  ASSUME IInv, NEW p \in Pids, DesdeSUSP_BLOCKED(p)
  PROVE  \A r \in Bloqueados' :
           /\ r \in Bloqueados
           /\ r \in lista["SUSP_BLOCKED"] => r # p /\ r \in lista'["SUSP_BLOCKED"]
<1>0. /\ TypeOK /\ UnSoloLugar /\ lista \in [Grupos -> SUBSET Pids]
      /\ {"BLOCKED", "TIMER", "SUSP_BLOCKED"} \subseteq Grupos
  BY DEF IInv, TypeOK, TiposPlan, Grupos
<1>1. CASE p \in lista["SUSP_BLOCKED"]
  <2>1. lista' = [lista EXCEPT !["SUSP_BLOCKED"] = @ \ {p}]
    BY <1>1 DEF DesdeSUSP_BLOCKED
  <2>2. \A g \in Grupos : lista'[g] = IF g = "SUSP_BLOCKED" THEN lista[g] \ {p} ELSE lista[g]
    BY <1>0, <2>1
  <2>3. En("SUSP_BLOCKED", p) /\ "SUSP_BLOCKED" \in Lugar
    BY <1>0, <1>1, EnPartes DEF Lugar
  <2>4. p \notin lista["BLOCKED"] /\ p \notin lista["TIMER"]
    BY <1>0, <2>3, NoEstaEnOtro
  <2> QED BY <1>0, <2>2, <2>4 DEF Bloqueados
<1>2. CASE p \notin lista["SUSP_BLOCKED"]
  BY <1>2 DEF DesdeSUSP_BLOCKED, Bloqueados
<1> QED BY <1>1, <1>2

\* FIN_IO, by the thread of the device.
LEMMA MotivoFinIO ==
  ASSUME IInv, MotivoInv, "timer" \notin Carreras, NEW d \in Ios, FinIO(d) \/ FinIOSusp(d)
  PROVE  MotivoInv'
<1>0. /\ TypeOK /\ TiposHilo /\ d \in Hilos
      /\ \A t \in CPUs \cup {"memoria"} : t \in Hilos \ {d}
      /\ \A t \in Ios : t \in Hilos
      /\ enIO \in [Ios -> PidONadie]
  BY HilosDe, Disjuntos, ConstantesOK, HechosCpu DEF IInv, TypeOK, TiposIO
<1>1. UNCHANGED <<memVars, colaIO>>
  BY DEF FinIO, FinIOSusp, ioVars
<1>2. \A r : DumpEnCamino(r)' <=> DumpEnCamino(r)
  BY <1>1 DEF DumpEnCamino, memVars
<1>3. CASE FinIO(d)
  <2>1. PICK p : p = enIO[d]
    OBVIOUS
  <2>2. /\ p \in Pids /\ DesdeBLOCKED(p) /\ enIO' = enIO /\ hilo[d].en = "recibe"
        /\ VaCon(d, "fin_susp", p, 0)
    BY <1>0, <1>3, <2>1 DEF FinIO, PidONadie, ioVars
  <2>3. /\ \A u \in Hilos \ {d} : hilo'[u] = hilo[u]
        /\ hilo'[d].en = "fin_susp" /\ hilo'[d].p = p
    BY <1>0, <2>2, SoloUno
  <2>4. /\ lista'["SUSP_BLOCKED"] = lista["SUSP_BLOCKED"]
        /\ \A r \in Bloqueados' : r \in Bloqueados /\ (r = p => p \in lista["SUSP_BLOCKED"])
    BY <2>2, PrimeraSeccion
  <2>5. \A r : BuscadoEnSusp(r) => BuscadoEnSusp(r)'
    BY <1>0, <2>2, <2>3 DEF BuscadoEnSusp
  <2>6. ASSUME NEW r \in Bloqueados' PROVE Razon(r)'
    <3>1. CASE r = p
      <4>1. BuscadoEnSusp(p)'
        BY <2>3 DEF BuscadoEnSusp
      <4> QED BY <2>4, <2>6, <3>1, <4>1 DEF Razon
    <3>2. CASE r # p
      <4>1. Razon(r)
        BY <2>4, <2>6 DEF MotivoInv
      <4>2. \A e \in Ios : enIO[e] = r => e # d /\ hilo'[e] = hilo[e]
        BY <1>0, <2>1, <2>3, <3>2
      <4>3. \A c \in CPUs : hilo'[c] = hilo[c]
        BY <1>0, <2>3
      <4> QED BY <1>1, <1>2, <2>2, <2>4, <2>5, <4>1, <4>2, <4>3 DEF Razon
    <3> QED BY <3>1, <3>2
  <2>7. ASSUME NEW c \in CPUs, hilo'[c].en \in {"dump_libera", "dump_bloquea"}
        PROVE  DumpEnCamino(hilo[c].p)'
    <3>1. PICK q : q = hilo[c].p
      OBVIOUS
    <3>2. DumpEnCamino(q)' /\ hilo'[c].p = q
      BY <1>0, <1>2, <2>3, <2>7, <3>1 DEF MotivoInv
    <3> QED BY <3>2 DEF DumpEnCamino
  <2>8. \A e \in Ios : /\ hilo'[e].en \in {"recibe", "fin_susp"}
                       /\ hilo'[e].en = "fin_susp" => enIO'[e] = hilo'[e].p
    BY <1>0, <2>1, <2>2, <2>3 DEF MotivoInv
  <2> QED BY <2>6, <2>7, <2>8 DEF MotivoInv
<1>4. CASE FinIOSusp(d)
  <2>1. PICK p : p = hilo[d].p
    OBVIOUS
  <2>2. /\ p \in Pids /\ DesdeSUSP_BLOCKED(p) /\ hilo[d].en = "fin_susp" /\ Queda(d, "recibe")
        /\ \A e \in Ios \ {d} : enIO'[e] = enIO[e]
    BY <1>0, <1>4, <2>1 DEF FinIOSusp, TiposHilo, Ociosas
  <2>3. /\ \A u \in Hilos \ {d} : hilo'[u] = hilo[u]
        /\ hilo'[d].en = "recibe"
    BY <1>0, <2>2, SoloUno
  <2>4. \A r \in Bloqueados' :
          /\ r \in Bloqueados
          /\ r \in lista["SUSP_BLOCKED"] => r # p /\ r \in lista'["SUSP_BLOCKED"]
    BY <2>2, SegundaSeccion
  <2>5. ASSUME NEW r \in Bloqueados' PROVE Razon(r)'
    <3>1. Razon(r)
      BY <2>4, <2>5 DEF MotivoInv
    <3>2. \A e \in Ios : hilo[e].en = "recibe" => e # d /\ hilo'[e] = hilo[e] /\ enIO'[e] = enIO[e]
      BY <1>0, <2>2, <2>3
    <3>3. \A c \in CPUs : hilo'[c] = hilo[c]
      BY <1>0, <2>3
    <3>4. r # p /\ BuscadoEnSusp(r) => BuscadoEnSusp(r)'
      BY <1>0, <2>1, <2>3 DEF BuscadoEnSusp
    <3> QED BY <1>1, <1>2, <2>4, <2>5, <3>1, <3>2, <3>3, <3>4 DEF Razon
  <2>6. ASSUME NEW c \in CPUs, hilo'[c].en \in {"dump_libera", "dump_bloquea"}
        PROVE  DumpEnCamino(hilo[c].p)'
    <3>1. PICK q : q = hilo[c].p
      OBVIOUS
    <3>2. DumpEnCamino(q)' /\ hilo'[c].p = q
      BY <1>0, <1>2, <2>3, <2>6, <3>1 DEF MotivoInv
    <3> QED BY <3>2 DEF DumpEnCamino
  <2>7. \A e \in Ios : /\ hilo'[e].en \in {"recibe", "fin_susp"}
                       /\ hilo'[e].en = "fin_susp" => enIO'[e] = hilo'[e].p
    BY <1>0, <2>2, <2>3 DEF MotivoInv
  <2> QED BY <2>5, <2>6, <2>7 DEF MotivoInv
<1> QED BY <1>3, <1>4

\* RESPUESTA_MEMORY_DUMP and the other answers, by the thread that reads the memory.
LEMMA MotivoRespuestas ==
  ASSUME IInv, MotivoInv, SinDemoras, RespuestasMemoria
  PROVE  MotivoInv'
<1>0. /\ TypeOK /\ TiposHilo /\ "memoria" \in Hilos
      /\ \A t \in CPUs \cup Ios : t \in Hilos \ {"memoria"}
      /\ "timer" \notin Carreras /\ "dump" \notin Carreras
  BY HilosDe, Disjuntos, ConstantesOK, HechosCpu DEF IInv, SinDemoras
<1>1. UNCHANGED <<ioVars, aMemoria>>
  BY DEF RespuestasMemoria, RespuestaPedido, RespuestaDump, RespuestaDumpSusp,
     RespuestaDesconocida, memVars
<1>2. PICK m : m = Head(deMemoria)
  OBVIOUS
<1>a. ASSUME NEW ops, RecibeMemoria(ops)
      PROVE  /\ m \in Respuestas /\ m.op \in ops /\ hilo["memoria"].en = "recibe"
             /\ \A r : DumpEnCamino(r) => DumpEnCamino(r)' \/ (m.op = "DUMP" /\ m.p = r)
  BY <1>0, <1>1, <1>2, <1>a, DumpsTomados DEF RecibeMemoria
<1>3. CASE RespuestaPedido
  <2>1. /\ UNCHANGED <<hilo, lista>> /\ \A r : DumpEnCamino(r) => DumpEnCamino(r)'
    BY <1>a, <1>3 DEF RespuestaPedido, planVars, Pedidos
  <2>2. Bloqueados' = Bloqueados
    BY <2>1 DEF Bloqueados
  <2> QED BY <1>1, <2>1, <2>2, MotivoAjeno
<1>4. CASE RespuestaDesconocida
  <2>1. /\ UNCHANGED lista /\ \A r : DumpEnCamino(r) => DumpEnCamino(r)'
        /\ Queda("memoria", "fin") /\ hilo["memoria"].en = "recibe"
    BY <1>a, <1>4 DEF RespuestaDesconocida, planVars
  <2>2. \A t \in CPUs \cup Ios : hilo'[t] = hilo[t]
    BY <1>0, <2>1, SoloUno
  <2>3. Bloqueados' = Bloqueados
    BY <2>1 DEF Bloqueados
  <2>4. ASSUME NEW r \in Bloqueados' PROVE Razon(r)'
    <3>1. Razon(r)
      BY <2>3, <2>4 DEF MotivoInv
    <3>2. BuscadoEnSusp(r) => BuscadoEnSusp(r)'
      BY <2>1, <2>2 DEF BuscadoEnSusp
    <3> QED BY <1>1, <2>1, <2>2, <3>1, <3>2 DEF Razon, ioVars
  <2>5. ASSUME NEW c \in CPUs, hilo'[c].en \in {"dump_libera", "dump_bloquea"}
        PROVE  DumpEnCamino(hilo[c].p)'
    <3>1. PICK q : q = hilo[c].p
      OBVIOUS
    <3>2. DumpEnCamino(q)' /\ hilo'[c].p = q
      BY <2>1, <2>2, <2>5, <3>1 DEF MotivoInv
    <3> QED BY <3>2 DEF DumpEnCamino
  <2>6. \A e \in Ios : /\ hilo'[e].en \in {"recibe", "fin_susp"}
                       /\ hilo'[e].en = "fin_susp" => enIO'[e] = hilo'[e].p
    BY <1>1, <2>2 DEF MotivoInv, ioVars
  <2> QED BY <2>4, <2>5, <2>6 DEF MotivoInv
<1>5. CASE RespuestaDump
  <2>1. PICK p : p = m.p
    OBVIOUS
  <2>2. /\ m \in Respuestas /\ hilo["memoria"].en = "recibe"
        /\ \A r : DumpEnCamino(r) /\ r # p => DumpEnCamino(r)'
        /\ \A c \in CPUs : hilo[c].p # p
        /\ DesdeBLOCKED(p) /\ VaCon("memoria", "fin_susp", p, 0)
    BY <1>0, <1>a, <1>2, <1>5, <2>1 DEF RespuestaDump
  <2>3. p \in Pids
    BY <2>1, <2>2 DEF Respuestas
  <2>4. /\ \A t \in CPUs \cup Ios : hilo'[t] = hilo[t]
        /\ hilo'["memoria"].en = "fin_susp" /\ hilo'["memoria"].p = p
    BY <1>0, <2>2, SoloUno
  <2>5. /\ lista'["SUSP_BLOCKED"] = lista["SUSP_BLOCKED"]
        /\ \A r \in Bloqueados' : r \in Bloqueados /\ (r = p => p \in lista["SUSP_BLOCKED"])
    BY <1>0, <2>2, <2>3, PrimeraSeccion
  <2>6. ASSUME NEW r \in Bloqueados' PROVE Razon(r)'
    <3>1. CASE r = p
      <4>1. BuscadoEnSusp(p)'
        BY <2>4 DEF BuscadoEnSusp
      <4> QED BY <2>5, <2>6, <3>1, <4>1 DEF Razon
    <3>2. CASE r # p
      <4>1. Razon(r)
        BY <2>5, <2>6 DEF MotivoInv
      <4>2. BuscadoEnSusp(r) => BuscadoEnSusp(r)'
        BY <2>2, <2>4 DEF BuscadoEnSusp
      <4> QED BY <1>1, <2>2, <2>4, <2>5, <3>2, <4>1, <4>2 DEF Razon, ioVars
    <3> QED BY <3>1, <3>2
  <2>7. ASSUME NEW c \in CPUs, hilo'[c].en \in {"dump_libera", "dump_bloquea"}
        PROVE  DumpEnCamino(hilo[c].p)'
    <3>1. PICK q : q = hilo[c].p
      OBVIOUS
    <3>2. DumpEnCamino(q)' /\ hilo'[c].p = q
      BY <2>2, <2>4, <2>7, <3>1 DEF MotivoInv
    <3> QED BY <3>2 DEF DumpEnCamino
  <2>8. \A e \in Ios : /\ hilo'[e].en \in {"recibe", "fin_susp"}
                       /\ hilo'[e].en = "fin_susp" => enIO'[e] = hilo'[e].p
    BY <1>1, <2>4 DEF MotivoInv, ioVars
  <2> QED BY <2>6, <2>7, <2>8 DEF MotivoInv
<1>6. CASE RespuestaDumpSusp
  <2>1. PICK p : p = hilo["memoria"].p
    OBVIOUS
  <2>2. /\ p \in Pids /\ DesdeSUSP_BLOCKED(p) /\ Queda("memoria", "recibe") /\ UNCHANGED deMemoria
    BY <1>0, <1>6, <2>1 DEF RespuestaDumpSusp, TiposHilo, Ociosas, memVars
  <2>3. \A t \in CPUs \cup Ios : hilo'[t] = hilo[t]
    BY <1>0, <2>2, SoloUno
  <2>4. \A r \in Bloqueados' :
          /\ r \in Bloqueados
          /\ r \in lista["SUSP_BLOCKED"] => r # p /\ r \in lista'["SUSP_BLOCKED"]
    BY <2>2, SegundaSeccion
  <2>5. \A r : DumpEnCamino(r)' <=> DumpEnCamino(r)
    BY <1>1, <2>2 DEF DumpEnCamino
  <2>6. ASSUME NEW r \in Bloqueados' PROVE Razon(r)'
    <3>1. Razon(r)
      BY <2>4, <2>6 DEF MotivoInv
    <3>2. r # p /\ BuscadoEnSusp(r) => BuscadoEnSusp(r)'
      BY <2>1, <2>3 DEF BuscadoEnSusp
    <3> QED BY <1>1, <2>3, <2>4, <2>5, <2>6, <3>1, <3>2 DEF Razon, ioVars
  <2>7. ASSUME NEW c \in CPUs, hilo'[c].en \in {"dump_libera", "dump_bloquea"}
        PROVE  DumpEnCamino(hilo[c].p)'
    <3>1. PICK q : q = hilo[c].p
      OBVIOUS
    <3>2. DumpEnCamino(q)' /\ hilo'[c].p = q
      BY <2>3, <2>5, <2>7, <3>1 DEF MotivoInv
    <3> QED BY <3>2 DEF DumpEnCamino
  <2>8. \A e \in Ios : /\ hilo'[e].en \in {"recibe", "fin_susp"}
                       /\ hilo'[e].en = "fin_susp" => enIO'[e] = hilo'[e].p
    BY <1>1, <2>3 DEF MotivoInv, ioVars
  <2> QED BY <2>6, <2>7, <2>8 DEF MotivoInv
<1> QED BY <1>3, <1>4, <1>5, <1>6 DEF RespuestasMemoria

\* The memory, which answers in time.
LEMMA MotivoMemoria ==
  ASSUME IInv, MotivoInv, SinDemoras, Memoria
  PROVE  MotivoInv'
<1>1. UNCHANGED <<ioVars, hilo, lista>>
  BY DEF Memoria, planVars
<1>2. \A r : DumpEnCamino(r) => DumpEnCamino(r)'
  BY DumpsAtendidos DEF SinDemoras, IInv
<1>3. Bloqueados' = Bloqueados
  BY <1>1 DEF Bloqueados
<1> QED BY <1>1, <1>2, <1>3, MotivoAjeno

\* MotivoInv at the start: nobody is BLOCKED.
LEMMA MotivoInicial == Init => MotivoInv
<1> SUFFICES ASSUME Init PROVE MotivoInv
  OBVIOUS
<1>1. Bloqueados = {}
  BY DEF Init, Bloqueados, Grupos
<1>2. \A t \in CPUs \cup Ios : hilo[t].en = "recibe"
  BY HilosDe, Disjuntos DEF Init, Parado
<1> QED BY <1>1, <1>2 DEF MotivoInv

\* MotivoInv is inductive.
LEMMA MotivoPaso ==
  ASSUME IInv, MotivoInv, SinDemoras, [Next]_vars
  PROVE  MotivoInv'
<1>1. "timer" \notin Carreras
  BY DEF SinDemoras
<1>2. ASSUME NEW c \in CPUs, Dispatch(c) PROVE MotivoInv'
  <2>1. \/ SysComienzoIO(c) \/ SysInitProc(c) \/ LiberarPorDump(c) \/ SysExit(c)
        \/ RespuestaFinalizar(c) \/ LiberarYSalir(c) \/ ReiniciarFinalizar(c)
        \/ BloquearPorIO(c) \/ agregar_a_cola_por_IO(c) \/ SysDumpMemory(c) \/ BloquearPorDump(c)
        \/ buscar_proceso_por_pid(c)
    BY <1>2 DEF Dispatch
  <2> QED BY <2>1, MotivoOtros, MotivoBloqueaIO, MotivoBloqueaDump, MotivoDump, MotivoCola, MotivoBusca
<1>3. ASSUME NEW d \in Ios, IO(d) PROVE MotivoInv'
  BY <1>1, <1>3, MotivoCola, MotivoFinIO DEF IO
<1>4. ASSUME NEW p \in Pids, Timer(p) PROVE MotivoInv'
  BY <1>4, MotivoTimer, MotivoOtros DEF Timer
<1> QED BY <1>2, <1>3, <1>4, MotivoOtros, MotivoRespuestas, MotivoMemoria DEF Next

\* Unless an answer comes before its process is blocked, or in the window in which its
\* timer suspends it, or a dump is lost, every blocked process has someone that will
\* wake it, however many CPUs, devices and system calls there are, and even if a
\* system call overtakes the filing of its process in EXEC.
THEOREM NadieBloqueadoSinMotivo == SinDemoras => (Spec => []BloqueadoConMotivo)
<1> SUFFICES ASSUME SinDemoras PROVE Spec => []BloqueadoConMotivo
  OBVIOUS
<1>1. IInv /\ MotivoInv /\ [Next]_vars => MotivoInv'
  BY MotivoPaso
<1>2. ASSUME MotivoInv PROVE BloqueadoConMotivo
  <2>1. SUFFICES ASSUME NEW p \in Bloqueados PROVE Pendiente(p)
    BY DEF BloqueadoConMotivo, Bloqueados
  <2>2. Razon(p)
    BY <1>2 DEF MotivoInv
  <2>3. ASSUME BuscadoEnSusp(p) PROVE Pendiente(p)
    <3>1. PICK t \in Ios \cup {"memoria"} : hilo[t].en = "fin_susp" /\ hilo[t].p = p
      BY <2>3 DEF BuscadoEnSusp
    <3>2. t \in Ios => enIO[t] = p
      BY <1>2, <3>1 DEF MotivoInv
    <3> QED BY <3>1, <3>2 DEF Pendiente
  <2> QED BY <2>2, <2>3 DEF Razon, DumpEnCamino, Pendiente
<1> QED BY <1>1, <1>2, MotivoInicial, Invariante, PTL DEF Spec

-----------------------------------------------------------------------------
(* The requests to the memory and their answers: what a process may count   *)
(* on while its request is on its way. Messages are taken in order.         *)

\* In a socket: a message of a kind about a process; one of a kind.
Hay(s, op, p) == \E m \in Range(s) : m.op = op /\ m.p = p
HayOp(s, op) == \E m \in Range(s) : m.op = op

\* No message of kind b comes after one of kind a of the same process.
SinTras(s, a, b) ==
  \A i, j \in DOMAIN s : i < j /\ s[i].op = a /\ s[j].op = b => s[i].p # s[j].p

\* After each creation of the process comes a suspension of it.
Cubierto(s, p) ==
  \A i \in DOMAIN s : s[i].op = "CREAR" /\ s[i].p = p =>
    \E j \in DOMAIN s : j > i /\ s[j].op = "SUSPENDER" /\ s[j].p = p

\* At most one message of the kind.
Una(s, op) == \A i, j \in DOMAIN s : s[i].op = op /\ s[j].op = op => i = j

\* A socket with one more message, position by position.
LEMMA UnoMas ==
  ASSUME NEW S, NEW s \in Seq(S), NEW m \in S
  PROVE  /\ Len(s) \in Nat /\ DOMAIN s = 1..Len(s)
         /\ DOMAIN Append(s, m) = 1..(Len(s) + 1)
         /\ \A i \in 1..Len(s) : Append(s, m)[i] = s[i]
         /\ Append(s, m)[Len(s) + 1] = m
         /\ Append(s, m) \in Seq(S)
         /\ Range(Append(s, m)) = Range(s) \cup {m}
<1>1. /\ Len(s) \in Nat /\ DOMAIN s = 1..Len(s)
  BY LenProperties
<1>2. /\ Append(s, m) \in Seq(S) /\ Len(Append(s, m)) = Len(s) + 1
      /\ \A i \in 1..Len(s) : Append(s, m)[i] = s[i]
      /\ Append(s, m)[Len(s) + 1] = m
  BY AppendProperties
<1>3. DOMAIN Append(s, m) = 1..Len(Append(s, m))
  BY <1>2, LenProperties
<1> QED BY <1>1, <1>2, <1>3, AppendPropiedades

\* A socket after its first message is taken, position by position.
LEMMA UnoMenos ==
  ASSUME NEW S, NEW s \in Seq(S), s # <<>>
  PROVE  /\ Len(s) \in Nat \ {0} /\ DOMAIN s = 1..Len(s) /\ Head(s) = s[1] /\ Head(s) \in S
         /\ DOMAIN Tail(s) = 1..(Len(s) - 1)
         /\ \A i \in 1..(Len(s) - 1) : Tail(s)[i] = s[i + 1]
         /\ Tail(s) \in Seq(S)
         /\ Range(Tail(s)) \subseteq Range(s) /\ Head(s) \in Range(s)
         /\ \A m \in Range(s) : m = Head(s) \/ m \in Range(Tail(s))
<1>1. /\ Len(s) \in Nat \ {0} /\ DOMAIN s = 1..Len(s)
  BY LenProperties, EmptySeq
<1>2. /\ Tail(s) \in Seq(S) /\ Len(Tail(s)) = Len(s) - 1
      /\ \A i \in 1..(Len(s) - 1) : Tail(s)[i] = s[i + 1]
  BY HeadTailProperties
<1>3. DOMAIN Tail(s) = 1..(Len(s) - 1)
  BY <1>2, LenProperties
<1>4. Head(s) = s[1] /\ Head(s) \in S
  BY <1>1, ElementOfSeq
<1>5. Range(Tail(s)) \subseteq Range(s)
  <2> SUFFICES ASSUME NEW i \in 1..(Len(s) - 1) PROVE Tail(s)[i] \in Range(s)
    BY <1>3 DEF Range
  <2>1. i + 1 \in DOMAIN s /\ Tail(s)[i] = s[i + 1]
    BY <1>1, <1>2
  <2> QED BY <2>1 DEF Range
<1>6. Head(s) \in Range(s)
  BY <1>1, <1>4 DEF Range
<1> QED BY <1>1, <1>2, <1>3, <1>4, <1>5, <1>6, TomarMensaje

\* One more message: the order that is wanted is kept if no message of kind a of the
\* same process is there.
LEMMA OrdenMas ==
  ASSUME NEW S, NEW s \in Seq(S), NEW m \in S, NEW a, NEW b, SinTras(s, a, b),
         m.op = b => ~Hay(s, a, m.p)
  PROVE  SinTras(Append(s, m), a, b)
<1> DEFINE r == Append(s, m)
<1>1. /\ Len(s) \in Nat /\ DOMAIN s = 1..Len(s) /\ DOMAIN r = 1..(Len(s) + 1)
      /\ \A i \in 1..Len(s) : r[i] = s[i]
      /\ r[Len(s) + 1] = m
  BY UnoMas
<1> HIDE DEF r
<1>2. ASSUME NEW i \in 1..(Len(s) + 1), NEW j \in 1..(Len(s) + 1), i < j,
             r[i].op = a, r[j].op = b
      PROVE  r[i].p # r[j].p
  <2>1. i \in 1..Len(s) /\ r[i] = s[i]
    BY <1>1, <1>2
  <2>2. CASE j \in 1..Len(s)
    BY <1>1, <1>2, <2>1, <2>2 DEF SinTras
  <2>3. CASE j = Len(s) + 1
    <3>1. r[j] = m /\ s[i] \in Range(s)
      BY <1>1, <2>1, <2>3 DEF Range
    <3> QED BY <1>2, <2>1, <3>1 DEF Hay
  <2> QED BY <1>1, <2>2, <2>3
<1>3. SinTras(r, a, b)
  BY <1>1, <1>2 DEF SinTras
<1> QED BY <1>3 DEF r

\* A message is taken: the rest is in order, and none it excludes is left.
LEMMA OrdenMenos ==
  ASSUME NEW S, NEW s \in Seq(S), s # <<>>, NEW a, NEW b, SinTras(s, a, b)
  PROVE  /\ SinTras(Tail(s), a, b)
         /\ Head(s).op = a => ~Hay(Tail(s), b, Head(s).p)
<1> DEFINE r == Tail(s)
<1>1. /\ Len(s) \in Nat \ {0} /\ DOMAIN s = 1..Len(s) /\ DOMAIN r = 1..(Len(s) - 1)
      /\ \A i \in 1..(Len(s) - 1) : r[i] = s[i + 1]
      /\ Head(s) = s[1]
  BY UnoMenos
<1> HIDE DEF r
<1>2. \A i \in DOMAIN r : i + 1 \in DOMAIN s /\ r[i] = s[i + 1] /\ 1 < i + 1
  BY <1>1
<1>3. SinTras(r, a, b)
  <2> SUFFICES ASSUME NEW i \in DOMAIN r, NEW j \in DOMAIN r, i < j, r[i].op = a, r[j].op = b
               PROVE  r[i].p # r[j].p
    BY DEF SinTras
  <2>1. i + 1 < j + 1
    BY <1>1
  <2> QED BY <1>2, <2>1 DEF SinTras
<1>4. ASSUME Head(s).op = a, Hay(r, b, Head(s).p) PROVE FALSE
  <2>1. PICK i \in DOMAIN r : r[i].op = b /\ r[i].p = Head(s).p
    BY <1>4 DEF Hay, Range
  <2>2. s[1].op = a /\ s[i + 1].op = b /\ s[i + 1].p = s[1].p /\ 1 \in DOMAIN s /\ i + 1 \in DOMAIN s
    BY <1>1, <1>2, <1>4, <2>1
  <2> QED BY <1>2, <2>2 DEF SinTras
<1> QED BY <1>3, <1>4 DEF r

\* A process whose creations are all followed by a suspension.
LEMMA CubiertoMas ==
  ASSUME NEW S, NEW s \in Seq(S), NEW m \in S, NEW p,
         \/ m.op = "SUSPENDER" /\ m.p = p
         \/ Cubierto(s, p) /\ ~(m.op = "CREAR" /\ m.p = p)
  PROVE  Cubierto(Append(s, m), p)
<1> DEFINE r == Append(s, m)
<1>1. /\ Len(s) \in Nat /\ DOMAIN s = 1..Len(s) /\ DOMAIN r = 1..(Len(s) + 1)
      /\ \A i \in 1..Len(s) : r[i] = s[i]
      /\ r[Len(s) + 1] = m
  BY UnoMas
<1> HIDE DEF r
<1> SUFFICES ASSUME NEW i \in DOMAIN r, r[i].op = "CREAR", r[i].p = p
             PROVE  \E j \in DOMAIN r : j > i /\ r[j].op = "SUSPENDER" /\ r[j].p = p
  BY DEF Cubierto, r
<1>2. CASE m.op = "SUSPENDER" /\ m.p = p
  <2>1. i # Len(s) + 1
    BY <1>1, <1>2
  <2>2. Len(s) + 1 \in DOMAIN r /\ Len(s) + 1 > i
    BY <1>1, <2>1
  <2> QED BY <1>1, <1>2, <2>2
<1>3. CASE Cubierto(s, p) /\ ~(m.op = "CREAR" /\ m.p = p)
  <2>1. i # Len(s) + 1
    BY <1>1, <1>3
  <2>2. i \in DOMAIN s /\ r[i] = s[i]
    BY <1>1, <2>1
  <2>3. PICK j \in DOMAIN s : j > i /\ s[j].op = "SUSPENDER" /\ s[j].p = p
    BY <1>3, <2>2 DEF Cubierto
  <2>4. j \in DOMAIN r /\ r[j] = s[j]
    BY <1>1, <2>3
  <2> QED BY <2>3, <2>4
<1> QED BY <1>2, <1>3

\* When the creation is taken its suspension is still there.
LEMMA CubiertoMenos ==
  ASSUME NEW S, NEW s \in Seq(S), s # <<>>, NEW p, Cubierto(s, p)
  PROVE  /\ Cubierto(Tail(s), p)
         /\ Head(s).op = "CREAR" /\ Head(s).p = p => Hay(Tail(s), "SUSPENDER", p)
<1> DEFINE r == Tail(s)
<1>1. /\ Len(s) \in Nat \ {0} /\ DOMAIN s = 1..Len(s) /\ DOMAIN r = 1..(Len(s) - 1)
      /\ \A i \in 1..(Len(s) - 1) : r[i] = s[i + 1]
      /\ Head(s) = s[1]
  BY UnoMenos
<1> HIDE DEF r
<1>2. ASSUME NEW i \in DOMAIN s, s[i].op = "CREAR", s[i].p = p
      PROVE  \E j \in DOMAIN r : j + 1 > i /\ r[j].op = "SUSPENDER" /\ r[j].p = p
  <2>1. PICK j \in DOMAIN s : j > i /\ s[j].op = "SUSPENDER" /\ s[j].p = p
    BY <1>2 DEF Cubierto
  <2>2. j - 1 \in DOMAIN r /\ r[j - 1] = s[(j - 1) + 1] /\ (j - 1) + 1 = j
    BY <1>1, <2>1
  <2> QED BY <2>1, <2>2
<1>3. Cubierto(r, p)
  <2> SUFFICES ASSUME NEW i \in DOMAIN r, r[i].op = "CREAR", r[i].p = p
               PROVE  \E j \in DOMAIN r : j > i /\ r[j].op = "SUSPENDER" /\ r[j].p = p
    BY DEF Cubierto
  <2>1. i + 1 \in DOMAIN s /\ s[i + 1].op = "CREAR" /\ s[i + 1].p = p
    BY <1>1
  <2>2. PICK j \in DOMAIN r : j + 1 > i + 1 /\ r[j].op = "SUSPENDER" /\ r[j].p = p
    BY <1>2, <2>1
  <2>3. j > i
    BY <1>1, <2>2
  <2> QED BY <2>2, <2>3
<1>4. ASSUME Head(s).op = "CREAR", Head(s).p = p PROVE Hay(r, "SUSPENDER", p)
  <2>1. 1 \in DOMAIN s
    BY <1>1
  <2>2. PICK j \in DOMAIN r : r[j].op = "SUSPENDER" /\ r[j].p = p
    BY <1>1, <1>2, <1>4, <2>1
  <2> QED BY <2>2 DEF Hay, Range
<1> QED BY <1>3, <1>4 DEF r

\* One of a kind.
LEMMA UnaMas ==
  ASSUME NEW S, NEW s \in Seq(S), NEW m \in S, NEW op, Una(s, op), m.op = op => ~HayOp(s, op)
  PROVE  Una(Append(s, m), op)
<1> DEFINE r == Append(s, m)
<1>1. /\ Len(s) \in Nat /\ DOMAIN s = 1..Len(s) /\ DOMAIN r = 1..(Len(s) + 1)
      /\ \A i \in 1..Len(s) : r[i] = s[i]
      /\ r[Len(s) + 1] = m
  BY UnoMas
<1> HIDE DEF r
<1>2. \A i \in DOMAIN r : i = Len(s) + 1 \/ (i \in DOMAIN s /\ r[i] = s[i] /\ s[i] \in Range(s))
  BY <1>1 DEF Range
<1>3. Una(r, op)
  BY <1>1, <1>2 DEF Una, HayOp
<1> QED BY <1>3 DEF r

\* Of a socket with at most one message of an operation, after the first is taken.
LEMMA UnaMenos ==
  ASSUME NEW S, NEW s \in Seq(S), s # <<>>, NEW op, Una(s, op)
  PROVE  /\ Una(Tail(s), op)
         /\ Head(s).op = op => ~HayOp(Tail(s), op)
<1> DEFINE r == Tail(s)
<1>1. /\ Len(s) \in Nat \ {0} /\ DOMAIN s = 1..Len(s) /\ DOMAIN r = 1..(Len(s) - 1)
      /\ \A i \in 1..(Len(s) - 1) : r[i] = s[i + 1]
      /\ Head(s) = s[1]
  BY UnoMenos
<1> HIDE DEF r
<1>2. \A i \in DOMAIN r : i \in Int /\ i + 1 \in DOMAIN s /\ r[i] = s[i + 1] /\ 1 # i + 1
  BY <1>1
<1>3. Una(r, op)
  <2> SUFFICES ASSUME NEW i \in DOMAIN r, NEW j \in DOMAIN r, r[i].op = op, r[j].op = op
               PROVE  i = j
    BY DEF Una
  <2>1. i + 1 = j + 1
    BY <1>2 DEF Una
  <2> QED BY <1>2, <2>1
<1>4. ASSUME Head(s).op = op, HayOp(r, op) PROVE FALSE
  <2>1. PICK i \in DOMAIN r : r[i].op = op
    BY <1>4 DEF HayOp, Range
  <2>2. 1 \in DOMAIN s /\ i + 1 \in DOMAIN s /\ s[1].op = op /\ s[i + 1].op = op
    BY <1>1, <1>2, <1>4, <2>1
  <2> QED BY <1>2, <2>2 DEF Una
<1> QED BY <1>3, <1>4 DEF r

\* Nobody waits for the memory: no request, no answer, no token.
Libre(a, d, b, op) == ~HayOp(a, op) /\ ~HayOp(d, op) /\ b = 0

\* Somebody waits for an answer about p: there is one request, or one answer, or one
\* token.
EnCurso(a, d, b, op, p) ==
  /\ Una(a, op) /\ Una(d, op)
  /\ \A m \in Range(a) \cup Range(d) : m.op = op => m.p = p
  /\ \/ HayOp(a, op) /\ ~HayOp(d, op) /\ b = 0
     \/ ~HayOp(a, op) /\ HayOp(d, op) /\ b = 0
     \/ ~HayOp(a, op) /\ ~HayOp(d, op) /\ b = 1

\* The threads T, which wait in e for their answers of kind op, wait one at a time.
Turno(op, T, e) ==
  /\ \A t \in T : hilo[t].en = e => EnCurso(aMemoria, deMemoria, binario[op], op, hilo[t].p)
  /\ (\A t \in T : hilo[t].en # e) => Libre(aMemoria, deMemoria, binario[op], op)
  /\ \A t, u \in T : hilo[t].en = e /\ hilo[u].en = e => t = u

\* A yes that is on its way, or that was just received.
Dijo(op) ==
  \/ \E m \in Range(deMemoria) : m.op = op /\ m.ok
  \/ binario[op] = 1 /\ respuesta[op]

\* A Turno goes on through the steps of other operations.
LEMMA TurnoAjeno ==
  ASSUME TypeOK, NEW op, NEW T, NEW e, Turno(op, T, e),
         \A t \in T : hilo'[t] = hilo[t] \/ (hilo[t].en # e /\ hilo'[t].en # e),
         binario'[op] = binario[op], UNCHANGED deMemoria,
         \/ UNCHANGED aMemoria
         \/ \E m \in Peticiones : m.op # op /\ aMemoria' = Append(aMemoria, m)
  PROVE  Turno(op, T, e)'
<1>1. /\ HayOp(aMemoria', op) <=> HayOp(aMemoria, op)
      /\ Una(aMemoria, op) => Una(aMemoria', op)
      /\ \A m \in Range(aMemoria') : m.op = op => m \in Range(aMemoria)
  <2>1. aMemoria \in Seq(Peticiones)
    BY DEF TypeOK, TiposMem
  <2>2. ASSUME NEW m \in Peticiones, m.op # op, aMemoria' = Append(aMemoria, m)
        PROVE  /\ Range(aMemoria') = Range(aMemoria) \cup {m}
               /\ Una(aMemoria, op) => Una(aMemoria', op)
    BY <2>1, <2>2, UnoMas, UnaMas
  <2> QED BY <2>2 DEF HayOp
<1>2. ASSUME NEW p, EnCurso(aMemoria, deMemoria, binario[op], op, p)
      PROVE  EnCurso(aMemoria', deMemoria', binario'[op], op, p)
  BY <1>1, <1>2 DEF EnCurso
<1>3. Libre(aMemoria, deMemoria, binario[op], op) => Libre(aMemoria', deMemoria', binario'[op], op)
  BY <1>1 DEF Libre
<1>4. \A t \in T : hilo'[t].en = e <=> hilo[t].en = e
  OBVIOUS
<1>5. \A t \in T : hilo'[t].en = e => hilo'[t] = hilo[t]
  OBVIOUS
<1> QED BY <1>2, <1>3, <1>4, <1>5 DEF Turno

\* The request is sent.
LEMMA TurnoPide ==
  ASSUME TypeOK, NEW op, NEW T, NEW e, Turno(op, T, e), NEW t \in T,
         \A u \in T : hilo[u].en # e,
         hilo'[t].en = e, \A u \in T \ {t} : hilo'[u] = hilo[u],
         binario'[op] = binario[op], UNCHANGED deMemoria,
         NEW m \in Peticiones, m.op = op, m.p = hilo'[t].p, aMemoria' = Append(aMemoria, m)
  PROVE  Turno(op, T, e)'
<1>1. aMemoria \in Seq(Peticiones)
  BY DEF TypeOK, TiposMem
<1>2. Libre(aMemoria, deMemoria, binario[op], op)
  BY DEF Turno
<1>3. Una(aMemoria, op) /\ Una(deMemoria, op)
  BY <1>2 DEF Libre, HayOp, Una, Range
<1>4. Range(aMemoria') = Range(aMemoria) \cup {m} /\ Una(aMemoria', op)
  BY <1>1, <1>2, <1>3, UnoMas, UnaMas DEF Libre
<1>5. PICK q : q = hilo'[t].p
  OBVIOUS
<1>6. EnCurso(aMemoria', deMemoria', binario'[op], op, q)
  BY <1>2, <1>3, <1>4, <1>5 DEF EnCurso, Libre, HayOp
<1>7. \A u \in T : hilo'[u].en = e <=> u = t
  OBVIOUS
<1> QED BY <1>5, <1>6, <1>7 DEF Turno

\* The memory answers, one message for each request of the kind.
LEMMA TurnoAtiende ==
  ASSUME TypeOK, NEW op, NEW T, NEW e, Turno(op, T, e), UNCHANGED hilo, binario'[op] = binario[op],
         aMemoria # <<>>, aMemoria' = Tail(aMemoria),
         \/ /\ Head(aMemoria).op # op
            /\ \E r \in Seq(Respuestas) : /\ deMemoria' = deMemoria \o r
                                          /\ \A x \in Range(r) : x.op # op
         \/ /\ Head(aMemoria).op = op
            /\ \E x \in Respuestas : /\ deMemoria' = Append(deMemoria, x)
                                     /\ x.op = op /\ x.p = Head(aMemoria).p
  PROVE  Turno(op, T, e)'
<1>1. aMemoria \in Seq(Peticiones) /\ deMemoria \in Seq(Respuestas)
  BY DEF TypeOK, TiposMem
<1>2. PICK h : h = Head(aMemoria)
  OBVIOUS
<1>3. /\ Range(aMemoria') \subseteq Range(aMemoria) /\ h \in Range(aMemoria)
      /\ \A m \in Range(aMemoria) : m = h \/ m \in Range(aMemoria')
  BY <1>1, <1>2, UnoMenos
<1>4. /\ Una(aMemoria, op) => Una(aMemoria', op)
      /\ Una(aMemoria, op) /\ h.op = op => ~HayOp(aMemoria', op)
  BY <1>1, <1>2, UnaMenos
<1>5. CASE h.op # op
  <2>1. PICK r \in Seq(Respuestas) : deMemoria' = deMemoria \o r /\ \A x \in Range(r) : x.op # op
    BY <1>2, <1>5
  <2>2. Range(deMemoria') = Range(deMemoria) \cup Range(r)
    BY <1>1, <2>1, RangeConcatenation
  <2>3. HayOp(deMemoria', op) <=> HayOp(deMemoria, op)
    BY <2>1, <2>2 DEF HayOp
  <2>4. HayOp(aMemoria', op) <=> HayOp(aMemoria, op)
    BY <1>3, <1>5 DEF HayOp
  <2>5. Una(deMemoria, op) => Una(deMemoria', op)
    <3>1. SUFFICES ASSUME Una(deMemoria, op), NEW i \in DOMAIN deMemoria', NEW j \in DOMAIN deMemoria',
                          deMemoria'[i].op = op, deMemoria'[j].op = op
                   PROVE  i = j
      BY DEF Una
    <3>2. /\ Len(deMemoria) \in Nat /\ DOMAIN deMemoria = 1..Len(deMemoria)
          /\ Len(r) \in Nat /\ DOMAIN r = 1..Len(r)
          /\ deMemoria' \in Seq(Respuestas) /\ Len(deMemoria') = Len(deMemoria) + Len(r)
          /\ \A k \in 1..(Len(deMemoria) + Len(r)) :
               deMemoria'[k] = IF k <= Len(deMemoria) THEN deMemoria[k] ELSE r[k - Len(deMemoria)]
      BY <1>1, <2>1, ConcatProperties, LenProperties
    <3>3. DOMAIN deMemoria' = 1..(Len(deMemoria) + Len(r))
      BY <3>2, LenProperties
    <3>4. ASSUME NEW k \in DOMAIN deMemoria', deMemoria'[k].op = op
          PROVE  k \in DOMAIN deMemoria /\ deMemoria'[k] = deMemoria[k]
      <4>1. CASE k <= Len(deMemoria)
        BY <3>2, <3>3, <4>1
      <4>2. CASE ~(k <= Len(deMemoria))
        <5>1. k - Len(deMemoria) \in DOMAIN r /\ deMemoria'[k] = r[k - Len(deMemoria)]
          BY <3>2, <3>3, <4>2
        <5> QED BY <2>1, <3>4, <5>1 DEF Range
      <4> QED BY <4>1, <4>2
    <3> QED BY <3>1, <3>4 DEF Una
  <2>6. ASSUME NEW p, EnCurso(aMemoria, deMemoria, binario[op], op, p)
        PROVE  EnCurso(aMemoria', deMemoria', binario'[op], op, p)
    <3>1. \A m \in Range(aMemoria') \cup Range(deMemoria') :
            m.op = op => m \in Range(aMemoria) \cup Range(deMemoria)
      BY <1>3, <2>1, <2>2
    <3> QED BY <1>4, <2>3, <2>4, <2>5, <2>6, <3>1 DEF EnCurso
  <2> QED BY <2>3, <2>4, <2>6 DEF Turno, Libre
<1>6. CASE h.op = op
  <2>1. PICK x \in Respuestas : deMemoria' = Append(deMemoria, x) /\ x.op = op /\ x.p = h.p
    BY <1>2, <1>6
  <2>2. /\ Range(deMemoria') = Range(deMemoria) \cup {x}
        /\ Una(deMemoria, op) /\ ~HayOp(deMemoria, op) => Una(deMemoria', op)
    BY <1>1, <2>1, UnoMas, UnaMas
  <2>3. HayOp(aMemoria, op)
    BY <1>3, <1>6 DEF HayOp
  <2>4. ASSUME NEW p, EnCurso(aMemoria, deMemoria, binario[op], op, p)
        PROVE  EnCurso(aMemoria', deMemoria', binario'[op], op, p)
    <3>1. h.p = p /\ ~HayOp(deMemoria, op) /\ binario[op] = 0 /\ ~HayOp(aMemoria', op)
      BY <1>3, <1>4, <1>6, <2>3, <2>4 DEF EnCurso
    <3>2. HayOp(deMemoria', op)
      BY <2>1, <2>2 DEF HayOp
    <3>3. \A m \in Range(aMemoria') \cup Range(deMemoria') : m.op = op => m.p = p
      BY <1>3, <2>1, <2>2, <2>4, <3>1 DEF EnCurso
    <3> QED BY <1>4, <2>2, <2>4, <3>1, <3>2, <3>3 DEF EnCurso
  <2> QED BY <2>3, <2>4 DEF Turno, Libre
<1> QED BY <1>5, <1>6

\* The thread that reads the answers turns one of the kind into a token.
LEMMA TurnoLlega ==
  ASSUME TypeOK, NEW op, NEW T, NEW e, Turno(op, T, e),
         \A t \in T : hilo'[t] = hilo[t] \/ (hilo[t].en # e /\ hilo'[t].en # e),
         UNCHANGED aMemoria, deMemoria # <<>>, deMemoria' = Tail(deMemoria),
         binario'[op] = IF Head(deMemoria).op = op THEN binario[op] + 1 ELSE binario[op]
  PROVE  Turno(op, T, e)'
<1>1. deMemoria \in Seq(Respuestas)
  BY DEF TypeOK, TiposMem
<1>2. PICK h : h = Head(deMemoria)
  OBVIOUS
<1>3. /\ Range(deMemoria') \subseteq Range(deMemoria) /\ h \in Range(deMemoria)
      /\ \A m \in Range(deMemoria) : m = h \/ m \in Range(deMemoria')
  BY <1>1, <1>2, UnoMenos
<1>4. /\ Una(deMemoria, op) => Una(deMemoria', op)
      /\ Una(deMemoria, op) /\ h.op = op => ~HayOp(deMemoria', op)
  BY <1>1, <1>2, UnaMenos
<1>5. h.op = op => HayOp(deMemoria, op)
  BY <1>3 DEF HayOp
<1>6. h.op # op => (HayOp(deMemoria', op) <=> HayOp(deMemoria, op))
  BY <1>3 DEF HayOp
<1>7. ASSUME NEW p, EnCurso(aMemoria, deMemoria, binario[op], op, p)
      PROVE  EnCurso(aMemoria', deMemoria', binario'[op], op, p)
  <2>1. CASE h.op = op
    <3>1. /\ ~HayOp(aMemoria, op) /\ binario[op] = 0 /\ ~HayOp(deMemoria', op)
      BY <1>4, <1>5, <1>7, <2>1 DEF EnCurso
    <3>2. binario'[op] = 1
      BY <1>2, <2>1, <3>1
    <3> QED BY <1>3, <1>4, <1>7, <3>1, <3>2 DEF EnCurso
  <2>2. CASE h.op # op
    BY <1>2, <1>3, <1>4, <1>6, <1>7, <2>2 DEF EnCurso
  <2> QED BY <2>1, <2>2
<1>8. Libre(aMemoria, deMemoria, binario[op], op) => Libre(aMemoria', deMemoria', binario'[op], op)
  BY <1>2, <1>5, <1>6 DEF Libre
<1>9. \A t \in T : (hilo'[t].en = e <=> hilo[t].en = e) /\ (hilo'[t].en = e => hilo'[t] = hilo[t])
  OBVIOUS
<1> QED BY <1>7, <1>8, <1>9 DEF Turno

\* The one who waits takes its token.
LEMMA TurnoToma ==
  ASSUME TypeOK, NEW op, NEW T, NEW e, Turno(op, T, e), NEW t \in T,
         hilo[t].en = e, binario[op] > 0, binario'[op] = binario[op] - 1, binario[op] \in Nat,
         hilo'[t].en # e, \A u \in T \ {t} : hilo'[u] = hilo[u],
         UNCHANGED <<aMemoria, deMemoria>>
  PROVE  /\ Turno(op, T, e)'
         /\ binario[op] = 1 /\ ~HayOp(deMemoria, op) /\ ~HayOp(aMemoria, op)
<1>1. EnCurso(aMemoria, deMemoria, binario[op], op, hilo[t].p)
  BY DEF Turno
<1>2. binario[op] = 1 /\ ~HayOp(aMemoria, op) /\ ~HayOp(deMemoria, op)
  BY <1>1 DEF EnCurso
<1>3. Libre(aMemoria', deMemoria', binario'[op], op)
  BY <1>2 DEF Libre
<1>4. \A u \in T : hilo'[u].en # e
  BY DEF Turno
<1> QED BY <1>2, <1>3, <1>4 DEF Turno

-----------------------------------------------------------------------------
(* Who talks to the memory.                                                 *)

EnEspera == {"crear_espera", "desus_espera", "exit_espera"}

\* No thread begins or ends to wait for an answer.
NadieEspera == \A t \in Hilos : hilo'[t] = hilo[t] \/ {hilo[t].en, hilo'[t].en} \cap EnEspera = {}

\* A thread that neither waits nor starts to wait makes nobody wait.
LEMMA EsperaUno ==
  ASSUME IInv, NEW t \in Hilos, hilo[t].en \notin EnEspera, NEW e, e \notin EnEspera,
         Va(t, e) \/ Queda(t, e) \/ \E p, k : VaCon(t, e, p, k)
  PROVE  NadieEspera
<1>1. TiposHilo
  BY DEF IInv, TypeOK
<1>2. hilo'[t].en = e /\ \A u \in Hilos \ {t} : hilo'[u] = hilo[u]
  BY <1>1, SoloUno
<1> QED BY <1>2 DEF NadieEspera

\* The steps that neither send a request, nor take an answer, nor look at one.
Callado ==
  \/ \E t \in {"main", "largo"} \cup CPUs :
       \/ ConsultarNEW(t) \/ ConsultarSUSP(t) \/ InitAgregaNEW(t) \/ SacarDeNEW(t) \/ CreadoAReady(t)
  \/ ejecutar_planificadores
  \/ LargoDespierta \/ LargoEligeNEW \/ LargoEligeSUSP \/ DesuspendidoAReady
  \/ Corto
  \/ \E c \in CPUs : \/ Cpu(c) \/ conectar_cpu(c) \/ SysComienzoIO(c) \/ BloquearPorIO(c)
                     \/ agregar_a_cola_por_IO(c) \/ SysInitProc(c) \/ LiberarPorDump(c)
                     \/ BloquearPorDump(c) \/ buscar_proceso_por_pid(c) \/ LiberarYSalir(c)
  \/ \E d \in Ios : IO(d)
  \/ \E p \in Pids : TimerVence(p) \/ TimerSuspende(p)
  \/ UNCHANGED vars

\* Most steps neither talk to the memory nor wait for it.
LEMMA Callan ==
  ASSUME IInv, Callado
  PROVE  UNCHANGED <<memVars, respVars>> /\ NadieEspera
<1>0. TiposHilo
  BY DEF IInv, TypeOK
<1>a. ASSUME UNCHANGED hilo PROVE NadieEspera
  BY <1>a DEF NadieEspera
<1>1. ASSUME NEW t \in {"main", "largo"} \cup CPUs,
             ConsultarNEW(t) \/ ConsultarSUSP(t) \/ InitAgregaNEW(t) \/ SacarDeNEW(t) \/ CreadoAReady(t)
      PROVE  UNCHANGED <<memVars, respVars>> /\ NadieEspera
  <2>1. UNCHANGED <<memVars, respVars>> /\ hilo[t].en \notin EnEspera
    BY <1>1 DEF ConsultarNEW, ConsultarSUSP, InitAgregaNEW, SacarDeNEW, CreadoAReady, EnEspera
  <2>2. PICK e \in {"init_consulta_susp", "init_a_new", "crear_envia", "crear_agrega",
                    "crear_reinicia", Reposo(t)} : Va(t, e) \/ Queda(t, e)
    BY <1>1 DEF ConsultarNEW, ConsultarSUSP, InitAgregaNEW, SacarDeNEW, CreadoAReady
  <2>3. e \notin EnEspera /\ t \in Hilos
    BY <2>2, HilosDe DEF EnEspera, Reposo
  <2> QED BY <2>1, <2>2, <2>3, EsperaUno
<1>2. CASE ejecutar_planificadores
  <2>1. UNCHANGED <<memVars, respVars>>
    BY <1>2 DEF ejecutar_planificadores
  <2>2. /\ hilo["main"].en = "arranca" /\ hilo["largo"].en = "apagado" /\ hilo["corto"].en = "apagado"
        /\ {"main", "largo", "corto"} \subseteq Hilos
    BY <1>2, HilosDe DEF ejecutar_planificadores, IInv, Arranque
  <2>3. /\ hilo'["main"].en = "fin" /\ hilo'["largo"].en = "espera" /\ hilo'["corto"].en = "espera"
        /\ \A t \in Hilos \ {"main", "largo", "corto"} : hilo'[t] = hilo[t]
    BY <1>0, <1>2, <2>2 DEF ejecutar_planificadores, TiposHilo, Parado
  <2> QED BY <2>1, <2>2, <2>3 DEF NadieEspera, EnEspera
<1>3. CASE LargoDespierta \/ LargoEligeNEW \/ LargoEligeSUSP \/ DesuspendidoAReady
  <2>1. UNCHANGED <<memVars, respVars>> /\ hilo["largo"].en \notin EnEspera
    BY <1>3 DEF LargoDespierta, LargoEligeNEW, LargoEligeSUSP, DesuspendidoAReady, EnEspera
  <2>2. PICK e \in Etiquetas \ EnEspera :
          Va("largo", e) \/ Queda("largo", e) \/ \E p, k : VaCon("largo", e, p, k)
    BY <1>3 DEF LargoDespierta, LargoEligeNEW, LargoEligeSUSP, DesuspendidoAReady, Elige, Etiquetas,
       EnEspera
  <2> QED BY <2>1, <2>2, HilosDe, EsperaUno
<1>4. CASE Corto
  <2>1. UNCHANGED <<memVars, respVars>> /\ hilo["corto"].en \notin EnEspera
    BY <1>4 DEF Corto, CortoDespierta, enviar_a_cpu, ReadyAExec, EnEspera
  <2>2. UNCHANGED hilo \/ \E e \in Etiquetas \ EnEspera :
          Va("corto", e) \/ Queda("corto", e) \/ \E p, k : VaCon("corto", e, p, k)
    BY <1>4 DEF Corto, CortoDespierta, enviar_a_cpu, ReadyAExec, Etiquetas, EnEspera
  <2> QED BY <1>a, <2>1, <2>2, HilosDe, EsperaUno
<1>5. ASSUME NEW c \in CPUs, Cpu(c) \/ conectar_cpu(c) PROVE UNCHANGED <<memVars, respVars>> /\ NadieEspera
  <2>1. UNCHANGED <<memVars, respVars, hilo>>
    BY <1>5 DEF Cpu, CpuBloqueante, CpuInitProc, conectar_cpu
  <2> QED BY <1>a, <2>1
<1>6. ASSUME NEW c \in CPUs,
             \/ SysComienzoIO(c) \/ BloquearPorIO(c) \/ agregar_a_cola_por_IO(c) \/ SysInitProc(c)
             \/ LiberarPorDump(c) \/ BloquearPorDump(c) \/ buscar_proceso_por_pid(c) \/ LiberarYSalir(c)
      PROVE  UNCHANGED <<memVars, respVars>> /\ NadieEspera
  <2>1. UNCHANGED <<memVars, respVars>> /\ hilo[c].en \notin EnEspera
    BY <1>6 DEF SysComienzoIO, BloquearPorIO, agregar_a_cola_por_IO, SysInitProc, LiberarPorDump,
       BloquearPorDump, buscar_proceso_por_pid, Busca, LiberarYSalir, Recibe, EnEspera
  <2>2. PICK e \in Etiquetas \ EnEspera :
          Va(c, e) \/ Queda(c, e) \/ \E p, k : VaCon(c, e, p, k)
    <3>1. ASSUME buscar_proceso_por_pid(c)
          PROVE  \E e \in Etiquetas \ EnEspera : Va(c, e) \/ Queda(c, e)
      BY <3>1 DEF buscar_proceso_por_pid, Busca, Etiquetas, EnEspera
    <3> QED BY <1>6, <3>1 DEF SysComienzoIO, BloquearPorIO, agregar_a_cola_por_IO, SysInitProc,
             LiberarPorDump, BloquearPorDump, LiberarYSalir, init_proc_pid, Etiquetas, EnEspera
  <2> QED BY <2>1, <2>2, HilosDe, EsperaUno
<1>7. ASSUME NEW d \in Ios, IO(d) PROVE UNCHANGED <<memVars, respVars>> /\ NadieEspera
  <2>1. UNCHANGED <<memVars, respVars>> /\ (UNCHANGED hilo \/ hilo[d].en \notin EnEspera)
    BY <1>7 DEF IO, atender_cola_espera, FinIO, FinIOSusp, EnEspera
  <2>2. UNCHANGED hilo \/ \E e \in Etiquetas \ EnEspera :
          Va(d, e) \/ Queda(d, e) \/ \E p, k : VaCon(d, e, p, k)
    BY <1>7 DEF IO, atender_cola_espera, FinIO, FinIOSusp, Etiquetas, EnEspera
  <2> QED BY <1>a, <2>1, <2>2, HilosDe, EsperaUno
<1>8. ASSUME NEW p \in Pids, TimerVence(p) \/ TimerSuspende(p)
      PROVE  UNCHANGED <<memVars, respVars>> /\ NadieEspera
  BY <1>a, <1>8 DEF TimerVence, TimerSuspende
<1>9. CASE UNCHANGED vars
  BY <1>a, <1>9 DEF vars
<1> QED BY <1>1, <1>2, <1>3, <1>4, <1>5, <1>6, <1>7, <1>8, <1>9 DEF Callado

\* What the memory answers, kind by kind; that the process to be resumed is in the file
\* makes the answer to DESUSPENDER one.
LEMMA Contesta ==
  ASSUME TypeOK, Memoria, NEW op \in Pedidos,
         op = "DESUSPENDER" /\ Head(aMemoria).op = op =>
           \A p : p = Head(aMemoria).p /\ residencia[p].lista /\ Entra(p) =>
                     residencia[p].swap # 0 /\ Tamanio[p] # 0
  PROVE  /\ aMemoria # <<>> /\ aMemoria' = Tail(aMemoria) /\ Head(aMemoria) \in Peticiones
         /\ \/ /\ Head(aMemoria).op # op
               /\ \E r \in Seq(Respuestas) : /\ deMemoria' = deMemoria \o r
                                             /\ \A x \in Range(r) : x.op # op
            \/ /\ Head(aMemoria).op = op
               /\ \E x \in Respuestas : /\ deMemoria' = Append(deMemoria, x)
                                        /\ x.op = op /\ x.p = Head(aMemoria).p
                                        /\ Atencion(op, x.p).r = <<x>>
<1>1. PICK h, r : h = Head(aMemoria) /\ r = Atencion(h.op, h.p).r
  OBVIOUS
<1>2. /\ aMemoria # <<>> /\ aMemoria' = Tail(aMemoria) /\ aMemoria \in Seq(Peticiones)
      /\ deMemoria \in Seq(Respuestas)
      /\ deMemoria' = deMemoria \o r \/ (h.op = "DUMP" /\ deMemoria' = deMemoria)
  BY <1>1 DEF Memoria, TypeOK, TiposMem
<1>3. h \in Peticiones
  BY <1>1, <1>2, UnoMenos
<1>4. r \in Seq(Respuestas)
  BY <1>1, <1>3, AtencionTipo DEF TypeOK
<1>5. /\ <<>> \in Seq(Respuestas) /\ Range(<<>>) = {}
  BY EmptySeq DEF Range
<1>6. \A x \in Range(r) : x.op = h.op
  <2>1. \A o, ok : Resp(o, h.p, ok).op = o
    BY DEF Resp
  <2>2. ASSUME NEW x \in Range(r), NEW a, NEW b, r = <<a>> \/ r = <<a, b>> \/ r = <<>>,
               a.op = h.op, b.op = h.op
        PROVE  x.op = h.op
    BY <2>2 DEF Range
  <2>3. \E a, b : (r = <<a>> \/ r = <<a, b>> \/ r = <<>>) /\ a.op = h.op /\ b.op = h.op
    <3>1. /\ h.op \in {"CREAR", "SUSPENDER", "DESUSPENDER", "FINALIZAR", "DUMP"}
      BY <1>3 DEF Peticiones
    <3> DEFINE F == Resp(h.op, h.p, FALSE)
               V == Resp(h.op, h.p, TRUE)
    <3>2. F.op = h.op /\ V.op = h.op
      BY <2>1
    <3>3. Resp(h.op, h.p, residencia[h.p].lista).op = h.op
      BY <2>1
    <3>4. CASE h.op = "FINALIZAR"
      BY <1>1, <3>3, <3>4 DEF Atencion
    <3>5. CASE h.op # "FINALIZAR"
      <4>1. r = <<F>> \/ r = <<V>> \/ r = <<F, V>> \/ r = <<>>
        BY <1>1, <3>1, <3>5 DEF Atencion
      <4> QED BY <3>2, <4>1
    <3> QED BY <3>4, <3>5
  <2> QED BY <2>2, <2>3
<1>7. CASE h.op # op
  <2>1. deMemoria' = deMemoria => deMemoria' = deMemoria \o <<>>
    BY <1>2, ConcatEmptySeq
  <2>2. \E s \in Seq(Respuestas) : deMemoria' = deMemoria \o s /\ \A x \in Range(s) : x.op # op
    <3>1. \A x \in Range(r) : x.op # op
      BY <1>6, <1>7
    <3>2. \A x \in Range(<<>>) : x.op # op
      BY <1>5
    <3>3. deMemoria' = deMemoria \o r \/ deMemoria' = deMemoria \o <<>>
      BY <1>2, <2>1
    <3> QED BY <1>4, <1>5, <3>1, <3>2, <3>3
  <2> QED BY <1>1, <1>2, <1>3, <1>7, <2>2
<1>8. CASE h.op = op
  <2>1. deMemoria' = deMemoria \o r
    BY <1>2, <1>8 DEF Pedidos
  <2>a. op = "CREAR" => \E ok : r = <<Resp(op, h.p, ok)>>
    BY <1>1, <1>8 DEF Atencion
  <2>b. op = "DESUSPENDER" => \E ok : r = <<Resp(op, h.p, ok)>>
    BY <1>1, <1>8 DEF Atencion
  <2>c. op = "FINALIZAR" => \E ok : r = <<Resp(op, h.p, ok)>>
    BY <1>1, <1>8 DEF Atencion
  <2>2. PICK ok : r = <<Resp(op, h.p, ok)>>
    BY <2>a, <2>b, <2>c DEF Pedidos
  <2>3. PICK x : x = Resp(op, h.p, ok) /\ r = <<x>>
    BY <2>2
  <2>4. x \in Range(r) /\ Range(r) \subseteq Respuestas
    <3>1. r[1] = x /\ 1 \in DOMAIN r
      BY <2>3
    <3>2. r[1] \in Range(r)
      BY <3>1 DEF Range
    <3> QED BY <1>4, <3>1, <3>2, LenProperties, ElementOfSeq DEF Range
  <2>5. x \in Respuestas /\ x.op = op
    BY <1>6, <1>8, <2>4
  <2>6. x.p = h.p
    BY <2>3 DEF Resp
  <2>7. deMemoria' = Append(deMemoria, x)
    BY <1>2, <2>1, <2>3, <2>5
  <2> QED BY <1>1, <1>2, <1>3, <1>8, <2>3, <2>5, <2>6, <2>7
<1> QED BY <1>7, <1>8, <1>1, <1>2, <1>3

-----------------------------------------------------------------------------
(* A process that asked to end will not block again.                        *)

\* Its system call was the last: no CPU runs it, none has a call of it on its way, and no
\* handler is to block it.
SinDueno(p) ==
  \A c \in CPUs : /\ cpu[c].p # p
                  /\ \A i \in 1..Len(deCpu[c]) :
                       deCpu[c][i].op # "INIT_PROC" => deCpu[c][i].p # p
                  /\ hilo[c].en \in PorBloquear \cup {"dump_libera"} => hilo[c].p # p

Terminal(p) ==
  /\ Despachado(p) \/ Saliendo(p) \/ p \in lista["EXIT"]
  /\ SinDueno(p)

\* EXIT is never read; who is filed there was in the hand of EXIT_PID.
LEMMA SalidaCrece ==
  ASSUME IInv, [Next]_vars
  PROVE  /\ lista["EXIT"] \subseteq lista'["EXIT"]
         /\ \A p \in lista'["EXIT"] : p \in lista["EXIT"] \/ Saliendo(p)
<1> DEFINE Crece == /\ lista["EXIT"] \subseteq lista'["EXIT"]
                   /\ \A p \in lista'["EXIT"] : p \in lista["EXIT"] \/ Saliendo(p)
<1>0. TypeOK /\ lista \in [Grupos -> SUBSET Pids] /\ "EXIT" \in Grupos
  BY DEF IInv, TypeOK, TiposPlan, Grupos
<1>a. UNCHANGED lista => Crece
  OBVIOUS
<1>1. ASSUME NEW t \in {"main", "largo"} \cup CPUs, Creacion(t) PROVE Crece
  <2>1. UNCHANGED lista
    BY <1>1 DEF Creacion, ConsultarNEW, ConsultarSUSP, InitAgregaNEW, EnviarCrear, RespuestaCrear,
       SacarDeNEW, CreadoAReady, ReiniciarCrear, planVars
  <2> QED BY <2>1
<1>2. CASE ejecutar_planificadores \/ Largo \/ Memoria \/ UNCHANGED vars
  <2>1. UNCHANGED lista
    BY <1>2 DEF ejecutar_planificadores, Largo, LargoDespierta, LargoEligeNEW, LargoEligeSUSP,
       EnviarDesuspender, RespuestaDesuspender, DesuspendidoAReady, ReiniciarDesuspender, Memoria,
       planVars, vars
  <2> QED BY <2>1
<1>3. CASE Corto
  BY <1>0, <1>3 DEF Corto, CortoDespierta, enviar_a_cpu, ReadyAExec, planVars
<1>4. ASSUME NEW c \in CPUs, Cpu(c) \/ conectar_cpu(c) PROVE Crece
  BY <1>4 DEF Cpu, CpuBloqueante, CpuInitProc, conectar_cpu, planVars
<1>5. ASSUME NEW c \in CPUs, Dispatch(c) PROVE Crece
  <2>1. CASE BloquearPorIO(c) \/ BloquearPorDump(c)
    BY <1>0, <2>1 DEF BloquearPorIO, BloquearPorDump, exec_a_blocked, Mueve, Grupos
  <2>2. CASE buscar_proceso_por_pid(c)
    BY <1>0, <2>2 DEF buscar_proceso_por_pid, Busca, Grupos
  <2>3. CASE LiberarYSalir(c)
    BY <1>0, <2>3 DEF LiberarYSalir, agregar_a_EXIT, Saliendo
  <2>4. CASE ~(BloquearPorIO(c) \/ BloquearPorDump(c) \/ buscar_proceso_por_pid(c) \/ LiberarYSalir(c))
    <3>1. UNCHANGED lista
      BY <1>5, <2>4 DEF Dispatch, SysComienzoIO, agregar_a_cola_por_IO, SysInitProc, SysDumpMemory,
         LiberarPorDump, SysExit, RespuestaFinalizar, ReiniciarFinalizar, planVars
    <3> QED BY <3>1
  <2> QED BY <2>1, <2>2, <2>3, <2>4
<1>6. ASSUME NEW d \in Ios, IO(d) PROVE Crece
  BY <1>0, <1>6 DEF IO, atender_cola_espera, FinIO, FinIOSusp, planVars, DesdeBLOCKED,
     DesdeSUSP_BLOCKED, Grupos
<1>7. ASSUME NEW p \in Pids, Timer(p) PROVE Crece
  BY <1>0, <1>7 DEF Timer, TimerVence, TimerSuspende, TimerAvisa, Mueve, Grupos
<1>8. CASE RespuestasMemoria
  BY <1>0, <1>8 DEF RespuestasMemoria, RespuestaPedido, RespuestaDump, RespuestaDumpSusp,
     RespuestaDesconocida, planVars, DesdeBLOCKED, DesdeSUSP_BLOCKED, Grupos
<1> QED BY <1>1, <1>2, <1>3, <1>4, <1>5, <1>6, <1>7, <1>8 DEF Next

\* Such a process is in none of the lists of those that wait.
LEMMA TerminalLugar ==
  ASSUME IInv, NEW p \in Pids, Terminal(p)
  PROVE  /\ \A g \in {"BLOCKED", "TIMER", "SUSP_BLOCKED"} : p \notin lista[g]
         /\ \A q \in {"NEW", "SUSP_READY"} : p \notin Range(cola[q])
         /\ \A t \in Hilos : hilo[t].p = p => hilo[t].en \notin EnMano(t) \ {"exit_libera"}
<1>0. {"EXEC", "EXIT", "READY"} \cap CPUs = {}
  BY HechosCpu, Disjuntos DEF Grupos, Estados
<1>1. UnSoloLugar /\ PunteroVigente
  BY DEF IInv
<1>2. PICK x \in {"EXEC", "EXIT", "READY"} \cup CPUs :
        /\ En(x, p)
        /\ x \in CPUs => hilo[x].en = "exit_libera"
  <2>1. CASE p \in lista["EXEC"]
    BY <1>0, <2>1, EnPartes DEF Grupos
  <2>2. CASE p \in lista["EXIT"]
    BY <1>0, <2>2, EnPartes DEF Grupos
  <2>3. CASE hilo["corto"].en = "a_exec" /\ hilo["corto"].p = p
    BY <1>0, <1>1, <2>3, EnPartes DEF PunteroVigente, Estados
  <2>4. CASE Saliendo(p)
    BY <2>4, EnPartes, HechosCpu DEF Saliendo, EnMano
  <2> QED BY <2>1, <2>2, <2>3, <2>4 DEF Terminal, Despachado
<1>3. x \in Lugar
  BY <1>2, HechosCpu DEF Lugar, Grupos, Estados
<1>4. \A y \in Lugar : y # x => ~En(y, p)
  BY <1>1, <1>2, <1>3, Unicidad
<1>5. x \in Estados \cup Grupos => x \in {"EXEC", "EXIT", "READY"}
  BY <1>2, HechosCpu, Disjuntos
<1>6. ASSUME NEW g \in {"BLOCKED", "TIMER", "SUSP_BLOCKED"} PROVE p \notin lista[g]
  <2>1. g \in Grupos /\ g \in Lugar /\ g # x
    BY <1>5, <1>6 DEF Grupos, Lugar
  <2> QED BY <1>4, <2>1, EnPartes
<1>7. ASSUME NEW q \in {"NEW", "SUSP_READY"} PROVE p \notin Range(cola[q])
  <2>1. q \in Estados /\ q \in Lugar /\ q # x
    BY <1>5, <1>7 DEF Estados, Lugar
  <2> QED BY <1>4, <2>1, EnPartes
<1>8. ASSUME NEW t \in Hilos, hilo[t].p = p, hilo[t].en \in EnMano(t) \ {"exit_libera"} PROVE FALSE
  <2>1. En(t, p) /\ t \in Lugar
    BY <1>8, EnPartes DEF Lugar
  <2>2. t = x
    BY <1>4, <2>1
  <2>3. x \in CPUs
    BY <1>2, <1>8, <2>2, Disjuntos DEF Grupos, Estados
  <2> QED BY <1>2, <1>8, <2>2, <2>3
<1> QED BY <1>6, <1>7, <1>8

\* A CPU sends one message, about the process it runs.
LEMMA LlamaUna ==
  ASSUME IInv, [Next]_vars, NEW c \in CPUs, Cpu(c)
  PROVE  \E m \in Llamadas :
           /\ deCpu' = [deCpu EXCEPT ![c] = Append(@, m)] /\ m.p = cpu[c].p
           /\ UNCHANGED <<hilo, lista>>
           /\ cpu'[c].p \in {cpu[c].p, Nadie}
           /\ \A d \in CPUs \ {c} : cpu'[d] = cpu[d]
<1>0. TiposCPU
  BY DEF IInv, TypeOK
<1>1. \A op, k : [op |-> op, p |-> cpu[c].p, pc |-> k].p = cpu[c].p
  OBVIOUS
<1>2. PICK op, k : Llama(c, op, k)
  BY DEF Cpu, CpuBloqueante, CpuInitProc
<1>3. deCpu' \in [CPUs -> Seq(Llamadas)]
  BY TipoPaso DEF TypeOK, TiposCPU, Next, IInv
<1>4. deCpu \in [CPUs -> Seq(Llamadas)] /\ cpu \in [CPUs -> [p : PidONadie, pc : Pc]]
  BY <1>0 DEF TiposCPU
<1>5. PICK m : m = [op |-> op, p |-> cpu[c].p, pc |-> k]
  OBVIOUS
<1>6. deCpu' = [deCpu EXCEPT ![c] = Append(@, m)] /\ m.p = cpu[c].p
  BY <1>2, <1>5 DEF Llama
<1>7. m \in Llamadas
  <2>1. deCpu'[c] = Append(deCpu[c], m) /\ deCpu'[c] \in Seq(Llamadas) /\ deCpu[c] \in Seq(Llamadas)
    BY <1>3, <1>4, <1>6
  <2>2. Len(Append(deCpu[c], m)) = Len(deCpu[c]) + 1 /\ Append(deCpu[c], m)[Len(deCpu[c]) + 1] = m
    BY <2>1, AppendProperties
  <2>3. Len(deCpu[c]) \in Nat
    BY <2>1, LenProperties
  <2>4. Len(deCpu[c]) + 1 \in 1..Len(deCpu'[c])
    BY <2>1, <2>2, <2>3
  <2>5. deCpu'[c][Len(deCpu[c]) + 1] \in Llamadas
    BY <2>1, <2>4, ElementOfSeq
  <2> QED BY <2>1, <2>2, <2>5
<1>8. UNCHANGED <<hilo, lista>> /\ cpu'[c].p \in {cpu[c].p, Nadie}
      /\ \A d \in CPUs \ {c} : cpu'[d] = cpu[d]
  BY <1>4 DEF Cpu, CpuBloqueante, CpuInitProc, planVars
<1> QED BY <1>6, <1>7, <1>8

\* A process gets to a CPU only from the hand of the short term planner; what it calls,
\* the handlers carry on.
LEMMA SinDuenoQueda ==
  ASSUME IInv, CpuInv, [Next]_vars, NEW p \in Pids, SinDueno(p),
         enviar_a_cpu => hilo["corto"].p # p
  PROVE  SinDueno(p)'
<1> DEFINE Malas == PorBloquear \cup {"dump_libera"}
<1>0. /\ TypeOK /\ TiposHilo /\ TiposPlan /\ TiposCPU /\ Nadie \notin Pids
      /\ \A c \in CPUs : c \in Hilos /\ c # "corto"
      /\ "corto" \in Hilos
  BY HechosCpu DEF IInv
<1>a. ASSUME UNCHANGED <<cpu, deCpu>>,
             NEW c \in CPUs, \A d \in CPUs \ {c} : hilo'[d] = hilo[d],
             hilo'[c].en \in Malas => hilo[c].en \in Malas /\ hilo'[c].p = hilo[c].p
      PROVE  SinDueno(p)'
  BY <1>a DEF SinDueno
<1>1. CASE Ajeno
  <2>1. /\ UNCHANGED <<cpu, deCpu>> /\ \A c \in CPUs : Sigue(c)
    BY <1>1 DEF Ajeno
  <2>2. \A c \in CPUs : hilo'[c].en \in Malas => hilo'[c] = hilo[c]
    BY <2>1 DEF Sigue, ConCpu, PorBloquear
  <2> QED BY <2>1, <2>2 DEF SinDueno
<1>2. CASE Corto
  <2>1. /\ UNCHANGED deCpu /\ \A c \in CPUs : hilo'[c] = hilo[c]
    <3>1. UNCHANGED deCpu /\ \A t \in Hilos \ {"corto"} : hilo'[t] = hilo[t]
      BY <1>0, <1>2 DEF Corto, CortoDespierta, enviar_a_cpu, ReadyAExec, cpuVars, Va, Queda, VaCon,
         TiposHilo
    <3> QED BY <1>0, <3>1
  <2>2. \A c \in CPUs : cpu'[c].p # p
    <3>1. CASE enviar_a_cpu
      <4>1. \A c \in CPUs : cpu'[c] = cpu[c] \/ cpu'[c].p = hilo["corto"].p
        BY <1>0, <3>1 DEF enviar_a_cpu, TiposCPU
      <4> QED BY <3>1, <4>1 DEF SinDueno
    <3>2. CASE ~enviar_a_cpu
      BY <1>2, <3>2 DEF Corto, CortoDespierta, ReadyAExec, cpuVars, SinDueno
    <3> QED BY <3>1, <3>2
  <2> QED BY <2>1, <2>2 DEF SinDueno
<1>3. ASSUME NEW c \in CPUs, Cpu(c) PROVE SinDueno(p)'
  <2>1. PICK m : /\ deCpu' = [deCpu EXCEPT ![c] = Append(@, m)] /\ m.p = cpu[c].p
                 /\ UNCHANGED hilo /\ m \in Llamadas
                 /\ cpu'[c].p \in {cpu[c].p, Nadie}
                 /\ \A d \in CPUs \ {c} : cpu'[d] = cpu[d]
    BY <1>3, LlamaUna
  <2>2. deCpu \in [CPUs -> Seq(Llamadas)]
    BY <1>0 DEF TiposCPU
  <2>3. cpu[c].p # p /\ p # Nadie
    BY <1>0 DEF SinDueno
  <2>4. ASSUME NEW d \in CPUs, NEW i \in 1..Len(deCpu'[d]), deCpu'[d][i].op # "INIT_PROC"
        PROVE  deCpu'[d][i].p # p
    <3>1. CASE d = c
      <4>1. deCpu'[c] = Append(deCpu[c], m) /\ deCpu[c] \in Seq(Llamadas)
        BY <2>1, <2>2
      <4>2. /\ Len(deCpu'[c]) = Len(deCpu[c]) + 1 /\ deCpu'[c][Len(deCpu[c]) + 1] = m
            /\ \A j \in 1..Len(deCpu[c]) : deCpu'[c][j] = deCpu[c][j]
            /\ Len(deCpu[c]) \in Nat
        BY <2>1, <4>1, UnMensajeMas, LenProperties
      <4>3. i = Len(deCpu[c]) + 1 \/ i \in 1..Len(deCpu[c])
        BY <2>4, <3>1, <4>2
      <4> QED BY <2>1, <2>3, <2>4, <3>1, <4>2, <4>3 DEF SinDueno
    <3>2. CASE d # c
      <4>1. deCpu'[d] = deCpu[d]
        BY <2>1, <2>2, <3>2
      <4> QED BY <2>4, <4>1 DEF SinDueno
    <3> QED BY <3>1, <3>2
  <2> QED BY <2>1, <2>3, <2>4 DEF SinDueno
<1>4. ASSUME NEW c \in CPUs, Dispatch(c) PROVE SinDueno(p)'
  <2> DEFINE m == Head(deCpu[c])
  <2>0. c \in Hilos /\ \A d \in CPUs : d \in Hilos
    BY <1>0
  <2>a. ASSUME UNCHANGED <<cpu, deCpu>>, NEW e, Va(c, e) \/ Queda(c, e),
               e \in Malas => hilo[c].en \in Malas /\ Va(c, e)
        PROVE  SinDueno(p)'
    <3>1. /\ \A d \in CPUs \ {c} : hilo'[d] = hilo[d]
          /\ hilo'[c].en = e
          /\ Va(c, e) => hilo'[c].p = hilo[c].p
      BY <1>0, <2>0, <2>a, SoloUno
    <3> QED BY <1>a, <2>a, <3>1
  <2>b. ASSUME NEW op, Recibe(c, op), NEW e, NEW k, VaCon(c, e, m.p, k), UNCHANGED cpu,
               op # "INIT_PROC"
        PROVE  SinDueno(p)'
    <3>1. /\ m.op = op /\ m = deCpu[c][1] /\ 1 \in 1..Len(deCpu[c])
          /\ deCpu' = [deCpu EXCEPT ![c] = <<>>]
      BY <2>b, LlamadaUnica DEF CpuInv
    <3>2. m.p # p
      BY <2>b, <3>1 DEF SinDueno
    <3>3. hilo'[c].p = m.p /\ \A d \in CPUs \ {c} : hilo'[d] = hilo[d]
      <4>1. PICK q : q = m.p
        OBVIOUS
      <4>2. VaCon(c, e, q, k)
        BY <2>b, <4>1
      <4>3. hilo'[c].p = q /\ \A u \in Hilos \ {c} : hilo'[u] = hilo[u]
        BY <1>0, <2>0, <4>2, SoloUno
      <4> QED BY <1>0, <4>1, <4>3
    <3>4. deCpu'[c] = <<>> /\ \A d \in CPUs \ {c} : deCpu'[d] = deCpu[d]
      BY <1>0, <3>1 DEF TiposCPU
    <3>5. Len(<<>>) = 0
      BY EmptySeq
    <3> QED BY <2>b, <3>2, <3>3, <3>4, <3>5 DEF SinDueno
  <2>1. CASE SysComienzoIO(c) \/ SysDumpMemory(c) \/ SysExit(c)
    BY <2>1, <2>b DEF SysComienzoIO, SysDumpMemory, SysExit
  <2>2. CASE SysInitProc(c)
    <3>1. /\ hilo[c].en = "recibe" /\ deCpu[c] # <<>> /\ deCpu' = [deCpu EXCEPT ![c] = Tail(@)]
          /\ UNCHANGED cpu /\ VaCon(c, "init_consulta", siguientePid, 0)
      BY <2>2 DEF SysInitProc, Recibe, init_proc_pid
    <3>2. hilo'[c].en = "init_consulta" /\ \A d \in CPUs \ {c} : hilo'[d] = hilo[d]
      BY <1>0, <2>0, <3>1, SoloUno
    <3>3. deCpu[c] \in Seq(Llamadas) /\ deCpu \in [CPUs -> Seq(Llamadas)]
      BY <1>0 DEF TiposCPU
    <3>4. /\ Len(deCpu[c]) \in Nat \ {0}
          /\ Len(deCpu'[c]) = Len(deCpu[c]) - 1
          /\ \A i \in 1..(Len(deCpu[c]) - 1) : deCpu'[c][i] = deCpu[c][i + 1]
          /\ \A d \in CPUs \ {c} : deCpu'[d] = deCpu[d]
      BY <3>1, <3>3, UnMensajeMenos
    <3>5. ASSUME NEW i \in 1..Len(deCpu'[c]), deCpu'[c][i].op # "INIT_PROC"
          PROVE  deCpu'[c][i].p # p
      <4>1. i + 1 \in 1..Len(deCpu[c]) /\ deCpu'[c][i] = deCpu[c][i + 1]
        BY <3>4
      <4> QED BY <3>5, <4>1 DEF SinDueno
    <3>6. hilo'[c].en \notin Malas
      BY <3>2 DEF PorBloquear
    <3>7. \A d \in CPUs : \A i \in 1..Len(deCpu'[d]) : deCpu'[d][i].op # "INIT_PROC" => deCpu'[d][i].p # p
      BY <3>4, <3>5 DEF SinDueno
    <3> QED BY <3>1, <3>2, <3>6, <3>7 DEF SinDueno
  <2>3. CASE LiberarPorDump(c)
    <3>1. UNCHANGED <<cpu, deCpu>> /\ hilo[c].en = "dump_libera" /\ Va(c, "dump_bloquea")
      BY <2>3 DEF LiberarPorDump, cpuVars
    <3> QED BY <2>a, <3>1
  <2>4. CASE ~(\/ SysComienzoIO(c) \/ SysDumpMemory(c) \/ SysExit(c) \/ SysInitProc(c) \/ LiberarPorDump(c)
               \/ buscar_proceso_por_pid(c))
    <3>1. UNCHANGED <<cpu, deCpu>>
      BY <1>4, <2>4 DEF Dispatch, BloquearPorIO, agregar_a_cola_por_IO, BloquearPorDump,
         RespuestaFinalizar, LiberarYSalir, ReiniciarFinalizar, cpuVars
    <3>2. PICK e \in Etiquetas \ Malas : Va(c, e) \/ Queda(c, e)
      BY <1>4, <2>4 DEF Dispatch, BloquearPorIO, agregar_a_cola_por_IO, BloquearPorDump,
         RespuestaFinalizar, LiberarYSalir, ReiniciarFinalizar, Etiquetas, PorBloquear
    <3> QED BY <2>a, <3>1, <3>2
  <2>5. CASE buscar_proceso_por_pid(c)
    <3>1. UNCHANGED <<cpu, deCpu>>
      BY <2>5 DEF buscar_proceso_por_pid, cpuVars
    <3>2. PICK e \in Etiquetas \ Malas : Va(c, e) \/ Queda(c, e)
      BY <2>5 DEF buscar_proceso_por_pid, Busca, Etiquetas, PorBloquear
    <3> QED BY <2>a, <3>1, <3>2
  <2> QED BY <2>1, <2>2, <2>3, <2>4, <2>5
<1>5. CASE ~\E c \in CPUs : Dispatch(c) \/ Cpu(c)
  <2>1. CASE ~Corto
    <3>1. \/ \E t \in {"main", "largo"} \cup CPUs : Creacion(t)
          \/ ejecutar_planificadores \/ Largo
          \/ \E d \in Ios : IO(d)
          \/ \E q \in Pids : Timer(q)
          \/ Memoria \/ RespuestasMemoria \/ UNCHANGED vars
          \/ \E c \in CPUs : conectar_cpu(c)
      BY <1>5, <2>1 DEF Next
    <3>2. Ajeno
      BY <3>1, OtrosAjenos
    <3> QED BY <1>1, <3>2
  <2> QED BY <1>2, <2>1
<1> QED BY <1>3, <1>4, <1>5

\* Nobody takes it up again.
LEMMA TerminalQueda ==
  ASSUME IInv, CpuInv, [Next]_vars, NEW p \in Pids, Terminal(p)
  PROVE  Terminal(p)'
<1> DEFINE Sale == Despachado(p) \/ Saliendo(p) \/ p \in lista["EXIT"]
<1>0. /\ TypeOK /\ TiposHilo /\ TiposPlan /\ PunteroVigente /\ UnSoloLugar
      /\ \A c \in CPUs : c \in Hilos /\ c # "corto"
      /\ "corto" \in Hilos /\ SinDueno(p) /\ Sale
  BY HechosCpu DEF IInv, Terminal
<1>e. lista["EXIT"] \subseteq lista'["EXIT"]
  BY SalidaCrece
<1>1. enviar_a_cpu => hilo["corto"].p # p
  <2> SUFFICES ASSUME hilo["corto"].en = "busca_cpu", hilo["corto"].p = p PROVE FALSE
    BY DEF enviar_a_cpu
  <2>1. p \in Range(cola["READY"]) /\ "READY" \in Estados
    BY <1>0 DEF PunteroVigente, Estados
  <2>2. En("READY", p) /\ "READY" \in Lugar
    BY <2>1, EnPartes DEF Lugar
  <2>3. \A y \in Lugar : y # "READY" => ~En(y, p)
    BY <1>0, <2>2, Unicidad
  <2>4. p \notin lista["EXEC"] /\ p \notin lista["EXIT"]
    BY <2>3, EnPartes, Disjuntos DEF Lugar, Grupos, Estados
  <2>5. ~Saliendo(p)
    <3> SUFFICES ASSUME NEW c \in CPUs, hilo[c].en = "exit_libera", hilo[c].p = p PROVE FALSE
      BY DEF Saliendo
    <3>1. En(c, p) /\ c \in Lugar /\ c # "READY"
      BY <1>0, <2>1, EnPartes, Disjuntos DEF Lugar, EnMano
    <3> QED BY <2>3, <3>1
  <2> QED BY <1>0, <2>4, <2>5 DEF Despachado
<1>2. SinDueno(p)'
  BY <1>0, <1>1, SinDuenoQueda
<1>a. ASSUME p \in lista["EXEC"] => p \in lista'["EXEC"], hilo'["corto"] = hilo["corto"],
             \A c \in CPUs : hilo[c].en = "exit_libera" => hilo'[c] = hilo[c]
      PROVE  Sale'
  <2>1. Despachado(p) => Despachado(p)'
    BY <1>a DEF Despachado
  <2>2. Saliendo(p) => Saliendo(p)'
    BY <1>a DEF Saliendo
  <2> QED BY <1>0, <1>e, <2>1, <2>2
<1>3. ASSUME Ajeno PROVE Sale'
  <2>1. \A c \in CPUs : hilo[c].en = "exit_libera" => hilo'[c] = hilo[c]
    BY <1>3 DEF Ajeno, Sigue
  <2>2. Despachado(p) => Despachado(p)'
    BY <1>3 DEF Ajeno, Despachado
  <2>3. Saliendo(p) => Saliendo(p)'
    BY <2>1 DEF Saliendo
  <2> QED BY <1>0, <1>e, <2>2, <2>3
<1>4. ASSUME Corto PROVE Sale'
  <2>1. \A c \in CPUs : hilo'[c] = hilo[c]
    BY <1>0, <1>4 DEF Corto, CortoDespierta, enviar_a_cpu, ReadyAExec, Va, Queda, VaCon, TiposHilo
  <2>4. Saliendo(p) => Saliendo(p)'
    BY <2>1 DEF Saliendo
  <2>2. CASE ReadyAExec
    <3>1. lista'["EXEC"] = lista["EXEC"] \cup {hilo["corto"].p}
      BY <1>0, <2>2 DEF ReadyAExec, TiposPlan, Grupos
    <3>2. Despachado(p) => Despachado(p)'
      BY <2>2, <3>1 DEF Despachado, ReadyAExec
    <3> QED BY <1>0, <1>e, <2>4, <3>2
  <2>3. CASE ~ReadyAExec
    <3>1. UNCHANGED lista /\ hilo["corto"].en # "a_exec"
      BY <1>4, <2>3 DEF Corto, CortoDespierta, enviar_a_cpu, planVars
    <3>2. Despachado(p) => Despachado(p)'
      BY <3>1 DEF Despachado
    <3> QED BY <1>0, <1>e, <2>4, <3>2
  <2> QED BY <2>2, <2>3
<1>5. ASSUME NEW c \in CPUs, Cpu(c) PROVE Sale'
  BY <1>0, <1>5, <1>a, LlamaUna
<1>6. ASSUME NEW c \in CPUs, Dispatch(c) PROVE Sale'
  <2>1. CASE buscar_proceso_por_pid(c)
    <3>1. PICK g \in {"EXEC", "BLOCKED", "SUSP_BLOCKED"} :
            /\ hilo[c].en # "exit_libera"
            /\ \/ /\ lista' = [lista EXCEPT ![g] = @ \ {hilo[c].p}] /\ Va(c, "exit_libera")
               \/ /\ lista' = lista
                  /\ Va(c, "busca_BLOCKED") \/ Va(c, "busca_SUSP") \/ Queda(c, "recibe")
      BY <2>1 DEF buscar_proceso_por_pid, Busca
    <3>2. hilo'["corto"] = hilo["corto"] /\ \A d \in CPUs \ {c} : hilo'[d] = hilo[d]
      BY <1>0, <3>1, SoloUno
    <3>3. CASE hilo'[c].en = "exit_libera" /\ hilo'[c].p = p
      BY <3>3 DEF Saliendo
    <3>4. CASE ~(hilo'[c].en = "exit_libera" /\ hilo'[c].p = p)
      <4>1. p \in lista["EXEC"] => p \in lista'["EXEC"]
        BY <1>0, <3>1, <3>4, SoloUno DEF TiposPlan, Grupos
      <4> QED BY <1>a, <3>1, <3>2, <4>1
    <3> QED BY <3>3, <3>4
  <2>2. CASE LiberarYSalir(c)
    <3>1. /\ lista' = [lista EXCEPT !["EXIT"] = @ \cup {hilo[c].p}]
          /\ hilo'["corto"] = hilo["corto"] /\ \A d \in CPUs \ {c} : hilo'[d] = hilo[d]
      BY <1>0, <2>2, SoloUno DEF LiberarYSalir, agregar_a_EXIT
    <3>2. lista'["EXEC"] = lista["EXEC"] /\ lista'["EXIT"] = lista["EXIT"] \cup {hilo[c].p}
      BY <1>0, <3>1 DEF TiposPlan, Grupos
    <3> QED BY <1>0, <3>1, <3>2 DEF Despachado, Saliendo
  <2>3. CASE BloquearPorIO(c) \/ BloquearPorDump(c)
    <3>1. /\ hilo[c].en \in PorBloquear
          /\ exec_a_blocked(hilo[c].p, hilo[c].pc)
          /\ Va(c, "io_encola") \/ Queda(c, "recibe")
      BY <2>3 DEF BloquearPorIO, BloquearPorDump, PorBloquear
    <3>2. hilo[c].p # p
      BY <1>0, <3>1 DEF SinDueno
    <3>3. p \in lista["EXEC"] => p \in lista'["EXEC"]
      BY <1>0, <3>1, <3>2 DEF exec_a_blocked, Mueve, TiposPlan, Grupos
    <3>4. hilo'["corto"] = hilo["corto"] /\ \A d \in CPUs \ {c} : hilo'[d] = hilo[d]
      BY <1>0, <3>1, SoloUno
    <3> QED BY <1>a, <3>1, <3>3, <3>4 DEF PorBloquear
  <2>4. CASE ~(buscar_proceso_por_pid(c) \/ LiberarYSalir(c) \/ BloquearPorIO(c) \/ BloquearPorDump(c))
    <3>1. UNCHANGED lista /\ hilo[c].en # "exit_libera"
      BY <1>6, <2>4 DEF Dispatch, SysComienzoIO, agregar_a_cola_por_IO, SysInitProc, SysDumpMemory,
         LiberarPorDump, SysExit, RespuestaFinalizar, ReiniciarFinalizar, Recibe, planVars
    <3>2. \E e : Va(c, e) \/ Queda(c, e) \/ \E q, k : VaCon(c, e, q, k)
      BY <1>6, <2>4 DEF Dispatch, SysComienzoIO, agregar_a_cola_por_IO, SysInitProc, init_proc_pid,
         SysDumpMemory, LiberarPorDump, SysExit, RespuestaFinalizar, ReiniciarFinalizar
    <3>3. hilo'["corto"] = hilo["corto"] /\ \A d \in CPUs \ {c} : hilo'[d] = hilo[d]
      BY <1>0, <3>2, SoloUno
    <3> QED BY <1>a, <3>1, <3>3
  <2> QED BY <2>1, <2>2, <2>3, <2>4
<1>7. Sale'
  <2>1. CASE ~Corto /\ ~\E c \in CPUs : Dispatch(c) \/ Cpu(c)
    <3>1. \/ \E t \in {"main", "largo"} \cup CPUs : Creacion(t)
          \/ ejecutar_planificadores \/ Largo
          \/ \E d \in Ios : IO(d)
          \/ \E q \in Pids : Timer(q)
          \/ Memoria \/ RespuestasMemoria \/ UNCHANGED vars
          \/ \E c \in CPUs : conectar_cpu(c)
      BY <2>1 DEF Next
    <3>2. Ajeno
      BY <3>1, OtrosAjenos
    <3> QED BY <1>3, <3>2
  <2> QED BY <1>4, <1>5, <1>6, <2>1
<1> QED BY <1>2, <1>7 DEF Terminal

\* The one that just asked to end.
LEMMA TerminalNace ==
  ASSUME IInv, CpuInv, NEW c \in CPUs, SysExit(c)
  PROVE  \A q : q = Head(deCpu[c]).p => q \in Pids /\ Terminal(q)'
<1>0. /\ TypeOK /\ TiposHilo /\ TiposPlan /\ TiposCPU /\ Nadie \notin Pids
      /\ \A d \in CPUs : d \in Hilos /\ d # "corto"
      /\ "corto" \in Hilos
  BY HechosCpu DEF IInv
<1>1. PICK m, op : m = Head(deCpu[c]) /\ op # "INIT_PROC" /\ Recibe(c, op)
                   /\ VaCon(c, "exit_espera", m.p, m.pc) /\ UNCHANGED <<lista, cpu>>
  BY DEF SysExit, planVars
<1>2. /\ m.p \in Pids /\ running[c] = m.p /\ cpu[c].p = Nadie /\ hilo[c].en = "recibe"
      /\ deCpu' = [deCpu EXCEPT ![c] = <<>>]
  BY <1>1, LlamadaUnica DEF CpuInv
<1>3. PICK p \in Pids : p = m.p
  BY <1>2
<1>4. Despachado(p) \/ Saliendo(p)
  BY <1>2, <1>3 DEF CpuInv, MarcaConsistente
<1>5. /\ hilo'["corto"] = hilo["corto"] /\ \A d \in CPUs \ {c} : hilo'[d] = hilo[d]
      /\ hilo'[c].en = "exit_espera"
  BY <1>0, <1>1, SoloUno
<1>6. Despachado(p)' \/ Saliendo(p)'
  BY <1>1, <1>2, <1>4, <1>5 DEF Despachado, Saliendo
<1>7. \A d \in CPUs : running[d] = p => d = c
  BY <1>0, <1>2, <1>3 DEF CpuInv, MarcaConsistente
<1>8. deCpu'[c] = <<>> /\ \A d \in CPUs \ {c} : deCpu'[d] = deCpu[d]
  BY <1>0, <1>2 DEF TiposCPU
<1>9. ASSUME NEW d \in CPUs
      PROVE  /\ cpu'[d].p # p
             /\ \A i \in 1..Len(deCpu'[d]) : deCpu'[d][i].op # "INIT_PROC" => deCpu'[d][i].p # p
             /\ hilo'[d].en \in PorBloquear \cup {"dump_libera"} => hilo'[d].p # p
  <2>1. CASE d = c
    <3>1. Len(<<>>) = 0
      BY EmptySeq
    <3> QED BY <1>0, <1>1, <1>2, <1>5, <1>8, <2>1, <3>1 DEF PorBloquear
  <2>2. CASE d # c
    <3>1. running[d] # p /\ deCpu'[d] = deCpu[d] /\ hilo'[d] = hilo[d] /\ cpu'[d] = cpu[d]
      BY <1>1, <1>5, <1>7, <1>8, <2>2
    <3>2. cpu[d].p # p
      BY <1>0, <3>1 DEF CpuInv, CpuConsistente
    <3>3. \A i \in 1..Len(deCpu[d]) : deCpu[d][i].op # "INIT_PROC" => deCpu[d][i].p # p
      BY <3>1 DEF CpuInv, CpuConsistente
    <3>4. hilo[d].en = "dump_libera" => hilo[d].p # p
      BY <3>1 DEF CpuInv, CpuConsistente, ConCpu
    <3>5. hilo[d].en \in PorBloquear => hilo[d].p # p
      BY <1>2, <1>3 DEF CpuInv, BloqueoConsistente
    <3> QED BY <3>1, <3>2, <3>3, <3>4, <3>5
  <2> QED BY <2>1, <2>2
<1>10. Terminal(p)'
  BY <1>6, <1>9 DEF Terminal, SinDueno
<1>11. Head(deCpu[c]).p = p
  BY <1>1, <1>3
<1>12. ASSUME NEW q, q = p PROVE Terminal(q)'
  BY <1>10, <1>12
<1> QED BY <1>11, <1>12

\* The kinds of step, by what they do in the sockets of the memory.
LEMMA Clases ==
  ASSUME [Next]_vars
  PROVE  \/ Callado
         \/ \E t \in {"main", "largo"} \cup CPUs :
              EnviarCrear(t) \/ RespuestaCrear(t) \/ ReiniciarCrear(t)
         \/ EnviarDesuspender \/ RespuestaDesuspender \/ ReiniciarDesuspender
         \/ \E c \in CPUs : \/ SysDumpMemory(c) \/ SysExit(c)
                            \/ RespuestaFinalizar(c) \/ ReiniciarFinalizar(c)
         \/ \E p \in Pids : TimerAvisa(p)
         \/ Memoria \/ RespuestasMemoria
<1>1. ASSUME NEW t \in {"main", "largo"} \cup CPUs, Creacion(t)
      PROVE  Callado \/ EnviarCrear(t) \/ RespuestaCrear(t) \/ ReiniciarCrear(t)
  BY <1>1 DEF Creacion, Callado
<1>2. ASSUME Largo
      PROVE  Callado \/ EnviarDesuspender \/ RespuestaDesuspender \/ ReiniciarDesuspender
  BY <1>2 DEF Largo, Callado
<1>3. ASSUME NEW c \in CPUs, Dispatch(c)
      PROVE  \/ Callado \/ SysDumpMemory(c) \/ SysExit(c)
             \/ RespuestaFinalizar(c) \/ ReiniciarFinalizar(c)
  BY <1>3 DEF Dispatch, Callado
<1>4. ASSUME NEW p \in Pids, Timer(p) PROVE Callado \/ TimerAvisa(p)
  BY <1>4 DEF Timer, Callado
<1>5. \/ Corto \/ ejecutar_planificadores \/ \E c \in CPUs : Cpu(c) \/ conectar_cpu(c)
      \/ \E d \in Ios : IO(d)
      \/ UNCHANGED vars
      => Callado
  BY DEF Callado
<1> QED BY <1>1, <1>2, <1>3, <1>4, <1>5 DEF Next

Buscando == {"exit_espera", "busca_EXEC", "busca_BLOCKED", "busca_SUSP"}

\* Whoever is being ended asked for it.
Terminales ==
  /\ \A p \in Pids : Hay(aMemoria, "FINALIZAR", p) => Terminal(p)
  /\ \A c \in CPUs, p \in Pids : hilo[c].en \in Buscando /\ hilo[c].p = p => Terminal(p)

\* A process at its end stays there.
LEMMA TerminalesPaso ==
  ASSUME IInv, CpuInv, Terminales, [Next]_vars
  PROVE  Terminales'
<1>0. /\ TypeOK /\ TiposHilo /\ aMemoria \in Seq(Peticiones)
      /\ \A t \in CPUs \cup {"main", "largo", "corto", "memoria"} : t \in Hilos
  BY HilosDe, HechosCpu DEF IInv, TypeOK, TiposMem
<1>a. ASSUME NEW p \in Pids, Terminal(p) PROVE Terminal(p)'
  BY <1>a, TerminalQueda
<1>b. ASSUME NEW c \in CPUs, NEW p \in Pids, hilo[c].en \in Buscando, hilo[c].p = p PROVE Terminal(p)'
  BY <1>a, <1>b DEF Terminales
<1>c. ASSUME NEW op, op # "FINALIZAR", NEW q, aMemoria' = Append(aMemoria, [op |-> op, p |-> q]),
             [op |-> op, p |-> q] \in Peticiones
      PROVE  \A p \in Pids : Hay(aMemoria', "FINALIZAR", p) => Hay(aMemoria, "FINALIZAR", p)
  <2>1. PICK m \in Peticiones : m.op = op /\ aMemoria' = Append(aMemoria, m)
    BY <1>c
  <2>2. Range(aMemoria') = Range(aMemoria) \cup {m}
    BY <1>0, <2>1, UnoMas
  <2> QED BY <1>c, <2>1, <2>2 DEF Hay
<1>d. ASSUME \A p \in Pids : Hay(aMemoria', "FINALIZAR", p) => Hay(aMemoria, "FINALIZAR", p),
             \A c \in CPUs : hilo'[c].en \in Buscando =>
               hilo[c].en \in Buscando /\ hilo'[c].p = hilo[c].p
      PROVE  Terminales'
  <2>1. ASSUME NEW c \in CPUs, NEW p \in Pids, hilo'[c].en \in Buscando, hilo'[c].p = p PROVE Terminal(p)'
    BY <1>b, <1>d, <2>1
  <2>2. ASSUME NEW p \in Pids, Hay(aMemoria', "FINALIZAR", p) PROVE Terminal(p)'
    BY <1>a, <1>d, <2>2 DEF Terminales
  <2> QED BY <2>1, <2>2 DEF Terminales, Hay
<1>e. ASSUME NEW t \in Hilos, NEW e,
             \/ e \notin Buscando /\ (Va(t, e) \/ Queda(t, e) \/ \E p, k : VaCon(t, e, p, k))
             \/ Va(t, e) /\ hilo[t].en \in Buscando
      PROVE  \A c \in CPUs : hilo'[c].en \in Buscando =>
               hilo[c].en \in Buscando /\ hilo'[c].p = hilo[c].p
  <2>1. \A u \in Hilos \ {t} : hilo'[u] = hilo[u]
    BY <1>0, <1>e, SoloUno
  <2>2. hilo'[t].en = e /\ (Va(t, e) => hilo'[t].p = hilo[t].p)
    BY <1>0, <1>e, SoloUno
  <2> QED BY <1>0, <1>e, <2>1, <2>2
<1>1. CASE \E t \in {"main", "largo"} \cup CPUs :
             EnviarCrear(t) \/ RespuestaCrear(t) \/ ReiniciarCrear(t)
  <2>1. PICK t \in {"main", "largo"} \cup CPUs :
             EnviarCrear(t) \/ RespuestaCrear(t) \/ ReiniciarCrear(t)
    BY <1>1
  <2>2. PICK e \in {"crear_espera", "crear_saca", "espera", "init_a_new", Reposo(t)} :
          Va(t, e) \/ Queda(t, e)
    BY <2>1 DEF EnviarCrear, RespuestaCrear, ReiniciarCrear
  <2>3. e \notin Buscando
    BY <2>2 DEF Reposo, Buscando
  <2>4. \A p \in Pids : Hay(aMemoria', "FINALIZAR", p) => Hay(aMemoria, "FINALIZAR", p)
    <3>1. CASE EnviarCrear(t)
      <4>1. hilo[t].p \in Pids
        BY <1>0, <2>1, <3>1 DEF EnviarCrear, TiposHilo, Ociosas
      <4>2. [op |-> "CREAR", p |-> hilo[t].p] \in Peticiones
        BY <4>1 DEF Peticiones
      <4> QED BY <1>c, <3>1, <4>2 DEF EnviarCrear, EnviarPedido
    <3>2. CASE RespuestaCrear(t) \/ ReiniciarCrear(t)
      BY <3>2 DEF RespuestaCrear, ReiniciarCrear, memVars
    <3> QED BY <2>1, <3>1, <3>2
  <2> QED BY <1>0, <1>d, <1>e, <2>2, <2>3, <2>4
<1>2. CASE EnviarDesuspender \/ RespuestaDesuspender \/ ReiniciarDesuspender
  <2>2. PICK e \in {"desus_espera", "desus_agrega", "espera"} : Va("largo", e) \/ Queda("largo", e)
    BY <1>2 DEF EnviarDesuspender, RespuestaDesuspender, ReiniciarDesuspender
  <2>3. e \notin Buscando
    BY <2>2 DEF Buscando
  <2>4. \A p \in Pids : Hay(aMemoria', "FINALIZAR", p) => Hay(aMemoria, "FINALIZAR", p)
    <3>1. CASE EnviarDesuspender
      <4>1. hilo["largo"].p \in Pids
        BY <1>0, <3>1 DEF EnviarDesuspender, TiposHilo, Ociosas
      <4>2. [op |-> "DESUSPENDER", p |-> hilo["largo"].p] \in Peticiones
        BY <4>1 DEF Peticiones
      <4> QED BY <1>c, <3>1, <4>2 DEF EnviarDesuspender, EnviarPedido
    <3>2. CASE RespuestaDesuspender \/ ReiniciarDesuspender
      BY <3>2 DEF RespuestaDesuspender, ReiniciarDesuspender, memVars
    <3> QED BY <1>2, <3>1, <3>2
  <2> QED BY <1>0, <1>d, <1>e, <2>2, <2>3, <2>4
<1>3. ASSUME NEW c \in CPUs, SysDumpMemory(c) PROVE Terminales'
  <2>1. PICK m \in Llamadas : m = Head(deCpu[c])
    BY <1>3, LlamadaUnica DEF SysDumpMemory, CpuInv
  <2>2. [op |-> "DUMP", p |-> m.p] \in Peticiones
    BY <2>1 DEF Peticiones, Llamadas
  <2>3. VaCon(c, "dump_libera", m.p, m.pc) /\ aMemoria' = Append(aMemoria, [op |-> "DUMP", p |-> m.p])
    BY <1>3, <2>1 DEF SysDumpMemory
  <2>4. "dump_libera" \notin Buscando
    BY DEF Buscando
  <2> QED BY <1>0, <1>c, <1>d, <1>e, <2>2, <2>3, <2>4
<1>4. ASSUME NEW c \in CPUs, SysExit(c) PROVE Terminales'
  <2>1. PICK m : m = Head(deCpu[c])
    OBVIOUS
  <2>2. PICK q : q = m.p
    OBVIOUS
  <2>3. q \in Pids /\ Terminal(q)'
    BY <1>4, <2>1, <2>2, TerminalNace
  <2>4. PICK x \in Peticiones : x.op = "FINALIZAR" /\ x.p = q /\ aMemoria' = Append(aMemoria, x)
    <3>1. [op |-> "FINALIZAR", p |-> q] \in Peticiones
      BY <2>3 DEF Peticiones
    <3> QED BY <1>4, <2>1, <2>2, <3>1 DEF SysExit
  <2>5. Range(aMemoria') = Range(aMemoria) \cup {x}
    BY <1>0, <2>4, UnoMas
  <2>6. ASSUME NEW p \in Pids, Hay(aMemoria', "FINALIZAR", p) PROVE Terminal(p)'
    <3>1. CASE p = q
      BY <2>3, <3>1
    <3>2. CASE p # q
      <4>1. Hay(aMemoria, "FINALIZAR", p)
        BY <2>4, <2>5, <2>6, <3>2 DEF Hay
      <4> QED BY <1>a, <4>1 DEF Terminales
    <3> QED BY <3>1, <3>2
  <2>7. VaCon(c, "exit_espera", q, m.pc)
    BY <1>4, <2>1, <2>2 DEF SysExit
  <2>8. hilo'[c].p = q /\ \A d \in CPUs \ {c} : hilo'[d] = hilo[d]
    BY <1>0, <2>7, SoloUno
  <2>9. ASSUME NEW d \in CPUs, NEW r \in Pids, hilo'[d].en \in Buscando, hilo'[d].p = r PROVE Terminal(r)'
    <3>1. CASE d = c
      BY <2>3, <2>8, <2>9, <3>1
    <3>2. CASE d # c
      BY <1>b, <2>8, <2>9, <3>2
    <3> QED BY <3>1, <3>2
  <2> QED BY <2>6, <2>9 DEF Terminales, Hay
<1>5. ASSUME NEW c \in CPUs, RespuestaFinalizar(c) \/ ReiniciarFinalizar(c) PROVE Terminales'
  <2>1. UNCHANGED memVars
    BY <1>5 DEF RespuestaFinalizar, ReiniciarFinalizar
  <2>2. \/ hilo[c].en \in Buscando /\ Va(c, "busca_EXEC")
        \/ Queda(c, "recibe")
    BY <1>5 DEF RespuestaFinalizar, ReiniciarFinalizar, Buscando
  <2>3. "recibe" \notin Buscando
    BY DEF Buscando
  <2> QED BY <1>0, <1>d, <1>e, <2>1, <2>2, <2>3 DEF memVars
<1>6. ASSUME NEW p \in Pids, TimerAvisa(p) PROVE Terminales'
  <2>1. PICK q \in LeePid(p) : aMemoria' = Append(aMemoria, [op |-> "SUSPENDER", p |-> q])
    BY <1>6 DEF TimerAvisa
  <2>2. [op |-> "SUSPENDER", p |-> q] \in Peticiones
    BY <1>0, <2>1, LeePidTipo DEF Peticiones, TypeOK
  <2>3. UNCHANGED hilo
    BY <1>6 DEF TimerAvisa
  <2> QED BY <1>c, <1>d, <2>1, <2>2, <2>3
<1>7. CASE Memoria
  <2>1. UNCHANGED hilo /\ aMemoria # <<>> /\ aMemoria' = Tail(aMemoria)
    BY <1>7 DEF Memoria
  <2>2. Range(aMemoria') \subseteq Range(aMemoria)
    BY <1>0, <2>1, UnoMenos
  <2>3. \A p \in Pids : Hay(aMemoria', "FINALIZAR", p) => Hay(aMemoria, "FINALIZAR", p)
    BY <2>2 DEF Hay
  <2> QED BY <1>d, <2>1, <2>3
<1>8. CASE RespuestasMemoria
  <2>1. UNCHANGED aMemoria /\ (UNCHANGED hilo \/ Queda("memoria", "recibe") \/ Queda("memoria", "fin")
             \/ \E p : VaCon("memoria", "fin_susp", p, 0))
    BY <1>8 DEF RespuestasMemoria, RespuestaPedido, RespuestaDump, RespuestaDumpSusp,
       RespuestaDesconocida, memVars
  <2>2. \A u \in Hilos \ {"memoria"} : hilo'[u] = hilo[u]
    BY <1>0, <2>1, SoloUno
  <2>3. \A c \in CPUs : hilo'[c] = hilo[c]
    BY <1>0, <2>2, HechosCpu
  <2> QED BY <1>d, <2>1, <2>3
<1>9. CASE Callado
  <2>1. UNCHANGED aMemoria
    BY <1>9, Callan DEF memVars
  <2>2. \A c \in CPUs : hilo'[c].en \in Buscando => hilo[c].en \in Buscando /\ hilo'[c].p = hilo[c].p
    <3>1. ASSUME NEW c \in CPUs, buscar_proceso_por_pid(c)
          PROVE  \A d \in CPUs : hilo'[d].en \in Buscando => hilo[d].en \in Buscando /\ hilo'[d].p = hilo[d].p
      <4>1. /\ hilo[c].en \in Buscando
            /\ Va(c, "exit_libera") \/ Va(c, "busca_BLOCKED") \/ Va(c, "busca_SUSP") \/ Queda(c, "recibe")
        BY <3>1 DEF buscar_proceso_por_pid, Busca, Buscando
      <4>2. "recibe" \notin Buscando
        BY DEF Buscando
      <4> QED BY <1>0, <1>e, <4>1, <4>2
    <3>2. CASE \E c \in CPUs : SysComienzoIO(c) \/ SysInitProc(c) \/ LiberarPorDump(c)
                               \/ BloquearPorIO(c) \/ BloquearPorDump(c) \/ LiberarYSalir(c)
      <4>1. PICK c \in CPUs, e \in Etiquetas \ Buscando :
              Va(c, e) \/ Queda(c, e) \/ \E p, k : VaCon(c, e, p, k)
        BY <3>2 DEF SysComienzoIO, SysInitProc, init_proc_pid, LiberarPorDump, BloquearPorIO,
           BloquearPorDump, LiberarYSalir, Etiquetas, Buscando
      <4> QED BY <1>0, <1>e, <4>1
    <3>3. CASE Corto
      <4>1. UNCHANGED hilo \/ \E e \in Etiquetas \ Buscando :
              Va("corto", e) \/ Queda("corto", e) \/ \E p, k : VaCon("corto", e, p, k)
        BY <3>3 DEF Corto, CortoDespierta, enviar_a_cpu, ReadyAExec, Etiquetas, Buscando
      <4> QED BY <1>0, <1>e, <4>1
    <3>4. CASE \/ \E t \in {"main", "largo"} \cup CPUs :
                    \/ ConsultarNEW(t) \/ ConsultarSUSP(t) \/ InitAgregaNEW(t)
                    \/ SacarDeNEW(t) \/ CreadoAReady(t)
               \/ LargoDespierta \/ LargoEligeNEW \/ LargoEligeSUSP \/ DesuspendidoAReady
      <4>1. PICK t \in Hilos, e \in Etiquetas \ Buscando :
              Va(t, e) \/ Queda(t, e) \/ \E p, k : VaCon(t, e, p, k)
        BY <1>0, <3>4 DEF ConsultarNEW, ConsultarSUSP, InitAgregaNEW, SacarDeNEW, CreadoAReady,
           LargoDespierta, LargoEligeNEW, LargoEligeSUSP, Elige, DesuspendidoAReady, Reposo,
           Etiquetas, Buscando
      <4> QED BY <1>0, <1>e, <4>1
    <3>6. CASE \E d \in Ios : IO(d)
      <4>1. UNCHANGED hilo \/ \E d \in Hilos, e \in Etiquetas \ Buscando :
              Va(d, e) \/ Queda(d, e) \/ \E p, k : VaCon(d, e, p, k)
        BY <3>6, HilosDe DEF IO, atender_cola_espera, FinIO, FinIOSusp, Etiquetas, Buscando
      <4> QED BY <1>0, <1>e, <4>1
    <3>7. CASE ejecutar_planificadores
      <4>1. \A c \in CPUs : c \notin {"main", "largo", "corto"}
        BY ConstantesOK
      <4>2. \A c \in CPUs : hilo'[c] = hilo[c]
        BY <1>0, <3>7, <4>1 DEF ejecutar_planificadores, TiposHilo
      <4> QED BY <4>2
    <3>8. CASE \/ \E p \in Pids : TimerVence(p) \/ TimerSuspende(p)
               \/ \E c \in CPUs : conectar_cpu(c) \/ agregar_a_cola_por_IO(c)
               \/ UNCHANGED vars
      <4>1. UNCHANGED hilo \/ \E c \in CPUs : Queda(c, "recibe")
        BY <3>8 DEF TimerVence, TimerSuspende, conectar_cpu, agregar_a_cola_por_IO, vars
      <4>2. "recibe" \notin Buscando
        BY DEF Buscando
      <4> QED BY <1>0, <1>e, <4>1, <4>2
    <3>5. ASSUME NEW c \in CPUs, Cpu(c) PROVE UNCHANGED hilo
      BY <3>5 DEF Cpu, CpuBloqueante, CpuInitProc
    <3> QED BY <1>9, <3>1, <3>2, <3>3, <3>4, <3>5, <3>6, <3>7, <3>8 DEF Callado
  <2> QED BY <1>d, <2>1, <2>2
<1> QED BY <1>1, <1>2, <1>3, <1>4, <1>5, <1>6, <1>7, <1>8, <1>9, Clases

-----------------------------------------------------------------------------
(* A suspended process and the frames it leaves.                            *)

Suspendidos == lista["SUSP_BLOCKED"] \cup Range(cola["SUSP_READY"])

\* The memory has given frames to the process that the long term planner brings back, and
\* the planner has not filed it in READY yet.
Concedido(p) ==
  /\ hilo["largo"].p = p
  /\ \/ hilo["largo"].en = "desus_agrega"
     \/ hilo["largo"].en = "desus_espera" /\ Dijo("DESUSPENDER")

\* A suspended process is on its way out of the memory (a timer is about to send the
\* request, or the request is in the socket), out of it, or on its way back.
Suspension(p) ==
  /\ aviso[p] \in {0, 1}
  /\ aviso[p] = 1 => p \in lista["SUSP_BLOCKED"] /\ ~Hay(aMemoria, "SUSPENDER", p)
  /\ p \in Suspendidos /\ aviso[p] = 0 => Cubierto(aMemoria, p)
  /\ Hay(aMemoria, "SUSPENDER", p) => p \in Suspendidos /\ ~Concedido(p)
  /\ residencia[p].marcos => residencia[p].lista
  /\ residencia[p].swap \in {0, 1}
  /\ residencia[p].swap = 1 => /\ p \in Suspendidos /\ aviso[p] = 0 /\ ~residencia[p].marcos
                               /\ ~Hay(aMemoria, "SUSPENDER", p) /\ ~Concedido(p)
  /\ p \in Suspendidos /\ aviso[p] = 0 =>
       \/ Hay(aMemoria, "SUSPENDER", p) \/ Concedido(p)
       \/ ~residencia[p].marcos /\ (residencia[p].lista => residencia[p].swap = 1)
  /\ Concedido(p) => residencia[p].marcos

SuspInv ==
  /\ Terminales
  /\ Turno("DESUSPENDER", {"largo"}, "desus_espera")
  /\ SinTras(aMemoria, "DESUSPENDER", "SUSPENDER")
  /\ SinTras(aMemoria, "SUSPENDER", "SUSPENDER")
  /\ \A p \in Pids : Suspension(p)

\* Nothing that is said of a process changes.
LEMMA SuspensionIgual ==
  ASSUME NEW p \in Pids, Suspension(p), aviso'[p] = aviso[p], residencia'[p] = residencia[p],
         aviso[p] = 1 /\ p \in lista["SUSP_BLOCKED"] => p \in lista'["SUSP_BLOCKED"],
         (p \in Suspendidos)' <=> p \in Suspendidos,
         Concedido(p)' <=> Concedido(p),
         Hay(aMemoria', "SUSPENDER", p) <=> Hay(aMemoria, "SUSPENDER", p),
         p \in Suspendidos /\ Cubierto(aMemoria, p) => Cubierto(aMemoria', p)
  PROVE  Suspension(p)'
BY DEF Suspension

\* A resumption that was granted stays granted.
LEMMA ConcedidoIgual ==
  ASSUME Dijo("DESUSPENDER")' <=> Dijo("DESUSPENDER"),
         \/ hilo'["largo"] = hilo["largo"]
         \/ {hilo["largo"].en, hilo'["largo"].en} \cap {"desus_espera", "desus_agrega"} = {}
  PROVE  \A p : Concedido(p)' <=> Concedido(p)
<1>1. ASSUME NEW p PROVE Concedido(p)' <=> Concedido(p)
  BY DEF Concedido
<1> QED BY <1>1

\* An answer of another kind, or none, leaves what was said.
LEMMA DijoIgual ==
  ASSUME TypeOK, NEW op, binario'[op] = binario[op], respuesta'[op] = respuesta[op],
         \/ UNCHANGED deMemoria
         \/ \E r \in Seq(Respuestas) : /\ deMemoria' = deMemoria \o r
                                       /\ \A x \in Range(r) : x.op # op
         \/ deMemoria # <<>> /\ deMemoria' = Tail(deMemoria) /\ Head(deMemoria).op # op
  PROVE  Dijo(op)' <=> Dijo(op)
<1>1. deMemoria \in Seq(Respuestas)
  BY DEF TypeOK, TiposMem
<1>2. \A m : m.op = op => (m \in Range(deMemoria') <=> m \in Range(deMemoria))
  <2>1. CASE UNCHANGED deMemoria
    BY <2>1
  <2>2. ASSUME NEW r \in Seq(Respuestas), deMemoria' = deMemoria \o r, \A x \in Range(r) : x.op # op
        PROVE  \A m : m.op = op => (m \in Range(deMemoria') <=> m \in Range(deMemoria))
    BY <1>1, <2>2, RangeConcatenation
  <2>3. CASE deMemoria # <<>> /\ deMemoria' = Tail(deMemoria) /\ Head(deMemoria).op # op
    <3>1. /\ Range(deMemoria') \subseteq Range(deMemoria)
          /\ \A m \in Range(deMemoria) : m = Head(deMemoria) \/ m \in Range(deMemoria')
      BY <1>1, <2>3, UnoMenos
    <3> QED BY <2>3, <3>1
  <2> QED BY <2>1, <2>2, <2>3
<1> QED BY <1>2 DEF Dijo

\* A request that is not a suspension.
LEMMA PideOtro ==
  ASSUME TypeOK, NEW m \in Peticiones, m.op # "SUSPENDER", aMemoria' = Append(aMemoria, m)
  PROVE  /\ \A p : Hay(aMemoria', "SUSPENDER", p) <=> Hay(aMemoria, "SUSPENDER", p)
         /\ \A p : Cubierto(aMemoria, p) /\ ~(m.op = "CREAR" /\ m.p = p) => Cubierto(aMemoria', p)
         /\ \A a : SinTras(aMemoria, a, "SUSPENDER") => SinTras(aMemoria', a, "SUSPENDER")
<1>1. aMemoria \in Seq(Peticiones)
  BY DEF TypeOK, TiposMem
<1>2. Range(aMemoria') = Range(aMemoria) \cup {m}
  BY <1>1, UnoMas
<1>3. \A p : Hay(aMemoria', "SUSPENDER", p) <=> Hay(aMemoria, "SUSPENDER", p)
  BY <1>2 DEF Hay
<1>4. ASSUME NEW p, Cubierto(aMemoria, p), ~(m.op = "CREAR" /\ m.p = p) PROVE Cubierto(aMemoria', p)
  BY <1>1, <1>4, CubiertoMas
<1>5. ASSUME NEW a, SinTras(aMemoria, a, "SUSPENDER") PROVE SinTras(aMemoria', a, "SUSPENDER")
  BY <1>1, <1>5, OrdenMas
<1> QED BY <1>3, <1>4, <1>5

\* Where the long term planner is, but for three of its steps.
LEMMA LargoAparte ==
  ASSUME IInv, [Next]_vars, ~EnviarDesuspender, ~RespuestaDesuspender, ~DesuspendidoAReady
  PROVE  \/ hilo'["largo"] = hilo["largo"]
         \/ {hilo["largo"].en, hilo'["largo"].en} \cap {"desus_espera", "desus_agrega"} = {}
<1> DEFINE Lejos == \/ hilo'["largo"] = hilo["largo"]
                    \/ {hilo["largo"].en, hilo'["largo"].en} \cap {"desus_espera", "desus_agrega"} = {}
<1>0. TiposHilo /\ "largo" \in Hilos /\ \A t \in {"main", "corto", "memoria"} \cup CPUs \cup Ios :
                                           t \in Hilos /\ t # "largo"
  BY HilosDe, Disjuntos DEF IInv, TypeOK
<1>a. ASSUME NEW t \in {"main", "corto", "memoria"} \cup CPUs \cup Ios,
             NEW e, Va(t, e) \/ Queda(t, e) \/ \E p, k : VaCon(t, e, p, k)
      PROVE  Lejos
  BY <1>0, <1>a, SoloUno
<1>b. ASSUME NEW e, e \notin {"desus_espera", "desus_agrega"},
             hilo["largo"].en \notin {"desus_espera", "desus_agrega"},
             Va("largo", e) \/ Queda("largo", e) \/ \E p, k : VaCon("largo", e, p, k)
      PROVE  Lejos
  BY <1>0, <1>b, SoloUno
<1>1. ASSUME NEW t \in {"main", "largo"} \cup CPUs, Creacion(t) PROVE Lejos
  <2>1. PICK e \in {"init_consulta_susp", "init_a_new", "crear_envia", "crear_espera", "crear_saca",
                    "crear_agrega", "crear_reinicia", "espera", Reposo(t)} : Va(t, e) \/ Queda(t, e)
    BY <1>1 DEF Creacion, ConsultarNEW, ConsultarSUSP, InitAgregaNEW, EnviarCrear, RespuestaCrear,
       SacarDeNEW, CreadoAReady, ReiniciarCrear
  <2>2. hilo[t].en \notin {"desus_espera", "desus_agrega"}
    BY <1>1 DEF Creacion, ConsultarNEW, ConsultarSUSP, InitAgregaNEW, EnviarCrear, RespuestaCrear,
       SacarDeNEW, CreadoAReady, ReiniciarCrear
  <2>3. e \notin {"desus_espera", "desus_agrega"}
    BY <2>1 DEF Reposo
  <2> QED BY <1>1, <1>a, <1>b, <2>1, <2>2, <2>3
<1>2. CASE ejecutar_planificadores
  <2>1. hilo["largo"].en = "apagado" /\ hilo'["largo"].en = "espera"
    BY <1>0, <1>2 DEF ejecutar_planificadores, TiposHilo, Parado, IInv, Arranque
  <2> QED BY <2>1
<1>3. CASE LargoDespierta \/ LargoEligeNEW \/ LargoEligeSUSP \/ ReiniciarDesuspender
  <2>1. hilo["largo"].en \notin {"desus_espera", "desus_agrega"}
    BY <1>3 DEF LargoDespierta, LargoEligeNEW, LargoEligeSUSP, ReiniciarDesuspender
  <2>2. PICK e \in Etiquetas \ {"desus_espera", "desus_agrega"} :
          Va("largo", e) \/ Queda("largo", e) \/ \E p, k : VaCon("largo", e, p, k)
    BY <1>3 DEF LargoDespierta, LargoEligeNEW, LargoEligeSUSP, ReiniciarDesuspender, Elige, Etiquetas
  <2> QED BY <1>b, <2>1, <2>2
<1>4. CASE Corto
  BY <1>4, <1>a DEF Corto, CortoDespierta, enviar_a_cpu, ReadyAExec
<1>5. ASSUME NEW c \in CPUs, Dispatch(c) PROVE Lejos
  <2>1. \E e : Va(c, e) \/ Queda(c, e) \/ \E p, k : VaCon(c, e, p, k)
    <3>1. CASE buscar_proceso_por_pid(c)
      BY <3>1 DEF buscar_proceso_por_pid, Busca
    <3>2. CASE ~buscar_proceso_por_pid(c)
      BY <1>5, <3>2 DEF Dispatch, SysComienzoIO, BloquearPorIO, agregar_a_cola_por_IO, SysInitProc,
         init_proc_pid, SysDumpMemory, LiberarPorDump, BloquearPorDump, SysExit, RespuestaFinalizar,
         LiberarYSalir, ReiniciarFinalizar
    <3> QED BY <3>1, <3>2
  <2> QED BY <1>a, <2>1
<1>6. CASE \/ \E c \in CPUs : Cpu(c) \/ conectar_cpu(c)
           \/ \E p \in Pids : Timer(p)
           \/ Memoria \/ UNCHANGED vars
  BY <1>6 DEF Cpu, CpuBloqueante, CpuInitProc, conectar_cpu, Timer, TimerVence, TimerSuspende,
     TimerAvisa, Memoria, vars
<1>7. CASE RespuestasMemoria \/ \E d \in Ios : IO(d)
  <2>1. \/ UNCHANGED hilo
        \/ \E t \in {"memoria"} \cup Ios, e \in Etiquetas :
             Queda(t, e) \/ \E p, k : VaCon(t, e, p, k)
    BY <1>7 DEF RespuestasMemoria, RespuestaPedido, RespuestaDump, RespuestaDumpSusp,
       RespuestaDesconocida, IO, atender_cola_espera, FinIO, FinIOSusp, Etiquetas
  <2> QED BY <1>a, <2>1
<1> QED BY <1>1, <1>2, <1>3, <1>4, <1>5, <1>6, <1>7 DEF Next, Largo

\* The lists of suspended processes.
Intactos ==
  /\ lista'["SUSP_BLOCKED"] = lista["SUSP_BLOCKED"]
  /\ Range(cola'["SUSP_READY"]) = Range(cola["SUSP_READY"])

\* Who changes them, and who changes what the timers have to send.
LEMMA QuienSuspende ==
  ASSUME IInv, [Next]_vars
  PROVE  \/ Intactos /\ (UNCHANGED aviso \/ \E p \in Pids : TimerAvisa(p))
         \/ DesuspendidoAReady
         \/ \E p \in Pids : TimerSuspende(p)
         \/ \E c \in CPUs : /\ Busca(c, "busca_SUSP", "SUSP_BLOCKED", "recibe")
                            /\ UNCHANGED <<cola, aviso>>
         \/ \E p \in Pids : DesdeSUSP_BLOCKED(p) /\ UNCHANGED aviso
<1>0. /\ TypeOK /\ UnSoloLugar /\ cola \in [Estados -> Seq(Pids)] /\ lista \in [Grupos -> SUBSET Pids]
      /\ {"SUSP_BLOCKED", "BLOCKED", "TIMER", "EXEC", "EXIT"} \subseteq Grupos
      /\ {"SUSP_READY", "NEW", "READY"} \subseteq Estados
  BY DEF IInv, TypeOK, TiposPlan, Grupos, Estados
<1>1. ASSUME NEW t \in {"main", "largo"} \cup CPUs, Creacion(t) PROVE Intactos /\ UNCHANGED aviso
  <2>1. /\ UNCHANGED <<lista, aviso>>
        /\ \/ UNCHANGED cola
           \/ \E q \in {"NEW", "READY"} : \E p : cola' = Agrega(cola, q, p)
           \/ \E p : cola' = [cola EXCEPT !["NEW"] = Saca(@, p)]
    BY <1>1 DEF Creacion, ConsultarNEW, ConsultarSUSP, InitAgregaNEW, EnviarCrear, RespuestaCrear,
       SacarDeNEW, CreadoAReady, ReiniciarCrear, agregar_a_NEW, agregar_a_READY, planVars, timerVars
  <2> QED BY <1>0, <2>1 DEF Intactos, Agrega
<1>2. CASE \/ ejecutar_planificadores \/ Memoria \/ UNCHANGED vars
           \/ LargoDespierta \/ EnviarDesuspender \/ RespuestaDesuspender \/ ReiniciarDesuspender
           \/ \E c \in CPUs : \/ Cpu(c) \/ conectar_cpu(c) \/ SysComienzoIO(c)
                              \/ agregar_a_cola_por_IO(c) \/ SysInitProc(c) \/ SysDumpMemory(c)
                              \/ LiberarPorDump(c) \/ SysExit(c) \/ RespuestaFinalizar(c)
                              \/ ReiniciarFinalizar(c)
  BY <1>2 DEF ejecutar_planificadores, Memoria, vars, LargoDespierta, EnviarDesuspender,
     RespuestaDesuspender, ReiniciarDesuspender, Cpu, CpuBloqueante, CpuInitProc, conectar_cpu,
     SysComienzoIO, agregar_a_cola_por_IO, SysInitProc, SysDumpMemory, LiberarPorDump, SysExit,
     RespuestaFinalizar, ReiniciarFinalizar, planVars, timerVars, Intactos
<1>3. CASE LargoEligeNEW \/ LargoEligeSUSP
  <2>1. /\ UNCHANGED <<lista, aviso>>
        /\ UNCHANGED cola \/ \E q \in {"NEW", "SUSP_READY"} :
                               \E s \in Reordenadas(cola[q]) : cola' = [cola EXCEPT ![q] = s]
    BY <1>3 DEF LargoEligeNEW, LargoEligeSUSP, Elige, timerVars
  <2>2. \A q \in {"NEW", "SUSP_READY"} : \A s \in Reordenadas(cola[q]) : Range(s) = Range(cola[q])
    BY <1>0, ReordenadasPropiedades
  <2> QED BY <1>0, <2>1, <2>2 DEF Intactos
<1>4. CASE Corto
  <2>1. /\ UNCHANGED aviso
        /\ cola' = cola \/ \E p : cola' = [cola EXCEPT !["READY"] = Saca(@, p)]
        /\ lista' = lista \/ \E p : lista' = [lista EXCEPT !["EXEC"] = @ \cup {p}]
    BY <1>4 DEF Corto, CortoDespierta, enviar_a_cpu, ReadyAExec, planVars, timerVars
  <2> QED BY <1>0, <2>1 DEF Intactos
<1>5. ASSUME NEW c \in CPUs, BloquearPorIO(c) \/ BloquearPorDump(c) \/ LiberarYSalir(c)
      PROVE  Intactos /\ UNCHANGED aviso
  <2>1. /\ UNCHANGED <<cola, aviso>>
        /\ \/ UNCHANGED lista
           \/ \E p : lista' = Mueve("EXEC", "BLOCKED", p)
           \/ \E p : lista' = [lista EXCEPT !["EXIT"] = @ \cup {p}]
    BY <1>5 DEF BloquearPorIO, BloquearPorDump, LiberarYSalir, exec_a_blocked, agregar_a_EXIT, timerVars
  <2> QED BY <1>0, <2>1 DEF Intactos, Mueve
<1>6. ASSUME NEW c \in CPUs, buscar_proceso_por_pid(c)
      PROVE  \/ Intactos /\ UNCHANGED aviso
             \/ Busca(c, "busca_SUSP", "SUSP_BLOCKED", "recibe") /\ UNCHANGED <<cola, aviso>>
  <2>1. UNCHANGED <<cola, aviso>>
    BY <1>6 DEF buscar_proceso_por_pid, timerVars
  <2>2. ASSUME NEW g \in {"EXEC", "BLOCKED"}, NEW e, NEW s, Busca(c, e, g, s) PROVE Intactos
    <3>1. lista' = lista \/ \E p : lista' = [lista EXCEPT ![g] = @ \ {p}]
      BY <2>2 DEF Busca
    <3> QED BY <1>0, <2>1, <3>1 DEF Intactos
  <2> QED BY <1>6, <2>1, <2>2 DEF buscar_proceso_por_pid
<1>7. ASSUME NEW p \in Pids, DesdeBLOCKED(p) PROVE Intactos
  <2>1. /\ lista' = lista \/ \E r : lista' = [lista EXCEPT !["BLOCKED"] = @ \ {r}]
        /\ cola' = cola \/ \E r : cola' = Agrega(cola, "READY", r)
    BY <1>7 DEF DesdeBLOCKED, agregar_a_READY
  <2> QED BY <1>0, <2>1 DEF Intactos, Agrega
<1>8. ASSUME NEW d \in Ios, IO(d)
      PROVE  \/ Intactos /\ UNCHANGED aviso
             \/ \E p \in Pids : DesdeSUSP_BLOCKED(p) /\ UNCHANGED aviso
  <2>1. CASE atender_cola_espera(d)
    BY <2>1 DEF atender_cola_espera, planVars, timerVars, Intactos
  <2>2. CASE FinIO(d)
    <3>1. enIO[d] \in Pids
      BY <1>0, <2>2 DEF FinIO, TypeOK, TiposIO, PidONadie
    <3> QED BY <1>7, <2>2, <3>1 DEF FinIO, timerVars
  <2>3. CASE FinIOSusp(d)
    <3>1. hilo[d].p \in Pids
      BY <1>0, <2>3, HilosDe DEF FinIOSusp, TypeOK, TiposHilo, Ociosas
    <3> QED BY <2>3, <3>1 DEF FinIOSusp, timerVars
  <2> QED BY <1>8, <2>1, <2>2, <2>3 DEF IO
<1>9. ASSUME NEW p \in Pids, Timer(p)
      PROVE  (Intactos /\ UNCHANGED aviso) \/ (Intactos /\ TimerAvisa(p)) \/ TimerSuspende(p)
  <2>1. CASE TimerVence(p)
    <3>1. UNCHANGED <<cola, aviso>> /\ (lista' = lista \/ \E q : lista' = Mueve("BLOCKED", "TIMER", q))
      BY <2>1 DEF TimerVence
    <3> QED BY <1>0, <3>1 DEF Intactos, Mueve
  <2>2. CASE TimerAvisa(p)
    BY <2>2 DEF TimerAvisa, Intactos
  <2> QED BY <1>9, <2>1, <2>2 DEF Timer
<1>10. CASE RespuestasMemoria
  <2>1. CASE RespuestaPedido \/ RespuestaDesconocida
    BY <2>1 DEF RespuestaPedido, RespuestaDesconocida, planVars, timerVars, Intactos
  <2>2. CASE RespuestaDump
    <3>1. Head(deMemoria).p \in Pids
      <4>1. deMemoria \in Seq(Respuestas) /\ deMemoria # <<>>
        BY <1>0, <2>2 DEF RespuestaDump, RecibeMemoria, TypeOK, TiposMem
      <4>2. PICK m \in Respuestas : m = Head(deMemoria)
        BY <4>1, UnoMenos
      <4> QED BY <4>2 DEF Respuestas
    <3> QED BY <1>7, <2>2, <3>1 DEF RespuestaDump, timerVars
  <2>3. CASE RespuestaDumpSusp
    <3>1. hilo["memoria"].p \in Pids
      BY <1>0, <2>3, HilosDe DEF RespuestaDumpSusp, TypeOK, TiposHilo, Ociosas
    <3> QED BY <2>3, <3>1 DEF RespuestaDumpSusp, timerVars
  <2> QED BY <1>10, <2>1, <2>2, <2>3 DEF RespuestasMemoria
<1> QED BY <1>1, <1>2, <1>3, <1>4, <1>5, <1>6, <1>8, <1>9, <1>10 DEF Next, Largo, Dispatch

\* Where a suspended process is, and where the others are.
LEMMA LugarSuspendido ==
  ASSUME IInv, NEW p \in Pids
  PROVE  /\ p \in lista["SUSP_BLOCKED"] =>
              p \notin Range(cola["SUSP_READY"]) /\ p \notin lista["EXIT"] /\ p \notin lista["TIMER"]
         /\ p \in Suspendidos =>
              /\ p \notin lista["TIMER"] /\ p \notin Range(cola["NEW"])
              /\ \A t \in Hilos : hilo[t].p = p => hilo[t].en \notin EnMano(t)
         /\ Concedido(p) => p \in Range(cola["SUSP_READY"])
         /\ hilo["largo"].en \in {"desus_envia", "desus_espera", "desus_agrega"} /\ hilo["largo"].p = p
              => p \in Range(cola["SUSP_READY"])
<1>0. UnSoloLugar /\ PunteroVigente
  BY DEF IInv
<1>1. p \in lista["SUSP_BLOCKED"] =>
        /\ p \notin Range(cola["SUSP_READY"]) /\ p \notin lista["EXIT"] /\ p \notin lista["TIMER"]
        /\ p \notin Range(cola["NEW"])
        /\ \A t \in Hilos : hilo[t].p = p => hilo[t].en \notin EnMano(t)
  <2>1. ASSUME p \in lista["SUSP_BLOCKED"] PROVE En("SUSP_BLOCKED", p) /\ "SUSP_BLOCKED" \in Lugar
    BY <2>1, EnPartes DEF Lugar, Grupos
  <2> QED BY <1>0, <2>1, NoEstaEnOtro, Disjuntos DEF Grupos, Estados
<1>2. p \in Range(cola["SUSP_READY"]) =>
        /\ p \notin lista["TIMER"] /\ p \notin Range(cola["NEW"])
        /\ \A t \in Hilos : hilo[t].p = p => hilo[t].en \notin EnMano(t)
  <2>1. ASSUME p \in Range(cola["SUSP_READY"]) PROVE En("SUSP_READY", p) /\ "SUSP_READY" \in Lugar
    BY <2>1, EnPartes DEF Lugar, Estados
  <2> QED BY <1>0, <2>1, NoEstaEnOtro, Disjuntos DEF Grupos, Estados
<1> QED BY <1>0, <1>1, <1>2 DEF Suspendidos, Concedido, PunteroVigente

\* The steps in which the sockets do not change.
LEMMA SuspensionCallada ==
  ASSUME IInv, IInv', SuspInv, "timer" \notin Carreras, [Next]_vars, UNCHANGED <<aMemoria, residencia>>,
         Dijo("DESUSPENDER")' <=> Dijo("DESUSPENDER"), ~RespuestaDesuspender
  PROVE  \A p \in Pids : Suspension(p)'
<1> SUFFICES ASSUME NEW p \in Pids PROVE Suspension(p)'
  OBVIOUS
<1>0. /\ Suspension(p) /\ TypeOK /\ TiposPlan /\ TiposTimer /\ TiposHilo /\ "largo" \in Hilos
      /\ cola \in [Estados -> Seq(Pids)] /\ lista \in [Grupos -> SUBSET Pids]
      /\ aviso \in [Pids -> Nat] /\ {"SUSP_BLOCKED", "TIMER"} \subseteq Grupos
      /\ {"SUSP_READY", "READY"} \subseteq Estados
  BY HilosDe DEF SuspInv, IInv, TypeOK, TiposPlan, TiposTimer, Grupos, Estados
<1>s. ~EnviarDesuspender /\ ~(\E q \in Pids : TimerAvisa(q))
  <2>1. aMemoria \in Seq(Peticiones)
    BY <1>0 DEF TypeOK, TiposMem
  <2>2. ASSUME NEW op \in {"SUSPENDER", "DESUSPENDER"}, NEW q \in Pids,
               aMemoria' = Append(aMemoria, [op |-> op, p |-> q])
        PROVE  FALSE
    <3>1. PICK m \in Peticiones : m = [op |-> op, p |-> q]
      BY DEF Peticiones
    <3>2. aMemoria' = Append(aMemoria, m)
      BY <2>2, <3>1
    <3>3. Len(Append(aMemoria, m)) = Len(aMemoria) + 1 /\ Len(aMemoria) \in Nat
      BY <2>1, AppendProperties, LenProperties
    <3> QED BY <3>2, <3>3
  <2>3. ~EnviarDesuspender
    <3>1. EnviarDesuspender => hilo["largo"].p \in Pids
      BY <1>0 DEF EnviarDesuspender, TiposHilo, Ociosas
    <3> QED BY <2>2, <3>1 DEF EnviarDesuspender, EnviarPedido
  <2>4. ASSUME NEW q \in Pids, TimerAvisa(q) PROVE FALSE
    BY <1>0, <2>2, <2>4, LeePidTipo DEF TimerAvisa
  <2> QED BY <2>3, <2>4
<1>c. ~DesuspendidoAReady => (Concedido(p)' <=> Concedido(p))
  BY <1>s, LargoAparte, ConcedidoIgual
<1>i. ASSUME ~DesuspendidoAReady, aviso'[p] = aviso[p],
             aviso[p] = 1 /\ p \in lista["SUSP_BLOCKED"] => p \in lista'["SUSP_BLOCKED"],
             (p \in Suspendidos)' <=> p \in Suspendidos
      PROVE  Suspension(p)'
  BY <1>0, <1>c, <1>i, SuspensionIgual
<1>j. ASSUME ~DesuspendidoAReady, Intactos, UNCHANGED aviso PROVE Suspension(p)'
  <2>1. (p \in Suspendidos)' <=> p \in Suspendidos
    BY <1>j DEF Intactos, Suspendidos
  <2> QED BY <1>i, <1>j, <2>1 DEF Intactos
<1>1. CASE DesuspendidoAReady
  <2>1. PICK q \in Pids : q = hilo["largo"].p
    BY <1>0, <1>1 DEF DesuspendidoAReady, TiposHilo, Ociosas
  <2>2. /\ UNCHANGED <<lista, aviso>> /\ hilo["largo"].en = "desus_agrega"
        /\ cola' = Agrega([cola EXCEPT !["SUSP_READY"] = Saca(@, q)], "READY", q)
        /\ Va("largo", "desus_reinicia")
    BY <1>1, <2>1 DEF DesuspendidoAReady, timerVars
  <2>3. cola'["SUSP_READY"] = Saca(cola["SUSP_READY"], q)
    BY <1>0, <2>2 DEF Agrega
  <2>4. Range(Saca(cola["SUSP_READY"], q)) = Range(cola["SUSP_READY"]) \ {q}
    <3>1. IsInjective(cola["SUSP_READY"]) /\ cola["SUSP_READY"] \in Seq(Pids)
      BY <1>0 DEF IInv, UnSoloLugar
    <3> QED BY <3>1, RemoveFirstPropiedades DEF Saca
  <2>5. ~Concedido(p)' /\ (Concedido(p) <=> p = q)
    <3>1. hilo'["largo"].en = "desus_reinicia"
      BY <1>0, <2>2, SoloUno
    <3> QED BY <2>1, <2>2, <3>1 DEF Concedido
  <2>6. p \in Suspendidos' <=> p \in Suspendidos /\ p # q
    <3>1. p = q => p \notin lista["SUSP_BLOCKED"]
      BY <2>1, <2>2, LugarSuspendido
    <3> QED BY <2>2, <2>3, <2>4, <3>1 DEF Suspendidos
  <2>7. p = q => p \notin lista["SUSP_BLOCKED"]
    BY <2>1, <2>2, LugarSuspendido
  <2>8. p # q => Suspension(p)'
    BY <1>0, <2>2, <2>5, <2>6, SuspensionIgual
  <2>9. p = q => Suspension(p)'
    BY <1>0, <2>2, <2>5, <2>6, <2>7 DEF Suspension
  <2> QED BY <2>8, <2>9
<1>2. ASSUME NEW q \in Pids, TimerSuspende(q) PROVE Suspension(p)'
  <2>1. /\ q \in lista["TIMER"] /\ lista' = Mueve("TIMER", "SUSP_BLOCKED", q)
        /\ aviso' = [aviso EXCEPT ![q] = @ + 1] /\ UNCHANGED <<cola, hilo>>
    BY <1>2 DEF TimerSuspende
  <2>2. lista'["SUSP_BLOCKED"] = lista["SUSP_BLOCKED"] \cup {q}
    BY <1>0, <2>1 DEF Mueve
  <2>3. p \in Suspendidos' <=> p \in Suspendidos \/ p = q
    BY <2>1, <2>2 DEF Suspendidos
  <2>4. ~DesuspendidoAReady
    <3>1. DesuspendidoAReady => hilo["largo"].en = "desus_agrega" /\ hilo'["largo"].en = "desus_reinicia"
      BY <1>0, SoloUno DEF DesuspendidoAReady
    <3> QED BY <2>1, <3>1
  <2>5. CASE p # q
    <3>1. aviso'[p] = aviso[p]
      BY <1>0, <2>1, <2>5
    <3> QED BY <1>i, <2>2, <2>3, <2>4, <2>5, <3>1
  <2>6. CASE p = q
    <3>1. p \notin Suspendidos /\ ~Concedido(p)
      BY <2>1, <2>6, LugarSuspendido DEF Suspendidos
    <3>2. aviso[p] = 0
      BY <1>0, <3>1 DEF Suspension, Suspendidos
    <3>3. aviso'[p] = 1
      BY <1>0, <2>1, <2>6, <3>2
    <3>4. p \in lista'["SUSP_BLOCKED"] /\ ~Concedido(p)'
      BY <1>c, <2>2, <2>4, <2>6, <3>1
    <3> QED BY <1>0, <3>1, <3>3, <3>4 DEF Suspension
  <2> QED BY <2>5, <2>6
<1>3. ASSUME NEW c \in CPUs, Busca(c, "busca_SUSP", "SUSP_BLOCKED", "recibe"), UNCHANGED <<cola, aviso>>
      PROVE  Suspension(p)'
  <2>1. c \in Hilos /\ c # "largo"
    BY HilosDe, Disjuntos
  <2>2. PICK q \in Pids : q = hilo[c].p
    BY <1>0, <1>3, <2>1 DEF Busca, TiposHilo, Ociosas
  <2>3. Terminal(q)
    BY <1>3, <2>2 DEF Busca, SuspInv, Terminales, Buscando
  <2>4. q \notin lista["SUSP_BLOCKED"]
    BY <2>3, TerminalLugar
  <2>5. UNCHANGED lista
    BY <1>3, <2>2, <2>4 DEF Busca
  <2>6. ~DesuspendidoAReady
    <3>1. DesuspendidoAReady => hilo["largo"].en = "desus_agrega" /\ hilo'["largo"].en = "desus_reinicia"
      BY <1>0, SoloUno DEF DesuspendidoAReady
    <3>2. hilo'["largo"] = hilo["largo"]
      BY <1>0, <1>3, <2>1, SoloUno DEF Busca
    <3> QED BY <3>1, <3>2
  <2> QED BY <1>3, <1>j, <2>5, <2>6 DEF Intactos
<1>4. ASSUME NEW q \in Pids, DesdeSUSP_BLOCKED(q), UNCHANGED aviso, ~DesuspendidoAReady
      PROVE  Suspension(p)'
  <2>1. CASE q \notin lista["SUSP_BLOCKED"]
    BY <1>4, <1>j, <2>1 DEF DesdeSUSP_BLOCKED, Intactos
  <2>2. CASE q \in lista["SUSP_BLOCKED"]
    <3>1. /\ aviso[q] = 0 /\ lista' = [lista EXCEPT !["SUSP_BLOCKED"] = @ \ {q}]
          /\ cola' = Agrega(cola, "SUSP_READY", q)
      BY <1>4, <2>2 DEF DesdeSUSP_BLOCKED, FueraDeVentana, agregar_a_SUSP_READY
    <3>2. lista'["SUSP_BLOCKED"] = lista["SUSP_BLOCKED"] \ {q}
      BY <1>0, <3>1
    <3>3. Range(cola'["SUSP_READY"]) = Range(cola["SUSP_READY"]) \cup {q}
      <4>1. cola'["SUSP_READY"] = Append(cola["SUSP_READY"], q) /\ cola["SUSP_READY"] \in Seq(Pids)
        BY <1>0, <3>1 DEF Agrega
      <4> QED BY <4>1, UnoMas
    <3>4. (p \in Suspendidos)' <=> p \in Suspendidos
      BY <2>2, <3>2, <3>3 DEF Suspendidos
    <3>5. aviso[p] = 1 /\ p \in lista["SUSP_BLOCKED"] => p \in lista'["SUSP_BLOCKED"]
      BY <3>1, <3>2
    <3> QED BY <1>4, <1>i, <3>4, <3>5
  <2> QED BY <2>1, <2>2
<1> QED BY <1>1, <1>2, <1>3, <1>4, <1>j, <1>s, QuienSuspende

\* A request that is not a suspension, and asks for frames only for who is not suspended.
LEMMA SuspensionPide ==
  ASSUME IInv, SuspInv, UNCHANGED <<cola, lista, aviso, residencia>>,
         \A p : Concedido(p)' <=> Concedido(p),
         NEW m \in Peticiones, m.op # "SUSPENDER", aMemoria' = Append(aMemoria, m),
         m.op = "CREAR" => m.p \notin Suspendidos
  PROVE  /\ \A p \in Pids : Suspension(p)'
         /\ SinTras(aMemoria, "DESUSPENDER", "SUSPENDER")'
         /\ SinTras(aMemoria, "SUSPENDER", "SUSPENDER")'
<1>1. ASSUME NEW p \in Pids PROVE Suspension(p)'
  <2>1. (p \in Suspendidos)' <=> p \in Suspendidos
    BY DEF Suspendidos
  <2>2. /\ Hay(aMemoria', "SUSPENDER", p) <=> Hay(aMemoria, "SUSPENDER", p)
        /\ p \in Suspendidos /\ Cubierto(aMemoria, p) => Cubierto(aMemoria', p)
    BY PideOtro DEF IInv
  <2> QED BY <2>1, <2>2, SuspensionIgual DEF SuspInv
<1>2. \A a : SinTras(aMemoria, a, "SUSPENDER") => SinTras(aMemoria', a, "SUSPENDER")
  BY PideOtro DEF IInv
<1>3. SinTras(aMemoria', "DESUSPENDER", "SUSPENDER") /\ SinTras(aMemoria', "SUSPENDER", "SUSPENDER")
  BY <1>2 DEF SuspInv
<1> QED BY <1>1, <1>3

\* A timer tells the memory.
LEMMA SuspensionAvisa ==
  ASSUME IInv, SuspInv, NEW p \in Pids, TimerAvisa(p)
  PROVE  SuspInv' \/ ~Terminales'
<1>0. /\ TypeOK /\ aMemoria \in Seq(Peticiones) /\ aviso \in [Pids -> Nat] /\ Suspension(p)
  BY DEF IInv, TypeOK, TiposMem, TiposTimer, SuspInv
<1>1. aviso[p] = 1 /\ p \in lista["SUSP_BLOCKED"] /\ ~Hay(aMemoria, "SUSPENDER", p)
  BY <1>0 DEF TimerAvisa, Suspension
<1>2. LeePid(p) = {p}
  BY <1>1, LugarSuspendido DEF LeePid
<1>3. PICK m \in Peticiones : m = [op |-> "SUSPENDER", p |-> p]
  BY DEF Peticiones
<1>4. /\ aMemoria' = Append(aMemoria, m) /\ m.op = "SUSPENDER" /\ m.p = p
      /\ aviso' = [aviso EXCEPT ![p] = @ - 1]
      /\ UNCHANGED <<cola, lista, hilo, deMemoria, residencia, respVars>>
  BY <1>2, <1>3 DEF TimerAvisa
<1>5. ~Hay(aMemoria, "DESUSPENDER", p)
  <2>1. ASSUME Hay(aMemoria, "DESUSPENDER", p) PROVE FALSE
    <3>1. HayOp(aMemoria, "DESUSPENDER")
      BY <2>1 DEF Hay, HayOp
    <3>2. hilo["largo"].en = "desus_espera"
      BY <3>1 DEF SuspInv, Turno, Libre
    <3>3. hilo["largo"].p = p
      BY <2>1, <3>2 DEF SuspInv, Turno, EnCurso, Hay
    <3> QED BY <1>1, <3>2, <3>3, LugarSuspendido
  <2> QED BY <2>1
<1>6. SinTras(aMemoria', "DESUSPENDER", "SUSPENDER") /\ SinTras(aMemoria', "SUSPENDER", "SUSPENDER")
  BY <1>0, <1>1, <1>4, <1>5, OrdenMas DEF SuspInv
<1>7. Turno("DESUSPENDER", {"largo"}, "desus_espera")'
  <2>1. Turno("DESUSPENDER", {"largo"}, "desus_espera")
    BY DEF SuspInv
  <2> QED BY <1>0, <1>4, <2>1, TurnoAjeno DEF respVars
<1>8. \A q : Concedido(q)' <=> Concedido(q)
  <2>1. Dijo("DESUSPENDER")' <=> Dijo("DESUSPENDER")
    BY <1>4 DEF Dijo, respVars
  <2> QED BY <1>4, <2>1, ConcedidoIgual
<1>9. Range(aMemoria') = Range(aMemoria) \cup {m}
  BY <1>0, <1>4, UnoMas
<1>10. ASSUME NEW q \in Pids PROVE Suspension(q)'
  <2>1. (q \in Suspendidos)' <=> q \in Suspendidos
    BY <1>4 DEF Suspendidos
  <2>2. CASE q # p
    <3>1. /\ Hay(aMemoria', "SUSPENDER", q) <=> Hay(aMemoria, "SUSPENDER", q)
          /\ aviso'[q] = aviso[q]
      BY <1>0, <1>4, <1>9, <2>2 DEF Hay
    <3>2. Cubierto(aMemoria, q) => Cubierto(aMemoria', q)
      BY <1>0, <1>4, CubiertoMas
    <3> QED BY <1>4, <1>8, <2>1, <3>1, <3>2, SuspensionIgual DEF SuspInv
  <2>3. CASE q = p
    <3>1. aviso'[p] = 0 /\ p \in Suspendidos
      BY <1>0, <1>1, <1>4 DEF Suspendidos
    <3>2. Hay(aMemoria', "SUSPENDER", p)
      BY <1>4, <1>9 DEF Hay
    <3>3. ~Concedido(p)'
      BY <1>1, <1>8, LugarSuspendido
    <3>4. Cubierto(aMemoria', p)
      BY <1>0, <1>4, CubiertoMas
    <3>5. residencia[p].swap # 1
      BY <1>0, <1>1 DEF Suspension
    <3> QED BY <1>0, <1>4, <2>1, <2>3, <3>1, <3>2, <3>3, <3>4, <3>5 DEF Suspension
  <2> QED BY <2>2, <2>3
<1> QED BY <1>6, <1>7, <1>10 DEF SuspInv

\* The long term planner asks for a suspended process.
LEMMA SuspensionPideVuelta ==
  ASSUME IInv, SuspInv, EnviarDesuspender
  PROVE  SuspInv' \/ ~Terminales'
<1>0. /\ TypeOK /\ TiposHilo /\ "largo" \in Hilos /\ hilo["largo"].p \in Pids
      /\ Turno("DESUSPENDER", {"largo"}, "desus_espera")
  BY HilosDe DEF IInv, TypeOK, TiposHilo, Ociosas, EnviarDesuspender, SuspInv
<1>1. PICK m \in Peticiones : m = [op |-> "DESUSPENDER", p |-> hilo["largo"].p]
  BY <1>0 DEF Peticiones
<1>2. /\ aMemoria' = Append(aMemoria, m) /\ m.op = "DESUSPENDER" /\ m.p = hilo["largo"].p
      /\ hilo["largo"].en = "desus_envia"
      /\ UNCHANGED <<cola, lista, aviso, deMemoria, residencia, binario, respuesta>>
  BY <1>1 DEF EnviarDesuspender, EnviarPedido, planVars, timerVars, respVars
<1>3. hilo'["largo"].en = "desus_espera" /\ hilo'["largo"].p = hilo["largo"].p
  BY <1>0, SoloUno DEF EnviarDesuspender
<1>4. Turno("DESUSPENDER", {"largo"}, "desus_espera")'
  BY <1>0, <1>2, <1>3, TurnoPide
<1>5. ~Dijo("DESUSPENDER")'
  <2>1. Libre(aMemoria, deMemoria, binario["DESUSPENDER"], "DESUSPENDER")
    BY <1>0, <1>2 DEF Turno
  <2> QED BY <1>2, <2>1 DEF Libre, Dijo, HayOp
<1>6. \A p : Concedido(p)' <=> Concedido(p)
  <2>1. \A p : ~Concedido(p)
    BY <1>2 DEF Concedido
  <2>2. ASSUME NEW p PROVE ~Concedido(p)'
    BY <1>3, <1>5 DEF Concedido
  <2> QED BY <2>1, <2>2
<1>7. /\ \A p \in Pids : Suspension(p)'
      /\ SinTras(aMemoria, "DESUSPENDER", "SUSPENDER")'
      /\ SinTras(aMemoria, "SUSPENDER", "SUSPENDER")'
  BY <1>2, <1>6, SuspensionPide
<1> QED BY <1>4, <1>7 DEF SuspInv

\* ... and reads the answer.
LEMMA SuspensionVuelve ==
  ASSUME IInv, SuspInv, RespuestaDesuspender
  PROVE  SuspInv' \/ ~Terminales'
<1>0. /\ TypeOK /\ TiposHilo /\ "largo" \in Hilos
      /\ Turno("DESUSPENDER", {"largo"}, "desus_espera")
      /\ binario \in [Pedidos -> Nat] /\ "DESUSPENDER" \in Pedidos
  BY HilosDe DEF IInv, TypeOK, TiposResp, Pedidos, SuspInv
<1>1. /\ hilo["largo"].en = "desus_espera" /\ binario["DESUSPENDER"] > 0
      /\ binario'["DESUSPENDER"] = binario["DESUSPENDER"] - 1
      /\ UNCHANGED <<cola, lista, aviso, aMemoria, deMemoria, residencia, respuesta>>
  BY <1>0 DEF RespuestaDesuspender, planVars, timerVars, memVars
<1>2. \/ respuesta["DESUSPENDER"] /\ hilo'["largo"].en = "desus_agrega" /\ hilo'["largo"].p = hilo["largo"].p
      \/ ~respuesta["DESUSPENDER"] /\ hilo'["largo"].en = "espera"
  BY <1>0, SoloUno DEF RespuestaDesuspender
<1>3. /\ Turno("DESUSPENDER", {"largo"}, "desus_espera")'
      /\ binario["DESUSPENDER"] = 1 /\ ~HayOp(deMemoria, "DESUSPENDER")
  BY <1>0, <1>1, <1>2, TurnoToma
<1>4. \A p : Concedido(p)' <=> Concedido(p)
  <2>1. Dijo("DESUSPENDER") <=> respuesta["DESUSPENDER"]
    BY <1>3 DEF Dijo, HayOp
  <2>2. ASSUME NEW p PROVE Concedido(p)' <=> Concedido(p)
    BY <1>1, <1>2, <2>1 DEF Concedido
  <2> QED BY <2>2
<1>5. ASSUME NEW p \in Pids PROVE Suspension(p)'
  <2>1. (p \in Suspendidos)' <=> p \in Suspendidos
    BY <1>1 DEF Suspendidos
  <2> QED BY <1>1, <1>4, <2>1, SuspensionIgual DEF SuspInv
<1>6. SinTras(aMemoria, "DESUSPENDER", "SUSPENDER")' /\ SinTras(aMemoria, "SUSPENDER", "SUSPENDER")'
  BY <1>1 DEF SuspInv
<1> QED BY <1>3, <1>5, <1>6 DEF SuspInv

\* Every process has pages.
Paginados == \A p \in Pids : Tamanio[p] > 0

\* The memory attends a request.
LEMMA SuspensionAtendida ==
  ASSUME IInv, SuspInv, Paginados, Memoria
  PROVE  SuspInv' \/ ~Terminales'
<1>0. /\ TypeOK /\ aMemoria \in Seq(Peticiones) /\ residencia \in [Pids -> [lista : BOOLEAN, marcos : BOOLEAN, swap : Nat]]
      /\ Turno("DESUSPENDER", {"largo"}, "desus_espera") /\ Tamanio \in [Pids -> Nat]
  BY ConstantesOK DEF IInv, TypeOK, TiposMem, SuspInv
<1>1. aMemoria # <<>> /\ aMemoria' = Tail(aMemoria)
  BY DEF Memoria
<1>2. PICK h \in Peticiones : h = Head(aMemoria)
  BY <1>0, <1>1, UnoMenos
<1>3. PICK p \in Pids : p = h.p
  BY DEF Peticiones
<1>4. PICK x : x = Atencion(h.op, p).x
  OBVIOUS
<1>5. /\ residencia' = [residencia EXCEPT ![p] = x]
      /\ UNCHANGED <<cola, lista, aviso, hilo, binario, respuesta>>
  BY <1>2, <1>3, <1>4 DEF Memoria, planVars, timerVars, respVars
<1>6. /\ Range(aMemoria') \subseteq Range(aMemoria) /\ h \in Range(aMemoria)
      /\ \A m \in Range(aMemoria) : m = h \/ m \in Range(aMemoria')
  BY <1>0, <1>1, <1>2, UnoMenos
<1>7. /\ SinTras(aMemoria', "DESUSPENDER", "SUSPENDER") /\ SinTras(aMemoria', "SUSPENDER", "SUSPENDER")
      /\ h.op \in {"DESUSPENDER", "SUSPENDER"} => ~Hay(aMemoria', "SUSPENDER", p)
  BY <1>0, <1>1, <1>2, <1>3, OrdenMenos DEF SuspInv
<1>8. /\ \A q : Cubierto(aMemoria, q) => Cubierto(aMemoria', q)
      /\ Cubierto(aMemoria, p) /\ h.op = "CREAR" => Hay(aMemoria', "SUSPENDER", p)
  BY <1>0, <1>1, <1>2, <1>3, CubiertoMenos
<1>9. \A q : q # p \/ h.op # "SUSPENDER" =>
               (Hay(aMemoria', "SUSPENDER", q) <=> Hay(aMemoria, "SUSPENDER", q))
  BY <1>3, <1>6 DEF Hay
<1>10. Hay(aMemoria, h.op, p)
  BY <1>3, <1>6 DEF Hay
<1>11. Suspension(p) /\ \A q : (q \in Suspendidos)' <=> q \in Suspendidos
  BY <1>5 DEF SuspInv, Suspendidos
<1>12. ASSUME h.op = "DESUSPENDER"
       PROVE  /\ hilo["largo"].en = "desus_espera" /\ hilo["largo"].p = p
              /\ p \in Suspendidos /\ aviso[p] = 0 /\ ~Hay(aMemoria, "SUSPENDER", p)
              /\ ~Concedido(p) /\ ~residencia[p].marcos
              /\ residencia[p].lista => residencia[p].swap = 1
  <2>1. HayOp(aMemoria, "DESUSPENDER")
    BY <1>6, <1>12 DEF HayOp
  <2>2. hilo["largo"].en = "desus_espera"
    BY <1>0, <2>1 DEF Turno, Libre
  <2>3. EnCurso(aMemoria, deMemoria, binario["DESUSPENDER"], "DESUSPENDER", hilo["largo"].p)
    BY <1>0, <2>2 DEF Turno
  <2>4. hilo["largo"].p = p
    BY <1>3, <1>6, <1>12, <2>3 DEF EnCurso
  <2>5. ~Dijo("DESUSPENDER")
    BY <2>1, <2>3 DEF EnCurso, Dijo, HayOp
  <2>6. p \in Range(cola["SUSP_READY"])
    BY <2>2, <2>4, LugarSuspendido
  <2>7. p \in Suspendidos /\ p \notin lista["SUSP_BLOCKED"]
    BY <2>6, LugarSuspendido DEF Suspendidos
  <2>8. aviso[p] = 0
    BY <1>11, <2>7 DEF Suspension
  <2>9. ~Hay(aMemoria, "SUSPENDER", p)
    BY <1>7, <1>9, <1>12
  <2>10. ~Concedido(p)
    BY <2>2, <2>5 DEF Concedido
  <2> QED BY <1>11, <2>2, <2>4, <2>7, <2>8, <2>9, <2>10 DEF Suspension
<1>13. /\ "DESUSPENDER" \in Pedidos
       /\ h.op = "DESUSPENDER" =>
            \A q : q = Head(aMemoria).p /\ residencia[q].lista /\ Entra(q) =>
                      residencia[q].swap # 0 /\ Tamanio[q] # 0
  BY <1>0, <1>2, <1>3, <1>12 DEF Pedidos, Paginados
<1>14. \/ /\ h.op # "DESUSPENDER"
          /\ \E r \in Seq(Respuestas) : /\ deMemoria' = deMemoria \o r
                                        /\ \A y \in Range(r) : y.op # "DESUSPENDER"
       \/ /\ h.op = "DESUSPENDER"
          /\ \E y \in Respuestas : /\ deMemoria' = Append(deMemoria, y)
                                   /\ y.op = "DESUSPENDER" /\ y.p = p
                                   /\ Atencion("DESUSPENDER", p).r = <<y>>
  BY <1>0, <1>2, <1>3, <1>13, Contesta
<1>15. Turno("DESUSPENDER", {"largo"}, "desus_espera")'
  BY <1>0, <1>1, <1>2, <1>3, <1>5, <1>14, TurnoAtiende
<1>16. \A q : h.op # "DESUSPENDER" \/ q # p => (Concedido(q)' <=> Concedido(q))
  <2>1. CASE h.op # "DESUSPENDER"
    <3>1. Dijo("DESUSPENDER")' <=> Dijo("DESUSPENDER")
      BY <1>0, <1>5, <1>14, <2>1, DijoIgual
    <3> QED BY <1>5, <3>1, ConcedidoIgual
  <2>2. CASE h.op = "DESUSPENDER"
    <3>1. ASSUME NEW q, q # p PROVE ~Concedido(q) /\ ~Concedido(q)'
      BY <1>5, <1>12, <2>2, <3>1 DEF Concedido
    <3> QED BY <2>2, <3>1
  <2> QED BY <2>1, <2>2
<1>17. ASSUME NEW q \in Pids, q # p PROVE Suspension(q)'
  <2>1. residencia'[q] = residencia[q] /\ aviso'[q] = aviso[q]
    BY <1>0, <1>5, <1>17
  <2> QED BY <1>5, <1>8, <1>9, <1>11, <1>16, <1>17, <2>1, SuspensionIgual DEF SuspInv
<1>18. Suspension(p)'
  <2>0. residencia'[p] = x /\ aviso'[p] = aviso[p] /\ residencia[p] \in [lista : BOOLEAN, marcos : BOOLEAN, swap : Nat]
    BY <1>0, <1>5
  <2>1. CASE h.op = "CREAR"
    <3>1. x = residencia[p] \/ (x.lista /\ x.marcos /\ x.swap = 0)
      BY <1>4, <2>1 DEF Atencion
    <3>2. p \in Suspendidos /\ aviso[p] = 0 => Hay(aMemoria', "SUSPENDER", p) /\ Cubierto(aMemoria', p)
      BY <1>8, <1>11, <2>1 DEF Suspension
    <3>3. (Concedido(p)' <=> Concedido(p)) /\ (Hay(aMemoria', "SUSPENDER", p) <=> Hay(aMemoria, "SUSPENDER", p))
      BY <1>9, <1>16, <2>1
    <3> QED BY <1>5, <1>11, <2>0, <3>1, <3>2, <3>3 DEF Suspension
  <2>2. CASE h.op = "SUSPENDER"
    <3>1. ~Hay(aMemoria', "SUSPENDER", p) /\ p \in Suspendidos /\ ~Concedido(p) /\ ~Concedido(p)'
          /\ aviso[p] = 0 /\ residencia[p].swap = 0
      BY <1>7, <1>10, <1>11, <1>16, <2>2 DEF Suspension
    <3>2. \/ ~residencia[p].lista /\ x = residencia[p]
          \/ residencia[p].lista /\ x.lista /\ ~x.marcos /\ x.swap = 1
      BY <1>4, <2>0, <2>2, <3>1 DEF Atencion
    <3> QED BY <1>5, <1>8, <1>11, <2>0, <3>1, <3>2 DEF Suspension
  <2>3. CASE h.op = "DESUSPENDER"
    <3>1. PICK y \in Respuestas : /\ deMemoria' = Append(deMemoria, y)
                                  /\ y.op = "DESUSPENDER" /\ y.p = p
                                  /\ Atencion("DESUSPENDER", p).r = <<y>>
      BY <1>14, <2>3
    <3>2. ~Hay(aMemoria', "SUSPENDER", p)
      BY <1>7, <2>3
    <3>3. deMemoria \in Seq(Respuestas) /\ binario["DESUSPENDER"] = 0 /\ ~HayOp(deMemoria, "DESUSPENDER")
      <4>1. HayOp(aMemoria, "DESUSPENDER")
        BY <1>6, <2>3 DEF HayOp
      <4> QED BY <1>0, <1>12, <2>3, <4>1 DEF Turno, EnCurso, TypeOK, TiposMem
    <3>4. Concedido(p)' <=> y.ok
      <4>1. Range(deMemoria') = Range(deMemoria) \cup {y}
        BY <3>1, <3>3, UnoMas
      <4>2. Dijo("DESUSPENDER")' <=> y.ok
        BY <1>5, <3>1, <3>3, <4>1 DEF Dijo, HayOp, Respuestas
      <4> QED BY <1>5, <1>12, <2>3, <4>2 DEF Concedido
    <3>5. \/ ~y.ok /\ x = residencia[p]
          \/ y.ok /\ residencia[p].lista /\ x.lista /\ x.marcos /\ x.swap = 0
      <4>1. CASE ~residencia[p].lista \/ ~Entra(p)
        <5>1. Atencion("DESUSPENDER", p) = [r |-> <<Resp("DESUSPENDER", p, FALSE)>>, x |-> residencia[p]]
          BY <4>1 DEF Atencion
        <5> QED BY <1>4, <2>3, <3>1, <5>1 DEF Resp
      <4>2. CASE residencia[p].lista /\ Entra(p)
        <5>1. residencia[p].swap = 1 /\ Tamanio[p] # 0
          BY <1>0, <1>12, <2>3, <4>2 DEF Paginados
        <5>2. Atencion("DESUSPENDER", p) = [r |-> <<Resp("DESUSPENDER", p, TRUE)>>,
                x |-> [residencia[p] EXCEPT !.marcos = TRUE, !.swap = @ - 1]]
          BY <4>2, <5>1 DEF Atencion
        <5>3. y = Resp("DESUSPENDER", p, TRUE)
          <6>1. ASSUME NEW A, NEW B, NEW C, NEW D, A = [r |-> <<B>>, x |-> C], A.r = <<D>> PROVE D = B
            <7>1. <<D>> = <<B>>
              BY <6>1
            <7> QED BY <7>1
          <6>2. Atencion("DESUSPENDER", p).r = <<y>>
            BY <3>1
          <6> QED BY <5>2, <6>1, <6>2, Zenon
        <5>4. x = [residencia[p] EXCEPT !.marcos = TRUE, !.swap = @ - 1]
          BY <1>4, <2>3, <5>2
        <5>5. x.lista = residencia[p].lista /\ x.marcos = TRUE /\ x.swap = residencia[p].swap - 1
          BY <2>0, <5>4
        <5> QED BY <4>2, <5>1, <5>3, <5>5 DEF Resp
      <4> QED BY <4>1, <4>2
    <3>6. /\ p \in Suspendidos /\ aviso[p] = 0 /\ ~residencia[p].marcos
          /\ residencia[p].lista => residencia[p].swap = 1
      BY <1>12, <2>3
    <3> QED BY <1>5, <1>8, <1>11, <2>0, <3>2, <3>4, <3>5, <3>6 DEF Suspension
  <2>4. CASE h.op = "FINALIZAR"
    <3>1. Terminal(p)
      BY <1>10, <2>4 DEF SuspInv, Terminales
    <3>2. p \notin Suspendidos
      BY <3>1, TerminalLugar DEF Suspendidos
    <3>3. ~Concedido(p) /\ ~Concedido(p)'
      BY <1>16, <2>4, <3>2, LugarSuspendido DEF Suspendidos
    <3>4. residencia[p].swap = 0
      BY <1>11, <3>2 DEF Suspension
    <3>5. ~x.lista /\ ~x.marcos /\ x.swap = 0
      <4>1. x = [residencia[p] EXCEPT !.lista = FALSE, !.marcos = FALSE]
        BY <1>4, <2>4, <3>4 DEF Atencion
      <4> QED BY <2>0, <3>4, <4>1
    <3>6. Hay(aMemoria', "SUSPENDER", p) <=> Hay(aMemoria, "SUSPENDER", p)
      BY <1>9, <2>4
    <3> QED BY <1>5, <1>11, <2>0, <3>2, <3>3, <3>5, <3>6 DEF Suspension
  <2>5. CASE h.op = "DUMP"
    <3>1. x = residencia[p]
      BY <1>4, <2>5 DEF Atencion
    <3> QED BY <1>5, <1>8, <1>9, <1>11, <1>16, <2>0, <2>5, <3>1, SuspensionIgual
  <2> QED BY <2>1, <2>2, <2>3, <2>4, <2>5 DEF Peticiones
<1> QED BY <1>7, <1>15, <1>17, <1>18 DEF SuspInv

\* The steps of the others: who waits for the answer to DESUSPENDER, and what was said.
LEMMA TurnoVuelta ==
  ASSUME IInv, SuspInv, [Next]_vars, ~EnviarDesuspender, ~RespuestaDesuspender, ~DesuspendidoAReady,
         UNCHANGED deMemoria, binario'["DESUSPENDER"] = binario["DESUSPENDER"],
         UNCHANGED aMemoria \/ \E m \in Peticiones : m.op # "DESUSPENDER" /\ aMemoria' = Append(aMemoria, m)
  PROVE  Turno("DESUSPENDER", {"largo"}, "desus_espera")'
<1>1. \/ hilo'["largo"] = hilo["largo"]
      \/ hilo["largo"].en # "desus_espera" /\ hilo'["largo"].en # "desus_espera"
  BY LargoAparte
<1>2. TypeOK /\ Turno("DESUSPENDER", {"largo"}, "desus_espera")
  BY DEF IInv, SuspInv
<1> QED BY <1>1, <1>2, TurnoAjeno

\* That thread moves alone.
LEMMA RespondeSola ==
  ASSUME TiposHilo, RespuestasMemoria
  PROVE  \A t \in {"main", "largo"} \cup CPUs : hilo'[t] = hilo[t]
<1>1. \/ UNCHANGED hilo
      \/ \E e \in Etiquetas : Queda("memoria", e) \/ \E p, k : VaCon("memoria", e, p, k)
  BY DEF RespuestasMemoria, RespuestaPedido, RespuestaDump, RespuestaDumpSusp,
     RespuestaDesconocida, Etiquetas
<1>2. \A t \in {"main", "largo"} \cup CPUs : t \in Hilos \ {"memoria"}
  BY HilosDe, Disjuntos
<1> QED BY <1>1, <1>2, SoloUno, HilosDe

\* The thread that reads the answers: whoever waits still waits, and for the same word.
LEMMA TurnoContesta ==
  ASSUME TypeOK, NEW op \in Pedidos, NEW T, NEW e, Turno(op, T, e), RespuestasMemoria,
         \A t \in T : hilo'[t] = hilo[t]
  PROVE  Turno(op, T, e)' /\ (Dijo(op)' <=> Dijo(op))
<1>0. /\ deMemoria \in Seq(Respuestas)
      /\ binario \in [Pedidos -> Nat] /\ respuesta \in [Pedidos -> BOOLEAN]
  BY DEF TypeOK, TiposMem, TiposResp
<1>1. UNCHANGED aMemoria
  BY DEF RespuestasMemoria, RespuestaPedido, RespuestaDump, RespuestaDumpSusp,
     RespuestaDesconocida, memVars
<1>2. CASE RespuestaPedido
  <2>1. PICK m \in Respuestas : m = Head(deMemoria)
    BY <1>0, <1>2, UnoMenos DEF RespuestaPedido, RecibeMemoria
  <2>2. /\ deMemoria # <<>> /\ deMemoria' = Tail(deMemoria) /\ m.op \in Pedidos
        /\ respuesta' = [respuesta EXCEPT ![m.op] = m.ok]
        /\ binario' = [binario EXCEPT ![m.op] = @ + 1]
    BY <1>2, <2>1 DEF RespuestaPedido, RecibeMemoria
  <2>3. binario'[op] = IF m.op = op THEN binario[op] + 1 ELSE binario[op]
    BY <1>0, <2>2
  <2>4. Turno(op, T, e)'
    BY <1>0, <1>1, <2>1, <2>2, <2>3, TurnoLlega
  <2>5. CASE m.op # op
    <3>1. respuesta'[op] = respuesta[op]
      BY <1>0, <2>2, <2>5
    <3> QED BY <1>0, <2>1, <2>2, <2>3, <2>4, <2>5, <3>1, DijoIgual
  <2>6. CASE m.op = op
    <3>1. /\ Range(deMemoria') \subseteq Range(deMemoria) /\ m \in Range(deMemoria)
          /\ \A n \in Range(deMemoria) : n = m \/ n \in Range(deMemoria')
      BY <1>0, <2>1, <2>2, UnoMenos
    <3>2. HayOp(deMemoria, op)
      BY <2>6, <3>1 DEF HayOp
    <3>3. PICK t \in T : EnCurso(aMemoria, deMemoria, binario[op], op, hilo[t].p)
      BY <3>2 DEF Turno, Libre
    <3>4. binario[op] = 0 /\ Una(deMemoria, op)
      BY <3>2, <3>3 DEF EnCurso
    <3>5. ~HayOp(deMemoria', op)
      BY <1>0, <2>1, <2>2, <2>6, <3>4, UnaMenos
    <3>6. Dijo(op) <=> m.ok
      BY <2>6, <3>1, <3>4, <3>5 DEF Dijo, HayOp
    <3>7. binario'[op] = 1 /\ respuesta'[op] = m.ok
      BY <1>0, <2>2, <2>6, <3>4
    <3>8. Dijo(op)' <=> m.ok
      BY <3>5, <3>7 DEF Dijo, HayOp, Respuestas
    <3> QED BY <2>4, <3>6, <3>8
  <2> QED BY <2>5, <2>6
<1>3. CASE RespuestaDumpSusp
  <2>1. UNCHANGED <<deMemoria, binario, respuesta>>
    BY <1>3 DEF RespuestaDumpSusp, memVars, respVars
  <2>2. Turno(op, T, e)'
    BY <1>1, <2>1, TurnoAjeno
  <2> QED BY <2>1, <2>2, DijoIgual
<1>4. CASE RespuestaDump \/ RespuestaDesconocida
  <2>1. /\ deMemoria # <<>> /\ deMemoria' = Tail(deMemoria) /\ Head(deMemoria).op # op
        /\ UNCHANGED <<binario, respuesta>>
    BY <1>4 DEF RespuestaDump, RespuestaDesconocida, RecibeMemoria, respVars, Pedidos
  <2>2. Turno(op, T, e)'
    BY <1>1, <2>1, TurnoLlega
  <2> QED BY <2>1, <2>2, DijoIgual
<1> QED BY <1>2, <1>3, <1>4 DEF RespuestasMemoria

\* The answers.
LEMMA SuspensionContestada ==
  ASSUME IInv, IInv', SuspInv, "timer" \notin Carreras, [Next]_vars, RespuestasMemoria
  PROVE  SuspInv' \/ ~Terminales'
<1>0. TypeOK /\ TiposHilo /\ Turno("DESUSPENDER", {"largo"}, "desus_espera") /\ "DESUSPENDER" \in Pedidos
  BY DEF IInv, TypeOK, Pedidos, SuspInv
<1>1. UNCHANGED <<aMemoria, residencia>>
  BY DEF RespuestasMemoria, RespuestaPedido, RespuestaDump, RespuestaDumpSusp,
     RespuestaDesconocida, memVars
<1>2. hilo'["largo"] = hilo["largo"]
  BY <1>0, RespondeSola
<1>3. ~RespuestaDesuspender
  <2>1. RespuestaDesuspender => hilo'["largo"].en # "desus_espera" /\ hilo["largo"].en = "desus_espera"
    BY <1>0, SoloUno, HilosDe DEF RespuestaDesuspender
  <2> QED BY <1>2, <2>1
<1>4. /\ Dijo("DESUSPENDER")' <=> Dijo("DESUSPENDER")
      /\ Turno("DESUSPENDER", {"largo"}, "desus_espera")'
  BY <1>0, <1>2, TurnoContesta
<1>5. \A p \in Pids : Suspension(p)'
  BY <1>1, <1>3, <1>4, SuspensionCallada
<1>6. SinTras(aMemoria, "DESUSPENDER", "SUSPENDER")' /\ SinTras(aMemoria, "SUSPENDER", "SUSPENDER")'
  BY <1>1 DEF SuspInv
<1> QED BY <1>4, <1>5, <1>6 DEF SuspInv

\* SuspInv at the start: the memory is empty and nobody asks.
LEMMA SuspInicial == Init => SuspInv
<1> SUFFICES ASSUME Init PROVE SuspInv
  OBVIOUS
<1>0. IInv
  BY InvInicial
<1>1. /\ aMemoria = <<>> /\ deMemoria = <<>> /\ lista = [g \in Grupos |-> {}]
      /\ cola = [q \in Estados |-> <<>>] /\ aviso = [p \in Pids |-> 0]
      /\ residencia = [p \in Pids |-> NoEsta] /\ binario = [o \in Pedidos |-> 0]
  BY DEF Init
<1>2. /\ hilo["largo"].en = "apagado"
      /\ \A c \in CPUs : hilo[c].en = "recibe"
  BY HilosDe, Disjuntos DEF Init, Parado
<1>3. Range(<<>>) = {} /\ DOMAIN aMemoria = {} /\ DOMAIN deMemoria = {}
  BY <1>1 DEF Range
<1>4. Terminales
  BY <1>1, <1>2, <1>3 DEF Terminales, Hay, Buscando
<1>5. Turno("DESUSPENDER", {"largo"}, "desus_espera")
  BY <1>1, <1>2, <1>3 DEF Turno, Libre, HayOp, Pedidos
<1>6. SinTras(aMemoria, "DESUSPENDER", "SUSPENDER") /\ SinTras(aMemoria, "SUSPENDER", "SUSPENDER")
  BY <1>3 DEF SinTras
<1>7. ASSUME NEW p \in Pids PROVE Suspension(p)
  <2>1. p \notin Suspendidos
    BY <1>1, <1>3 DEF Suspendidos, Grupos, Estados
  <2>2. ~Concedido(p)
    BY <1>2 DEF Concedido
  <2>3. aviso[p] = 0 /\ residencia[p].swap = 0 /\ ~residencia[p].marcos
    BY <1>1 DEF NoEsta
  <2> QED BY <1>1, <1>3, <2>1, <2>2, <2>3 DEF Suspension, Hay
<1> QED BY <1>4, <1>5, <1>6, <1>7 DEF SuspInv

\* Every step keeps what is said of the suspended processes.
LEMMA SuspPaso ==
  ASSUME IInv, IInv', CpuInv, SuspInv, Paginados, "timer" \notin Carreras, [Next]_vars
  PROVE  SuspInv'
<1>0. /\ TypeOK /\ TiposHilo /\ "largo" \in Hilos /\ "DESUSPENDER" \in Pedidos
      /\ aMemoria \in Seq(Peticiones) /\ binario \in [Pedidos -> Nat] /\ respuesta \in [Pedidos -> BOOLEAN]
      /\ \A t \in CPUs \cup {"main", "largo"} : t \in Hilos
  BY HilosDe DEF IInv, TypeOK, TiposMem, TiposResp, Pedidos
<1>t. Terminales'
  BY TerminalesPaso DEF SuspInv
<1>a. ASSUME UNCHANGED memVars, binario'["DESUSPENDER"] = binario["DESUSPENDER"],
             Dijo("DESUSPENDER")' <=> Dijo("DESUSPENDER"),
             Turno("DESUSPENDER", {"largo"}, "desus_espera")', ~RespuestaDesuspender
      PROVE  SuspInv'
  <2>1. UNCHANGED <<aMemoria, residencia>>
    BY <1>a DEF memVars
  <2>2. \A p \in Pids : Suspension(p)'
    BY <1>a, <2>1, SuspensionCallada
  <2>3. SinTras(aMemoria, "DESUSPENDER", "SUSPENDER")' /\ SinTras(aMemoria, "SUSPENDER", "SUSPENDER")'
    BY <2>1 DEF SuspInv
  <2> QED BY <1>a, <1>t, <2>2, <2>3 DEF SuspInv
<1>1. CASE EnviarDesuspender
  BY <1>1, <1>t, SuspensionPideVuelta
<1>2. CASE RespuestaDesuspender
  BY <1>2, <1>t, SuspensionVuelve
<1>3. CASE Callado
  <2>1. UNCHANGED <<memVars, respVars>> /\ NadieEspera
    BY <1>3, Callan
  <2>2. hilo'["largo"] = hilo["largo"] \/ (hilo["largo"].en # "desus_espera" /\ hilo'["largo"].en # "desus_espera")
    BY <1>0, <2>1 DEF NadieEspera, EnEspera
  <2>3. Turno("DESUSPENDER", {"largo"}, "desus_espera")'
    <3>1. Turno("DESUSPENDER", {"largo"}, "desus_espera")
      BY DEF SuspInv
    <3> QED BY <1>0, <2>1, <2>2, <3>1, TurnoAjeno DEF memVars, respVars
  <2>4. Dijo("DESUSPENDER")' <=> Dijo("DESUSPENDER")
    BY <2>1 DEF Dijo, memVars, respVars
  <2>5. CASE ~RespuestaDesuspender
    BY <1>a, <2>1, <2>3, <2>4, <2>5 DEF respVars
  <2> QED BY <1>2, <2>5
<1>4. CASE ReiniciarDesuspender
  <2>1. /\ UNCHANGED <<memVars, binario, lista, cola, aviso>>
        /\ hilo["largo"].en = "desus_reinicia" /\ hilo'["largo"].en = "espera"
    BY <1>0, <1>4, SoloUno DEF ReiniciarDesuspender, planVars, timerVars
  <2>2. Turno("DESUSPENDER", {"largo"}, "desus_espera")
    BY DEF SuspInv
  <2>3. Libre(aMemoria, deMemoria, binario["DESUSPENDER"], "DESUSPENDER")
    BY <2>1, <2>2 DEF Turno
  <2>4. Turno("DESUSPENDER", {"largo"}, "desus_espera")'
    BY <1>0, <2>1, <2>2, TurnoAjeno DEF memVars
  <2>5. Dijo("DESUSPENDER")' <=> Dijo("DESUSPENDER")
    BY <2>1, <2>3 DEF Libre, Dijo, HayOp, memVars
  <2>6. ~RespuestaDesuspender
    BY <2>1 DEF RespuestaDesuspender
  <2> QED BY <1>a, <2>1, <2>4, <2>5, <2>6
<1>5. ASSUME NEW t \in {"main", "largo"} \cup CPUs,
             EnviarCrear(t) \/ RespuestaCrear(t) \/ ReiniciarCrear(t),
             ~EnviarDesuspender, ~RespuestaDesuspender, ~DesuspendidoAReady
      PROVE  SuspInv'
  <2>1. CASE EnviarCrear(t)
    <3>1. PICK p \in Pids : p = hilo[t].p
      BY <1>0, <2>1 DEF EnviarCrear, TiposHilo, Ociosas
    <3>2. PICK m \in Peticiones : m = [op |-> "CREAR", p |-> p]
      BY DEF Peticiones
    <3>3. /\ aMemoria' = Append(aMemoria, m) /\ m.op = "CREAR" /\ m.p = p /\ hilo[t].en = "crear_envia"
          /\ UNCHANGED <<cola, lista, aviso, residencia, deMemoria, binario, respuesta>>
      BY <2>1, <3>1, <3>2 DEF EnviarCrear, EnviarPedido, planVars, timerVars, respVars
    <3>4. p \notin Suspendidos
      <4>1. CASE t = "largo"
        BY <3>1, <3>3, <4>1, LugarSuspendido DEF IInv, PunteroVigente
      <4>2. CASE t # "largo"
        BY <1>0, <3>1, <3>3, <4>2, LugarSuspendido, Manos
      <4> QED BY <4>1, <4>2
    <3>5. \A q : Concedido(q)' <=> Concedido(q)
      <4>1. Dijo("DESUSPENDER")' <=> Dijo("DESUSPENDER")
        BY <3>3 DEF Dijo
      <4> QED BY <1>5, <4>1, LargoAparte, ConcedidoIgual
    <3>6. Turno("DESUSPENDER", {"largo"}, "desus_espera")'
      BY <1>5, <3>3, TurnoVuelta
    <3>7. /\ \A q \in Pids : Suspension(q)'
          /\ SinTras(aMemoria, "DESUSPENDER", "SUSPENDER")'
          /\ SinTras(aMemoria, "SUSPENDER", "SUSPENDER")'
      BY <3>3, <3>4, <3>5, SuspensionPide
    <3> QED BY <1>t, <3>6, <3>7 DEF SuspInv
  <2>2. CASE RespuestaCrear(t) \/ ReiniciarCrear(t)
    <3>1. /\ UNCHANGED memVars /\ binario'["DESUSPENDER"] = binario["DESUSPENDER"]
          /\ respuesta'["DESUSPENDER"] = respuesta["DESUSPENDER"]
      BY <1>0, <2>2 DEF RespuestaCrear, ReiniciarCrear
    <3>2. Turno("DESUSPENDER", {"largo"}, "desus_espera")'
      BY <1>5, <3>1, TurnoVuelta DEF memVars
    <3>3. Dijo("DESUSPENDER")' <=> Dijo("DESUSPENDER")
      BY <3>1 DEF Dijo, memVars
    <3> QED BY <1>a, <1>5, <3>1, <3>2, <3>3
  <2> QED BY <1>5, <2>1, <2>2
<1>6. ASSUME NEW c \in CPUs,
             SysDumpMemory(c) \/ SysExit(c) \/ RespuestaFinalizar(c) \/ ReiniciarFinalizar(c),
             ~EnviarDesuspender, ~RespuestaDesuspender, ~DesuspendidoAReady
      PROVE  SuspInv'
  <2>1. CASE SysDumpMemory(c) \/ SysExit(c)
    <3>1. PICK k \in Llamadas : k = Head(deCpu[c])
      BY <2>1, RecibeTipo DEF SysDumpMemory, SysExit, IInv, TypeOK
    <3>2. PICK m \in Peticiones : m.op \in {"DUMP", "FINALIZAR"} /\ aMemoria' = Append(aMemoria, m)
      <4>1. \A op \in {"DUMP", "FINALIZAR"} : [op |-> op, p |-> k.p] \in Peticiones
        BY DEF Llamadas, Peticiones
      <4> QED BY <2>1, <3>1, <4>1 DEF SysDumpMemory, SysExit
    <3>3. UNCHANGED <<cola, lista, aviso, residencia, deMemoria, binario, respuesta>>
      BY <2>1 DEF SysDumpMemory, SysExit, planVars, timerVars, respVars
    <3>5. \A q : Concedido(q)' <=> Concedido(q)
      <4>1. Dijo("DESUSPENDER")' <=> Dijo("DESUSPENDER")
        BY <3>3 DEF Dijo
      <4> QED BY <1>6, <4>1, LargoAparte, ConcedidoIgual
    <3>6. Turno("DESUSPENDER", {"largo"}, "desus_espera")'
      BY <1>6, <3>2, <3>3, TurnoVuelta
    <3>7. /\ \A q \in Pids : Suspension(q)'
          /\ SinTras(aMemoria, "DESUSPENDER", "SUSPENDER")'
          /\ SinTras(aMemoria, "SUSPENDER", "SUSPENDER")'
      BY <3>2, <3>3, <3>5, SuspensionPide
    <3> QED BY <1>t, <3>6, <3>7 DEF SuspInv
  <2>2. CASE RespuestaFinalizar(c) \/ ReiniciarFinalizar(c)
    <3>1. /\ UNCHANGED memVars /\ binario'["DESUSPENDER"] = binario["DESUSPENDER"]
          /\ respuesta'["DESUSPENDER"] = respuesta["DESUSPENDER"]
      BY <1>0, <2>2 DEF RespuestaFinalizar, ReiniciarFinalizar
    <3>2. Turno("DESUSPENDER", {"largo"}, "desus_espera")'
      BY <1>6, <3>1, TurnoVuelta DEF memVars
    <3>3. Dijo("DESUSPENDER")' <=> Dijo("DESUSPENDER")
      BY <3>1 DEF Dijo, memVars
    <3> QED BY <1>a, <1>6, <3>1, <3>2, <3>3
  <2> QED BY <1>6, <2>1, <2>2
<1>7. CASE \E p \in Pids : TimerAvisa(p)
  BY <1>7, <1>t, SuspensionAvisa
<1>8. CASE Memoria
  BY <1>8, <1>t, SuspensionAtendida
<1>9. CASE RespuestasMemoria
  BY <1>9, <1>t, SuspensionContestada
<1>10. DesuspendidoAReady => Callado
  BY DEF Callado
<1> QED BY <1>1, <1>2, <1>3, <1>4, <1>5, <1>6, <1>7, <1>8, <1>9, <1>10, Clases

\* A process that is suspended and nothing else is one the memory has let go.
LEMMA SuspAlcanza == IInv /\ SuspInv => SuspendidoSinMarcos
<1> SUFFICES ASSUME IInv, SuspInv, NEW p \in Suspendidos, residencia[p].marcos
             PROVE  hilo["largo"].p = p \/ aviso[p] > 0 \/ \E m \in Range(aMemoria) : m.p = p
  BY DEF SuspendidoSinMarcos, Suspendidos
<1>1. p \in Pids
  BY DEF IInv, TypeOK, TiposPlan, Suspendidos, Grupos, Estados, Range
<1>2. Suspension(p)
  BY <1>1 DEF SuspInv
<1> QED BY <1>2 DEF Suspension, Hay, Concedido

\* A suspended process holds no frames, but for the time the memory takes to hear of it
\* or the long term planner to bring it back, with any number of CPUs and devices, as long
\* as processes have pages and the answer that wakes one up does not overtake its timer.
THEOREM LosSuspendidosSueltan ==
  Paginados /\ "timer" \notin Carreras => (Spec => []SuspendidoSinMarcos)
<1> SUFFICES ASSUME Paginados, "timer" \notin Carreras PROVE Spec => []SuspendidoSinMarcos
  OBVIOUS
<1>1. Init => SuspInv
  BY SuspInicial
<1>2. IInv /\ IInv' /\ CpuInv /\ SuspInv /\ [Next]_vars => SuspInv'
  BY SuspPaso
<1>3. IInv /\ SuspInv => SuspendidoSinMarcos
  BY SuspAlcanza
<1> QED BY <1>1, <1>2, <1>3, Invariante, InvarianteCpu, PTL DEF Spec

-----------------------------------------------------------------------------
(* The frames of a process that ends.                                       *)

\* At most one dispatch thread waits for the memory to end a process: the flag and the
\* semaphore of that answer are shared by all.
UnaSalida == \A c, d \in CPUs : hilo[c].en = "exit_espera" /\ hilo[d].en = "exit_espera" => c = d

Archivando == {"busca_EXEC", "busca_BLOCKED", "busca_SUSP", "exit_libera"}

\* The memory accepted the end of the process.
Acabado(p) ==
  \/ p \in lista["EXIT"]
  \/ \E c \in CPUs : /\ hilo[c].p = p
                     /\ \/ hilo[c].en \in Archivando
                        \/ hilo[c].en = "exit_espera" /\ Dijo("FINALIZAR")

SalidaInv ==
  /\ Turno("FINALIZAR", CPUs, "exit_espera")
  /\ SinTras(aMemoria, "FINALIZAR", "CREAR")
  /\ \A p \in Pids : Acabado(p) => ~residencia[p].marcos /\ ~Hay(aMemoria, "CREAR", p)

\* Such a process is nowhere else, so nobody asks frames for it.
LEMMA AcabadoLugar ==
  ASSUME IInv, Terminales, NEW p \in Pids, Acabado(p) \/ Terminal(p)
  PROVE  /\ \A q \in {"NEW", "SUSP_READY"} : p \notin Range(cola[q])
         /\ p \notin lista["SUSP_BLOCKED"]
         /\ \A t \in Hilos : hilo[t].p = p => hilo[t].en \notin EnMano(t) \ {"exit_libera"}
<1>0. UnSoloLugar
  BY DEF IInv
<1>a. ASSUME NEW x \in {"EXIT"} \cup CPUs, En(x, p), x \in CPUs => hilo[x].en = "exit_libera"
      PROVE  /\ \A q \in {"NEW", "SUSP_READY"} : p \notin Range(cola[q])
             /\ p \notin lista["SUSP_BLOCKED"]
             /\ \A t \in Hilos : hilo[t].p = p => hilo[t].en \notin EnMano(t) \ {"exit_libera"}
  <2>1. x \in Lugar /\ x \notin {"NEW", "SUSP_READY", "SUSP_BLOCKED"}
    BY <1>a, HilosDe, HechosCpu, Disjuntos DEF Lugar, Grupos, Estados
  <2>2. \A y \in Lugar : y # x => ~En(y, p)
    BY <1>0, <1>a, <2>1, Unicidad
  <2>3. ASSUME NEW q \in {"NEW", "SUSP_READY"} PROVE p \notin Range(cola[q])
    <3>1. q \in Estados /\ q \in Lugar /\ q # x
      BY <2>1, <2>3 DEF Estados, Lugar
    <3> QED BY <2>2, <3>1, EnPartes
  <2>4. p \notin lista["SUSP_BLOCKED"]
    <3>1. "SUSP_BLOCKED" \in Grupos /\ "SUSP_BLOCKED" \in Lugar /\ "SUSP_BLOCKED" # x
      BY <2>1 DEF Grupos, Lugar
    <3> QED BY <2>2, <3>1, EnPartes
  <2>5. ASSUME NEW t \in Hilos, hilo[t].p = p, hilo[t].en \in EnMano(t) \ {"exit_libera"} PROVE FALSE
    <3>1. En(t, p) /\ t \in Lugar
      BY <2>5, EnPartes DEF Lugar
    <3>2. t = x
      BY <2>2, <3>1
    <3>3. x \in CPUs
      BY <1>a, <2>5, <3>2, Disjuntos DEF Grupos, Estados
    <3> QED BY <1>a, <2>5, <3>2, <3>3
  <2> QED BY <2>3, <2>4, <2>5
<1>1. CASE Terminal(p)
  BY <1>1, TerminalLugar
<1>2. CASE p \in lista["EXIT"]
  <2>1. En("EXIT", p)
    BY <1>2, EnPartes DEF Grupos
  <2>2. "EXIT" \notin CPUs
    BY HechosCpu, Disjuntos DEF Grupos
  <2> QED BY <1>a, <2>1, <2>2
<1>3. ASSUME NEW c \in CPUs, hilo[c].p = p, hilo[c].en = "exit_libera"
      PROVE  /\ \A q \in {"NEW", "SUSP_READY"} : p \notin Range(cola[q])
             /\ p \notin lista["SUSP_BLOCKED"]
             /\ \A t \in Hilos : hilo[t].p = p => hilo[t].en \notin EnMano(t) \ {"exit_libera"}
  <2>1. En(c, p)
    BY <1>3, HilosDe, EnPartes, Manos, Disjuntos
  <2> QED BY <1>3, <1>a, <2>1
<1>4. ASSUME NEW c \in CPUs, hilo[c].p = p, hilo[c].en \in Buscando PROVE Terminal(p)
  BY <1>4 DEF Terminales
<1> QED BY <1>1, <1>2, <1>3, <1>4 DEF Acabado, Archivando, Buscando

\* Where a dispatch thread is, but for two of its steps.
LEMMA CpuAparte ==
  ASSUME IInv, [Next]_vars, NEW c \in CPUs, ~SysExit(c), ~RespuestaFinalizar(c)
  PROVE  /\ hilo'[c] = hilo[c] \/ (hilo[c].en # "exit_espera" /\ hilo'[c].en # "exit_espera")
         /\ hilo'[c].en \in Archivando => hilo[c].en \in Archivando /\ hilo'[c].p = hilo[c].p
<1> DEFINE Lejos ==
      /\ hilo'[c] = hilo[c] \/ (hilo[c].en # "exit_espera" /\ hilo'[c].en # "exit_espera")
      /\ hilo'[c].en \in Archivando => hilo[c].en \in Archivando /\ hilo'[c].p = hilo[c].p
<1>0. TiposHilo /\ c \in Hilos /\ \A t \in {"main", "largo", "corto", "memoria"} \cup CPUs \cup Ios : t \in Hilos
  BY HilosDe DEF IInv, TypeOK
<1>a. ASSUME NEW t \in Hilos \ {c}, NEW e, Va(t, e) \/ Queda(t, e) \/ \E p, k : VaCon(t, e, p, k)
      PROVE  Lejos
  BY <1>0, <1>a, SoloUno
<1>b. ASSUME NEW e, e \notin Archivando \cup {"exit_espera"}, hilo[c].en # "exit_espera",
             Va(c, e) \/ Queda(c, e) \/ \E p, k : VaCon(c, e, p, k)
      PROVE  Lejos
  BY <1>0, <1>b, SoloUno
<1>d. c \notin {"main", "largo", "corto", "memoria"} \cup Ios
  BY ConstantesOK
<1>1. ASSUME NEW t \in {"main", "largo"} \cup CPUs, Creacion(t) PROVE Lejos
  <2>1. PICK e \in {"init_consulta_susp", "init_a_new", "crear_envia", "crear_espera", "crear_saca",
                    "crear_agrega", "crear_reinicia", "espera", Reposo(t)} : Va(t, e) \/ Queda(t, e)
    BY <1>1 DEF Creacion, ConsultarNEW, ConsultarSUSP, InitAgregaNEW, EnviarCrear, RespuestaCrear,
       SacarDeNEW, CreadoAReady, ReiniciarCrear
  <2>2. hilo[t].en # "exit_espera"
    BY <1>1 DEF Creacion, ConsultarNEW, ConsultarSUSP, InitAgregaNEW, EnviarCrear, RespuestaCrear,
       SacarDeNEW, CreadoAReady, ReiniciarCrear
  <2>3. e \notin Archivando \cup {"exit_espera"}
    BY <2>1 DEF Reposo, Archivando
  <2> QED BY <1>0, <1>a, <1>b, <2>1, <2>2, <2>3
<1>2. CASE ejecutar_planificadores
  BY <1>0, <1>2, <1>d DEF ejecutar_planificadores, TiposHilo
<1>3. CASE Largo
  <2>1. \E e \in Etiquetas : Va("largo", e) \/ Queda("largo", e) \/ \E p, k : VaCon("largo", e, p, k)
    BY <1>3 DEF Largo, LargoDespierta, LargoEligeNEW, LargoEligeSUSP, EnviarDesuspender,
       RespuestaDesuspender, DesuspendidoAReady, ReiniciarDesuspender, Elige, Etiquetas
  <2> QED BY <1>0, <1>a, <1>d, <2>1
<1>4. CASE Corto
  <2>1. UNCHANGED hilo \/ \E e \in Etiquetas :
          Va("corto", e) \/ Queda("corto", e) \/ \E p, k : VaCon("corto", e, p, k)
    BY <1>4 DEF Corto, CortoDespierta, enviar_a_cpu, ReadyAExec, Etiquetas
  <2> QED BY <1>0, <1>a, <1>d, <2>1
<1>5. ASSUME NEW d \in CPUs, Dispatch(d) PROVE Lejos
  <2>1. CASE buscar_proceso_por_pid(d)
    <3>1. /\ hilo[d].en \in Archivando /\ hilo[d].en # "exit_espera"
          /\ Va(d, "exit_libera") \/ Va(d, "busca_BLOCKED") \/ Va(d, "busca_SUSP") \/ Queda(d, "recibe")
      BY <2>1 DEF buscar_proceso_por_pid, Busca, Archivando
    <3>2. CASE d # c
      BY <1>0, <1>a, <3>1, <3>2
    <3>3. CASE d = c
      BY <1>0, <3>1, <3>3, SoloUno DEF Archivando
    <3> QED BY <3>2, <3>3
  <2>2. CASE ~buscar_proceso_por_pid(d)
    <3>1. PICK e \in Etiquetas : Va(d, e) \/ Queda(d, e) \/ \E p, k : VaCon(d, e, p, k)
      BY <1>5, <2>2 DEF Dispatch, SysComienzoIO, BloquearPorIO, agregar_a_cola_por_IO, SysInitProc,
         init_proc_pid, SysDumpMemory, LiberarPorDump, BloquearPorDump, SysExit, RespuestaFinalizar,
         LiberarYSalir, ReiniciarFinalizar, Etiquetas
    <3>2. CASE d # c
      BY <1>0, <1>a, <3>1, <3>2
    <3>3. CASE d = c
      <4>1. PICK f \in Etiquetas \ (Archivando \cup {"exit_espera"}) :
              Va(c, f) \/ Queda(c, f) \/ \E p, k : VaCon(c, f, p, k)
        BY <1>5, <2>2, <3>3 DEF Dispatch, SysComienzoIO, BloquearPorIO, agregar_a_cola_por_IO,
           SysInitProc, init_proc_pid, SysDumpMemory, LiberarPorDump, BloquearPorDump,
           LiberarYSalir, ReiniciarFinalizar, Etiquetas, Archivando
      <4>2. hilo[c].en # "exit_espera"
        BY <1>5, <2>2, <3>3 DEF Dispatch, SysComienzoIO, BloquearPorIO, agregar_a_cola_por_IO,
           SysInitProc, SysDumpMemory, LiberarPorDump, BloquearPorDump,
           LiberarYSalir, ReiniciarFinalizar, Recibe
      <4> QED BY <1>b, <4>1, <4>2
    <3> QED BY <3>2, <3>3
  <2> QED BY <2>1, <2>2
<1>6. CASE \/ \E d \in CPUs : Cpu(d) \/ conectar_cpu(d)
           \/ \E p \in Pids : Timer(p)
           \/ Memoria \/ UNCHANGED vars
  BY <1>6 DEF Cpu, CpuBloqueante, CpuInitProc, conectar_cpu, Timer, TimerVence, TimerSuspende,
     TimerAvisa, Memoria, vars
<1>7. CASE RespuestasMemoria
  BY <1>0, <1>7, RespondeSola
<1>8. CASE \E d \in Ios : IO(d)
  <2>1. UNCHANGED hilo \/ \E d \in Ios : \E e \in Etiquetas : Queda(d, e) \/ \E p, k : VaCon(d, e, p, k)
    BY <1>8 DEF IO, atender_cola_espera, FinIO, FinIOSusp, Etiquetas
  <2> QED BY <1>0, <1>a, <1>d, <2>1
<1> QED BY <1>1, <1>2, <1>3, <1>4, <1>5, <1>6, <1>7, <1>8 DEF Next

\* Nobody's end becomes accepted but by an answer of the memory.
LEMMA AcabadoAtras ==
  ASSUME IInv, [Next]_vars, SalidaInv, NEW p \in Pids, Acabado(p)',
         \A c \in CPUs : hilo'[c].en = "exit_espera" /\ Dijo("FINALIZAR")' =>
           ~SysExit(c) /\ Dijo("FINALIZAR")
  PROVE  Acabado(p)
<1>0. /\ TypeOK /\ TiposHilo /\ \A c \in CPUs : c \in Hilos
      /\ binario \in [Pedidos -> Nat] /\ "FINALIZAR" \in Pedidos
  BY HilosDe DEF IInv, TypeOK, TiposResp, Pedidos
<1>1. CASE p \in lista'["EXIT"]
  <2>1. p \in lista["EXIT"] \/ Saliendo(p)
    BY <1>1, SalidaCrece
  <2> QED BY <2>1 DEF Acabado, Saliendo, Archivando
<1>2. ASSUME NEW c \in CPUs, hilo'[c].p = p,
             hilo'[c].en \in Archivando \/ (hilo'[c].en = "exit_espera" /\ Dijo("FINALIZAR")')
      PROVE  Acabado(p)
  <2>1. CASE SysExit(c)
    <3>1. hilo'[c].en = "exit_espera"
      BY <1>0, <2>1, SoloUno DEF SysExit
    <3> QED BY <1>2, <2>1, <3>1 DEF Archivando
  <2>2. CASE RespuestaFinalizar(c)
    <3>1. /\ hilo[c].en = "exit_espera" /\ binario["FINALIZAR"] > 0
          /\ \/ respuesta["FINALIZAR"] /\ hilo'[c].p = hilo[c].p
             \/ hilo'[c].en = "recibe"
      BY <1>0, <2>2, SoloUno DEF RespuestaFinalizar
    <3>2. respuesta["FINALIZAR"] /\ hilo'[c].p = hilo[c].p
      BY <1>2, <3>1 DEF Archivando
    <3>3. binario["FINALIZAR"] = 1
      BY <1>0, <3>1 DEF SalidaInv, Turno, EnCurso
    <3> QED BY <1>2, <3>1, <3>2, <3>3 DEF Acabado, Dijo
  <2>3. CASE ~SysExit(c) /\ ~RespuestaFinalizar(c)
    <3>1. CASE hilo'[c].en \in Archivando
      BY <1>2, <2>3, <3>1, CpuAparte DEF Acabado
    <3>2. CASE hilo'[c].en = "exit_espera" /\ Dijo("FINALIZAR")'
      BY <1>2, <2>3, <3>2, CpuAparte DEF Acabado
    <3> QED BY <1>2, <3>1, <3>2
  <2> QED BY <2>1, <2>2, <2>3
<1> QED BY <1>1, <1>2 DEF Acabado

\* The steps in which the memory attends no request: they ask frames for nobody who has
\* ended, and no end becomes accepted.
LEMMA SalidaAjena ==
  ASSUME IInv, SalidaInv, [Next]_vars, Turno("FINALIZAR", CPUs, "exit_espera")', UNCHANGED residencia,
         \A c \in CPUs : hilo'[c].en = "exit_espera" /\ Dijo("FINALIZAR")' =>
           ~SysExit(c) /\ Dijo("FINALIZAR"),
         \/ UNCHANGED aMemoria
         \/ \E m \in Peticiones :
              /\ aMemoria' = Append(aMemoria, m)
              /\ m.op = "CREAR" => ~Acabado(m.p) /\ ~Hay(aMemoria, "FINALIZAR", m.p)
  PROVE  SalidaInv'
<1>0. aMemoria \in Seq(Peticiones)
  BY DEF IInv, TypeOK, TiposMem
<1>1. SinTras(aMemoria', "FINALIZAR", "CREAR")
  <2>1. SinTras(aMemoria, "FINALIZAR", "CREAR")
    BY DEF SalidaInv
  <2> QED BY <1>0, <2>1, OrdenMas
<1>2. ASSUME NEW p \in Pids, Acabado(p)' PROVE ~residencia'[p].marcos /\ ~Hay(aMemoria', "CREAR", p)
  <2>1. Acabado(p)
    BY <1>2, AcabadoAtras
  <2>2. ~residencia[p].marcos /\ ~Hay(aMemoria, "CREAR", p)
    BY <2>1 DEF SalidaInv
  <2>3. ~Hay(aMemoria', "CREAR", p)
    <3>1. CASE UNCHANGED aMemoria
      BY <2>2, <3>1
    <3>2. ASSUME NEW m \in Peticiones, aMemoria' = Append(aMemoria, m), m.op = "CREAR" => ~Acabado(m.p)
          PROVE  ~Hay(aMemoria', "CREAR", p)
      <4>1. Range(aMemoria') = Range(aMemoria) \cup {m}
        BY <1>0, <3>2, UnoMas
      <4> QED BY <2>1, <2>2, <3>2, <4>1 DEF Hay
    <3> QED BY <3>1, <3>2
  <2> QED BY <2>2, <2>3
<1>3. (\A p \in Pids : Acabado(p) => ~residencia[p].marcos /\ ~Hay(aMemoria, "CREAR", p))'
  BY <1>2
<1>4. SinTras(aMemoria, "FINALIZAR", "CREAR")'
  BY <1>1
<1> QED BY <1>3, <1>4 DEF SalidaInv

\* A process asks to end.
LEMMA SalidaPide ==
  ASSUME IInv, SalidaInv, UnaSalida', [Next]_vars, NEW c \in CPUs, SysExit(c)
  PROVE  SalidaInv'
<1>0. /\ TypeOK /\ TiposHilo /\ \A d \in CPUs : d \in Hilos
  BY HilosDe DEF IInv, TypeOK
<1>1. PICK k \in Llamadas : k = Head(deCpu[c])
  BY RecibeTipo DEF SysExit, IInv, TypeOK
<1>2. PICK m \in Peticiones : m = [op |-> "FINALIZAR", p |-> k.p]
  BY DEF Llamadas, Peticiones
<1>3. /\ aMemoria' = Append(aMemoria, m) /\ m.op = "FINALIZAR" /\ m.p = k.p
      /\ UNCHANGED <<residencia, deMemoria, binario, respuesta>>
      /\ VaCon(c, "exit_espera", k.p, k.pc) /\ hilo[c].en = "recibe"
  BY <1>1, <1>2 DEF SysExit, respVars, Recibe
<1>4. /\ hilo'[c].en = "exit_espera" /\ hilo'[c].p = k.p
      /\ \A d \in CPUs \ {c} : hilo'[d] = hilo[d]
  BY <1>0, <1>3, SoloUno
<1>5. \A d \in CPUs : hilo[d].en # "exit_espera"
  BY <1>3, <1>4 DEF UnaSalida
<1>6. Turno("FINALIZAR", CPUs, "exit_espera")
  BY DEF SalidaInv
<1>7. Turno("FINALIZAR", CPUs, "exit_espera")'
  BY <1>0, <1>3, <1>4, <1>5, <1>6, TurnoPide
<1>8. ~Dijo("FINALIZAR")'
  <2>1. Libre(aMemoria, deMemoria, binario["FINALIZAR"], "FINALIZAR")
    BY <1>5, <1>6 DEF Turno
  <2> QED BY <1>3, <2>1 DEF Libre, Dijo, HayOp
<1> QED BY <1>3, <1>7, <1>8, SalidaAjena

\* ... and its handler reads the answer.
LEMMA SalidaSabe ==
  ASSUME IInv, SalidaInv, [Next]_vars, NEW c \in CPUs, RespuestaFinalizar(c)
  PROVE  SalidaInv'
<1>0. /\ TypeOK /\ TiposHilo /\ binario \in [Pedidos -> Nat] /\ "FINALIZAR" \in Pedidos
      /\ \A d \in CPUs : d \in Hilos
  BY HilosDe DEF IInv, TypeOK, TiposResp, Pedidos
<1>1. /\ hilo[c].en = "exit_espera" /\ binario["FINALIZAR"] > 0 /\ binario["FINALIZAR"] \in Nat
      /\ binario'["FINALIZAR"] = binario["FINALIZAR"] - 1
      /\ UNCHANGED <<aMemoria, deMemoria, residencia>>
  BY <1>0 DEF RespuestaFinalizar, memVars
<1>2. hilo'[c].en # "exit_espera" /\ \A d \in CPUs \ {c} : hilo'[d] = hilo[d]
  BY <1>0, SoloUno DEF RespuestaFinalizar
<1>3. Turno("FINALIZAR", CPUs, "exit_espera")
  BY DEF SalidaInv
<1>4. /\ Turno("FINALIZAR", CPUs, "exit_espera")'
      /\ binario["FINALIZAR"] = 1 /\ ~HayOp(deMemoria, "FINALIZAR")
  BY <1>0, <1>1, <1>2, <1>3, TurnoToma
<1>5. ~Dijo("FINALIZAR")'
  BY <1>1, <1>4 DEF Dijo, HayOp
<1> QED BY <1>1, <1>4, <1>5, SalidaAjena

\* The memory attends a request.
LEMMA SalidaAtendida ==
  ASSUME IInv, SuspInv, SalidaInv, Memoria
  PROVE  SalidaInv'
<1>0. /\ TypeOK /\ aMemoria \in Seq(Peticiones) /\ residencia \in [Pids -> [lista : BOOLEAN, marcos : BOOLEAN, swap : Nat]]
      /\ Turno("FINALIZAR", CPUs, "exit_espera") /\ Tamanio \in [Pids -> Nat] /\ "FINALIZAR" \in Pedidos
  BY ConstantesOK DEF IInv, TypeOK, TiposMem, SalidaInv, Pedidos
<1>1. aMemoria # <<>> /\ aMemoria' = Tail(aMemoria)
  BY DEF Memoria
<1>2. PICK h \in Peticiones : h = Head(aMemoria)
  BY <1>0, <1>1, UnoMenos
<1>3. PICK p \in Pids : p = h.p
  BY DEF Peticiones
<1>4. PICK x : x = Atencion(h.op, p).x
  OBVIOUS
<1>5. /\ residencia' = [residencia EXCEPT ![p] = x]
      /\ UNCHANGED <<lista, hilo, binario, respuesta>>
  BY <1>2, <1>3, <1>4 DEF Memoria, planVars, respVars
<1>6. Range(aMemoria') \subseteq Range(aMemoria) /\ h \in Range(aMemoria)
  BY <1>0, <1>1, <1>2, UnoMenos
<1>7. /\ SinTras(aMemoria', "FINALIZAR", "CREAR")
      /\ h.op = "FINALIZAR" => ~Hay(aMemoria', "CREAR", p)
  BY <1>0, <1>1, <1>2, <1>3, OrdenMenos DEF SalidaInv
<1>8. \/ /\ h.op # "FINALIZAR"
         /\ \E r \in Seq(Respuestas) : /\ deMemoria' = deMemoria \o r
                                       /\ \A y \in Range(r) : y.op # "FINALIZAR"
      \/ /\ h.op = "FINALIZAR"
         /\ \E y \in Respuestas : /\ deMemoria' = Append(deMemoria, y)
                                  /\ y.op = "FINALIZAR" /\ y.p = p
  BY <1>0, <1>2, <1>3, Contesta
<1>9. Turno("FINALIZAR", CPUs, "exit_espera")'
  BY <1>0, <1>1, <1>2, <1>3, <1>5, <1>8, TurnoAtiende
<1>10. Hay(aMemoria, h.op, p) /\ \A q : Hay(aMemoria', "CREAR", q) => Hay(aMemoria, "CREAR", q)
  BY <1>3, <1>6 DEF Hay
<1>11. h.op = "FINALIZAR" => ~x.marcos
  <2> SUFFICES ASSUME h.op = "FINALIZAR" PROVE ~x.marcos
    OBVIOUS
  <2>1. Terminal(p)
    BY <1>10 DEF SuspInv, Terminales
  <2>2. p \notin Suspendidos
    BY <2>1, TerminalLugar DEF Suspendidos
  <2>3. residencia[p].swap = 0
    BY <2>2 DEF SuspInv, Suspension
  <2>4. residencia[p] \in [lista : BOOLEAN, marcos : BOOLEAN, swap : Nat]
    BY <1>0
  <2>5. x = [residencia[p] EXCEPT !.lista = FALSE, !.marcos = FALSE]
    BY <1>4, <2>3 DEF Atencion
  <2> QED BY <2>4, <2>5
<1>12. h.op \in {"SUSPENDER", "DUMP"} => (x.marcos => residencia[p].marcos)
  <2>1. residencia[p] \in [lista : BOOLEAN, marcos : BOOLEAN, swap : Nat]
    BY <1>0
  <2> QED BY <1>4, <2>1 DEF Atencion
<1>13. h.op = "DESUSPENDER" => ~Acabado(p)
  <2> SUFFICES ASSUME h.op = "DESUSPENDER" PROVE ~Acabado(p)
    OBVIOUS
  <2>1. HayOp(aMemoria, "DESUSPENDER")
    BY <1>6 DEF HayOp
  <2>2. Turno("DESUSPENDER", {"largo"}, "desus_espera")
    BY DEF SuspInv
  <2>3. hilo["largo"].en = "desus_espera"
    BY <2>1, <2>2 DEF Turno, Libre
  <2>4. hilo["largo"].p = p
    BY <1>3, <1>6, <2>2, <2>3 DEF Turno, EnCurso
  <2>5. p \in Range(cola["SUSP_READY"])
    BY <2>3, <2>4, LugarSuspendido
  <2> QED BY <2>5, AcabadoLugar DEF SuspInv
<1>14. ASSUME NEW q \in Pids, Acabado(q)' PROVE ~residencia'[q].marcos /\ ~Hay(aMemoria', "CREAR", q)
  <2>1. CASE Acabado(q)
    <3>1. ~residencia[q].marcos /\ ~Hay(aMemoria, "CREAR", q)
      BY <2>1 DEF SalidaInv
    <3>2. CASE q # p
      BY <1>0, <1>5, <1>10, <3>1, <3>2
    <3>3. CASE q = p
      <4>1. h.op \in {"SUSPENDER", "DUMP", "FINALIZAR"}
        BY <1>10, <1>13, <2>1, <3>1, <3>3 DEF Peticiones
      <4> QED BY <1>0, <1>5, <1>10, <1>11, <1>12, <3>1, <3>3, <4>1
    <3> QED BY <3>2, <3>3
  <2>2. CASE ~Acabado(q)
    <3>1. PICK c \in CPUs : /\ hilo[c].p = q /\ hilo[c].en = "exit_espera"
                            /\ Dijo("FINALIZAR")' /\ ~Dijo("FINALIZAR")
      BY <1>5, <1>14, <2>2 DEF Acabado
    <3>2. h.op = "FINALIZAR"
      BY <1>0, <1>5, <1>8, <3>1, DijoIgual
    <3>3. p = q
      BY <1>0, <1>3, <1>6, <3>1, <3>2 DEF Turno, EnCurso
    <3> QED BY <1>0, <1>5, <1>7, <1>11, <3>2, <3>3
  <2> QED BY <2>1, <2>2
<1>15. (\A q \in Pids : Acabado(q) => ~residencia[q].marcos /\ ~Hay(aMemoria, "CREAR", q))'
  BY <1>14
<1>16. SinTras(aMemoria, "FINALIZAR", "CREAR")'
  BY <1>7
<1> QED BY <1>9, <1>15, <1>16 DEF SalidaInv

\* Frames are asked for a new process.
LEMMA SalidaCrea ==
  ASSUME IInv, SuspInv, SalidaInv, [Next]_vars, NEW t \in {"main", "largo"} \cup CPUs, EnviarCrear(t),
         Turno("FINALIZAR", CPUs, "exit_espera")', \A c \in CPUs : ~SysExit(c)
  PROVE  SalidaInv'
<1>0. TiposHilo /\ t \in Hilos
  BY HilosDe DEF IInv, TypeOK
<1>1. PICK p \in Pids : p = hilo[t].p
  BY <1>0 DEF EnviarCrear, TiposHilo, Ociosas
<1>2. PICK m \in Peticiones : m = [op |-> "CREAR", p |-> p]
  BY DEF Peticiones
<1>3. /\ aMemoria' = Append(aMemoria, m) /\ m.op = "CREAR" /\ m.p = p /\ hilo[t].en = "crear_envia"
      /\ UNCHANGED <<residencia, deMemoria, binario, respuesta>>
  BY <1>1, <1>2 DEF EnviarCrear, EnviarPedido, respVars
<1>4. ~(Acabado(p) \/ Terminal(p))
  <2>1. CASE t = "largo"
    BY <1>1, <1>3, <2>1, AcabadoLugar DEF IInv, PunteroVigente, SuspInv
  <2>2. CASE t # "largo"
    BY <1>0, <1>1, <1>3, <2>2, AcabadoLugar, Manos DEF SuspInv
  <2> QED BY <2>1, <2>2
<1>5. ~Hay(aMemoria, "FINALIZAR", p)
  BY <1>4 DEF SuspInv, Terminales
<1>6. Dijo("FINALIZAR")' => Dijo("FINALIZAR")
  BY <1>3 DEF Dijo
<1> QED BY <1>3, <1>4, <1>5, <1>6, SalidaAjena

\* SalidaInv at the start: nobody ends.
LEMMA SalidaInicial == Init => SalidaInv
<1> SUFFICES ASSUME Init PROVE SalidaInv
  OBVIOUS
<1>1. /\ aMemoria = <<>> /\ deMemoria = <<>> /\ lista = [g \in Grupos |-> {}]
      /\ binario = [o \in Pedidos |-> 0]
  BY DEF Init
<1>2. \A c \in CPUs : hilo[c].en = "recibe"
  BY HilosDe, Disjuntos DEF Init, Parado
<1>3. Range(<<>>) = {} /\ DOMAIN aMemoria = {}
  BY <1>1 DEF Range
<1>4. Turno("FINALIZAR", CPUs, "exit_espera")
  BY <1>1, <1>2, <1>3 DEF Turno, Libre, HayOp, Pedidos
<1>5. \A p : ~Acabado(p)
  BY <1>1, <1>2 DEF Acabado, Archivando, Grupos
<1> QED BY <1>3, <1>4, <1>5 DEF SalidaInv, SinTras

\* Every step keeps what is said of the frames of those that end.
LEMMA SalidaPaso ==
  ASSUME IInv, CpuInv, SuspInv, SalidaInv, UnaSalida', [Next]_vars
  PROVE  SalidaInv'
<1>0. /\ TypeOK /\ TiposHilo /\ "FINALIZAR" \in Pedidos /\ \A c \in CPUs : c \in Hilos
      /\ binario \in [Pedidos -> Nat] /\ respuesta \in [Pedidos -> BOOLEAN]
      /\ Turno("FINALIZAR", CPUs, "exit_espera")
  BY HilosDe DEF IInv, TypeOK, TiposResp, Pedidos, SalidaInv
<1>1. CASE \E c \in CPUs : SysExit(c)
  BY <1>1, SalidaPide
<1>2. CASE \E c \in CPUs : RespuestaFinalizar(c)
  BY <1>2, SalidaSabe
<1>3. CASE Memoria
  BY <1>3, SalidaAtendida
<1>4. CASE \A c \in CPUs : ~SysExit(c) /\ ~RespuestaFinalizar(c)
  <2>0. \A c \in CPUs : hilo'[c] = hilo[c] \/ (hilo[c].en # "exit_espera" /\ hilo'[c].en # "exit_espera")
    BY <1>4, CpuAparte
  <2>a. ASSUME UNCHANGED <<deMemoria, residencia>>, binario'["FINALIZAR"] = binario["FINALIZAR"],
               respuesta'["FINALIZAR"] \in {respuesta["FINALIZAR"], FALSE},
               \/ UNCHANGED aMemoria
               \/ \E m \in Peticiones : m.op \notin {"CREAR", "FINALIZAR"} /\ aMemoria' = Append(aMemoria, m)
        PROVE  SalidaInv'
    <3>1. Turno("FINALIZAR", CPUs, "exit_espera")'
      BY <1>0, <2>0, <2>a, TurnoAjeno
    <3>2. Dijo("FINALIZAR")' => Dijo("FINALIZAR")
      BY <2>a DEF Dijo
    <3> QED BY <1>4, <2>a, <3>1, <3>2, SalidaAjena
  <2>1. CASE Callado
    BY <2>1, <2>a, Callan DEF memVars, respVars
  <2>2. ASSUME NEW t \in {"main", "largo"} \cup CPUs, RespuestaCrear(t) \/ ReiniciarCrear(t)
        PROVE  SalidaInv'
    BY <1>0, <2>2, <2>a DEF RespuestaCrear, ReiniciarCrear, memVars
  <2>3. CASE RespuestaDesuspender \/ ReiniciarDesuspender
    BY <1>0, <2>3, <2>a DEF RespuestaDesuspender, ReiniciarDesuspender, memVars
  <2>4. CASE \E c \in CPUs : ReiniciarFinalizar(c)
    BY <1>0, <2>4, <2>a DEF ReiniciarFinalizar, memVars
  <2>5. CASE EnviarDesuspender
    <3>1. PICK m \in Peticiones : m.op = "DESUSPENDER" /\ aMemoria' = Append(aMemoria, m)
      <4>1. hilo["largo"].p \in Pids
        BY <1>0, <2>5, HilosDe DEF EnviarDesuspender, TiposHilo, Ociosas
      <4>2. [op |-> "DESUSPENDER", p |-> hilo["largo"].p] \in Peticiones
        BY <4>1 DEF Peticiones
      <4> QED BY <2>5, <4>2 DEF EnviarDesuspender, EnviarPedido
    <3> QED BY <2>5, <2>a, <3>1 DEF EnviarDesuspender, respVars
  <2>6. ASSUME NEW c \in CPUs, SysDumpMemory(c) PROVE SalidaInv'
    <3>1. PICK k \in Llamadas : k = Head(deCpu[c])
      BY <2>6, RecibeTipo DEF SysDumpMemory, IInv, TypeOK
    <3>2. PICK m \in Peticiones : m.op = "DUMP" /\ aMemoria' = Append(aMemoria, m)
      <4>1. [op |-> "DUMP", p |-> k.p] \in Peticiones
        BY DEF Llamadas, Peticiones
      <4> QED BY <2>6, <3>1, <4>1 DEF SysDumpMemory
    <3> QED BY <2>6, <2>a, <3>2 DEF SysDumpMemory, respVars
  <2>7. ASSUME NEW p \in Pids, TimerAvisa(p) PROVE SalidaInv'
    <3>1. PICK m \in Peticiones : m.op = "SUSPENDER" /\ aMemoria' = Append(aMemoria, m)
      <4>1. LeePid(p) \subseteq Pids
        BY ConstantesOK DEF LeePid, IInv, TypeOK, TiposPlan, Pids
      <4>2. \A q \in Pids : [op |-> "SUSPENDER", p |-> q] \in Peticiones
        BY DEF Peticiones
      <4> QED BY <2>7, <4>1, <4>2 DEF TimerAvisa
    <3> QED BY <2>7, <2>a, <3>1 DEF TimerAvisa, respVars
  <2>8. ASSUME NEW t \in {"main", "largo"} \cup CPUs, EnviarCrear(t) PROVE SalidaInv'
    <3>1. PICK m \in Peticiones : m.op = "CREAR" /\ aMemoria' = Append(aMemoria, m)
      <4>1. hilo[t].p \in Pids
        BY <1>0, <2>8, HilosDe DEF EnviarCrear, TiposHilo, Ociosas
      <4>2. [op |-> "CREAR", p |-> hilo[t].p] \in Peticiones
        BY <4>1 DEF Peticiones
      <4> QED BY <2>8, <4>2 DEF EnviarCrear, EnviarPedido
    <3>2. UNCHANGED <<deMemoria, binario>>
      BY <2>8 DEF EnviarCrear, respVars
    <3>3. Turno("FINALIZAR", CPUs, "exit_espera")'
      BY <1>0, <2>0, <3>1, <3>2, TurnoAjeno
    <3> QED BY <1>4, <2>8, <3>3, SalidaCrea
  <2>9. CASE RespuestasMemoria
    <3>1. \A c \in CPUs : hilo'[c] = hilo[c]
      BY <1>0, <2>9, RespondeSola
    <3>2. Turno("FINALIZAR", CPUs, "exit_espera")' /\ (Dijo("FINALIZAR")' <=> Dijo("FINALIZAR"))
      BY <1>0, <2>9, <3>1, TurnoContesta
    <3>3. UNCHANGED <<aMemoria, residencia>>
      BY <2>9 DEF RespuestasMemoria, RespuestaPedido, RespuestaDump, RespuestaDumpSusp,
         RespuestaDesconocida, memVars
    <3> QED BY <1>4, <3>2, <3>3, SalidaAjena
  <2> QED BY <1>3, <1>4, <2>1, <2>2, <2>3, <2>4, <2>5, <2>6, <2>7, <2>8, <2>9, Clases
<1> QED BY <1>1, <1>2, <1>4

\* A process filed in EXIT has given back its frames, with any number of CPUs and devices,
\* as long as no two ends wait for the memory at once.
THEOREM LaSalidaLiberaMemoria ==
  Paginados /\ "timer" \notin Carreras => (Spec /\ []UnaSalida => []SalidaLiberaMemoria)
<1> SUFFICES ASSUME Paginados, "timer" \notin Carreras
             PROVE  Spec /\ []UnaSalida => []SalidaLiberaMemoria
  OBVIOUS
<1>1. Init => SuspInv /\ SalidaInv
  BY SuspInicial, SalidaInicial
<1>2. IInv /\ IInv' /\ CpuInv /\ SuspInv /\ [Next]_vars => SuspInv'
  BY SuspPaso
<1>3. IInv /\ CpuInv /\ SuspInv /\ SalidaInv /\ UnaSalida' /\ [Next]_vars => SalidaInv'
  BY SalidaPaso
<1>4. IInv /\ SalidaInv => SalidaLiberaMemoria
  BY DEF SalidaInv, SalidaLiberaMemoria, Acabado, IInv, TypeOK, TiposPlan, Grupos
<1> QED BY <1>1, <1>2, <1>3, <1>4, Invariante, InvarianteCpu, PTL DEF Spec

-----------------------------------------------------------------------------
(* The frames of a process that may run.                                    *)

Creadores == {"main", "largo"} \cup CPUs

\* At most one thread waits for the memory to create a process: the flag and the
\* semaphore of that answer are shared by all.
UnaAlta ==
  \A t, u \in Creadores : hilo[t].en = "crear_espera" /\ hilo[u].en = "crear_espera" => t = u

\* The memory accepted the process, and it is not in READY yet.
Creado(p) ==
  \E t \in Creadores : /\ hilo[t].p = p
                       /\ \/ hilo[t].en \in {"crear_saca", "crear_agrega"}
                          \/ hilo[t].en = "crear_espera" /\ Dijo("CREAR")

\* It may run at once, it runs, or it is on its way to be blocked.
EnMemoria(p) ==
  p \in Range(cola["READY"]) \/ p \in lista["BLOCKED"] \/ Creado(p) \/ ~SinDueno(p)

AltaInv ==
  /\ Turno("CREAR", Creadores, "crear_espera")
  /\ \A p \in Pids : EnMemoria(p) => residencia[p].marcos

\* Such a process is neither suspended nor ending.
LEMMA EnMemoriaLugar ==
  ASSUME IInv, CpuInv, DespachoSeguro, NEW p \in Pids, EnMemoria(p)
  PROVE  ~Terminal(p) /\ p \notin Suspendidos
<1>0. /\ UnSoloLugar /\ PunteroVigente /\ TiposHilo
      /\ {"READY", "SUSP_READY"} \subseteq Estados /\ {"EXEC", "EXIT", "BLOCKED", "SUSP_BLOCKED"} \subseteq Grupos
      /\ Lugar = Estados \cup Grupos \cup Hilos /\ Estados \cap Grupos = {}
      /\ \A c \in CPUs : c \in Hilos /\ c \notin Estados \cup Grupos
  BY HechosCpu, Disjuntos DEF IInv, Estados, Grupos, Lugar
<1>a. ASSUME NEW x \in Lugar \ {"SUSP_READY", "SUSP_BLOCKED"}, En(x, p) PROVE p \notin Suspendidos
  <2>1. \A y \in Lugar : y # x => ~En(y, p)
    BY <1>0, <1>a, Unicidad
  <2>2. ~En("SUSP_READY", p) /\ ~En("SUSP_BLOCKED", p)
    BY <1>0, <1>a, <2>1
  <2> QED BY <1>0, <2>2, EnPartes DEF Suspendidos
<1>1. CASE p \in Range(cola["READY"])
  <2>1. En("READY", p) /\ "READY" \in Lugar \ {"SUSP_READY", "SUSP_BLOCKED"}
    BY <1>0, <1>1, EnPartes
  <2>2. \A y \in Lugar : y # "READY" => ~En(y, p)
    BY <1>0, <2>1, Unicidad
  <2>3. p \notin lista["EXEC"] /\ p \notin lista["EXIT"]
    BY <1>0, <2>2, EnPartes DEF Estados
  <2>4. ~Saliendo(p)
    <3> SUFFICES ASSUME NEW c \in CPUs, hilo[c].en = "exit_libera", hilo[c].p = p PROVE FALSE
      BY DEF Saliendo
    <3>1. En(c, p) /\ c # "READY" /\ c \in Lugar
      BY <1>0, HilosDe, EnPartes, Manos, Disjuntos
    <3> QED BY <2>2, <3>1
  <2>5. ~Terminal(p)
    BY <2>3, <2>4 DEF Terminal, SinDueno, Despachado, DespachoSeguro
  <2> QED BY <1>a, <2>1, <2>5
<1>2. CASE p \in lista["BLOCKED"]
  <2>1. En("BLOCKED", p) /\ "BLOCKED" \in Lugar \ {"SUSP_READY", "SUSP_BLOCKED"}
    BY <1>0, <1>2, EnPartes
  <2> QED BY <1>2, <1>a, <2>1, TerminalLugar
<1>3. CASE Creado(p)
  <2>1. PICK t \in Creadores : hilo[t].p = p /\ hilo[t].en \in {"crear_saca", "crear_agrega", "crear_espera"}
    BY <1>3 DEF Creado
  <2>2. t \in Hilos
    BY <2>1, HilosDe DEF Creadores
  <2>3. hilo[t].en \in EnMano(t) \ {"exit_libera"} \/ p \in Range(cola["NEW"])
    <3>1. CASE t = "largo"
      BY <1>0, <2>1, <3>1, Manos DEF PunteroVigente
    <3>2. CASE t # "largo"
      BY <2>1, <2>2, <3>2, Manos
    <3> QED BY <3>1, <3>2
  <2> QED BY <2>1, <2>2, <2>3, TerminalLugar, LugarSuspendido
<1>4. CASE ~SinDueno(p)
  <2>1. Despachado(p) \/ Saliendo(p)
    <3>1. ASSUME NEW c \in CPUs, running[c] = p PROVE Despachado(p) \/ Saliendo(p)
      BY <3>1 DEF CpuInv, MarcaConsistente
    <3>2. p # Nadie
      BY HechosCpu
    <3>3. PICK c \in CPUs : \/ cpu[c].p = p
                            \/ \E i \in 1..Len(deCpu[c]) : deCpu[c][i].op # "INIT_PROC" /\ deCpu[c][i].p = p
                            \/ hilo[c].en \in PorBloquear \cup {"dump_libera"} /\ hilo[c].p = p
      BY <1>4 DEF SinDueno
    <3>4. running[c] = p \/ (hilo[c].en \in PorBloquear /\ hilo[c].p = p)
      BY <3>2, <3>3 DEF CpuInv, CpuConsistente, ConCpu
    <3> QED BY <3>1, <3>4 DEF CpuInv, BloqueoConsistente
  <2>2. PICK x \in {"EXEC", "READY"} \cup CPUs : En(x, p)
    <3>1. CASE p \in lista["EXEC"]
      BY <1>0, <3>1, EnPartes
    <3>2. CASE hilo["corto"].en = "a_exec" /\ hilo["corto"].p = p
      BY <1>0, <3>2, EnPartes DEF PunteroVigente
    <3>3. CASE Saliendo(p)
      <4>1. PICK c \in CPUs : hilo[c].en = "exit_libera" /\ hilo[c].p = p
        BY <3>3 DEF Saliendo
      <4>2. En(c, p)
        BY <1>0, <4>1, HilosDe, EnPartes, Manos, Disjuntos
      <4> QED BY <4>2
    <3> QED BY <2>1, <3>1, <3>2, <3>3 DEF Despachado
  <2>3. x \in Lugar \ {"SUSP_READY", "SUSP_BLOCKED"}
    BY <1>0, <2>2
  <2> QED BY <1>4, <1>a, <2>2, <2>3 DEF Terminal
<1> QED BY <1>1, <1>2, <1>3, <1>4 DEF EnMemoria

\* Who comes to READY and to BLOCKED.
LEMMA ListoNuevo ==
  ASSUME IInv, [Next]_vars, NEW p \in Pids
  PROVE  /\ p \in Range(cola'["READY"]) =>
              \/ p \in Range(cola["READY"]) \/ p \in lista["BLOCKED"]
              \/ \E t \in Creadores : hilo[t].en = "crear_agrega" /\ hilo[t].p = p
              \/ hilo["largo"].en = "desus_agrega" /\ hilo["largo"].p = p
         /\ p \in lista'["BLOCKED"] =>
              \/ p \in lista["BLOCKED"]
              \/ \E c \in CPUs : hilo[c].en \in PorBloquear /\ hilo[c].p = p
<1> DEFINE Viene == \/ p \in lista["BLOCKED"]
                    \/ \E t \in Creadores : hilo[t].en = "crear_agrega" /\ hilo[t].p = p
                    \/ hilo["largo"].en = "desus_agrega" /\ hilo["largo"].p = p
           Listo == p \in Range(cola'["READY"]) => p \in Range(cola["READY"]) \/ Viene
           Frena == p \in lista'["BLOCKED"] =>
                      \/ p \in lista["BLOCKED"]
                      \/ \E c \in CPUs : hilo[c].en \in PorBloquear /\ hilo[c].p = p
<1>0. /\ TypeOK /\ UnSoloLugar /\ cola \in [Estados -> Seq(Pids)] /\ lista \in [Grupos -> SUBSET Pids]
      /\ {"SUSP_BLOCKED", "BLOCKED", "TIMER", "EXEC", "EXIT"} \subseteq Grupos
      /\ {"SUSP_READY", "NEW", "READY"} \subseteq Estados
      /\ cola["READY"] \in Seq(Pids) /\ IsInjective(cola["READY"])
  BY DEF IInv, TypeOK, TiposPlan, Grupos, Estados, UnSoloLugar
<1>a. \A q \in Pids : Range(Append(cola["READY"], q)) = Range(cola["READY"]) \cup {q}
  BY <1>0, AppendPropiedades
<1>b. ASSUME UNCHANGED lista PROVE Frena
  BY <1>b
<1>c. ASSUME cola'["READY"] = cola["READY"] PROVE Listo
  BY <1>c
<1>d. ASSUME NEW q \in Pids, cola'["READY"] = Append(cola["READY"], q), p = q => Viene PROVE Listo
  BY <1>a, <1>d
<1>1. ASSUME NEW t \in {"main", "largo"} \cup CPUs, Creacion(t) PROVE Listo /\ Frena
  <2>0. UNCHANGED lista
    BY <1>1 DEF Creacion, ConsultarNEW, ConsultarSUSP, InitAgregaNEW, EnviarCrear, RespuestaCrear,
       SacarDeNEW, CreadoAReady, ReiniciarCrear, planVars
  <2>1. CASE CreadoAReady(t)
    <3>1. hilo[t].p \in Pids
      BY <1>0, <2>1, HilosDe DEF CreadoAReady, TypeOK, TiposHilo, Ociosas
    <3>2. cola'["READY"] = Append(cola["READY"], hilo[t].p) /\ hilo[t].en = "crear_agrega"
      BY <1>0, <2>1 DEF CreadoAReady, agregar_a_READY, Agrega
    <3> QED BY <1>b, <1>d, <2>0, <3>1, <3>2 DEF Creadores
  <2>2. CASE ~CreadoAReady(t)
    <3>1. \/ UNCHANGED cola
          \/ \E q : cola' = Agrega(cola, "NEW", q)
          \/ \E q : cola' = [cola EXCEPT !["NEW"] = Saca(@, q)]
      BY <1>1, <2>2 DEF Creacion, ConsultarNEW, ConsultarSUSP, InitAgregaNEW, EnviarCrear, RespuestaCrear,
         SacarDeNEW, ReiniciarCrear, agregar_a_NEW, planVars
    <3>2. cola'["READY"] = cola["READY"]
      BY <1>0, <3>1 DEF Agrega
    <3> QED BY <1>b, <1>c, <2>0, <3>2
  <2> QED BY <2>1, <2>2
<1>2. CASE \/ ejecutar_planificadores \/ Memoria \/ UNCHANGED vars
           \/ LargoDespierta \/ EnviarDesuspender \/ RespuestaDesuspender \/ ReiniciarDesuspender
           \/ \E c \in CPUs : \/ Cpu(c) \/ conectar_cpu(c) \/ SysComienzoIO(c)
                              \/ agregar_a_cola_por_IO(c) \/ SysInitProc(c) \/ SysDumpMemory(c)
                              \/ LiberarPorDump(c) \/ SysExit(c) \/ RespuestaFinalizar(c)
                              \/ ReiniciarFinalizar(c)
           \/ \E d \in Ios : atender_cola_espera(d)
           \/ \E q \in Pids : TimerAvisa(q)
  <2>1. UNCHANGED <<cola, lista>>
    BY <1>2 DEF ejecutar_planificadores, Memoria, vars, LargoDespierta, EnviarDesuspender,
       RespuestaDesuspender, ReiniciarDesuspender, Cpu, CpuBloqueante, CpuInitProc, conectar_cpu,
       SysComienzoIO, agregar_a_cola_por_IO, SysInitProc, SysDumpMemory, LiberarPorDump, SysExit,
       RespuestaFinalizar, ReiniciarFinalizar, atender_cola_espera, TimerAvisa, planVars
  <2> QED BY <2>1
<1>3. CASE LargoEligeNEW \/ LargoEligeSUSP
  <2>1. /\ UNCHANGED lista
        /\ UNCHANGED cola \/ \E q \in {"NEW", "SUSP_READY"} : \E s : cola' = [cola EXCEPT ![q] = s]
    BY <1>3 DEF LargoEligeNEW, LargoEligeSUSP, Elige
  <2>2. cola'["READY"] = cola["READY"]
    BY <1>0, <2>1
  <2> QED BY <1>b, <1>c, <2>1, <2>2
<1>4. CASE DesuspendidoAReady
  <2>1. hilo["largo"].p \in Pids /\ hilo["largo"].en = "desus_agrega" /\ UNCHANGED lista
    BY <1>0, <1>4, HilosDe DEF DesuspendidoAReady, TypeOK, TiposHilo, Ociosas
  <2>2. cola'["READY"] = Append(cola["READY"], hilo["largo"].p)
    BY <1>0, <1>4 DEF DesuspendidoAReady, Agrega
  <2> QED BY <1>b, <1>d, <2>1, <2>2
<1>5. CASE Corto
  <2>1. \/ UNCHANGED <<cola, lista>>
        \/ /\ cola' = [cola EXCEPT !["READY"] = Saca(@, hilo["corto"].p)]
           /\ \E q : lista' = [lista EXCEPT !["EXEC"] = @ \cup {q}]
    BY <1>5 DEF Corto, CortoDespierta, enviar_a_cpu, ReadyAExec, planVars
  <2>2. \A q : Range(RemoveFirst(cola["READY"], q)) = Range(cola["READY"]) \ {q}
    BY <1>0, RemoveFirstPropiedades
  <2> QED BY <1>0, <2>1, <2>2 DEF Saca
<1>6. ASSUME NEW c \in CPUs, BloquearPorIO(c) \/ BloquearPorDump(c) PROVE Listo /\ Frena
  <2>1. /\ UNCHANGED cola /\ hilo[c].en \in PorBloquear
        /\ UNCHANGED lista \/ lista' = Mueve("EXEC", "BLOCKED", hilo[c].p)
    BY <1>6 DEF BloquearPorIO, BloquearPorDump, exec_a_blocked, PorBloquear
  <2> QED BY <1>0, <2>1 DEF Mueve
<1>7. ASSUME NEW c \in CPUs, buscar_proceso_por_pid(c) \/ LiberarYSalir(c) PROVE Listo /\ Frena
  <2>1. UNCHANGED cola
    BY <1>7 DEF buscar_proceso_por_pid, LiberarYSalir
  <2>2. \/ UNCHANGED lista
        \/ \E g \in Grupos : \E q : lista' = [lista EXCEPT ![g] = @ \ {q}]
        \/ \E q : lista' = [lista EXCEPT !["EXIT"] = @ \cup {q}]
    BY <1>0, <1>7 DEF buscar_proceso_por_pid, Busca, LiberarYSalir, agregar_a_EXIT
  <2> QED BY <1>0, <2>1, <2>2
<1>8. ASSUME NEW q \in Pids, DesdeBLOCKED(q) PROVE Listo /\ Frena
  <2>1. CASE q \in lista["BLOCKED"]
    <3>1. /\ lista' = [lista EXCEPT !["BLOCKED"] = @ \ {q}]
          /\ cola'["READY"] = Append(cola["READY"], q)
      BY <1>0, <1>8, <2>1 DEF DesdeBLOCKED, agregar_a_READY, Agrega
    <3> QED BY <1>0, <1>d, <2>1, <3>1
  <2>2. CASE q \notin lista["BLOCKED"]
    BY <1>8, <2>2 DEF DesdeBLOCKED
  <2> QED BY <2>1, <2>2
<1>9. ASSUME NEW q \in Pids, DesdeSUSP_BLOCKED(q) PROVE Listo /\ Frena
  <2>1. \/ UNCHANGED <<cola, lista>>
        \/ /\ lista' = [lista EXCEPT !["SUSP_BLOCKED"] = @ \ {q}]
           /\ cola' = Agrega(cola, "SUSP_READY", q)
    BY <1>9 DEF DesdeSUSP_BLOCKED, agregar_a_SUSP_READY
  <2> QED BY <1>0, <2>1 DEF Agrega
<1>10. ASSUME NEW d \in Ios, FinIO(d) \/ FinIOSusp(d) PROVE Listo /\ Frena
  <2>1. CASE FinIO(d)
    <3>1. enIO[d] \in Pids
      BY <1>0, <2>1 DEF FinIO, TypeOK, TiposIO, PidONadie
    <3> QED BY <1>8, <2>1, <3>1 DEF FinIO
  <2>2. CASE FinIOSusp(d)
    <3>1. hilo[d].p \in Pids
      BY <1>0, <2>2, HilosDe DEF FinIOSusp, TypeOK, TiposHilo, Ociosas
    <3> QED BY <1>9, <2>2, <3>1 DEF FinIOSusp
  <2> QED BY <1>10, <2>1, <2>2
<1>11. ASSUME NEW q \in Pids, TimerVence(q) \/ TimerSuspende(q) PROVE Listo /\ Frena
  <2>1. /\ UNCHANGED cola
        /\ \/ UNCHANGED lista
           \/ \E r : lista' = Mueve("BLOCKED", "TIMER", r) \/ lista' = Mueve("TIMER", "SUSP_BLOCKED", r)
    BY <1>11 DEF TimerVence, TimerSuspende
  <2> QED BY <1>0, <2>1 DEF Mueve
<1>12. CASE RespuestasMemoria
  <2>1. CASE RespuestaPedido \/ RespuestaDesconocida
    BY <2>1 DEF RespuestaPedido, RespuestaDesconocida, planVars
  <2>2. CASE RespuestaDump
    <3>1. Head(deMemoria).p \in Pids
      <4>1. deMemoria \in Seq(Respuestas) /\ deMemoria # <<>>
        BY <1>0, <2>2 DEF RespuestaDump, RecibeMemoria, TypeOK, TiposMem
      <4>2. PICK m \in Respuestas : m = Head(deMemoria)
        BY <4>1, UnoMenos
      <4> QED BY <4>2 DEF Respuestas
    <3> QED BY <1>8, <2>2, <3>1 DEF RespuestaDump
  <2>3. CASE RespuestaDumpSusp
    <3>1. hilo["memoria"].p \in Pids
      BY <1>0, <2>3, HilosDe DEF RespuestaDumpSusp, TypeOK, TiposHilo, Ociosas
    <3> QED BY <1>9, <2>3, <3>1 DEF RespuestaDumpSusp
  <2> QED BY <1>12, <2>1, <2>2, <2>3 DEF RespuestasMemoria
<1> QED BY <1>1, <1>2, <1>3, <1>4, <1>5, <1>6, <1>7, <1>10, <1>11, <1>12 DEF Next, Largo, Dispatch, IO, Timer

\* Where a thread that creates processes is, but for two of its steps.
LEMMA CreadorAparte ==
  ASSUME IInv, [Next]_vars, NEW t \in Creadores, ~EnviarCrear(t), ~RespuestaCrear(t)
  PROVE  /\ hilo'[t] = hilo[t] \/ (hilo[t].en # "crear_espera" /\ hilo'[t].en # "crear_espera")
         /\ hilo'[t].en \in {"crear_saca", "crear_agrega"} =>
              hilo[t].en \in {"crear_saca", "crear_agrega"} /\ hilo'[t].p = hilo[t].p
<1> DEFINE Tras == {"crear_saca", "crear_agrega"}
           Lejos ==
             /\ hilo'[t] = hilo[t] \/ (hilo[t].en # "crear_espera" /\ hilo'[t].en # "crear_espera")
             /\ hilo'[t].en \in Tras => hilo[t].en \in Tras /\ hilo'[t].p = hilo[t].p
<1>0. /\ TiposHilo /\ t \in Hilos /\ \A u \in {"main", "largo", "corto", "memoria"} \cup CPUs \cup Ios : u \in Hilos
      /\ t \notin {"corto", "memoria"} \cup Ios
      /\ "largo" \notin CPUs
  BY HilosDe, ConstantesOK DEF IInv, TypeOK, Creadores
<1>a. ASSUME NEW u \in Hilos \ {t}, NEW e, Va(u, e) \/ Queda(u, e) \/ \E p, k : VaCon(u, e, p, k)
      PROVE  Lejos
  BY <1>0, <1>a, SoloUno
<1>b. ASSUME NEW e, e \notin Tras \cup {"crear_espera"}, hilo[t].en # "crear_espera",
             Va(t, e) \/ Queda(t, e) \/ \E p, k : VaCon(t, e, p, k)
      PROVE  Lejos
  BY <1>0, <1>b, SoloUno
<1>1. ASSUME NEW u \in {"main", "largo"} \cup CPUs, Creacion(u) PROVE Lejos
  <2>1. CASE u # t
    <3>1. \E e : Va(u, e) \/ Queda(u, e)
      BY <1>1 DEF Creacion, ConsultarNEW, ConsultarSUSP, InitAgregaNEW, EnviarCrear, RespuestaCrear,
         SacarDeNEW, CreadoAReady, ReiniciarCrear
    <3> QED BY <1>0, <1>a, <2>1, <3>1
  <2>2. CASE u = t /\ SacarDeNEW(t)
    BY <1>0, <2>2, SoloUno DEF SacarDeNEW
  <2>3. CASE u = t /\ ~SacarDeNEW(t)
    <3>1. PICK e \in {"init_consulta_susp", "init_a_new", "crear_envia", "crear_reinicia", Reposo(t)} :
            Va(t, e) \/ Queda(t, e)
      BY <1>1, <2>3 DEF Creacion, ConsultarNEW, ConsultarSUSP, InitAgregaNEW, CreadoAReady, ReiniciarCrear
    <3>2. hilo[t].en # "crear_espera"
      BY <1>1, <2>3 DEF Creacion, ConsultarNEW, ConsultarSUSP, InitAgregaNEW, CreadoAReady, ReiniciarCrear
    <3>3. e \notin Tras \cup {"crear_espera"}
      BY <3>1 DEF Reposo
    <3> QED BY <1>b, <3>1, <3>2, <3>3
  <2> QED BY <2>1, <2>2, <2>3
<1>2. CASE ejecutar_planificadores
  <2>1. hilo["main"].en = "arranca" /\ hilo["largo"].en = "apagado"
    BY <1>2 DEF ejecutar_planificadores, IInv, Arranque
  <2>2. hilo'["main"].en = "fin" /\ hilo'["largo"].en = "espera"
        /\ \A u \in Hilos \ {"main", "largo", "corto"} : hilo'[u] = hilo[u]
    BY <1>0, <1>2 DEF ejecutar_planificadores, TiposHilo, Parado
  <2> QED BY <1>0, <2>1, <2>2
<1>3. CASE Largo
  <2>1. CASE t # "largo"
    <3>1. \E e : Va("largo", e) \/ Queda("largo", e) \/ \E p, k : VaCon("largo", e, p, k)
      BY <1>3 DEF Largo, LargoDespierta, LargoEligeNEW, LargoEligeSUSP, EnviarDesuspender,
         RespuestaDesuspender, DesuspendidoAReady, ReiniciarDesuspender, Elige
    <3> QED BY <1>0, <1>a, <2>1, <3>1
  <2>2. CASE t = "largo"
    <3>1. hilo["largo"].en # "crear_espera"
      BY <1>3 DEF Largo, LargoDespierta, LargoEligeNEW, LargoEligeSUSP, EnviarDesuspender,
         RespuestaDesuspender, DesuspendidoAReady, ReiniciarDesuspender
    <3>2. PICK e \in Etiquetas \ (Tras \cup {"crear_espera"}) :
            Va("largo", e) \/ Queda("largo", e) \/ \E p, k : VaCon("largo", e, p, k)
      BY <1>3 DEF Largo, LargoDespierta, LargoEligeNEW, LargoEligeSUSP, EnviarDesuspender,
         RespuestaDesuspender, DesuspendidoAReady, ReiniciarDesuspender, Elige, Etiquetas
    <3> QED BY <1>b, <2>2, <3>1, <3>2
  <2> QED BY <2>1, <2>2
<1>4. CASE Corto
  <2>1. UNCHANGED hilo \/ \E e : Va("corto", e) \/ Queda("corto", e) \/ \E p, k : VaCon("corto", e, p, k)
    BY <1>4 DEF Corto, CortoDespierta, enviar_a_cpu, ReadyAExec
  <2> QED BY <1>0, <1>a, <2>1
<1>5. ASSUME NEW c \in CPUs, Dispatch(c) PROVE Lejos
  <2>1. /\ hilo[c].en # "crear_espera"
        /\ \E e \in Etiquetas \ (Tras \cup {"crear_espera"}) :
             Va(c, e) \/ Queda(c, e) \/ \E p, k : VaCon(c, e, p, k)
    <3>1. CASE buscar_proceso_por_pid(c)
      BY <3>1 DEF buscar_proceso_por_pid, Busca, Etiquetas
    <3>2. CASE ~buscar_proceso_por_pid(c)
      <4>1. hilo[c].en # "crear_espera"
        BY <1>5, <3>2 DEF Dispatch, SysComienzoIO, BloquearPorIO, agregar_a_cola_por_IO, SysInitProc,
           SysDumpMemory, LiberarPorDump, BloquearPorDump, SysExit, RespuestaFinalizar,
           LiberarYSalir, ReiniciarFinalizar, Recibe
      <4>2. \E e \in Etiquetas \ (Tras \cup {"crear_espera"}) :
              Va(c, e) \/ Queda(c, e) \/ \E p, k : VaCon(c, e, p, k)
        BY <1>5, <3>2 DEF Dispatch, SysComienzoIO, BloquearPorIO, agregar_a_cola_por_IO, SysInitProc,
           init_proc_pid, SysDumpMemory, LiberarPorDump, BloquearPorDump, SysExit, RespuestaFinalizar,
           LiberarYSalir, ReiniciarFinalizar, Etiquetas
      <4> QED BY <4>1, <4>2
    <3> QED BY <3>1, <3>2
  <2>2. c \in Hilos
    BY <1>0
  <2>3. CASE c = t
    BY <1>b, <2>1, <2>3
  <2>4. CASE c # t
    BY <1>a, <2>1, <2>2, <2>4
  <2> QED BY <2>3, <2>4
<1>6. CASE \/ \E d \in CPUs : Cpu(d) \/ conectar_cpu(d)
           \/ \E p \in Pids : Timer(p)
           \/ Memoria \/ UNCHANGED vars
  BY <1>6 DEF Cpu, CpuBloqueante, CpuInitProc, conectar_cpu, Timer, TimerVence, TimerSuspende,
     TimerAvisa, Memoria, vars
<1>7. CASE RespuestasMemoria
  BY <1>0, <1>7, RespondeSola DEF Creadores
<1>8. CASE \E d \in Ios : IO(d)
  <2>1. UNCHANGED hilo \/ \E d \in Ios : \E e \in Etiquetas : Queda(d, e) \/ \E p, k : VaCon(d, e, p, k)
    BY <1>8 DEF IO, atender_cola_espera, FinIO, FinIOSusp, Etiquetas
  <2> QED BY <1>0, <1>a, <2>1
<1> QED BY <1>1, <1>2, <1>3, <1>4, <1>5, <1>6, <1>7, <1>8 DEF Next

\* Who may run could already, or has just been brought back, as long as no creation
\* becomes accepted in the step.
LEMMA EnMemoriaAtras ==
  ASSUME IInv, CpuInv, AltaInv, [Next]_vars, NEW p \in Pids, EnMemoria(p)',
         \A t \in Creadores : hilo'[t].en = "crear_espera" /\ Dijo("CREAR")' =>
           ~EnviarCrear(t) /\ Dijo("CREAR")
  PROVE  EnMemoria(p) \/ Concedido(p)
<1>0. /\ TiposHilo /\ PunteroVigente /\ binario \in [Pedidos -> Nat] /\ "CREAR" \in Pedidos
      /\ \A t \in Creadores : t \in Hilos
  BY HilosDe DEF IInv, TypeOK, TiposResp, Pedidos, Creadores
<1>1. CASE p \in Range(cola'["READY"])
  BY <1>1, ListoNuevo DEF EnMemoria, Creado, Concedido
<1>2. CASE p \in lista'["BLOCKED"]
  <2>1. p \in lista["BLOCKED"] \/ \E c \in CPUs : hilo[c].en \in PorBloquear /\ hilo[c].p = p
    BY <1>2, ListoNuevo
  <2> QED BY <2>1 DEF EnMemoria, SinDueno
<1>3. ASSUME NEW t \in Creadores, hilo'[t].p = p,
             \/ hilo'[t].en \in {"crear_saca", "crear_agrega"}
             \/ hilo'[t].en = "crear_espera" /\ Dijo("CREAR")'
      PROVE  Creado(p)
  <2>1. CASE EnviarCrear(t)
    <3>1. hilo'[t].en = "crear_espera"
      BY <1>0, <2>1, SoloUno DEF EnviarCrear
    <3> QED BY <1>3, <2>1, <3>1
  <2>2. CASE RespuestaCrear(t)
    <3>1. /\ hilo[t].en = "crear_espera" /\ binario["CREAR"] > 0
          /\ \/ respuesta["CREAR"] /\ hilo'[t].p = hilo[t].p
             \/ hilo'[t].en \in {"espera", "init_a_new"}
      BY <1>0, <2>2, SoloUno DEF RespuestaCrear
    <3>2. respuesta["CREAR"] /\ hilo'[t].p = hilo[t].p
      BY <1>3, <3>1
    <3>3. binario["CREAR"] = 1
      BY <1>0, <3>1 DEF AltaInv, Turno, EnCurso
    <3> QED BY <1>3, <3>1, <3>2, <3>3 DEF Creado, Dijo
  <2>3. CASE ~EnviarCrear(t) /\ ~RespuestaCrear(t)
    <3>1. CASE hilo'[t].en \in {"crear_saca", "crear_agrega"}
      BY <1>3, <2>3, <3>1, CreadorAparte DEF Creado
    <3>2. CASE hilo'[t].en = "crear_espera" /\ Dijo("CREAR")'
      BY <1>3, <2>3, <3>2, CreadorAparte DEF Creado
    <3> QED BY <1>3, <3>1, <3>2
  <2> QED BY <2>1, <2>2, <2>3
<1>4. CASE ~SinDueno(p)'
  <2>1. CASE SinDueno(p)
    <3>1. hilo["corto"].en = "busca_cpu" /\ hilo["corto"].p = p
      BY <1>4, <2>1, SinDuenoQueda DEF enviar_a_cpu
    <3> QED BY <1>0, <3>1 DEF PunteroVigente, EnMemoria
  <2> QED BY <2>1 DEF EnMemoria
<1> QED BY <1>1, <1>2, <1>3, <1>4 DEF EnMemoria, Creado

\* The steps in which the memory attends no request.
LEMMA AltaAjena ==
  ASSUME IInv, CpuInv, SuspInv, AltaInv, [Next]_vars, UNCHANGED residencia,
         Turno("CREAR", Creadores, "crear_espera")',
         \A t \in Creadores : hilo'[t].en = "crear_espera" /\ Dijo("CREAR")' =>
           ~EnviarCrear(t) /\ Dijo("CREAR")
  PROVE  AltaInv'
<1>1. ASSUME NEW p \in Pids, EnMemoria(p)' PROVE residencia'[p].marcos
  <2>1. EnMemoria(p) \/ Concedido(p)
    BY <1>1, EnMemoriaAtras
  <2> QED BY <2>1 DEF AltaInv, SuspInv, Suspension
<1>2. (\A p \in Pids : EnMemoria(p) => residencia[p].marcos)'
  BY <1>1
<1> QED BY <1>2 DEF AltaInv

\* A process is to be created.
LEMMA AltaPide ==
  ASSUME IInv, CpuInv, SuspInv, AltaInv, UnaAlta', [Next]_vars, NEW t \in Creadores, EnviarCrear(t)
  PROVE  AltaInv'
<1>0. /\ TypeOK /\ TiposHilo /\ \A u \in Creadores : u \in Hilos
  BY HilosDe DEF IInv, TypeOK, Creadores
<1>1. PICK p \in Pids : p = hilo[t].p
  BY <1>0 DEF EnviarCrear, TiposHilo, Ociosas
<1>2. PICK m \in Peticiones : m = [op |-> "CREAR", p |-> p]
  BY DEF Peticiones
<1>3. /\ aMemoria' = Append(aMemoria, m) /\ m.op = "CREAR" /\ m.p = p
      /\ UNCHANGED <<residencia, deMemoria, binario, respuesta>>
      /\ Va(t, "crear_espera") /\ hilo[t].en = "crear_envia"
  BY <1>1, <1>2 DEF EnviarCrear, EnviarPedido, respVars
<1>4. /\ hilo'[t].en = "crear_espera" /\ hilo'[t].p = p
      /\ \A u \in Creadores \ {t} : hilo'[u] = hilo[u]
  BY <1>0, <1>1, <1>3, SoloUno
<1>5. \A u \in Creadores : hilo[u].en # "crear_espera"
  BY <1>3, <1>4 DEF UnaAlta
<1>6. Turno("CREAR", Creadores, "crear_espera")
  BY DEF AltaInv
<1>7. Turno("CREAR", Creadores, "crear_espera")'
  BY <1>0, <1>3, <1>4, <1>5, <1>6, TurnoPide
<1>8. ~Dijo("CREAR")'
  <2>1. Libre(aMemoria, deMemoria, binario["CREAR"], "CREAR")
    BY <1>5, <1>6 DEF Turno
  <2> QED BY <1>3, <2>1 DEF Libre, Dijo, HayOp
<1> QED BY <1>3, <1>7, <1>8, AltaAjena

\* ... and whoever asked reads the answer.
LEMMA AltaSabe ==
  ASSUME IInv, CpuInv, SuspInv, AltaInv, [Next]_vars, NEW t \in Creadores, RespuestaCrear(t)
  PROVE  AltaInv'
<1>0. /\ TypeOK /\ TiposHilo /\ binario \in [Pedidos -> Nat] /\ "CREAR" \in Pedidos
      /\ \A u \in Creadores : u \in Hilos
  BY HilosDe DEF IInv, TypeOK, TiposResp, Pedidos, Creadores
<1>1. /\ hilo[t].en = "crear_espera" /\ binario["CREAR"] > 0 /\ binario["CREAR"] \in Nat
      /\ binario'["CREAR"] = binario["CREAR"] - 1
      /\ UNCHANGED <<aMemoria, deMemoria, residencia>>
  BY <1>0 DEF RespuestaCrear, memVars
<1>2. hilo'[t].en # "crear_espera" /\ \A u \in Creadores \ {t} : hilo'[u] = hilo[u]
  BY <1>0, SoloUno DEF RespuestaCrear
<1>3. Turno("CREAR", Creadores, "crear_espera")
  BY DEF AltaInv
<1>4. /\ Turno("CREAR", Creadores, "crear_espera")'
      /\ binario["CREAR"] = 1 /\ ~HayOp(deMemoria, "CREAR")
  BY <1>0, <1>1, <1>2, <1>3, TurnoToma
<1>5. ~Dijo("CREAR")'
  BY <1>1, <1>4 DEF Dijo, HayOp
<1> QED BY <1>1, <1>4, <1>5, AltaAjena

\* The memory attends a request: it takes frames only from one that is suspended or ends,
\* and a creation is accepted with its frames.
LEMMA AltaAtendida ==
  ASSUME IInv, CpuInv, DespachoSeguro, SuspInv, AltaInv, Memoria
  PROVE  AltaInv'
<1>0. /\ TypeOK /\ aMemoria \in Seq(Peticiones) /\ deMemoria \in Seq(Respuestas)
      /\ residencia \in [Pids -> [lista : BOOLEAN, marcos : BOOLEAN, swap : Nat]]
      /\ Turno("CREAR", Creadores, "crear_espera") /\ "CREAR" \in Pedidos
  BY DEF IInv, TypeOK, TiposMem, AltaInv, Pedidos
<1>1. aMemoria # <<>> /\ aMemoria' = Tail(aMemoria)
  BY DEF Memoria
<1>2. PICK h \in Peticiones : h = Head(aMemoria)
  BY <1>0, <1>1, UnoMenos
<1>3. PICK p \in Pids : p = h.p
  BY DEF Peticiones
<1>4. PICK x : x = Atencion(h.op, p).x
  OBVIOUS
<1>5. /\ residencia' = [residencia EXCEPT ![p] = x]
      /\ UNCHANGED <<cola, lista, hilo, cpu, deCpu, binario, respuesta>>
  BY <1>2, <1>3, <1>4 DEF Memoria, planVars, respVars, cpuVars
<1>6. h \in Range(aMemoria) /\ Hay(aMemoria, h.op, p)
  BY <1>0, <1>1, <1>2, <1>3, UnoMenos DEF Hay
<1>7. \/ /\ h.op # "CREAR"
         /\ \E r \in Seq(Respuestas) : /\ deMemoria' = deMemoria \o r
                                       /\ \A y \in Range(r) : y.op # "CREAR"
      \/ /\ h.op = "CREAR"
         /\ \E y \in Respuestas : /\ deMemoria' = Append(deMemoria, y)
                                  /\ y.op = "CREAR" /\ y.p = p /\ Atencion("CREAR", p).r = <<y>>
  BY <1>0, <1>2, <1>3, Contesta
<1>8. Turno("CREAR", Creadores, "crear_espera")'
  BY <1>0, <1>1, <1>2, <1>3, <1>5, <1>7, TurnoAtiende
<1>9. residencia[p] \in [lista : BOOLEAN, marcos : BOOLEAN, swap : Nat]
  BY <1>0
<1>10. h.op \in {"CREAR", "DESUSPENDER", "DUMP"} => (residencia[p].marcos => x.marcos)
  BY <1>4, <1>9 DEF Atencion
<1>11. h.op \in {"SUSPENDER", "FINALIZAR"} => ~EnMemoria(p)
  BY <1>6, EnMemoriaLugar DEF SuspInv, Terminales, Suspension
<1>12. ASSUME h.op = "CREAR", Dijo("CREAR")', ~Dijo("CREAR") PROVE x.marcos
  <2>1. PICK y \in Respuestas : deMemoria' = Append(deMemoria, y) /\ Atencion("CREAR", p).r = <<y>>
    BY <1>7, <1>12
  <2>2. Range(deMemoria') = Range(deMemoria) \cup {y}
    BY <1>0, <2>1, UnoMas
  <2>3. y.ok
    BY <1>5, <1>12, <2>2 DEF Dijo
  <2>4. CASE Entra(p)
    BY <1>4, <1>12, <2>4 DEF Atencion
  <2>5. CASE ~Entra(p)
    <3>1. <<y>> = <<Resp("CREAR", p, FALSE)>>
      BY <2>1, <2>5 DEF Atencion
    <3>2. ASSUME NEW A, NEW B, <<A>> = <<B>> PROVE A = B
      BY <3>2
    <3>3. y = Resp("CREAR", p, FALSE)
      BY <3>1, <3>2
    <3> QED BY <2>3, <3>3 DEF Resp
  <2> QED BY <2>4, <2>5
<1>13. ASSUME NEW q \in Pids, EnMemoria(q)' PROVE residencia'[q].marcos
  <2>1. CASE EnMemoria(q)
    <3>1. residencia[q].marcos
      BY <2>1 DEF AltaInv
    <3>2. CASE q # p
      BY <1>0, <1>5, <3>1, <3>2
    <3>3. CASE q = p
      BY <1>0, <1>5, <1>10, <1>11, <2>1, <3>1, <3>3 DEF Peticiones
    <3> QED BY <3>2, <3>3
  <2>2. CASE ~EnMemoria(q)
    <3>1. SinDueno(q)' <=> SinDueno(q)
      BY <1>5 DEF SinDueno
    <3>2. PICK t \in Creadores : /\ hilo[t].p = q /\ hilo[t].en = "crear_espera"
                                 /\ Dijo("CREAR")' /\ ~Dijo("CREAR")
      BY <1>5, <1>13, <2>2, <3>1 DEF EnMemoria, Creado
    <3>3. h.op = "CREAR"
      BY <1>0, <1>5, <1>7, <3>2, DijoIgual
    <3>4. p = q
      BY <1>0, <1>3, <1>6, <3>2, <3>3 DEF Turno, EnCurso
    <3> QED BY <1>0, <1>5, <1>12, <3>2, <3>3, <3>4
  <2> QED BY <2>1, <2>2
<1>14. (\A q \in Pids : EnMemoria(q) => residencia[q].marcos)'
  BY <1>13
<1> QED BY <1>8, <1>14 DEF AltaInv

\* At the start nobody may run, and nobody waits.
LEMMA AltaInicial == Init => AltaInv
<1> SUFFICES ASSUME Init PROVE AltaInv
  OBVIOUS
<1>1. /\ aMemoria = <<>> /\ deMemoria = <<>> /\ lista = [g \in Grupos |-> {}]
      /\ cola = [q \in Estados |-> <<>>] /\ binario = [o \in Pedidos |-> 0]
      /\ cpu = [c \in CPUs |-> [p |-> Nadie, pc |-> 0]] /\ deCpu = [c \in CPUs |-> <<>>]
  BY DEF Init
<1>6. "READY" \in Estados /\ "BLOCKED" \in Grupos /\ Nadie \notin Pids
  BY InvInicial, HechosCpu DEF Estados, Grupos
<1>2. /\ \A t \in Creadores : hilo[t].en \in {"init_consulta", "apagado", "recibe"}
      /\ \A c \in CPUs : hilo[c].en = "recibe"
  BY HilosDe, Disjuntos DEF Init, Parado, Creadores
<1>3. Range(<<>>) = {} /\ Len(<<>>) = 0
  BY DEF Range
<1>4. Turno("CREAR", Creadores, "crear_espera")
  BY <1>1, <1>2, <1>3 DEF Turno, Libre, HayOp, Pedidos
<1>5. ASSUME NEW p \in Pids PROVE ~EnMemoria(p)
  <2>1. SinDueno(p)
    BY <1>1, <1>2, <1>3, <1>6 DEF SinDueno, PorBloquear
  <2>2. ~Creado(p)
    BY <1>2 DEF Creado
  <2> QED BY <1>1, <1>3, <1>6, <2>1, <2>2 DEF EnMemoria
<1> QED BY <1>4, <1>5 DEF AltaInv

\* Every step keeps what is said of the frames of those that may run.
LEMMA AltaPaso ==
  ASSUME IInv, CpuInv, DespachoSeguro, SuspInv, AltaInv, UnaAlta', [Next]_vars
  PROVE  AltaInv'
<1>0. /\ TypeOK /\ TiposHilo /\ "CREAR" \in Pedidos /\ \A t \in Creadores : t \in Hilos
      /\ binario \in [Pedidos -> Nat] /\ respuesta \in [Pedidos -> BOOLEAN]
      /\ Turno("CREAR", Creadores, "crear_espera")
  BY HilosDe DEF IInv, TypeOK, TiposResp, Pedidos, AltaInv, Creadores
<1>1. CASE \E t \in Creadores : EnviarCrear(t)
  BY <1>1, AltaPide
<1>2. CASE \E t \in Creadores : RespuestaCrear(t)
  BY <1>2, AltaSabe
<1>3. CASE Memoria
  BY <1>3, AltaAtendida
<1>4. CASE \A t \in Creadores : ~EnviarCrear(t) /\ ~RespuestaCrear(t)
  <2>0. \A t \in Creadores : hilo'[t] = hilo[t] \/ (hilo[t].en # "crear_espera" /\ hilo'[t].en # "crear_espera")
    BY <1>4, CreadorAparte
  <2>a. ASSUME UNCHANGED <<deMemoria, residencia>>, binario'["CREAR"] = binario["CREAR"],
               respuesta'["CREAR"] \in {respuesta["CREAR"], FALSE},
               \/ UNCHANGED aMemoria
               \/ \E m \in Peticiones : m.op # "CREAR" /\ aMemoria' = Append(aMemoria, m)
        PROVE  AltaInv'
    <3>1. Turno("CREAR", Creadores, "crear_espera")'
      BY <1>0, <2>0, <2>a, TurnoAjeno
    <3>2. Dijo("CREAR")' => Dijo("CREAR")
      BY <2>a DEF Dijo
    <3> QED BY <1>4, <2>a, <3>1, <3>2, AltaAjena
  <2>b. ASSUME NEW op \in {"DESUSPENDER", "FINALIZAR", "DUMP", "SUSPENDER"}, NEW p \in Pids,
               UNCHANGED <<deMemoria, residencia, binario, respuesta>>,
               aMemoria' = Append(aMemoria, [op |-> op, p |-> p])
        PROVE  AltaInv'
    <3>1. PICK m \in Peticiones : m.op # "CREAR" /\ aMemoria' = Append(aMemoria, m)
      <4>1. [op |-> op, p |-> p] \in Peticiones
        BY DEF Peticiones
      <4> QED BY <2>b, <4>1
    <3> QED BY <2>a, <2>b, <3>1
  <2>1. CASE Callado
    BY <2>1, <2>a, Callan DEF memVars, respVars
  <2>2. ASSUME NEW t \in {"main", "largo"} \cup CPUs, ReiniciarCrear(t)
        PROVE  AltaInv'
    BY <1>0, <2>2, <2>a DEF ReiniciarCrear, memVars
  <2>3. CASE RespuestaDesuspender \/ ReiniciarDesuspender
    BY <1>0, <2>3, <2>a DEF RespuestaDesuspender, ReiniciarDesuspender, memVars
  <2>4. CASE \E c \in CPUs : RespuestaFinalizar(c) \/ ReiniciarFinalizar(c)
    BY <1>0, <2>4, <2>a DEF RespuestaFinalizar, ReiniciarFinalizar, memVars
  <2>5. CASE EnviarDesuspender
    <3>1. hilo["largo"].p \in Pids
      BY <1>0, <2>5, HilosDe DEF EnviarDesuspender, TiposHilo, Ociosas
    <3> QED BY <2>5, <2>b, <3>1 DEF EnviarDesuspender, EnviarPedido, respVars
  <2>6. ASSUME NEW c \in CPUs, SysDumpMemory(c) \/ SysExit(c) PROVE AltaInv'
    <3>1. PICK k \in Llamadas : k = Head(deCpu[c])
      BY <2>6, RecibeTipo DEF SysDumpMemory, SysExit, IInv, TypeOK
    <3>2. k.p \in Pids
      BY DEF Llamadas
    <3> QED BY <2>6, <2>b, <3>1, <3>2 DEF SysDumpMemory, SysExit, respVars
  <2>7. ASSUME NEW p \in Pids, TimerAvisa(p) PROVE AltaInv'
    <3>1. LeePid(p) \subseteq Pids
      BY ConstantesOK DEF LeePid, IInv, TypeOK, TiposPlan, Pids
    <3> QED BY <2>7, <2>b, <3>1 DEF TimerAvisa, respVars
  <2>8. CASE RespuestasMemoria
    <3>1. \A t \in Creadores : hilo'[t] = hilo[t]
      BY <1>0, <2>8, RespondeSola DEF Creadores
    <3>2. Turno("CREAR", Creadores, "crear_espera")' /\ (Dijo("CREAR")' <=> Dijo("CREAR"))
      BY <1>0, <2>8, <3>1, TurnoContesta
    <3>3. UNCHANGED residencia
      BY <2>8 DEF RespuestasMemoria, RespuestaPedido, RespuestaDump, RespuestaDumpSusp,
         RespuestaDesconocida, memVars
    <3> QED BY <1>4, <3>2, <3>3, AltaAjena
  <2> QED BY <1>3, <1>4, <2>1, <2>2, <2>3, <2>4, <2>5, <2>6, <2>7, <2>8, Clases DEF Creadores
<1> QED BY <1>1, <1>2, <1>4

\* A process in READY or BLOCKED, or on a CPU, has its frames, with any number of CPUs and
\* devices, as long as no two creations wait for the memory at once, processes have pages,
\* the answer that wakes one up does not overtake its timer, and no system call overtakes
\* the short term planner.
THEOREM LosEjecutablesEnMemoria ==
  Paginados /\ {"timer", "syscall"} \cap Carreras = {} =>
    (Spec /\ []UnaAlta => []EjecutableEnMemoria)
<1> SUFFICES ASSUME Paginados, "timer" \notin Carreras, "syscall" \notin Carreras
             PROVE  Spec /\ []UnaAlta => []EjecutableEnMemoria
  OBVIOUS
<1>1. Init => FichasInv /\ SuspInv /\ AltaInv
  BY FichasInicial, SuspInicial, AltaInicial
<1>2. IInv /\ IInv' /\ CpuInv /\ SuspInv /\ [Next]_vars => SuspInv'
  BY SuspPaso
<1>3. IInv /\ CpuInv /\ FichasInv /\ [Next]_vars => FichasInv'
  BY FichasPaso
<1>4. IInv /\ CpuInv /\ FichasInv /\ SuspInv /\ AltaInv /\ UnaAlta' /\ [Next]_vars => AltaInv'
  BY AltaPaso DEF FichasInv
<1>5. IInv /\ AltaInv => EjecutableEnMemoria
  <2> SUFFICES ASSUME IInv, AltaInv PROVE EjecutableEnMemoria
    OBVIOUS
  <2>1. /\ Range(cola["READY"]) \subseteq Pids /\ lista["BLOCKED"] \subseteq Pids
        /\ \A c \in CPUs : cpu[c].p # Nadie => cpu[c].p \in Pids
    BY DEF IInv, TypeOK, TiposPlan, TiposCPU, Grupos, Estados, Range, PidONadie
  <2>2. \A c \in CPUs : cpu[c].p # Nadie => EnMemoria(cpu[c].p)
    BY DEF EnMemoria, SinDueno
  <2> QED BY <2>1, <2>2 DEF AltaInv, EnMemoria, EjecutableEnMemoria, ConMarcos
<1> QED BY <1>1, <1>2, <1>3, <1>4, <1>5, Invariante, InvarianteCpu, PTL DEF Spec

-----------------------------------------------------------------------------
(* With one CPU its dispatch thread and the long term planner never wait for *)
(* the memory at once: INIT_PROC sends its process only past an empty NEW,   *)
(* nobody else adds to NEW, and the planner takes from NEW what it creates.  *)

UnaSolaCPU == \A c, d \in CPUs : c = d

\* INIT_PROC found NEW empty.
Consultando == {"init_consulta_susp", "crear_envia", "crear_espera"}

SolaInv ==
  /\ hilo["main"].en # "fin" =>
       \A c \in CPUs : hilo[c].en = "recibe" /\ cpu[c].p = Nadie /\ deCpu[c] = <<>>
  /\ \A c \in CPUs : hilo[c].en \in Consultando => cola["NEW"] = <<>>

\* What INIT_PROC in a dispatch thread, and everybody else, do to that thread and to NEW.
LEMMA ConsultaVigente ==
  ASSUME IInv, UnaSolaCPU, SolaInv, [Next]_vars, NEW c \in CPUs
  PROVE  /\ hilo'[c].en \in Consultando => cola'["NEW"] = <<>>
         /\ \/ hilo'[c] = hilo[c] \/ hilo[c].en # "recibe" \/ deCpu[c] # <<>>
<1> DEFINE Vale == /\ hilo'[c].en \in Consultando => cola'["NEW"] = <<>>
                   /\ \/ hilo'[c] = hilo[c] \/ hilo[c].en # "recibe" \/ deCpu[c] # <<>>
<1>0. /\ TiposHilo /\ PunteroVigente /\ Arranque /\ cola \in [Estados -> Seq(Pids)]
      /\ {"NEW", "READY", "SUSP_READY"} \subseteq Estados /\ Range(<<>>) = {}
      /\ \A u \in {"main", "largo", "corto", "memoria"} \cup CPUs \cup Ios : u \in Hilos
      /\ c \notin {"main", "largo", "corto", "memoria"} \cup Ios
  BY HilosDe, ConstantesOK DEF IInv, TypeOK, TiposPlan, Estados, Range
<1>a. ASSUME hilo'[c] = hilo[c], cola'["NEW"] = cola["NEW"] \/ hilo[c].en \notin Consultando PROVE Vale
  BY <1>a DEF SolaInv
<1>b. ASSUME NEW u \in Hilos \ {c}, NEW e, Va(u, e) \/ Queda(u, e) \/ \E p, k : VaCon(u, e, p, k)
      PROVE  hilo'[c] = hilo[c]
  BY <1>0, <1>b, SoloUno
<1>1. CASE Creacion(c)
  <2>1. hilo[c].en # "recibe"
    BY <1>1 DEF Creacion, ConsultarNEW, ConsultarSUSP, InitAgregaNEW, EnviarCrear, RespuestaCrear,
       SacarDeNEW, CreadoAReady, ReiniciarCrear
  <2>2. CASE ConsultarNEW(c)
    <3>1. UNCHANGED cola /\ (cola["NEW"] # <<>> => Va(c, "init_a_new"))
      BY <2>2 DEF ConsultarNEW, planVars
    <3>2. cola["NEW"] # <<>> => hilo'[c].en = "init_a_new"
      BY <1>0, <3>1, SoloUno
    <3> QED BY <2>1, <3>1, <3>2 DEF Consultando
  <2>3. CASE ConsultarSUSP(c) \/ EnviarCrear(c)
    <3>1. hilo[c].en \in Consultando /\ UNCHANGED cola
      BY <2>3 DEF ConsultarSUSP, EnviarCrear, planVars, Consultando
    <3> QED BY <2>1, <3>1 DEF SolaInv
  <2>4. CASE InitAgregaNEW(c) \/ RespuestaCrear(c) \/ SacarDeNEW(c) \/ CreadoAReady(c) \/ ReiniciarCrear(c)
    <3>1. PICK e \in {"crear_saca", "crear_agrega", "crear_reinicia", "init_a_new", "espera", Reposo(c)} :
            Va(c, e) \/ Queda(c, e)
      BY <2>4 DEF InitAgregaNEW, RespuestaCrear, SacarDeNEW, CreadoAReady, ReiniciarCrear
    <3>2. e \notin Consultando
      BY <3>1 DEF Reposo, Consultando
    <3>3. hilo'[c].en = e
      BY <1>0, <3>1, SoloUno
    <3> QED BY <2>1, <3>2, <3>3
  <2> QED BY <1>1, <2>2, <2>3, <2>4 DEF Creacion
<1>2. ASSUME NEW t \in {"main", "largo"} \cup CPUs, t # c, Creacion(t) PROVE Vale
  <2>1. \E e : Va(t, e) \/ Queda(t, e)
    BY <1>2 DEF Creacion, ConsultarNEW, ConsultarSUSP, InitAgregaNEW, EnviarCrear, RespuestaCrear,
       SacarDeNEW, CreadoAReady, ReiniciarCrear
  <2>2. hilo'[c] = hilo[c]
    BY <1>0, <1>2, <1>b, <2>1
  <2>3. CASE t = "main"
    <3>1. hilo["main"].en # "fin"
      BY <1>2, <2>3 DEF Creacion, ConsultarNEW, ConsultarSUSP, InitAgregaNEW, EnviarCrear, RespuestaCrear,
         SacarDeNEW, CreadoAReady, ReiniciarCrear
    <3> QED BY <1>a, <2>2, <3>1 DEF SolaInv, Consultando
  <2>4. CASE t = "largo" /\ SacarDeNEW("largo")
    <3>1. cola["NEW"] # <<>>
      BY <1>0, <2>4 DEF SacarDeNEW, PunteroVigente
    <3> QED BY <1>a, <2>2, <3>1 DEF SolaInv
  <2>5. CASE t = "largo" /\ ~SacarDeNEW("largo")
    <3>1. UNCHANGED cola \/ \E p : cola' = Agrega(cola, "READY", p)
      BY <1>0, <1>2, <2>5 DEF Creacion, ConsultarNEW, ConsultarSUSP, InitAgregaNEW, EnviarCrear,
         RespuestaCrear, CreadoAReady, ReiniciarCrear, agregar_a_READY, planVars, Arranque
    <3>2. cola'["NEW"] = cola["NEW"]
      BY <1>0, <3>1 DEF Agrega
    <3> QED BY <1>a, <2>2, <3>2
  <2> QED BY <1>2, <2>3, <2>4, <2>5 DEF UnaSolaCPU
<1>3. CASE ejecutar_planificadores
  <2>1. UNCHANGED cola /\ hilo'[c] = hilo[c]
    BY <1>0, <1>3 DEF ejecutar_planificadores, TiposHilo, planVars
  <2> QED BY <1>a, <2>1
<1>4. CASE Largo
  <2>1. \E e : Va("largo", e) \/ Queda("largo", e) \/ \E p, k : VaCon("largo", e, p, k)
    BY <1>4 DEF Largo, LargoDespierta, LargoEligeNEW, LargoEligeSUSP, EnviarDesuspender,
       RespuestaDesuspender, DesuspendidoAReady, ReiniciarDesuspender, Elige
  <2>2. hilo'[c] = hilo[c]
    BY <1>0, <1>b, <2>1
  <2>3. CASE LargoEligeNEW
    <3>1. cola["NEW"] # <<>> \/ UNCHANGED cola
      BY <2>3 DEF LargoEligeNEW
    <3> QED BY <1>a, <2>2, <3>1 DEF SolaInv
  <2>4. CASE ~LargoEligeNEW
    <3>1. \/ UNCHANGED cola
          \/ \E s : cola' = [cola EXCEPT !["SUSP_READY"] = s]
          \/ \E p : cola' = Agrega([cola EXCEPT !["SUSP_READY"] = Saca(@, p)], "READY", p)
      BY <1>4, <2>4 DEF Largo, LargoDespierta, LargoEligeSUSP, EnviarDesuspender,
         RespuestaDesuspender, DesuspendidoAReady, ReiniciarDesuspender, Elige, planVars
    <3>2. cola'["NEW"] = cola["NEW"]
      BY <1>0, <3>1 DEF Agrega
    <3> QED BY <1>a, <2>2, <3>2
  <2> QED BY <2>3, <2>4
<1>5. CASE Corto
  <2>1. UNCHANGED hilo \/ \E e : Va("corto", e) \/ Queda("corto", e) \/ \E p, k : VaCon("corto", e, p, k)
    BY <1>5 DEF Corto, CortoDespierta, enviar_a_cpu, ReadyAExec
  <2>2. hilo'[c] = hilo[c]
    BY <1>0, <1>b, <2>1
  <2>3. UNCHANGED cola \/ \E s : cola' = [cola EXCEPT !["READY"] = s]
    BY <1>5 DEF Corto, CortoDespierta, enviar_a_cpu, ReadyAExec, planVars
  <2>4. cola'["NEW"] = cola["NEW"]
    BY <1>0, <2>3
  <2> QED BY <1>a, <2>2, <2>4
<1>6. CASE Dispatch(c)
  <2>1. /\ hilo[c].en # "recibe" \/ deCpu[c] # <<>>
        /\ \E e \in Etiquetas \ Consultando : Va(c, e) \/ Queda(c, e) \/ \E p, k : VaCon(c, e, p, k)
    <3>1. CASE buscar_proceso_por_pid(c)
      BY <3>1 DEF buscar_proceso_por_pid, Busca, Etiquetas, Consultando
    <3>2. CASE ~buscar_proceso_por_pid(c)
      <4>1. hilo[c].en # "recibe" \/ deCpu[c] # <<>>
        BY <1>6, <3>2 DEF Dispatch, SysComienzoIO, BloquearPorIO, agregar_a_cola_por_IO, SysInitProc,
           SysDumpMemory, LiberarPorDump, BloquearPorDump, SysExit, RespuestaFinalizar,
           LiberarYSalir, ReiniciarFinalizar, Recibe
      <4>2. \E e \in Etiquetas \ Consultando : Va(c, e) \/ Queda(c, e) \/ \E p, k : VaCon(c, e, p, k)
        BY <1>6, <3>2 DEF Dispatch, SysComienzoIO, BloquearPorIO, agregar_a_cola_por_IO, SysInitProc,
           init_proc_pid, SysDumpMemory, LiberarPorDump, BloquearPorDump, SysExit, RespuestaFinalizar,
           LiberarYSalir, ReiniciarFinalizar, Etiquetas, Consultando
      <4> QED BY <4>1, <4>2
    <3> QED BY <3>1, <3>2
  <2>2. hilo'[c].en \notin Consultando
    BY <1>0, <2>1, SoloUno
  <2> QED BY <2>1, <2>2
<1>7. CASE \/ \E d \in CPUs : Cpu(d) \/ conectar_cpu(d)
           \/ \E p \in Pids : Timer(p)
           \/ Memoria \/ UNCHANGED vars
  <2>1. UNCHANGED <<cola, hilo>>
    BY <1>7 DEF Cpu, CpuBloqueante, CpuInitProc, conectar_cpu, Timer, TimerVence, TimerSuspende,
       TimerAvisa, Memoria, vars, planVars
  <2> QED BY <1>a, <2>1
<1>8. CASE RespuestasMemoria \/ \E d \in Ios : IO(d)
  <2>1. hilo'[c] = hilo[c]
    <3>1. CASE RespuestasMemoria
      BY <1>0, <3>1, RespondeSola
    <3>2. CASE \E d \in Ios : IO(d)
      <4>1. UNCHANGED hilo \/ \E d \in Ios : \E e : Queda(d, e) \/ \E p, k : VaCon(d, e, p, k)
        BY <3>2 DEF IO, atender_cola_espera, FinIO, FinIOSusp
      <4> QED BY <1>0, <1>b, <4>1
    <3> QED BY <1>8, <3>1, <3>2
  <2>2. UNCHANGED cola \/ \E q \in {"READY", "SUSP_READY"} : \E p : cola' = Agrega(cola, q, p)
    BY <1>8 DEF RespuestasMemoria, RespuestaPedido, RespuestaDump, RespuestaDumpSusp,
       RespuestaDesconocida, IO, atender_cola_espera, FinIO, FinIOSusp, DesdeBLOCKED,
       DesdeSUSP_BLOCKED, agregar_a_READY, agregar_a_SUSP_READY, planVars
  <2>3. cola'["NEW"] = cola["NEW"]
    BY <1>0, <2>2 DEF Agrega
  <2> QED BY <1>a, <2>1, <2>3
<1> QED BY <1>1, <1>2, <1>3, <1>4, <1>5, <1>6, <1>7, <1>8 DEF Next, UnaSolaCPU

\* Before main has started the planners no process is on a CPU.
LEMMA SolaPaso ==
  ASSUME IInv, UnaSolaCPU, SolaInv, [Next]_vars
  PROVE  SolaInv'
<1>0. /\ TiposHilo /\ Arranque
      /\ \A t \in {"main", "largo", "corto", "memoria"} \cup CPUs \cup Ios : t \in Hilos
      /\ \A c \in CPUs : c \notin {"main", "largo", "corto", "memoria"} \cup Ios
  BY HilosDe, ConstantesOK DEF IInv, TypeOK
<1>1. \A c \in CPUs : hilo'[c].en \in Consultando => cola'["NEW"] = <<>>
  BY ConsultaVigente
<1>2. ASSUME hilo["main"].en # "fin", NEW c \in CPUs
      PROVE  hilo'[c].en = "recibe" /\ cpu'[c].p = Nadie /\ deCpu'[c] = <<>>
  <2>1. /\ hilo["corto"].en = "apagado"
        /\ \A d \in CPUs : hilo[d].en = "recibe" /\ cpu[d].p = Nadie /\ deCpu[d] = <<>>
    BY <1>0, <1>2 DEF SolaInv, Arranque
  <2>2. hilo'[c] = hilo[c]
    BY <2>1, ConsultaVigente
  <2>3. UNCHANGED <<cpu, deCpu>>
    <3>1. ~Corto /\ ~\E d \in CPUs : Dispatch(d) \/ Cpu(d)
      <4>1. ~Corto
        BY <2>1 DEF Corto, CortoDespierta, enviar_a_cpu, ReadyAExec
      <4>2. ASSUME NEW d \in CPUs PROVE ~Cpu(d)
        BY <2>1 DEF Cpu, CpuBloqueante, CpuInitProc, PuedeLlamar
      <4>3. ASSUME NEW d \in CPUs PROVE ~Dispatch(d)
        BY <2>1 DEF Dispatch, SysComienzoIO, BloquearPorIO, agregar_a_cola_por_IO, SysInitProc,
           SysDumpMemory, LiberarPorDump, BloquearPorDump, SysExit, RespuestaFinalizar,
           buscar_proceso_por_pid, Busca, LiberarYSalir, ReiniciarFinalizar, Recibe
      <4> QED BY <4>1, <4>2, <4>3
    <3>2. \/ \E t \in {"main", "largo"} \cup CPUs : Creacion(t)
          \/ ejecutar_planificadores \/ Largo
          \/ \E d \in Ios : IO(d)
          \/ \E q \in Pids : Timer(q)
          \/ Memoria \/ RespuestasMemoria \/ UNCHANGED vars
          \/ \E d \in CPUs : conectar_cpu(d)
      BY <3>1 DEF Next
    <3> QED BY <3>2, OtrosAjenos DEF Ajeno
  <2> QED BY <2>1, <2>2, <2>3
<1>3. ASSUME hilo["main"].en = "fin" PROVE hilo'["main"].en = "fin"
  <2>a. ASSUME NEW u \in Hilos \ {"main"}, NEW e, Va(u, e) \/ Queda(u, e) \/ \E p, k : VaCon(u, e, p, k)
        PROVE  hilo'["main"] = hilo["main"]
    BY <1>0, <2>a, SoloUno
  <2>1. ~Creacion("main") /\ ~ejecutar_planificadores
    BY <1>3 DEF Creacion, ConsultarNEW, ConsultarSUSP, InitAgregaNEW, EnviarCrear, RespuestaCrear,
       SacarDeNEW, CreadoAReady, ReiniciarCrear, ejecutar_planificadores
  <2>2. ASSUME NEW t \in {"largo"} \cup CPUs, Creacion(t) PROVE hilo'["main"] = hilo["main"]
    <3>1. \E e : Va(t, e) \/ Queda(t, e)
      BY <2>2 DEF Creacion, ConsultarNEW, ConsultarSUSP, InitAgregaNEW, EnviarCrear, RespuestaCrear,
         SacarDeNEW, CreadoAReady, ReiniciarCrear
    <3> QED BY <1>0, <2>a, <3>1
  <2>3. ASSUME Largo \/ Corto PROVE hilo'["main"] = hilo["main"]
    <3>1. UNCHANGED hilo \/ \E u \in {"largo", "corto"} : \E e :
            Va(u, e) \/ Queda(u, e) \/ \E p, k : VaCon(u, e, p, k)
      BY <2>3 DEF Largo, LargoDespierta, LargoEligeNEW, LargoEligeSUSP, EnviarDesuspender,
         RespuestaDesuspender, DesuspendidoAReady, ReiniciarDesuspender, Elige,
         Corto, CortoDespierta, enviar_a_cpu, ReadyAExec
    <3> QED BY <1>0, <2>a, <3>1
  <2>4. ASSUME NEW d \in CPUs, Dispatch(d) PROVE hilo'["main"] = hilo["main"]
    <3>1. \E e : Va(d, e) \/ Queda(d, e) \/ \E p, k : VaCon(d, e, p, k)
      <4>1. CASE buscar_proceso_por_pid(d)
        BY <4>1 DEF buscar_proceso_por_pid, Busca
      <4>2. CASE ~buscar_proceso_por_pid(d)
        BY <2>4, <4>2 DEF Dispatch, SysComienzoIO, BloquearPorIO, agregar_a_cola_por_IO, SysInitProc,
           init_proc_pid, SysDumpMemory, LiberarPorDump, BloquearPorDump, SysExit, RespuestaFinalizar,
           LiberarYSalir, ReiniciarFinalizar
      <4> QED BY <4>1, <4>2
    <3> QED BY <1>0, <2>a, <3>1
  <2>5. CASE \/ \E d \in CPUs : Cpu(d) \/ conectar_cpu(d)
             \/ \E p \in Pids : Timer(p)
             \/ Memoria \/ UNCHANGED vars
    BY <1>3, <2>5 DEF Cpu, CpuBloqueante, CpuInitProc, conectar_cpu, Timer, TimerVence, TimerSuspende,
       TimerAvisa, Memoria, vars
  <2>6. CASE RespuestasMemoria
    BY <1>0, <1>3, <2>6, RespondeSola
  <2>7. CASE \E d \in Ios : IO(d)
    <3>1. UNCHANGED hilo \/ \E d \in Ios : \E e : Queda(d, e) \/ \E p, k : VaCon(d, e, p, k)
      BY <2>7 DEF IO, atender_cola_espera, FinIO, FinIOSusp
    <3>2. \A d \in Ios : d # "main"
      BY ConstantesOK
    <3> QED BY <1>0, <1>3, <2>a, <3>1, <3>2
  <2> QED BY <1>3, <2>1, <2>2, <2>3, <2>4, <2>5, <2>6, <2>7 DEF Next
<1> QED BY <1>1, <1>2, <1>3 DEF SolaInv

\* SolaInv at the start: no CPU has a process or has called.
LEMMA SolaInicial == Init => SolaInv
<1> SUFFICES ASSUME Init PROVE SolaInv
  OBVIOUS
<1>1. /\ cpu = [c \in CPUs |-> [p |-> Nadie, pc |-> 0]] /\ deCpu = [c \in CPUs |-> <<>>]
  BY DEF Init
<1>2. \A c \in CPUs : hilo[c].en = "recibe"
  BY HilosDe, Disjuntos DEF Init, Parado
<1> QED BY <1>1, <1>2 DEF SolaInv, Consultando

\* Then no two threads wait for a creation at once.
LEMMA SolaAlta ==
  ASSUME IInv, UnaSolaCPU, SolaInv
  PROVE  UnaAlta /\ UnaSalida
<1>1. /\ hilo["main"].en = "crear_espera" => /\ hilo["largo"].en = "apagado"
                                             /\ \A c \in CPUs : hilo[c].en = "recibe"
      /\ hilo["largo"].en = "crear_espera" => hilo["largo"].p \in Range(cola["NEW"])
  BY DEF IInv, Arranque, SolaInv, PunteroVigente
<1>2. Range(<<>>) = {}
  BY DEF Range
<1>3. \A c \in CPUs : hilo[c].en = "crear_espera" => hilo["largo"].en # "crear_espera"
  BY <1>1, <1>2 DEF SolaInv, Consultando
<1> QED BY <1>1, <1>3 DEF UnaAlta, UnaSalida, Creadores, UnaSolaCPU

\* With one CPU nobody has to wait for a turn: the ended hold no frames, and whoever may run
\* holds its own.
THEOREM ConUnaCpuLaMemoriaAlcanza ==
  UnaSolaCPU /\ Paginados /\ {"timer", "syscall"} \cap Carreras = {} =>
    (Spec => [](SalidaLiberaMemoria /\ EjecutableEnMemoria))
<1> SUFFICES ASSUME UnaSolaCPU, Paginados, "timer" \notin Carreras, "syscall" \notin Carreras
             PROVE  Spec => [](SalidaLiberaMemoria /\ EjecutableEnMemoria)
  OBVIOUS
<1>1. IInv /\ SolaInv /\ [Next]_vars => SolaInv'
  BY SolaPaso
<1>2. IInv /\ SolaInv => UnaAlta /\ UnaSalida
  BY SolaAlta
<1>3. Spec => []UnaAlta /\ []UnaSalida
  BY <1>1, <1>2, SolaInicial, Invariante, PTL DEF Spec
<1>4. /\ Spec /\ []UnaSalida => []SalidaLiberaMemoria
      /\ Spec /\ []UnaAlta => []EjecutableEnMemoria
  BY LaSalidaLiberaMemoria, LosEjecutablesEnMemoria
<1> QED BY <1>3, <1>4, PTL

=============================================================================
