------------------------ MODULE Planificacion_proofs ------------------------
(***************************************************************************)
(* Proofs about Planificacion, for every number of processes, system       *)
(* calls, CPUs and devices, every size of process and of memory, both      *)
(* admission algorithms and every race of the environment.                 *)
(***************************************************************************)
EXTENDS Planificacion, Listas

-----------------------------------------------------------------------------
(* The type invariant.                                                      *)

\* The threads that run INIT_PROC and those that serve a CPU or a device.
LEMMA HilosDe ==
  /\ \A t \in {"main", "largo"} \cup CPUs : t \in Hilos
  /\ "corto" \in Hilos /\ "memoria" \in Hilos /\ "largo" \in Hilos /\ "main" \in Hilos
  /\ \A c \in CPUs : c \in Hilos
  /\ \A d \in Ios : d \in Hilos
BY DEF Hilos

\* A thread that goes on with the process it carries.
LEMMA VaTipo ==
  ASSUME TiposHilo, NEW t \in Hilos, NEW e \in Etiquetas, Va(t, e),
         e \in Ociosas \/ hilo[t].p \in Pids
  PROVE  TiposHilo'
BY DEF TiposHilo, Va

\* A thread that goes back to where it waits.
LEMMA QuedaTipo ==
  ASSUME TiposHilo, NEW t \in Hilos, NEW e \in Etiquetas, Queda(t, e), e \in Ociosas
  PROVE  TiposHilo'
<1>1. 0 \in Pc
  BY ConstantesOK DEF Pc
<1> QED BY <1>1 DEF TiposHilo, Queda, Parado, PidONadie

\* A thread that takes a process.
LEMMA VaConTipo ==
  ASSUME TiposHilo, NEW t \in Hilos, NEW e \in Etiquetas, NEW p \in Pids, NEW k \in Pc,
         VaCon(t, e, p, k)
  PROVE  TiposHilo'
BY DEF TiposHilo, VaCon, PidONadie

\* Where a thread waits for work it carries no process.
LEMMA ReposoOcioso ==
  \A t \in Hilos : Reposo(t) \in Etiquetas /\ Reposo(t) \in Ociosas
BY DEF Reposo, Etiquetas, Ociosas

\* Types at the start.
LEMMA TipoInicial == Init => TypeOK
<1> SUFFICES ASSUME Init PROVE TypeOK
  OBVIOUS
<1>1. 0 \in Pc /\ 1 \in Pids /\ MaxPid \in Nat /\ 2 \in 1..(MaxPid + 1)
  BY ConstantesOK DEF Pc, Pids
<1>2. TiposPlan
  BY <1>1, EmptySeq DEF Init, TiposPlan
<1>3. TiposHilo
  BY <1>1 DEF Init, TiposHilo, Parado, PidONadie, Hilos, Etiquetas, Ociosas
<1>4. TiposCPU
  BY <1>1, EmptySeq, ConstantesOK DEF Init, TiposCPU, PidONadie
<1>5. TiposTimer /\ TiposResp
  BY DEF Init, TiposTimer, TiposResp
<1>6. TiposMem /\ TiposIO
  BY EmptySeq DEF Init, TiposMem, TiposIO, NoEsta, PidONadie
<1> QED BY <1>2, <1>3, <1>4, <1>5, <1>6 DEF TypeOK

\* Types: the creation of a process, by main, the planner or a system call.
LEMMA TipoCreacion ==
  ASSUME TypeOK, NEW t \in {"main", "largo"} \cup CPUs, Creacion(t)
  PROVE  TypeOK'
<1> USE DEF TypeOK
<1>0. t \in Hilos /\ hilo[t].en \in Etiquetas /\ (hilo[t].en \notin Ociosas => hilo[t].p \in Pids)
  BY HilosDe DEF TiposHilo
<1>1. CASE ConsultarNEW(t)
  <2>1. TiposHilo'
    BY <1>0, <1>1, VaTipo DEF ConsultarNEW, Etiquetas, Ociosas
  <2> QED BY <2>1, <1>1 DEF ConsultarNEW, planVars, timerVars, memVars, respVars, cpuVars,
             ioVars, TiposPlan, TiposCPU, TiposTimer, TiposMem, TiposResp, TiposIO
<1>2. CASE ConsultarSUSP(t)
  <2>1. TiposHilo'
    BY <1>0, <1>2, VaTipo DEF ConsultarSUSP, Etiquetas, Ociosas
  <2> QED BY <2>1, <1>2 DEF ConsultarSUSP, planVars, timerVars, memVars, respVars, cpuVars,
             ioVars, TiposPlan, TiposCPU, TiposTimer, TiposMem, TiposResp, TiposIO
<1>3. CASE InitAgregaNEW(t)
  <2>1. TiposHilo'
    BY <1>0, <1>3, QuedaTipo, ReposoOcioso DEF InitAgregaNEW
  <2>2. hilo[t].p \in Pids
    BY <1>0, <1>3 DEF InitAgregaNEW, Ociosas
  <2>3. TiposPlan'
    BY <1>3, <2>2, AppendPropiedades DEF InitAgregaNEW, agregar_a_NEW, Agrega, TiposPlan, Estados
  <2> QED BY <2>1, <2>3, <1>3 DEF InitAgregaNEW, timerVars, memVars, respVars, cpuVars,
             ioVars, TiposCPU, TiposTimer, TiposMem, TiposResp, TiposIO
<1>4. CASE EnviarCrear(t)
  <2>1. TiposHilo'
    BY <1>0, <1>4, VaTipo DEF EnviarCrear, Etiquetas, Ociosas
  <2>2. hilo[t].p \in Pids
    BY <1>0, <1>4 DEF EnviarCrear, Ociosas
  <2>3. TiposMem'
    BY <1>4, <2>2, AppendPropiedades DEF EnviarCrear, EnviarPedido, TiposMem, Peticiones
  <2> QED BY <2>1, <2>3, <1>4 DEF EnviarCrear, planVars, timerVars, respVars, cpuVars,
             ioVars, TiposPlan, TiposCPU, TiposTimer, TiposResp, TiposIO
<1>5. CASE RespuestaCrear(t)
  <2>1. TiposHilo'
    <3>1. CASE Va(t, "crear_saca") \/ Va(t, "init_a_new")
      BY <1>0, <1>5, <3>1, VaTipo DEF RespuestaCrear, Etiquetas, Ociosas
    <3>2. CASE Queda(t, "espera")
      BY <1>0, <3>2, QuedaTipo DEF Etiquetas, Ociosas
    <3> QED BY <1>5, <3>1, <3>2 DEF RespuestaCrear
  <2>2. TiposResp'
    BY <1>5 DEF RespuestaCrear, TiposResp, Pedidos
  <2> QED BY <2>1, <2>2, <1>5 DEF RespuestaCrear, planVars, timerVars, memVars, cpuVars,
             ioVars, TiposPlan, TiposCPU, TiposTimer, TiposMem, TiposIO
<1>6. CASE SacarDeNEW(t)
  <2>1. TiposHilo'
    BY <1>0, <1>6, VaTipo DEF SacarDeNEW, Etiquetas, Ociosas
  <2>2. TiposPlan'
    BY <1>6, RemoveFirstPropiedades DEF SacarDeNEW, Saca, TiposPlan, Estados
  <2> QED BY <2>1, <2>2, <1>6 DEF SacarDeNEW, timerVars, memVars, respVars, cpuVars,
             ioVars, TiposCPU, TiposTimer, TiposMem, TiposResp, TiposIO
<1>7. CASE CreadoAReady(t)
  <2>1. TiposHilo'
    BY <1>0, <1>7, VaTipo DEF CreadoAReady, Etiquetas, Ociosas
  <2>2. hilo[t].p \in Pids
    BY <1>0, <1>7 DEF CreadoAReady, Ociosas
  <2>3. TiposPlan'
    BY <1>7, <2>2, AppendPropiedades DEF CreadoAReady, agregar_a_READY, Agrega, TiposPlan, Estados
  <2> QED BY <2>1, <2>3, <1>7 DEF CreadoAReady, timerVars, memVars, respVars, cpuVars,
             ioVars, TiposCPU, TiposTimer, TiposMem, TiposResp, TiposIO
<1>8. CASE ReiniciarCrear(t)
  <2>1. TiposHilo'
    BY <1>0, <1>8, QuedaTipo, ReposoOcioso DEF ReiniciarCrear
  <2>2. TiposResp'
    BY <1>8 DEF ReiniciarCrear, TiposResp
  <2> QED BY <2>1, <2>2, <1>8 DEF ReiniciarCrear, planVars, timerVars, memVars, cpuVars,
             ioVars, TiposPlan, TiposCPU, TiposTimer, TiposMem, TiposIO
<1> QED BY <1>1, <1>2, <1>3, <1>4, <1>5, <1>6, <1>7, <1>8 DEF Creacion

\* The table of CPUs: the position chosen is one of the list.
LEMMA MinDeLista ==
  ASSUME TiposCPU, NEW I \in SUBSET DOMAIN listaCPU, I # {}
  PROVE  Min(I) \in I /\ listaCPU[Min(I)] \in CPUs
<1>1. DOMAIN listaCPU = 1..Len(listaCPU) /\ Len(listaCPU) \in Nat
  BY LenProperties DEF TiposCPU
<1>2. I \in SUBSET Nat
  BY <1>1
<1>3. Min(I) \in I
  BY <1>2, MinEsta
<1> QED BY <1>1, <1>3, ElementOfSeq DEF TiposCPU

\* Types: liberar_cpu.
LEMMA LiberarTipo ==
  ASSUME TiposCPU, NEW p
  PROVE  liberar_cpu(p) \in [CPUs -> PidONadie]
<1> DEFINE I == {i \in DOMAIN listaCPU : running[listaCPU[i]] = p}
<1>1. CASE I = {}
  BY <1>1 DEF liberar_cpu, TiposCPU
<1>2. CASE I # {}
  <2>1. listaCPU[Min(I)] \in CPUs
    BY <1>2, MinDeLista
  <2> QED BY <2>1, <1>2 DEF liberar_cpu, TiposCPU, PidONadie
<1> QED BY <1>1, <1>2

\* list_sort keeps a list of processes, and its head is one of them.
LEMMA ReordenadasPropiedades ==
  ASSUME NEW s \in Seq(Pids), NEW t \in Reordenadas(s)
  PROVE  /\ t \in Seq(Pids)
         /\ Range(t) = Range(s)
         /\ IsInjective(s) => IsInjective(t)
         /\ s # <<>> => Head(t) \in Range(s) /\ Head(t) \in Pids
<1>1. t \in Seq(Pids) /\ Range(t) = Range(s) /\ (IsInjective(s) => IsInjective(t))
  <2>1. CASE ~PMCP
    BY <2>1 DEF Reordenadas
  <2>2. CASE PMCP
    <3>1. PICK f \in Bijection(DOMAIN s, DOMAIN s) : t = [i \in DOMAIN s |-> s[f[i]]]
      BY <2>2 DEF Reordenadas
    <3> QED BY <3>1, PermutacionPropiedades
  <2> QED BY <2>1, <2>2
<1>2. ASSUME s # <<>> PROVE Head(t) \in Range(t) /\ Head(t) \in Pids
  <2>1. 1 \in DOMAIN s
    BY <1>2, EmptySeq, LenProperties
  <2>2. s[1] \in Range(t)
    BY <2>1, <1>1 DEF Range
  <2>3. t # <<>> /\ DOMAIN t = 1..Len(t) /\ Len(t) \in Nat
    BY <2>2, <1>1, LenProperties DEF Range
  <2>4. 1 \in DOMAIN t /\ Head(t) = t[1]
    BY <2>3, <1>1, EmptySeq
  <2> QED BY <2>4, <1>1, <2>3, HeadTailProperties DEF Range
<1> QED BY <1>1, <1>2

\* Types: the planner orders a queue and takes its first.
LEMMA EligeTipo ==
  ASSUME TiposPlan, TiposHilo, NEW q \in Estados, NEW e \in Etiquetas, cola[q] # <<>>,
         Elige(q, e)
  PROVE  TiposHilo' /\ cola' \in [Estados -> Seq(Pids)]
<1>1. cola[q] \in Seq(Pids)
  BY DEF TiposPlan
<1>2. PICK s \in Reordenadas(cola[q]) : /\ cola' = [cola EXCEPT ![q] = s]
                                        /\ VaCon("largo", e, Head(s), 0)
  BY DEF Elige
<1>3. s \in Seq(Pids) /\ Head(s) \in Pids
  BY <1>1, <1>2, ReordenadasPropiedades
<1>4. 0 \in Pc
  BY ConstantesOK DEF Pc
<1> QED BY <1>2, <1>3, <1>4, HilosDe, VaConTipo DEF TiposPlan

\* Types: the long term planner.
LEMMA TipoLargo ==
  ASSUME TypeOK, PunteroVigente, Largo
  PROVE  TypeOK'
<1> USE DEF TypeOK
<1>0. /\ "largo" \in Hilos
      /\ hilo["largo"].en \notin Ociosas => hilo["largo"].p \in Pids
  BY HilosDe DEF TiposHilo
<1>1. CASE LargoDespierta
  <2>1. TiposHilo'
    BY <1>0, <1>1, VaTipo DEF LargoDespierta, Etiquetas, Ociosas
  <2>2. TiposPlan'
    BY <1>1 DEF LargoDespierta, TiposPlan
  <2> QED BY <2>1, <2>2, <1>1 DEF LargoDespierta, planVars, timerVars, memVars, respVars,
       cpuVars, ioVars, TiposCPU, TiposTimer, TiposMem, TiposResp, TiposIO
<1>2. CASE LargoEligeNEW
  <2>1. TiposHilo' /\ cola' \in [Estados -> Seq(Pids)]
    <3>1. CASE cola["NEW"] = <<>>
      BY <1>0, <3>1, <1>2, QuedaTipo DEF LargoEligeNEW, Etiquetas, Ociosas, TiposPlan
    <3>2. CASE cola["NEW"] # <<>>
      BY <3>2, <1>2, EligeTipo DEF LargoEligeNEW, Estados, Etiquetas
    <3> QED BY <3>1, <3>2
  <2>2. TiposPlan'
    BY <2>1, <1>2 DEF LargoEligeNEW, TiposPlan
  <2> QED BY <2>1, <2>2, <1>2 DEF LargoEligeNEW, planVars, timerVars, memVars, respVars,
       cpuVars, ioVars, TiposCPU, TiposTimer, TiposMem, TiposResp, TiposIO
<1>3. CASE LargoEligeSUSP
  <2>1. TiposHilo' /\ cola' \in [Estados -> Seq(Pids)]
    BY <1>3, EligeTipo DEF LargoEligeSUSP, Estados, Etiquetas, PunteroVigente
  <2>2. TiposPlan'
    BY <2>1, <1>3 DEF LargoEligeSUSP, TiposPlan
  <2> QED BY <2>1, <2>2, <1>3 DEF LargoEligeSUSP, planVars, timerVars, memVars, respVars,
       cpuVars, ioVars, TiposCPU, TiposTimer, TiposMem, TiposResp, TiposIO
<1>4. CASE EnviarDesuspender
  <2>1. TiposHilo'
    BY <1>0, <1>4, VaTipo DEF EnviarDesuspender, Etiquetas, Ociosas
  <2>2. hilo["largo"].p \in Pids
    BY <1>0, <1>4 DEF EnviarDesuspender, Ociosas
  <2>3. TiposMem'
    BY <1>4, <2>2, AppendPropiedades DEF EnviarDesuspender, EnviarPedido, TiposMem, Peticiones
  <2> QED BY <2>1, <2>3, <1>4 DEF EnviarDesuspender, planVars, timerVars, memVars, respVars,
       cpuVars, ioVars, TiposPlan, TiposCPU, TiposTimer, TiposResp, TiposIO
<1>5. CASE RespuestaDesuspender
  <2>1. TiposHilo'
    <3>1. CASE Va("largo", "desus_agrega")
      BY <1>0, <1>5, <3>1, VaTipo DEF RespuestaDesuspender, Etiquetas, Ociosas
    <3>2. CASE Queda("largo", "espera")
      BY <1>0, <3>2, QuedaTipo DEF Etiquetas, Ociosas
    <3> QED BY <1>5, <3>1, <3>2 DEF RespuestaDesuspender
  <2>2. TiposResp'
    BY <1>5 DEF RespuestaDesuspender, TiposResp, Pedidos
  <2> QED BY <2>1, <2>2, <1>5 DEF RespuestaDesuspender, planVars, timerVars, memVars,
       respVars, cpuVars, ioVars, TiposPlan, TiposCPU, TiposTimer, TiposMem, TiposIO
<1>6. CASE DesuspendidoAReady
  <2>1. TiposHilo'
    BY <1>0, <1>6, VaTipo DEF DesuspendidoAReady, Etiquetas, Ociosas
  <2>2. hilo["largo"].p \in Pids
    BY <1>0, <1>6 DEF DesuspendidoAReady, Ociosas
  <2>3. TiposPlan'
    <3>1. Saca(cola["SUSP_READY"], hilo["largo"].p) \in Seq(Pids)
      BY RemoveFirstPropiedades DEF Saca, TiposPlan, Estados
    <3>2. Append(cola["READY"], hilo["largo"].p) \in Seq(Pids)
      BY <2>2, AppendPropiedades DEF TiposPlan, Estados
    <3> QED BY <1>6, <3>1, <3>2 DEF DesuspendidoAReady, Agrega, TiposPlan, Estados
  <2> QED BY <2>1, <2>3, <1>6 DEF DesuspendidoAReady, planVars, timerVars, memVars,
       respVars, cpuVars, ioVars, TiposCPU, TiposTimer, TiposMem, TiposResp, TiposIO
<1>7. CASE ReiniciarDesuspender
  <2>1. TiposHilo'
    BY <1>0, <1>7, QuedaTipo DEF ReiniciarDesuspender, Etiquetas, Ociosas
  <2>2. TiposResp'
    BY <1>7 DEF ReiniciarDesuspender, TiposResp
  <2> QED BY <2>1, <2>2, <1>7 DEF ReiniciarDesuspender, planVars, timerVars, memVars,
       respVars, cpuVars, ioVars, TiposPlan, TiposCPU, TiposTimer, TiposMem, TiposIO
<1> QED BY <1>1, <1>2, <1>3, <1>4, <1>5, <1>6, <1>7 DEF Largo

\* Types: the short term planner.
LEMMA TipoCorto ==
  ASSUME TypeOK, Corto
  PROVE  TypeOK'
<1> USE DEF TypeOK
<1>0. /\ "corto" \in Hilos
      /\ hilo["corto"].en \notin Ociosas => hilo["corto"].p \in Pids
      /\ 0 \in Pc
  BY HilosDe, ConstantesOK DEF TiposHilo, Pc
<1>1. CASE CortoDespierta
  <2>1. TiposHilo'
    <3>1. CASE cola["READY"] = <<>>
      BY <3>1, <1>1 DEF CortoDespierta, TiposHilo
    <3>2. CASE cola["READY"] # <<>>
      <4>1. Head(cola["READY"]) \in Pids
        BY <3>2, HeadTailProperties DEF TiposPlan, Estados
      <4> QED BY <1>0, <3>2, <4>1, <1>1, VaConTipo DEF CortoDespierta, Etiquetas
    <3> QED BY <3>1, <3>2
  <2>2. TiposPlan'
    BY <1>1 DEF CortoDespierta, TiposPlan
  <2> QED BY <2>1, <2>2, <1>1 DEF CortoDespierta, planVars, timerVars, memVars, respVars,
       cpuVars, ioVars, TiposCPU, TiposTimer, TiposMem, TiposResp, TiposIO
<1>2. CASE enviar_a_cpu
  <2>1. TiposHilo'
    <3>1. CASE Va("corto", "a_exec")
      BY <1>0, <1>2, <3>1, VaTipo DEF enviar_a_cpu, Etiquetas, Ociosas
    <3>2. CASE Queda("corto", "espera")
      BY <1>0, <3>2, QuedaTipo DEF Etiquetas, Ociosas
    <3> QED BY <1>2, <3>1, <3>2 DEF enviar_a_cpu
  <2>2. hilo["corto"].p \in Pids
    BY <1>0, <1>2 DEF enviar_a_cpu, Ociosas
  <2>3. TiposCPU'
    <3>1. CASE Libres = {}
      BY <3>1, <1>2 DEF enviar_a_cpu, TiposCPU
    <3>2. CASE Libres # {}
      <4> DEFINE c == listaCPU[Min(Libres)]
                 p == hilo["corto"].p
      <4>1. c \in CPUs
        BY <3>2, MinDeLista DEF Libres
      <4>2. /\ running' = [running EXCEPT ![c] = p]
            /\ cpu' = [cpu EXCEPT ![c] = [p |-> p, pc |-> programCounter[p]]]
            /\ UNCHANGED <<listaCPU, deCpu>>
        BY <3>2, <1>2 DEF enviar_a_cpu
      <4>3. programCounter[p] \in Pc /\ p \in PidONadie
        BY <2>2 DEF TiposPlan, PidONadie
      <4> QED BY <4>1, <4>2, <4>3 DEF TiposCPU
    <3> QED BY <3>1, <3>2
  <2> QED BY <2>1, <2>3, <1>2 DEF enviar_a_cpu, planVars, timerVars, memVars, respVars,
       cpuVars, ioVars, TiposPlan, TiposTimer, TiposMem, TiposResp, TiposIO
<1>3. CASE ReadyAExec
  <2>1. TiposHilo'
    BY <1>0, <1>3, QuedaTipo DEF ReadyAExec, Etiquetas, Ociosas
  <2>2. hilo["corto"].p \in Pids
    BY <1>0, <1>3 DEF ReadyAExec, Ociosas
  <2>3. TiposPlan'
    BY <1>3, <2>2, RemoveFirstPropiedades DEF ReadyAExec, Saca, TiposPlan, Estados, Grupos
  <2> QED BY <2>1, <2>3, <1>3 DEF ReadyAExec, planVars, timerVars, memVars, respVars,
       cpuVars, ioVars, TiposCPU, TiposTimer, TiposMem, TiposResp, TiposIO
<1> QED BY <1>1, <1>2, <1>3 DEF Corto

\* What a dispatch thread reads is a system call of a process.
LEMMA RecibeTipo ==
  ASSUME TiposCPU, NEW c \in CPUs, NEW op, Recibe(c, op)
  PROVE  /\ Head(deCpu[c]) \in Llamadas
         /\ deCpu' \in [CPUs -> Seq(Llamadas)]
<1>1. deCpu[c] \in Seq(Llamadas) /\ deCpu[c] # <<>>
  BY DEF TiposCPU, Recibe
<1>2. Head(deCpu[c]) \in Llamadas /\ Tail(deCpu[c]) \in Seq(Llamadas)
  BY <1>1, HeadTailProperties
<1> QED BY <1>2 DEF Recibe, TiposCPU

\* Types: exec_a_blocked.
LEMMA BloquearTipo ==
  ASSUME TiposPlan, TiposTimer, NEW p \in Pids, NEW k \in Pc, exec_a_blocked(p, k),
         UNCHANGED <<cola, siguientePid, largo, aviso>>
  PROVE  TiposPlan' /\ TiposTimer'
<1>1. CASE p \in lista["EXEC"]
  <2>1. lista' \in [Grupos -> SUBSET Pids]
    BY <1>1 DEF exec_a_blocked, Mueve, TiposPlan, Grupos
  <2>2. programCounter' \in [Pids -> Pc] /\ corto' \in Nat
    BY <1>1 DEF exec_a_blocked, TiposPlan
  <2>3. dormido' \in [Pids -> Nat]
    BY <1>1 DEF exec_a_blocked, TiposTimer
  <2> QED BY <2>1, <2>2, <2>3 DEF TiposPlan, TiposTimer
<1>2. CASE p \notin lista["EXEC"]
  BY <1>2 DEF exec_a_blocked, TiposPlan, TiposTimer
<1> QED BY <1>1, <1>2

\* Types: the dispatch threads.
LEMMA TipoDispatch ==
  ASSUME TypeOK, NEW c \in CPUs, Dispatch(c)
  PROVE  TypeOK'
<1> USE DEF TypeOK
<1> DEFINE m == Head(deCpu[c])
<1>0. /\ c \in Hilos
      /\ hilo[c].en \notin Ociosas => hilo[c].p \in Pids
      /\ hilo[c].pc \in Pc
      /\ 0 \in Pc
  BY HilosDe, ConstantesOK DEF TiposHilo, Pc
<1>a. ASSUME NEW op, Recibe(c, op)
      PROVE  m.p \in Pids /\ m.pc \in Pc /\ deCpu' \in [CPUs -> Seq(Llamadas)]
  BY <1>a, RecibeTipo DEF Llamadas
<1>1. CASE SysComienzoIO(c)
  <2>1. m.p \in Pids /\ m.pc \in Pc /\ deCpu' \in [CPUs -> Seq(Llamadas)]
    BY <1>1, <1>a DEF SysComienzoIO
  <2>2. TiposHilo'
    BY <1>0, <2>1, <1>1, VaConTipo DEF SysComienzoIO, Etiquetas
  <2>3. TiposCPU'
    BY <2>1, <1>1, LiberarTipo DEF SysComienzoIO, TiposCPU
  <2> QED BY <2>2, <2>3, <1>1 DEF SysComienzoIO, planVars, timerVars, memVars, respVars,
       cpuVars, ioVars, TiposPlan, TiposTimer, TiposMem, TiposResp, TiposIO
<1>2. CASE BloquearPorIO(c)
  <2>1. hilo[c].p \in Pids
    BY <1>0, <1>2 DEF BloquearPorIO, Ociosas
  <2>2. TiposHilo'
    BY <1>0, <1>2, VaTipo DEF BloquearPorIO, Etiquetas, Ociosas
  <2>3. TiposPlan' /\ TiposTimer'
    BY <1>0, <2>1, <1>2, BloquearTipo DEF BloquearPorIO
  <2> QED BY <2>2, <2>3, <1>2 DEF BloquearPorIO, planVars, timerVars, memVars, respVars,
       cpuVars, ioVars, TiposCPU, TiposMem, TiposResp, TiposIO
<1>3. CASE agregar_a_cola_por_IO(c)
  <2>1. TiposHilo'
    BY <1>0, <1>3, QuedaTipo DEF agregar_a_cola_por_IO, Etiquetas, Ociosas
  <2>2. hilo[c].p \in Pids
    BY <1>0, <1>3 DEF agregar_a_cola_por_IO, Ociosas
  <2>3. TiposIO'
    BY <2>2, <1>3, AppendPropiedades DEF agregar_a_cola_por_IO, TiposIO
  <2> QED BY <2>1, <2>3, <1>3 DEF agregar_a_cola_por_IO, planVars, timerVars, memVars,
       respVars, cpuVars, ioVars, TiposPlan, TiposCPU, TiposTimer, TiposMem, TiposResp
<1>4. CASE SysInitProc(c)
  <2>1. deCpu' \in [CPUs -> Seq(Llamadas)]
    BY <1>4, <1>a DEF SysInitProc
  <2>2. siguientePid \in Pids /\ siguientePid' = siguientePid + 1 /\ siguientePid' \in 1..(MaxPid + 1)
    BY <1>4, ConstantesOK DEF SysInitProc, init_proc_pid, Pids
  <2>3. TiposHilo'
    BY <1>0, <2>2, <1>4, VaConTipo DEF SysInitProc, init_proc_pid, Etiquetas
  <2>4. TiposPlan'
    BY <2>2, <1>4 DEF SysInitProc, TiposPlan
  <2>5. TiposCPU'
    BY <2>1, <1>4 DEF SysInitProc, TiposCPU
  <2> QED BY <2>3, <2>4, <2>5, <1>4 DEF SysInitProc, planVars, timerVars, memVars, respVars,
       cpuVars, ioVars, TiposTimer, TiposMem, TiposResp, TiposIO
<1>5. CASE SysDumpMemory(c)
  <2>1. m.p \in Pids /\ m.pc \in Pc /\ deCpu' \in [CPUs -> Seq(Llamadas)]
    BY <1>5, <1>a DEF SysDumpMemory
  <2>2. TiposHilo'
    BY <1>0, <2>1, <1>5, VaConTipo DEF SysDumpMemory, Etiquetas
  <2>3. TiposCPU'
    BY <2>1, <1>5 DEF SysDumpMemory, TiposCPU
  <2>4. TiposMem'
    BY <2>1, <1>5, AppendPropiedades DEF SysDumpMemory, TiposMem, Peticiones
  <2> QED BY <2>2, <2>3, <2>4, <1>5 DEF SysDumpMemory, planVars, timerVars, memVars,
       respVars, cpuVars, ioVars, TiposPlan, TiposTimer, TiposResp, TiposIO
<1>6. CASE LiberarPorDump(c)
  <2>1. TiposHilo'
    BY <1>0, <1>6, VaTipo DEF LiberarPorDump, Etiquetas, Ociosas
  <2>2. TiposCPU'
    BY <1>6, LiberarTipo DEF LiberarPorDump, TiposCPU, cpuVars
  <2> QED BY <2>1, <2>2, <1>6 DEF LiberarPorDump, planVars, timerVars, memVars, respVars,
       cpuVars, ioVars, TiposPlan, TiposTimer, TiposMem, TiposResp, TiposIO
<1>7. CASE BloquearPorDump(c)
  <2>1. hilo[c].p \in Pids
    BY <1>0, <1>7 DEF BloquearPorDump, Ociosas
  <2>2. TiposHilo'
    BY <1>0, <1>7, QuedaTipo DEF BloquearPorDump, Etiquetas, Ociosas
  <2>3. TiposPlan' /\ TiposTimer'
    BY <1>0, <2>1, <1>7, BloquearTipo DEF BloquearPorDump
  <2> QED BY <2>2, <2>3, <1>7 DEF BloquearPorDump, planVars, timerVars, memVars, respVars,
       cpuVars, ioVars, TiposCPU, TiposMem, TiposResp, TiposIO
<1>8. CASE SysExit(c)
  <2>1. m.p \in Pids /\ m.pc \in Pc /\ deCpu' \in [CPUs -> Seq(Llamadas)]
    BY <1>8, <1>a DEF SysExit
  <2>2. TiposHilo'
    BY <1>0, <2>1, <1>8, VaConTipo DEF SysExit, Etiquetas
  <2>3. TiposCPU'
    BY <2>1, <1>8 DEF SysExit, TiposCPU
  <2>4. TiposMem'
    BY <2>1, <1>8, AppendPropiedades DEF SysExit, TiposMem, Peticiones
  <2> QED BY <2>2, <2>3, <2>4, <1>8 DEF SysExit, planVars, timerVars, memVars, respVars,
       cpuVars, ioVars, TiposPlan, TiposTimer, TiposResp, TiposIO
<1>9. CASE RespuestaFinalizar(c)
  <2>1. TiposHilo'
    <3>1. CASE Va(c, "busca_EXEC")
      BY <1>0, <1>9, <3>1, VaTipo DEF RespuestaFinalizar, Etiquetas, Ociosas
    <3>2. CASE Queda(c, "recibe")
      BY <1>0, <3>2, QuedaTipo DEF Etiquetas, Ociosas
    <3> QED BY <1>9, <3>1, <3>2 DEF RespuestaFinalizar
  <2>2. TiposResp'
    BY <1>9 DEF RespuestaFinalizar, TiposResp, Pedidos
  <2> QED BY <2>1, <2>2, <1>9 DEF RespuestaFinalizar, planVars, timerVars, memVars,
       respVars, cpuVars, ioVars, TiposPlan, TiposCPU, TiposTimer, TiposMem, TiposIO
<1>10. CASE buscar_proceso_por_pid(c)
  <2>1. PICK en \in {"busca_EXEC", "busca_BLOCKED", "busca_SUSP"},
               g \in {"EXEC", "BLOCKED", "SUSP_BLOCKED"},
               sigue \in {"busca_BLOCKED", "busca_SUSP", "recibe"} : Busca(c, en, g, sigue)
    BY <1>10 DEF buscar_proceso_por_pid
  <2>2. TiposHilo'
    <3>1. CASE \E e \in {"exit_libera", "busca_BLOCKED", "busca_SUSP"} : Va(c, e)
      BY <1>0, <2>1, <3>1, VaTipo DEF Busca, Etiquetas, Ociosas
    <3>2. CASE Queda(c, "recibe")
      BY <1>0, <3>2, QuedaTipo DEF Etiquetas, Ociosas
    <3> QED BY <2>1, <3>1, <3>2 DEF Busca
  <2>3. TiposPlan'
    BY <2>1, <1>10 DEF Busca, buscar_proceso_por_pid, TiposPlan, Grupos
  <2> QED BY <2>2, <2>3, <1>10 DEF buscar_proceso_por_pid, planVars, timerVars, memVars,
       respVars, cpuVars, ioVars, TiposCPU, TiposTimer, TiposMem, TiposResp, TiposIO
<1>11. CASE LiberarYSalir(c)
  <2>1. hilo[c].p \in Pids
    BY <1>0, <1>11 DEF LiberarYSalir, Ociosas
  <2>2. TiposHilo'
    BY <1>0, <1>11, VaTipo DEF LiberarYSalir, Etiquetas, Ociosas
  <2>3. TiposCPU'
    BY <1>11, LiberarTipo DEF LiberarYSalir, TiposCPU, cpuVars
  <2>4. TiposPlan'
    BY <2>1, <1>11 DEF LiberarYSalir, agregar_a_EXIT, TiposPlan, Grupos
  <2> QED BY <2>2, <2>3, <2>4, <1>11 DEF LiberarYSalir, planVars, timerVars, memVars,
       respVars, cpuVars, ioVars, TiposTimer, TiposMem, TiposResp, TiposIO
<1>12. CASE ReiniciarFinalizar(c)
  <2>1. TiposHilo'
    BY <1>0, <1>12, QuedaTipo DEF ReiniciarFinalizar, Etiquetas, Ociosas
  <2>2. TiposResp'
    BY <1>12 DEF ReiniciarFinalizar, TiposResp
  <2> QED BY <2>1, <2>2, <1>12 DEF ReiniciarFinalizar, planVars, timerVars, memVars,
       respVars, cpuVars, ioVars, TiposPlan, TiposCPU, TiposTimer, TiposMem, TiposIO
<1> QED BY <1>1, <1>2, <1>3, <1>4, <1>5, <1>6, <1>7, <1>8, <1>9, <1>10, <1>11, <1>12
           DEF Dispatch

\* Types: the CPUs.
LEMMA TipoCpu ==
  ASSUME TypeOK, NEW c \in CPUs, Cpu(c) \/ conectar_cpu(c)
  PROVE  TypeOK'
<1> USE DEF TypeOK
<1>0. ASSUME NEW op \in {"IO", "DUMP", "INIT_PROC", "IO_INEXISTENTE", "EXIT"},
             NEW k \in Pc, PuedeLlamar(c), Llama(c, op, k)
      PROVE  deCpu' \in [CPUs -> Seq(Llamadas)]
  <2>1. cpu[c].p \in Pids
    BY <1>0 DEF PuedeLlamar, TiposCPU, PidONadie
  <2>2. [op |-> op, p |-> cpu[c].p, pc |-> k] \in Llamadas
    BY <2>1 DEF Llamadas
  <2> QED BY <1>0, <2>2, AppendPropiedades DEF Llama, TiposCPU
<1>a. MaxPc \in Nat /\ cpu[c].pc \in Pc /\ cpu[c].p \in PidONadie /\ 0 \in Pc
      /\ Nadie \in PidONadie
  BY ConstantesOK DEF TiposCPU, Pc, PidONadie
<1>1. CASE CpuBloqueante(c)
  <2>1. cpu[c].pc < MaxPc => cpu[c].pc + 1 \in Pc
    BY <1>a DEF Pc
  <2>2. deCpu' \in [CPUs -> Seq(Llamadas)]
    BY <1>1, <1>0, <1>a, <2>1 DEF CpuBloqueante
  <2>3. TiposCPU'
    BY <1>1, <1>a, <2>2 DEF CpuBloqueante, TiposCPU
  <2>4. TiposHilo'
    BY <1>1 DEF CpuBloqueante, TiposHilo
  <2> QED BY <2>3, <2>4, <1>1 DEF CpuBloqueante, planVars, timerVars, memVars, respVars,
       cpuVars, ioVars, TiposPlan, TiposTimer, TiposMem, TiposResp, TiposIO
<1>2. CASE CpuInitProc(c)
  <2>1. cpu[c].pc + 1 \in Pc
    BY <1>a, <1>2 DEF CpuInitProc, Pc
  <2>2. deCpu' \in [CPUs -> Seq(Llamadas)]
    BY <1>2, <1>0, <1>a DEF CpuInitProc
  <2>3. TiposCPU'
    BY <1>2, <1>a, <2>1, <2>2 DEF CpuInitProc, TiposCPU
  <2>4. TiposHilo'
    BY <1>2 DEF CpuInitProc, TiposHilo
  <2> QED BY <2>3, <2>4, <1>2 DEF CpuInitProc, planVars, timerVars, memVars, respVars,
       cpuVars, ioVars, TiposPlan, TiposTimer, TiposMem, TiposResp, TiposIO
<1>3. CASE conectar_cpu(c)
  <2>1. TiposCPU'
    BY <1>3, AppendPropiedades DEF conectar_cpu, TiposCPU, cpuVars
  <2>2. TiposHilo'
    BY <1>3 DEF conectar_cpu, TiposHilo
  <2> QED BY <2>1, <2>2, <1>3 DEF conectar_cpu, planVars, timerVars, memVars, respVars,
       cpuVars, ioVars, TiposPlan, TiposTimer, TiposMem, TiposResp, TiposIO
<1> QED BY <1>1, <1>2, <1>3 DEF Cpu

\* The two sections of blocked_a_ready.
LEMMA DesbloquearTipo ==
  ASSUME TiposPlan, NEW p \in Pids,
         \/ DesdeBLOCKED(p) /\ UNCHANGED <<siguientePid, programCounter, largo>>
         \/ DesdeSUSP_BLOCKED(p) /\ UNCHANGED <<siguientePid, programCounter, corto>>
  PROVE  TiposPlan'
<1>1. \A q \in Estados : Append(cola[q], p) \in Seq(Pids)
  BY AppendPropiedades DEF TiposPlan
<1>2. \A q \in Estados : Agrega(cola, q, p) \in [Estados -> Seq(Pids)]
  BY <1>1 DEF Agrega, TiposPlan
<1>3. \A g \in Grupos : [lista EXCEPT ![g] = @ \ {p}] \in [Grupos -> SUBSET Pids]
  BY DEF TiposPlan
<1>4. CASE DesdeBLOCKED(p) /\ UNCHANGED <<siguientePid, programCounter, largo>>
  <2>1. CASE p \in lista["BLOCKED"]
    <3>1. /\ cola' = Agrega(cola, "READY", p) /\ corto' = corto + 1
          /\ lista' = [lista EXCEPT !["BLOCKED"] = @ \ {p}]
      BY <1>4, <2>1 DEF DesdeBLOCKED, agregar_a_READY
    <3> QED BY <1>2, <1>3, <1>4, <3>1 DEF TiposPlan, Estados, Grupos
  <2>2. CASE p \notin lista["BLOCKED"]
    BY <1>4, <2>2 DEF DesdeBLOCKED, TiposPlan
  <2> QED BY <2>1, <2>2
<1>5. CASE DesdeSUSP_BLOCKED(p) /\ UNCHANGED <<siguientePid, programCounter, corto>>
  <2>1. CASE p \in lista["SUSP_BLOCKED"]
    <3>1. /\ cola' = Agrega(cola, "SUSP_READY", p) /\ largo' = largo + 1
          /\ lista' = [lista EXCEPT !["SUSP_BLOCKED"] = @ \ {p}]
      BY <1>5, <2>1 DEF DesdeSUSP_BLOCKED, agregar_a_SUSP_READY
    <3> QED BY <1>2, <1>3, <1>5, <3>1 DEF TiposPlan, Estados, Grupos
  <2>2. CASE p \notin lista["SUSP_BLOCKED"]
    BY <1>5, <2>2 DEF DesdeSUSP_BLOCKED, TiposPlan
  <2> QED BY <2>1, <2>2
<1> QED BY <1>4, <1>5

\* Types: the devices.
LEMMA TipoIO ==
  ASSUME TypeOK, NEW d \in Ios, IO(d)
  PROVE  TypeOK'
<1> USE DEF TypeOK
<1>0. /\ d \in Hilos /\ 0 \in Pc
      /\ hilo[d].en \notin Ociosas => hilo[d].p \in Pids
  BY HilosDe, ConstantesOK DEF TiposHilo, Pc
<1>1. CASE atender_cola_espera(d)
  <2>1. TiposIO'
    BY <1>1, HeadTailProperties DEF atender_cola_espera, TiposIO, PidONadie
  <2>2. TiposHilo'
    BY <1>1 DEF atender_cola_espera, TiposHilo
  <2> QED BY <2>1, <2>2, <1>1 DEF atender_cola_espera, planVars, timerVars, memVars,
       respVars, cpuVars, ioVars, TiposPlan, TiposCPU, TiposTimer, TiposMem, TiposResp
<1>2. CASE FinIO(d)
  <2>1. enIO[d] \in Pids
    BY <1>2 DEF FinIO, TiposIO, PidONadie
  <2>2. TiposHilo'
    BY <1>2, <1>0, <2>1, VaConTipo DEF FinIO, Etiquetas
  <2>3. TiposPlan'
    BY <1>2, <2>1, DesbloquearTipo DEF FinIO
  <2> QED BY <2>2, <2>3, <1>2 DEF FinIO, planVars, timerVars, memVars, respVars, cpuVars,
       ioVars, TiposCPU, TiposTimer, TiposMem, TiposResp, TiposIO
<1>3. CASE FinIOSusp(d)
  <2>1. hilo[d].p \in Pids
    BY <1>3, <1>0 DEF FinIOSusp, Ociosas
  <2>2. TiposHilo'
    BY <1>3, <1>0, QuedaTipo DEF FinIOSusp, Etiquetas, Ociosas
  <2>3. TiposPlan'
    BY <1>3, <2>1, DesbloquearTipo DEF FinIOSusp
  <2>4. TiposIO'
    BY <1>3 DEF FinIOSusp, TiposIO, PidONadie
  <2> QED BY <2>2, <2>3, <2>4, <1>3 DEF FinIOSusp, planVars, timerVars, memVars, respVars,
       cpuVars, ioVars, TiposCPU, TiposTimer, TiposMem, TiposResp
<1> QED BY <1>1, <1>2, <1>3 DEF IO

\* Whatever PCB a timer reads, it is that of a process created before.
LEMMA LeePidTipo ==
  ASSUME TiposPlan, NEW p \in Pids, NEW q \in LeePid(p)
  PROVE  q \in Pids
BY ConstantesOK DEF LeePid, Pids, TiposPlan

\* Types: the timers.
LEMMA TipoTimer ==
  ASSUME TypeOK, NEW p \in Pids, Timer(p)
  PROVE  TypeOK'
<1> USE DEF TypeOK
<1>1. CASE TimerVence(p)
  <2>1. TiposTimer'
    BY <1>1 DEF TimerVence, TiposTimer
  <2>2. PICK q \in LeePid(p) :
            lista' = IF q \in lista["BLOCKED"] THEN Mueve("BLOCKED", "TIMER", q) ELSE lista
    BY <1>1 DEF TimerVence
  <2>3. TiposPlan'
    BY <1>1, <2>2, LeePidTipo DEF TimerVence, Mueve, TiposPlan, Grupos
  <2>4. TiposHilo'
    BY <1>1 DEF TimerVence, TiposHilo
  <2> QED BY <2>1, <2>3, <2>4, <1>1 DEF TimerVence, planVars, timerVars, memVars, respVars,
       cpuVars, ioVars, TiposCPU, TiposMem, TiposResp, TiposIO
<1>2. CASE TimerSuspende(p)
  <2>1. TiposTimer'
    BY <1>2 DEF TimerSuspende, TiposTimer
  <2>2. TiposPlan'
    BY <1>2 DEF TimerSuspende, Mueve, TiposPlan, Grupos
  <2>3. TiposHilo'
    BY <1>2 DEF TimerSuspende, TiposHilo
  <2> QED BY <2>1, <2>2, <2>3, <1>2 DEF TimerSuspende, planVars, timerVars, memVars,
       respVars, cpuVars, ioVars, TiposCPU, TiposMem, TiposResp, TiposIO
<1>3. CASE TimerAvisa(p)
  <2>1. TiposTimer'
    BY <1>3 DEF TimerAvisa, TiposTimer
  <2>2. TiposPlan'
    BY <1>3 DEF TimerAvisa, TiposPlan
  <2>3. TiposMem'
    BY <1>3, LeePidTipo, AppendPropiedades DEF TimerAvisa, TiposMem, Peticiones
  <2>4. TiposHilo'
    BY <1>3 DEF TimerAvisa, TiposHilo
  <2> QED BY <2>1, <2>2, <2>3, <2>4, <1>3 DEF TimerAvisa, planVars, timerVars, memVars,
       respVars, cpuVars, ioVars, TiposCPU, TiposResp, TiposIO
<1> QED BY <1>1, <1>2, <1>3 DEF Timer

\* The memory answers with answers and leaves a possible residence.
LEMMA AtencionTipo ==
  ASSUME TiposMem, NEW m \in Peticiones
  PROVE  /\ Atencion(m.op, m.p).r \in Seq(Respuestas)
         /\ Atencion(m.op, m.p).x \in [lista : BOOLEAN, marcos : BOOLEAN, swap : Nat]
<1> DEFINE p == m.p
           x == residencia[p]
           Rec == [lista : BOOLEAN, marcos : BOOLEAN, swap : Nat]
<1>1. /\ m.op \in {"CREAR", "SUSPENDER", "DESUSPENDER", "FINALIZAR", "DUMP"}
      /\ p \in Pids
      /\ x \in [lista : BOOLEAN, marcos : BOOLEAN, swap : Nat]
      /\ Tamanio[p] \in Nat
  BY ConstantesOK DEF Peticiones, TiposMem
<1>2. \A r \in Respuestas, s \in Respuestas : <<>> \in Seq(Respuestas)
        /\ <<r>> \in Seq(Respuestas) /\ <<r, s>> \in Seq(Respuestas)
  OBVIOUS
<1>3. \A op \in {"CREAR", "SUSPENDER", "DESUSPENDER", "FINALIZAR", "DUMP"}, ok \in BOOLEAN :
        Resp(op, p, ok) \in Respuestas
  BY <1>1 DEF Resp, Respuestas
<1>4. /\ [x EXCEPT !.marcos = FALSE, !.swap = @ + 1] \in Rec
      /\ x.swap > 0 => [x EXCEPT !.marcos = TRUE, !.swap = @ - 1] \in Rec
      /\ x.swap > 0 => [x EXCEPT !.swap = @ - 1] \in Rec
      /\ [x EXCEPT !.lista = FALSE, !.marcos = FALSE] \in Rec
      /\ x.lista \in BOOLEAN /\ x.swap \in Nat
  <2>1. x \in Rec /\ x.lista \in BOOLEAN /\ x.swap \in Nat
    BY <1>1
  <2> HIDE DEF x
  <2>2. x.swap + 1 \in Nat /\ (x.swap > 0 => x.swap - 1 \in Nat)
    BY <2>1
  <2>3. \A k \in Nat : [x EXCEPT !.marcos = FALSE, !.swap = k] \in Rec
    BY <2>1
  <2>4. \A k \in Nat : [x EXCEPT !.marcos = TRUE, !.swap = k] \in Rec
    BY <2>1
  <2>5. \A k \in Nat : [x EXCEPT !.swap = k] \in Rec
    BY <2>1
  <2>6. [x EXCEPT !.lista = FALSE, !.marcos = FALSE] \in Rec
    BY <2>1
  <2> HIDE DEF Rec
  <2> QED BY <2>1, <2>2, <2>3, <2>4, <2>5, <2>6
<1> HIDE DEF x, Rec
<1>5. CASE m.op = "CREAR"
  BY <1>1, <1>2, <1>3, <1>5 DEF Atencion, x, Rec
<1>6. CASE m.op = "SUSPENDER"
  BY <1>1, <1>2, <1>3, <1>4, <1>6 DEF Atencion, x, Rec
<1>7. CASE m.op = "DESUSPENDER"
  <2>1. CASE ~x.lista \/ ~Entra(p)
    BY <1>1, <1>2, <1>3, <1>7, <2>1 DEF Atencion, x, Rec
  <2>2. CASE (x.lista /\ Entra(p)) /\ (x.swap = 0 \/ Tamanio[p] = 0)
    BY <1>1, <1>2, <1>3, <1>7, <2>2 DEF Atencion, x, Rec
  <2>3. CASE (x.lista /\ Entra(p)) /\ ~(x.swap = 0 \/ Tamanio[p] = 0)
    <3>1. Atencion(m.op, p) = [r |-> <<Resp("DESUSPENDER", p, TRUE)>>,
                               x |-> [x EXCEPT !.marcos = TRUE, !.swap = @ - 1]]
      BY <1>7, <2>3 DEF Atencion, x
    <3>2. x.swap > 0
      BY <1>4, <2>3
    <3>3. [x EXCEPT !.marcos = TRUE, !.swap = @ - 1] \in Rec
      BY <1>4, <3>2
    <3>4. <<Resp("DESUSPENDER", p, TRUE)>> \in Seq(Respuestas)
      BY <1>2, <1>3
    <3> DEFINE y == [x EXCEPT !.marcos = TRUE, !.swap = @ - 1]
               z == <<Resp("DESUSPENDER", p, TRUE)>>
    <3> HIDE DEF y, z
    <3>5. Atencion(m.op, p) = [r |-> z, x |-> y]
      BY <3>1 DEF y, z
    <3>6. y \in Rec /\ z \in Seq(Respuestas)
      BY <3>3, <3>4 DEF y, z
    <3> QED BY <3>5, <3>6 DEF Rec
  <2> QED BY <2>1, <2>2, <2>3
<1>8. CASE m.op = "FINALIZAR"
  BY <1>1, <1>2, <1>3, <1>4, <1>8 DEF Atencion, x, Rec
<1>9. CASE m.op = "DUMP"
  BY <1>1, <1>2, <1>3, <1>9 DEF Atencion, x, Rec
<1> QED BY <1>1, <1>5, <1>6, <1>7, <1>8, <1>9

\* Types: the memory.
LEMMA TipoMemoria ==
  ASSUME TypeOK, Memoria
  PROVE  TypeOK'
<1> USE DEF TypeOK
<1> DEFINE m == Head(aMemoria)
           a == Atencion(m.op, m.p)
<1>1. m \in Peticiones /\ m.p \in Pids /\ Tail(aMemoria) \in Seq(Peticiones)
  BY HeadTailProperties DEF Memoria, TiposMem, Peticiones
<1>2. /\ a.r \in Seq(Respuestas)
      /\ a.x \in [lista : BOOLEAN, marcos : BOOLEAN, swap : Nat]
  BY <1>1, AtencionTipo
<1>3. deMemoria \o a.r \in Seq(Respuestas)
  BY <1>2, ConcatProperties DEF TiposMem
<1>4. TiposMem'
  <2>1. /\ aMemoria' = Tail(aMemoria)
        /\ residencia' = [residencia EXCEPT ![m.p] = a.x]
        /\ deMemoria' = deMemoria \o a.r \/ deMemoria' = deMemoria
    BY DEF Memoria
  <2> HIDE DEF m, a
  <2> QED BY <1>1, <1>2, <1>3, <2>1 DEF TiposMem
<1> QED BY <1>4 DEF Memoria, planVars, timerVars, respVars, cpuVars, ioVars,
           TiposPlan, TiposHilo, TiposCPU, TiposTimer, TiposResp, TiposIO

\* Types: the thread that takes the answers of the memory.
LEMMA TipoRespuestas ==
  ASSUME TypeOK, RespuestasMemoria
  PROVE  TypeOK'
<1> USE DEF TypeOK
<1> DEFINE m == Head(deMemoria)
<1>0. /\ "memoria" \in Hilos /\ 0 \in Pc
      /\ hilo["memoria"].en \notin Ociosas => hilo["memoria"].p \in Pids
  BY HilosDe, ConstantesOK DEF TiposHilo, Pc
<1>a. ASSUME NEW ops, RecibeMemoria(ops)
      PROVE  m.op \in ops /\ m.p \in Pids /\ m.ok \in BOOLEAN
             /\ deMemoria' \in Seq(Respuestas)
  <2>1. /\ deMemoria \in Seq(Respuestas) /\ deMemoria # <<>> /\ m.op \in ops
        /\ deMemoria' = Tail(deMemoria)
    BY <1>a DEF RecibeMemoria, TiposMem
  <2>2. m \in Respuestas /\ Tail(deMemoria) \in Seq(Respuestas)
    BY <2>1, HeadTailProperties
  <2> QED BY <2>1, <2>2 DEF Respuestas
<1>1. CASE RespuestaPedido
  <2>1. m.op \in Pedidos /\ m.ok \in BOOLEAN /\ deMemoria' \in Seq(Respuestas)
    BY <1>1, <1>a DEF RespuestaPedido
  <2>2. TiposMem'
    BY <1>1, <2>1 DEF RespuestaPedido, TiposMem
  <2>3. TiposResp'
    BY <1>1, <2>1 DEF RespuestaPedido, TiposResp
  <2>4. TiposHilo'
    BY <1>1 DEF RespuestaPedido, TiposHilo
  <2> QED BY <2>2, <2>3, <2>4, <1>1 DEF RespuestaPedido, planVars, timerVars, memVars,
       respVars, cpuVars, ioVars, TiposPlan, TiposCPU, TiposTimer, TiposIO
<1>2. CASE RespuestaDump
  <2>1. m.p \in Pids /\ deMemoria' \in Seq(Respuestas)
    BY <1>2, <1>a DEF RespuestaDump
  <2>2. TiposMem'
    BY <1>2, <2>1 DEF RespuestaDump, TiposMem
  <2>3. TiposPlan'
    BY <1>2, <2>1, DesbloquearTipo DEF RespuestaDump
  <2>4. TiposHilo'
    BY <1>2, <1>0, <2>1, VaConTipo DEF RespuestaDump, Etiquetas
  <2> QED BY <2>2, <2>3, <2>4, <1>2 DEF RespuestaDump, planVars, timerVars, memVars,
       respVars, cpuVars, ioVars, TiposCPU, TiposTimer, TiposResp, TiposIO
<1>3. CASE RespuestaDumpSusp
  <2>1. hilo["memoria"].p \in Pids
    BY <1>3, <1>0 DEF RespuestaDumpSusp, Ociosas
  <2>2. TiposPlan'
    BY <1>3, <2>1, DesbloquearTipo DEF RespuestaDumpSusp
  <2>3. TiposHilo'
    BY <1>3, <1>0, QuedaTipo DEF RespuestaDumpSusp, Etiquetas, Ociosas
  <2> QED BY <2>2, <2>3, <1>3 DEF RespuestaDumpSusp, planVars, timerVars, memVars, respVars,
       cpuVars, ioVars, TiposCPU, TiposTimer, TiposMem, TiposResp, TiposIO
<1>4. CASE RespuestaDesconocida
  <2>1. TiposMem'
    BY <1>4, <1>a DEF RespuestaDesconocida, TiposMem
  <2>2. TiposHilo'
    BY <1>4, <1>0, QuedaTipo DEF RespuestaDesconocida, Etiquetas, Ociosas
  <2> QED BY <2>1, <2>2, <1>4 DEF RespuestaDesconocida, planVars, timerVars, memVars,
       respVars, cpuVars, ioVars, TiposPlan, TiposCPU, TiposTimer, TiposResp, TiposIO
<1> QED BY <1>1, <1>2, <1>3, <1>4 DEF RespuestasMemoria

\* Types: the planners start.
LEMMA TipoMain ==
  ASSUME TypeOK, ejecutar_planificadores
  PROVE  TypeOK'
<1>1. 0 \in Pc
  BY ConstantesOK DEF Pc
<1>2. TiposHilo'
  BY <1>1, HilosDe DEF TypeOK, ejecutar_planificadores, TiposHilo, Parado, PidONadie, Etiquetas,
     Ociosas
<1> QED BY <1>2 DEF TypeOK, ejecutar_planificadores, planVars, timerVars, memVars, respVars,
           cpuVars, ioVars, TiposPlan, TiposCPU, TiposTimer, TiposMem, TiposResp, TiposIO

\* Every step keeps the types. A planner that found SUSP_READY not to be empty
\* reads its head later: PunteroVigente is what makes that head a process.
LEMMA TipoPaso ==
  ASSUME TypeOK, PunteroVigente, [Next]_vars
  PROVE  TypeOK'
<1>1. CASE Next
  BY <1>1, TipoCreacion, TipoMain, TipoLargo, TipoCorto, TipoDispatch, TipoCpu, TipoIO, TipoTimer,
     TipoMemoria, TipoRespuestas DEF Next
<1>2. CASE UNCHANGED vars
  BY <1>2 DEF vars, TypeOK, planVars, timerVars, memVars, respVars, cpuVars, ioVars,
     TiposPlan, TiposHilo, TiposCPU, TiposTimer, TiposMem, TiposResp, TiposIO
<1> QED BY <1>1, <1>2

-----------------------------------------------------------------------------
(* A process is in one place. The invariant is not inductive alone: a       *)
(* planner that takes a process out of a list moves nothing unless the      *)
(* process is still there (PunteroVigente), and main starts the planners    *)
(* only because they were off (Arranque).                                   *)

\* The planners do not run before main has returned from its INIT_PROC, and the
\* long term planner never runs INIT_PROC itself.
Arranque ==
  /\ hilo["main"].en # "fin" => hilo["largo"].en = "apagado" /\ hilo["corto"].en = "apagado"
  /\ hilo["largo"].en \notin {"init_consulta", "init_consulta_susp", "init_a_new"}

IInv == TypeOK /\ UnSoloLugar /\ PunteroVigente /\ Arranque

\* Lists, groups and threads have different names.
LEMMA Disjuntos ==
  /\ \A x \in Hilos : x \notin Estados /\ x \notin Grupos
  /\ \A x \in Grupos : x \notin Estados
  /\ \A c \in CPUs \cup Ios : c \notin {"main", "largo", "corto", "memoria"}
BY ConstantesOK DEF Hilos, Estados, Grupos

\* The three kinds of place.
LEMMA EnPartes ==
  \A r : /\ \A q \in Estados : En(q, r) <=> r \in Range(cola[q])
         /\ \A g \in Grupos : En(g, r) <=> r \in lista[g]
         /\ \A t \in Hilos : En(t, r) <=> hilo[t].p = r /\ hilo[t].en \in EnMano(t)
BY Disjuntos DEF En

\* The same after the step.
LEMMA EnPartesPrima ==
  \A r : /\ \A q \in Estados : En(q, r)' <=> r \in Range(cola'[q])
         /\ \A g \in Grupos : En(g, r)' <=> r \in lista'[g]
         /\ \A t \in Hilos : En(t, r)' <=> hilo'[t].p = r /\ hilo'[t].en \in EnMano(t)
BY Disjuntos DEF En

\* A process that is somewhere has been created and is nowhere else.
LEMMA Unicidad ==
  ASSUME UnSoloLugar, NEW p \in Pids, NEW a \in Lugar, En(a, p)
  PROVE  p < siguientePid /\ \A x \in Lugar \ {a} : ~En(x, p)
BY DEF UnSoloLugar

\* A step that leaves every process where it is.
LEMMA Quietud ==
  ASSUME UnSoloLugar, siguientePid' = siguientePid,
         \A q \in Estados : IsInjective(cola'[q]),
         \A x \in Lugar, r \in Pids : En(x, r)' <=> En(x, r)
  PROVE  UnSoloLugar'
BY DEF UnSoloLugar

\* A step that takes one process from a place to another.
LEMMA Mudanza ==
  ASSUME UnSoloLugar, siguientePid' = siguientePid,
         \A q \in Estados : IsInjective(cola'[q]),
         NEW p \in Pids, NEW a \in Lugar, NEW b \in Lugar, a # b, En(a, p),
         \A r \in Pids : En(a, r)' <=> En(a, r) /\ r # p,
         \A r \in Pids : En(b, r)' <=> En(b, r) \/ r = p,
         \A x \in Lugar \ {a, b}, r \in Pids : En(x, r)' <=> En(x, r)
  PROVE  UnSoloLugar'
<1>1. p < siguientePid /\ \A x \in Lugar \ {a} : ~En(x, p)
  BY Unicidad
<1>2. ASSUME NEW r \in Pids
      PROVE  IF r < siguientePid
             THEN \E x \in Lugar : En(x, r)' /\ \A y \in Lugar \ {x} : ~En(y, r)'
             ELSE \A x \in Lugar : ~En(x, r)'
  <2>1. CASE r = p
    <3>1. En(b, p)' /\ \A y \in Lugar \ {b} : ~En(y, p)'
      BY <1>1
    <3> QED BY <2>1, <3>1, <1>1
  <2>2. CASE r # p
    <3>1. \A x \in Lugar : En(x, r)' <=> En(x, r)
      BY <2>2
    <3> QED BY <3>1 DEF UnSoloLugar
  <2> QED BY <2>1, <2>2
<1> QED BY <1>2 DEF UnSoloLugar

\* A thread that goes on with a PCB in its hand or with none.
LEMMA ManosIgual ==
  ASSUME TiposHilo, NEW t \in Hilos, NEW e,
         hilo[t].en \in EnMano(t) <=> e \in EnMano(t),
         \/ Va(t, e)
         \/ hilo[t].en \notin EnMano(t) /\ Queda(t, e)
         \/ hilo[t].en \notin EnMano(t) /\ \E p, k : VaCon(t, e, p, k)
  PROVE  \A u \in Hilos, r \in Pids : En(u, r)' <=> En(u, r)
<1>1. \A u \in Hilos \ {t} : hilo'[u] = hilo[u]
  BY DEF TiposHilo, Va, Queda, VaCon
<1>2. hilo'[t].en = e /\ (hilo'[t].p = hilo[t].p \/ hilo[t].en \notin EnMano(t))
  BY DEF TiposHilo, Va, Queda, VaCon, Parado
<1> QED BY <1>1, <1>2, EnPartes, EnPartesPrima

\* A step that leaves the lists alone, and what each thread has in its hand.
LEMMA SinMudanza ==
  ASSUME UnSoloLugar, UNCHANGED <<siguientePid, cola, lista>>,
         \A u \in Hilos, r \in Pids : En(u, r)' <=> En(u, r)
  PROVE  UnSoloLugar'
<1>1. \A x \in Lugar, r \in Pids : En(x, r)' <=> En(x, r)
  BY EnPartes, EnPartesPrima DEF Lugar
<1> QED BY <1>1, Quietud DEF UnSoloLugar

\* The planners keep what they hold while the lists only grow.
LEMMA PunteroMonotono ==
  ASSUME TypeOK, TypeOK', PunteroVigente,
         hilo'["largo"] = hilo["largo"], hilo'["corto"] = hilo["corto"],
         \A q \in Estados : Range(cola[q]) \subseteq Range(cola'[q])
  PROVE  PunteroVigente'
<1>1. cola["SUSP_READY"] # <<>> => cola'["SUSP_READY"] # <<>>
  <2> SUFFICES ASSUME cola["SUSP_READY"] # <<>>
               PROVE  cola'["SUSP_READY"] # <<>>
    OBVIOUS
  <2> DEFINE s == cola["SUSP_READY"]
  <2>1. s \in Seq(Pids)
    BY DEF TypeOK, TiposPlan, Estados
  <2>2. DOMAIN s = 1..Len(s) /\ Len(s) \in Nat \ {0}
    BY <2>1, EmptySeq, LenProperties
  <2>3. s[1] \in Range(s)
    BY <2>2 DEF Range
  <2>4. s[1] \in Range(cola'["SUSP_READY"])
    BY <2>3 DEF Estados
  <2> QED BY <2>4 DEF Range
<1> QED BY <1>1 DEF PunteroVigente, Estados

\* What Unicidad says of the three kinds of place.
LEMMA NoEstaEnOtro ==
  ASSUME UnSoloLugar, NEW p \in Pids, NEW a \in Lugar, En(a, p)
  PROVE  /\ p < siguientePid
         /\ \A q \in Estados \ {a} : p \notin Range(cola[q])
         /\ \A g \in Grupos \ {a} : p \notin lista[g]
         /\ \A t \in Hilos \ {a} : ~(hilo[t].p = p /\ hilo[t].en \in EnMano(t))
BY Unicidad, EnPartes DEF Lugar

\* The hands of the threads: INIT_PROC by a thread other than a planner, and
\* EXIT_PID, hold a PCB.
LEMMA Manos ==
  /\ \A t \in Hilos \ {"largo"} :
       EnMano(t) = {"init_consulta", "init_consulta_susp", "init_a_new", "crear_envia",
                    "crear_espera", "crear_saca", "crear_agrega", "exit_libera"}
  /\ EnMano("largo") = {"crear_agrega"}
BY DEF EnMano

\* What each operation on a list does to the places of the processes.
LEMMA ColaIgual ==
  ASSUME UNCHANGED cola
  PROVE  \A q \in Estados, r \in Pids : En(q, r)' <=> En(q, r)
BY EnPartes, EnPartesPrima

\* Lists that stay.
LEMMA ListaIgual ==
  ASSUME UNCHANGED lista
  PROVE  \A g \in Grupos, r \in Pids : En(g, r)' <=> En(g, r)
BY EnPartes, EnPartesPrima

\* A process enters a queue.
LEMMA AgregaCola ==
  ASSUME TiposPlan, UnSoloLugar, NEW q \in Estados, NEW p \in Pids,
         p \notin Range(cola[q]), cola' = Agrega(cola, q, p)
  PROVE  /\ \A e \in Estados : IsInjective(cola'[e])
         /\ \A r \in Pids : En(q, r)' <=> En(q, r) \/ r = p
         /\ \A e \in Estados \ {q}, r \in Pids : En(e, r)' <=> En(e, r)
<1>1. cola[q] \in Seq(Pids) /\ IsInjective(cola[q])
  BY DEF TiposPlan, UnSoloLugar
<1>2. cola'[q] = Append(cola[q], p) /\ \A e \in Estados \ {q} : cola'[e] = cola[e]
  BY DEF Agrega, TiposPlan
<1>3. Range(cola'[q]) = Range(cola[q]) \cup {p} /\ IsInjective(cola'[q])
  BY <1>1, <1>2, AppendPropiedades
<1> QED BY <1>2, <1>3, EnPartes, EnPartesPrima DEF UnSoloLugar

\* A process leaves a queue.
LEMMA SacaCola ==
  ASSUME TiposPlan, UnSoloLugar, NEW q \in Estados, NEW p \in Pids,
         cola' = [cola EXCEPT ![q] = Saca(@, p)]
  PROVE  /\ \A e \in Estados : IsInjective(cola'[e])
         /\ \A r \in Pids : En(q, r)' <=> En(q, r) /\ r # p
         /\ \A e \in Estados \ {q}, r \in Pids : En(e, r)' <=> En(e, r)
<1>1. cola[q] \in Seq(Pids) /\ IsInjective(cola[q])
  BY DEF TiposPlan, UnSoloLugar
<1>2. cola'[q] = RemoveFirst(cola[q], p) /\ \A e \in Estados \ {q} : cola'[e] = cola[e]
  BY DEF Saca, TiposPlan
<1>3. Range(cola'[q]) = Range(cola[q]) \ {p} /\ IsInjective(cola'[q])
  BY <1>1, <1>2, RemoveFirstPropiedades
<1> QED BY <1>2, <1>3, EnPartes, EnPartesPrima DEF UnSoloLugar

\* A process leaves a list.
LEMMA SacaLista ==
  ASSUME TiposPlan, NEW g \in Grupos, NEW p, lista' = [lista EXCEPT ![g] = @ \ {p}]
  PROVE  /\ \A r \in Pids : En(g, r)' <=> En(g, r) /\ r # p
         /\ \A h \in Grupos \ {g}, r \in Pids : En(h, r)' <=> En(h, r)
<1>1. lista'[g] = lista[g] \ {p} /\ \A h \in Grupos \ {g} : lista'[h] = lista[h]
  BY DEF TiposPlan
<1> QED BY <1>1, EnPartes, EnPartesPrima

\* A process enters a list.
LEMMA AgregaLista ==
  ASSUME TiposPlan, NEW h \in Grupos, NEW p, lista' = [lista EXCEPT ![h] = @ \cup {p}]
  PROVE  /\ \A r \in Pids : En(h, r)' <=> En(h, r) \/ r = p
         /\ \A g \in Grupos \ {h}, r \in Pids : En(g, r)' <=> En(g, r)
<1>1. lista'[h] = lista[h] \cup {p} /\ \A g \in Grupos \ {h} : lista'[g] = lista[g]
  BY DEF TiposPlan
<1> QED BY <1>1, EnPartes, EnPartesPrima

\* A process goes from a list to another.
LEMMA MueveLista ==
  ASSUME TiposPlan, NEW g \in Grupos, NEW h \in Grupos, g # h, NEW p, lista' = Mueve(g, h, p)
  PROVE  /\ \A r \in Pids : En(g, r)' <=> En(g, r) /\ r # p
         /\ \A r \in Pids : En(h, r)' <=> En(h, r) \/ r = p
         /\ \A i \in Grupos \ {g, h}, r \in Pids : En(i, r)' <=> En(i, r)
<1>1. /\ lista'[g] = lista[g] \ {p} /\ lista'[h] = lista[h] \cup {p}
      /\ \A i \in Grupos \ {g, h} : lista'[i] = lista[i]
  BY DEF TiposPlan, Mueve
<1> QED BY <1>1, EnPartes, EnPartesPrima

\* A thread that takes a PCB in its hand, and one that lets it go.
LEMMA TomaMano ==
  ASSUME TiposHilo, NEW t \in Hilos, NEW e, hilo[t].en \notin EnMano(t), e \in EnMano(t),
         Va(t, e)
  PROVE  /\ \A r \in Pids : En(t, r)' <=> En(t, r) \/ r = hilo[t].p
         /\ \A u \in Hilos \ {t}, r \in Pids : En(u, r)' <=> En(u, r)
<1>1. /\ hilo'[t].en = e /\ hilo'[t].p = hilo[t].p
      /\ \A u \in Hilos \ {t} : hilo'[u] = hilo[u]
  BY DEF TiposHilo, Va
<1> QED BY <1>1, EnPartes, EnPartesPrima

\* A thread lets go of the process in its hand.
LEMMA SueltaMano ==
  ASSUME TiposHilo, NEW t \in Hilos, NEW e, hilo[t].en \in EnMano(t), e \notin EnMano(t),
         Va(t, e) \/ Queda(t, e)
  PROVE  /\ En(t, hilo[t].p)
         /\ \A r \in Pids : En(t, r)' <=> En(t, r) /\ r # hilo[t].p
         /\ \A u \in Hilos \ {t}, r \in Pids : En(u, r)' <=> En(u, r)
<1>1. hilo'[t].en = e /\ \A u \in Hilos \ {t} : hilo'[u] = hilo[u]
  BY DEF TiposHilo, Va, Queda, Parado
<1> QED BY <1>1, EnPartes, EnPartesPrima

\* The PCB in the hand of a thread is added to a list.
LEMMA ManoACola ==
  ASSUME TiposPlan, TiposHilo, UnSoloLugar, UNCHANGED <<lista, siguientePid>>,
         NEW t \in Hilos, NEW q \in Estados, NEW e, hilo[t].p \in Pids,
         hilo[t].en \in EnMano(t), e \notin EnMano(t), Va(t, e) \/ Queda(t, e),
         cola' = Agrega(cola, q, hilo[t].p)
  PROVE  UnSoloLugar'
<1> DEFINE p == hilo[t].p
<1>1. t \in Lugar /\ q \in Lugar /\ t # q /\ En(t, p)
  BY Disjuntos, SueltaMano DEF Lugar
<1>2. p \notin Range(cola[q])
  BY <1>1, NoEstaEnOtro
<1>3. /\ \A x \in Estados : IsInjective(cola'[x])
      /\ \A r \in Pids : En(t, r)' <=> En(t, r) /\ r # p
      /\ \A r \in Pids : En(q, r)' <=> En(q, r) \/ r = p
      /\ \A x \in Lugar \ {t, q}, r \in Pids : En(x, r)' <=> En(x, r)
  BY <1>2, AgregaCola, SueltaMano, ListaIgual DEF Lugar
<1> QED BY <1>1, <1>3, Mudanza

\* One place: the creation of a process.
LEMMA LugarCreacion ==
  ASSUME IInv, TypeOK', NEW t \in {"main", "largo"} \cup CPUs, Creacion(t)
  PROVE  UnSoloLugar'
<1> USE DEF IInv
<1> DEFINE p == hilo[t].p
<1>0. /\ t \in Hilos /\ t \in Lugar /\ TiposHilo /\ TiposPlan
      /\ hilo[t].en \notin Ociosas => p \in Pids
  BY HilosDe DEF TypeOK, TiposHilo, Lugar
<1>1. CASE ConsultarNEW(t)
  <2>1. hilo[t].en \in EnMano(t) /\ t # "largo"
    BY <1>0, <1>1, Manos DEF ConsultarNEW, Arranque
  <2>2. "init_consulta_susp" \in EnMano(t) /\ "init_a_new" \in EnMano(t)
    BY <1>0, <2>1, Manos
  <2>3. \A u \in Hilos, r \in Pids : En(u, r)' <=> En(u, r)
    BY <1>0, <1>1, <2>1, <2>2, ManosIgual DEF ConsultarNEW
  <2> QED BY <1>1, <2>3, SinMudanza DEF ConsultarNEW, planVars
<1>2. CASE ConsultarSUSP(t)
  <2>1. hilo[t].en \in EnMano(t) /\ t # "largo"
    BY <1>0, <1>2, Manos DEF ConsultarSUSP, Arranque
  <2>2. "crear_envia" \in EnMano(t) /\ "init_a_new" \in EnMano(t)
    BY <1>0, <2>1, Manos
  <2>3. \A u \in Hilos, r \in Pids : En(u, r)' <=> En(u, r)
    BY <1>0, <1>2, <2>1, <2>2, ManosIgual DEF ConsultarSUSP
  <2> QED BY <1>2, <2>3, SinMudanza DEF ConsultarSUSP, planVars
<1>3. CASE InitAgregaNEW(t)
  <2>1. /\ hilo[t].en \in EnMano(t) /\ t # "largo" /\ p \in Pids
        /\ Reposo(t) \notin EnMano(t)
    BY <1>0, <1>3, Manos DEF InitAgregaNEW, Arranque, Ociosas, Reposo
  <2>2. /\ cola' = Agrega(cola, "NEW", p) /\ UNCHANGED <<lista, siguientePid>>
        /\ Queda(t, Reposo(t))
    BY <1>3 DEF InitAgregaNEW, agregar_a_NEW
  <2> QED BY <1>0, <2>1, <2>2, ManoACola DEF Estados
<1>4. CASE EnviarCrear(t)
  <2>1. hilo[t].en \in EnMano(t) <=> "crear_espera" \in EnMano(t)
    BY <1>0, <1>4, Manos DEF EnviarCrear
  <2>2. \A u \in Hilos, r \in Pids : En(u, r)' <=> En(u, r)
    BY <1>0, <1>4, <2>1, ManosIgual DEF EnviarCrear
  <2> QED BY <1>4, <2>2, SinMudanza DEF EnviarCrear, planVars
<1>5. CASE RespuestaCrear(t)
  <2>1. /\ hilo[t].en \in EnMano(t) <=> "crear_saca" \in EnMano(t)
        /\ t = "largo" => hilo[t].en \notin EnMano(t) /\ "espera" \notin EnMano(t)
        /\ t # "largo" => hilo[t].en \in EnMano(t) /\ "init_a_new" \in EnMano(t)
    BY <1>0, <1>5, Manos DEF RespuestaCrear
  <2>2. \/ Va(t, "crear_saca")
        \/ t = "largo" /\ Queda(t, "espera")
        \/ t # "largo" /\ Va(t, "init_a_new")
    BY <1>5 DEF RespuestaCrear
  <2>3. \A u \in Hilos, r \in Pids : En(u, r)' <=> En(u, r)
    BY <1>0, <2>1, <2>2, ManosIgual
  <2> QED BY <1>5, <2>3, SinMudanza DEF RespuestaCrear, planVars
<1>6. CASE SacarDeNEW(t)
  <2>0. /\ cola' = [cola EXCEPT !["NEW"] = Saca(@, p)] /\ Va(t, "crear_agrega")
        /\ UNCHANGED <<lista, siguientePid>> /\ p \in Pids /\ hilo[t].en = "crear_saca"
    BY <1>0, <1>6 DEF SacarDeNEW, Ociosas
  <2>1. CASE t = "largo"
    <3>1. hilo[t].en \notin EnMano(t) /\ "crear_agrega" \in EnMano(t) /\ En("NEW", p)
      BY <2>0, <2>1, Manos, EnPartes DEF PunteroVigente, Estados
    <3>2. /\ \A e \in Estados : IsInjective(cola'[e])
          /\ \A r \in Pids : En("NEW", r)' <=> En("NEW", r) /\ r # p
          /\ \A r \in Pids : En(t, r)' <=> En(t, r) \/ r = p
          /\ \A x \in Lugar \ {t, "NEW"}, r \in Pids : En(x, r)' <=> En(x, r)
      BY <1>0, <2>0, <3>1, SacaCola, TomaMano, ListaIgual DEF Lugar, Estados
    <3>3. "NEW" \in Lugar /\ t # "NEW"
      BY <1>0, Disjuntos DEF Lugar, Estados
    <3> QED BY <1>0, <2>0, <3>1, <3>2, <3>3, Mudanza
  <2>2. CASE t # "largo"
    <3>1. hilo[t].en \in EnMano(t) /\ "crear_agrega" \in EnMano(t)
      BY <1>0, <2>0, <2>2, Manos
    <3>2. En(t, p)
      BY <1>0, <3>1, EnPartes
    <3>3. p \notin Range(cola["NEW"])
      BY <1>0, <2>0, <3>2, NoEstaEnOtro, Disjuntos DEF Estados
    <3>4. cola' = cola
      <4>1. cola \in [Estados -> Seq(Pids)] /\ "NEW" \in Estados
        BY <1>0 DEF TiposPlan, Estados
      <4>2. Saca(cola["NEW"], p) = cola["NEW"]
        BY <4>1, <3>3, RemoveFirstAusente DEF Saca
      <4> QED BY <2>0, <4>1, <4>2
    <3>5. \A u \in Hilos, r \in Pids : En(u, r)' <=> En(u, r)
      BY <1>0, <2>0, <3>1, ManosIgual
    <3> QED BY <2>0, <3>4, <3>5, SinMudanza
  <2> QED BY <2>1, <2>2
<1>7. CASE CreadoAReady(t)
  <2>1. hilo[t].en \in EnMano(t) /\ p \in Pids /\ "crear_reinicia" \notin EnMano(t)
    BY <1>0, <1>7, Manos DEF CreadoAReady, Ociosas
  <2>2. /\ cola' = Agrega(cola, "READY", p) /\ UNCHANGED <<lista, siguientePid>>
        /\ Va(t, "crear_reinicia")
    BY <1>7 DEF CreadoAReady, agregar_a_READY
  <2> QED BY <1>0, <2>1, <2>2, ManoACola DEF Estados
<1>8. CASE ReiniciarCrear(t)
  <2>1. hilo[t].en \notin EnMano(t) /\ Reposo(t) \notin EnMano(t)
    BY <1>0, <1>8, Manos DEF ReiniciarCrear, Reposo
  <2>2. \A u \in Hilos, r \in Pids : En(u, r)' <=> En(u, r)
    BY <1>0, <1>8, <2>1, ManosIgual DEF ReiniciarCrear
  <2> QED BY <1>8, <2>2, SinMudanza DEF ReiniciarCrear, planVars
<1> QED BY <1>1, <1>2, <1>3, <1>4, <1>5, <1>6, <1>7, <1>8 DEF Creacion

\* One place: the planners start.
LEMMA LugarMain ==
  ASSUME IInv, ejecutar_planificadores
  PROVE  UnSoloLugar'
<1>1. /\ hilo["main"].en = "arranca"
      /\ hilo["largo"].en = "apagado" /\ hilo["corto"].en = "apagado"
  BY DEF IInv, Arranque, ejecutar_planificadores
<1>2. /\ hilo'["main"].en = "fin" /\ hilo'["largo"].en = "espera" /\ hilo'["corto"].en = "espera"
      /\ \A u \in Hilos \ {"main", "largo", "corto"} : hilo'[u] = hilo[u]
  BY HilosDe DEF IInv, TypeOK, TiposHilo, ejecutar_planificadores, Parado
<1>3. \A u \in Hilos, r \in Pids : En(u, r)' <=> En(u, r)
  BY <1>1, <1>2, EnPartes, EnPartesPrima, Manos
<1> QED BY <1>3, SinMudanza DEF IInv, ejecutar_planificadores, planVars

\* One place: the long term planner.
LEMMA LugarLargo ==
  ASSUME IInv, TypeOK', Largo
  PROVE  UnSoloLugar'
<1> USE DEF IInv
<1> DEFINE p == hilo["largo"].p
<1>0. /\ "largo" \in Hilos /\ TiposHilo /\ TiposPlan
      /\ hilo["largo"].en \notin Ociosas => p \in Pids
  BY HilosDe DEF TypeOK, TiposHilo
<1>a. ASSUME NEW e, hilo["largo"].en # "crear_agrega", e # "crear_agrega",
             \/ Va("largo", e) \/ Queda("largo", e) \/ \E r, k : VaCon("largo", e, r, k)
      PROVE  \A u \in Hilos, r \in Pids : En(u, r)' <=> En(u, r)
  BY <1>0, <1>a, ManosIgual, Manos
<1>b. ASSUME NEW q \in Estados, NEW e, e # "crear_agrega", hilo["largo"].en # "crear_agrega",
             Elige(q, e), UNCHANGED <<lista, siguientePid>>
      PROVE  UnSoloLugar'
  <2>1. PICK s \in Reordenadas(cola[q]) : /\ cola' = [cola EXCEPT ![q] = s]
                                          /\ VaCon("largo", e, Head(s), 0)
    BY <1>b DEF Elige
  <2>2. cola[q] \in Seq(Pids) /\ IsInjective(cola[q])
    BY <1>0 DEF TiposPlan, UnSoloLugar
  <2>3. Range(s) = Range(cola[q]) /\ IsInjective(s)
    BY <2>1, <2>2, ReordenadasPropiedades
  <2>4. cola'[q] = s /\ \A x \in Estados \ {q} : cola'[x] = cola[x]
    BY <1>0, <2>1 DEF TiposPlan
  <2>5. \A u \in Hilos, r \in Pids : En(u, r)' <=> En(u, r)
    BY <1>a, <1>b, <2>1
  <2>6. \A x \in Lugar, r \in Pids : En(x, r)' <=> En(x, r)
    BY <1>b, <2>3, <2>4, <2>5, EnPartes, EnPartesPrima DEF Lugar
  <2> QED BY <1>b, <2>3, <2>4, <2>6, Quietud DEF UnSoloLugar
<1>1. CASE LargoDespierta
  <2>1. \A u \in Hilos, r \in Pids : En(u, r)' <=> En(u, r)
    BY <1>1, <1>a DEF LargoDespierta
  <2> QED BY <1>1, <2>1, SinMudanza DEF LargoDespierta
<1>2. CASE LargoEligeNEW
  <2>1. CASE cola["NEW"] = <<>>
    <3>1. \A u \in Hilos, r \in Pids : En(u, r)' <=> En(u, r)
      BY <1>2, <2>1, <1>a DEF LargoEligeNEW
    <3> QED BY <1>2, <2>1, <3>1, SinMudanza DEF LargoEligeNEW
  <2>2. CASE cola["NEW"] # <<>>
    BY <1>2, <2>2, <1>b DEF LargoEligeNEW, Estados
  <2> QED BY <2>1, <2>2
<1>3. CASE LargoEligeSUSP
  BY <1>3, <1>b DEF LargoEligeSUSP, Estados
<1>4. CASE EnviarDesuspender
  <2>1. \A u \in Hilos, r \in Pids : En(u, r)' <=> En(u, r)
    BY <1>4, <1>a DEF EnviarDesuspender
  <2> QED BY <1>4, <2>1, SinMudanza DEF EnviarDesuspender, planVars
<1>5. CASE RespuestaDesuspender
  <2>1. \A u \in Hilos, r \in Pids : En(u, r)' <=> En(u, r)
    BY <1>5, <1>a DEF RespuestaDesuspender
  <2> QED BY <1>5, <2>1, SinMudanza DEF RespuestaDesuspender, planVars
<1>6. CASE DesuspendidoAReady
  <2>1. /\ p \in Pids /\ En("SUSP_READY", p) /\ hilo["largo"].en = "desus_agrega"
        /\ cola' = Agrega([cola EXCEPT !["SUSP_READY"] = Saca(@, p)], "READY", p)
        /\ Va("largo", "desus_reinicia") /\ UNCHANGED <<lista, siguientePid>>
    BY <1>0, <1>6, EnPartes DEF DesuspendidoAReady, Ociosas, PunteroVigente, Estados
  <2>2. p \notin Range(cola["READY"])
    BY <2>1, NoEstaEnOtro DEF Estados, Lugar
  <2>3. /\ cola'["SUSP_READY"] = RemoveFirst(cola["SUSP_READY"], p)
        /\ cola'["READY"] = Append(cola["READY"], p)
        /\ cola'["NEW"] = cola["NEW"]
    BY <1>0, <2>1 DEF Agrega, Saca, TiposPlan, Estados
  <2>4. \A q \in Estados : cola[q] \in Seq(Pids) /\ IsInjective(cola[q])
    BY <1>0 DEF TiposPlan, UnSoloLugar
  <2>5. /\ Range(cola'["SUSP_READY"]) = Range(cola["SUSP_READY"]) \ {p}
        /\ IsInjective(cola'["SUSP_READY"])
    BY <2>3, <2>4, RemoveFirstPropiedades DEF Estados
  <2>6. /\ Range(cola'["READY"]) = Range(cola["READY"]) \cup {p}
        /\ IsInjective(cola'["READY"])
    <3>1. cola["READY"] \in Seq(Pids) /\ IsInjective(cola["READY"])
      BY <2>4 DEF Estados
    <3> DEFINE z == cola["READY"]
    <3>2. Range(Append(z, p)) = Range(z) \cup {p} /\ IsInjective(Append(z, p))
      BY <2>1, <2>2, <3>1, AppendPropiedades
    <3> QED BY <2>3, <3>2
  <2>7. \A u \in Hilos, r \in Pids : En(u, r)' <=> En(u, r)
    BY <2>1, <1>a
  <2>8. /\ \A q \in Estados : IsInjective(cola'[q])
        /\ \A r \in Pids : En("SUSP_READY", r)' <=> En("SUSP_READY", r) /\ r # p
        /\ \A r \in Pids : En("READY", r)' <=> En("READY", r) \/ r = p
        /\ \A r \in Pids : En("NEW", r)' <=> En("NEW", r)
    BY <2>3, <2>4, <2>5, <2>6, EnPartes, EnPartesPrima DEF Estados
  <2>9. \A x \in Lugar \ {"SUSP_READY", "READY"}, r \in Pids : En(x, r)' <=> En(x, r)
    BY <2>1, <2>7, <2>8, ListaIgual DEF Lugar, Estados
  <2>10. "SUSP_READY" \in Lugar /\ "READY" \in Lugar
    BY DEF Lugar, Estados
  <2> QED BY <2>1, <2>8, <2>9, <2>10, Mudanza
<1>7. CASE ReiniciarDesuspender
  <2>1. \A u \in Hilos, r \in Pids : En(u, r)' <=> En(u, r)
    BY <1>7, <1>a DEF ReiniciarDesuspender
  <2> QED BY <1>7, <2>1, SinMudanza DEF ReiniciarDesuspender, planVars
<1> QED BY <1>1, <1>2, <1>3, <1>4, <1>5, <1>6, <1>7 DEF Largo

\* One place: the short term planner.
LEMMA LugarCorto ==
  ASSUME IInv, TypeOK', Corto
  PROVE  UnSoloLugar'
<1> USE DEF IInv
<1> DEFINE p == hilo["corto"].p
<1>0. /\ "corto" \in Hilos /\ TiposHilo /\ TiposPlan
      /\ hilo["corto"].en \notin Ociosas => p \in Pids
  BY HilosDe DEF TypeOK, TiposHilo
<1>a. ASSUME NEW e \in {"busca_cpu", "a_exec", "espera"},
             hilo["corto"].en \in {"busca_cpu", "a_exec", "espera"},
             \/ Va("corto", e) \/ Queda("corto", e) \/ \E r, k : VaCon("corto", e, r, k)
      PROVE  \A u \in Hilos, r \in Pids : En(u, r)' <=> En(u, r)
  <2>1. e \notin EnMano("corto") /\ hilo["corto"].en \notin EnMano("corto")
    BY <1>0, <1>a, Manos
  <2> QED BY <1>0, <1>a, <2>1, ManosIgual
<1>1. CASE CortoDespierta
  <2>1. CASE cola["READY"] = <<>>
    BY <1>1, <2>1, EnPartes, EnPartesPrima, SinMudanza DEF CortoDespierta
  <2>2. CASE cola["READY"] # <<>>
    <3>1. \A u \in Hilos, r \in Pids : En(u, r)' <=> En(u, r)
      BY <1>1, <2>2, <1>a DEF CortoDespierta
    <3> QED BY <1>1, <3>1, SinMudanza DEF CortoDespierta
  <2> QED BY <2>1, <2>2
<1>2. CASE enviar_a_cpu
  <2>1. \A u \in Hilos, r \in Pids : En(u, r)' <=> En(u, r)
    BY <1>2, <1>a DEF enviar_a_cpu
  <2> QED BY <1>2, <2>1, SinMudanza DEF enviar_a_cpu, planVars
<1>3. CASE ReadyAExec
  <2>1. /\ p \in Pids /\ En("READY", p) /\ UNCHANGED siguientePid
        /\ cola' = [cola EXCEPT !["READY"] = Saca(@, p)]
        /\ lista' = [lista EXCEPT !["EXEC"] = @ \cup {p}]
    BY <1>0, <1>3, EnPartes DEF ReadyAExec, Ociosas, PunteroVigente, Estados
  <2>2. \A u \in Hilos, r \in Pids : En(u, r)' <=> En(u, r)
    BY <1>3, <1>a DEF ReadyAExec
  <2>3. /\ \A q \in Estados : IsInjective(cola'[q])
        /\ \A r \in Pids : En("READY", r)' <=> En("READY", r) /\ r # p
        /\ \A x \in Estados \ {"READY"}, r \in Pids : En(x, r)' <=> En(x, r)
    BY <1>0, <2>1, SacaCola DEF Estados
  <2>4. /\ \A r \in Pids : En("EXEC", r)' <=> En("EXEC", r) \/ r = p
        /\ \A x \in Grupos \ {"EXEC"}, r \in Pids : En(x, r)' <=> En(x, r)
    BY <1>0, <2>1, AgregaLista DEF Grupos
  <2>5. \A x \in Lugar \ {"READY", "EXEC"}, r \in Pids : En(x, r)' <=> En(x, r)
    BY <2>2, <2>3, <2>4 DEF Lugar
  <2>6. "READY" \in Lugar /\ "EXEC" \in Lugar
    BY DEF Lugar, Estados, Grupos
  <2> QED BY <2>1, <2>3, <2>4, <2>5, <2>6, Mudanza
<1> QED BY <1>1, <1>2, <1>3 DEF Corto

\* A PCB goes from one of the lists searched by pid to another.
LEMMA ListaALista ==
  ASSUME TiposPlan, UnSoloLugar, UNCHANGED <<cola, siguientePid>>,
         \A u \in Hilos, r \in Pids : En(u, r)' <=> En(u, r),
         NEW g \in Grupos, NEW h \in Grupos, g # h, NEW p \in Pids, p \in lista[g],
         lista' = Mueve(g, h, p)
  PROVE  UnSoloLugar'
<1>1. g \in Lugar /\ h \in Lugar /\ En(g, p)
  BY EnPartes DEF Lugar
<1>2. /\ \A r \in Pids : En(g, r)' <=> En(g, r) /\ r # p
      /\ \A r \in Pids : En(h, r)' <=> En(h, r) \/ r = p
      /\ \A x \in Lugar \ {g, h}, r \in Pids : En(x, r)' <=> En(x, r)
  BY MueveLista, ColaIgual DEF Lugar
<1> QED BY <1>1, <1>2, Mudanza DEF UnSoloLugar

\* ... or to one of the lists in order.
LEMMA ListaACola ==
  ASSUME TiposPlan, UnSoloLugar, UNCHANGED siguientePid,
         \A u \in Hilos, r \in Pids : En(u, r)' <=> En(u, r),
         NEW g \in Grupos, NEW q \in Estados, NEW p \in Pids, p \in lista[g],
         lista' = [lista EXCEPT ![g] = @ \ {p}], cola' = Agrega(cola, q, p)
  PROVE  UnSoloLugar'
<1>1. g \in Lugar /\ q \in Lugar /\ g # q /\ En(g, p)
  BY EnPartes, Disjuntos DEF Lugar
<1>2. p \notin Range(cola[q])
  BY <1>1, NoEstaEnOtro
<1>3. /\ \A x \in Estados : IsInjective(cola'[x])
      /\ \A r \in Pids : En(g, r)' <=> En(g, r) /\ r # p
      /\ \A r \in Pids : En(q, r)' <=> En(q, r) \/ r = p
      /\ \A x \in Lugar \ {g, q}, r \in Pids : En(x, r)' <=> En(x, r)
  BY <1>2, AgregaCola, SacaLista DEF Lugar
<1> QED BY <1>1, <1>3, Mudanza

\* The two sections of blocked_a_ready.
LEMMA Despierta ==
  ASSUME TiposPlan, UnSoloLugar, UNCHANGED siguientePid,
         \A u \in Hilos, r \in Pids : En(u, r)' <=> En(u, r),
         NEW p \in Pids, DesdeBLOCKED(p) \/ DesdeSUSP_BLOCKED(p)
  PROVE  UnSoloLugar'
<1>1. CASE DesdeBLOCKED(p)
  <2>1. CASE p \in lista["BLOCKED"]
    BY <1>1, <2>1, ListaACola DEF DesdeBLOCKED, agregar_a_READY, Estados, Grupos
  <2>2. CASE p \notin lista["BLOCKED"]
    BY <1>1, <2>2, SinMudanza DEF DesdeBLOCKED
  <2> QED BY <2>1, <2>2
<1>2. CASE DesdeSUSP_BLOCKED(p)
  <2>1. CASE p \in lista["SUSP_BLOCKED"]
    BY <1>2, <2>1, ListaACola DEF DesdeSUSP_BLOCKED, agregar_a_SUSP_READY, Estados, Grupos
  <2>2. CASE p \notin lista["SUSP_BLOCKED"]
    BY <1>2, <2>2, SinMudanza DEF DesdeSUSP_BLOCKED
  <2> QED BY <2>1, <2>2
<1> QED BY <1>1, <1>2

\* One place: the dispatch threads.
LEMMA LugarDispatch ==
  ASSUME IInv, TypeOK', NEW c \in CPUs, Dispatch(c)
  PROVE  UnSoloLugar'
<1> USE DEF IInv
<1> DEFINE p == hilo[c].p
           Libre(e) == e \notin EnMano(c)
<1>0. /\ c \in Hilos /\ c # "largo" /\ c \in Lugar /\ TiposHilo /\ TiposPlan /\ TiposCPU
      /\ hilo[c].en \notin Ociosas => p \in Pids
  BY HilosDe, Disjuntos DEF TypeOK, TiposHilo, Lugar
<1>a. ASSUME NEW e, Libre(hilo[c].en), Libre(e),
             \/ Va(c, e) \/ Queda(c, e) \/ \E r, k : VaCon(c, e, r, k)
      PROVE  \A u \in Hilos, r \in Pids : En(u, r)' <=> En(u, r)
  BY <1>0, <1>a, ManosIgual
<1>b. /\ \A e \in {"recibe", "io_bloquea", "io_encola", "dump_libera", "dump_bloquea",
                   "exit_espera", "busca_EXEC", "busca_BLOCKED", "busca_SUSP",
                   "exit_reinicia"} : Libre(e)
      /\ ~Libre("exit_libera") /\ ~Libre("init_consulta")
  BY <1>0, Manos
<1>c. ASSUME NEW r \in Pids, NEW k, exec_a_blocked(r, k), UNCHANGED <<cola, siguientePid>>,
             \A u \in Hilos, s \in Pids : En(u, s)' <=> En(u, s)
      PROVE  UnSoloLugar'
  <2>1. CASE r \in lista["EXEC"]
    <3>1. lista' = Mueve("EXEC", "BLOCKED", r)
      BY <1>c, <2>1 DEF exec_a_blocked
    <3> QED BY <1>0, <1>c, <2>1, <3>1, ListaALista DEF Grupos
  <2>2. CASE r \notin lista["EXEC"]
    BY <1>c, <2>2, SinMudanza DEF exec_a_blocked
  <2> QED BY <2>1, <2>2
<1> HIDE DEF Libre
<1>1. CASE SysComienzoIO(c)
  BY <1>1, <1>a, <1>b, SinMudanza DEF SysComienzoIO, Recibe, planVars
<1>2. CASE BloquearPorIO(c)
  <2>1. p \in Pids
    BY <1>0, <1>2 DEF BloquearPorIO, Ociosas
  <2> QED BY <1>2, <1>a, <1>b, <1>c, <2>1 DEF BloquearPorIO
<1>3. CASE agregar_a_cola_por_IO(c)
  BY <1>3, <1>a, <1>b, SinMudanza DEF agregar_a_cola_por_IO, planVars
<1>4. CASE SysInitProc(c)
  <2> DEFINE n == siguientePid
  <2>1. /\ n \in Pids /\ siguientePid' = n + 1 /\ hilo[c].en = "recibe"
        /\ VaCon(c, "init_consulta", n, 0) /\ UNCHANGED <<cola, lista>>
    BY <1>4 DEF SysInitProc, init_proc_pid, Recibe
  <2>2. /\ hilo'[c].p = n /\ hilo'[c].en \in EnMano(c) /\ hilo[c].en \notin EnMano(c)
        /\ \A u \in Hilos \ {c} : hilo'[u] = hilo[u]
    BY <1>0, <1>b, <2>1 DEF TiposHilo, VaCon, Libre
  <2>3. /\ \A x \in Lugar \ {c}, r \in Pids : En(x, r)' <=> En(x, r)
        /\ \A r \in Pids : En(c, r)' <=> r = n
        /\ \A r \in Pids : ~En(c, r)
    BY <1>0, <2>1, <2>2, EnPartes, EnPartesPrima DEF Lugar
  <2>4. \A x \in Lugar : ~En(x, n)
    BY <2>1, ConstantesOK DEF UnSoloLugar, Pids
  <2>5. ASSUME NEW r \in Pids
        PROVE  IF r < n + 1
               THEN \E x \in Lugar : En(x, r)' /\ \A y \in Lugar \ {x} : ~En(y, r)'
               ELSE \A x \in Lugar : ~En(x, r)'
    <3>1. CASE r = n
      BY <1>0, <2>3, <2>4, <3>1, ConstantesOK DEF Pids
    <3>2. CASE r # n
      <4>1. \A x \in Lugar : En(x, r)' <=> En(x, r)
        BY <2>3, <3>2
      <4>2. r < n + 1 <=> r < n
        BY <2>1, <3>2, ConstantesOK DEF Pids
      <4> QED BY <4>1, <4>2 DEF UnSoloLugar
    <3> QED BY <3>1, <3>2
  <2> QED BY <2>1, <2>5 DEF UnSoloLugar
<1>5. CASE SysDumpMemory(c)
  BY <1>5, <1>a, <1>b, SinMudanza DEF SysDumpMemory, Recibe, planVars
<1>6. CASE LiberarPorDump(c)
  BY <1>6, <1>a, <1>b, SinMudanza DEF LiberarPorDump, planVars
<1>7. CASE BloquearPorDump(c)
  <2>1. p \in Pids
    BY <1>0, <1>7 DEF BloquearPorDump, Ociosas
  <2> QED BY <1>7, <1>a, <1>b, <1>c, <2>1 DEF BloquearPorDump
<1>8. CASE SysExit(c)
  BY <1>8, <1>a, <1>b, SinMudanza DEF SysExit, Recibe, planVars
<1>9. CASE RespuestaFinalizar(c)
  BY <1>9, <1>a, <1>b, SinMudanza DEF RespuestaFinalizar, planVars
<1>10. CASE buscar_proceso_por_pid(c)
  <2>1. PICK en \in {"busca_EXEC", "busca_BLOCKED", "busca_SUSP"},
               g \in {"EXEC", "BLOCKED", "SUSP_BLOCKED"},
               sigue \in {"busca_BLOCKED", "busca_SUSP", "recibe"} : Busca(c, en, g, sigue)
    BY <1>10 DEF buscar_proceso_por_pid
  <2>2. Libre(hilo[c].en) /\ p \in Pids /\ UNCHANGED <<cola, siguientePid>> /\ g \in Grupos
    BY <1>0, <1>10, <1>b, <2>1 DEF Busca, buscar_proceso_por_pid, Ociosas, Grupos
  <2>3. CASE p \in lista[g]
    <3>1. lista' = [lista EXCEPT ![g] = @ \ {p}] /\ Va(c, "exit_libera")
      BY <2>1, <2>3 DEF Busca
    <3>2. En(g, p) /\ g \in Lugar /\ g # c
      BY <1>0, <2>2, <2>3, EnPartes, Disjuntos DEF Lugar
    <3>3. /\ \A r \in Pids : En(g, r)' <=> En(g, r) /\ r # p
          /\ \A r \in Pids : En(c, r)' <=> En(c, r) \/ r = p
          /\ \A x \in Lugar \ {g, c}, r \in Pids : En(x, r)' <=> En(x, r)
      BY <1>0, <1>b, <2>2, <3>1, SacaLista, TomaMano, ColaIgual DEF Lugar, Libre
    <3> QED BY <1>0, <2>2, <3>2, <3>3, Mudanza DEF UnSoloLugar
  <2>4. CASE p \notin lista[g]
    <3>1. UNCHANGED lista /\ (Queda(c, sigue) \/ Va(c, sigue))
      BY <2>1, <2>4 DEF Busca
    <3>2. Libre(sigue)
      BY <1>b
    <3> QED BY <1>a, <2>2, <3>1, <3>2, SinMudanza
  <2> QED BY <2>3, <2>4
<1>11. CASE LiberarYSalir(c)
  <2>1. /\ p \in Pids /\ hilo[c].en = "exit_libera" /\ Va(c, "exit_reinicia")
        /\ lista' = [lista EXCEPT !["EXIT"] = @ \cup {p}] /\ UNCHANGED <<cola, siguientePid>>
    BY <1>0, <1>11 DEF LiberarYSalir, agregar_a_EXIT, Ociosas
  <2>2. /\ En(c, p)
        /\ \A r \in Pids : En(c, r)' <=> En(c, r) /\ r # p
        /\ \A u \in Hilos \ {c}, r \in Pids : En(u, r)' <=> En(u, r)
    BY <1>0, <1>b, <2>1, SueltaMano DEF Libre
  <2>3. /\ \A r \in Pids : En("EXIT", r)' <=> En("EXIT", r) \/ r = p
        /\ \A x \in Grupos \ {"EXIT"}, r \in Pids : En(x, r)' <=> En(x, r)
    BY <1>0, <2>1, AgregaLista DEF Grupos
  <2>4. \A x \in Lugar \ {c, "EXIT"}, r \in Pids : En(x, r)' <=> En(x, r)
    BY <2>1, <2>2, <2>3, ColaIgual DEF Lugar
  <2>5. "EXIT" \in Lugar /\ c # "EXIT"
    BY <1>0, Disjuntos DEF Lugar, Grupos
  <2> QED BY <1>0, <2>1, <2>2, <2>3, <2>4, <2>5, Mudanza DEF UnSoloLugar
<1>12. CASE ReiniciarFinalizar(c)
  BY <1>12, <1>a, <1>b, SinMudanza DEF ReiniciarFinalizar, planVars
<1> QED BY <1>1, <1>2, <1>3, <1>4, <1>5, <1>6, <1>7, <1>8, <1>9, <1>10, <1>11, <1>12
           DEF Dispatch

\* One place: the devices.
LEMMA LugarIO ==
  ASSUME IInv, TypeOK', NEW d \in Ios, IO(d)
  PROVE  UnSoloLugar'
<1> USE DEF IInv
<1>0. /\ d \in Hilos /\ d # "largo" /\ TiposHilo /\ TiposPlan
      /\ hilo[d].en \notin Ociosas => hilo[d].p \in Pids
      /\ "recibe" \notin EnMano(d) /\ "fin_susp" \notin EnMano(d)
  <2>1. d \in Hilos /\ d # "largo"
    BY HilosDe, Disjuntos
  <2>2. "recibe" \notin EnMano(d) /\ "fin_susp" \notin EnMano(d)
    BY <2>1, Manos
  <2> QED BY <2>1, <2>2 DEF TypeOK, TiposHilo
<1>1. CASE atender_cola_espera(d)
  BY <1>1, EnPartes, EnPartesPrima, SinMudanza DEF atender_cola_espera, planVars
<1>2. CASE FinIO(d)
  <2>1. enIO[d] \in Pids
    BY <1>2 DEF FinIO, TypeOK, TiposIO, PidONadie
  <2>2. \A u \in Hilos, r \in Pids : En(u, r)' <=> En(u, r)
    BY <1>0, <1>2, ManosIgual DEF FinIO
  <2> QED BY <1>0, <1>2, <2>1, <2>2, Despierta DEF FinIO
<1>3. CASE FinIOSusp(d)
  <2>1. hilo[d].p \in Pids
    BY <1>0, <1>3 DEF FinIOSusp, Ociosas
  <2>2. \A u \in Hilos, r \in Pids : En(u, r)' <=> En(u, r)
    BY <1>0, <1>3, ManosIgual DEF FinIOSusp
  <2> QED BY <1>0, <1>3, <2>1, <2>2, Despierta DEF FinIOSusp
<1> QED BY <1>1, <1>2, <1>3 DEF IO

\* One place: the timers.
LEMMA LugarTimer ==
  ASSUME IInv, TypeOK', NEW p \in Pids, Timer(p)
  PROVE  UnSoloLugar'
<1> USE DEF IInv
<1>0. TiposPlan /\ (UNCHANGED hilo => \A u \in Hilos, r \in Pids : En(u, r)' <=> En(u, r))
  BY EnPartes, EnPartesPrima DEF TypeOK
<1>1. CASE TimerVence(p)
  <2>1. PICK q \in LeePid(p) :
            lista' = IF q \in lista["BLOCKED"] THEN Mueve("BLOCKED", "TIMER", q) ELSE lista
    BY <1>1 DEF TimerVence
  <2>2. q \in Pids
    BY <1>0, LeePidTipo
  <2>3. CASE q \in lista["BLOCKED"]
    BY <1>0, <1>1, <2>1, <2>2, <2>3, ListaALista DEF TimerVence, Grupos
  <2>4. CASE q \notin lista["BLOCKED"]
    BY <1>0, <1>1, <2>1, <2>4, SinMudanza DEF TimerVence
  <2> QED BY <2>3, <2>4
<1>2. CASE TimerSuspende(p)
  BY <1>0, <1>2, ListaALista DEF TimerSuspende, Grupos
<1>3. CASE TimerAvisa(p)
  BY <1>0, <1>3, SinMudanza DEF TimerAvisa
<1> QED BY <1>1, <1>2, <1>3 DEF Timer

\* The steps of the environment touch neither a list nor a PCB in a hand.
LEMMA LugarEntorno ==
  ASSUME IInv, \/ Memoria
               \/ \E c \in CPUs : Cpu(c) \/ conectar_cpu(c)
               \/ UNCHANGED vars
  PROVE  UnSoloLugar'
<1>1. UNCHANGED <<cola, lista, siguientePid, hilo>>
  BY DEF Memoria, Cpu, CpuBloqueante, CpuInitProc, conectar_cpu, vars, planVars
<1> QED BY <1>1, EnPartes, EnPartesPrima, SinMudanza DEF IInv

\* One place: the answers of the memory.
LEMMA LugarRespuestas ==
  ASSUME IInv, TypeOK', RespuestasMemoria
  PROVE  UnSoloLugar'
<1> USE DEF IInv
<1> DEFINE t == "memoria"
<1>0. /\ t \in Hilos /\ TiposHilo /\ TiposPlan
      /\ hilo[t].en \notin Ociosas => hilo[t].p \in Pids
      /\ "recibe" \notin EnMano(t) /\ "fin_susp" \notin EnMano(t) /\ "fin" \notin EnMano(t)
  <2>1. t \in Hilos
    BY HilosDe
  <2>2. "recibe" \notin EnMano(t) /\ "fin_susp" \notin EnMano(t) /\ "fin" \notin EnMano(t)
    BY <2>1, Manos
  <2> QED BY <2>1, <2>2 DEF TypeOK, TiposHilo
<1>1. CASE RespuestaPedido
  BY <1>1, EnPartes, EnPartesPrima, SinMudanza DEF RespuestaPedido, planVars
<1>2. CASE RespuestaDump
  <2> DEFINE m == Head(deMemoria)
  <2>1. m.p \in Pids
    <3>1. deMemoria \in Seq(Respuestas) /\ deMemoria # <<>>
      BY <1>2 DEF RespuestaDump, RecibeMemoria, TypeOK, TiposMem
    <3>2. m \in Respuestas
      BY <3>1, HeadTailProperties
    <3> QED BY <3>2 DEF Respuestas
  <2>2. \A u \in Hilos, r \in Pids : En(u, r)' <=> En(u, r)
    BY <1>0, <1>2, ManosIgual DEF RespuestaDump, RecibeMemoria
  <2> QED BY <1>0, <1>2, <2>1, <2>2, Despierta DEF RespuestaDump
<1>3. CASE RespuestaDumpSusp
  <2>1. hilo[t].p \in Pids
    BY <1>0, <1>3 DEF RespuestaDumpSusp, Ociosas
  <2>2. \A u \in Hilos, r \in Pids : En(u, r)' <=> En(u, r)
    BY <1>0, <1>3, ManosIgual DEF RespuestaDumpSusp
  <2> QED BY <1>0, <1>3, <2>1, <2>2, Despierta DEF RespuestaDumpSusp
<1>4. CASE RespuestaDesconocida
  <2>1. \A u \in Hilos, r \in Pids : En(u, r)' <=> En(u, r)
    BY <1>0, <1>4, ManosIgual DEF RespuestaDesconocida, RecibeMemoria
  <2> QED BY <1>4, <2>1, SinMudanza DEF RespuestaDesconocida, planVars
<1> QED BY <1>1, <1>2, <1>3, <1>4 DEF RespuestasMemoria

-----------------------------------------------------------------------------
(* The pointers of the planners stay valid.                                 *)

\* What an action must do to keep the pointer of each planner.
LEMMA PunteroDePartes ==
  ASSUME NEW q \in {"crear", "desus", "elige", "otra"},
         \/ q = "crear" /\ hilo'["largo"].en \in {"crear_envia", "crear_espera", "crear_saca"}
                        /\ hilo'["largo"].p \in Range(cola'["NEW"])
         \/ q = "desus" /\ hilo'["largo"].en \in {"desus_envia", "desus_espera", "desus_agrega"}
                        /\ hilo'["largo"].p \in Range(cola'["SUSP_READY"])
         \/ q = "elige" /\ hilo'["largo"].en = "elige_susp" /\ cola'["SUSP_READY"] # <<>>
         \/ q = "otra"  /\ hilo'["largo"].en \notin {"crear_envia", "crear_espera", "crear_saca",
                             "desus_envia", "desus_espera", "desus_agrega", "elige_susp"},
         hilo'["corto"].en \in {"busca_cpu", "a_exec"} => hilo'["corto"].p \in Range(cola'["READY"])
  PROVE  PunteroVigente'
BY DEF PunteroVigente

\* No thread but the long term planner takes from NEW a process that is there.
LEMMA SacaAjena ==
  ASSUME IInv, NEW t \in {"main"} \cup CPUs, SacarDeNEW(t)
  PROVE  cola' = cola
<1> DEFINE p == hilo[t].p
<1>1. /\ t \in Hilos /\ t # "largo" /\ t \in Lugar /\ t \notin Estados
      /\ p \in Pids /\ hilo[t].en = "crear_saca"
  BY HilosDe, Disjuntos DEF IInv, TypeOK, TiposHilo, SacarDeNEW, Ociosas, Lugar
<1>2. hilo[t].en \in EnMano(t)
  BY <1>1, Manos
<1>3. En(t, p)
  BY <1>1, <1>2, EnPartes
<1>4. "NEW" \in Estados /\ cola \in [Estados -> Seq(Pids)]
  BY DEF IInv, TypeOK, TiposPlan, Estados
<1>5. p \notin Range(cola["NEW"])
  BY <1>1, <1>3, <1>4, NoEstaEnOtro DEF IInv
<1>6. Saca(cola["NEW"], p) = cola["NEW"]
  BY <1>4, <1>5, RemoveFirstAusente DEF Saca
<1> QED BY <1>4, <1>6 DEF SacarDeNEW

\* Adding to a queue takes nobody out of one.
LEMMA AgregaCrece ==
  ASSUME TiposPlan, NEW q \in Estados, NEW p \in Pids, cola' = Agrega(cola, q, p)
  PROVE  \A e \in Estados : Range(cola[e]) \subseteq Range(cola'[e])
<1>1. cola[q] \in Seq(Pids)
  BY DEF TiposPlan
<1>2. cola'[q] = Append(cola[q], p) /\ \A e \in Estados \ {q} : cola'[e] = cola[e]
  BY DEF Agrega, TiposPlan
<1>3. Range(Append(cola[q], p)) = Range(cola[q]) \cup {p}
  BY <1>1, AppendPropiedades
<1> QED BY <1>2, <1>3

\* Threads that are not planners only add to the lists in order.
LEMMA PunteroAjeno ==
  ASSUME IInv, TypeOK',
         \/ \E t \in {"main"} \cup CPUs : Creacion(t)
         \/ \E c \in CPUs : Dispatch(c) \/ Cpu(c) \/ conectar_cpu(c)
         \/ \E d \in Ios : IO(d)
         \/ \E p \in Pids : Timer(p)
         \/ Memoria \/ RespuestasMemoria \/ UNCHANGED vars
  PROVE  PunteroVigente'
<1> USE DEF IInv
<1>0. TiposHilo /\ TiposPlan /\ TypeOK
  BY DEF TypeOK
<1>a. ASSUME hilo'["largo"] = hilo["largo"], hilo'["corto"] = hilo["corto"], UNCHANGED cola
      PROVE  PunteroVigente'
  BY <1>0, <1>a, PunteroMonotono
<1>b. ASSUME hilo'["largo"] = hilo["largo"], hilo'["corto"] = hilo["corto"],
             NEW q \in Estados, NEW p \in Pids, cola' = Agrega(cola, q, p)
      PROVE  PunteroVigente'
  BY <1>0, <1>b, AgregaCrece, PunteroMonotono
<1>c. ASSUME NEW t \in Hilos \ {"largo", "corto"}, NEW e,
             Va(t, e) \/ Queda(t, e) \/ \E r, k : VaCon(t, e, r, k)
      PROVE  hilo'["largo"] = hilo["largo"] /\ hilo'["corto"] = hilo["corto"]
  BY <1>0, <1>c, HilosDe DEF TiposHilo, Va, Queda, VaCon
<1>d. \A t \in {"main", "memoria"} \cup CPUs \cup Ios : t \in Hilos \ {"largo", "corto"}
  BY HilosDe, Disjuntos
<1>1. ASSUME NEW t \in {"main"} \cup CPUs, Creacion(t) PROVE PunteroVigente'
  <2>1. t \in Hilos \ {"largo", "corto"} /\ (hilo[t].en \notin Ociosas => hilo[t].p \in Pids)
    BY <1>0, <1>d DEF TiposHilo
  <2>2. CASE ConsultarNEW(t) \/ ConsultarSUSP(t)
    BY <1>a, <1>c, <2>1, <2>2 DEF ConsultarNEW, ConsultarSUSP, planVars
  <2>3. CASE InitAgregaNEW(t)
    BY <1>b, <1>c, <2>1, <2>3 DEF InitAgregaNEW, agregar_a_NEW, Ociosas, Estados
  <2>4. CASE EnviarCrear(t) \/ ReiniciarCrear(t)
    BY <1>a, <1>c, <2>1, <2>4 DEF EnviarCrear, ReiniciarCrear, planVars
  <2>5. CASE RespuestaCrear(t)
    <3>1. \E e : Va(t, e) \/ Queda(t, e)
      BY <2>5 DEF RespuestaCrear
    <3> QED BY <1>a, <1>c, <2>1, <2>5, <3>1 DEF RespuestaCrear, planVars
  <2>6. CASE SacarDeNEW(t)
    BY <1>a, <1>c, <2>1, <2>6, <1>1, SacaAjena DEF SacarDeNEW
  <2>7. CASE CreadoAReady(t)
    BY <1>b, <1>c, <2>1, <2>7 DEF CreadoAReady, agregar_a_READY, Ociosas, Estados
  <2> QED BY <1>1, <2>2, <2>3, <2>4, <2>5, <2>6, <2>7 DEF Creacion
<1>2. ASSUME NEW c \in CPUs, Dispatch(c) PROVE PunteroVigente'
  <2>1. UNCHANGED cola
    BY <1>2 DEF Dispatch, SysComienzoIO, BloquearPorIO, agregar_a_cola_por_IO, SysInitProc,
       SysDumpMemory, LiberarPorDump, BloquearPorDump, SysExit, RespuestaFinalizar,
       buscar_proceso_por_pid, LiberarYSalir, ReiniciarFinalizar, planVars
  <2>2. \E e : Va(c, e) \/ Queda(c, e) \/ \E r, k : VaCon(c, e, r, k)
    BY <1>2 DEF Dispatch, SysComienzoIO, BloquearPorIO, agregar_a_cola_por_IO, SysInitProc,
       SysDumpMemory, LiberarPorDump, BloquearPorDump, SysExit, RespuestaFinalizar,
       buscar_proceso_por_pid, LiberarYSalir, ReiniciarFinalizar, init_proc_pid, Busca
  <2> QED BY <1>a, <1>c, <1>d, <2>1, <2>2
<1>3. ASSUME NEW t \in {"memoria"} \cup Ios, NEW p \in Pids, DesdeBLOCKED(p) \/ DesdeSUSP_BLOCKED(p),
             NEW e, Queda(t, e) \/ \E r, k : VaCon(t, e, r, k)
      PROVE  PunteroVigente'
  <2>1. hilo'["largo"] = hilo["largo"] /\ hilo'["corto"] = hilo["corto"]
    BY <1>3, <1>c, <1>d
  <2>2. UNCHANGED cola \/ cola' = Agrega(cola, "READY", p) \/ cola' = Agrega(cola, "SUSP_READY", p)
    BY <1>3 DEF DesdeBLOCKED, DesdeSUSP_BLOCKED, agregar_a_READY, agregar_a_SUSP_READY
  <2> QED BY <1>a, <1>b, <2>1, <2>2 DEF Estados
<1>4. ASSUME NEW d \in Ios, IO(d) PROVE PunteroVigente'
  <2>1. CASE atender_cola_espera(d)
    BY <1>a, <2>1 DEF atender_cola_espera, planVars
  <2>2. CASE FinIO(d)
    <3>1. enIO[d] \in Pids
      BY <1>0, <2>2 DEF FinIO, TypeOK, TiposIO, PidONadie
    <3> QED BY <1>3, <2>2, <3>1 DEF FinIO
  <2>3. CASE FinIOSusp(d)
    <3>1. hilo[d].p \in Pids
      BY <1>0, <1>d, <2>3 DEF FinIOSusp, TiposHilo, Ociosas
    <3> QED BY <1>3, <2>3, <3>1 DEF FinIOSusp
  <2> QED BY <1>4, <2>1, <2>2, <2>3 DEF IO
<1>5. CASE RespuestasMemoria
  <2>1. CASE RespuestaPedido
    BY <1>a, <2>1 DEF RespuestaPedido, planVars
  <2>2. CASE RespuestaDump
    <3> DEFINE m == Head(deMemoria)
    <3>1. deMemoria \in Seq(Respuestas) /\ deMemoria # <<>>
      BY <1>0, <2>2 DEF RespuestaDump, RecibeMemoria, TypeOK, TiposMem
    <3>2. m \in Respuestas
      BY <3>1, HeadTailProperties
    <3>3. m.p \in Pids
      BY <3>2 DEF Respuestas
    <3> QED BY <1>3, <2>2, <3>3 DEF RespuestaDump
  <2>3. CASE RespuestaDumpSusp
    <3>1. hilo["memoria"].p \in Pids
      BY <1>0, <1>d, <2>3 DEF RespuestaDumpSusp, TiposHilo, Ociosas
    <3> QED BY <1>3, <2>3, <3>1 DEF RespuestaDumpSusp
  <2>4. CASE RespuestaDesconocida
    BY <1>a, <1>c, <1>d, <2>4 DEF RespuestaDesconocida, planVars
  <2> QED BY <1>5, <2>1, <2>2, <2>3, <2>4 DEF RespuestasMemoria
<1>6. CASE \/ \E p \in Pids : Timer(p)
           \/ \E c \in CPUs : Cpu(c) \/ conectar_cpu(c)
           \/ Memoria \/ UNCHANGED vars
  <2>1. UNCHANGED <<cola, hilo>>
    BY <1>6 DEF Timer, TimerVence, TimerSuspende, TimerAvisa, Cpu, CpuBloqueante, CpuInitProc,
       conectar_cpu, Memoria, planVars, vars
  <2> QED BY <1>a, <2>1
<1> QED BY <1>1, <1>2, <1>4, <1>5, <1>6

\* PunteroVigente: the long term planner creates a process.
LEMMA PunteroCreacionLargo ==
  ASSUME IInv, TypeOK', Creacion("largo")
  PROVE  PunteroVigente'
<1> USE DEF IInv
<1> DEFINE p == hilo["largo"].p
<1>0. /\ TiposHilo /\ TiposPlan /\ "largo" \in Hilos
      /\ hilo["largo"].en \notin {"init_consulta", "init_consulta_susp", "init_a_new"}
      /\ hilo["largo"].en \notin Ociosas => p \in Pids
  BY HilosDe DEF TypeOK, TiposHilo, Arranque
<1>a. ASSUME NEW e, Va("largo", e) \/ Queda("largo", e)
      PROVE  /\ hilo'["corto"] = hilo["corto"] /\ hilo'["largo"].en = e
             /\ Va("largo", e) => hilo'["largo"].p = p
  BY <1>0, <1>a, HilosDe DEF TiposHilo, Va, Queda, Parado
<1>1. CASE EnviarCrear("largo")
  BY <1>1, <1>a, PunteroDePartes DEF EnviarCrear, planVars, PunteroVigente
<1>2. CASE RespuestaCrear("largo")
  BY <1>2, <1>a, PunteroDePartes DEF RespuestaCrear, planVars, PunteroVigente
<1>3. CASE SacarDeNEW("largo")
  <2>1. cola'["READY"] = cola["READY"]
    BY <1>0, <1>3 DEF SacarDeNEW, TiposPlan, Estados
  <2> QED BY <1>3, <1>a, <2>1, PunteroDePartes DEF SacarDeNEW, PunteroVigente
<1>4. CASE CreadoAReady("largo")
  <2>1. p \in Pids /\ cola' = Agrega(cola, "READY", p)
    BY <1>0, <1>4 DEF CreadoAReady, agregar_a_READY, Ociosas
  <2>2. Range(cola["READY"]) \subseteq Range(cola'["READY"])
    BY <1>0, <2>1, AgregaCrece DEF Estados
  <2> QED BY <1>4, <1>a, <2>2, PunteroDePartes DEF CreadoAReady, PunteroVigente
<1>5. CASE ReiniciarCrear("largo")
  BY <1>5, <1>a, PunteroDePartes DEF ReiniciarCrear, Reposo, planVars, PunteroVigente
<1> QED BY <1>0, <1>1, <1>2, <1>3, <1>4, <1>5
        DEF Creacion, ConsultarNEW, ConsultarSUSP, InitAgregaNEW

\* PunteroVigente: the long term planner.
LEMMA PunteroLargo ==
  ASSUME IInv, TypeOK', Largo
  PROVE  PunteroVigente'
<1> USE DEF IInv
<1> DEFINE p == hilo["largo"].p
<1>0. /\ TiposHilo /\ TiposPlan
      /\ hilo["largo"].en \notin Ociosas => p \in Pids
  BY HilosDe DEF TypeOK, TiposHilo
<1>a. ASSUME NEW e, Va("largo", e) \/ Queda("largo", e)
      PROVE  /\ hilo'["corto"] = hilo["corto"] /\ hilo'["largo"].en = e
             /\ Va("largo", e) => hilo'["largo"].p = p
  BY <1>0, <1>a, HilosDe DEF TiposHilo, Va, Queda, Parado
<1>b. ASSUME NEW q \in {"NEW", "SUSP_READY"}, NEW e, cola[q] # <<>>, Elige(q, e)
      PROVE  /\ hilo'["largo"].en = e /\ hilo'["largo"].p \in Range(cola'[q])
             /\ hilo'["corto"] = hilo["corto"] /\ cola'["READY"] = cola["READY"]
  <2>1. PICK s \in Reordenadas(cola[q]) : /\ cola' = [cola EXCEPT ![q] = s]
                                          /\ VaCon("largo", e, Head(s), 0)
    BY <1>b DEF Elige
  <2>2. cola[q] \in Seq(Pids) /\ q \in Estados
    BY <1>0 DEF TiposPlan, Estados
  <2>3. Head(s) \in Range(s)
    BY <1>b, <2>1, <2>2, ReordenadasPropiedades
  <2>4. cola'[q] = s /\ cola'["READY"] = cola["READY"]
    BY <1>0, <2>1, <2>2 DEF TiposPlan, Estados
  <2>5. /\ hilo'["largo"].en = e /\ hilo'["largo"].p = Head(s)
        /\ hilo'["corto"] = hilo["corto"]
    BY <1>0, <2>1, HilosDe DEF TiposHilo, VaCon
  <2> QED BY <2>3, <2>4, <2>5
<1>1. CASE LargoDespierta
  BY <1>1, <1>a, PunteroDePartes DEF LargoDespierta, PunteroVigente
<1>2. CASE LargoEligeNEW
  <2>1. CASE cola["NEW"] = <<>>
    BY <1>2, <2>1, <1>a, PunteroDePartes DEF LargoEligeNEW, PunteroVigente
  <2>2. CASE cola["NEW"] # <<>>
    BY <1>2, <2>2, <1>b, PunteroDePartes DEF LargoEligeNEW, PunteroVigente
  <2> QED BY <2>1, <2>2
<1>3. CASE LargoEligeSUSP
  BY <1>3, <1>b, PunteroDePartes DEF LargoEligeSUSP, PunteroVigente
<1>4. CASE EnviarDesuspender
  BY <1>4, <1>a, PunteroDePartes DEF EnviarDesuspender, planVars, PunteroVigente
<1>5. CASE RespuestaDesuspender
  BY <1>5, <1>a, PunteroDePartes DEF RespuestaDesuspender, planVars, PunteroVigente
<1>6. CASE DesuspendidoAReady
  <2>1. p \in Pids /\ cola'["READY"] = Append(cola["READY"], p) /\ cola["READY"] \in Seq(Pids)
    BY <1>0, <1>6 DEF DesuspendidoAReady, Agrega, Ociosas, TiposPlan, Estados
  <2>2. Range(cola["READY"]) \subseteq Range(cola'["READY"])
    BY <2>1, AppendPropiedades
  <2>3. hilo'["largo"].en = "desus_reinicia" /\ hilo'["corto"] = hilo["corto"]
    BY <1>6, <1>a DEF DesuspendidoAReady
  <2>4. hilo'["corto"].en \in {"busca_cpu", "a_exec"} => hilo'["corto"].p \in Range(cola'["READY"])
    BY <2>2, <2>3 DEF PunteroVigente
  <2> QED BY <2>3, <2>4 DEF PunteroVigente
<1>7. CASE ReiniciarDesuspender
  BY <1>7, <1>a, PunteroDePartes DEF ReiniciarDesuspender, planVars, PunteroVigente
<1> QED BY <1>1, <1>2, <1>3, <1>4, <1>5, <1>6, <1>7 DEF Largo

\* PunteroVigente: the short term planner.
LEMMA PunteroCorto ==
  ASSUME IInv, TypeOK', Corto
  PROVE  PunteroVigente'
<1> USE DEF IInv
<1> DEFINE p == hilo["corto"].p
<1>0. /\ TiposHilo /\ TiposPlan
  BY DEF TypeOK
<1>a. ASSUME NEW e, Va("corto", e) \/ Queda("corto", e)
      PROVE  /\ hilo'["largo"] = hilo["largo"] /\ hilo'["corto"].en = e
             /\ Va("corto", e) => hilo'["corto"].p = p
  BY <1>0, <1>a, HilosDe DEF TiposHilo, Va, Queda, Parado
<1>1. CASE CortoDespierta
  <2>1. CASE cola["READY"] = <<>>
    BY <1>1, <2>1 DEF CortoDespierta, PunteroVigente
  <2>2. CASE cola["READY"] # <<>>
    <3> DEFINE s == cola["READY"]
    <3>1. s \in Seq(Pids) /\ s # <<>>
      BY <1>0, <2>2 DEF TiposPlan, Estados
    <3>2. 1 \in DOMAIN s /\ Head(s) = s[1]
      BY <3>1, EmptySeq, LenProperties
    <3>3. Head(s) \in Range(s)
      BY <3>2 DEF Range
    <3>4. hilo'["largo"] = hilo["largo"] /\ hilo'["corto"].p = Head(s) /\ UNCHANGED cola
      BY <1>0, <1>1, <2>2, HilosDe DEF CortoDespierta, VaCon, TiposHilo
    <3> QED BY <3>3, <3>4 DEF PunteroVigente
  <2> QED BY <2>1, <2>2
<1>2. CASE enviar_a_cpu
  BY <1>2, <1>a DEF enviar_a_cpu, planVars, PunteroVigente
<1>3. CASE ReadyAExec
  <2>1. cola'["NEW"] = cola["NEW"] /\ cola'["SUSP_READY"] = cola["SUSP_READY"]
    BY <1>0, <1>3 DEF ReadyAExec, TiposPlan, Estados
  <2> QED BY <1>3, <1>a, <2>1 DEF ReadyAExec, PunteroVigente
<1> QED BY <1>1, <1>2, <1>3 DEF Corto

\* PunteroVigente: the planners start.
LEMMA PunteroMain ==
  ASSUME IInv, ejecutar_planificadores
  PROVE  PunteroVigente'
<1>1. hilo'["largo"].en = "espera" /\ hilo'["corto"].en = "espera"
  BY HilosDe DEF IInv, TypeOK, TiposHilo, ejecutar_planificadores, Parado
<1> QED BY <1>1 DEF PunteroVigente

-----------------------------------------------------------------------------
(* The theorems.                                                            *)

\* Arranque is inductive.
LEMMA ArrancePaso ==
  ASSUME IInv, [Next]_vars
  PROVE  Arranque'
<1> USE DEF IInv
<1>0. /\ TiposHilo
      /\ \A t \in CPUs \cup Ios \cup {"memoria"} : t \in Hilos \ {"main", "largo", "corto"}
  BY HilosDe, Disjuntos DEF TypeOK
<1>a. ASSUME NEW t \in Hilos, NEW e, Va(t, e) \/ Queda(t, e) \/ \E r, k : VaCon(t, e, r, k)
      PROVE  hilo'[t].en = e /\ \A u \in Hilos \ {t} : hilo'[u] = hilo[u]
  BY <1>0, <1>a DEF TiposHilo, Va, Queda, VaCon, Parado
<1>b. ASSUME NEW t \in CPUs \cup Ios \cup {"memoria"}, NEW e,
             Va(t, e) \/ Queda(t, e) \/ \E r, k : VaCon(t, e, r, k)
      PROVE  Arranque'
  BY <1>0, <1>a, <1>b, HilosDe DEF Arranque
<1>c. ASSUME UNCHANGED hilo PROVE Arranque'
  BY <1>c DEF Arranque
<1>1. ASSUME NEW t \in {"main", "largo"} \cup CPUs, Creacion(t) PROVE Arranque'
  <2>1. PICK e : Va(t, e) \/ Queda(t, e)
    BY <1>1 DEF Creacion, ConsultarNEW, ConsultarSUSP, InitAgregaNEW, EnviarCrear,
       RespuestaCrear, SacarDeNEW, CreadoAReady, ReiniciarCrear
  <2>2. CASE t \in CPUs
    BY <1>b, <2>1, <2>2
  <2>3. CASE t = "main"
    <3>1. hilo["main"].en # "fin"
      BY <1>1, <2>3 DEF Creacion, ConsultarNEW, ConsultarSUSP, InitAgregaNEW, EnviarCrear,
         RespuestaCrear, SacarDeNEW, CreadoAReady, ReiniciarCrear
    <3>2. hilo'["largo"] = hilo["largo"] /\ hilo'["corto"] = hilo["corto"]
      BY <1>a, <2>1, <2>3, HilosDe
    <3> QED BY <3>1, <3>2 DEF Arranque
  <2>4. CASE t = "largo"
    <3>1. /\ hilo["largo"].en \in {"crear_envia", "crear_espera", "crear_saca", "crear_agrega",
                                  "crear_reinicia"}
          /\ \E f \in {"crear_espera", "crear_saca", "crear_agrega", "crear_reinicia", "espera"} :
               Va("largo", f) \/ Queda("largo", f)
      BY <1>1, <2>4 DEF Arranque, Creacion, ConsultarNEW, ConsultarSUSP, InitAgregaNEW,
         EnviarCrear, RespuestaCrear, SacarDeNEW, CreadoAReady, ReiniciarCrear, Reposo
    <3> QED BY <1>a, <3>1, HilosDe DEF Arranque
  <2> QED BY <2>2, <2>3, <2>4
<1>2. CASE ejecutar_planificadores
  <2>1. hilo'["main"].en = "fin" /\ hilo'["largo"].en = "espera"
    BY <1>0, <1>2, HilosDe DEF TiposHilo, ejecutar_planificadores, Parado
  <2> QED BY <2>1 DEF Arranque
<1>3. CASE Largo
  <2>1. /\ hilo["largo"].en # "apagado"
        /\ \E f \in {"elige_new", "elige_susp", "crear_envia", "desus_envia", "desus_espera",
                     "desus_agrega", "desus_reinicia", "espera"} :
             Va("largo", f) \/ Queda("largo", f) \/ \E r, k : VaCon("largo", f, r, k)
    BY <1>3 DEF Largo, LargoDespierta, LargoEligeNEW, LargoEligeSUSP, Elige, EnviarDesuspender,
       RespuestaDesuspender, DesuspendidoAReady, ReiniciarDesuspender
  <2> QED BY <1>a, <2>1, HilosDe DEF Arranque
<1>4. CASE Corto
  <2>1. /\ hilo["corto"].en # "apagado"
        /\ UNCHANGED hilo \/ \E f : \/ Va("corto", f) \/ Queda("corto", f)
                                    \/ \E r, k : VaCon("corto", f, r, k)
    BY <1>4 DEF Corto, CortoDespierta, enviar_a_cpu, ReadyAExec
  <2> QED BY <1>a, <2>1, HilosDe DEF Arranque
<1>5. ASSUME NEW c \in CPUs, Dispatch(c) PROVE Arranque'
  <2>1. \E e : Va(c, e) \/ Queda(c, e) \/ \E r, k : VaCon(c, e, r, k)
    BY <1>5 DEF Dispatch, SysComienzoIO, BloquearPorIO, agregar_a_cola_por_IO, SysInitProc,
       SysDumpMemory, LiberarPorDump, BloquearPorDump, SysExit, RespuestaFinalizar,
       buscar_proceso_por_pid, LiberarYSalir, ReiniciarFinalizar, init_proc_pid, Busca
  <2> QED BY <1>b, <2>1
<1>6. ASSUME NEW d \in Ios, IO(d) PROVE Arranque'
  BY <1>6, <1>b, <1>c DEF IO, atender_cola_espera, FinIO, FinIOSusp
<1>7. CASE RespuestasMemoria
  BY <1>7, <1>b, <1>c DEF RespuestasMemoria, RespuestaPedido, RespuestaDump, RespuestaDumpSusp,
     RespuestaDesconocida
<1>8. CASE \/ \E c \in CPUs : Cpu(c) \/ conectar_cpu(c)
           \/ \E p \in Pids : Timer(p)
           \/ Memoria \/ UNCHANGED vars
  BY <1>8, <1>c DEF Cpu, CpuBloqueante, CpuInitProc, conectar_cpu, Timer, TimerVence,
     TimerSuspende, TimerAvisa, Memoria, vars
<1> QED BY <1>1, <1>2, <1>3, <1>4, <1>5, <1>6, <1>7, <1>8 DEF Next

\* IInv at the start.
LEMMA InvInicial == Init => IInv
<1> SUFFICES ASSUME Init PROVE IInv
  OBVIOUS
<1>1. TypeOK
  BY TipoInicial
<1>2. /\ \A q \in Estados : cola[q] = <<>>
      /\ \A g \in Grupos : lista[g] = {}
      /\ siguientePid = 2
      /\ hilo["main"] = [en |-> "init_consulta", p |-> 1, pc |-> 0]
      /\ \A t \in Hilos \ {"main"} : hilo[t].en \in {"apagado", "recibe"}
      /\ hilo["largo"].en = "apagado" /\ hilo["corto"].en = "apagado"
  BY HilosDe DEF Init, Parado
<1>3. PunteroVigente /\ Arranque
  BY <1>2 DEF PunteroVigente, Arranque
<1>4. UnSoloLugar
  <2>1. \A q \in Estados : IsInjective(cola[q]) /\ Range(cola[q]) = {}
    BY <1>2 DEF IsInjective, Range
  <2>2. \A x \in Lugar, p \in Pids : En(x, p) <=> x = "main" /\ p = 1
    <3>1. \A x \in Estados \cup Grupos, p \in Pids : ~En(x, p) /\ x # "main"
      BY <1>2, <2>1, EnPartes, HilosDe, Disjuntos
    <3>2. \A x \in Hilos \ {"main"}, p \in Pids : ~En(x, p)
      <4>1. \A t \in Hilos \ {"main"} : hilo[t].en \notin EnMano(t)
        BY <1>2, Manos, HilosDe
      <4> QED BY <4>1, EnPartes
    <3>3. \A p \in Pids : En("main", p) <=> p = 1
      <4>1. "main" \in Hilos /\ "main" # "largo" /\ hilo["main"].p = 1
        BY <1>2, HilosDe
      <4>2. hilo["main"].en \in EnMano("main")
        BY <1>2, Manos, <4>1
      <4> QED BY <4>1, <4>2, EnPartes
    <3> QED BY <3>1, <3>2, <3>3 DEF Lugar
  <2>3. "main" \in Lugar
    BY HilosDe DEF Lugar
  <2>4. \A p \in Pids : p < 2 <=> p = 1
    BY ConstantesOK DEF Pids
  <2> QED BY <1>2, <2>1, <2>2, <2>3, <2>4 DEF UnSoloLugar
<1> QED BY <1>1, <1>3, <1>4 DEF IInv

\* IInv is inductive.
LEMMA InvPaso == IInv /\ [Next]_vars => IInv'
<1> SUFFICES ASSUME IInv, [Next]_vars PROVE IInv'
  OBVIOUS
<1>1. TypeOK'
  BY TipoPaso DEF IInv
<1>2. UnSoloLugar'
  BY <1>1, LugarCreacion, LugarMain, LugarLargo, LugarCorto, LugarDispatch, LugarIO, LugarTimer,
     LugarEntorno, LugarRespuestas DEF Next
<1>3. PunteroVigente'
  <2>1. ASSUME NEW t \in {"main", "largo"} \cup CPUs, Creacion(t) PROVE PunteroVigente'
    BY <1>1, <2>1, PunteroAjeno, PunteroCreacionLargo
  <2> QED BY <1>1, <2>1, PunteroAjeno, PunteroLargo, PunteroCorto, PunteroMain DEF Next
<1>4. Arranque'
  BY ArrancePaso
<1> QED BY <1>1, <1>2, <1>3, <1>4 DEF IInv

\* The inductive invariant holds in every behaviour of the kernel.
THEOREM Invariante == Spec => []IInv
<1> QED BY InvInicial, InvPaso, PTL DEF Spec

\* Every variable keeps its type: no list of the kernel ever holds anything but
\* processes already created or to be created, no semaphore goes below zero, and
\* a planner never reads the head of an empty list.
THEOREM Tipos == Spec => []TypeOK
<1>1. IInv => TypeOK
  BY DEF IInv
<1> QED BY <1>1, Invariante, PTL

\* No interleaving of the planners, the dispatch threads, the devices, the timers
\* and the memory loses a PCB or files it twice.
THEOREM NingunProcesoSePierde == Spec => []UnSoloLugar
<1>1. IInv => UnSoloLugar
  BY DEF IInv
<1> QED BY <1>1, Invariante, PTL

\* What a planner points at stays in its list until the planner takes it out.
THEOREM PunterosVigentes == Spec => []PunteroVigente
<1>1. IInv => PunteroVigente
  BY DEF IInv
<1> QED BY <1>1, Invariante, PTL

=============================================================================
