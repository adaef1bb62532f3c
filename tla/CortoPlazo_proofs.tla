-------------------------- MODULE CortoPlazo_proofs --------------------------
(***************************************************************************)
(* Proofs about CortoPlazo, for every number of processes and of CPUs (no  *)
(* CPU included), every program, estimate and burst, SJF and SRT: first    *)
(* with every race of the environment, then, for what the races break,     *)
(* with none.                                                              *)
(***************************************************************************)
EXTENDS CortoPlazo, Listas, FiniteSetTheorems

-----------------------------------------------------------------------------
(* list_sort of the ready list.                                             *)

\* The list sorted by tiene_rafaga_mas_corta has the same processes, shorter
\* estimates first: the process the planner takes has a shortest one.
LEMMA OrdenadaPropiedades ==
  ASSUME NEW S, NEW s \in Seq(S), NEW x, \A a \in S : x[a].est \in Int
  PROVE  LET t == OrdenadaPor(s, x)
         IN /\ t \in Seq(S) /\ Range(t) = Range(s)
            /\ IsInjective(s) => IsInjective(t)
            /\ DOMAIN t = DOMAIN s
            /\ \A i, j \in DOMAIN s : i < j => x[t[i]].est <= x[t[j]].est
<1> DEFINE D == DOMAIN s
           menor(i, j) == \/ x[s[i]].est < x[s[j]].est
                          \/ x[s[i]].est = x[s[j]].est /\ i <= j
           C(k) == CHOOSE i \in D : Cardinality({j \in D : menor(j, i)}) = k
           V == [i \in D |-> x[s[i]].est]
           antes(i, j) == V[i] < V[j] \/ (V[i] = V[j] /\ i <= j)
           H == [j \in D |-> {i \in D : menor(i, j)}]
           r == [j \in D |-> Cardinality(H[j])]
           f == [k \in D |-> C(k)]
           t == OrdenadaPor(s, x)
<1>1. Len(s) \in Nat /\ D = 1..Len(s) /\ D \subseteq Nat
  BY LenProperties
<1>2. IsFiniteSet(D) /\ Cardinality(D) = Len(s)
  BY <1>1, FS_Interval
<1>3. \A i \in D : s[i] \in S
  BY <1>1, ElementOfSeq
<1>4. V \in [D -> Int]
  BY <1>3
<1>5. t = [k \in D |-> s[f[k]]]
  <2>1. t = [k \in D |-> s[C(k)]]
    BY Zenon DEF OrdenadaPor
  <2> HIDE DEF C
  <2> QED BY <2>1
<1>6. \A i \in D : r[i] = Cardinality(H[i])
  <2> HIDE DEF H
  <2> QED OBVIOUS
<1>7. \A i, j \in D : i \in H[j] <=> antes(i, j)
  OBVIOUS
<1>8. \A j \in D : H[j] \in SUBSET D
  OBVIOUS
<1>9. \A k \in D : (\E i \in D : r[i] = k) => f[k] \in D /\ r[f[k]] = k
  <2> SUFFICES ASSUME NEW k \in D, NEW i \in D, r[i] = k
               PROVE  C(k) \in D /\ r[C(k)] = k
    BY Zenon
  <2>1. \A j \in D : Cardinality({l \in D : menor(l, j)}) = r[j]
    OBVIOUS
  <2>2. C(k) \in D /\ Cardinality({l \in D : menor(l, C(k))}) = k
    BY <2>1
  <2> HIDE DEF C
  <2> QED BY <2>1, <2>2
<1>10. r = [j \in D |-> Cardinality(H[j])] /\ f = [k \in D |-> C(k)]
  BY Zenon
<1>11. \A i \in D : V[i] = x[s[i]].est
  OBVIOUS
<1> HIDE DEF D, V, H, C, r, f, t
<1>12. \A j \in D : IsFiniteSet(H[j]) /\ Cardinality(H[j]) \in 1..Len(s)
  <2> TAKE j \in D
  <2>1. IsFiniteSet(H[j]) /\ Cardinality(H[j]) <= Len(s)
    BY <1>2, <1>8, FS_Subset
  <2>2. j \in H[j]
    BY <1>1, <1>4, <1>7
  <2>3. Cardinality(H[j]) \in Nat /\ Cardinality(H[j]) # 0
    BY <2>1, <2>2, FS_CardinalityType, FS_EmptySet
  <2> QED BY <1>1, <2>1, <2>3
<1>13. \A i, j \in D : i # j /\ antes(i, j) => r[i] < r[j]
  <2> SUFFICES ASSUME NEW i \in D, NEW j \in D, i # j, antes(i, j)
               PROVE  r[i] < r[j]
    OBVIOUS
  <2>1. H[i] \in SUBSET H[j]
    <3> SUFFICES ASSUME NEW k \in D, antes(k, i) PROVE antes(k, j)
      BY <1>7, <1>8
    <3> QED BY <1>1, <1>4
  <2>2. j \notin H[i]
    BY <1>1, <1>4, <1>7
  <2>3. j \in H[j]
    BY <1>1, <1>4, <1>7
  <2>4. Cardinality(H[i]) <= Cardinality(H[j]) /\ Cardinality(H[j]) # Cardinality(H[i])
    BY <1>12, <2>1, <2>2, <2>3, FS_Subset
  <2>5. Cardinality(H[i]) \in Int /\ Cardinality(H[j]) \in Int
    BY <1>12
  <2> QED BY <1>6, <2>4, <2>5
<1>14. r \in [D -> D]
  BY <1>1, <1>6, <1>10, <1>12
<1>15. \A i, j \in D : i # j => r[i] # r[j]
  <2> SUFFICES ASSUME NEW i \in D, NEW j \in D, i # j PROVE r[i] # r[j]
    OBVIOUS
  <2>1. antes(i, j) \/ antes(j, i)
    BY <1>1, <1>4
  <2>2. r[i] < r[j] \/ r[j] < r[i]
    BY <1>13, <2>1
  <2> QED BY <1>1, <1>14, <2>2
<1>16. r \in Injection(D, D) /\ r \in Surjection(D, D)
  <2>1. r \in Injection(D, D)
    BY <1>14, <1>15 DEF Injection, IsInjective
  <2> QED BY <1>2, <2>1, FS_Injection
<1>17. \A k \in D : f[k] \in D /\ r[f[k]] = k
  BY <1>9, <1>16 DEF Surjection
<1>18. f \in Bijection(D, D)
  <2>1. f \in [D -> D]
    BY <1>10, <1>17
  <2>2. \A j \in D : r[j] \in D /\ f[r[j]] = j
    BY <1>14, <1>15, <1>17
  <2>3. f \in Surjection(D, D)
    BY <2>1, <2>2 DEF Surjection
  <2>4. f \in Injection(D, D)
    BY <1>17, <2>1 DEF Injection, IsInjective
  <2> QED BY <2>3, <2>4 DEF Bijection
<1>19. t \in Seq(S) /\ Range(t) = Range(s) /\ (IsInjective(s) => IsInjective(t))
  BY <1>1, <1>5, <1>18, PermutacionPropiedades
<1>20. \A i, j \in D : i < j => V[f[i]] <= V[f[j]]
  <2> SUFFICES ASSUME NEW i \in D, NEW j \in D, i < j, ~(V[f[i]] <= V[f[j]])
               PROVE  FALSE
    OBVIOUS
  <2>1. f[i] # f[j] /\ antes(f[j], f[i])
    BY <1>1, <1>4, <1>17
  <2>2. r[f[j]] < r[f[i]]
    BY <1>13, <1>17, <2>1
  <2> QED BY <1>1, <1>17, <2>2
<1>21. \A i, j \in D : i < j => x[t[i]].est <= x[t[j]].est
  BY <1>5, <1>11, <1>17, <1>20
<1> QED BY <1>1, <1>5, <1>19, <1>21 DEF t

-----------------------------------------------------------------------------
(* The inductive invariant.                                                 *)

\* A program counter that is inside the program of its process.
Vigente(m) == m.pc < Len(Programa[m.p])

\* Every program counter that travels, with a context, a system call, the answer
\* to an interrupt, a PCB or a thread, is inside its program; a CPU with no
\* process waits for one. A CPU never fetches past the end.
PcEnPrograma ==
  /\ \A p \in Pids : pcb[p].pc < Len(Programa[p])
  /\ aCpu \in [Cpus -> Seq({m \in Contextos : Vigente(m)})]
  /\ deCpu \in [Cpus -> Seq({m \in Llamadas : Vigente(m)})]
  /\ deInt \in [Cpus -> Seq({m \in [p : Pids, pc : Nat] : Vigente(m)})]
  /\ \A c \in Cpus :
       /\ disp[c].en # "recibe" => Vigente(disp[c])
       /\ IF cpu[c].pid = Nadie
          THEN cpu[c].esp /\ cpu[c].ctx = 0 /\ ~cpu[c].pend
          ELSE cpu[c].pc < Len(Programa[cpu[c].pid])

\* The process the planner carries is still in READY.
PunteroEnReady == plan.en # "espera" => plan.p \in Range(ready)

\* What is on its way between the interrupt sent to a CPU and the answer of its
\* thread in the kernel: messages, an answer taken, a flag not yet answered.
Pedidos(c) == Len(aInt[c])
Respuestas(c) == Len(deInt[c])
Aviso(c) == IF intr[c].en = "a_ready" THEN 1 ELSE 0
Bandera(c) == IF cpu[c].pend /\ cpu[c].en \notin {"aguarda", "limpia"} THEN 1 ELSE 0
EnCurso(c) == Pedidos(c) + Respuestas(c) + Aviso(c) + Bandera(c)

\* Only while the planner waits is there an interrupt on its way or an answer,
\* only one, and only of the CPU it waits for.
UnDesalojo ==
  /\ desalojado <= IF plan.en = "confirma" THEN 1 ELSE 0
  /\ \A c \in Cpus :
       EnCurso(c) <= IF plan.en = "confirma" /\ plan.c = c THEN 1 - desalojado ELSE 0

IInv == TypeOK /\ PcEnPrograma /\ PunteroEnReady /\ UnSoloLugar /\ UnDesalojo

-----------------------------------------------------------------------------
(* Types.                                                                   *)

\* What the proofs use of the constants.
LEMMA Constantes ==
  /\ Alfa \in Int /\ EstimacionInicial \in Nat
  /\ Rafagas \subseteq Nat
  /\ CpusConectadas \in Seq(Cpus)
  /\ Nadie \notin Pids /\ Nadie \notin Cpus
  /\ \A p \in Pids : Programa[p] \in Seq({"NOOP", "IO", "EXIT"}) /\ Programa[p] # <<>>
<1>1. Alfa \in 0..4
  BY ConstantesCortoOK, Zenon
<1>2. Alfa \in Int
  BY <1>1
<1> QED BY <1>2, ConstantesCortoOK, Zenon

\* A message sent has the type of the socket.
LEMMA EnviaTipo ==
  ASSUME NEW S, NEW k, k \in [Cpus -> Seq(S)], NEW c, NEW m \in S
  PROVE  Envia(k, c, m) \in [Cpus -> Seq(S)]
BY AppendProperties DEF Envia

\* A message received has the type of the socket.
LEMMA RecibeTipo ==
  ASSUME NEW S, NEW k \in [Cpus -> Seq(S)], NEW c \in Cpus, k[c] # <<>>
  PROVE  Recibe(k, c) \in [Cpus -> Seq(S)] /\ Head(k[c]) \in S
BY HeadTailProperties DEF Recibe

\* An instruction that is not the last one has a next one.
LEMMA HayOtra ==
  ASSUME NEW p \in Pids, NEW k \in Nat, k < Len(Programa[p])
  PROVE  LET i == Programa[p][k + 1]
         IN i \in {"NOOP", "IO", "EXIT"} /\ (i # "EXIT" => k + 1 < Len(Programa[p]))
<1> DEFINE s == Programa[p]
<1>1. s \in Seq({"NOOP", "IO", "EXIT"}) /\ s[Len(s)] = "EXIT"
  BY ConstantesCortoOK DEF Last
<1>2. Len(s) \in Nat /\ k + 1 \in 1..Len(s)
  BY <1>1, LenProperties
<1> HIDE DEF s
<1>3. s[k + 1] \in {"NOOP", "IO", "EXIT"}
  BY <1>1, <1>2, ElementOfSeq
<1> QED BY <1>1, <1>2, <1>3 DEF s

\* calculo_SJF gives every process of READY an estimate.
LEMMA EstimadasTipo ==
  ASSUME TiposKernel
  PROVE  /\ Estimadas \in [Pids -> [pc : Nat, rafaga : Rafagas \cup {-1}, est : Int]]
         /\ \A p \in Pids : Estimadas[p].pc = pcb[p].pc
<1>1. \A p \in Pids : calculo_SJF(pcb[p]) \in Int
  <2> TAKE p \in Pids
  <2>1. pcb[p].rafaga \in Int /\ Alfa \in Int /\ EstimacionInicial \in Int
    <3>1. pcb[p].rafaga \in Rafagas \cup {-1}
      BY DEF TiposKernel
    <3>2. \A t \in Rafagas : t \in Int
      BY Constantes
    <3>3. pcb[p].rafaga \in Int
      BY <3>1, <3>2
    <3> QED BY <3>3, Constantes
  <2> QED BY <2>1 DEF calculo_SJF
<1> HIDE DEF calculo_SJF
<1> QED BY <1>1 DEF TiposKernel, Estimadas

\* liberar_cpu leaves each CPU with a process or with none.
LEMMA LiberarTipo ==
  ASSUME TiposKernel, NEW p
  PROVE  /\ liberar_cpu(p) \in [Cpus -> PidONadie]
         /\ \A c \in Cpus : liberar_cpu(p)[c] \in {running[c], Nadie}
BY DEF TiposKernel, liberar_cpu, PidONadie

\* Types at the start.
LEMMA TipoInicial == Init => TypeOK /\ PcEnPrograma
<1> SUFFICES ASSUME Init PROVE TypeOK /\ PcEnPrograma
  OBVIOUS
<1> USE DEF Init
<1>1. TiposKernel
  <2>1. /\ algoritmo \in Algoritmos /\ nuevos \subseteq Pids
        /\ ready \in Seq(Pids) /\ lista \in [Grupos -> SUBSET Pids]
    BY EmptySeq DEF Grupos
  <2>2. pcb \in [Pids -> [pc : Nat, rafaga : Rafagas \cup {-1}, est : Int]]
    BY Constantes
  <2>3. corto \in Nat /\ desalojado \in Nat /\ caido \in BOOLEAN /\ enIO \in [Pids -> Nat]
    OBVIOUS
  <2>4. listaCPU \in Seq(Cpus) /\ running \in [Cpus -> PidONadie]
    BY Constantes DEF PidONadie
  <2> QED BY <2>1, <2>2, <2>3, <2>4 DEF TiposKernel
<1>2. TiposHilos
  BY DEF TiposHilos, PlanQuieto, HiloQuieto, PidONadie
<1>3. TiposCpu
  BY EmptySeq DEF TiposCpu, CpuQuieta, PidONadie
<1>4. PcEnPrograma
  <2>1. \A p \in Pids : 0 < Len(Programa[p])
    BY Constantes, EmptySeq
  <2> QED BY <2>1, EmptySeq DEF PcEnPrograma, HiloQuieto, CpuQuieta
<1> QED BY <1>1, <1>2, <1>3, <1>4 DEF TypeOK

\* Types: admission and end of an IO.
LEMMA TipoProcesos ==
  ASSUME TypeOK, PcEnPrograma, NEW p \in Pids, Admitir(p) \/ FinIO(p)
  PROVE  TypeOK' /\ PcEnPrograma'
<1> USE DEF procVars, admVars, cpusVars, hilosVars, aVars, deVars
<1>1. TiposKernel'
  <2>1. CASE Admitir(p)
    BY <2>1, AppendPropiedades DEF Admitir, agregar_a_READY, TypeOK, TiposKernel
  <2>2. CASE FinIO(p)
    <3>1. enIO' \in [Pids -> Nat]
      BY <2>2 DEF FinIO, TypeOK, TiposKernel
    <3>2. lista' \in [Grupos -> SUBSET Pids]
      BY <2>2 DEF FinIO, TypeOK, TiposKernel, Grupos
    <3>3. ready' \in Seq(Pids) /\ corto' \in Nat
      <4>1. ready \in Seq(Pids) /\ corto \in Nat
        BY DEF TypeOK, TiposKernel
      <4>2. \/ ready' = ready /\ corto' = corto
            \/ ready' = Append(ready, p) /\ corto' = corto + 1
        BY <2>2 DEF FinIO, agregar_a_READY
      <4> QED BY <4>1, <4>2, AppendPropiedades
    <3> QED BY <2>2, <3>1, <3>2, <3>3 DEF FinIO, TypeOK, TiposKernel
  <2> QED BY <2>1, <2>2
<1>2. TiposHilos' /\ TiposCpu' /\ PcEnPrograma'
  BY DEF Admitir, FinIO, TypeOK, TiposHilos, TiposCpu, PcEnPrograma
<1> QED BY <1>1, <1>2 DEF TypeOK

\* Types: the planner thread.
LEMMA TipoPlanificador ==
  ASSUME TypeOK, PcEnPrograma, PunteroEnReady, Planificador
  PROVE  TypeOK' /\ PcEnPrograma'
<1> USE DEF TypeOK, procVars, admVars, cpusVars, hilosVars, aVars, deVars
<1>1. CASE CortoDespierta
  <2>1. CASE ready = <<>>
    <3>1. TiposKernel'
      BY <1>1, <2>1 DEF CortoDespierta, TiposKernel
    <3> QED BY <1>1, <2>1, <3>1 DEF CortoDespierta, TiposHilos, TiposCpu, PcEnPrograma
  <2>2. CASE ready # <<>>
    <3>1. ready' \in Seq(Pids) /\ DOMAIN ready' = DOMAIN ready
      BY <1>1, <2>2, EstimadasTipo, OrdenadaPropiedades DEF CortoDespierta, TiposKernel
    <3>2. Head(ready') \in Pids
      BY <2>2, <3>1, EmptySeq, LenProperties, HeadTailProperties DEF TiposKernel
    <3>3. TiposKernel'
      <4>1. pcb' \in [Pids -> [pc : Nat, rafaga : Rafagas \cup {-1}, est : Int]]
        BY <1>1, <2>2, EstimadasTipo DEF CortoDespierta
      <4> QED BY <1>1, <3>1, <4>1 DEF CortoDespierta, TiposKernel
    <3>4. TiposHilos'
      BY <1>1, <2>2, <3>2 DEF CortoDespierta, TiposHilos, PidONadie
    <3>5. PcEnPrograma'
      BY <1>1, <2>2, EstimadasTipo DEF CortoDespierta, PcEnPrograma
    <3> QED BY <1>1, <3>3, <3>4, <3>5 DEF CortoDespierta, TiposCpu
  <2> QED BY <2>1, <2>2
<1>2. CASE buscar_cpu_disponible
  <2>1. plan.p \in Pids /\ pcb[plan.p].pc \in Nat /\ pcb[plan.p].pc < Len(Programa[plan.p])
    BY <1>2 DEF buscar_cpu_disponible, TiposHilos, TiposKernel, PcEnPrograma
  <2> DEFINE m == [op |-> "CONTEXTO", p |-> plan.p, pc |-> pcb[plan.p].pc]
  <2>2. m \in {x \in Contextos : Vigente(x)}
    BY <2>1 DEF Contextos, Vigente
  <2> HIDE DEF m
  <2>3. /\ aCpu' \in [Cpus -> Seq(Contextos)]
        /\ aCpu' \in [Cpus -> Seq({x \in Contextos : Vigente(x)})]
    <3>1. aCpu' = aCpu \/ \E c : aCpu' = Envia(aCpu, c, m)
      BY <1>2 DEF buscar_cpu_disponible, m
    <3>2. m \in Contextos
      BY <2>2
    <3>3. /\ aCpu \in [Cpus -> Seq(Contextos)]
          /\ aCpu \in [Cpus -> Seq({x \in Contextos : Vigente(x)})]
      BY DEF TiposCpu, PcEnPrograma
    <3>4. CASE aCpu' = aCpu
      BY <3>3, <3>4
    <3>5. ASSUME NEW c, aCpu' = Envia(aCpu, c, m)
          PROVE  /\ aCpu' \in [Cpus -> Seq(Contextos)]
                 /\ aCpu' \in [Cpus -> Seq({x \in Contextos : Vigente(x)})]
      BY <2>2, <3>2, <3>3, <3>5, EnviaTipo, Zenon
    <3> QED BY <3>1, <3>4, <3>5
  <2>4. TiposKernel'
    BY <1>2, <2>1 DEF buscar_cpu_disponible, TiposKernel, PidONadie
  <2>5. TiposHilos'
    BY <1>2 DEF buscar_cpu_disponible, TiposHilos, PlanQuieto, PidONadie
  <2>6. TiposCpu' /\ PcEnPrograma'
    BY <1>2, <2>3 DEF buscar_cpu_disponible, TiposCpu, PcEnPrograma
  <2> QED BY <2>4, <2>5, <2>6
<1>3. CASE buscar_cpu_disponible_desalojo
  <2>1. /\ listaCPU' \in Seq(Cpus)
        /\ listaCPU # <<>> => Head(listaCPU') \in Cpus
    <3>1. PICK f \in Bijection(DOMAIN listaCPU, DOMAIN listaCPU) :
                 listaCPU' = [i \in DOMAIN listaCPU |-> listaCPU[f[i]]]
      BY <1>3 DEF buscar_cpu_disponible_desalojo
    <3>2. listaCPU' \in Seq(Cpus)
      <4>1. listaCPU \in Seq(Cpus)
        BY DEF TiposKernel
      <4> QED BY <3>1, <4>1, PermutacionPropiedades
    <3>3. DOMAIN listaCPU' = DOMAIN listaCPU
      BY <3>1
    <3>4. listaCPU # <<>> => listaCPU' # <<>>
      BY <3>2, <3>3, EmptySeq, LenProperties DEF TiposKernel
    <3> QED BY <3>2, <3>4, HeadTailProperties
  <2> DEFINE v == Head(listaCPU')
  <2>2. CASE listaCPU = <<>> \/ running[v] = Nadie
    <3>1. caido' = TRUE /\ UNCHANGED <<plan, aInt>>
      BY <1>3, <2>2 DEF buscar_cpu_disponible_desalojo
    <3> QED BY <1>3, <2>1, <3>1 DEF buscar_cpu_disponible_desalojo, TiposKernel, TiposHilos,
            TiposCpu, PcEnPrograma
  <2>3. CASE ~(listaCPU = <<>> \/ running[v] = Nadie)
    <3>1. v \in Cpus /\ running[v] \in Pids
      BY <2>1, <2>3 DEF TiposKernel, PidONadie
    <3> HIDE DEF v
    <3>2. \/ plan' = PlanQuieto /\ UNCHANGED aInt
          \/ /\ plan' = [plan EXCEPT !.en = "confirma", !.c = v]
             /\ aInt' = Envia(aInt, v, running[v])
      BY <1>3, <2>3 DEF buscar_cpu_disponible_desalojo, v
    <3>3. caido' = caido /\ plan.en = "desaloja"
      BY <1>3, <2>3 DEF buscar_cpu_disponible_desalojo, v
    <3>4. aInt' \in [Cpus -> Seq(Pids)]
      <4>1. aInt \in [Cpus -> Seq(Pids)]
        BY DEF TiposCpu
      <4>2. Envia(aInt, v, running[v]) \in [Cpus -> Seq(Pids)]
        BY <3>1, <4>1, EnviaTipo, Zenon
      <4> QED BY <3>2, <4>1, <4>2
    <3>5. TiposHilos'
      <4>1. UNCHANGED <<disp, intr>>
        BY <1>3 DEF buscar_cpu_disponible_desalojo
      <4>2. CASE plan' = PlanQuieto
        BY <4>1, <4>2 DEF TiposHilos, PlanQuieto, PidONadie
      <4>3. CASE plan' = [plan EXCEPT !.en = "confirma", !.c = v]
        BY <3>1, <3>3, <4>1, <4>3 DEF TiposHilos
      <4> QED BY <3>2, <4>2, <4>3
    <3> QED BY <1>3, <2>1, <3>3, <3>4, <3>5 DEF buscar_cpu_disponible_desalojo, TiposKernel,
            TiposCpu, PcEnPrograma
  <2> QED BY <2>2, <2>3
<1>4. CASE ConfirmarDesalojo
  <2>1. plan.p \in Pids /\ pcb[plan.p].pc \in Nat /\ pcb[plan.p].pc < Len(Programa[plan.p])
    BY <1>4 DEF ConfirmarDesalojo, TiposHilos, TiposKernel, PcEnPrograma
  <2> DEFINE m == [op |-> "CONTEXTO_INTERRUPCION", p |-> plan.p, pc |-> pcb[plan.p].pc]
  <2>2. m \in {x \in Contextos : Vigente(x)}
    BY <2>1 DEF Contextos, Vigente
  <2> HIDE DEF m
  <2>3. /\ aCpu' \in [Cpus -> Seq(Contextos)]
        /\ aCpu' \in [Cpus -> Seq({x \in Contextos : Vigente(x)})]
    <3>1. aCpu' = Envia(aCpu, plan.c, m)
      BY <1>4 DEF ConfirmarDesalojo, m
    <3>2. m \in Contextos
      BY <2>2
    <3>3. /\ aCpu \in [Cpus -> Seq(Contextos)]
          /\ aCpu \in [Cpus -> Seq({x \in Contextos : Vigente(x)})]
      BY DEF TiposCpu, PcEnPrograma
    <3>4. CASE aCpu' = aCpu
      BY <3>3, <3>4
    <3>5. ASSUME NEW c, aCpu' = Envia(aCpu, c, m)
          PROVE  /\ aCpu' \in [Cpus -> Seq(Contextos)]
                 /\ aCpu' \in [Cpus -> Seq({x \in Contextos : Vigente(x)})]
      BY <2>2, <3>2, <3>3, <3>5, EnviaTipo, Zenon
    <3> QED BY <3>1, <3>4, <3>5
  <2>4. TiposKernel'
    <3>1. running' \in [Cpus -> PidONadie]
      BY <1>4, <2>1 DEF ConfirmarDesalojo, TiposKernel, PidONadie
    <3>2. desalojado' \in Nat
      BY <1>4 DEF ConfirmarDesalojo, TiposKernel
    <3> QED BY <1>4, <3>1, <3>2 DEF ConfirmarDesalojo, TiposKernel
  <2>5. TiposHilos'
    BY <1>4 DEF ConfirmarDesalojo, TiposHilos
  <2>6. TiposCpu' /\ PcEnPrograma'
    BY <1>4, <2>3 DEF ConfirmarDesalojo, TiposCpu, PcEnPrograma
  <2> QED BY <2>4, <2>5, <2>6
<1>5. CASE ReadyAExec
  <2>1. plan.p \in Pids
    BY <1>5 DEF ReadyAExec, TiposHilos
  <2>2. TiposKernel'
    BY <1>5, <2>1, RemoveFirstPropiedades DEF ReadyAExec, TiposKernel, Grupos
  <2>3. TiposHilos' /\ TiposCpu' /\ PcEnPrograma'
    BY <1>5 DEF ReadyAExec, TiposHilos, PlanQuieto, PidONadie, TiposCpu, PcEnPrograma
  <2> QED BY <2>2, <2>3
<1> QED BY <1>1, <1>2, <1>3, <1>4, <1>5 DEF Planificador

\* A dispatch thread that goes on with its process, or back to where it waits.
LEMMA DispatchSigue ==
  ASSUME TiposHilos, PcEnPrograma, NEW c \in Cpus, disp[c].en # "recibe",
         NEW e \in {"io_bloquea", "io_encola", "exit_libera"},
         disp' = HiloVa(disp, c, e) \/ disp' = HiloQueda(disp, c),
         UNCHANGED <<plan, intr>>
  PROVE  TiposHilos' /\ \A d \in Cpus : disp'[d].en # "recibe" => Vigente(disp'[d])
<1>1. \A d \in Cpus : d # c => disp'[d] = disp[d]
  BY DEF HiloVa, HiloQueda, TiposHilos
<1>2. \/ disp'[c] = [en |-> "recibe", p |-> Nadie, pc |-> 0]
      \/ disp'[c] = [disp[c] EXCEPT !.en = e]
  BY DEF HiloVa, HiloQueda, TiposHilos
<1>3. disp[c].p \in Pids /\ disp[c].pc \in Nat /\ Vigente(disp[c])
  BY DEF TiposHilos, PcEnPrograma
<1>4. /\ disp'[c].en \in {"recibe", "io_bloquea", "io_encola", "exit_libera"}
      /\ disp'[c].p \in PidONadie /\ disp'[c].pc \in Nat
      /\ disp'[c].en # "recibe" => disp'[c].p \in Pids /\ Vigente(disp'[c])
  BY <1>2, <1>3 DEF TiposHilos, PidONadie, Vigente
<1>5. disp' \in [Cpus -> [en : {"recibe", "io_libera", "io_bloquea", "io_encola",
                                "exit_busca", "exit_libera"}, p : PidONadie, pc : Nat]]
  <2>1. CASE disp' = HiloVa(disp, c, e)
    BY <2>1 DEF HiloVa, TiposHilos
  <2>2. CASE disp' = HiloQueda(disp, c)
    BY <2>2 DEF HiloQueda, TiposHilos, PidONadie
  <2> QED BY <2>1, <2>2
<1>6. \A d \in Cpus : disp'[d].en # "recibe" => disp'[d].p \in Pids /\ Vigente(disp'[d])
  BY <1>1, <1>4 DEF TiposHilos, PcEnPrograma
<1> QED BY <1>5, <1>6 DEF TiposHilos

\* The dispatch thread of a CPU changes its own place and nothing of the planner,
\* the CPUs and what travels to them.
LEMMA TipoDispatch ==
  ASSUME TypeOK, PcEnPrograma, NEW c \in Cpus, HiloDispatch(c)
  PROVE  TypeOK' /\ PcEnPrograma'
<1> USE DEF TypeOK, procVars, admVars, cpusVars, hilosVars, aVars, deVars
<1>1. ASSUME NEW op \in {"IO", "EXIT"}, NEW e \in {"io_libera", "exit_busca"},
             RecibeLlamada(c, op, e)
      PROVE  TypeOK' /\ PcEnPrograma'
  <2> DEFINE m == Head(deCpu[c])
  <2>1. /\ m \in Llamadas /\ Vigente(m) /\ deCpu' \in [Cpus -> Seq(Llamadas)]
        /\ deCpu' \in [Cpus -> Seq({x \in Llamadas : Vigente(x)})]
    <3>1. /\ deCpu \in [Cpus -> Seq(Llamadas)] /\ deCpu[c] # <<>>
          /\ deCpu \in [Cpus -> Seq({x \in Llamadas : Vigente(x)})]
          /\ deCpu' = Recibe(deCpu, c)
      BY <1>1 DEF RecibeLlamada, TiposCpu, PcEnPrograma
    <3>2. m \in {x \in Llamadas : Vigente(x)}
      BY <3>1, RecibeTipo, Zenon
    <3> QED BY <3>1, <3>2, RecibeTipo, Zenon
  <2>2. disp' = HiloCon(disp, c, e, m) /\ m.p \in Pids /\ m.pc \in Nat
    BY <1>1, <2>1 DEF RecibeLlamada, Llamadas
  <2> HIDE DEF m
  <2>3. TiposHilos'
    <3>1. UNCHANGED <<plan, intr>>
      BY <1>1 DEF RecibeLlamada
    <3> QED BY <2>2, <3>1 DEF TiposHilos, HiloCon, PidONadie
  <2>4. TiposKernel' /\ TiposCpu'
    BY <1>1, <2>1 DEF RecibeLlamada, TiposKernel, TiposCpu
  <2>5. PcEnPrograma'
    <3>1. UNCHANGED <<pcb, aCpu, deInt, cpu>>
      BY <1>1 DEF RecibeLlamada
    <3>2. \A d \in Cpus : disp'[d].en # "recibe" => Vigente(disp'[d])
      BY <2>1, <2>2 DEF HiloCon, PcEnPrograma, TiposHilos, Vigente
    <3> QED BY <2>1, <3>1, <3>2 DEF PcEnPrograma
  <2> QED BY <2>3, <2>4, <2>5
<1>2. CASE SysComienzoIO(c) \/ SysExit(c)
  BY <1>1, <1>2 DEF SysComienzoIO, SysExit
<1>3. CASE LiberarPorIO(c)
  <2>1. running' \in [Cpus -> PidONadie]
    BY <1>3, LiberarTipo DEF LiberarPorIO
  <2>2. TiposKernel' /\ TiposCpu'
    BY <1>3, <2>1 DEF LiberarPorIO, TiposKernel, TiposCpu
  <2>3. TiposHilos' /\ \A d \in Cpus : disp'[d].en # "recibe" => Vigente(disp'[d])
    BY <1>3, DispatchSigue DEF LiberarPorIO
  <2> QED BY <1>3, <2>2, <2>3 DEF LiberarPorIO, PcEnPrograma
<1>4. CASE BloquearPorIO(c)
  <2>1. disp[c].p \in Pids /\ disp[c].pc \in Nat /\ disp[c].pc < Len(Programa[disp[c].p])
    BY <1>4 DEF BloquearPorIO, TiposHilos, PcEnPrograma, Vigente
  <2>2. lista' \in [Grupos -> SUBSET Pids] /\ corto' \in Nat
    <3>1. \/ lista' = lista /\ corto' = corto
          \/ lista' = Mueve("EXEC", "BLOCKED", disp[c].p) /\ corto' = corto + 1
      BY <1>4 DEF BloquearPorIO, exec_a_blocked
    <3>2. lista \in [Grupos -> SUBSET Pids] /\ corto \in Nat
      BY DEF TiposKernel
    <3>3. Mueve("EXEC", "BLOCKED", disp[c].p) \in [Grupos -> SUBSET Pids]
      BY <2>1, <3>2 DEF Mueve, Grupos
    <3> QED BY <3>1, <3>2, <3>3
  <2>3. /\ pcb' \in [Pids -> [pc : Nat, rafaga : Rafagas \cup {-1}, est : Int]]
        /\ \A p \in Pids : pcb'[p].pc < Len(Programa[p])
    <3>1. \/ pcb' = pcb
          \/ \E t \in Rafagas :
               pcb' = [pcb EXCEPT ![disp[c].p].pc = disp[c].pc, ![disp[c].p].rafaga = t]
      BY <1>4 DEF BloquearPorIO, exec_a_blocked
    <3>2. CASE pcb' = pcb
      BY <3>2 DEF TiposKernel, PcEnPrograma
    <3>3. ASSUME NEW t \in Rafagas,
                 pcb' = [pcb EXCEPT ![disp[c].p].pc = disp[c].pc, ![disp[c].p].rafaga = t]
          PROVE  /\ pcb' \in [Pids -> [pc : Nat, rafaga : Rafagas \cup {-1}, est : Int]]
                 /\ \A p \in Pids : pcb'[p].pc < Len(Programa[p])
      BY <2>1, <3>3 DEF TiposKernel, PcEnPrograma
    <3> QED BY <3>1, <3>2, <3>3
  <2>4. TiposKernel'
    BY <1>4, <2>2, <2>3 DEF BloquearPorIO, TiposKernel
  <2>5. TiposHilos' /\ \A d \in Cpus : disp'[d].en # "recibe" => Vigente(disp'[d])
    BY <1>4, DispatchSigue DEF BloquearPorIO
  <2> QED BY <1>4, <2>3, <2>4, <2>5 DEF BloquearPorIO, TiposCpu, PcEnPrograma
<1>5. CASE agregar_a_cola_por_IO(c)
  <2>1. enIO' \in [Pids -> Nat]
    <3>1. enIO \in [Pids -> Nat]
      BY DEF TiposKernel
    <3>2. disp[c].p \in Pids
      BY <1>5 DEF agregar_a_cola_por_IO, TiposHilos
    <3>3. PICK q \in Pids : enIO' = [enIO EXCEPT ![q] = @ + 1]
      BY <1>5, <3>2 DEF agregar_a_cola_por_IO
    <3> QED BY <3>1, <3>3
  <2>2. TiposKernel' /\ TiposCpu'
    BY <1>5, <2>1 DEF agregar_a_cola_por_IO, TiposKernel, TiposCpu
  <2>3. TiposHilos' /\ \A d \in Cpus : disp'[d].en # "recibe" => Vigente(disp'[d])
    BY <1>5, DispatchSigue DEF agregar_a_cola_por_IO
  <2> QED BY <1>5, <2>2, <2>3 DEF agregar_a_cola_por_IO, PcEnPrograma
<1>6. CASE ExitBusca(c)
  <2>1. lista' \in [Grupos -> SUBSET Pids]
    BY <1>6 DEF ExitBusca, TiposKernel
  <2>2. TiposKernel' /\ TiposCpu'
    BY <1>6, <2>1 DEF ExitBusca, TiposKernel, TiposCpu
  <2>3. TiposHilos' /\ \A d \in Cpus : disp'[d].en # "recibe" => Vigente(disp'[d])
    BY <1>6, DispatchSigue DEF ExitBusca
  <2> QED BY <1>6, <2>2, <2>3 DEF ExitBusca, PcEnPrograma
<1>7. CASE ExitLibera(c)
  <2>1. disp[c].p \in Pids
    BY <1>7 DEF ExitLibera, TiposHilos
  <2>2. lista' \in [Grupos -> SUBSET Pids]
    BY <1>7, <2>1 DEF ExitLibera, TiposKernel, Grupos
  <2>3. TiposKernel' /\ TiposCpu'
    <3>1. running' \in [Cpus -> PidONadie]
      BY <1>7, LiberarTipo DEF ExitLibera
    <3>2. corto' \in Nat
      BY <1>7 DEF ExitLibera, TiposKernel
    <3> QED BY <1>7, <2>2, <3>1, <3>2 DEF ExitLibera, TiposKernel, TiposCpu
  <2>4. TiposHilos' /\ \A d \in Cpus : disp'[d].en # "recibe" => Vigente(disp'[d])
    BY <1>7, DispatchSigue DEF ExitLibera
  <2> QED BY <1>7, <2>3, <2>4 DEF ExitLibera, PcEnPrograma
<1> QED BY <1>2, <1>3, <1>4, <1>5, <1>6, <1>7 DEF HiloDispatch

\* Types: the interrupt thread of a CPU.
LEMMA TipoInterrupt ==
  ASSUME TypeOK, PcEnPrograma, NEW c \in Cpus, HiloInterrupt(c)
  PROVE  TypeOK' /\ PcEnPrograma'
<1> USE DEF TypeOK, procVars, admVars, cpusVars, hilosVars, aVars, deVars
<1>1. CASE SysInterrupt(c)
  <2> DEFINE m == Head(deInt[c])
             T == [p : Pids, pc : Nat]
  <2>1. /\ m \in T /\ Vigente(m) /\ deInt' \in [Cpus -> Seq(T)]
        /\ deInt' \in [Cpus -> Seq({x \in T : Vigente(x)})]
    <3>1. /\ deInt \in [Cpus -> Seq(T)] /\ deInt[c] # <<>>
          /\ deInt \in [Cpus -> Seq({x \in T : Vigente(x)})]
          /\ deInt' = Recibe(deInt, c)
      BY <1>1 DEF SysInterrupt, TiposCpu, PcEnPrograma
    <3>2. m \in {x \in T : Vigente(x)}
      BY <3>1, RecibeTipo, Zenon
    <3> QED BY <3>1, <3>2, RecibeTipo, Zenon
  <2>2. m.p \in Pids /\ m.pc \in Nat /\ m.pc < Len(Programa[m.p])
    BY <2>1 DEF Vigente
  <2>3. CASE m.p \notin lista["EXEC"] \cup lista["BLOCKED"]
    <3>1. caido' = TRUE /\ UNCHANGED <<lista, pcb, running, intr>>
      BY <1>1, <2>3 DEF SysInterrupt
    <3> QED BY <1>1, <2>1, <3>1 DEF SysInterrupt, TiposKernel, TiposHilos, TiposCpu, PcEnPrograma
  <2>4. CASE m.p \in lista["EXEC"] \cup lista["BLOCKED"]
    <3>1. /\ lista' = [g \in DOMAIN lista |-> lista[g] \ {m.p}]
          /\ \E t \in Rafagas : pcb' = [pcb EXCEPT ![m.p].pc = m.pc, ![m.p].est = @ - 4 * t]
          /\ running' = liberar_cpu(m.p)
          /\ intr' = HiloCon(intr, c, "a_ready", m)
          /\ UNCHANGED caido
      BY <1>1, <2>4 DEF SysInterrupt
    <3> HIDE DEF m
    <3>2. /\ pcb' \in [Pids -> [pc : Nat, rafaga : Rafagas \cup {-1}, est : Int]]
          /\ \A p \in Pids : pcb'[p].pc < Len(Programa[p])
      <4>1. PICK p \in Pids, k \in Nat : p = m.p /\ k = m.pc /\ k < Len(Programa[p])
        BY <2>2
      <4>2. PICK t \in Rafagas : pcb' = [pcb EXCEPT ![p].pc = k, ![p].est = @ - 4 * t]
        BY <3>1, <4>1
      <4>3. t \in Int /\ pcb \in [Pids -> [pc : Nat, rafaga : Rafagas \cup {-1}, est : Int]]
        BY Constantes DEF TiposKernel
      <4>4. /\ pcb' \in [Pids -> [pc : Nat, rafaga : Rafagas \cup {-1}, est : Int]]
            /\ \A q \in Pids : pcb'[q].pc = IF q = p THEN k ELSE pcb[q].pc
        <5> DEFINE Pcb == [pc : Nat, rafaga : Rafagas \cup {-1}, est : Int]
                   h == [pcb EXCEPT ![p].pc = k]
                   n == h[p].est - 4 * t
        <5>1. h \in [Pids -> Pcb] /\ \A q \in Pids : h[q].pc = IF q = p THEN k ELSE pcb[q].pc
          BY <4>3
        <5>2. pcb' = [h EXCEPT ![p].est = n]
          BY <4>2
        <5>3. n \in Int
          BY <4>3, <5>1
        <5> HIDE DEF h, n
        <5> QED BY <5>1, <5>2, <5>3
      <4> QED BY <4>1, <4>4 DEF PcEnPrograma
    <3>3. lista' \in [Grupos -> SUBSET Pids]
      BY <3>1 DEF TiposKernel
    <3>4. running' \in [Cpus -> PidONadie]
      BY <3>1, LiberarTipo
    <3>5. TiposKernel'
      BY <1>1, <3>1, <3>2, <3>3, <3>4 DEF SysInterrupt, TiposKernel
    <3>6. TiposHilos'
      <4>1. UNCHANGED <<plan, disp>>
        BY <1>1 DEF SysInterrupt
      <4> QED BY <2>2, <3>1, <4>1 DEF TiposHilos, HiloCon, PidONadie
    <3> QED BY <1>1, <2>1, <3>2, <3>5, <3>6 DEF SysInterrupt, TiposCpu, PcEnPrograma
  <2> QED BY <2>3, <2>4
<1>2. CASE DesalojadoAReady(c)
  <2>1. intr[c].p \in Pids
    BY <1>2 DEF DesalojadoAReady, TiposHilos
  <2>2. ready' \in Seq(Pids) /\ corto' \in Nat /\ desalojado' \in Nat
    BY <1>2, <2>1, AppendPropiedades DEF DesalojadoAReady, agregar_a_READY, TiposKernel
  <2>3. TiposKernel' /\ TiposCpu' /\ PcEnPrograma'
    BY <1>2, <2>2 DEF DesalojadoAReady, TiposKernel, TiposCpu, PcEnPrograma
  <2>4. TiposHilos'
    <3>1. UNCHANGED <<plan, disp>> /\ intr' = HiloQueda(intr, c)
      BY <1>2 DEF DesalojadoAReady
    <3> QED BY <3>1 DEF TiposHilos, HiloQueda, PidONadie
  <2> QED BY <2>3, <2>4
<1> QED BY <1>1, <1>2 DEF HiloInterrupt

\* What a step of a CPU leaves alone: the kernel and what its threads carry.
LEMMA CpuTipo ==
  ASSUME TypeOK, PcEnPrograma, NEW c \in Cpus, NEW r, cpu' = [cpu EXCEPT ![c] = r],
         r \in [en : {"ciclo", "vacia", "revisa", "aguarda", "limpia"}, pid : PidONadie,
                pc : Nat, esp : BOOLEAN, ctx : Nat, int : Nat, pend : BOOLEAN],
         IF r.pid = Nadie THEN r.esp /\ r.ctx = 0 /\ ~r.pend
         ELSE r.pc < Len(Programa[r.pid]),
         UNCHANGED <<procVars, plan, cpusVars, desalojado, caido, hilosVars, enIO>>,
         aCpu' \in [Cpus -> Seq(Contextos)], aInt' \in [Cpus -> Seq(Pids)],
         deCpu' \in [Cpus -> Seq(Llamadas)], deInt' \in [Cpus -> Seq([p : Pids, pc : Nat])],
         aCpu' \in [Cpus -> Seq({m \in Contextos : Vigente(m)})],
         deCpu' \in [Cpus -> Seq({m \in Llamadas : Vigente(m)})],
         deInt' \in [Cpus -> Seq({m \in [p : Pids, pc : Nat] : Vigente(m)})],
         hecho' \in [Pids -> Nat]
  PROVE  TypeOK' /\ PcEnPrograma'
<1> USE DEF TypeOK, procVars, admVars, cpusVars, hilosVars
<1>1. TiposKernel' /\ TiposHilos'
  BY DEF TiposKernel, TiposHilos
<1>2. \A d \in Cpus : cpu'[d] = IF d = c THEN r ELSE cpu[d]
  BY DEF TiposCpu
<1>3. TiposCpu'
  BY DEF TiposCpu
<1>4. PcEnPrograma'
  BY <1>2 DEF PcEnPrograma
<1> QED BY <1>1, <1>3, <1>4

\* Types: the instruction cycle and the threads that listen to the kernel.
LEMMA TipoCicloCpu ==
  ASSUME TypeOK, PcEnPrograma, NEW c \in Cpus,
         CicloCpu(c) \/ RecibeContexto(c) \/ RecibeInterrupt(c)
  PROVE  TypeOK' /\ PcEnPrograma'
<1> DEFINE R == [en : {"ciclo", "vacia", "revisa", "aguarda", "limpia"}, pid : PidONadie,
                 pc : Nat, esp : BOOLEAN, ctx : Nat, int : Nat, pend : BOOLEAN]
           x == cpu[c]
<1> USE DEF TypeOK, procVars, admVars, cpusVars, hilosVars, aVars, deVars
<1>0. /\ cpu \in [Cpus -> R] /\ x \in R
      /\ IF x.pid = Nadie THEN x.esp /\ x.ctx = 0 /\ ~x.pend ELSE x.pc < Len(Programa[x.pid])
      /\ aCpu \in [Cpus -> Seq(Contextos)] /\ aInt \in [Cpus -> Seq(Pids)]
      /\ deCpu \in [Cpus -> Seq(Llamadas)] /\ deInt \in [Cpus -> Seq([p : Pids, pc : Nat])]
      /\ aCpu \in [Cpus -> Seq({m \in Contextos : Vigente(m)})]
      /\ deCpu \in [Cpus -> Seq({m \in Llamadas : Vigente(m)})]
      /\ deInt \in [Cpus -> Seq({m \in [p : Pids, pc : Nat] : Vigente(m)})]
      /\ hecho \in [Pids -> Nat]
  BY DEF TiposCpu, PcEnPrograma
<1>1. CASE RecibeContexto(c)
  <2> DEFINE m == Head(aCpu[c])
             r == [x EXCEPT !.pid = m.p, !.pc = m.pc,
                            !.ctx = IF m.op = "CONTEXTO" \/ x.esp THEN x.ctx + 1 ELSE x.ctx,
                            !.int = IF m.op = "CONTEXTO" THEN x.int ELSE x.int + 1]
  <2>1. /\ m \in Contextos /\ Vigente(m) /\ aCpu' \in [Cpus -> Seq(Contextos)]
        /\ aCpu' \in [Cpus -> Seq({y \in Contextos : Vigente(y)})]
    <3>1. aCpu[c] # <<>> /\ aCpu' = Recibe(aCpu, c)
      BY <1>1 DEF RecibeContexto
    <3>2. m \in {y \in Contextos : Vigente(y)}
      BY <1>0, <3>1, RecibeTipo, Zenon
    <3> QED BY <1>0, <3>1, <3>2, RecibeTipo, Zenon
  <2>2. cpu' = [cpu EXCEPT ![c] = r]
    BY <1>0, <1>1 DEF RecibeContexto
  <2>3. m.p \in Pids /\ m.pc \in Nat /\ m.pc < Len(Programa[m.p]) /\ m.p # Nadie
    BY <2>1, Constantes DEF Contextos, Vigente
  <2> HIDE DEF m
  <2>4. /\ x.ctx + 1 \in Nat /\ x.int + 1 \in Nat
        /\ m.p \in PidONadie
    BY <1>0, <2>3 DEF PidONadie
  <2>5. r \in R /\ r.pid = m.p /\ r.pc = m.pc
    BY <1>0, <2>3, <2>4
  <2>6. IF r.pid = Nadie THEN r.esp /\ r.ctx = 0 /\ ~r.pend ELSE r.pc < Len(Programa[r.pid])
    BY <2>3, <2>5
  <2>7. /\ UNCHANGED <<procVars, plan, cpusVars, desalojado, caido, hilosVars, enIO>>
        /\ UNCHANGED <<aInt, deVars, hecho>>
    BY <1>1 DEF RecibeContexto
  <2> HIDE DEF r
  <2> QED BY <1>0, <2>1, <2>2, <2>5, <2>6, <2>7, CpuTipo
<1>2. CASE RecibeInterrupt(c)
  <2> DEFINE r == [x EXCEPT !.pend = x.pend \/ Head(aInt[c]) = x.pid]
  <2>1. aInt' \in [Cpus -> Seq(Pids)] /\ Head(aInt[c]) \in Pids
    <3>1. aInt[c] # <<>> /\ aInt' = Recibe(aInt, c)
      BY <1>2 DEF RecibeInterrupt
    <3> QED BY <1>0, <3>1, RecibeTipo, Zenon
  <2>2. cpu' = [cpu EXCEPT ![c] = r]
    BY <1>0, <1>2 DEF RecibeInterrupt
  <2>3. x.pid = Nadie => Head(aInt[c]) # x.pid
    BY <2>1, Constantes
  <2>4. r \in R /\ IF r.pid = Nadie THEN r.esp /\ r.ctx = 0 /\ ~r.pend
                  ELSE r.pc < Len(Programa[r.pid])
    BY <1>0, <2>3
  <2>5. /\ UNCHANGED <<procVars, plan, cpusVars, desalojado, caido, hilosVars, enIO>>
        /\ UNCHANGED <<aCpu, deVars, hecho>>
    BY <1>2 DEF RecibeInterrupt
  <2> HIDE DEF r
  <2> QED BY <1>0, <2>1, <2>2, <2>4, <2>5, CpuTipo
<1>3. CASE CpuEspera(c)
  <2> DEFINE r == [x EXCEPT !.esp = FALSE, !.ctx = x.ctx - 1]
  <2>1. cpu' = [cpu EXCEPT ![c] = r] /\ UNCHANGED <<aVars, deVars, hecho>>
    BY <1>0, <1>3 DEF CpuEspera
  <2>2. r \in R /\ IF r.pid = Nadie THEN r.esp /\ r.ctx = 0 /\ ~r.pend
                  ELSE r.pc < Len(Programa[r.pid])
    <3>1. x.ctx > 0 /\ x.pid # Nadie /\ x.ctx - 1 \in Nat
      BY <1>0, <1>3 DEF CpuEspera
    <3> QED BY <1>0, <3>1
  <2>3. UNCHANGED <<procVars, plan, cpusVars, desalojado, caido, hilosVars, enIO>>
    BY <1>3 DEF CpuEspera
  <2> HIDE DEF r
  <2> QED BY <1>0, <2>1, <2>2, <2>3, CpuTipo
<1>4. CASE CpuEjecuta(c)
  <2> DEFINE p == x.pid
             i == Programa[p][x.pc + 1]
             sig == IF i = "EXIT" THEN x.pc ELSE x.pc + 1
             r == [x EXCEPT !.pc = sig, !.en = IF i = "NOOP" THEN "revisa" ELSE "vacia"]
             m == [op |-> i, p |-> p, pc |-> sig]
  <2>1. p \in Pids /\ x.pc \in Nat /\ x.pc < Len(Programa[p])
    BY <1>0, <1>4 DEF CpuEjecuta, PidONadie
  <2>2. /\ cpu' = [cpu EXCEPT ![c] = r] /\ hecho' = [hecho EXCEPT ![p] = @ + 1]
        /\ deCpu' = IF i = "NOOP" THEN deCpu ELSE Envia(deCpu, c, m)
    BY <1>0, <1>4 DEF CpuEjecuta
  <2>3. /\ UNCHANGED <<procVars, plan, cpusVars, desalojado, caido, hilosVars, enIO>>
        /\ UNCHANGED <<aVars, deInt>>
    BY <1>4 DEF CpuEjecuta
  <2>4. i \in {"NOOP", "IO", "EXIT"} /\ (i # "EXIT" => x.pc + 1 < Len(Programa[p]))
    BY <2>1, HayOtra
  <2> HIDE DEF p, i, x
  <2>5. sig \in Nat /\ sig < Len(Programa[p])
    BY <2>1, <2>4
  <2>6. r \in R /\ r.pid = p /\ r.pc = sig
    BY <1>0, <2>5 DEF p
  <2>7. i = "NOOP" \/ (m \in Llamadas /\ Vigente(m))
    BY <2>1, <2>4, <2>5 DEF Llamadas, Vigente
  <2> HIDE DEF r, m
  <2>8. /\ deCpu' \in [Cpus -> Seq(Llamadas)]
        /\ deCpu' \in [Cpus -> Seq({y \in Llamadas : Vigente(y)})]
    <3>1. CASE i = "NOOP"
      BY <1>0, <2>2, <3>1
    <3>2. CASE i # "NOOP"
      <4>1. m \in Llamadas /\ m \in {y \in Llamadas : Vigente(y)} /\ deCpu' = Envia(deCpu, c, m)
        BY <2>2, <2>7, <3>2
      <4> QED BY <1>0, <4>1, EnviaTipo, Zenon
    <3> QED BY <3>1, <3>2
  <2>9. hecho' \in [Pids -> Nat]
    BY <1>0, <2>1, <2>2
  <2>10. IF r.pid = Nadie THEN r.esp /\ r.ctx = 0 /\ ~r.pend ELSE r.pc < Len(Programa[r.pid])
    BY <2>1, <2>5, <2>6, Constantes
  <2> QED BY <1>0, <2>2, <2>3, <2>6, <2>8, <2>9, <2>10, CpuTipo
<1>5. CASE CpuVacia(c)
  <2> DEFINE r == [x EXCEPT !.esp = TRUE, !.en = "revisa"]
  <2>1. cpu' = [cpu EXCEPT ![c] = r] /\ UNCHANGED <<aVars, deVars, hecho>>
    BY <1>0, <1>5 DEF CpuVacia
  <2>2. r \in R /\ IF r.pid = Nadie THEN r.esp /\ r.ctx = 0 /\ ~r.pend
                  ELSE r.pc < Len(Programa[r.pid])
    BY <1>0, <1>5 DEF CpuVacia
  <2>3. UNCHANGED <<procVars, plan, cpusVars, desalojado, caido, hilosVars, enIO>>
    BY <1>5 DEF CpuVacia
  <2> HIDE DEF r
  <2> QED BY <1>0, <2>1, <2>2, <2>3, CpuTipo
<1>6. CASE check_interrupt(c)
  <2> DEFINE r == [x EXCEPT !.en = IF x.pend THEN "aguarda" ELSE "ciclo"]
             m == [p |-> x.pid, pc |-> x.pc]
  <2>1. /\ cpu' = [cpu EXCEPT ![c] = r]
        /\ deInt' = IF x.pend THEN Envia(deInt, c, m) ELSE deInt
    BY <1>0, <1>6 DEF check_interrupt
  <2>2. r \in R /\ IF r.pid = Nadie THEN r.esp /\ r.ctx = 0 /\ ~r.pend
                  ELSE r.pc < Len(Programa[r.pid])
    BY <1>0
  <2>3. /\ UNCHANGED <<procVars, plan, cpusVars, desalojado, caido, hilosVars, enIO>>
        /\ UNCHANGED <<aVars, deCpu, hecho>>
    BY <1>6 DEF check_interrupt
  <2>4. x.pend => m \in [p : Pids, pc : Nat] /\ Vigente(m)
    BY <1>0 DEF PidONadie, Vigente
  <2> HIDE DEF r, m
  <2>5. /\ deInt' \in [Cpus -> Seq([p : Pids, pc : Nat])]
        /\ deInt' \in [Cpus -> Seq({y \in [p : Pids, pc : Nat] : Vigente(y)})]
    <3>1. CASE ~x.pend
      BY <1>0, <2>1, <3>1
    <3>2. CASE x.pend
      <4>1. /\ m \in [p : Pids, pc : Nat] /\ m \in {y \in [p : Pids, pc : Nat] : Vigente(y)}
            /\ deInt' = Envia(deInt, c, m)
        BY <2>1, <2>4, <3>2
      <4> QED BY <1>0, <4>1, EnviaTipo, Zenon
    <3> QED BY <3>1, <3>2
  <2> QED BY <1>0, <2>1, <2>2, <2>3, <2>5, CpuTipo
<1>7. CASE CpuAguarda(c)
  <2> DEFINE r == [x EXCEPT !.int = x.int - 1, !.en = "limpia"]
  <2>1. cpu' = [cpu EXCEPT ![c] = r] /\ UNCHANGED <<aVars, deVars, hecho>>
    BY <1>0, <1>7 DEF CpuAguarda
  <2>2. r \in R /\ IF r.pid = Nadie THEN r.esp /\ r.ctx = 0 /\ ~r.pend
                  ELSE r.pc < Len(Programa[r.pid])
    BY <1>0, <1>7 DEF CpuAguarda
  <2>3. UNCHANGED <<procVars, plan, cpusVars, desalojado, caido, hilosVars, enIO>>
    BY <1>7 DEF CpuAguarda
  <2> HIDE DEF r
  <2> QED BY <1>0, <2>1, <2>2, <2>3, CpuTipo
<1>8. CASE CpuLimpia(c)
  <2> DEFINE r == [x EXCEPT !.pend = FALSE, !.en = "ciclo"]
  <2>1. cpu' = [cpu EXCEPT ![c] = r] /\ UNCHANGED <<aVars, deVars, hecho>>
    BY <1>0, <1>8 DEF CpuLimpia
  <2>2. r \in R /\ IF r.pid = Nadie THEN r.esp /\ r.ctx = 0 /\ ~r.pend
                  ELSE r.pc < Len(Programa[r.pid])
    BY <1>0, <1>8 DEF CpuLimpia
  <2>3. UNCHANGED <<procVars, plan, cpusVars, desalojado, caido, hilosVars, enIO>>
    BY <1>8 DEF CpuLimpia
  <2> HIDE DEF r
  <2> QED BY <1>0, <2>1, <2>2, <2>3, CpuTipo
<1> QED BY <1>1, <1>2, <1>3, <1>4, <1>5, <1>6, <1>7, <1>8 DEF CicloCpu

\* Every step keeps the types and every pc inside its program.
LEMMA TipoPaso ==
  ASSUME TypeOK, PcEnPrograma, PunteroEnReady, [Next]_vars
  PROVE  TypeOK' /\ PcEnPrograma'
<1>1. CASE UNCHANGED vars
  BY <1>1 DEF vars, procVars, admVars, cpusVars, hilosVars, aVars, deVars, TypeOK, TiposKernel,
     TiposHilos, TiposCpu, PcEnPrograma
<1> QED BY <1>1, TipoProcesos, TipoPlanificador, TipoDispatch, TipoInterrupt, TipoCicloCpu
        DEF Next

-----------------------------------------------------------------------------
(* One place for each process.                                              *)

\* The places, told apart.
LEMMA SitiosPartes ==
  /\ \A x \in Sitios : \/ x = <<"nuevos", Nadie>> \/ x = <<"ready", Nadie>>
                       \/ \E g \in Grupos : x = <<g, Nadie>>
                       \/ \E c \in Cpus : x = <<"disp", c>> \/ x = <<"intr", c>>
  /\ <<"nuevos", Nadie>> \in Sitios /\ <<"ready", Nadie>> \in Sitios
  /\ \A g \in Grupos : <<g, Nadie>> \in Sitios
  /\ \A c \in Cpus : <<"disp", c>> \in Sitios /\ <<"intr", c>> \in Sitios
BY DEF Sitios, Grupos

\* What it is to be in each place.
LEMMA EnPartes ==
  \A p : /\ En(<<"nuevos", Nadie>>, p) <=> p \in nuevos
         /\ En(<<"ready", Nadie>>, p) <=> p \in Range(ready)
         /\ \A g \in Grupos : En(<<g, Nadie>>, p) <=> p \in lista[g]
         /\ \A c \in Cpus :
              /\ En(<<"disp", c>>, p) <=> disp[c].en = "exit_libera" /\ disp[c].p = p
              /\ En(<<"intr", c>>, p) <=> intr[c].en = "a_ready" /\ intr[c].p = p
BY DEF En, Grupos

\* The same after the step.
LEMMA EnPartesPrima ==
  \A p : /\ En(<<"nuevos", Nadie>>, p)' <=> p \in nuevos'
         /\ En(<<"ready", Nadie>>, p)' <=> p \in Range(ready')
         /\ \A g \in Grupos : En(<<g, Nadie>>, p)' <=> p \in lista'[g]
         /\ \A c \in Cpus :
              /\ En(<<"disp", c>>, p)' <=> disp'[c].en = "exit_libera" /\ disp'[c].p = p
              /\ En(<<"intr", c>>, p)' <=> intr'[c].en = "a_ready" /\ intr'[c].p = p
BY DEF En, Grupos

\* A PCB in the hand of a thread.
LEMMA EnMano ==
  ASSUME NEW c \in Cpus, NEW p
  PROVE  /\ En(<<"disp", c>>, p) <=> disp[c].en = "exit_libera" /\ disp[c].p = p
         /\ En(<<"disp", c>>, p)' <=> disp'[c].en = "exit_libera" /\ disp'[c].p = p
         /\ En(<<"intr", c>>, p) <=> intr[c].en = "a_ready" /\ intr[c].p = p
         /\ En(<<"intr", c>>, p)' <=> intr'[c].en = "a_ready" /\ intr'[c].p = p
<1>1. /\ En(<<"disp", c>>, p) <=> disp[c].en = "exit_libera" /\ disp[c].p = p
      /\ En(<<"intr", c>>, p) <=> intr[c].en = "a_ready" /\ intr[c].p = p
  BY EnPartes, Zenon
<1>2. /\ En(<<"disp", c>>, p)' <=> disp'[c].en = "exit_libera" /\ disp'[c].p = p
      /\ En(<<"intr", c>>, p)' <=> intr'[c].en = "a_ready" /\ intr'[c].p = p
  BY EnPartesPrima, Zenon
<1> QED BY <1>1, <1>2

\* A step that leaves every process where it is.
LEMMA Quietud ==
  ASSUME UnSoloLugar, IsInjective(ready'),
         \A x \in Sitios, p \in Pids : En(x, p)' <=> En(x, p)
  PROVE  UnSoloLugar'
BY DEF UnSoloLugar

\* A step that takes one process from a place to another.
LEMMA Mudanza ==
  ASSUME UnSoloLugar, IsInjective(ready'),
         NEW p \in Pids, NEW a \in Sitios, NEW b \in Sitios, a # b, En(a, p),
         \A r \in Pids : En(a, r)' <=> En(a, r) /\ r # p,
         \A r \in Pids : En(b, r)' <=> En(b, r) \/ r = p,
         \A x \in Sitios \ {a, b}, r \in Pids : En(x, r)' <=> En(x, r)
  PROVE  UnSoloLugar'
<1>1. \A x \in Sitios \ {a} : ~En(x, p)
  BY DEF UnSoloLugar
<1>2. ASSUME NEW r \in Pids
      PROVE  \E x \in Sitios : En(x, r)' /\ \A y \in Sitios \ {x} : ~En(y, r)'
  <2>1. CASE r = p
    <3>1. En(b, p)' /\ \A y \in Sitios \ {b} : ~En(y, p)'
      BY <1>1
    <3> QED BY <2>1, <3>1
  <2>2. CASE r # p
    <3>1. \A x \in Sitios : En(x, r)' <=> En(x, r)
      BY <2>2
    <3> QED BY <3>1 DEF UnSoloLugar
  <2> QED BY <2>1, <2>2
<1> QED BY <1>2 DEF UnSoloLugar

\* What a step leaves alone in a place, by the kind of place.
LEMMA SitioIgual ==
  ASSUME NEW x \in Sitios,
         x = <<"nuevos", Nadie>> => nuevos' = nuevos,
         x = <<"ready", Nadie>> => Range(ready') = Range(ready),
         \A g \in Grupos : x = <<g, Nadie>> => lista'[g] = lista[g],
         \A c \in Cpus : x = <<"disp", c>> =>
           \/ disp'[c] = disp[c]
           \/ disp[c].en # "exit_libera" /\ disp'[c].en # "exit_libera",
         \A c \in Cpus : x = <<"intr", c>> => intr'[c] = intr[c]
  PROVE  \A p \in Pids : En(x, p)' <=> En(x, p)
<1> SUFFICES ASSUME NEW p \in Pids PROVE En(x, p)' <=> En(x, p)
  OBVIOUS
<1>1. CASE x = <<"nuevos", Nadie>>
  BY <1>1, EnPartes, EnPartesPrima
<1>2. CASE x = <<"ready", Nadie>>
  BY <1>2, EnPartes, EnPartesPrima
<1>3. ASSUME NEW g \in Grupos, x = <<g, Nadie>> PROVE En(x, p)' <=> En(x, p)
  BY <1>3, EnPartes, EnPartesPrima
<1>4. ASSUME NEW c \in Cpus, x = <<"disp", c>> PROVE En(x, p)' <=> En(x, p)
  <2>1. /\ En(x, p) <=> disp[c].en = "exit_libera" /\ disp[c].p = p
        /\ En(x, p)' <=> disp'[c].en = "exit_libera" /\ disp'[c].p = p
    BY <1>4, EnPartes, EnPartesPrima, Zenon
  <2> QED BY <1>4, <2>1
<1>5. ASSUME NEW c \in Cpus, x = <<"intr", c>> PROVE En(x, p)' <=> En(x, p)
  <2>1. /\ En(x, p) <=> intr[c].en = "a_ready" /\ intr[c].p = p
        /\ En(x, p)' <=> intr'[c].en = "a_ready" /\ intr'[c].p = p
    BY <1>5, EnPartes, EnPartesPrima, Zenon
  <2> QED BY <1>5, <2>1
<1> QED BY <1>1, <1>2, <1>3, <1>4, <1>5, SitiosPartes

\* A step that moves no process: READY is at most sorted, and no thread takes a
\* PCB or lets one go.
LEMMA SinMudanza ==
  ASSUME UnSoloLugar, UNCHANGED <<nuevos, lista, intr>>,
         IsInjective(ready'), Range(ready') = Range(ready),
         \A c \in Cpus : \/ disp'[c] = disp[c]
                         \/ disp[c].en # "exit_libera" /\ disp'[c].en # "exit_libera"
  PROVE  UnSoloLugar'
<1>1. \A x \in Sitios, p \in Pids : En(x, p)' <=> En(x, p)
  BY SitioIgual
<1> QED BY <1>1, Quietud

\* Both parts of the invariant that a step with no effect on the lists keeps.
LEMMA LugarQuieto ==
  ASSUME UnSoloLugar, PunteroEnReady, UNCHANGED <<nuevos, ready, lista, intr, plan>>,
         \A c \in Cpus : \/ disp'[c] = disp[c]
                         \/ disp[c].en # "exit_libera" /\ disp'[c].en # "exit_libera"
  PROVE  UnSoloLugar' /\ PunteroEnReady'
<1>1. IsInjective(ready') /\ Range(ready') = Range(ready)
  BY DEF UnSoloLugar
<1> QED BY <1>1, SinMudanza DEF PunteroEnReady

\* agregar_a_READY: out of another place, to the end of the ready list.
LEMMA ManoAReady ==
  ASSUME TypeOK, UnSoloLugar, PunteroEnReady, NEW p \in Pids, ready' = Append(ready, p),
         NEW a \in Sitios, a # <<"ready", Nadie>>, En(a, p),
         \A r \in Pids : En(a, r)' <=> En(a, r) /\ r # p,
         \A x \in Sitios \ {a, <<"ready", Nadie>>}, r \in Pids : En(x, r)' <=> En(x, r),
         UNCHANGED plan
  PROVE  UnSoloLugar' /\ PunteroEnReady'
<1> DEFINE b == <<"ready", Nadie>>
<1>0. ready \in Seq(Pids) /\ IsInjective(ready)
  BY DEF TypeOK, TiposKernel, UnSoloLugar
<1>1. b \in Sitios /\ \A r \in Pids : (En(b, r) <=> r \in Range(ready))
                                       /\ (En(b, r)' <=> r \in Range(ready'))
  BY SitiosPartes, EnPartes, EnPartesPrima
<1> HIDE DEF b
<1>2. p \notin Range(ready)
  BY <1>1 DEF UnSoloLugar, b
<1>3. IsInjective(ready') /\ Range(ready') = Range(ready) \cup {p}
  BY <1>0, <1>2, AppendPropiedades
<1>4. UnSoloLugar'
  BY <1>1, <1>3, Mudanza DEF b
<1> QED BY <1>3, <1>4 DEF PunteroEnReady

\* The admission of a process and the end of its IO.
LEMMA LugarProcesos ==
  ASSUME TypeOK, UnSoloLugar, PunteroEnReady, NEW p \in Pids, Admitir(p) \/ FinIO(p)
  PROVE  UnSoloLugar' /\ PunteroEnReady'
<1> USE DEF procVars, admVars, cpusVars, hilosVars, aVars, deVars
<1>0. lista \in [Grupos -> SUBSET Pids]
  BY DEF TypeOK, TiposKernel
<1>1. CASE Admitir(p)
  <2> DEFINE a == <<"nuevos", Nadie>>
  <2>1. a \in Sitios /\ a # <<"ready", Nadie>> /\ En(a, p)
    BY <1>1, SitiosPartes, EnPartes DEF Admitir
  <2>2. \A r \in Pids : En(a, r)' <=> En(a, r) /\ r # p
    BY <1>1, EnPartes, EnPartesPrima DEF Admitir
  <2>3. UNCHANGED <<lista, disp, intr, plan>> /\ ready' = Append(ready, p)
    BY <1>1 DEF Admitir, agregar_a_READY
  <2>4. \A x \in Sitios \ {a, <<"ready", Nadie>>}, r \in Pids : En(x, r)' <=> En(x, r)
    BY <2>3, SitioIgual
  <2> HIDE DEF a
  <2> QED BY <2>1, <2>2, <2>3, <2>4, ManoAReady
<1>2. CASE FinIO(p)
  <2>1. CASE p \notin lista["BLOCKED"]
    BY <1>2, <2>1, LugarQuieto DEF FinIO
  <2>2. CASE p \in lista["BLOCKED"]
    <3> DEFINE a == <<"BLOCKED", Nadie>>
    <3>0. "BLOCKED" \in Grupos
      BY DEF Grupos
    <3>1. a \in Sitios /\ a # <<"ready", Nadie>> /\ En(a, p)
      BY <2>2, <3>0, SitiosPartes, EnPartes
    <3>2. /\ UNCHANGED <<nuevos, disp, intr, plan>> /\ ready' = Append(ready, p)
          /\ lista' = [lista EXCEPT !["BLOCKED"] = @ \ {p}]
      BY <1>2, <2>2 DEF FinIO, agregar_a_READY
    <3>3. /\ lista'["BLOCKED"] = lista["BLOCKED"] \ {p}
          /\ \A g \in Grupos : g # "BLOCKED" => lista'[g] = lista[g]
      BY <1>0, <3>0, <3>2
    <3>4. \A r \in Pids : En(a, r)' <=> En(a, r) /\ r # p
      <4>1. \A r \in Pids : /\ En(a, r) <=> r \in lista["BLOCKED"]
                            /\ En(a, r)' <=> r \in lista'["BLOCKED"]
        BY <3>0, EnPartes, EnPartesPrima, Zenon
      <4> QED BY <3>3, <4>1
    <3>5. \A x \in Sitios \ {a, <<"ready", Nadie>>}, r \in Pids : En(x, r)' <=> En(x, r)
      BY <3>2, <3>3, SitioIgual
    <3> HIDE DEF a
    <3> QED BY <3>1, <3>2, <3>4, <3>5, ManoAReady
  <2> QED BY <2>1, <2>2
<1> QED BY <1>1, <1>2

\* The planner thread moves a process from READY to EXEC at most.
LEMMA LugarPlanificador ==
  ASSUME TypeOK, UnSoloLugar, PunteroEnReady, Planificador
  PROVE  UnSoloLugar' /\ PunteroEnReady'
<1> USE DEF procVars, admVars, cpusVars, hilosVars, aVars, deVars
<1>0. ready \in Seq(Pids) /\ IsInjective(ready) /\ lista \in [Grupos -> SUBSET Pids]
  BY DEF TypeOK, TiposKernel, UnSoloLugar
<1>1. CASE CortoDespierta
  <2>1. CASE ready = <<>>
    BY <1>1, <2>1, LugarQuieto DEF CortoDespierta
  <2>2. CASE ready # <<>>
    <3>1. /\ ready' \in Seq(Pids) /\ DOMAIN ready' = DOMAIN ready
          /\ IsInjective(ready') /\ Range(ready') = Range(ready)
      <4>1. \A p \in Pids : Estimadas[p].est \in Int
        BY EstimadasTipo DEF TypeOK
      <4> QED BY <1>0, <1>1, <2>2, <4>1, OrdenadaPropiedades DEF CortoDespierta
    <3>2. UNCHANGED <<nuevos, lista, intr, disp>>
      BY <1>1 DEF CortoDespierta
    <3>3. Head(ready') \in Range(ready')
      <4>1. ready' # <<>> /\ DOMAIN ready' = 1..Len(ready') /\ Len(ready') \in Nat
        BY <1>0, <2>2, <3>1, EmptySeq, LenProperties
      <4>2. 1 \in DOMAIN ready' /\ Head(ready') = ready'[1]
        BY <3>1, <4>1, EmptySeq
      <4> QED BY <4>2 DEF Range
    <3>4. plan'.p = Head(ready')
      BY <1>1, <2>2 DEF CortoDespierta, TypeOK, TiposHilos
    <3> QED BY <3>1, <3>2, <3>3, <3>4, SinMudanza DEF PunteroEnReady
  <2> QED BY <2>1, <2>2
<1>2. ASSUME UNCHANGED <<nuevos, ready, lista, disp, intr>>,
             plan'.en = "espera" \/ (plan.en # "espera" /\ plan'.p = plan.p)
      PROVE  UnSoloLugar' /\ PunteroEnReady'
  <2>1. UnSoloLugar'
    BY <1>0, <1>2, SinMudanza
  <2> QED BY <1>2, <2>1 DEF PunteroEnReady
<1>3. CASE buscar_cpu_disponible
  BY <1>2, <1>3 DEF buscar_cpu_disponible, PlanQuieto, TypeOK, TiposHilos
<1>4. CASE buscar_cpu_disponible_desalojo
  <2>1. \/ plan' = plan \/ plan' = PlanQuieto
        \/ \E v : plan' = [plan EXCEPT !.en = "confirma", !.c = v]
    BY <1>4 DEF buscar_cpu_disponible_desalojo
  <2>2. plan'.en = "espera" \/ (plan.en # "espera" /\ plan'.p = plan.p)
    <3>1. plan.en = "desaloja"
      BY <1>4 DEF buscar_cpu_disponible_desalojo
    <3>2. ASSUME NEW v, plan' = [plan EXCEPT !.en = "confirma", !.c = v]
          PROVE  plan'.p = plan.p
      BY <3>2 DEF TypeOK, TiposHilos
    <3>3. CASE plan' = PlanQuieto
      BY <3>3 DEF PlanQuieto
    <3> QED BY <2>1, <3>1, <3>2, <3>3
  <2> QED BY <1>2, <1>4, <2>2 DEF buscar_cpu_disponible_desalojo
<1>5. CASE ConfirmarDesalojo
  BY <1>2, <1>5 DEF ConfirmarDesalojo, TypeOK, TiposHilos
<1>6. CASE ReadyAExec
  <2> DEFINE a == <<"ready", Nadie>>
             b == <<"EXEC", Nadie>>
  <2>0. "EXEC" \in Grupos /\ a \in Sitios /\ b \in Sitios /\ a # b
    BY SitiosPartes DEF Grupos
  <2>1. plan.p \in Pids /\ plan.p \in Range(ready)
    BY <1>6 DEF ReadyAExec, PunteroEnReady, TypeOK, TiposHilos
  <2>2. IsInjective(ready') /\ Range(ready') = Range(ready) \ {plan.p}
    BY <1>0, <1>6, RemoveFirstPropiedades DEF ReadyAExec
  <2>3. /\ lista'["EXEC"] = lista["EXEC"] \cup {plan.p}
        /\ \A g \in Grupos : g # "EXEC" => lista'[g] = lista[g]
    BY <1>0, <1>6, <2>0 DEF ReadyAExec
  <2>4. \A r \in Pids : /\ En(a, r) <=> r \in Range(ready)
                        /\ En(a, r)' <=> r \in Range(ready')
                        /\ En(b, r) <=> r \in lista["EXEC"]
                        /\ En(b, r)' <=> r \in lista'["EXEC"]
    BY <2>0, EnPartes, EnPartesPrima, Zenon
  <2>5. UNCHANGED <<nuevos, disp, intr>> /\ plan'.en = "espera"
    BY <1>6 DEF ReadyAExec, PlanQuieto
  <2>6. \A x \in Sitios \ {a, b}, r \in Pids : En(x, r)' <=> En(x, r)
    BY <2>3, <2>5, SitioIgual
  <2> HIDE DEF a, b
  <2>7. UnSoloLugar'
    BY <2>0, <2>1, <2>2, <2>3, <2>4, <2>6, Mudanza
  <2> QED BY <2>5, <2>7 DEF PunteroEnReady
<1> QED BY <1>1, <1>3, <1>4, <1>5, <1>6 DEF Planificador

\* A PCB that is in a list is in no other place.
LEMMA SoloEnLista ==
  ASSUME UnSoloLugar, NEW p \in Pids, NEW g \in Grupos, p \in lista[g]
  PROVE  \A h \in Grupos \ {g} : p \notin lista[h]
<1>1. <<g, Nadie>> \in Sitios /\ En(<<g, Nadie>>, p)
  BY SitiosPartes, EnPartes, Zenon
<1>2. ASSUME NEW h \in Grupos, h # g PROVE p \notin lista[h]
  <2>1. <<h, Nadie>> \in Sitios /\ <<h, Nadie>> # <<g, Nadie>>
    BY <1>2, SitiosPartes
  <2>2. ~En(<<h, Nadie>>, p)
    BY <1>1, <2>1, Zenon DEF UnSoloLugar
  <2> QED BY <2>2, EnPartes, Zenon
<1> QED BY <1>2

\* buscar_proceso_por_pid: out of whatever list it is in, into the hand of a thread.
LEMMA ListaAMano ==
  ASSUME UnSoloLugar, PunteroEnReady, lista \in [Grupos -> SUBSET Pids],
         NEW p \in Pids, NEW g \in Grupos, p \in lista[g],
         lista' = [h \in DOMAIN lista |-> lista[h] \ {p}],
         NEW b \in Sitios, \A h \in Grupos : b # <<h, Nadie>>,
         \A r \in Pids : ~En(b, r) /\ (En(b, r)' <=> r = p),
         \A x \in Sitios \ {b}, r \in Pids :
           (\A h \in Grupos : x # <<h, Nadie>>) => (En(x, r)' <=> En(x, r)),
         UNCHANGED <<ready, plan>>
  PROVE  UnSoloLugar' /\ PunteroEnReady'
<1> DEFINE a == <<g, Nadie>>
<1>1. a \in Sitios /\ a # b
  BY SitiosPartes
<1>2. \A r \in Pids : (En(a, r) <=> r \in lista[g]) /\ (En(a, r)' <=> r \in lista'[g])
  BY EnPartes, EnPartesPrima, Zenon
<1>3. /\ lista'[g] = lista[g] \ {p}
      /\ \A h \in Grupos : h # g => lista'[h] = lista[h]
  BY SoloEnLista
<1>4. \A x \in Sitios \ {a, b}, r \in Pids : En(x, r)' <=> En(x, r)
  <2> SUFFICES ASSUME NEW x \in Sitios, x # a, x # b, NEW r \in Pids PROVE En(x, r)' <=> En(x, r)
    OBVIOUS
  <2>1. ASSUME NEW h \in Grupos, x = <<h, Nadie>> PROVE En(x, r)' <=> En(x, r)
    <3>1. lista'[h] = lista[h]
      BY <1>3, <2>1
    <3>2. (En(x, r) <=> r \in lista[h]) /\ (En(x, r)' <=> r \in lista'[h])
      BY <2>1, EnPartes, EnPartesPrima, Zenon
    <3> QED BY <3>1, <3>2
  <2> QED BY <2>1
<1> HIDE DEF a
<1>5. IsInjective(ready')
  BY DEF UnSoloLugar
<1>6. UnSoloLugar'
  BY <1>1, <1>2, <1>3, <1>4, <1>5, Mudanza
<1> QED BY <1>6 DEF PunteroEnReady

\* The dispatch thread of a CPU: to BLOCKED, or through its hand to EXIT.
LEMMA LugarDispatch ==
  ASSUME TypeOK, UnSoloLugar, PunteroEnReady, NEW c \in Cpus, HiloDispatch(c)
  PROVE  UnSoloLugar' /\ PunteroEnReady'
<1> USE DEF procVars, admVars, cpusVars, hilosVars, aVars, deVars
<1>0. /\ IsInjective(ready) /\ lista \in [Grupos -> SUBSET Pids]
      /\ \A d \in Cpus : disp[d].en # "recibe" => disp[d].p \in Pids
  BY DEF TypeOK, TiposKernel, TiposHilos, UnSoloLugar
<1>a. \A e, m : /\ \A d \in Cpus : d # c => /\ HiloVa(disp, c, e)[d] = disp[d]
                                            /\ HiloQueda(disp, c)[d] = disp[d]
                                            /\ HiloCon(disp, c, e, m)[d] = disp[d]
                /\ HiloVa(disp, c, e)[c].en = e /\ HiloVa(disp, c, e)[c].p = disp[c].p
                /\ HiloQueda(disp, c)[c].en = "recibe"
                /\ HiloCon(disp, c, e, m)[c].en = e
  BY DEF HiloVa, HiloQueda, HiloCon, TypeOK, TiposHilos
<1>1. ASSUME NEW op, NEW e \in {"io_libera", "exit_busca"}, RecibeLlamada(c, op, e)
      PROVE  UnSoloLugar' /\ PunteroEnReady'
  BY <1>a, <1>1, LugarQuieto DEF RecibeLlamada
<1>2. CASE SysComienzoIO(c) \/ SysExit(c)
  BY <1>1, <1>2 DEF SysComienzoIO, SysExit
<1>3. CASE LiberarPorIO(c) \/ agregar_a_cola_por_IO(c)
  BY <1>a, <1>3, LugarQuieto DEF LiberarPorIO, agregar_a_cola_por_IO
<1>4. CASE BloquearPorIO(c)
  <2> DEFINE p == disp[c].p
  <2>0. /\ p \in Pids /\ UNCHANGED <<nuevos, ready, intr, plan>>
        /\ \A d \in Cpus : \/ disp'[d] = disp[d]
                           \/ disp[d].en # "exit_libera" /\ disp'[d].en # "exit_libera"
    BY <1>0, <1>a, <1>4 DEF BloquearPorIO
  <2>1. CASE p \notin lista["EXEC"]
    <3>1. lista' = lista
      BY <1>4, <2>1 DEF BloquearPorIO, exec_a_blocked
    <3> QED BY <2>0, <3>1, LugarQuieto
  <2>2. CASE p \in lista["EXEC"]
    <3> DEFINE a == <<"EXEC", Nadie>>
               b == <<"BLOCKED", Nadie>>
    <3>0. "EXEC" \in Grupos /\ "BLOCKED" \in Grupos /\ a \in Sitios /\ b \in Sitios /\ a # b
      BY SitiosPartes DEF Grupos
    <3>1. lista' = [lista EXCEPT !["EXEC"] = @ \ {p}, !["BLOCKED"] = @ \cup {p}]
      BY <1>4, <2>2 DEF BloquearPorIO, exec_a_blocked, Mueve
    <3>2. /\ lista'["EXEC"] = lista["EXEC"] \ {p} /\ lista'["BLOCKED"] = lista["BLOCKED"] \cup {p}
          /\ \A h \in Grupos : h \notin {"EXEC", "BLOCKED"} => lista'[h] = lista[h]
      BY <1>0, <3>0, <3>1
    <3>3. \A r \in Pids : /\ En(a, r) <=> r \in lista["EXEC"]
                          /\ En(a, r)' <=> r \in lista'["EXEC"]
                          /\ En(b, r) <=> r \in lista["BLOCKED"]
                          /\ En(b, r)' <=> r \in lista'["BLOCKED"]
      BY <3>0, EnPartes, EnPartesPrima, Zenon
    <3>4. \A x \in Sitios \ {a, b}, r \in Pids : En(x, r)' <=> En(x, r)
      BY <2>0, <3>2, SitioIgual
    <3>5. IsInjective(ready')
      BY <1>0, <2>0
    <3> HIDE DEF a, b
    <3>6. UnSoloLugar'
      BY <2>0, <2>2, <3>0, <3>2, <3>3, <3>4, <3>5, Mudanza
    <3> QED BY <2>0, <3>6 DEF PunteroEnReady
  <2> QED BY <2>1, <2>2
<1>5. CASE ExitBusca(c)
  <2> DEFINE p == disp[c].p
             b == <<"disp", c>>
  <2>0. p \in Pids /\ disp[c].en = "exit_busca" /\ UNCHANGED <<nuevos, ready, intr, plan>>
    BY <1>0, <1>5 DEF ExitBusca
  <2>1. CASE p \notin lista["EXEC"] \cup lista["BLOCKED"]
    <3>1. lista' = lista /\ disp' = HiloQueda(disp, c)
      BY <1>5, <2>1 DEF ExitBusca
    <3> QED BY <1>a, <2>0, <3>1, LugarQuieto
  <2>2. CASE p \in lista["EXEC"] \cup lista["BLOCKED"]
    <3>1. /\ lista' = [g \in DOMAIN lista |-> lista[g] \ {p}]
          /\ disp' = HiloVa(disp, c, "exit_libera")
      BY <1>5, <2>2 DEF ExitBusca
    <3>2. PICK g \in Grupos : p \in lista[g]
      BY <2>2 DEF Grupos
    <3>3. b \in Sitios /\ \A h \in Grupos : b # <<h, Nadie>>
      BY SitiosPartes DEF Grupos
    <3>4. \A r \in Pids : /\ En(b, r) <=> disp[c].en = "exit_libera" /\ disp[c].p = r
                          /\ En(b, r)' <=> disp'[c].en = "exit_libera" /\ disp'[c].p = r
      BY EnMano
    <3>5. \A r \in Pids : ~En(b, r) /\ (En(b, r)' <=> r = p)
      BY <1>a, <2>0, <3>1, <3>4
    <3>6. \A x \in Sitios \ {b}, r \in Pids :
            (\A h \in Grupos : x # <<h, Nadie>>) => (En(x, r)' <=> En(x, r))
      BY <1>a, <2>0, <3>1, SitioIgual
    <3> HIDE DEF b, p
    <3> QED BY <1>0, <2>0, <3>1, <3>2, <3>3, <3>5, <3>6, ListaAMano
  <2> QED BY <2>1, <2>2
<1>6. CASE ExitLibera(c)
  <2> DEFINE p == disp[c].p
             a == <<"disp", c>>
             b == <<"EXIT", Nadie>>
  <2>0. p \in Pids /\ disp[c].en = "exit_libera" /\ UNCHANGED <<nuevos, ready, intr, plan>>
    BY <1>0, <1>6 DEF ExitLibera
  <2>1. "EXIT" \in Grupos /\ a \in Sitios /\ b \in Sitios /\ a # b
    BY SitiosPartes DEF Grupos
  <2>2. /\ lista' = [lista EXCEPT !["EXIT"] = @ \cup {p}] /\ disp' = HiloQueda(disp, c)
    BY <1>6 DEF ExitLibera
  <2>3. /\ lista'["EXIT"] = lista["EXIT"] \cup {p}
        /\ \A h \in Grupos : h # "EXIT" => lista'[h] = lista[h]
    BY <1>0, <2>1, <2>2
  <2>4. \A r \in Pids : /\ En(a, r) <=> disp[c].en = "exit_libera" /\ disp[c].p = r
                        /\ En(a, r)' <=> disp'[c].en = "exit_libera" /\ disp'[c].p = r
                        /\ En(b, r) <=> r \in lista["EXIT"]
                        /\ En(b, r)' <=> r \in lista'["EXIT"]
    <3>1. \A r \in Pids : /\ En(b, r) <=> r \in lista["EXIT"]
                          /\ En(b, r)' <=> r \in lista'["EXIT"]
      BY <2>1, EnPartes, EnPartesPrima, Zenon
    <3> QED BY <3>1, EnMano
  <2>5. \A x \in Sitios \ {a, b}, r \in Pids : En(x, r)' <=> En(x, r)
    BY <1>a, <2>0, <2>2, <2>3, SitioIgual
  <2>6. /\ IsInjective(ready') /\ En(a, p)
        /\ \A r \in Pids : En(a, r)' <=> En(a, r) /\ r # p
        /\ \A r \in Pids : En(b, r)' <=> En(b, r) \/ r = p
    BY <1>0, <1>a, <2>0, <2>2, <2>3, <2>4
  <2> HIDE DEF a, b, p
  <2>7. UnSoloLugar'
    BY <2>0, <2>1, <2>5, <2>6, Mudanza
  <2> QED BY <2>0, <2>7 DEF PunteroEnReady
<1> QED BY <1>2, <1>3, <1>4, <1>5, <1>6 DEF HiloDispatch

\* The interrupt thread of a CPU: through its hand from EXEC or BLOCKED to READY.
LEMMA LugarInterrupt ==
  ASSUME TypeOK, UnSoloLugar, PunteroEnReady, NEW c \in Cpus, HiloInterrupt(c)
  PROVE  UnSoloLugar' /\ PunteroEnReady'
<1> DEFINE b == <<"intr", c>>
<1> USE DEF procVars, admVars, cpusVars, hilosVars, aVars, deVars
<1>0. b \in Sitios /\ b # <<"ready", Nadie>> /\ \A h \in Grupos : b # <<h, Nadie>>
  BY SitiosPartes DEF Grupos
<1>a. \A r \in Pids : /\ En(b, r) <=> intr[c].en = "a_ready" /\ intr[c].p = r
                      /\ En(b, r)' <=> intr'[c].en = "a_ready" /\ intr'[c].p = r
  BY EnMano
<1>b. \A d \in Cpus : b = <<"intr", d>> <=> d = c
  OBVIOUS
<1>1. CASE SysInterrupt(c)
  <2> DEFINE m == Head(deInt[c])
  <2>1. m.p \in Pids /\ intr[c].en = "recibe"
    <3>1. /\ deInt \in [Cpus -> Seq([p : Pids, pc : Nat])] /\ deInt[c] # <<>>
          /\ intr[c].en = "recibe"
      BY <1>1 DEF SysInterrupt, TypeOK, TiposCpu
    <3>2. m \in [p : Pids, pc : Nat]
      BY <3>1, RecibeTipo, Zenon
    <3> QED BY <3>1, <3>2
  <2>2. UNCHANGED <<nuevos, ready, disp, plan>>
    BY <1>1 DEF SysInterrupt
  <2>3. CASE m.p \notin lista["EXEC"] \cup lista["BLOCKED"]
    <3>1. UNCHANGED <<lista, intr>>
      BY <1>1, <2>3 DEF SysInterrupt
    <3> QED BY <2>2, <3>1, LugarQuieto
  <2>4. CASE m.p \in lista["EXEC"] \cup lista["BLOCKED"]
    <3>1. /\ lista' = [g \in DOMAIN lista |-> lista[g] \ {m.p}]
          /\ intr' = HiloCon(intr, c, "a_ready", m)
      BY <1>1, <2>4 DEF SysInterrupt
    <3>2. PICK g \in Grupos : m.p \in lista[g]
      BY <2>4 DEF Grupos
    <3> HIDE DEF m
    <3>3. /\ intr'[c].en = "a_ready" /\ intr'[c].p = m.p
          /\ \A d \in Cpus : d # c => intr'[d] = intr[d]
      BY <3>1 DEF HiloCon, TypeOK, TiposHilos
    <3>4. \A r \in Pids : ~En(b, r) /\ (En(b, r)' <=> r = m.p)
      BY <1>a, <2>1, <3>3
    <3> HIDE DEF b
    <3>5. \A x \in Sitios \ {b}, r \in Pids :
            (\A h \in Grupos : x # <<h, Nadie>>) => (En(x, r)' <=> En(x, r))
      BY <1>b, <2>2, <3>3, SitioIgual
    <3>6. lista \in [Grupos -> SUBSET Pids]
      BY DEF TypeOK, TiposKernel
    <3> QED BY <1>0, <2>1, <2>2, <3>1, <3>2, <3>4, <3>5, <3>6, ListaAMano
  <2> QED BY <2>3, <2>4
<1>2. CASE DesalojadoAReady(c)
  <2> DEFINE p == intr[c].p
  <2>1. /\ p \in Pids /\ intr[c].en = "a_ready" /\ ready' = Append(ready, p)
        /\ intr' = HiloQueda(intr, c) /\ UNCHANGED <<nuevos, lista, disp, plan>>
    BY <1>2 DEF DesalojadoAReady, agregar_a_READY, TypeOK, TiposHilos
  <2>2. intr'[c].en = "recibe" /\ \A d \in Cpus : d # c => intr'[d] = intr[d]
    BY <2>1 DEF HiloQueda, TypeOK, TiposHilos
  <2>3. En(b, p) /\ \A r \in Pids : En(b, r)' <=> En(b, r) /\ r # p
    BY <1>a, <2>1, <2>2
  <2> HIDE DEF p, b
  <2>4. \A x \in Sitios \ {b, <<"ready", Nadie>>}, r \in Pids : En(x, r)' <=> En(x, r)
    BY <1>b, <2>1, <2>2, SitioIgual
  <2> QED BY <1>0, <2>1, <2>3, <2>4, ManoAReady
<1> QED BY <1>1, <1>2 DEF HiloInterrupt

\* Every step keeps each process in one place, and the process of the planner in
\* READY until the planner itself takes it out.
LEMMA LugarPaso ==
  ASSUME TypeOK, UnSoloLugar, PunteroEnReady, [Next]_vars
  PROVE  UnSoloLugar' /\ PunteroEnReady'
<1> USE DEF procVars, admVars, cpusVars, hilosVars, aVars, deVars
<1>1. CASE UNCHANGED vars
  BY <1>1, LugarQuieto DEF vars
<1>2. ASSUME NEW c \in Cpus, CicloCpu(c) \/ RecibeContexto(c) \/ RecibeInterrupt(c)
      PROVE  UNCHANGED <<nuevos, ready, lista, intr, plan, disp>>
  BY <1>2 DEF CicloCpu, CpuEspera, CpuEjecuta, CpuVacia, check_interrupt, CpuAguarda, CpuLimpia,
     RecibeContexto, RecibeInterrupt
<1>3. ASSUME NEW c \in Cpus, CicloCpu(c) \/ RecibeContexto(c) \/ RecibeInterrupt(c)
      PROVE  UnSoloLugar' /\ PunteroEnReady'
  BY <1>2, <1>3, LugarQuieto
<1> QED BY <1>1, <1>3, LugarProcesos, LugarPlanificador, LugarDispatch, LugarInterrupt DEF Next

-----------------------------------------------------------------------------
(* One preemption at a time.                                                *)

\* The answer taken and the flag count one each, before and after a step.
LEMMA AvisoBandera ==
  ASSUME NEW c
  PROVE  /\ Aviso(c) \in Nat /\ Aviso(c)' \in Nat /\ Aviso(c) <= 1 /\ Aviso(c)' <= 1
         /\ Bandera(c) \in Nat /\ Bandera(c)' \in Nat /\ Bandera(c) <= 1 /\ Bandera(c)' <= 1
         /\ Aviso(c) = 1 <=> intr[c].en = "a_ready"
         /\ Aviso(c)' = 1 <=> intr'[c].en = "a_ready"
         /\ Bandera(c) = 1 <=> cpu[c].pend /\ cpu[c].en \notin {"aguarda", "limpia"}
         /\ Bandera(c)' = 1 <=> cpu'[c].pend /\ cpu'[c].en \notin {"aguarda", "limpia"}
BY DEF Aviso, Bandera

\* How much each CPU has under way is a number.
LEMMA CursoTipo ==
  ASSUME TypeOK, NEW c \in Cpus
  PROVE  Pedidos(c) \in Nat /\ Respuestas(c) \in Nat /\ EnCurso(c) \in Nat
<1>1. aInt[c] \in Seq(Pids) /\ deInt[c] \in Seq([p : Pids, pc : Nat])
  BY DEF TypeOK, TiposCpu
<1>2. Pedidos(c) \in Nat /\ Respuestas(c) \in Nat
  BY <1>1, LenProperties DEF Pedidos, Respuestas
<1> QED BY <1>2, AvisoBandera DEF EnCurso

\* The same after the step.
LEMMA CursoTipoPrima ==
  ASSUME TypeOK', NEW c \in Cpus
  PROVE  Pedidos(c)' \in Nat /\ Respuestas(c)' \in Nat /\ EnCurso(c)' \in Nat
<1>1. aInt'[c] \in Seq(Pids) /\ deInt'[c] \in Seq([p : Pids, pc : Nat])
  BY DEF TypeOK, TiposCpu
<1>2. Pedidos(c)' \in Nat /\ Respuestas(c)' \in Nat
  BY <1>1, LenProperties DEF Pedidos, Respuestas
<1> QED BY <1>2, AvisoBandera DEF EnCurso

\* A step that does not touch the preemption of a CPU.
LEMMA CursoIgual ==
  ASSUME NEW c \in Cpus, aInt'[c] = aInt[c], deInt'[c] = deInt[c], intr'[c] = intr[c],
         cpu'[c].pend = cpu[c].pend,
         cpu'[c].en \in {"aguarda", "limpia"} <=> cpu[c].en \in {"aguarda", "limpia"}
  PROVE  EnCurso(c)' = EnCurso(c)
<1>1. Pedidos(c)' = Pedidos(c) /\ Respuestas(c)' = Respuestas(c)
  BY DEF Pedidos, Respuestas
<1>2. Aviso(c)' = Aviso(c) /\ Bandera(c)' = Bandera(c)
  BY DEF Aviso, Bandera
<1> QED BY <1>1, <1>2 DEF EnCurso

\* A step of a CPU or of its interrupt thread that starts no preemption.
LEMMA DesalojoIgual ==
  ASSUME TypeOK, TypeOK', UnDesalojo, UNCHANGED <<plan, desalojado>>,
         \A c \in Cpus : EnCurso(c)' <= EnCurso(c)
  PROVE  UnDesalojo'
<1>1. \A c \in Cpus : EnCurso(c) \in Nat /\ EnCurso(c)' \in Nat
  BY CursoTipo, CursoTipoPrima
<1> HIDE DEF EnCurso
<1>2. desalojado \in Nat
  BY DEF TypeOK, TiposKernel
<1> QED BY <1>1, <1>2 DEF UnDesalojo

\* A message more in the socket of one CPU.
LEMMA LargoEnvia ==
  ASSUME NEW S, NEW k \in [Cpus -> Seq(S)], NEW c \in Cpus, NEW m \in S
  PROVE  /\ Len(Envia(k, c, m)[c]) = Len(k[c]) + 1
         /\ \A d \in Cpus : d # c => Envia(k, c, m)[d] = k[d]
BY AppendProperties DEF Envia

\* A message less.
LEMMA LargoRecibe ==
  ASSUME NEW S, NEW k \in [Cpus -> Seq(S)], NEW c \in Cpus, k[c] # <<>>
  PROVE  /\ Len(Recibe(k, c)[c]) = Len(k[c]) - 1
         /\ \A d \in Cpus : d # c => Recibe(k, c)[d] = k[d]
BY HeadTailProperties DEF Recibe

\* The instruction cycle and the listening threads: the interrupt that arrives
\* raises the flag, and the flag is answered once.
LEMMA DesalojoCicloCpu ==
  ASSUME TypeOK, TypeOK', PcEnPrograma, UnDesalojo, NEW c \in Cpus,
         CicloCpu(c) \/ RecibeContexto(c) \/ RecibeInterrupt(c)
  PROVE  UnDesalojo'
<1> USE DEF procVars, admVars, cpusVars, hilosVars, aVars, deVars
<1> DEFINE x == cpu[c]
           y == cpu'[c]
<1>0. /\ aInt \in [Cpus -> Seq(Pids)] /\ deInt \in [Cpus -> Seq([p : Pids, pc : Nat])]
      /\ x.pend \in BOOLEAN /\ y.pend \in BOOLEAN
  BY DEF TypeOK, TiposCpu
<1>a. /\ Pedidos(c) \in Nat /\ Respuestas(c) \in Nat
      /\ Pedidos(c)' \in Nat /\ Respuestas(c)' \in Nat
      /\ \A d \in Cpus : EnCurso(d) \in Nat
  BY CursoTipo, CursoTipoPrima
<1>b. UNCHANGED <<plan, desalojado, intr>> /\ \A d \in Cpus : d # c => cpu'[d] = cpu[d]
  BY DEF CicloCpu, CpuEspera, CpuEjecuta, CpuVacia, check_interrupt, CpuAguarda, CpuLimpia,
     RecibeContexto, RecibeInterrupt, TypeOK, TiposCpu
<1>c. ASSUME \A d \in Cpus : d # c => aInt'[d] = aInt[d] /\ deInt'[d] = deInt[d],
             EnCurso(c)' <= EnCurso(c)
      PROVE  UnDesalojo'
  <2>1. \A d \in Cpus : d # c => EnCurso(d)' = EnCurso(d)
    BY <1>b, <1>c, CursoIgual
  <2> HIDE DEF EnCurso
  <2>2. \A d \in Cpus : EnCurso(d)' <= EnCurso(d)
    BY <1>a, <1>c, <2>1
  <2> QED BY <1>b, <2>2, DesalojoIgual
<1>d. Aviso(c)' = Aviso(c)
  BY <1>b DEF Aviso
<1>e. /\ cpu \in [Cpus -> [en : {"ciclo", "vacia", "revisa", "aguarda", "limpia"},
                          pid : PidONadie, pc : Nat, esp : BOOLEAN, ctx : Nat,
                          int : Nat, pend : BOOLEAN]]
      /\ x \in [en : {"ciclo", "vacia", "revisa", "aguarda", "limpia"}, pid : PidONadie,
                pc : Nat, esp : BOOLEAN, ctx : Nat, int : Nat, pend : BOOLEAN]
  BY DEF TypeOK, TiposCpu
<1>1. CASE RecibeContexto(c) \/ CpuEspera(c) \/ CpuEjecuta(c) \/ CpuVacia(c) \/ CpuAguarda(c)
           \/ CpuLimpia(c)
  <2>1. UNCHANGED <<aInt, deInt>>
    <3>1. CASE RecibeContexto(c)
      BY <3>1 DEF RecibeContexto
    <3>2. CASE CpuEjecuta(c)
      BY <3>2 DEF CpuEjecuta
    <3>3. CASE CpuEspera(c) \/ CpuVacia(c) \/ CpuAguarda(c) \/ CpuLimpia(c)
      BY <3>3 DEF CpuEspera, CpuVacia, CpuAguarda, CpuLimpia
    <3> QED BY <1>1, <3>1, <3>2, <3>3
  <2>2. Pedidos(c)' = Pedidos(c) /\ Respuestas(c)' = Respuestas(c)
    BY <2>1 DEF Pedidos, Respuestas
  <2>3. /\ y.pend => x.pend
        /\ x.en \in {"aguarda", "limpia"} => y.en \in {"aguarda", "limpia"} \/ ~y.pend
    <3>1. CASE RecibeContexto(c)
      <4> DEFINE m == Head(aCpu[c])
                 r == [x EXCEPT !.pid = m.p, !.pc = m.pc,
                                !.ctx = IF m.op = "CONTEXTO" \/ x.esp THEN x.ctx + 1 ELSE x.ctx,
                                !.int = IF m.op = "CONTEXTO" THEN x.int ELSE x.int + 1]
      <4>1. cpu' = [cpu EXCEPT ![c] = r]
        BY <1>e, <3>1 DEF RecibeContexto
      <4>2. r.pend = x.pend /\ r.en = x.en
        BY <1>e
      <4> HIDE DEF r
      <4> QED BY <1>e, <4>1, <4>2
    <3>2. CASE CpuEspera(c)
      BY <1>e, <3>2 DEF CpuEspera
    <3>3. CASE CpuEjecuta(c)
      <4>1. x.en = "ciclo"
        BY <3>3 DEF CpuEjecuta
      <4>2. \E k, e : cpu' = [cpu EXCEPT ![c].pc = k, ![c].en = e]
        BY <3>3 DEF CpuEjecuta
      <4> QED BY <1>e, <4>1, <4>2
    <3>4. CASE CpuVacia(c)
      BY <1>e, <3>4 DEF CpuVacia
    <3>5. CASE CpuAguarda(c)
      BY <1>e, <3>5 DEF CpuAguarda
    <3>6. CASE CpuLimpia(c)
      BY <1>e, <3>6 DEF CpuLimpia
    <3> QED BY <1>1, <3>1, <3>2, <3>3, <3>4, <3>5, <3>6
  <2>4. Bandera(c)' <= Bandera(c)
    BY <1>0, <2>3 DEF Bandera
  <2>5. EnCurso(c)' <= EnCurso(c)
    BY <1>a, <1>d, <2>2, <2>4, AvisoBandera DEF EnCurso
  <2> QED BY <1>c, <2>1, <2>5
<1>2. CASE RecibeInterrupt(c)
  <2>1. aInt[c] # <<>> /\ aInt' = Recibe(aInt, c) /\ UNCHANGED deInt
    BY <1>2 DEF RecibeInterrupt
  <2>2. Len(aInt'[c]) = Len(aInt[c]) - 1 /\ \A d \in Cpus : d # c => aInt'[d] = aInt[d]
    BY <1>0, <2>1, LargoRecibe, Zenon
  <2>3. Pedidos(c)' = Pedidos(c) - 1 /\ Respuestas(c)' = Respuestas(c)
    BY <2>1, <2>2 DEF Pedidos, Respuestas
  <2>4. EnCurso(c)' <= EnCurso(c)
    <3>1. y.en = x.en /\ (x.pend => y.pend)
      BY <1>2 DEF RecibeInterrupt, TypeOK, TiposCpu
    <3>2. Bandera(c)' <= Bandera(c) + 1
      BY AvisoBandera
    <3> QED BY <1>a, <1>d, <2>3, <3>2, AvisoBandera DEF EnCurso
  <2> QED BY <1>c, <2>1, <2>2, <2>4
<1>3. CASE check_interrupt(c)
  <2>1. /\ x.en = "revisa" /\ y.pend = x.pend /\ y.en = IF x.pend THEN "aguarda" ELSE "ciclo"
        /\ deInt' = IF x.pend THEN Envia(deInt, c, [p |-> x.pid, pc |-> x.pc]) ELSE deInt
        /\ UNCHANGED aInt
    BY <1>3 DEF check_interrupt, TypeOK, TiposCpu
  <2>2. Pedidos(c)' = Pedidos(c)
    BY <2>1 DEF Pedidos
  <2>3. CASE ~x.pend
    <3>1. deInt' = deInt /\ Respuestas(c)' = Respuestas(c)
      BY <2>1, <2>3 DEF Respuestas
    <3>2. Bandera(c)' <= Bandera(c)
      BY <2>1, <2>3 DEF Bandera
    <3>3. EnCurso(c)' <= EnCurso(c)
      BY <1>a, <1>d, <2>2, <3>1, <3>2, AvisoBandera DEF EnCurso
    <3> QED BY <1>c, <2>1, <3>1, <3>3
  <2>4. CASE x.pend
    <3> DEFINE m == [p |-> x.pid, pc |-> x.pc]
    <3>1. deInt' = Envia(deInt, c, m) /\ m \in [p : Pids, pc : Nat]
      BY <2>1, <2>4 DEF TypeOK, TiposCpu, PcEnPrograma, PidONadie
    <3> HIDE DEF m
    <3>2. /\ Len(deInt'[c]) = Len(deInt[c]) + 1
          /\ \A d \in Cpus : d # c => deInt'[d] = deInt[d]
      <4>1. /\ Len(Envia(deInt, c, m)[c]) = Len(deInt[c]) + 1
            /\ \A d \in Cpus : d # c => Envia(deInt, c, m)[d] = deInt[d]
        BY <1>0, <3>1, AppendProperties DEF Envia
      <4> QED BY <3>1, <4>1
    <3>3. Respuestas(c)' = Respuestas(c) + 1
      BY <3>2 DEF Respuestas
    <3>4. Bandera(c) = 1 /\ Bandera(c)' = 0
      BY <2>1, <2>4 DEF Bandera
    <3>5. EnCurso(c)' <= EnCurso(c)
      BY <1>a, <1>d, <2>2, <3>3, <3>4, AvisoBandera DEF EnCurso
    <3> QED BY <1>c, <2>1, <3>2, <3>5
  <2> QED BY <2>3, <2>4
<1> QED BY <1>1, <1>2, <1>3 DEF CicloCpu

\* The interrupt thread takes the answer of the CPU and posts one confirmation.
LEMMA DesalojoInterrupt ==
  ASSUME TypeOK, TypeOK', UnDesalojo, NEW c \in Cpus, HiloInterrupt(c)
  PROVE  UnDesalojo'
<1> USE DEF procVars, admVars, cpusVars, hilosVars, aVars, deVars
<1>0. /\ deInt \in [Cpus -> Seq([p : Pids, pc : Nat])] /\ desalojado \in Nat
      /\ \A d \in Cpus : EnCurso(d) \in Nat /\ EnCurso(d)' \in Nat
      /\ Pedidos(c) \in Nat /\ Respuestas(c) \in Nat /\ Respuestas(c)' \in Nat
  BY CursoTipo, CursoTipoPrima DEF TypeOK, TiposCpu, TiposKernel
<1>1. UNCHANGED <<plan, aInt, cpu>> /\ \A d \in Cpus : d # c => intr'[d] = intr[d]
  BY DEF HiloInterrupt, SysInterrupt, DesalojadoAReady, HiloCon, HiloQueda, TypeOK, TiposHilos
<1>2. ASSUME \A d \in Cpus : d # c => deInt'[d] = deInt[d]
      PROVE  \A d \in Cpus : d # c => EnCurso(d)' = EnCurso(d)
  BY <1>1, <1>2, CursoIgual
<1>a. Pedidos(c)' = Pedidos(c) /\ Bandera(c)' = Bandera(c)
  BY <1>1 DEF Pedidos, Bandera
<1>3. CASE SysInterrupt(c)
  <2>1. /\ intr[c].en = "recibe"
        /\ deInt[c] # <<>> /\ deInt' = Recibe(deInt, c) /\ UNCHANGED desalojado
    BY <1>3 DEF SysInterrupt, TypeOK, TiposHilos
  <2>2. Len(deInt'[c]) = Len(deInt[c]) - 1 /\ \A d \in Cpus : d # c => deInt'[d] = deInt[d]
    BY <1>0, <2>1, LargoRecibe, Zenon
  <2>3. Respuestas(c)' = Respuestas(c) - 1 /\ Aviso(c) = 0
    BY <2>1, <2>2 DEF Respuestas, Aviso
  <2>4. EnCurso(c)' <= EnCurso(c)
    <3>1. Aviso(c)' <= Aviso(c) + 1
      BY <2>3, AvisoBandera
    <3>2. Pedidos(c) \in Nat /\ Respuestas(c) \in Nat /\ Respuestas(c)' \in Nat
      BY <1>0
    <3> QED BY <1>a, <2>3, <3>1, <3>2, AvisoBandera DEF EnCurso
  <2>5. \A d \in Cpus : EnCurso(d)' <= EnCurso(d)
    <3>1. \A d \in Cpus : d # c => EnCurso(d)' = EnCurso(d)
      BY <1>2, <2>2
    <3>2. \A d \in Cpus : EnCurso(d) \in Nat
      BY <1>0
    <3> HIDE DEF EnCurso
    <3> QED BY <2>4, <3>1, <3>2
  <2> QED BY <1>1, <2>1, <2>5, DesalojoIgual
<1>4. CASE DesalojadoAReady(c)
  <2>1. /\ intr[c].en = "a_ready" /\ intr'[c].en = "recibe" /\ UNCHANGED deInt
        /\ desalojado' = desalojado + 1
    BY <1>4 DEF DesalojadoAReady, HiloQueda, TypeOK, TiposHilos
  <2>2. Respuestas(c)' = Respuestas(c) /\ Aviso(c) = 1 /\ Aviso(c)' = 0
    BY <2>1 DEF Respuestas, Aviso
  <2>3. EnCurso(c)' = EnCurso(c) - 1
    BY <1>0, <1>a, <2>2, AvisoBandera DEF EnCurso
  <2>4. \A d \in Cpus : d # c => EnCurso(d)' = EnCurso(d)
    BY <1>2, <2>1
  <2> HIDE DEF EnCurso
  <2>5. plan.en = "confirma" /\ plan.c = c /\ desalojado = 0 /\ EnCurso(c) = 1
    BY <1>0, <2>3 DEF UnDesalojo
  <2>6. EnCurso(c)' = 0 /\ desalojado' = 1 /\ plan' = plan
    BY <1>1, <2>1, <2>3, <2>5
  <2>7. \A d \in Cpus : d # c => EnCurso(d) <= 0
    BY <2>5 DEF UnDesalojo
  <2>8. \A d \in Cpus : EnCurso(d)' <= 0
    BY <2>4, <2>6, <2>7
  <2> QED BY <2>5, <2>6, <2>8 DEF UnDesalojo
<1> QED BY <1>3, <1>4 DEF HiloInterrupt

\* The planner starts a preemption only when none is under way, and waits for its
\* end before the next.
LEMMA DesalojoPlanificador ==
  ASSUME TypeOK, TypeOK', UnDesalojo, Planificador
  PROVE  UnDesalojo'
<1> USE DEF procVars, admVars, cpusVars, hilosVars, aVars, deVars
<1>0. /\ \A d \in Cpus : EnCurso(d) \in Nat /\ Pedidos(d) \in Nat /\ Respuestas(d) \in Nat
      /\ aInt \in [Cpus -> Seq(Pids)] /\ desalojado \in Nat
  BY CursoTipo DEF TypeOK, TiposCpu, TiposKernel
<1>1. ASSUME UNCHANGED <<aInt, deInt, intr, cpu>>
      PROVE  \A d \in Cpus : EnCurso(d)' = EnCurso(d)
  BY <1>1, CursoIgual
<1>2. CASE CortoDespierta \/ buscar_cpu_disponible \/ ReadyAExec
  <2>1. UNCHANGED <<aInt, deInt, intr, cpu, desalojado>>
    BY <1>2 DEF CortoDespierta, buscar_cpu_disponible, ReadyAExec
  <2>2. plan.en # "confirma" /\ plan'.en # "confirma"
    <3>1. CASE CortoDespierta
      BY <3>1 DEF CortoDespierta, TypeOK, TiposHilos
    <3>2. CASE buscar_cpu_disponible
      <4>1. /\ plan.en = "busca"
            /\ \/ plan' = PlanQuieto \/ plan' = [plan EXCEPT !.en = "a_exec"]
               \/ plan' = [plan EXCEPT !.en = "desaloja"]
        BY <3>2 DEF buscar_cpu_disponible
      <4> QED BY <4>1 DEF PlanQuieto, TypeOK, TiposHilos
    <3>3. CASE ReadyAExec
      BY <3>3 DEF ReadyAExec, PlanQuieto
    <3> QED BY <1>2, <3>1, <3>2, <3>3
  <2>3. \A d \in Cpus : EnCurso(d)' = EnCurso(d)
    BY <1>1, <2>1
  <2> HIDE DEF EnCurso
  <2> QED BY <2>1, <2>2, <2>3 DEF UnDesalojo
<1>3. CASE ConfirmarDesalojo
  <2>1. /\ plan.en = "confirma" /\ plan'.en = "a_exec" /\ UNCHANGED <<aInt, deInt, intr, cpu>>
        /\ desalojado > 0 /\ desalojado' = desalojado - 1
    BY <1>3 DEF ConfirmarDesalojo, TypeOK, TiposHilos
  <2>2. \A d \in Cpus : EnCurso(d)' = EnCurso(d)
    BY <1>1, <2>1
  <2> HIDE DEF EnCurso
  <2>3. desalojado = 1 /\ \A d \in Cpus : EnCurso(d) <= 0
    BY <1>0, <2>1 DEF UnDesalojo
  <2> QED BY <1>0, <2>1, <2>2, <2>3 DEF UnDesalojo
<1>4. CASE buscar_cpu_disponible_desalojo
  <2>1. plan.en = "desaloja" /\ UNCHANGED <<deInt, intr, cpu, desalojado>>
    BY <1>4 DEF buscar_cpu_disponible_desalojo
  <2>2. desalojado = 0 /\ \A d \in Cpus : EnCurso(d) = 0
    <3> HIDE DEF EnCurso
    <3>1. desalojado <= 0 /\ \A d \in Cpus : EnCurso(d) <= 0
      BY <2>1 DEF UnDesalojo
    <3> QED BY <1>0, <3>1
  <2>3. CASE aInt' = aInt /\ plan'.en # "confirma"
    <3>1. \A d \in Cpus : EnCurso(d)' = EnCurso(d)
      BY <1>1, <2>1, <2>3
    <3> HIDE DEF EnCurso
    <3> QED BY <2>1, <2>2, <2>3, <3>1 DEF UnDesalojo
  <2>4. ASSUME NEW v, NEW q, aInt' = Envia(aInt, v, q),
               plan' = [plan EXCEPT !.en = "confirma", !.c = v]
        PROVE  UnDesalojo'
    <3>1. plan'.en = "confirma" /\ plan'.c = v /\ v \in Cpus
      BY <2>4 DEF TypeOK, TiposHilos
    <3>2. Len(aInt'[v]) = Len(aInt[v]) + 1 /\ \A d \in Cpus : d # v => aInt'[d] = aInt[d]
      BY <1>0, <2>4, <3>1, AppendProperties DEF Envia
    <3>3. /\ Pedidos(v)' = Pedidos(v) + 1 /\ Respuestas(v)' = Respuestas(v)
          /\ Aviso(v)' = Aviso(v) /\ Bandera(v)' = Bandera(v)
      BY <2>1, <3>2 DEF Pedidos, Respuestas, Aviso, Bandera
    <3>4. EnCurso(v)' = EnCurso(v) + 1
      BY <1>0, <3>1, <3>3, AvisoBandera DEF EnCurso
    <3>5. \A d \in Cpus : d # v => EnCurso(d)' = EnCurso(d)
      BY <2>1, <3>2, CursoIgual
    <3> HIDE DEF EnCurso
    <3> QED BY <2>1, <2>2, <3>1, <3>4, <3>5 DEF UnDesalojo
  <2>5. \/ aInt' = aInt /\ plan'.en # "confirma"
        \/ \E v, q : aInt' = Envia(aInt, v, q)
                     /\ plan' = [plan EXCEPT !.en = "confirma", !.c = v]
    <3> DEFINE v == Head(listaCPU')
               q == running[v]
    <3>1. \/ UNCHANGED <<plan, aInt>> \/ (plan' = PlanQuieto /\ UNCHANGED aInt)
          \/ aInt' = Envia(aInt, v, q) /\ plan' = [plan EXCEPT !.en = "confirma", !.c = v]
      BY <1>4, Zenon DEF buscar_cpu_disponible_desalojo
    <3> HIDE DEF v, q
    <3>2. CASE UNCHANGED aInt /\ (plan' = plan \/ plan' = PlanQuieto)
      <4>1. plan'.en # "confirma"
        BY <2>1, <3>2 DEF PlanQuieto
      <4> QED BY <3>2, <4>1, Zenon
    <3>3. CASE aInt' = Envia(aInt, v, q) /\ plan' = [plan EXCEPT !.en = "confirma", !.c = v]
      BY <3>3, Zenon
    <3> QED BY <3>1, <3>2, <3>3, Zenon
  <2> QED BY <2>3, <2>4, <2>5, Zenon
<1> QED BY <1>2, <1>3, <1>4 DEF Planificador

\* Every step keeps at most one preemption under way.
LEMMA DesalojoPaso ==
  ASSUME TypeOK, TypeOK', PcEnPrograma, UnDesalojo, [Next]_vars
  PROVE  UnDesalojo'
<1> USE DEF procVars, admVars, cpusVars, hilosVars, aVars, deVars
<1>1. ASSUME UNCHANGED <<aInt, deInt, intr, cpu, plan, desalojado>>
      PROVE  UnDesalojo'
  <2>1. \A c \in Cpus : EnCurso(c)' = EnCurso(c)
    BY <1>1, CursoIgual
  <2> HIDE DEF EnCurso
  <2> QED BY <1>1, <2>1 DEF UnDesalojo
<1>2. CASE UNCHANGED vars
  BY <1>1, <1>2 DEF vars
<1>3. ASSUME NEW p \in Pids, Admitir(p) \/ FinIO(p) PROVE UnDesalojo'
  BY <1>1, <1>3 DEF Admitir, FinIO
<1>4. ASSUME NEW c \in Cpus, HiloDispatch(c) PROVE UnDesalojo'
  BY <1>1, <1>4 DEF HiloDispatch, SysComienzoIO, SysExit, RecibeLlamada, LiberarPorIO,
     BloquearPorIO, agregar_a_cola_por_IO, ExitBusca, ExitLibera
<1> QED BY <1>2, <1>3, <1>4, DesalojoPlanificador, DesalojoInterrupt, DesalojoCicloCpu DEF Next

-----------------------------------------------------------------------------
(* The theorems.                                                            *)

\* The initial states satisfy the inductive invariant.
LEMMA InvInicial == Init => IInv
<1> SUFFICES ASSUME Init PROVE IInv
  OBVIOUS
<1>1. TypeOK /\ PcEnPrograma
  BY TipoInicial
<1>2. PunteroEnReady
  BY DEF Init, PlanQuieto, PunteroEnReady
<1>3. UnSoloLugar
  <2>1. IsInjective(ready)
    BY DEF Init, IsInjective
  <2>2. ASSUME NEW p \in Pids
        PROVE  \E x \in Sitios : En(x, p) /\ \A y \in Sitios \ {x} : ~En(y, p)
    <3> DEFINE a == <<"nuevos", Nadie>>
    <3>1. a \in Sitios /\ En(a, p)
      BY SitiosPartes, EnPartes DEF Init
    <3>2. ASSUME NEW y \in Sitios, y # a PROVE ~En(y, p)
      <4>1. CASE y = <<"ready", Nadie>>
        BY <4>1, EnPartes DEF Init, Range
      <4>2. ASSUME NEW g \in Grupos, y = <<g, Nadie>> PROVE ~En(y, p)
        BY <4>2, EnPartes DEF Init, Grupos
      <4>3. ASSUME NEW c \in Cpus, y = <<"disp", c>> \/ y = <<"intr", c>> PROVE ~En(y, p)
        <5>1. disp[c].en = "recibe" /\ intr[c].en = "recibe"
          BY DEF Init, HiloQuieto
        <5>2. ~En(<<"disp", c>>, p) /\ ~En(<<"intr", c>>, p)
          BY <5>1, EnMano
        <5> QED BY <4>3, <5>2, Zenon
      <4> QED BY <3>2, <4>1, <4>2, <4>3, SitiosPartes
    <3> QED BY <3>1, <3>2
  <2> QED BY <2>1, <2>2 DEF UnSoloLugar
<1>4. UnDesalojo
  <2>1. \A c \in Cpus : aInt[c] = <<>> /\ deInt[c] = <<>> /\ intr[c].en = "recibe" /\ ~cpu[c].pend
    BY DEF Init, HiloQuieto, CpuQuieta
  <2>2. ASSUME NEW c \in Cpus PROVE EnCurso(c) = 0
    <3>1. Pedidos(c) = 0 /\ Respuestas(c) = 0 /\ Aviso(c) = 0 /\ Bandera(c) = 0
      BY <2>1, EmptySeq DEF Pedidos, Respuestas, Aviso, Bandera
    <3> QED BY <3>1 DEF EnCurso
  <2> HIDE DEF EnCurso
  <2> QED BY <2>2 DEF UnDesalojo, Init, PlanQuieto
<1> QED BY <1>1, <1>2, <1>3, <1>4 DEF IInv

\* Every step keeps it.
LEMMA InvPaso == IInv /\ [Next]_vars => IInv'
<1> SUFFICES ASSUME IInv, [Next]_vars PROVE IInv'
  OBVIOUS
<1>1. TypeOK' /\ PcEnPrograma'
  BY TipoPaso DEF IInv
<1>2. UnSoloLugar' /\ PunteroEnReady'
  BY LugarPaso DEF IInv
<1>3. UnDesalojo'
  BY <1>1, DesalojoPaso DEF IInv
<1> QED BY <1>1, <1>2, <1>3 DEF IInv

\* IInv holds in every reachable state of the short-term scheduler.
THEOREM Invariante == Spec => []IInv
BY InvInicial, InvPaso, PTL DEF Spec

\* Every variable keeps its type, whatever races with what.
THEOREM Tipos == Spec => []TypeOK
<1>1. IInv => TypeOK
  BY DEF IInv
<1> QED BY <1>1, Invariante, PTL

\* No PCB is lost or filed twice, however preemptions, system calls and the ends
\* of IO cross (planificadores.c:617-700, kernel_cpu_interrupt.c:16).
THEOREM CadaUnoEnUnLugar == Spec => []UnSoloLugar
<1>1. IInv => UnSoloLugar
  BY DEF IInv
<1> QED BY <1>1, Invariante, PTL

\* A CPU never fetches past the end of a program: every pc that travels between
\* the kernel and a CPU is that of an instruction.
THEOREM NuncaPasaElFinal == Spec => []PcEnPrograma
<1>1. IInv => PcEnPrograma
  BY DEF IInv
<1> QED BY <1>1, Invariante, PTL

\* At most one preemption under way is at most one confirmation.
LEMMA AlSumoUna == IInv => UnaConfirmacion
<1> SUFFICES ASSUME IInv PROVE UnaConfirmacion
  OBVIOUS
<1> DEFINE A == {c \in Cpus : intr[c].en = "a_ready"}
<1>0. /\ desalojado \in Nat
      /\ \A d \in Cpus : EnCurso(d) \in Nat /\ Pedidos(d) \in Nat /\ Respuestas(d) \in Nat
  BY CursoTipo DEF IInv, TypeOK, TiposKernel
<1>1. \A c \in A : EnCurso(c) >= 1
  BY <1>0, AvisoBandera DEF EnCurso
<1> HIDE DEF EnCurso
<1>2. \A c \in A : plan.en = "confirma" /\ c = plan.c /\ desalojado = 0
  BY <1>0, <1>1 DEF IInv, UnDesalojo
<1>3. desalojado <= 1 /\ (desalojado = 1 => plan.en = "confirma")
  BY <1>0 DEF IInv, UnDesalojo
<1>4. CASE A = {}
  <2>1. Cardinality(A) = 0
    BY <1>4, FS_EmptySet
  <2>2. \A c \in Cpus : intr[c].en # "a_ready"
    BY <1>4
  <2> QED BY <1>0, <1>3, <2>1, <2>2 DEF UnaConfirmacion
<1>5. CASE A # {}
  <2>1. A = {plan.c}
    BY <1>2, <1>5
  <2>2. Cardinality(A) = 1
    BY <2>1, FS_Singleton
  <2>3. plan.en = "confirma" /\ desalojado = 0
    BY <1>2, <1>5
  <2> QED BY <1>2, <2>2, <2>3 DEF UnaConfirmacion
<1> QED BY <1>4, <1>5

\* One semaphore for all the CPUs is enough: there is at most one confirmation,
\* and it is of the CPU the planner waits for (kernel_manejo_cpus.c:164-170).
THEOREM UnaConfirmacionSiempre == Spec => []UnaConfirmacion
BY AlSumoUna, Invariante, PTL

-----------------------------------------------------------------------------
(* Without races.                                                            *)

\* The thread of a CPU in the kernel is in no call, or at the end of an earlier one.
Pasado(c) == disp[c].en \in {"recibe", "io_bloquea", "io_encola"}
\* Nothing of a preemption is under way.
SinCharla(c) == aInt[c] = <<>> /\ deInt[c] = <<>> /\ intr[c].en = "recibe"
\* The CPU waits for a context, or will once it has emptied its cache.
Parada(c) ==
  /\ ~cpu[c].pend /\ cpu[c].int = 0
  /\ \/ cpu[c].esp /\ cpu[c].en \in {"ciclo", "revisa"}
     \/ ~cpu[c].esp /\ cpu[c].en = "vacia"

\* A CPU with nothing to do.
Libre(c) ==
  /\ running[c] = Nadie /\ SinCharla(c) /\ aCpu[c] = <<>> /\ deCpu[c] = <<>>
  /\ Pasado(c) /\ Parada(c) /\ cpu[c].ctx = 0

\* Its context has been sent ...
Enviado(c) ==
  /\ running[c] \in Pids /\ SinCharla(c) /\ deCpu[c] = <<>>
  /\ aCpu[c] = <<[op |-> "CONTEXTO", p |-> running[c], pc |-> hecho[running[c]]]>>
  /\ Pasado(c) /\ Parada(c) /\ cpu[c].ctx = 0

\* ... and taken.
Recibido(c) ==
  /\ running[c] \in Pids /\ SinCharla(c) /\ deCpu[c] = <<>> /\ aCpu[c] = <<>>
  /\ Pasado(c) /\ Parada(c) /\ cpu[c].ctx = 1
  /\ cpu[c].pid = running[c] /\ cpu[c].pc = hecho[running[c]]

\* A system call, sent or being served.
Llama(c) ==
  /\ running[c] \in Pids /\ SinCharla(c) /\ aCpu[c] = <<>> /\ Parada(c) /\ cpu[c].ctx = 0
  /\ \/ /\ Pasado(c)
        /\ deCpu[c] # <<>> /\ deCpu[c] = <<deCpu[c][1]>>
        /\ deCpu[c][1].p = running[c]
        /\ deCpu[c][1].op = "IO" => deCpu[c][1].pc = hecho[running[c]]
     \/ /\ deCpu[c] = <<>> /\ disp[c].en \in {"io_libera", "exit_busca", "exit_libera"}
        /\ disp[c].p = running[c]
        /\ disp[c].en = "io_libera" => disp[c].pc = hecho[running[c]]

\* What the CPU has is the process of its node, at its next instruction.
Tiene(c) ==
  /\ running[c] \in Pids /\ aCpu[c] = <<>> /\ deCpu[c] = <<>> /\ Pasado(c)
  /\ ~cpu[c].esp /\ cpu[c].ctx = 0
  /\ cpu[c].pid = running[c] /\ cpu[c].pc = hecho[running[c]]

\* It executes, or has just changed process.
Corre(c) ==
  /\ Tiene(c) /\ SinCharla(c)
  /\ \/ ~cpu[c].pend /\ cpu[c].int = 0 /\ cpu[c].en \in {"ciclo", "revisa"}
     \/ cpu[c].pend /\ cpu[c].int = 1 /\ cpu[c].en = "aguarda"
     \/ cpu[c].pend /\ cpu[c].int = 0 /\ cpu[c].en = "limpia"

\* An interrupt for it has been sent, noticed or answered.
Avisado(c) ==
  /\ Tiene(c) /\ cpu[c].int = 0 /\ intr[c].en = "recibe"
  /\ desalojado = 0
  /\ \/ /\ aInt[c] = <<running[c]>> /\ deInt[c] = <<>>
        /\ ~cpu[c].pend /\ cpu[c].en \in {"ciclo", "revisa"}
     \/ /\ aInt[c] = <<>> /\ deInt[c] = <<>>
        /\ cpu[c].pend /\ cpu[c].en \in {"ciclo", "revisa"}
     \/ /\ aInt[c] = <<>> /\ deInt[c] = <<[p |-> running[c], pc |-> hecho[running[c]]]>>
        /\ cpu[c].pend /\ cpu[c].en = "aguarda"

\* It waits for the context of another.
Aguarda(c) ==
  /\ ~cpu[c].esp /\ cpu[c].ctx = 0 /\ cpu[c].int = 0 /\ cpu[c].pend /\ cpu[c].en = "aguarda"
  /\ aInt[c] = <<>> /\ deInt[c] = <<>> /\ deCpu[c] = <<>> /\ Pasado(c)

\* The kernel has taken its process from it ...
Desalojado(c) ==
  /\ Aguarda(c) /\ running[c] = Nadie /\ aCpu[c] = <<>>
  /\ \/ intr[c].en = "a_ready" /\ desalojado = 0
     \/ intr[c].en = "recibe" /\ desalojado = 1

\* ... and sent it the other.
Cambio(c) ==
  /\ Aguarda(c) /\ intr[c].en = "recibe" /\ running[c] \in Pids
  /\ aCpu[c] = <<[op |-> "CONTEXTO_INTERRUPCION", p |-> running[c], pc |-> hecho[running[c]]]>>

\* The planner waits for this CPU.
Espera(c) == plan.en = "confirma" /\ plan.c = c

Conversa(c) ==
  IF Espera(c) THEN Avisado(c) \/ Desalojado(c)
  ELSE Libre(c) \/ Enviado(c) \/ Recibido(c) \/ Llama(c) \/ Corre(c) \/ Cambio(c)

\* While the planner preempts no CPU makes a system call, and none will.
Quieta(c) ==
  /\ running[c] \in Pids \/ Espera(c)
  /\ deCpu[c] = <<>> /\ disp[c].en = "recibe" /\ aCpu[c] = <<>>
  /\ ~cpu[c].esp /\ cpu[c].en # "vacia"
  /\ Bloqueante(c) => Espera(c) /\ cpu[c].pend /\ cpu[c].en # "ciclo"

Quietas == plan.en \in {"desaloja", "confirma"} => \A c \in Cpus : Quieta(c)

\* A marked process is of one CPU, and in EXEC or on its way to it.
EnDespacho(p) == plan.en = "a_exec" /\ plan.p = p
Marcadas ==
  /\ Range(listaCPU) = Cpus
  /\ \A c, d \in Cpus : running[c] = running[d] /\ running[c] # Nadie => c = d
  /\ \A c \in Cpus : running[c] # Nadie =>
       running[c] \in lista["EXEC"] \/ EnDespacho(running[c]) \/ disp[c].en = "exit_libera"
  /\ \A c \in Cpus : disp[c].en \in {"io_libera", "exit_busca"} => disp[c].p \in lista["EXEC"]

\* A handler blocks a process of no CPU, that is still in EXEC, and queues the
\* request of one that is BLOCKED; it is BLOCKED for that or for a request.
Pedida(c, p) == disp[c].en = "io_encola" /\ disp[c].p = p
Bloqueos ==
  /\ \A c \in Cpus : disp[c].en = "io_bloquea" =>
       /\ disp[c].p \in lista["EXEC"] /\ disp[c].pc = hecho[disp[c].p]
       /\ \A d \in Cpus : running[d] # disp[c].p
       /\ \A d \in Cpus : disp[d].en = "io_bloquea" /\ disp[d].p = disp[c].p => d = c
  /\ \A p \in Pids :
       /\ enIO[p] \in {0, 1}
       /\ p \notin lista["BLOCKED"] => enIO[p] = 0 /\ \A c \in Cpus : ~Pedida(c, p)
       /\ p \in lista["BLOCKED"] => enIO[p] = 1 \/ \E c \in Cpus : Pedida(c, p)
       /\ enIO[p] = 1 => \A c \in Cpus : ~Pedida(c, p)
       /\ \A c, d \in Cpus : Pedida(c, p) /\ Pedida(d, p) => c = d

\* The PCB of a process that is neither executing nor on its way there has the
\* instruction that follows the last one executed.
EnVuelta(c, p) == intr[c].en = "a_ready" /\ intr[c].p = p
Fuera(p) ==
  \/ p \in nuevos \cup lista["BLOCKED"]
  \/ p \in Range(ready) /\ ~EnDespacho(p)
  \/ \E c \in Cpus : EnVuelta(c, p)
Guardado == \A p \in Pids : Fuera(p) => pcb[p].pc = hecho[p]

Charlas == \A c \in Cpus : Conversa(c)

AInv == Charlas /\ Quietas /\ Marcadas /\ Bloqueos /\ Guardado
\* The messages of a socket that has one, or gets one.
LEMMA UnMensaje ==
  ASSUME NEW m
  PROVE  Append(<<>>, m) = <<m>> /\ Head(<<m>>) = m /\ Tail(<<m>>) = <<>> /\ <<m>> # <<>>
OBVIOUS

\* The types the steps rest on.
TiposA ==
  /\ cpu \in [Cpus -> [en : {"ciclo", "vacia", "revisa", "aguarda", "limpia"}, pid : PidONadie,
                       pc : Nat, esp : BOOLEAN, ctx : Nat, int : Nat, pend : BOOLEAN]]
  /\ running \in [Cpus -> PidONadie] /\ hecho \in [Pids -> Nat]
  /\ Nadie \notin Pids

\* They follow from the type invariant.
LEMMA TiposAEsta == ASSUME TypeOK PROVE TiposA
BY Constantes DEF TypeOK, TiposA, TiposCpu, TiposKernel

\* The kernel's side of a CPU stays.
Igual(c) ==
  /\ running'[c] = running[c] /\ intr'[c] = intr[c] /\ disp'[c] = disp[c]
  /\ desalojado' = desalojado /\ Espera(c)' = Espera(c)

\* The four sockets of a CPU stay.
Calla(c) ==
  aInt'[c] = aInt[c] /\ deInt'[c] = deInt[c] /\ aCpu'[c] = aCpu[c] /\ deCpu'[c] = deCpu[c]

\* What others do is nothing to a CPU.
LEMMA ConversaIgual ==
  ASSUME NEW c \in Cpus, Conversa(c), running'[c] = running[c], intr'[c] = intr[c],
         disp'[c] = disp[c] \/ (Pasado(c) /\ Pasado(c)'),
         Espera(c)' = Espera(c), Espera(c) => desalojado' = desalojado, Calla(c),
         cpu'[c] = cpu[c], running[c] \in Pids => hecho'[running[c]] = hecho[running[c]]
  PROVE  Conversa(c)'
<1> USE DEF Calla
<1>1. SinCharla(c)' = SinCharla(c) /\ Parada(c)' = Parada(c) /\ Pasado(c)' = Pasado(c)
  BY DEF SinCharla, Parada, Pasado
<1>2. Tiene(c)' = Tiene(c)
  BY <1>1 DEF Tiene, Pasado
<1>3. Aguarda(c)' = Aguarda(c)
  BY <1>1 DEF Aguarda, Pasado
<1>4. CASE Espera(c)
  <2>1. CASE Avisado(c)
    <3>1. Avisado(c)'
      BY <1>2, <1>4, <2>1 DEF Avisado, Tiene
    <3> QED BY <1>4, <3>1 DEF Conversa
  <2>2. CASE Desalojado(c)
    <3>1. Desalojado(c)'
      BY <1>3, <1>4, <2>2 DEF Desalojado
    <3> QED BY <1>4, <3>1 DEF Conversa
  <2> QED BY <1>4, <2>1, <2>2 DEF Conversa
<1>5. CASE ~Espera(c)
  <2>1. Libre(c) => Libre(c)'
    BY <1>1 DEF Libre
  <2>2. Enviado(c) => Enviado(c)'
    BY <1>1 DEF Enviado
  <2>3. Recibido(c) => Recibido(c)'
    BY <1>1 DEF Recibido
  <2>4. Llama(c) => Llama(c)'
    BY <1>1 DEF Llama, Pasado
  <2>5. Corre(c) => Corre(c)'
    BY <1>1, <1>2 DEF Corre
  <2>6. Cambio(c) => Cambio(c)'
    BY <1>3 DEF Cambio
  <2>7. Libre(c) \/ Enviado(c) \/ Recibido(c) \/ Llama(c) \/ Corre(c) \/ Cambio(c)
    BY <1>5 DEF Conversa
  <2> QED BY <1>5, <2>1, <2>2, <2>3, <2>4, <2>5, <2>6, <2>7 DEF Conversa
<1> QED BY <1>4, <1>5

\* ... and it stays still if it was.
LEMMA QuietaIgual ==
  ASSUME NEW c \in Cpus, Quieta(c), running'[c] = running[c], disp'[c] = disp[c],
         deCpu'[c] = deCpu[c], aCpu'[c] = aCpu[c], cpu'[c] = cpu[c], Espera(c) => Espera(c)'
  PROVE  Quieta(c)'
BY DEF Quieta, Bloqueante

-----------------------------------------------------------------------------
(* The steps of a CPU, with no races.                                        *)

\* What each step of the cycle does to the CPU.
LEMMA Preparada ==
  ASSUME NEW c \in Cpus, TiposA, CpuEspera(c), Igual(c), Calla(c), hecho' = hecho, Conversa(c)
  PROVE  Conversa(c)' /\ ~Quieta(c)
<1>1. /\ cpu[c].en = "ciclo" /\ cpu[c].esp /\ cpu[c].ctx > 0
      /\ cpu'[c] = [cpu[c] EXCEPT !.esp = FALSE, !.ctx = @ - 1]
  BY DEF CpuEspera, TiposA
<1>2. ~Espera(c) /\ Recibido(c)
  BY <1>1 DEF Conversa, Avisado, Desalojado, Tiene, Aguarda, Libre, Enviado, Llama, Corre, Cambio
<1>3. Corre(c)'
  BY <1>1, <1>2 DEF Recibido, Corre, Tiene, Igual, Calla, SinCharla, Pasado, Parada, TiposA
<1>4. ~Quieta(c)
  BY <1>1 DEF Quieta
<1> QED BY <1>2, <1>3, <1>4 DEF Conversa, Igual

\* The flush that follows a system call, which ends waiting for a context.
LEMMA Vaciada ==
  ASSUME NEW c \in Cpus, TiposA, CpuVacia(c), Igual(c), Calla(c), hecho' = hecho, Conversa(c)
  PROVE  Conversa(c)' /\ ~Quieta(c)
<1>1. /\ cpu[c].en = "vacia"
      /\ cpu'[c] = [cpu[c] EXCEPT !.esp = TRUE, !.en = "revisa"]
  BY DEF CpuVacia, TiposA
<1>2. /\ cpu'[c].esp /\ cpu'[c].en = "revisa" /\ cpu'[c].pid = cpu[c].pid /\ cpu'[c].pc = cpu[c].pc
      /\ cpu'[c].ctx = cpu[c].ctx /\ cpu'[c].int = cpu[c].int /\ cpu'[c].pend = cpu[c].pend
  BY <1>1 DEF TiposA
<1>3. ~Espera(c) /\ (Libre(c) \/ Enviado(c) \/ Recibido(c) \/ Llama(c))
  BY <1>1 DEF Conversa, Avisado, Desalojado, Tiene, Aguarda, Corre, Cambio
<1>4. Parada(c)'
  <2>1. Parada(c)
    BY <1>3 DEF Libre, Enviado, Recibido, Llama
  <2> QED BY <1>2, <2>1 DEF Parada
<1>5. Libre(c)' \/ Enviado(c)' \/ Recibido(c)' \/ Llama(c)'
  <2>1. SinCharla(c)' = SinCharla(c) /\ Pasado(c)' = Pasado(c)
    BY DEF SinCharla, Pasado, Igual, Calla
  <2>2. CASE Libre(c)
    BY <1>2, <1>4, <2>1, <2>2 DEF Libre, Igual, Calla
  <2>3. CASE Enviado(c)
    BY <1>2, <1>4, <2>1, <2>3 DEF Enviado, Igual, Calla
  <2>4. CASE Recibido(c)
    BY <1>2, <1>4, <2>1, <2>4 DEF Recibido, Igual, Calla
  <2>5. CASE Llama(c)
    BY <1>2, <1>4, <2>1, <2>5 DEF Llama, Igual, Calla
  <2> QED BY <1>3, <2>2, <2>3, <2>4, <2>5
<1>6. ~Quieta(c)
  BY <1>1 DEF Quieta
<1> QED BY <1>3, <1>5, <1>6 DEF Conversa, Igual

\* The look at the flag: with it raised, the CPU answers with its process and its
\* pc, and waits.
LEMMA Revisada ==
  ASSUME NEW c \in Cpus, TiposA, check_interrupt(c), Igual(c), aInt' = aInt, aCpu' = aCpu,
         deCpu' = deCpu, deInt[c] \in Seq([p : Pids, pc : Nat]), DOMAIN deInt = Cpus,
         hecho' = hecho, Conversa(c)
  PROVE  Conversa(c)' /\ (Quieta(c) => Quieta(c)')
<1>1. /\ cpu[c].en = "revisa"
      /\ cpu'[c] = [cpu[c] EXCEPT !.en = IF cpu[c].pend THEN "aguarda" ELSE "ciclo"]
  BY DEF check_interrupt, TiposA
<1>2. /\ cpu'[c].en = IF cpu[c].pend THEN "aguarda" ELSE "ciclo"
      /\ cpu'[c].esp = cpu[c].esp /\ cpu'[c].pid = cpu[c].pid /\ cpu'[c].pc = cpu[c].pc
      /\ cpu'[c].ctx = cpu[c].ctx /\ cpu'[c].int = cpu[c].int /\ cpu'[c].pend = cpu[c].pend
  BY <1>1 DEF TiposA
<1>q. Quieta(c) => Quieta(c)'
  <2>1. Bloqueante(c)' = Bloqueante(c)
    BY <1>2 DEF Bloqueante
  <2> QED BY <1>1, <1>2, <2>1 DEF Quieta, Igual
<1>3. CASE ~cpu[c].pend
  <2>1. cpu'[c].en = "ciclo" /\ deInt'[c] = deInt[c]
    BY <1>2, <1>3 DEF check_interrupt
  <2>2. SinCharla(c)' = SinCharla(c) /\ Pasado(c)' = Pasado(c)
    BY <2>1 DEF SinCharla, Pasado, Igual
  <2>3. CASE Espera(c)
    <3>1. Avisado(c)
      BY <1>1, <2>3 DEF Conversa, Desalojado, Aguarda
    <3>2. Tiene(c)'
      BY <1>2, <2>1, <2>2, <3>1 DEF Avisado, Tiene, Igual
    <3>3. Avisado(c)'
      BY <1>1, <1>2, <1>3, <2>1, <3>1, <3>2 DEF Avisado, Igual
    <3> QED BY <1>q, <2>3, <3>3 DEF Conversa, Igual
  <2>4. CASE ~Espera(c)
    <3>1. Libre(c) \/ Enviado(c) \/ Recibido(c) \/ Llama(c) \/ Corre(c)
      BY <1>1, <2>4 DEF Conversa, Cambio, Aguarda
    <3>2. Parada(c) => Parada(c)'
      BY <1>1, <1>2, <2>1 DEF Parada
    <3>3. Libre(c) => Libre(c)'
      BY <1>2, <2>1, <2>2, <3>2 DEF Libre, Igual
    <3>4. Enviado(c) => Enviado(c)'
      BY <1>2, <2>1, <2>2, <3>2 DEF Enviado, Igual
    <3>5. Recibido(c) => Recibido(c)'
      BY <1>2, <2>1, <2>2, <3>2 DEF Recibido, Igual
    <3>6. Llama(c) => Llama(c)'
      BY <1>2, <2>1, <2>2, <3>2 DEF Llama, Igual
    <3>7. Corre(c) => Corre(c)'
      <4>1. Tiene(c) => Tiene(c)'
        BY <1>2, <2>1, <2>2 DEF Tiene, Igual
      <4> QED BY <1>1, <1>2, <1>3, <2>1, <2>2, <4>1 DEF Corre
    <3> QED BY <1>q, <2>4, <3>1, <3>3, <3>4, <3>5, <3>6, <3>7 DEF Conversa, Igual
  <2> QED BY <2>3, <2>4
<1>4. CASE cpu[c].pend
  <2>1. Espera(c) /\ Avisado(c)
    BY <1>1, <1>4 DEF Conversa, Libre, Enviado, Recibido, Llama, Corre, Cambio, Parada,
       Desalojado, Aguarda
  <2>2. aInt[c] = <<>> /\ deInt[c] = <<>> /\ Tiene(c)
    BY <1>1, <1>4, <2>1 DEF Avisado
  <2>3. deInt'[c] = <<[p |-> cpu[c].pid, pc |-> cpu[c].pc]>>
    BY <1>4, <2>2, UnMensaje DEF check_interrupt, Envia
  <2>4. Tiene(c)'
    BY <1>2, <2>2 DEF Tiene, Igual, Pasado
  <2>5. Avisado(c)'
    BY <1>2, <1>4, <2>1, <2>2, <2>3, <2>4 DEF Avisado, Tiene, Igual
  <2> QED BY <1>q, <2>1, <2>5 DEF Conversa, Igual
<1> QED BY <1>3, <1>4

\* The wait for the other context ends.
LEMMA Aguardada ==
  ASSUME NEW c \in Cpus, TiposA, CpuAguarda(c), Igual(c), Calla(c), hecho' = hecho, Conversa(c)
  PROVE  Conversa(c)' /\ (Quieta(c) => Quieta(c)')
<1>1. /\ cpu[c].en = "aguarda" /\ cpu[c].int > 0
      /\ cpu'[c] = [cpu[c] EXCEPT !.int = @ - 1, !.en = "limpia"]
  BY DEF CpuAguarda, TiposA
<1>2. /\ cpu'[c].en = "limpia" /\ cpu'[c].int = cpu[c].int - 1
      /\ cpu'[c].esp = cpu[c].esp /\ cpu'[c].pid = cpu[c].pid /\ cpu'[c].pc = cpu[c].pc
      /\ cpu'[c].ctx = cpu[c].ctx /\ cpu'[c].pend = cpu[c].pend
  BY <1>1 DEF TiposA
<1>3. ~Espera(c) /\ Corre(c)
  BY <1>1 DEF Conversa, Avisado, Desalojado, Aguarda, Libre, Enviado, Recibido, Llama, Cambio, Parada
<1>4. cpu[c].int = 1 /\ cpu[c].pend
  BY <1>1, <1>3 DEF Corre
<1>5. Corre(c)'
  BY <1>2, <1>3, <1>4 DEF Corre, Tiene, Igual, Calla, SinCharla, Pasado
<1>6. Quieta(c) => Quieta(c)'
  <2>1. Bloqueante(c)' = Bloqueante(c)
    BY <1>2 DEF Bloqueante
  <2> QED BY <1>2, <1>3, <2>1 DEF Quieta, Igual, Calla
<1> QED BY <1>3, <1>5, <1>6 DEF Conversa, Igual

\* The flag is cleared, and the CPU goes on with the process it was given.
LEMMA Limpiada ==
  ASSUME NEW c \in Cpus, TiposA, CpuLimpia(c), Igual(c), Calla(c), hecho' = hecho, Conversa(c)
  PROVE  Conversa(c)' /\ (Quieta(c) => Quieta(c)')
<1>1. /\ cpu[c].en = "limpia"
      /\ cpu'[c] = [cpu[c] EXCEPT !.pend = FALSE, !.en = "ciclo"]
  BY DEF CpuLimpia, TiposA
<1>2. /\ cpu'[c].en = "ciclo" /\ cpu'[c].int = cpu[c].int
      /\ cpu'[c].esp = cpu[c].esp /\ cpu'[c].pid = cpu[c].pid /\ cpu'[c].pc = cpu[c].pc
      /\ cpu'[c].ctx = cpu[c].ctx /\ ~cpu'[c].pend
  BY <1>1 DEF TiposA
<1>3. ~Espera(c) /\ Corre(c)
  BY <1>1 DEF Conversa, Avisado, Desalojado, Aguarda, Libre, Enviado, Recibido, Llama, Cambio, Parada
<1>4. cpu[c].int = 0
  BY <1>1, <1>3 DEF Corre
<1>5. Corre(c)'
  BY <1>2, <1>3, <1>4 DEF Corre, Tiene, Igual, Calla, SinCharla, Pasado
<1>6. Quieta(c) => Quieta(c)'
  <2>1. Bloqueante(c)' = Bloqueante(c)
    BY <1>2 DEF Bloqueante
  <2> QED BY <1>2, <1>3, <2>1 DEF Quieta, Igual, Calla
<1> QED BY <1>3, <1>5, <1>6 DEF Conversa, Igual

\* A context arrives: the CPU has the process of its node, at its next instruction.
LEMMA Contextuada ==
  ASSUME NEW c \in Cpus, TiposA, RecibeContexto(c), Igual(c), aInt' = aInt, deInt' = deInt,
         deCpu' = deCpu, DOMAIN aCpu = Cpus, hecho' = hecho, Conversa(c)
  PROVE  Conversa(c)' /\ ~Quieta(c)
<1>1. aCpu[c] # <<>> /\ aCpu'[c] = Tail(aCpu[c])
  BY DEF RecibeContexto, Recibe
<1>2. ~Espera(c) /\ (Enviado(c) \/ Cambio(c))
  BY <1>1 DEF Conversa, Avisado, Desalojado, Tiene, Libre, Recibido, Llama, Corre
<1>3. PICK op : aCpu[c] = <<[op |-> op, p |-> running[c], pc |-> hecho[running[c]]]>>
  BY <1>2 DEF Enviado, Cambio
<1>4. /\ Head(aCpu[c]) = [op |-> op, p |-> running[c], pc |-> hecho[running[c]]]
      /\ aCpu'[c] = <<>>
  BY <1>1, <1>3, UnMensaje
<1>5. /\ cpu'[c].pid = running[c] /\ cpu'[c].pc = hecho[running[c]]
      /\ cpu'[c].ctx = IF op = "CONTEXTO" \/ cpu[c].esp THEN cpu[c].ctx + 1 ELSE cpu[c].ctx
      /\ cpu'[c].int = IF op = "CONTEXTO" THEN cpu[c].int ELSE cpu[c].int + 1
      /\ cpu'[c].esp = cpu[c].esp /\ cpu'[c].en = cpu[c].en /\ cpu'[c].pend = cpu[c].pend
  BY <1>4 DEF RecibeContexto, TiposA
<1>6. SinCharla(c)' = SinCharla(c) /\ Pasado(c)' = Pasado(c)
  BY DEF SinCharla, Pasado, Igual
<1>7. ASSUME Enviado(c) PROVE Recibido(c)'
  <2>1. op = "CONTEXTO"
    <3>1. [op |-> op, p |-> running[c], pc |-> hecho[running[c]]]
          = [op |-> "CONTEXTO", p |-> running[c], pc |-> hecho[running[c]]]
      BY <1>3, <1>7, UnMensaje DEF Enviado
    <3> QED BY <3>1
  <2>2. Parada(c)' /\ cpu'[c].ctx = 1
    BY <1>5, <1>7, <2>1 DEF Enviado, Parada
  <2> QED BY <1>4, <1>5, <1>6, <1>7, <2>2 DEF Enviado, Recibido, Igual
<1>8. ASSUME Cambio(c) PROVE Corre(c)'
  <2>1. op = "CONTEXTO_INTERRUPCION"
    <3>1. [op |-> op, p |-> running[c], pc |-> hecho[running[c]]]
          = [op |-> "CONTEXTO_INTERRUPCION", p |-> running[c], pc |-> hecho[running[c]]]
      BY <1>3, <1>8, UnMensaje DEF Cambio
    <3> QED BY <3>1
  <2>2. cpu'[c].int = 1 /\ cpu'[c].ctx = 0
    BY <1>5, <1>8, <2>1 DEF Cambio, Aguarda
  <2>3. Tiene(c)'
    BY <1>4, <1>5, <1>6, <1>8, <2>2 DEF Cambio, Aguarda, Tiene, Igual
  <2> QED BY <1>5, <1>6, <1>8, <2>2, <2>3 DEF Cambio, Aguarda, Corre, SinCharla
<1> QED BY <1>1, <1>2, <1>7, <1>8 DEF Conversa, Igual, Quieta

\* An interrupt arrives, and it is for the process that executes.
LEMMA Interrumpida ==
  ASSUME NEW c \in Cpus, TiposA, RecibeInterrupt(c), Igual(c), aCpu' = aCpu, deInt' = deInt,
         deCpu' = deCpu, DOMAIN aInt = Cpus, hecho' = hecho, Conversa(c)
  PROVE  Conversa(c)' /\ (Quieta(c) => Quieta(c)')
<1>1. /\ aInt[c] # <<>> /\ aInt'[c] = Tail(aInt[c])
      /\ cpu'[c] = [cpu[c] EXCEPT !.pend = @ \/ Head(aInt[c]) = cpu[c].pid]
  BY DEF RecibeInterrupt, Recibe, TiposA
<1>2. Espera(c) /\ Avisado(c)
  BY <1>1 DEF Conversa, Libre, Enviado, Recibido, Llama, Corre, Cambio, Aguarda, Desalojado, SinCharla
<1>3. aInt[c] = <<running[c]>> /\ running[c] = cpu[c].pid
  BY <1>1, <1>2 DEF Avisado, Tiene
<1>4. Head(aInt[c]) = cpu[c].pid /\ aInt'[c] = <<>>
  BY <1>1, <1>3, UnMensaje
<1>x. (cpu[c].pend \/ Head(aInt[c]) = cpu[c].pid) = TRUE
  BY <1>4
<1>y. cpu'[c] = [cpu[c] EXCEPT !.pend = TRUE]
  BY <1>1, <1>x
<1>5. /\ cpu'[c].pend /\ cpu'[c].en = cpu[c].en /\ cpu'[c].int = cpu[c].int
      /\ cpu'[c].esp = cpu[c].esp /\ cpu'[c].pid = cpu[c].pid /\ cpu'[c].pc = cpu[c].pc
      /\ cpu'[c].ctx = cpu[c].ctx
  BY <1>y DEF TiposA
<1>6. ~cpu[c].pend /\ deInt[c] = <<>> /\ cpu[c].en \in {"ciclo", "revisa"}
  BY <1>1, <1>2 DEF Avisado
<1>7. Tiene(c)'
  BY <1>2, <1>5 DEF Avisado, Tiene, Igual, Pasado
<1>8. Avisado(c)'
  BY <1>2, <1>4, <1>5, <1>6, <1>7 DEF Avisado, Igual
<1>9. Quieta(c) => Quieta(c)'
  <2>1. Bloqueante(c)' = Bloqueante(c)
    BY <1>5 DEF Bloqueante
  <2> QED BY <1>5, <1>6, <2>1 DEF Quieta, Igual
<1> QED BY <1>2, <1>8, <1>9 DEF Conversa, Igual

\* An instruction: one more is done of the process of the node, and a system call
\* takes its pc to the kernel. While the planner preempts it is none.
LEMMA Ejecutada ==
  ASSUME NEW c \in Cpus, TiposA, CpuEjecuta(c), Igual(c), aCpu' = aCpu, deInt' = deInt,
         aInt' = aInt, DOMAIN deCpu = Cpus, Conversa(c), Carreras = {}, plan' = plan,
         plan.en \in {"desaloja", "confirma"} => Quieta(c)
  PROVE  /\ Conversa(c)' /\ (plan.en \in {"desaloja", "confirma"} => Quieta(c)')
         /\ running[c] \in Pids /\ Pasado(c)
         /\ hecho' = [hecho EXCEPT ![running[c]] = @ + 1]
<1>1. cpu[c].en = "ciclo" /\ ~cpu[c].esp
  BY DEF CpuEjecuta
<1>2. Tiene(c) /\ (Avisado(c) \/ Corre(c))
  BY <1>1 DEF Conversa, Libre, Enviado, Recibido, Llama, Cambio, Aguarda, Desalojado, Parada,
     Avisado, Corre
<1>3. /\ running[c] \in Pids /\ cpu[c].pid = running[c] /\ cpu[c].pc = hecho[running[c]]
      /\ aCpu[c] = <<>> /\ deCpu[c] = <<>> /\ Pasado(c) /\ cpu[c].ctx = 0
  BY <1>2 DEF Tiene
<1>4. PICK i : i = Programa[running[c]][cpu[c].pc + 1]
  OBVIOUS
<1>5. PICK sig : sig = IF i = "EXIT" THEN cpu[c].pc ELSE cpu[c].pc + 1
  OBVIOUS
<1>6. /\ hecho' = [hecho EXCEPT ![running[c]] = @ + 1]
      /\ cpu' = [cpu EXCEPT ![c].pc = sig, ![c].en = IF i = "NOOP" THEN "revisa" ELSE "vacia"]
      /\ deCpu' = IF i = "NOOP" THEN deCpu
                  ELSE Envia(deCpu, c, [op |-> i, p |-> running[c], pc |-> sig])
  BY <1>3, <1>4, <1>5 DEF CpuEjecuta
<1>7. /\ cpu'[c].pc = sig /\ cpu'[c].en = IF i = "NOOP" THEN "revisa" ELSE "vacia"
      /\ cpu'[c].esp = cpu[c].esp /\ cpu'[c].pid = cpu[c].pid /\ cpu'[c].int = cpu[c].int
      /\ cpu'[c].ctx = cpu[c].ctx /\ cpu'[c].pend = cpu[c].pend
      /\ hecho'[running[c]] = hecho[running[c]] + 1
  BY <1>3, <1>6 DEF TiposA
<1>8. Bloqueante(c) <=> i # "NOOP"
  BY <1>3, <1>4 DEF Bloqueante, TiposA
<1>9. cpu[c].pend \/ plan.en \notin {"desaloja", "confirma"}
  BY DEF CpuEjecuta, Sereno
<1>10. i # "NOOP" => ~Quieta(c) /\ plan.en \notin {"desaloja", "confirma"}
  BY <1>1, <1>8 DEF Quieta
<1>a. SinCharla(c)' = SinCharla(c) /\ Pasado(c)'
  BY <1>3 DEF SinCharla, Pasado, Igual
<1>11. CASE i = "NOOP"
  <2>1. sig = cpu[c].pc + 1 /\ deCpu'[c] = <<>>
    BY <1>3, <1>5, <1>6, <1>11
  <2>2. Tiene(c)'
    BY <1>1, <1>3, <1>7, <1>a, <2>1 DEF Tiene, Igual
  <2>3. CASE Espera(c)
    <3>1. Avisado(c)
      BY <1>1, <2>3 DEF Conversa, Desalojado, Aguarda
    <3>2. cpu[c].pend
      BY <1>9, <2>3 DEF Espera
    <3>3. aInt[c] = <<>> /\ deInt[c] = <<>>
      BY <1>1, <3>1, <3>2 DEF Avisado
    <3>4. Avisado(c)'
      BY <1>7, <1>11, <2>2, <3>1, <3>2, <3>3 DEF Avisado, Igual
    <3>5. Quieta(c)'
      BY <1>1, <1>3, <1>7, <1>11, <2>1, <2>3, <3>2 DEF Quieta, Espera, Igual
    <3> QED BY <1>3, <1>6, <2>3, <3>4, <3>5 DEF Conversa, Igual
  <2>4. CASE ~Espera(c)
    <3>1. Corre(c)
      BY <1>1, <2>4 DEF Conversa, Libre, Enviado, Recibido, Llama, Cambio, Aguarda, Parada
    <3>2. ~cpu[c].pend /\ cpu[c].int = 0 /\ SinCharla(c)
      BY <1>1, <3>1 DEF Corre
    <3>3. Corre(c)'
      BY <1>7, <1>11, <1>a, <2>2, <3>2 DEF Corre
    <3>4. plan.en \notin {"desaloja", "confirma"}
      BY <1>9, <3>2
    <3> QED BY <1>3, <1>6, <2>4, <3>3, <3>4 DEF Conversa, Igual
  <2> QED BY <2>3, <2>4
<1>12. CASE i # "NOOP"
  <2>1. plan.en \notin {"desaloja", "confirma"}
    BY <1>10, <1>12
  <2>2. ~Espera(c) /\ Corre(c)
    BY <1>1, <2>1 DEF Espera, Conversa, Libre, Enviado, Recibido, Llama, Cambio, Aguarda, Parada
  <2>3. ~cpu[c].pend /\ cpu[c].int = 0 /\ SinCharla(c)
    BY <1>1, <2>2 DEF Corre
  <2>4. PICK m : m = [op |-> i, p |-> running[c], pc |-> sig]
    OBVIOUS
  <2>5. deCpu'[c] = <<m>> /\ deCpu'[c] # <<>> /\ deCpu'[c][1] = m
    BY <1>3, <1>6, <1>12, <2>4, UnMensaje DEF Envia
  <2>6. m.p = running[c] /\ (m.op = "IO" => m.pc = hecho'[running[c]])
    BY <1>3, <1>5, <1>7, <2>4 DEF TiposA
  <2>7. Parada(c)'
    BY <1>1, <1>7, <1>12, <2>3 DEF Parada
  <2>8. Llama(c)'
    BY <1>3, <1>7, <1>a, <2>3, <2>5, <2>6, <2>7 DEF Llama, Igual
  <2> QED BY <1>3, <1>6, <1>10, <1>12, <2>2, <2>8 DEF Conversa, Igual
<1> QED BY <1>11, <1>12

-----------------------------------------------------------------------------
(* Where the processes are, with no races.                                   *)

\* What UnSoloLugar says of each place.
EnSalida(c, p) == disp[c].en = "exit_libera" /\ disp[c].p = p
EnManos(p) == \E c \in Cpus : EnSalida(c, p) \/ EnVuelta(c, p)
Apartado(p) ==
  /\ p \in nuevos => p \notin Range(ready) /\ ~EnManos(p) /\ \A g \in Grupos : p \notin lista[g]
  /\ p \in Range(ready) => p \notin nuevos /\ ~EnManos(p) /\ \A g \in Grupos : p \notin lista[g]
  /\ \A g \in Grupos : p \in lista[g] =>
       p \notin nuevos /\ p \notin Range(ready) /\ ~EnManos(p)
         /\ \A h \in Grupos \ {g} : p \notin lista[h]

\* A process in nuevos, in READY or in a list is nowhere else.
LEMMA ApartadoEsta ==
  ASSUME UnSoloLugar, NEW p \in Pids
  PROVE  Apartado(p)
<1>1. \A x, y \in Sitios : En(x, p) /\ En(y, p) => x = y
  BY DEF UnSoloLugar
<1>2. ASSUME EnManos(p)
      PROVE  \E x \in Sitios : /\ En(x, p) /\ x # <<"nuevos", Nadie>> /\ x # <<"ready", Nadie>>
                               /\ \A g \in Grupos : x # <<g, Nadie>>
  <2>1. PICK c \in Cpus : EnSalida(c, p) \/ EnVuelta(c, p)
    BY <1>2 DEF EnManos
  <2>2. En(<<"disp", c>>, p) \/ En(<<"intr", c>>, p)
    BY <2>1, EnMano DEF EnSalida, EnVuelta
  <2>3. /\ <<"disp", c>> \in Sitios /\ <<"intr", c>> \in Sitios
        /\ c # Nadie
    BY SitiosPartes, Constantes
  <2>4. \A k : <<"disp", c>> # <<k, Nadie>> /\ <<"intr", c>> # <<k, Nadie>>
    BY <2>3
  <2> QED BY <2>2, <2>3, <2>4
<1>3. (En(<<"nuevos", Nadie>>, p) <=> p \in nuevos) /\ (En(<<"ready", Nadie>>, p) <=> p \in Range(ready))
  BY EnPartes, Zenon
<1>4. \A g \in Grupos : En(<<g, Nadie>>, p) <=> p \in lista[g]
  BY EnPartes, Zenon
<1>5. /\ <<"nuevos", Nadie>> # <<"ready", Nadie>>
      /\ \A g \in Grupos : <<"nuevos", Nadie>> # <<g, Nadie>> /\ <<"ready", Nadie>> # <<g, Nadie>>
      /\ \A g, h \in Grupos : <<g, Nadie>> = <<h, Nadie>> => g = h
  BY DEF Grupos
<1>6. /\ <<"nuevos", Nadie>> \in Sitios /\ <<"ready", Nadie>> \in Sitios
      /\ \A g \in Grupos : <<g, Nadie>> \in Sitios
  BY SitiosPartes, Zenon
<1>7. ASSUME p \in nuevos
      PROVE  p \notin Range(ready) /\ ~EnManos(p) /\ \A g \in Grupos : p \notin lista[g]
  BY <1>1, <1>2, <1>3, <1>4, <1>5, <1>6, <1>7, Zenon
<1>8. ASSUME p \in Range(ready)
      PROVE  p \notin nuevos /\ ~EnManos(p) /\ \A g \in Grupos : p \notin lista[g]
  BY <1>1, <1>2, <1>3, <1>4, <1>5, <1>6, <1>8, Zenon
<1>9. ASSUME NEW g \in Grupos, p \in lista[g]
      PROVE  /\ p \notin nuevos /\ p \notin Range(ready) /\ ~EnManos(p)
             /\ \A h \in Grupos \ {g} : p \notin lista[h]
  <2>1. p \notin nuevos /\ p \notin Range(ready)
    BY <1>7, <1>8, <1>9, Zenon
  <2>2. ~EnManos(p)
    BY <1>1, <1>2, <1>4, <1>6, <1>9, Zenon
  <2>3. ASSUME NEW h \in Grupos, h # g PROVE p \notin lista[h]
    BY <1>1, <1>4, <1>5, <1>6, <1>9, <2>3, Zenon
  <2> QED BY <2>1, <2>2, <2>3
<1> QED BY <1>7, <1>8, <1>9 DEF Apartado

\* The process of a node is not where its PCB has to be up to date.
LEMMA CorriendoDentro ==
  ASSUME UnSoloLugar, PunteroEnReady, Marcadas, NEW c \in Cpus, running[c] \in Pids, Nadie \notin Pids,
         Llama(c) \/ Pasado(c)
  PROVE  ~Fuera(running[c])
<1>1. Apartado(running[c])
  BY ApartadoEsta
<1>2. \/ running[c] \in lista["EXEC"] \/ EnDespacho(running[c])
      \/ EnSalida(c, running[c])
  <2>1. disp[c].en = "exit_libera" => EnSalida(c, running[c])
    BY DEF Llama, Pasado, EnSalida
  <2> QED BY <2>1 DEF Marcadas
<1>3. "EXEC" \in Grupos /\ "BLOCKED" \in Grupos /\ "EXEC" # "BLOCKED"
  BY DEF Grupos
<1>4. CASE running[c] \in lista["EXEC"]
  BY <1>1, <1>3, <1>4 DEF Fuera, Apartado, EnManos
<1>5. CASE EnDespacho(running[c])
  <2>1. running[c] \in Range(ready)
    BY <1>5 DEF EnDespacho, PunteroEnReady
  <2> QED BY <1>1, <1>3, <1>5, <2>1 DEF Fuera, Apartado, EnManos
<1>6. CASE EnSalida(c, running[c])
  <2>1. EnManos(running[c])
    BY <1>6 DEF EnManos
  <2>2. running[c] \notin nuevos /\ running[c] \notin Range(ready) /\ running[c] \notin lista["BLOCKED"]
    BY <1>1, <1>3, <2>1 DEF Apartado
  <2>3. CASE \E d \in Cpus : EnVuelta(d, running[c])
    <3>1. PICK d \in Cpus : EnVuelta(d, running[c])
      BY <2>3
    <3>2. En(<<"intr", d>>, running[c]) /\ En(<<"disp", c>>, running[c])
      BY <1>6, <3>1, EnMano DEF EnVuelta, EnSalida
    <3>3. <<"intr", d>> \in Sitios /\ <<"disp", c>> \in Sitios /\ <<"intr", d>> # <<"disp", c>>
      BY SitiosPartes
    <3> QED BY <3>2, <3>3 DEF UnSoloLugar
  <2> QED BY <2>2, <2>3 DEF Fuera
<1> QED BY <1>2, <1>4, <1>5, <1>6

-----------------------------------------------------------------------------
(* A step of a CPU keeps it all.                                             *)

\* A step of one CPU, and what it tells the kernel.
PasoCpu(c) ==
  /\ UNCHANGED <<procVars, plan, cpusVars, desalojado, caido, hilosVars, enIO>>
  /\ \A d \in Cpus : d # c => Calla(d) /\ cpu'[d] = cpu[d]
  /\ Conversa(c)'
  /\ plan.en \in {"desaloja", "confirma"} => Quieta(c)'
  /\ hecho' = hecho \/ (running[c] \in Pids /\ Pasado(c) /\ hecho' = [hecho EXCEPT ![running[c]] = @ + 1])

\* Every step of the cycle and of the listening threads is one.
LEMMA PasoCpuEsta ==
  ASSUME Carreras = {}, TypeOK, Charlas, Quietas, NEW c \in Cpus,
         CicloCpu(c) \/ RecibeContexto(c) \/ RecibeInterrupt(c)
  PROVE  PasoCpu(c)
<1>0. TiposA /\ Conversa(c) /\ (plan.en \in {"desaloja", "confirma"} => Quieta(c))
  BY TiposAEsta DEF Charlas, Quietas
<1>1. /\ DOMAIN aCpu = Cpus /\ DOMAIN aInt = Cpus /\ DOMAIN deCpu = Cpus /\ DOMAIN deInt = Cpus
      /\ deInt[c] \in Seq([p : Pids, pc : Nat]) /\ DOMAIN cpu = Cpus
  BY DEF TypeOK, TiposCpu
<1>2. UNCHANGED <<procVars, plan, cpusVars, desalojado, caido, hilosVars, enIO>>
  BY DEF CicloCpu, CpuEspera, CpuEjecuta, CpuVacia, check_interrupt, CpuAguarda, CpuLimpia,
     RecibeContexto, RecibeInterrupt
<1>3. Igual(c)
  BY <1>2 DEF Igual, Espera, cpusVars, hilosVars
<1>4. ASSUME NEW d \in Cpus, d # c PROVE Calla(d) /\ cpu'[d] = cpu[d]
  BY <1>1, <1>4 DEF Calla, aVars, deVars, CicloCpu, CpuEspera, CpuEjecuta, CpuVacia, check_interrupt,
     CpuAguarda, CpuLimpia, RecibeContexto, RecibeInterrupt, Envia, Recibe
<1> USE DEF aVars, deVars
<1>5. CASE CpuEspera(c)
  <2>1. Calla(c) /\ hecho' = hecho
    BY <1>5 DEF CpuEspera, Calla
  <2> QED BY <1>0, <1>2, <1>3, <1>4, <1>5, <2>1, Preparada DEF PasoCpu
<1>6. CASE CpuVacia(c)
  <2>1. Calla(c) /\ hecho' = hecho
    BY <1>6 DEF CpuVacia, Calla
  <2> QED BY <1>0, <1>2, <1>3, <1>4, <1>6, <2>1, Vaciada DEF PasoCpu
<1>7. CASE check_interrupt(c)
  <2>1. UNCHANGED <<aInt, aCpu, deCpu, hecho>>
    BY <1>7 DEF check_interrupt
  <2> QED BY <1>0, <1>1, <1>2, <1>3, <1>4, <1>7, <2>1, Revisada DEF PasoCpu
<1>8. CASE CpuAguarda(c)
  <2>1. Calla(c) /\ hecho' = hecho
    BY <1>8 DEF CpuAguarda, Calla
  <2> QED BY <1>0, <1>2, <1>3, <1>4, <1>8, <2>1, Aguardada DEF PasoCpu
<1>9. CASE CpuLimpia(c)
  <2>1. Calla(c) /\ hecho' = hecho
    BY <1>9 DEF CpuLimpia, Calla
  <2> QED BY <1>0, <1>2, <1>3, <1>4, <1>9, <2>1, Limpiada DEF PasoCpu
<1>10. CASE RecibeContexto(c)
  <2>1. UNCHANGED <<aInt, deInt, deCpu, hecho>>
    BY <1>10 DEF RecibeContexto
  <2> QED BY <1>0, <1>1, <1>2, <1>3, <1>4, <1>10, <2>1, Contextuada DEF PasoCpu
<1>11. CASE RecibeInterrupt(c)
  <2>1. UNCHANGED <<aCpu, deInt, deCpu, hecho>>
    BY <1>11 DEF RecibeInterrupt
  <2> QED BY <1>0, <1>1, <1>2, <1>3, <1>4, <1>11, <2>1, Interrumpida DEF PasoCpu
<1>12. CASE CpuEjecuta(c)
  <2>1. UNCHANGED <<aCpu, deInt, aInt, plan>>
    BY <1>12 DEF CpuEjecuta
  <2> QED BY <1>0, <1>1, <1>2, <1>3, <1>4, <1>12, <2>1, Ejecutada DEF PasoCpu
<1> QED BY <1>5, <1>6, <1>7, <1>8, <1>9, <1>10, <1>11, <1>12 DEF CicloCpu

\* A step of a CPU keeps the invariant.
LEMMA ACpu ==
  ASSUME Carreras = {}, IInv, AInv, NEW c \in Cpus,
         CicloCpu(c) \/ RecibeContexto(c) \/ RecibeInterrupt(c)
  PROVE  AInv'
<1>0. /\ PasoCpu(c) /\ TiposA /\ UnSoloLugar /\ PunteroEnReady
      /\ Charlas /\ Quietas /\ Marcadas /\ Bloqueos /\ Guardado
  BY PasoCpuEsta, TiposAEsta DEF IInv, AInv
<1>1. UNCHANGED <<nuevos, ready, lista, pcb, plan, listaCPU, running, desalojado, disp, intr, enIO>>
  BY <1>0 DEF PasoCpu, procVars, admVars, cpusVars, hilosVars
<1>2. \A p \in Pids : hecho'[p] = hecho[p] \/ (p = running[c] /\ running[c] \in Pids /\ Pasado(c))
  BY <1>0 DEF PasoCpu, TiposA
<1>3. Charlas'
  <2>1. ASSUME NEW d \in Cpus, d # c PROVE Conversa(d)'
    <3>1. Conversa(d) /\ Calla(d) /\ cpu'[d] = cpu[d]
      BY <1>0, <2>1 DEF Charlas, PasoCpu
    <3>2. running[d] \in Pids => hecho'[running[d]] = hecho[running[d]]
      BY <1>0, <1>2, <2>1 DEF Marcadas, TiposA
    <3>3. Espera(d)' = Espera(d)
      BY <1>1 DEF Espera
    <3> QED BY <1>1, <3>1, <3>2, <3>3, ConversaIgual
  <2> QED BY <1>0, <2>1 DEF Charlas, PasoCpu
<1>4. Quietas'
  <2>1. ASSUME plan.en \in {"desaloja", "confirma"}, NEW d \in Cpus PROVE Quieta(d)'
    <3>1. CASE d = c
      BY <1>0, <2>1, <3>1 DEF PasoCpu
    <3>2. CASE d # c
      <4>1. Quieta(d) /\ Calla(d) /\ cpu'[d] = cpu[d]
        BY <1>0, <2>1, <3>2 DEF Quietas, PasoCpu
      <4>2. Espera(d)' = Espera(d)
        BY <1>1 DEF Espera
      <4> QED BY <1>1, <4>1, <4>2, QuietaIgual DEF Calla
    <3> QED BY <3>1, <3>2
  <2> QED BY <1>1, <2>1 DEF Quietas
<1>5. Marcadas'
  BY <1>0, <1>1 DEF Marcadas, EnDespacho
<1>6. Bloqueos'
  <2>1. ASSUME NEW d \in Cpus, disp[d].en = "io_bloquea", disp[d].p \in Pids
        PROVE  hecho'[disp[d].p] = hecho[disp[d].p]
    BY <1>0, <1>2, <2>1 DEF Bloqueos
  <2>2. \A d \in Cpus : disp[d].en = "io_bloquea" => disp[d].p \in Pids
    BY DEF IInv, TypeOK, TiposHilos
  <2>3. \A d \in Cpus : disp'[d].en = "io_bloquea" => disp'[d].pc = hecho'[disp'[d].p]
    BY <1>0, <1>1, <2>1, <2>2 DEF Bloqueos
  <2> QED BY <1>0, <1>1, <2>3 DEF Bloqueos, Pedida
<1>7. Guardado'
  <2>1. ASSUME NEW p \in Pids, Fuera(p)' PROVE pcb'[p].pc = hecho'[p]
    <3>1. Fuera(p)
      BY <1>1, <2>1 DEF Fuera, EnDespacho, EnVuelta
    <3>2. p # running[c] \/ ~Pasado(c)
      BY <1>0, <3>1, CorriendoDentro DEF TiposA
    <3> QED BY <1>0, <1>1, <1>2, <3>1, <3>2 DEF Guardado
  <2> QED BY <2>1 DEF Guardado
<1> QED BY <1>3, <1>4, <1>5, <1>6, <1>7 DEF AInv

-----------------------------------------------------------------------------
(* The dispatch threads, with no races.                                      *)

\* A thread that has something to do with its CPU is not seen while the planner
\* preempts.
LEMMA SinDesalojo ==
  ASSUME Quietas, NEW c \in Cpus, disp[c].en # "recibe" \/ deCpu[c] # <<>>
  PROVE  plan.en # "desaloja" /\ plan.en # "confirma" /\ \A d \in Cpus : ~Espera(d)
BY DEF Quietas, Quieta, Espera

\* Unmarking a process frees its CPU and no other.
LEMMA LiberaUna ==
  ASSUME TypeOK, Marcadas, NEW c \in Cpus, running[c] \in Pids
  PROVE  liberar_cpu(running[c]) = [running EXCEPT ![c] = Nadie]
<1> DEFINE I == {i \in DOMAIN listaCPU : running[listaCPU[i]] = running[c]}
<1>1. /\ DOMAIN listaCPU = 1..Len(listaCPU) /\ Len(listaCPU) \in Nat
      /\ \A i \in DOMAIN listaCPU : listaCPU[i] \in Cpus
  BY LenProperties, ElementOfSeq DEF TypeOK, TiposKernel
<1>2. \A i \in I : listaCPU[i] = c
  BY <1>1, Constantes DEF Marcadas
<1>3. I # {}
  <2>1. c \in Range(listaCPU)
    BY DEF Marcadas
  <2> QED BY <2>1 DEF Range
<1>4. I \in SUBSET Nat
  BY <1>1
<1>5. Min(I) \in I
  BY <1>3, <1>4, MinEsta
<1>6. liberar_cpu(running[c]) = [running EXCEPT ![listaCPU[Min(I)]] = Nadie]
  BY <1>3 DEF liberar_cpu
<1> QED BY <1>2, <1>5, <1>6

\* What a step of the thread of a CPU does not touch.
HiloSolo(c) ==
  /\ UNCHANGED <<plan, listaCPU, desalojado, intr, aCpu, aInt, deInt, cpu, hecho, nuevos, ready>>
  /\ \A d \in Cpus : d # c => disp'[d] = disp[d] /\ deCpu'[d] = deCpu[d] /\ running'[d] = running[d]

\* Every step of a dispatch thread is one, and frees its own CPU or none.
LEMMA HiloSoloEsta ==
  ASSUME TypeOK, Marcadas, NEW c \in Cpus, HiloDispatch(c),
         disp[c].en \in {"io_libera", "exit_libera"} => running[c] \in Pids /\ disp[c].p = running[c]
  PROVE  /\ HiloSolo(c)
         /\ disp[c].en \in {"io_libera", "exit_libera"} => running' = [running EXCEPT ![c] = Nadie]
         /\ disp[c].en \notin {"io_libera", "exit_libera"} => running' = running
<1> USE DEF procVars, admVars, cpusVars, hilosVars, aVars, deVars
<1>1. /\ DOMAIN disp = Cpus /\ DOMAIN deCpu = Cpus
  BY DEF TypeOK, TiposHilos, TiposCpu
<1>2. UNCHANGED <<plan, listaCPU, desalojado, intr, aCpu, aInt, deInt, cpu, hecho, nuevos, ready>>
  BY DEF HiloDispatch, SysComienzoIO, SysExit, RecibeLlamada, LiberarPorIO, BloquearPorIO,
     agregar_a_cola_por_IO, ExitBusca, ExitLibera
<1>3. /\ disp[c].en \in {"io_libera", "exit_libera"} => running' = liberar_cpu(disp[c].p)
      /\ disp[c].en \notin {"io_libera", "exit_libera"} => running' = running
  BY DEF HiloDispatch, SysComienzoIO, SysExit, RecibeLlamada, LiberarPorIO, BloquearPorIO,
     agregar_a_cola_por_IO, ExitBusca, ExitLibera
<1>4. disp[c].en \in {"io_libera", "exit_libera"} => running' = [running EXCEPT ![c] = Nadie]
  BY <1>3, LiberaUna
<1>5. \A d \in Cpus : d # c => disp'[d] = disp[d] /\ deCpu'[d] = deCpu[d]
  BY <1>1 DEF HiloDispatch, SysComienzoIO, SysExit, RecibeLlamada, LiberarPorIO, BloquearPorIO,
     agregar_a_cola_por_IO, ExitBusca, ExitLibera, HiloVa, HiloCon, HiloQueda, Recibe
<1>6. \A d \in Cpus : d # c => running'[d] = running[d]
  <2>1. DOMAIN running = Cpus
    BY DEF TypeOK, TiposKernel
  <2>2. CASE disp[c].en \in {"io_libera", "exit_libera"}
    BY <1>4, <2>1, <2>2
  <2> QED BY <1>3, <2>2
<1> QED BY <1>2, <1>3, <1>4, <1>5, <1>6 DEF HiloSolo

\* The other CPUs go on as they were, and nobody preempts.
LEMMA HiloVecinos ==
  ASSUME Charlas, Quietas, NEW c \in Cpus, HiloSolo(c), Conversa(c)',
         disp[c].en # "recibe" \/ deCpu[c] # <<>>
  PROVE  Charlas' /\ Quietas'
<1>1. plan.en # "desaloja" /\ plan.en # "confirma" /\ plan' = plan
  BY SinDesalojo DEF HiloSolo
<1>2. ASSUME NEW d \in Cpus, d # c PROVE Conversa(d)'
  <2>1. /\ Conversa(d) /\ Calla(d) /\ Espera(d)' = Espera(d) /\ disp'[d] = disp[d]
        /\ running'[d] = running[d] /\ intr'[d] = intr[d] /\ cpu'[d] = cpu[d] /\ hecho' = hecho
        /\ desalojado' = desalojado
    BY <1>2 DEF Charlas, Calla, HiloSolo, Espera
  <2> QED BY <2>1, ConversaIgual
<1> QED BY <1>1, <1>2 DEF Charlas, Quietas

\* SYS_IO or SYS_EXIT: the message is taken. Its process is already in EXEC.
LEMMA ALlamada ==
  ASSUME Carreras = {}, IInv, AInv, NEW c \in Cpus, HiloDispatch(c), SysComienzoIO(c) \/ SysExit(c)
  PROVE  AInv'
<1>a. PICK op, e : /\ RecibeLlamada(c, op, e)
                   /\ (op = "IO" /\ e = "io_libera") \/ (op = "EXIT" /\ e = "exit_busca")
  BY DEF SysComienzoIO, SysExit
<1>0. /\ TypeOK /\ TiposA /\ Charlas /\ Quietas /\ Marcadas /\ Bloqueos /\ Guardado
      /\ DOMAIN disp = Cpus /\ DOMAIN deCpu = Cpus
  BY TiposAEsta DEF AInv, IInv, TypeOK, TiposHilos, TiposCpu
<1>1. /\ disp[c].en = "recibe" /\ deCpu[c] # <<>> /\ YaEnExec(Head(deCpu[c]).p)
      /\ Head(deCpu[c]).op = op
      /\ deCpu'[c] = Tail(deCpu[c])
      /\ disp'[c] = [en |-> e, p |-> Head(deCpu[c]).p, pc |-> Head(deCpu[c]).pc]
      /\ UNCHANGED <<lista, pcb, enIO>>
  BY <1>a, <1>0 DEF RecibeLlamada, Recibe, HiloCon, procVars
<1>2. Llama(c) /\ ~Espera(c)
  BY <1>0, <1>1, SinDesalojo DEF Charlas, Conversa, Libre, Enviado, Recibido, Corre, Cambio,
     Tiene, Aguarda
<1>3. PICK m : /\ m = deCpu[c][1] /\ deCpu[c] = <<m>> /\ m.p = running[c]
               /\ m.op = "IO" => m.pc = hecho[running[c]]
  BY <1>1, <1>2 DEF Llama
<1>4. Head(deCpu[c]) = m /\ deCpu'[c] = <<>>
  BY <1>1, <1>3, UnMensaje
<1>5. /\ disp'[c].en = e /\ disp'[c].p = running[c]
      /\ e = "io_libera" => disp'[c].pc = hecho[running[c]]
  BY <1>a, <1>1, <1>3, <1>4
<1>6. HiloSolo(c) /\ running' = running
  BY <1>0, <1>1, HiloSoloEsta
<1>7. Espera(c)' = Espera(c)
  BY <1>6 DEF Espera, HiloSolo
<1>8. Conversa(c)'
  <2>1. SinCharla(c)' = SinCharla(c) /\ Parada(c)' = Parada(c)
    BY <1>6 DEF SinCharla, Parada, HiloSolo
  <2>2. Llama(c)'
    BY <1>a, <1>2, <1>4, <1>5, <1>6, <2>1 DEF Llama, HiloSolo
  <2> QED BY <1>2, <1>7, <2>2 DEF Conversa
<1>9. Charlas' /\ Quietas'
  BY <1>0, <1>1, <1>6, <1>8, HiloVecinos
<1>10. running[c] \in lista["EXEC"]
  <2>1. ~EnDespacho(running[c])
    BY <1>1, <1>3, <1>4 DEF YaEnExec, EnDespacho
  <2>2. running[c] \in Pids /\ Nadie \notin Pids
    BY <1>0, <1>2 DEF Llama, TiposA
  <2> QED BY <1>0, <1>1, <2>1, <2>2 DEF Marcadas
<1>11. \A d \in Cpus : d # c => disp'[d] = disp[d]
  BY <1>6 DEF HiloSolo
<1>12. Marcadas'
  BY <1>a, <1>0, <1>1, <1>5, <1>6, <1>10, <1>11 DEF Marcadas, EnDespacho, HiloSolo
<1>13. Bloqueos'
  <2>1. \A p : \A d \in Cpus : Pedida(d, p)' <=> Pedida(d, p)
    BY <1>a, <1>1, <1>5, <1>11 DEF Pedida
  <2>2. \A d \in Cpus : /\ disp'[d].en = "io_bloquea" <=> disp[d].en = "io_bloquea"
                        /\ disp[d].en = "io_bloquea" => disp'[d] = disp[d]
    BY <1>a, <1>1, <1>5, <1>11
  <2>3. UNCHANGED <<lista, enIO, hecho, running>>
    BY <1>1, <1>6 DEF HiloSolo
  <2> HIDE DEF Pedida
  <2>4. \A d \in Cpus : disp'[d].en = "io_bloquea" =>
          /\ disp'[d].p \in lista'["EXEC"] /\ disp'[d].pc = hecho'[disp'[d].p]
          /\ \A f \in Cpus : running'[f] # disp'[d].p
          /\ \A f \in Cpus : disp'[f].en = "io_bloquea" /\ disp'[f].p = disp'[d].p => f = d
    BY <1>0, <2>2, <2>3 DEF Bloqueos
  <2> QED BY <1>0, <2>1, <2>3, <2>4 DEF Bloqueos
<1>14. Guardado'
  BY <1>0, <1>1, <1>6 DEF Guardado, Fuera, EnDespacho, EnVuelta, HiloSolo
<1> QED BY <1>9, <1>12, <1>13, <1>14 DEF AInv

\* A CPU whose process leaves it, with its call served, is free.
LEMMA QuedaLibre ==
  ASSUME TypeOK, NEW c \in Cpus, Llama(c), disp[c].en \in {"io_libera", "exit_libera"}, HiloSolo(c),
         deCpu' = deCpu, Pasado(c)', running' = [running EXCEPT ![c] = Nadie], \A d \in Cpus : ~Espera(d)
  PROVE  Conversa(c)'
<1>1. SinCharla(c)' = SinCharla(c) /\ Parada(c)' = Parada(c) /\ ~Espera(c)'
  BY DEF SinCharla, Parada, HiloSolo, Espera
<1>2. running'[c] = Nadie /\ deCpu[c] = <<>>
  BY DEF TypeOK, TiposKernel, Llama, Pasado
<1>3. Libre(c)'
  BY <1>1, <1>2 DEF Llama, Libre, HiloSolo
<1> QED BY <1>1, <1>3 DEF Conversa

\* A thread in the middle of a call serves the process of its CPU.
LEMMA Sirviendo ==
  ASSUME Charlas, Quietas, NEW c \in Cpus, disp[c].en \in {"io_libera", "exit_busca", "exit_libera"}
  PROVE  /\ Llama(c) /\ running[c] \in Pids /\ disp[c].p = running[c] /\ deCpu[c] = <<>>
         /\ disp[c].en = "io_libera" => disp[c].pc = hecho[running[c]]
<1>1. Llama(c)
  BY SinDesalojo DEF Charlas, Conversa, Libre, Enviado, Recibido, Corre, Cambio, Tiene, Aguarda, Pasado
<1> QED BY <1>1 DEF Llama, Pasado

\* liberar_cpu in SYS_IO: the process is of no CPU, and still in EXEC.
LEMMA ALiberaIO ==
  ASSUME IInv, AInv, NEW c \in Cpus, HiloDispatch(c), LiberarPorIO(c)
  PROVE  AInv'
<1>0. /\ TypeOK /\ Charlas /\ Quietas /\ Marcadas /\ Bloqueos /\ Guardado
      /\ DOMAIN disp = Cpus /\ Nadie \notin Pids /\ DOMAIN running = Cpus
  BY Constantes DEF AInv, IInv, TypeOK, TiposHilos, TiposKernel
<1>1. disp[c].en = "io_libera" /\ disp'[c] = [disp[c] EXCEPT !.en = "io_bloquea"]
      /\ UNCHANGED <<lista, pcb, enIO, deCpu>>
  BY <1>0 DEF LiberarPorIO, HiloVa, procVars, deVars
<1>2. /\ Llama(c) /\ running[c] \in Pids /\ disp[c].p = running[c] /\ disp[c].pc = hecho[running[c]]
  BY <1>0, <1>1, Sirviendo
<1>3. HiloSolo(c) /\ running' = [running EXCEPT ![c] = Nadie]
  BY <1>0, <1>1, <1>2, HiloSoloEsta
<1>4. /\ disp'[c].en = "io_bloquea" /\ disp'[c].p = running[c] /\ disp'[c].pc = hecho[running[c]]
      /\ \A d \in Cpus : d # c => disp'[d] = disp[d]
  BY <1>0, <1>1, <1>2, <1>3 DEF TypeOK, TiposHilos, HiloSolo
<1>5. Pasado(c)'
  BY <1>4 DEF Pasado
<1>6. \A d \in Cpus : ~Espera(d)
  BY <1>0, <1>1, SinDesalojo
<1>7. Conversa(c)'
  BY <1>0, <1>1, <1>2, <1>3, <1>5, <1>6, QuedaLibre
<1>8. Charlas' /\ Quietas'
  BY <1>0, <1>1, <1>3, <1>7, HiloVecinos
<1>9. \A d \in Cpus : running'[d] = IF d = c THEN Nadie ELSE running[d]
  BY <1>0, <1>3
<1>10. Marcadas'
  <2>1. Range(listaCPU)' = Cpus
    BY <1>0, <1>3 DEF Marcadas, HiloSolo
  <2>2. \A d, f \in Cpus : running'[d] = running'[f] /\ running'[d] # Nadie => d = f
    BY <1>0, <1>9 DEF Marcadas
  <2>3. ASSUME NEW d \in Cpus, running'[d] # Nadie
        PROVE  running'[d] \in lista'["EXEC"] \/ EnDespacho(running[d])' \/ disp'[d].en = "exit_libera"
    <3>1. d # c /\ running'[d] = running[d] /\ disp'[d] = disp[d]
      BY <1>4, <1>9, <2>3
    <3> QED BY <1>0, <1>1, <1>3, <2>3, <3>1 DEF Marcadas, EnDespacho, HiloSolo
  <2>4. ASSUME NEW d \in Cpus, disp'[d].en \in {"io_libera", "exit_busca"}
        PROVE  disp'[d].p \in lista'["EXEC"]
    BY <1>0, <1>1, <1>4, <2>4 DEF Marcadas
  <2> QED BY <2>1, <2>2, <2>3, <2>4 DEF Marcadas, EnDespacho
<1>11. Bloqueos'
  <2>1. \A p : \A d \in Cpus : Pedida(d, p)' <=> Pedida(d, p)
    BY <1>1, <1>4 DEF Pedida
  <2>2. running[c] \in lista["EXEC"]
    BY <1>0, <1>1, <1>2 DEF Marcadas
  <2>3. UNCHANGED <<lista, enIO, hecho>>
    BY <1>1, <1>3 DEF HiloSolo
  <2>4. \A d \in Cpus : running'[d] # running[c]
    BY <1>0, <1>2, <1>9 DEF Marcadas
  <2>5. ASSUME NEW d \in Cpus, disp'[d].en = "io_bloquea"
        PROVE  /\ disp'[d].p \in lista'["EXEC"] /\ disp'[d].pc = hecho'[disp'[d].p]
               /\ \A f \in Cpus : running'[f] # disp'[d].p
               /\ \A f \in Cpus : disp'[f].en = "io_bloquea" /\ disp'[f].p = disp'[d].p => f = d
    <3>1. CASE d = c
      <4>1. \A f \in Cpus : f # c /\ disp[f].en = "io_bloquea" => disp[f].p # running[c]
        BY <1>0 DEF Bloqueos
      <4> QED BY <1>4, <2>2, <2>3, <2>4, <3>1, <4>1
    <3>2. CASE d # c
      <4>1. disp'[d] = disp[d] /\ disp[d].en = "io_bloquea" /\ disp[d].p # running[c]
        BY <1>0, <1>4, <2>5, <3>2 DEF Bloqueos
      <4>2. /\ disp[d].p \in lista["EXEC"] /\ disp[d].pc = hecho[disp[d].p]
            /\ \A f \in Cpus : running[f] # disp[d].p
            /\ \A f \in Cpus : disp[f].en = "io_bloquea" /\ disp[f].p = disp[d].p => f = d
        BY <1>0, <4>1 DEF Bloqueos
      <4>3. disp[d].p # Nadie
        BY <1>0, <4>1 DEF TypeOK, TiposHilos
      <4> QED BY <1>4, <1>9, <2>3, <4>1, <4>2, <4>3
    <3> QED BY <3>1, <3>2
  <2> HIDE DEF Pedida
  <2> QED BY <1>0, <2>1, <2>3, <2>5 DEF Bloqueos
<1>12. Guardado'
  BY <1>0, <1>1, <1>3 DEF Guardado, Fuera, EnDespacho, EnVuelta, HiloSolo
<1> QED BY <1>8, <1>10, <1>11, <1>12 DEF AInv

\* EXIT_PID, first part: the process is still in EXEC.
LEMMA AExitBusca ==
  ASSUME IInv, AInv, NEW c \in Cpus, HiloDispatch(c), ExitBusca(c)
  PROVE  AInv'
<1>0. /\ TypeOK /\ Charlas /\ Quietas /\ Marcadas /\ Bloqueos /\ Guardado
      /\ DOMAIN disp = Cpus /\ Nadie \notin Pids /\ DOMAIN running = Cpus /\ DOMAIN lista = Grupos
  BY Constantes DEF AInv, IInv, TypeOK, TiposHilos, TiposKernel
<1>1. disp[c].en = "exit_busca"
  BY DEF ExitBusca
<1>2. PICK p \in Pids : p = disp[c].p /\ running[c] = p /\ Llama(c) /\ deCpu[c] = <<>> /\ p \in lista["EXEC"]
  BY <1>0, <1>1, Sirviendo DEF Marcadas
<1>3. /\ disp'[c] = [disp[c] EXCEPT !.en = "exit_libera"]
      /\ lista' = [g \in Grupos |-> lista[g] \ {p}]
      /\ UNCHANGED <<pcb, enIO, deCpu>>
  BY <1>0, <1>2 DEF ExitBusca, HiloVa, deVars
<1>4. HiloSolo(c) /\ running' = running
  BY <1>0, <1>1, HiloSoloEsta
<1>5. /\ disp'[c].en = "exit_libera" /\ disp'[c].p = p
      /\ \A d \in Cpus : d # c => disp'[d] = disp[d]
  BY <1>0, <1>2, <1>3, <1>4 DEF TypeOK, TiposHilos, HiloSolo
<1>6. Conversa(c)'
  <2>1. SinCharla(c)' = SinCharla(c) /\ Parada(c)' = Parada(c) /\ ~Espera(c)'
    BY <1>0, <1>1, <1>4, SinDesalojo DEF SinCharla, Parada, HiloSolo, Espera
  <2>2. Llama(c)'
    BY <1>1, <1>2, <1>3, <1>4, <1>5, <2>1 DEF Llama, HiloSolo, Pasado
  <2> QED BY <2>1, <2>2 DEF Conversa
<1>7. Charlas' /\ Quietas'
  BY <1>0, <1>1, <1>4, <1>6, HiloVecinos
<1>8. \A d \in Cpus : d # c => running[d] # p
  BY <1>0, <1>2 DEF Marcadas
<1>9. /\ lista'["EXEC"] = lista["EXEC"] \ {p} /\ lista'["BLOCKED"] = lista["BLOCKED"] \ {p}
      /\ p \notin lista["BLOCKED"]
  <2>1. "EXEC" \in Grupos /\ "BLOCKED" \in Grupos /\ "EXEC" # "BLOCKED"
    BY DEF Grupos
  <2>2. p \notin lista["BLOCKED"]
    BY <1>2, <2>1, SoloEnLista DEF IInv
  <2> QED BY <1>3, <2>1, <2>2
<1>10. Marcadas'
  <2>1. Range(listaCPU)' = Cpus
    BY <1>0, <1>4 DEF Marcadas, HiloSolo
  <2>2. \A d, f \in Cpus : running'[d] = running'[f] /\ running'[d] # Nadie => d = f
    BY <1>0, <1>4 DEF Marcadas
  <2>3. ASSUME NEW d \in Cpus, running'[d] # Nadie
        PROVE  running'[d] \in lista'["EXEC"] \/ EnDespacho(running[d])' \/ disp'[d].en = "exit_libera"
    BY <1>0, <1>4, <1>5, <1>8, <1>9, <2>3 DEF Marcadas, EnDespacho, HiloSolo
  <2>4. ASSUME NEW d \in Cpus, disp'[d].en \in {"io_libera", "exit_busca"}
        PROVE  disp'[d].p \in lista'["EXEC"]
    <3>1. d # c /\ disp'[d] = disp[d]
      BY <1>5, <2>4
    <3>2. disp[d].p = running[d]
      BY <1>0, <2>4, <3>1, Sirviendo
    <3> QED BY <1>0, <1>8, <1>9, <2>4, <3>1, <3>2 DEF Marcadas
  <2> QED BY <1>4, <2>1, <2>2, <2>3, <2>4 DEF Marcadas, EnDespacho
<1>11. Bloqueos'
  <2>1. \A q : \A d \in Cpus : Pedida(d, q)' <=> Pedida(d, q)
    BY <1>1, <1>5 DEF Pedida
  <2>2. UNCHANGED <<enIO, hecho, running>> /\ lista'["BLOCKED"] = lista["BLOCKED"]
    BY <1>3, <1>4, <1>9 DEF HiloSolo
  <2>3. ASSUME NEW d \in Cpus, disp'[d].en = "io_bloquea"
        PROVE  /\ disp'[d].p \in lista'["EXEC"] /\ disp'[d].pc = hecho'[disp'[d].p]
               /\ \A f \in Cpus : running'[f] # disp'[d].p
               /\ \A f \in Cpus : disp'[f].en = "io_bloquea" /\ disp'[f].p = disp'[d].p => f = d
    <3>1. disp'[d] = disp[d] /\ disp[d].en = "io_bloquea"
      BY <1>5, <2>3
    <3>2. /\ disp[d].p \in lista["EXEC"] /\ disp[d].pc = hecho[disp[d].p]
          /\ \A f \in Cpus : running[f] # disp[d].p
          /\ \A f \in Cpus : disp[f].en = "io_bloquea" /\ disp[f].p = disp[d].p => f = d
      BY <1>0, <3>1 DEF Bloqueos
    <3>3. disp[d].p # p
      BY <1>2, <3>2
    <3> QED BY <1>5, <1>9, <2>2, <3>1, <3>2, <3>3
  <2> HIDE DEF Pedida
  <2> QED BY <1>0, <2>1, <2>2, <2>3 DEF Bloqueos
<1>12. Guardado'
  BY <1>0, <1>3, <1>4, <1>9 DEF Guardado, Fuera, EnDespacho, EnVuelta, HiloSolo
<1> QED BY <1>7, <1>10, <1>11, <1>12 DEF AInv

\* Marks that a thread does not touch.
LEMMA MarcadasIgual ==
  ASSUME Marcadas, UNCHANGED <<running, listaCPU, plan>>, NEW c \in Cpus,
         disp[c].en # "exit_libera", disp'[c].en \notin {"io_libera", "exit_busca"},
         \A d \in Cpus : d # c => disp'[d] = disp[d],
         \A d \in Cpus : running[d] \in lista["EXEC"] => running[d] \in lista'["EXEC"],
         \A d \in Cpus \ {c} : disp[d].en \in {"io_libera", "exit_busca"} /\ disp[d].p \in lista["EXEC"]
                                 => disp[d].p \in lista'["EXEC"]
  PROVE  Marcadas'
BY DEF Marcadas, EnDespacho

\* exec_a_blocked: the process is in EXEC, and its PCB gets the pc of the call.
LEMMA ABloquea ==
  ASSUME IInv, AInv, NEW c \in Cpus, HiloDispatch(c), BloquearPorIO(c)
  PROVE  AInv'
<1>0. /\ TypeOK /\ Charlas /\ Quietas /\ Marcadas /\ Bloqueos /\ Guardado
      /\ DOMAIN disp = Cpus /\ Nadie \notin Pids /\ DOMAIN running = Cpus /\ DOMAIN lista = Grupos
      /\ DOMAIN pcb = Pids
  BY Constantes DEF AInv, IInv, TypeOK, TiposHilos, TiposKernel
<1>1. /\ disp[c].en = "io_bloquea" /\ disp'[c] = [disp[c] EXCEPT !.en = "io_encola"]
      /\ UNCHANGED <<enIO, deCpu>>
  BY <1>0 DEF BloquearPorIO, HiloVa, deVars
<1>2. PICK p \in Pids : /\ p = disp[c].p /\ p \in lista["EXEC"] /\ disp[c].pc = hecho[p]
                        /\ \A d \in Cpus : running[d] # p
                        /\ \A d \in Cpus : disp[d].en = "io_bloquea" /\ disp[d].p = p => d = c
  BY <1>0, <1>1 DEF Bloqueos, TypeOK, TiposHilos
<1>3. PICK t \in Rafagas : /\ pcb' = [pcb EXCEPT ![p].pc = hecho[p], ![p].rafaga = t]
                           /\ lista' = Mueve("EXEC", "BLOCKED", p)
  BY <1>2 DEF BloquearPorIO, exec_a_blocked
<1>4. /\ pcb'[p].pc = hecho[p] /\ \A q \in Pids : q # p => pcb'[q] = pcb[q]
  <2>1. DOMAIN pcb = Pids /\ pcb[p] \in [pc : Nat, rafaga : Rafagas \cup {-1}, est : Int]
    BY <1>0 DEF TypeOK, TiposKernel
  <2> QED BY <1>3, <2>1
<1>5. /\ lista'["EXEC"] = lista["EXEC"] \ {p} /\ lista'["BLOCKED"] = lista["BLOCKED"] \cup {p}
      /\ p \notin lista["BLOCKED"]
  <2>1. "EXEC" \in Grupos /\ "BLOCKED" \in Grupos /\ "EXEC" # "BLOCKED"
    BY DEF Grupos
  <2>2. p \notin lista["BLOCKED"]
    BY <1>2, <2>1, SoloEnLista DEF IInv
  <2> QED BY <1>0, <1>3, <2>1, <2>2 DEF Mueve
<1>6. HiloSolo(c) /\ running' = running
  BY <1>0, <1>1, HiloSoloEsta
<1>7. /\ disp'[c].en = "io_encola" /\ disp'[c].p = p
      /\ \A d \in Cpus : d # c => disp'[d] = disp[d]
  BY <1>0, <1>1, <1>2, <1>6 DEF TypeOK, TiposHilos, HiloSolo
<1>8. Conversa(c)'
  <2>1. Conversa(c) /\ Calla(c) /\ Espera(c)' = Espera(c) /\ Pasado(c) /\ Pasado(c)'
    BY <1>0, <1>1, <1>6, <1>7 DEF Charlas, Calla, HiloSolo, Espera, Pasado
  <2>2. intr'[c] = intr[c] /\ desalojado' = desalojado /\ cpu'[c] = cpu[c] /\ hecho' = hecho
    BY <1>6 DEF HiloSolo
  <2> QED BY <1>6, <2>1, <2>2, ConversaIgual
<1>9. Charlas' /\ Quietas'
  BY <1>0, <1>1, <1>6, <1>8, HiloVecinos
<1>10. Marcadas'
  <2>1. \A d \in Cpus \ {c} : disp[d].en \in {"io_libera", "exit_busca"} => disp[d].p # p
    BY <1>0, <1>2, Sirviendo
  <2>2. UNCHANGED <<running, listaCPU, plan>>
    BY <1>6 DEF HiloSolo
  <2> QED BY <1>0, <1>1, <1>2, <1>5, <1>7, <2>1, <2>2, MarcadasIgual
<1>11. Bloqueos'
  <2>1. \A q : \A d \in Cpus : d # c => (Pedida(d, q)' <=> Pedida(d, q))
    BY <1>7 DEF Pedida
  <2>2. (\A q : Pedida(c, q)' <=> q = p) /\ (\A q : ~Pedida(c, q))
    BY <1>1, <1>7 DEF Pedida
  <2>3. UNCHANGED <<enIO, hecho, running>>
    BY <1>1, <1>6 DEF HiloSolo
  <2>4. ASSUME NEW d \in Cpus, disp'[d].en = "io_bloquea"
        PROVE  /\ disp'[d].p \in lista'["EXEC"] /\ disp'[d].pc = hecho'[disp'[d].p]
               /\ \A f \in Cpus : running'[f] # disp'[d].p
               /\ \A f \in Cpus : disp'[f].en = "io_bloquea" /\ disp'[f].p = disp'[d].p => f = d
    <3>1. d # c /\ disp'[d] = disp[d] /\ disp[d].en = "io_bloquea"
      BY <1>7, <2>4
    <3>2. /\ disp[d].p \in lista["EXEC"] /\ disp[d].pc = hecho[disp[d].p] /\ disp[d].p # p
          /\ \A f \in Cpus : running[f] # disp[d].p
          /\ \A f \in Cpus : disp[f].en = "io_bloquea" /\ disp[f].p = disp[d].p => f = d
      BY <1>0, <1>2, <3>1 DEF Bloqueos
    <3> QED BY <1>5, <1>7, <2>3, <3>1, <3>2
  <2> HIDE DEF Pedida
  <2>5. ASSUME NEW q \in Pids
        PROVE  /\ enIO'[q] \in {0, 1}
               /\ q \notin lista'["BLOCKED"] => enIO'[q] = 0 /\ \A d \in Cpus : ~Pedida(d, q)'
               /\ q \in lista'["BLOCKED"] => enIO'[q] = 1 \/ \E d \in Cpus : Pedida(d, q)'
               /\ enIO'[q] = 1 => \A d \in Cpus : ~Pedida(d, q)'
               /\ \A d, f \in Cpus : Pedida(d, q)' /\ Pedida(f, q)' => d = f
    <3>1. /\ enIO[q] \in {0, 1}
          /\ q \notin lista["BLOCKED"] => enIO[q] = 0 /\ \A d \in Cpus : ~Pedida(d, q)
          /\ q \in lista["BLOCKED"] => enIO[q] = 1 \/ \E d \in Cpus : Pedida(d, q)
          /\ enIO[q] = 1 => \A d \in Cpus : ~Pedida(d, q)
          /\ \A d, f \in Cpus : Pedida(d, q) /\ Pedida(f, q) => d = f
      BY <1>0 DEF Bloqueos
    <3>2. CASE q = p
      BY <1>5, <2>1, <2>2, <2>3, <3>1, <3>2
    <3>3. CASE q # p
      BY <1>5, <2>1, <2>2, <2>3, <3>1, <3>3
    <3> QED BY <3>2, <3>3
  <2> QED BY <2>4, <2>5 DEF Bloqueos
<1>12. Guardado'
  <2>1. ASSUME NEW q \in Pids, Fuera(q)' PROVE pcb'[q].pc = hecho'[q]
    <3>1. hecho' = hecho
      BY <1>6 DEF HiloSolo
    <3>2. CASE q = p
      BY <1>4, <3>1, <3>2
    <3>3. CASE q # p
      <4>1. Fuera(q)
        BY <1>5, <1>6, <2>1, <3>3 DEF Fuera, EnDespacho, EnVuelta, HiloSolo
      <4> QED BY <1>0, <1>4, <3>1, <3>3, <4>1 DEF Guardado
    <3> QED BY <3>2, <3>3
  <2> QED BY <2>1 DEF Guardado
<1> QED BY <1>9, <1>10, <1>11, <1>12 DEF AInv

\* The request of a process that is BLOCKED is queued.
LEMMA AEncola ==
  ASSUME IInv, AInv, NEW c \in Cpus, HiloDispatch(c), agregar_a_cola_por_IO(c)
  PROVE  AInv'
<1>0. /\ TypeOK /\ Charlas /\ Quietas /\ Marcadas /\ Bloqueos /\ Guardado
      /\ DOMAIN disp = Cpus /\ enIO \in [Pids -> Nat]
  BY DEF AInv, IInv, TypeOK, TiposHilos, TiposKernel
<1>1. /\ disp[c].en = "io_encola" /\ disp'[c] = [en |-> "recibe", p |-> Nadie, pc |-> 0]
      /\ UNCHANGED <<lista, pcb, deCpu>>
  BY <1>0 DEF agregar_a_cola_por_IO, HiloQueda, deVars, procVars
<1>2. PICK p \in Pids : p = disp[c].p
  BY <1>0, <1>1 DEF TypeOK, TiposHilos
<1>3. /\ enIO'[p] = enIO[p] + 1 /\ \A q \in Pids : q # p => enIO'[q] = enIO[q]
  BY <1>0, <1>2 DEF agregar_a_cola_por_IO
<1>4. HiloSolo(c) /\ running' = running
  BY <1>0, <1>1, HiloSoloEsta
<1>5. /\ disp'[c].en = "recibe"
      /\ \A d \in Cpus : d # c => disp'[d] = disp[d]
  BY <1>1, <1>4 DEF HiloSolo
<1>6. Conversa(c)'
  <2>1. Conversa(c) /\ Calla(c) /\ Espera(c)' = Espera(c) /\ Pasado(c) /\ Pasado(c)'
    BY <1>0, <1>1, <1>4, <1>5 DEF Charlas, Calla, HiloSolo, Espera, Pasado
  <2>2. intr'[c] = intr[c] /\ desalojado' = desalojado /\ cpu'[c] = cpu[c] /\ hecho' = hecho
    BY <1>4 DEF HiloSolo
  <2> QED BY <1>4, <2>1, <2>2, ConversaIgual
<1>7. Charlas' /\ Quietas'
  BY <1>0, <1>1, <1>4, <1>6, HiloVecinos
<1>8. Marcadas'
  <2>1. UNCHANGED <<running, listaCPU, plan>>
    BY <1>4 DEF HiloSolo
  <2> QED BY <1>0, <1>1, <1>5, <2>1, MarcadasIgual
<1>9. Bloqueos'
  <2>1. \A q : \A d \in Cpus : d # c => (Pedida(d, q)' <=> Pedida(d, q))
    BY <1>5 DEF Pedida
  <2>2. (\A q : ~Pedida(c, q)') /\ (\A q : Pedida(c, q) <=> q = p)
    BY <1>1, <1>2, <1>5 DEF Pedida
  <2>3. UNCHANGED <<lista, hecho, running>>
    BY <1>1, <1>4 DEF HiloSolo
  <2>4. \A d \in Cpus : disp'[d].en = "io_bloquea" =>
          /\ disp'[d].p \in lista'["EXEC"] /\ disp'[d].pc = hecho'[disp'[d].p]
          /\ \A f \in Cpus : running'[f] # disp'[d].p
          /\ \A f \in Cpus : disp'[f].en = "io_bloquea" /\ disp'[f].p = disp'[d].p => f = d
    BY <1>0, <1>5, <2>3 DEF Bloqueos
  <2> HIDE DEF Pedida
  <2>5. ASSUME NEW q \in Pids
        PROVE  /\ enIO'[q] \in {0, 1}
               /\ q \notin lista'["BLOCKED"] => enIO'[q] = 0 /\ \A d \in Cpus : ~Pedida(d, q)'
               /\ q \in lista'["BLOCKED"] => enIO'[q] = 1 \/ \E d \in Cpus : Pedida(d, q)'
               /\ enIO'[q] = 1 => \A d \in Cpus : ~Pedida(d, q)'
               /\ \A d, f \in Cpus : Pedida(d, q)' /\ Pedida(f, q)' => d = f
    <3>1. /\ enIO[q] \in {0, 1}
          /\ q \notin lista["BLOCKED"] => enIO[q] = 0 /\ \A d \in Cpus : ~Pedida(d, q)
          /\ q \in lista["BLOCKED"] => enIO[q] = 1 \/ \E d \in Cpus : Pedida(d, q)
          /\ enIO[q] = 1 => \A d \in Cpus : ~Pedida(d, q)
          /\ \A d, f \in Cpus : Pedida(d, q) /\ Pedida(f, q) => d = f
      BY <1>0 DEF Bloqueos
    <3>2. CASE q = p
      <4>1. enIO[p] = 0 /\ \A d \in Cpus : Pedida(d, p) => d = c
        BY <2>2, <3>1, <3>2
      <4>2. enIO'[p] = 1
        BY <1>3, <4>1
      <4> QED BY <2>1, <2>2, <2>3, <3>1, <3>2, <4>1, <4>2
    <3>3. CASE q # p
      BY <1>3, <2>1, <2>2, <2>3, <3>1, <3>3
    <3> QED BY <3>2, <3>3
  <2> QED BY <2>4, <2>5 DEF Bloqueos
<1>10. Guardado'
  BY <1>0, <1>1, <1>4 DEF Guardado, Fuera, EnDespacho, EnVuelta, HiloSolo
<1> QED BY <1>7, <1>8, <1>9, <1>10 DEF AInv

\* liberar_cpu and agregar_a_EXIT.
LEMMA AExitLibera ==
  ASSUME IInv, AInv, NEW c \in Cpus, HiloDispatch(c), ExitLibera(c)
  PROVE  AInv'
<1>0. /\ TypeOK /\ Charlas /\ Quietas /\ Marcadas /\ Bloqueos /\ Guardado
      /\ DOMAIN disp = Cpus /\ DOMAIN running = Cpus /\ DOMAIN lista = Grupos
  BY DEF AInv, IInv, TypeOK, TiposHilos, TiposKernel
<1>1. /\ disp[c].en = "exit_libera" /\ disp'[c] = [en |-> "recibe", p |-> Nadie, pc |-> 0]
      /\ lista' = [lista EXCEPT !["EXIT"] = @ \cup {disp[c].p}]
      /\ UNCHANGED <<pcb, deCpu, enIO>>
  BY <1>0 DEF ExitLibera, HiloQueda, deVars
<1>2. Llama(c) /\ running[c] \in Pids /\ disp[c].p = running[c]
  BY <1>0, <1>1, Sirviendo
<1>3. HiloSolo(c) /\ running' = [running EXCEPT ![c] = Nadie]
  BY <1>0, <1>1, <1>2, HiloSoloEsta
<1>4. /\ disp'[c].en = "recibe"
      /\ \A d \in Cpus : d # c => disp'[d] = disp[d]
  BY <1>1, <1>3 DEF HiloSolo
<1>5. Pasado(c)' /\ \A d \in Cpus : ~Espera(d)
  BY <1>0, <1>1, <1>4, SinDesalojo DEF Pasado
<1>6. Conversa(c)'
  BY <1>0, <1>1, <1>2, <1>3, <1>5, QuedaLibre
<1>7. Charlas' /\ Quietas'
  BY <1>0, <1>1, <1>3, <1>6, HiloVecinos
<1>8. \A d \in Cpus : running'[d] = IF d = c THEN Nadie ELSE running[d]
  BY <1>0, <1>3
<1>9. lista'["EXEC"] = lista["EXEC"] /\ lista'["BLOCKED"] = lista["BLOCKED"]
  BY <1>0, <1>1 DEF Grupos
<1>10. Marcadas'
  <2>1. Range(listaCPU)' = Cpus
    BY <1>0, <1>3 DEF Marcadas, HiloSolo
  <2>2. \A d, f \in Cpus : running'[d] = running'[f] /\ running'[d] # Nadie => d = f
    BY <1>0, <1>8 DEF Marcadas
  <2>3. ASSUME NEW d \in Cpus, running'[d] # Nadie
        PROVE  running'[d] \in lista'["EXEC"] \/ EnDespacho(running[d])' \/ disp'[d].en = "exit_libera"
    <3>1. d # c /\ running'[d] = running[d] /\ disp'[d] = disp[d]
      BY <1>4, <1>8, <2>3
    <3> QED BY <1>0, <1>3, <1>9, <2>3, <3>1 DEF Marcadas, EnDespacho, HiloSolo
  <2>4. ASSUME NEW d \in Cpus, disp'[d].en \in {"io_libera", "exit_busca"}
        PROVE  disp'[d].p \in lista'["EXEC"]
    BY <1>0, <1>4, <1>9, <2>4 DEF Marcadas
  <2> QED BY <2>1, <2>2, <2>3, <2>4 DEF Marcadas, EnDespacho
<1>11. Bloqueos'
  <2>1. \A q : \A d \in Cpus : Pedida(d, q)' <=> Pedida(d, q)
    BY <1>1, <1>4 DEF Pedida
  <2>2. UNCHANGED <<enIO, hecho>>
    BY <1>1, <1>3 DEF HiloSolo
  <2>3. ASSUME NEW d \in Cpus, disp'[d].en = "io_bloquea"
        PROVE  /\ disp'[d].p \in lista'["EXEC"] /\ disp'[d].pc = hecho'[disp'[d].p]
               /\ \A f \in Cpus : running'[f] # disp'[d].p
               /\ \A f \in Cpus : disp'[f].en = "io_bloquea" /\ disp'[f].p = disp'[d].p => f = d
    <3>1. disp'[d] = disp[d] /\ disp[d].en = "io_bloquea"
      BY <1>4, <2>3
    <3>2. /\ disp[d].p \in lista["EXEC"] /\ disp[d].pc = hecho[disp[d].p]
          /\ \A f \in Cpus : running[f] # disp[d].p
          /\ \A f \in Cpus : disp[f].en = "io_bloquea" /\ disp[f].p = disp[d].p => f = d
      BY <1>0, <3>1 DEF Bloqueos
    <3>3. disp[d].p # Nadie
      BY <1>0, <3>1, Constantes DEF TypeOK, TiposHilos
    <3> QED BY <1>4, <1>8, <1>9, <2>2, <3>1, <3>2, <3>3
  <2> HIDE DEF Pedida
  <2> QED BY <1>0, <1>9, <2>1, <2>2, <2>3 DEF Bloqueos
<1>12. Guardado'
  BY <1>0, <1>1, <1>3, <1>9 DEF Guardado, Fuera, EnDespacho, EnVuelta, HiloSolo
<1> QED BY <1>7, <1>10, <1>11, <1>12 DEF AInv

\* A step of the thread of a CPU in the kernel.
LEMMA ADispatch ==
  ASSUME Carreras = {}, IInv, AInv, NEW c \in Cpus, HiloDispatch(c)
  PROVE  AInv'
BY ALlamada, ALiberaIO, ABloquea, AEncola, AExitBusca, AExitLibera DEF HiloDispatch

-----------------------------------------------------------------------------
(* The interrupt threads, with no races.                                     *)

\* Only the CPU that is being preempted has something for its interrupt thread.
LEMMA SoloLaDesalojada ==
  ASSUME Charlas, NEW c \in Cpus, intr[c].en = "a_ready" \/ deInt[c] # <<>>
  PROVE  Espera(c) /\ \A d \in Cpus : d # c => ~Espera(d)
<1>1. Espera(c)
  BY DEF Charlas, Conversa, Libre, Enviado, Recibido, Llama, Corre, Cambio, Aguarda, SinCharla
<1> QED BY <1>1 DEF Espera

\* What is not of this CPU, nor a list, stays in a step of its interrupt thread.
LEMMA InterruptVecinos ==
  ASSUME Charlas, Quietas, NEW c \in Cpus, Espera(c), Conversa(c)', Quieta(c)',
         UNCHANGED <<plan, disp, aCpu, aInt, deCpu, cpu, hecho>>,
         \A d \in Cpus : d # c => intr'[d] = intr[d] /\ deInt'[d] = deInt[d] /\ running'[d] = running[d]
  PROVE  Charlas' /\ Quietas'
<1>1. ASSUME NEW d \in Cpus, d # c PROVE Conversa(d)' /\ Quieta(d)'
  <2>1. /\ Conversa(d) /\ Quieta(d) /\ Calla(d) /\ ~Espera(d) /\ Espera(d)' = Espera(d)
    BY <1>1 DEF Charlas, Quietas, Calla, Espera
  <2>2. /\ running'[d] = running[d] /\ intr'[d] = intr[d] /\ disp'[d] = disp[d] /\ cpu'[d] = cpu[d]
        /\ hecho' = hecho /\ deCpu'[d] = deCpu[d] /\ aCpu'[d] = aCpu[d]
    BY <1>1
  <2>3. Conversa(d)'
    BY <2>1, <2>2, ConversaIgual
  <2>4. Quieta(d)'
    BY <2>1, <2>2, QuietaIgual
  <2> QED BY <2>3, <2>4
<1> QED BY <1>1 DEF Charlas, Quietas

\* The answer of a CPU that is being preempted is about its process, in EXEC.
LEMMA Contestada ==
  ASSUME IInv, AInv, NEW c \in Cpus, deInt[c] # <<>>
  PROVE  /\ Espera(c) /\ \A d \in Cpus : d # c => ~Espera(d)
         /\ Avisado(c) /\ running[c] \in Pids /\ running[c] \in lista["EXEC"]
         /\ Head(deInt[c]).p = running[c] /\ Head(deInt[c]).pc = hecho[running[c]]
         /\ Tail(deInt[c]) = <<>>
<1>0. Charlas /\ Marcadas /\ Nadie \notin Pids
  BY Constantes DEF AInv
<1>2. Espera(c) /\ \A d \in Cpus : d # c => ~Espera(d)
  BY <1>0, SoloLaDesalojada
<1>3. Avisado(c) /\ deInt[c] = <<[p |-> running[c], pc |-> hecho[running[c]]]>>
  BY <1>0, <1>2 DEF Charlas, Conversa, Desalojado, Aguarda, Avisado
<1>4. Tiene(c) /\ running[c] \in Pids /\ Pasado(c)
  BY <1>3 DEF Avisado, Tiene
<1>5. running[c] \in lista["EXEC"]
  <2>1. plan.en = "confirma"
    BY <1>2 DEF Espera
  <2> QED BY <1>0, <1>4, <2>1 DEF Marcadas, EnDespacho, Pasado
<1> QED BY <1>2, <1>3, <1>4, <1>5, UnMensaje

\* SYS_INTERRUPT: the process is in EXEC, its CPU is freed and its PCB up to date.
LEMMA AInterrumpe ==
  ASSUME IInv, AInv, NEW c \in Cpus, SysInterrupt(c)
  PROVE  AInv'
<1> USE DEF procVars, admVars, cpusVars, hilosVars, aVars, deVars
<1>0. /\ TypeOK /\ Charlas /\ Quietas /\ Marcadas /\ Bloqueos /\ Guardado
      /\ DOMAIN intr = Cpus /\ DOMAIN running = Cpus /\ DOMAIN lista = Grupos /\ DOMAIN deInt = Cpus
      /\ Nadie \notin Pids
  BY Constantes DEF AInv, IInv, TypeOK, TiposHilos, TiposKernel, TiposCpu
<1>1. /\ intr[c].en = "recibe" /\ deInt[c] # <<>> /\ deInt'[c] = Tail(deInt[c])
      /\ UNCHANGED <<plan, disp, aCpu, aInt, deCpu, cpu, hecho, enIO, nuevos, ready, listaCPU, desalojado>>
      /\ \A d \in Cpus : d # c => deInt'[d] = deInt[d]
  BY <1>0 DEF SysInterrupt, Recibe
<1>2. /\ Espera(c) /\ \A d \in Cpus : d # c => ~Espera(d)
      /\ Avisado(c) /\ running[c] \in Pids /\ running[c] \in lista["EXEC"]
      /\ Head(deInt[c]).p = running[c] /\ Head(deInt[c]).pc = hecho[running[c]]
      /\ deInt'[c] = <<>>
  BY <1>1, Contestada
<1>3. Avisado(c)
  BY <1>2
<1>4. PICK p \in Pids : p = running[c] /\ Tiene(c) /\ Pasado(c)
  BY <1>2 DEF Avisado, Tiene
<1>5. PICK m : m = Head(deInt[c]) /\ m.p = p /\ m.pc = hecho[p] /\ deInt'[c] = <<>>
  BY <1>2, <1>4
<1>6. p \in lista["EXEC"]
  BY <1>2, <1>4
<1>7. PICK t \in Rafagas :
        /\ lista' = [g \in Grupos |-> lista[g] \ {p}]
        /\ pcb' = [pcb EXCEPT ![p].pc = hecho[p], ![p].est = @ - 4 * t]
        /\ running' = liberar_cpu(p)
        /\ intr' = HiloCon(intr, c, "a_ready", m)
  <2>1. m.p \in lista["EXEC"] \cup lista["BLOCKED"]
    BY <1>5, <1>6
  <2>2. /\ lista' = [g \in Grupos |-> lista[g] \ {m.p}]
        /\ \E t \in Rafagas : pcb' = [pcb EXCEPT ![m.p].pc = m.pc, ![m.p].est = @ - 4 * t]
        /\ running' = liberar_cpu(m.p)
        /\ intr' = HiloCon(intr, c, "a_ready", m)
    BY <1>0, <1>5, <2>1, Zenon DEF SysInterrupt
  <2> QED BY <1>5, <2>2
<1>8. \A d \in Cpus : running'[d] = IF d = c THEN Nadie ELSE running[d]
  BY <1>0, <1>4, <1>7, LiberaUna
<1>9. /\ intr'[c].en = "a_ready" /\ intr'[c].p = p /\ \A d \in Cpus : d # c => intr'[d] = intr[d]
  BY <1>0, <1>5, <1>7 DEF HiloCon
<1>10. /\ lista'["EXEC"] = lista["EXEC"] \ {p} /\ lista'["BLOCKED"] = lista["BLOCKED"]
  <2>1. "EXEC" \in Grupos /\ "BLOCKED" \in Grupos /\ "EXEC" # "BLOCKED"
    BY DEF Grupos
  <2>2. p \notin lista["BLOCKED"]
    BY <1>6, <2>1, SoloEnLista DEF IInv
  <2> QED BY <1>7, <2>1, <2>2
<1>11. Conversa(c)' /\ Quieta(c)'
  <2>1. /\ Espera(c)' /\ Pasado(c)'
    BY <1>1, <1>2, <1>4 DEF Espera, Pasado
  <2>2. /\ aInt[c] = <<>> /\ cpu[c].pend /\ cpu[c].en = "aguarda" /\ cpu[c].int = 0
        /\ desalojado = 0
    BY <1>1, <1>3 DEF Avisado
  <2>3. Aguarda(c)'
    BY <1>1, <1>4, <1>5, <2>1, <2>2 DEF Aguarda, Tiene
  <2>4. Desalojado(c)'
    BY <1>1, <1>4, <1>8, <1>9, <2>2, <2>3 DEF Desalojado, Tiene
  <2>5. Quieta(c)
    BY <1>0, <1>2 DEF Quietas, Espera
  <2>6. Quieta(c)'
    BY <1>1, <2>1, <2>2, <2>5 DEF Quieta
  <2> QED BY <2>1, <2>4, <2>6 DEF Conversa
<1>12. Charlas' /\ Quietas'
  BY <1>0, <1>1, <1>2, <1>8, <1>9, <1>11, InterruptVecinos
<1>13. \A d \in Cpus : disp[d].en = "recibe"
  BY <1>0, <1>2 DEF Quietas, Espera, Quieta
<1>14. Marcadas'
  <2>1. Range(listaCPU)' = Cpus
    BY <1>0, <1>1 DEF Marcadas
  <2>2. \A d, f \in Cpus : running'[d] = running'[f] /\ running'[d] # Nadie => d = f
    BY <1>0, <1>8 DEF Marcadas
  <2>3. ASSUME NEW d \in Cpus, running'[d] # Nadie
        PROVE  running'[d] \in lista'["EXEC"] \/ EnDespacho(running[d])' \/ disp'[d].en = "exit_libera"
    <3>1. d # c /\ running'[d] = running[d] /\ running[d] # p
      BY <1>0, <1>4, <1>8, <2>3 DEF Marcadas
    <3> QED BY <1>0, <1>1, <1>10, <2>3, <3>1 DEF Marcadas, EnDespacho
  <2> QED BY <1>1, <1>13, <2>1, <2>2, <2>3 DEF Marcadas, EnDespacho
<1>15. Bloqueos'
  BY <1>0, <1>1, <1>10, <1>13 DEF Bloqueos, Pedida
<1>16. Guardado'
  <2>1. ASSUME NEW q \in Pids, Fuera(q)' PROVE pcb'[q].pc = hecho'[q]
    <3>0. pcb \in [Pids -> [pc : Nat, rafaga : Rafagas \cup {-1}, est : Int]]
      BY <1>0 DEF TypeOK, TiposKernel
    <3>1. CASE q = p
      BY <1>1, <1>7, <3>0, <3>1
    <3>2. CASE q # p
      <4>1. Fuera(q)
        BY <1>1, <1>9, <1>10, <2>1, <3>2 DEF Fuera, EnDespacho, EnVuelta
      <4> QED BY <1>0, <1>1, <1>7, <3>0, <3>2, <4>1 DEF Guardado
    <3> QED BY <3>1, <3>2
  <2> QED BY <2>1 DEF Guardado
<1> QED BY <1>12, <1>14, <1>15, <1>16 DEF AInv

\* agregar_a_READY and sem_post(binario_desalojado).
LEMMA ADesalojado ==
  ASSUME IInv, AInv, NEW c \in Cpus, DesalojadoAReady(c)
  PROVE  AInv'
<1> USE DEF procVars, admVars, cpusVars, hilosVars, aVars, deVars
<1>0. /\ TypeOK /\ Charlas /\ Quietas /\ Marcadas /\ Bloqueos /\ Guardado
      /\ DOMAIN intr = Cpus /\ ready \in Seq(Pids)
  BY DEF AInv, IInv, TypeOK, TiposHilos, TiposKernel
<1>1. /\ intr[c].en = "a_ready" /\ intr'[c].en = "recibe"
      /\ desalojado' = desalojado + 1 /\ ready' = Append(ready, intr[c].p)
      /\ UNCHANGED <<plan, disp, aCpu, aInt, deCpu, deInt, cpu, hecho, enIO, nuevos, listaCPU,
                     running, lista, pcb>>
      /\ \A d \in Cpus : d # c => intr'[d] = intr[d]
  BY <1>0 DEF DesalojadoAReady, agregar_a_READY, HiloQueda
<1>2. Espera(c) /\ \A d \in Cpus : d # c => ~Espera(d)
  BY <1>0, <1>1, SoloLaDesalojada
<1>3. Desalojado(c) /\ desalojado = 0
  BY <1>0, <1>1, <1>2 DEF Charlas, Conversa, Desalojado, Avisado
<1>4. Conversa(c)' /\ Quieta(c)'
  <2>1. Espera(c)' /\ Aguarda(c)'
    BY <1>1, <1>2, <1>3 DEF Espera, Aguarda, Desalojado, Pasado
  <2>2. Desalojado(c)'
    BY <1>1, <1>3, <2>1 DEF Desalojado
  <2>3. Quieta(c)
    BY <1>0, <1>2 DEF Quietas, Espera
  <2>4. Quieta(c)'
    BY <1>1, <2>1, <2>3, QuietaIgual
  <2> QED BY <2>1, <2>2, <2>4 DEF Conversa
<1>5. Charlas' /\ Quietas'
  BY <1>0, <1>1, <1>2, <1>4, InterruptVecinos
<1>6. Marcadas' /\ Bloqueos'
  BY <1>0, <1>1 DEF Marcadas, Bloqueos, EnDespacho, Pedida
<1>7. Guardado'
  <2>1. PICK p \in Pids : p = intr[c].p
    BY <1>0, <1>1 DEF TypeOK, TiposHilos
  <2>2. Range(ready') = Range(ready) \cup {p}
    BY <1>0, <1>1, <2>1, AppendPropiedades
  <2>3. Fuera(p)
    BY <1>1, <2>1 DEF Fuera, EnVuelta
  <2>4. \A q \in Pids : Fuera(q)' => Fuera(q)
    BY <1>1, <2>2, <2>3 DEF Fuera, EnVuelta, EnDespacho
  <2> QED BY <1>0, <1>1, <2>4 DEF Guardado
<1> QED BY <1>5, <1>6, <1>7 DEF AInv

-----------------------------------------------------------------------------
(* The planner, with no races.                                               *)

\* The CPUs and what they say are as they were, and the planner preempts the
\* same one, or none.
LEMMA CharlasIguales ==
  ASSUME Charlas, UNCHANGED <<running, intr, disp, aInt, deInt, aCpu, deCpu, cpu, hecho, desalojado>>,
         \A c \in Cpus : Espera(c)' = Espera(c)
  PROVE  Charlas'
<1>1. ASSUME NEW c \in Cpus PROVE Conversa(c)'
  <2>1. Conversa(c) /\ Calla(c) /\ Espera(c)' = Espera(c)
    BY DEF Charlas, Calla
  <2> QED BY <2>1, ConversaIgual
<1> QED BY <1>1 DEF Charlas

\* A planner that is not preempting does not find the CPUs in a special state.
LEMMA SinPreferencia ==
  ASSUME plan.en \notin {"desaloja", "confirma"}
  PROVE  Quietas /\ \A c \in Cpus : Espera(c) = FALSE
BY DEF Quietas, Espera

\* The same after the step.
LEMMA SinPreferenciaPrima ==
  ASSUME plan'.en \notin {"desaloja", "confirma"}
  PROVE  Quietas' /\ \A c \in Cpus : Espera(c)' = FALSE
BY DEF Quietas, Espera

\* The planner wakes: the estimates change, the order of READY too, nothing else.
LEMMA ADespierta ==
  ASSUME IInv, AInv, CortoDespierta
  PROVE  AInv'
<1> USE DEF procVars, admVars, cpusVars, hilosVars, aVars, deVars
<1>0. /\ TypeOK /\ TiposKernel /\ Charlas /\ Marcadas /\ Bloqueos /\ Guardado /\ ready \in Seq(Pids)
      /\ plan.en = "espera"
  BY DEF AInv, IInv, TypeOK, TiposKernel, CortoDespierta
<1>1. UNCHANGED <<running, intr, disp, aInt, deInt, aCpu, deCpu, cpu, hecho, desalojado, nuevos,
                  lista, listaCPU, enIO>>
  BY DEF CortoDespierta
<1>2. /\ plan'.en \in {"espera", "busca"} /\ Range(ready') = Range(ready)
      /\ \A p \in Pids : pcb'[p].pc = pcb[p].pc
  <2>1. CASE ready = <<>>
    BY <1>0, <2>1 DEF CortoDespierta
  <2>2. CASE ready # <<>>
    <3>1. /\ pcb' = Estimadas /\ ready' = OrdenadaPor(ready, Estimadas)
          /\ plan' = [plan EXCEPT !.en = "busca", !.p = Head(ready')]
      BY <2>2 DEF CortoDespierta
    <3>2. /\ \A p \in Pids : Estimadas[p].est \in Int /\ Estimadas[p].pc = pcb[p].pc
      BY <1>0, EstimadasTipo
    <3>3. Range(ready') = Range(ready)
      BY <1>0, <3>1, <3>2, OrdenadaPropiedades
    <3>4. plan'.en = "busca"
      BY <1>0, <3>1 DEF TypeOK, TiposHilos
    <3> QED BY <3>1, <3>2, <3>3, <3>4
  <2> QED BY <2>1, <2>2
<1>3. Quietas' /\ Charlas'
  <2>1. \A c \in Cpus : Espera(c)' = Espera(c)
    BY <1>0, <1>2, SinPreferencia, SinPreferenciaPrima
  <2> QED BY <1>0, <1>1, <1>2, <2>1, CharlasIguales, SinPreferenciaPrima
<1>4. \A p : ~EnDespacho(p) /\ ~EnDespacho(p)'
  BY <1>0, <1>2 DEF EnDespacho
<1>5. Marcadas'
  BY <1>0, <1>1, <1>4 DEF Marcadas
<1>6. Bloqueos'
  BY <1>1, <1>0 DEF Bloqueos, Pedida
<1>7. Guardado'
  <2>1. \A p \in Pids : Fuera(p)' => Fuera(p)
    BY <1>1, <1>2, <1>4 DEF Fuera, EnVuelta
  <2> QED BY <1>0, <1>1, <1>2, <2>1 DEF Guardado
<1> QED BY <1>3, <1>5, <1>6, <1>7 DEF AInv

\* A CPU that had no process is marked with the one of the planner, which is in
\* READY and of no CPU; its PCB is up to date.
Marca(c) ==
  /\ running[c] = Nadie /\ running' = [running EXCEPT ![c] = plan.p]
  /\ plan.en \in {"busca", "confirma"} /\ plan'.en = "a_exec" /\ plan'.p = plan.p
  /\ UNCHANGED <<lista, disp, listaCPU, ready, nuevos, pcb, intr, hecho, enIO, deCpu, deInt, aInt, cpu>>

\* Marking a free CPU with the process of the planner keeps what is said of marks,
\* of BLOCKED and of the PCBs.
LEMMA MarcaBien ==
  ASSUME IInv, AInv, NEW c \in Cpus, Marca(c)
  PROVE  /\ Marcadas' /\ Bloqueos' /\ Guardado' /\ Quietas'
         /\ plan.p \in Pids /\ pcb[plan.p].pc = hecho[plan.p] /\ \A d \in Cpus : running[d] # plan.p
         /\ \A d \in Cpus : running'[d] = IF d = c THEN plan.p ELSE running[d]
<1>0. /\ TypeOK /\ Charlas /\ Quietas /\ Marcadas /\ Bloqueos /\ Guardado /\ DOMAIN running = Cpus
      /\ Nadie \notin Pids
  BY Constantes DEF AInv, IInv, TypeOK, TiposKernel
<1>1. PICK p \in Pids : p = plan.p /\ p \in Range(ready)
  BY <1>0 DEF Marca, TypeOK, TiposHilos, IInv, PunteroEnReady
<1>2. Apartado(p)
  BY ApartadoEsta DEF IInv
<1>3. \A q : ~EnDespacho(q)
  BY DEF Marca, EnDespacho
<1>4. \A q : EnDespacho(q)' <=> q = p
  BY <1>1 DEF Marca, EnDespacho
<1>5. pcb[p].pc = hecho[p]
  BY <1>0, <1>1, <1>3 DEF Guardado, Fuera
<1>6. "EXEC" \in Grupos /\ p \notin lista["EXEC"] /\ ~EnManos(p)
  BY <1>1, <1>2 DEF Apartado, Grupos
<1>7. ASSUME NEW d \in Cpus PROVE running[d] # p
  <2>1. CASE disp[d].en = "exit_libera"
    <3>1. disp[d].p = running[d]
      BY <1>0, <2>1, Sirviendo
    <3> QED BY <1>6, <2>1, <3>1 DEF EnManos, EnSalida
  <2>2. CASE disp[d].en # "exit_libera"
    BY <1>0, <1>3, <1>6, <2>2 DEF Marcadas
  <2> QED BY <2>1, <2>2
<1>8. \A d \in Cpus : running'[d] = IF d = c THEN p ELSE running[d]
  BY <1>0, <1>1 DEF Marca
<1>9. UNCHANGED <<lista, disp, listaCPU, ready, nuevos, pcb, intr, hecho, enIO>>
  BY DEF Marca
<1>10. Marcadas'
  <2>1. Range(listaCPU)' = Cpus
    BY <1>0, <1>9 DEF Marcadas
  <2>2. \A d, f \in Cpus : running'[d] = running'[f] /\ running'[d] # Nadie => d = f
    BY <1>0, <1>7, <1>8 DEF Marcadas
  <2>3. ASSUME NEW d \in Cpus, running'[d] # Nadie
        PROVE  running'[d] \in lista'["EXEC"] \/ EnDespacho(running[d])' \/ disp'[d].en = "exit_libera"
    <3>1. CASE d = c
      BY <1>1, <1>8, <3>1 DEF EnDespacho, Marca
    <3>2. CASE d # c
      BY <1>0, <1>3, <1>8, <1>9, <2>3, <3>2 DEF Marcadas
    <3> QED BY <3>1, <3>2
  <2>4. \A d \in Cpus : disp'[d].en \in {"io_libera", "exit_busca"} => disp'[d].p \in lista'["EXEC"]
    BY <1>0, <1>9 DEF Marcadas
  <2> QED BY <2>1, <2>2, <2>3, <2>4 DEF Marcadas
<1>11. Bloqueos'
  <2>1. \A q : \A d \in Cpus : Pedida(d, q)' <=> Pedida(d, q)
    BY <1>9 DEF Pedida
  <2>2. ASSUME NEW d \in Cpus, disp'[d].en = "io_bloquea"
        PROVE  /\ disp'[d].p \in lista'["EXEC"] /\ disp'[d].pc = hecho'[disp'[d].p]
               /\ \A f \in Cpus : running'[f] # disp'[d].p
               /\ \A f \in Cpus : disp'[f].en = "io_bloquea" /\ disp'[f].p = disp'[d].p => f = d
    <3>1. /\ disp'[d] = disp[d] /\ disp[d].en = "io_bloquea"
      BY <1>9, <2>2
    <3>2. /\ disp[d].p \in lista["EXEC"] /\ disp[d].pc = hecho[disp[d].p]
          /\ \A f \in Cpus : running[f] # disp[d].p
          /\ \A f \in Cpus : disp[f].en = "io_bloquea" /\ disp[f].p = disp[d].p => f = d
      BY <1>0, <3>1 DEF Bloqueos
    <3> QED BY <1>6, <1>8, <1>9, <3>1, <3>2
  <2> HIDE DEF Pedida
  <2> QED BY <1>0, <1>9, <2>1, <2>2 DEF Bloqueos
<1>12. Guardado'
  <2>1. \A q \in Pids : Fuera(q)' => Fuera(q)
    BY <1>3, <1>9 DEF Fuera, EnVuelta
  <2> QED BY <1>0, <1>9, <2>1 DEF Guardado
<1>13. Quietas'
  BY DEF Marca, Quietas
<1> QED BY <1>1, <1>5, <1>7, <1>8, <1>10, <1>11, <1>12, <1>13

\* buscar_cpu_disponible with a free CPU: it is marked and sent the context.
LEMMA ABuscaHay ==
  ASSUME IInv, AInv, buscar_cpu_disponible, Libres # {}
  PROVE  AInv'
<1> USE DEF procVars, admVars, cpusVars, hilosVars, aVars, deVars
<1>0. /\ TypeOK /\ Charlas /\ DOMAIN running = Cpus /\ DOMAIN aCpu = Cpus /\ Nadie \notin Pids
      /\ plan.en = "busca"
  BY Constantes DEF AInv, IInv, TypeOK, TiposKernel, TiposCpu, buscar_cpu_disponible
<1>1. Min(Libres) \in Libres /\ Libres \subseteq DOMAIN listaCPU /\ listaCPU \in Seq(Cpus)
  <2>1. listaCPU \in Seq(Cpus) /\ Libres \in SUBSET Nat
    BY <1>0, LenProperties DEF TypeOK, TiposKernel, Libres
  <2> QED BY <2>1, MinEsta DEF Libres
<1>2. PICK c \in Cpus : c = listaCPU[Min(Libres)] /\ running[c] = Nadie
  BY <1>1, ElementOfSeq, LenProperties DEF Libres
<1>3. /\ running' = [running EXCEPT ![c] = plan.p]
      /\ aCpu' = Envia(aCpu, c, [op |-> "CONTEXTO", p |-> plan.p, pc |-> pcb[plan.p].pc])
      /\ plan' = [plan EXCEPT !.en = "a_exec"]
      /\ UNCHANGED <<lista, disp, listaCPU, ready, nuevos, pcb, intr, hecho, enIO, deCpu, deInt,
                     aInt, cpu, desalojado>>
  BY <1>2 DEF buscar_cpu_disponible
<1>4. plan'.en = "a_exec" /\ plan'.p = plan.p
  BY <1>0, <1>3 DEF TypeOK, TiposHilos
<1>5. Marca(c)
  BY <1>0, <1>2, <1>3, <1>4 DEF Marca
<1>6. /\ Marcadas' /\ Bloqueos' /\ Guardado' /\ Quietas'
      /\ plan.p \in Pids /\ pcb[plan.p].pc = hecho[plan.p] /\ \A d \in Cpus : running[d] # plan.p
      /\ \A d \in Cpus : running'[d] = IF d = c THEN plan.p ELSE running[d]
  BY <1>5, MarcaBien
<1>7. \A d \in Cpus : Espera(d) = FALSE /\ Espera(d)' = FALSE
  BY <1>0, <1>4, SinPreferencia, SinPreferenciaPrima
<1>8. Conversa(c)'
  <2>1. Libre(c)
    BY <1>0, <1>2, <1>7 DEF Charlas, Conversa, Enviado, Recibido, Llama, Corre, Cambio, Tiene
  <2>2. SinCharla(c)' /\ Pasado(c)' /\ Parada(c)'
    BY <1>3, <2>1 DEF Libre, SinCharla, Pasado, Parada
  <2>3. aCpu'[c] = <<[op |-> "CONTEXTO", p |-> plan.p, pc |-> hecho[plan.p]]>>
    BY <1>0, <1>3, <1>6, <2>1, UnMensaje DEF Libre, Envia
  <2>4. Enviado(c)'
    BY <1>3, <1>6, <2>1, <2>2, <2>3 DEF Enviado, Libre
  <2> QED BY <1>7, <2>4 DEF Conversa
<1>9. ASSUME NEW d \in Cpus, d # c PROVE Conversa(d)'
  <2>1. Conversa(d) /\ Calla(d) /\ Espera(d)' = Espera(d) /\ running'[d] = running[d]
    BY <1>0, <1>3, <1>6, <1>7, <1>9 DEF Charlas, Calla, Envia
  <2>2. intr'[d] = intr[d] /\ disp'[d] = disp[d] /\ cpu'[d] = cpu[d] /\ hecho' = hecho /\ desalojado' = desalojado
    BY <1>3
  <2> QED BY <2>1, <2>2, ConversaIgual
<1> QED BY <1>6, <1>8, <1>9 DEF AInv, Charlas

\* ... and with none: SJF gives up; SRT goes on when no CPU is in a system call,
\* and then every CPU is still.
LEMMA ABuscaNoHay ==
  ASSUME Carreras = {}, IInv, AInv, buscar_cpu_disponible, Libres = {}
  PROVE  AInv'
<1> USE DEF procVars, admVars, cpusVars, hilosVars, aVars, deVars
<1>0. /\ TypeOK /\ TiposA /\ Charlas /\ Marcadas /\ Bloqueos /\ Guardado
      /\ plan.en = "busca"
  BY TiposAEsta DEF AInv, IInv, buscar_cpu_disponible
<1>1. /\ UNCHANGED <<running, intr, disp, aInt, deInt, aCpu, deCpu, cpu, hecho, desalojado, nuevos,
                     ready, pcb, lista, listaCPU, enIO>>
      /\ plan'.en = "espera" \/ (plan'.en = "desaloja" /\ SinLlamadas)
  BY <1>0 DEF buscar_cpu_disponible, PlanQuieto, TypeOK, TiposHilos
<1>2. \A c \in Cpus : Espera(c) = FALSE /\ Espera(c)' = FALSE
  BY <1>0, <1>1 DEF Espera
<1>3. Charlas'
  BY <1>0, <1>1, <1>2, CharlasIguales
<1>4. Quietas'
  <2>1. CASE plan'.en = "espera"
    BY <2>1 DEF Quietas
  <2>2. ASSUME plan'.en = "desaloja", NEW c \in Cpus PROVE Quieta(c)'
    <3>1. /\ deCpu[c] = <<>> /\ disp[c].en = "recibe" /\ aCpu[c] = <<>>
          /\ ~cpu[c].esp => cpu[c].en # "vacia" /\ ~Bloqueante(c)
          /\ cpu[c].esp => cpu[c].ctx = 0
      BY <1>1, <2>2 DEF SinLlamadas
    <3>2. running[c] \in Pids
      <4>1. PICK i \in DOMAIN listaCPU : listaCPU[i] = c
        BY <1>0 DEF Marcadas, Range
      <4>2. running[c] # Nadie
        BY <4>1 DEF Libres
      <4> QED BY <1>0, <4>2 DEF TiposA, PidONadie
    <3>3. ~cpu[c].esp
      <4>1. Libre(c) \/ Enviado(c) \/ Recibido(c) \/ Llama(c) \/ Corre(c) \/ Cambio(c)
        BY <1>0, <1>2 DEF Charlas, Conversa
      <4>2. ~Libre(c) /\ ~Enviado(c)
        BY <1>0, <3>1, <3>2 DEF Libre, Enviado, TiposA
      <4>3. ~Llama(c)
        BY <3>1 DEF Llama
      <4>4. Recibido(c) => ~cpu[c].esp
        BY <3>1 DEF Recibido
      <4> QED BY <4>1, <4>2, <4>3, <4>4 DEF Corre, Cambio, Aguarda, Tiene
    <3>4. Bloqueante(c)' = Bloqueante(c)
      BY <1>1 DEF Bloqueante
    <3> QED BY <1>1, <3>1, <3>2, <3>3, <3>4 DEF Quieta
  <2> QED BY <1>1, <2>1, <2>2 DEF Quietas
<1>5. \A p : ~EnDespacho(p) /\ ~EnDespacho(p)'
  BY <1>0, <1>1 DEF EnDespacho
<1>6. Marcadas' /\ Bloqueos'
  BY <1>0, <1>1, <1>5 DEF Marcadas, Bloqueos, Pedida
<1>7. Guardado'
  BY <1>0, <1>1, <1>5 DEF Guardado, Fuera, EnVuelta
<1> QED BY <1>3, <1>4, <1>6, <1>7 DEF AInv

\* The preempted CPU confirmed: it is marked and sent the other context.
LEMMA AConfirma ==
  ASSUME IInv, AInv, ConfirmarDesalojo
  PROVE  AInv'
<1> USE DEF procVars, admVars, cpusVars, hilosVars, aVars, deVars
<1>0. /\ TypeOK /\ Charlas /\ DOMAIN running = Cpus /\ DOMAIN aCpu = Cpus /\ Nadie \notin Pids
      /\ plan.en = "confirma" /\ desalojado > 0
  BY Constantes DEF AInv, IInv, TypeOK, TiposKernel, TiposCpu, ConfirmarDesalojo
<1>1. PICK c \in Cpus : c = plan.c /\ Espera(c)
  BY <1>0 DEF TypeOK, TiposHilos, Espera
<1>2. Desalojado(c) /\ running[c] = Nadie /\ intr[c].en = "recibe" /\ aCpu[c] = <<>> /\ Aguarda(c)
  <2>1. desalojado # 0
    BY <1>0
  <2>2. Avisado(c) \/ Desalojado(c)
    BY <1>0, <1>1 DEF Charlas, Conversa
  <2>3. Desalojado(c)
    BY <2>1, <2>2 DEF Avisado
  <2> QED BY <2>1, <2>3 DEF Desalojado
<1>3. /\ running' = [running EXCEPT ![c] = plan.p]
      /\ aCpu' = Envia(aCpu, c, [op |-> "CONTEXTO_INTERRUPCION", p |-> plan.p, pc |-> pcb[plan.p].pc])
      /\ plan' = [plan EXCEPT !.en = "a_exec", !.c = Nadie]
      /\ UNCHANGED <<lista, disp, listaCPU, ready, nuevos, pcb, intr, hecho, enIO, deCpu, deInt,
                     aInt, cpu>>
  BY <1>1 DEF ConfirmarDesalojo
<1>4. plan'.en = "a_exec" /\ plan'.p = plan.p
  BY <1>0, <1>3 DEF TypeOK, TiposHilos
<1>5. Marca(c)
  BY <1>0, <1>2, <1>3, <1>4 DEF Marca
<1>6. /\ Marcadas' /\ Bloqueos' /\ Guardado' /\ Quietas'
      /\ plan.p \in Pids /\ pcb[plan.p].pc = hecho[plan.p] /\ \A d \in Cpus : running[d] # plan.p
      /\ \A d \in Cpus : running'[d] = IF d = c THEN plan.p ELSE running[d]
  BY <1>5, MarcaBien
<1>7. \A d \in Cpus : /\ Espera(d)' = FALSE
                      /\ d # c => Espera(d) = FALSE
  BY <1>1, <1>4, SinPreferenciaPrima DEF Espera
<1>8. Conversa(c)'
  <2>1. Aguarda(c)'
    BY <1>2, <1>3 DEF Aguarda, Pasado
  <2>2. aCpu'[c] = <<[op |-> "CONTEXTO_INTERRUPCION", p |-> plan.p, pc |-> hecho[plan.p]]>>
    BY <1>0, <1>2, <1>3, <1>6, UnMensaje DEF Envia
  <2>3. Cambio(c)'
    BY <1>2, <1>3, <1>6, <2>1, <2>2 DEF Cambio
  <2> QED BY <1>7, <2>3 DEF Conversa
<1>9. ASSUME NEW d \in Cpus, d # c PROVE Conversa(d)'
  <2>1. Conversa(d) /\ Calla(d) /\ Espera(d)' = Espera(d) /\ ~Espera(d) /\ running'[d] = running[d]
    BY <1>0, <1>3, <1>6, <1>7, <1>9 DEF Charlas, Calla, Envia
  <2>2. intr'[d] = intr[d] /\ disp'[d] = disp[d] /\ cpu'[d] = cpu[d] /\ hecho' = hecho
    BY <1>3
  <2> QED BY <2>1, <2>2, ConversaIgual
<1> QED BY <1>6, <1>8, <1>9 DEF AInv, Charlas

\* A CPU that is still, and that the planner does not wait for, executes.
LEMMA QuietaCorre ==
  ASSUME TypeOK, Charlas, NEW c \in Cpus, Quieta(c), ~Espera(c)
  PROVE  Corre(c) /\ ~Bloqueante(c) /\ running[c] \in Pids
<1>1. /\ running[c] \in Pids /\ deCpu[c] = <<>> /\ disp[c].en = "recibe" /\ aCpu[c] = <<>>
      /\ ~cpu[c].esp /\ cpu[c].en # "vacia" /\ ~Bloqueante(c) /\ Nadie \notin Pids
  BY Constantes DEF Quieta
<1>2. Libre(c) \/ Enviado(c) \/ Recibido(c) \/ Llama(c) \/ Corre(c) \/ Cambio(c)
  BY DEF Charlas, Conversa
<1>3. ~Libre(c) /\ ~Enviado(c) /\ ~Cambio(c)
  BY <1>1 DEF Libre, Enviado, Cambio
<1>4. ~Recibido(c) /\ ~Llama(c)
  BY <1>1 DEF Recibido, Llama, Parada
<1> QED BY <1>1, <1>2, <1>3, <1>4

\* buscar_cpu_disponible_desalojo: the list of CPUs is in another order; the one
\* that gets the interrupt executes, or the planner gives up or falls.
LEMMA ADesaloja ==
  ASSUME IInv, AInv, Carreras = {}, buscar_cpu_disponible_desalojo
  PROVE  AInv'
<1> USE DEF procVars, admVars, cpusVars, hilosVars, aVars, deVars
<1>0. /\ TypeOK /\ TiposA /\ Charlas /\ Quietas /\ Marcadas /\ Bloqueos /\ Guardado
      /\ plan.en = "desaloja" /\ DOMAIN aInt = Cpus /\ listaCPU \in Seq(Cpus) /\ desalojado \in Nat
  BY TiposAEsta DEF AInv, IInv, TypeOK, TiposKernel, TiposCpu, buscar_cpu_disponible_desalojo
<1>1. UNCHANGED <<running, intr, disp, deInt, aCpu, deCpu, cpu, hecho, desalojado, nuevos,
                  ready, pcb, lista, enIO>>
  BY DEF buscar_cpu_disponible_desalojo
<1>2. Range(listaCPU') = Range(listaCPU) /\ listaCPU' \in Seq(Cpus) /\ DOMAIN listaCPU' = DOMAIN listaCPU
  <2>1. PICK f \in Bijection(DOMAIN listaCPU, DOMAIN listaCPU) :
          listaCPU' = [i \in DOMAIN listaCPU |-> listaCPU[f[i]]]
    BY DEF buscar_cpu_disponible_desalojo
  <2> QED BY <1>0, <2>1, PermutacionPropiedades
<1>3. \A p : ~EnDespacho(p)
  BY <1>0 DEF EnDespacho
<1>4. plan'.en # "a_exec" => Marcadas' /\ Bloqueos' /\ Guardado'
  <2>1. plan'.en # "a_exec" => \A p : ~EnDespacho(p)'
    BY DEF EnDespacho
  <2>2. plan'.en # "a_exec" => Marcadas'
    BY <1>0, <1>1, <1>2, <1>3, <2>1 DEF Marcadas
  <2>3. Bloqueos'
    BY <1>0, <1>1 DEF Bloqueos, Pedida
  <2>4. plan'.en # "a_exec" => Guardado'
    BY <1>0, <1>1, <1>3, <2>1 DEF Guardado, Fuera, EnVuelta
  <2> QED BY <2>2, <2>3, <2>4
<1>5. PICK v, q : v = Head(listaCPU') /\ q = running[v]
  OBVIOUS
<1>6. CASE listaCPU = <<>> \/ q = Nadie
  <2>1. UNCHANGED <<plan, aInt>>
    BY <1>5, <1>6 DEF buscar_cpu_disponible_desalojo
  <2>2. \A c \in Cpus : Espera(c)' = Espera(c)
    BY <2>1 DEF Espera
  <2>3. Charlas'
    BY <1>0, <1>1, <2>1, <2>2, CharlasIguales
  <2>4. Quietas'
    <3>1. ASSUME NEW c \in Cpus PROVE Quieta(c)'
      <4>1. Quieta(c) /\ Espera(c)' = Espera(c)
        BY <1>0, <2>2 DEF Quietas
      <4> QED BY <1>1, <4>1, QuietaIgual
    <3> QED BY <3>1 DEF Quietas
  <2> QED BY <1>0, <1>4, <2>1, <2>3, <2>4 DEF AInv
<1>7. CASE listaCPU # <<>> /\ q # Nadie
  <2>1. \/ plan' = PlanQuieto /\ aInt' = aInt
        \/ /\ BanderaBaja(v) /\ aInt' = Envia(aInt, v, q)
           /\ plan' = [plan EXCEPT !.en = "confirma", !.c = v]
    BY <1>5, <1>7 DEF buscar_cpu_disponible_desalojo
  <2>2. CASE plan' = PlanQuieto /\ aInt' = aInt
    <3>1. plan'.en = "espera"
      BY <2>2 DEF PlanQuieto
    <3>2. \A c \in Cpus : Espera(c)' = Espera(c)
      BY <1>0, <3>1 DEF Espera
    <3>3. Charlas' /\ Quietas'
      BY <1>0, <1>1, <2>2, <3>1, <3>2, CharlasIguales, SinPreferenciaPrima
    <3> QED BY <1>4, <3>1, <3>3 DEF AInv
  <2>3. CASE /\ BanderaBaja(v) /\ aInt' = Envia(aInt, v, q)
             /\ plan' = [plan EXCEPT !.en = "confirma", !.c = v]
    <3>1. v \in Cpus
      <4>1. listaCPU' # <<>>
        BY <1>0, <1>2, <1>7, LenProperties
      <4> QED BY <1>2, <1>5, <4>1, HeadTailProperties
    <3>2. plan'.en = "confirma" /\ plan'.c = v
      BY <1>0, <2>3 DEF TypeOK, TiposHilos
    <3>3. \A c \in Cpus : ~Espera(c)
      BY <1>0 DEF Espera
    <3>4. \A c \in Cpus : Espera(c)' <=> c = v
      BY <3>2 DEF Espera
    <3>5. \A c \in Cpus : Quieta(c) /\ Corre(c) /\ ~Bloqueante(c) /\ running[c] \in Pids
      BY <1>0, <3>3, QuietaCorre DEF Quietas
    <3>6. Quietas'
      <4>1. ASSUME NEW c \in Cpus PROVE Quieta(c)'
        <5>1. Quieta(c) /\ ~Espera(c)
          BY <3>3, <3>5
        <5> QED BY <1>1, <5>1, QuietaIgual
      <4> QED BY <4>1 DEF Quietas
    <3>7. desalojado = 0
      BY <1>0 DEF IInv, UnDesalojo
    <3>8. Conversa(v)'
      <4>1. Corre(v) /\ Tiene(v) /\ ~cpu[v].pend
        BY <2>3, <3>1, <3>5 DEF BanderaBaja, Corre
      <4>2. /\ cpu[v].int = 0 /\ cpu[v].en \in {"ciclo", "revisa"} /\ aInt[v] = <<>>
            /\ deInt[v] = <<>> /\ intr[v].en = "recibe"
        BY <4>1 DEF Corre, SinCharla
      <4>3. aInt'[v] = <<running[v]>>
        BY <1>0, <1>5, <2>3, <3>1, <4>2, UnMensaje DEF Envia
      <4>4. Tiene(v)'
        BY <1>1, <4>1 DEF Tiene, Pasado
      <4>5. Avisado(v)'
        BY <1>1, <3>7, <4>1, <4>2, <4>3, <4>4 DEF Avisado
      <4> QED BY <3>1, <3>4, <4>5 DEF Conversa
    <3>9. ASSUME NEW c \in Cpus, c # v PROVE Conversa(c)'
      <4>1. aInt'[c] = aInt[c]
        BY <1>0, <2>3, <3>9 DEF Envia
      <4>2. Espera(c)' = FALSE /\ Espera(c) = FALSE
        BY <3>3, <3>4, <3>9 DEF Espera
      <4>3. Conversa(c) /\ Calla(c) /\ Espera(c)' = Espera(c)
        BY <1>0, <1>1, <4>1, <4>2 DEF Charlas, Calla
      <4>4. /\ running'[c] = running[c] /\ intr'[c] = intr[c] /\ disp'[c] = disp[c] /\ cpu'[c] = cpu[c]
            /\ hecho' = hecho /\ desalojado' = desalojado
        BY <1>1
      <4> QED BY <4>3, <4>4, ConversaIgual
    <3> QED BY <1>4, <3>2, <3>6, <3>8, <3>9 DEF AInv, Charlas
  <2> QED BY <2>1, <2>2, <2>3
<1> QED BY <1>6, <1>7

\* The process leaves READY and enters EXEC.
LEMMA AReadyAExec ==
  ASSUME IInv, AInv, ReadyAExec
  PROVE  AInv'
<1> USE DEF procVars, admVars, cpusVars, hilosVars, aVars, deVars
<1>0. /\ TypeOK /\ Charlas /\ Marcadas /\ Bloqueos /\ Guardado
      /\ plan.en = "a_exec" /\ DOMAIN lista = Grupos /\ ready \in Seq(Pids)
  BY DEF AInv, IInv, TypeOK, TiposKernel, ReadyAExec
<1>1. /\ UNCHANGED <<running, intr, disp, aInt, deInt, aCpu, deCpu, cpu, hecho, desalojado, nuevos,
                     pcb, listaCPU, enIO>>
      /\ plan'.en = "espera" /\ ready' = RemoveFirst(ready, plan.p)
      /\ lista' = [lista EXCEPT !["EXEC"] = @ \cup {plan.p}]
  BY DEF ReadyAExec, PlanQuieto
<1>2. PICK p \in Pids : p = plan.p /\ p \in Range(ready)
  BY <1>0 DEF TypeOK, TiposHilos, IInv, PunteroEnReady
<1>3. Range(ready') = Range(ready) \ {p}
  BY <1>0, <1>1, <1>2, RemoveFirstPropiedades DEF IInv, UnSoloLugar
<1>4. lista'["EXEC"] = lista["EXEC"] \cup {p} /\ lista'["BLOCKED"] = lista["BLOCKED"]
  BY <1>0, <1>1, <1>2 DEF Grupos
<1>5. \A q : (EnDespacho(q) <=> q = p) /\ ~EnDespacho(q)'
  BY <1>0, <1>1, <1>2 DEF EnDespacho
<1>6. Charlas' /\ Quietas'
  <2>1. \A c \in Cpus : Espera(c)' = Espera(c)
    BY <1>0, <1>1 DEF Espera
  <2> QED BY <1>0, <1>1, <2>1, CharlasIguales, SinPreferenciaPrima
<1>7. Marcadas'
  BY <1>0, <1>1, <1>4, <1>5 DEF Marcadas
<1>8. Bloqueos'
  BY <1>0, <1>1, <1>4 DEF Bloqueos, Pedida
<1>9. Guardado'
  <2>1. ASSUME NEW q \in Pids, Fuera(q)' PROVE Fuera(q)
    <3>1. Apartado(p)
      BY ApartadoEsta DEF IInv
    <3>2. p \notin nuevos /\ p \notin lista["BLOCKED"] /\ ~EnManos(p)
      BY <1>2, <3>1 DEF Apartado, Grupos
    <3>3. ~Fuera(p)'
      BY <1>1, <1>3, <1>4, <3>2 DEF Fuera, EnManos, EnVuelta
    <3>4. q # p
      BY <2>1, <3>3
    <3> QED BY <1>1, <1>3, <1>4, <1>5, <2>1, <3>4 DEF Fuera, EnVuelta
  <2> QED BY <1>0, <1>1, <2>1 DEF Guardado
<1> QED BY <1>6, <1>7, <1>8, <1>9 DEF AInv

\* A step of the planner.
LEMMA APlanificador ==
  ASSUME Carreras = {}, IInv, AInv, Planificador
  PROVE  AInv'
BY ADespierta, ABuscaHay, ABuscaNoHay, ADesaloja, AConfirma, AReadyAExec DEF Planificador

-----------------------------------------------------------------------------
(* Admissions and ends of IO, with no races.                                 *)

\* What touches neither the planner, nor the CPUs, nor their threads.
LEMMA ListasSolas ==
  ASSUME Charlas, Quietas,
         UNCHANGED <<plan, running, intr, disp, aInt, deInt, aCpu, deCpu, cpu, hecho, desalojado>>
  PROVE  Charlas' /\ Quietas'
<1>1. \A c \in Cpus : Espera(c)' = Espera(c)
  BY DEF Espera
<1>2. Charlas'
  BY <1>1, CharlasIguales
<1>3. ASSUME NEW c \in Cpus, Quieta(c) PROVE Quieta(c)'
  BY <1>1, <1>3, QuietaIgual
<1> QED BY <1>2, <1>3 DEF Quietas

\* A new process enters READY.
LEMMA AAdmite ==
  ASSUME IInv, AInv, NEW p \in Pids, Admitir(p)
  PROVE  AInv'
<1> USE DEF procVars, admVars, cpusVars, hilosVars, aVars, deVars
<1>0. /\ Charlas /\ Quietas /\ Marcadas /\ Bloqueos /\ Guardado /\ ready \in Seq(Pids)
      /\ p \in nuevos
  BY DEF AInv, IInv, TypeOK, TiposKernel, Admitir
<1>1. /\ UNCHANGED <<plan, running, intr, disp, aInt, deInt, aCpu, deCpu, cpu, hecho, desalojado,
                     pcb, lista, listaCPU, enIO>>
      /\ nuevos' = nuevos \ {p} /\ ready' = Append(ready, p)
  BY DEF Admitir, agregar_a_READY
<1>2. Charlas' /\ Quietas'
  BY <1>0, <1>1, ListasSolas
<1>3. Marcadas' /\ Bloqueos'
  BY <1>0, <1>1 DEF Marcadas, Bloqueos, EnDespacho, Pedida
<1>4. Guardado'
  <2>1. Range(ready') = Range(ready) \cup {p}
    BY <1>0, <1>1, AppendPropiedades
  <2>2. Fuera(p)
    BY <1>0 DEF Fuera
  <2>3. \A q \in Pids : Fuera(q)' => Fuera(q)
    BY <1>1, <2>1, <2>2 DEF Fuera, EnVuelta, EnDespacho
  <2> QED BY <1>0, <1>1, <2>3 DEF Guardado
<1> QED BY <1>2, <1>3, <1>4 DEF AInv

\* A device ends the only request of a process that is BLOCKED.
LEMMA AFinIO ==
  ASSUME IInv, AInv, NEW p \in Pids, FinIO(p)
  PROVE  AInv'
<1> USE DEF procVars, admVars, cpusVars, hilosVars, aVars, deVars
<1>0. /\ Charlas /\ Quietas /\ Marcadas /\ Bloqueos /\ Guardado /\ ready \in Seq(Pids)
      /\ DOMAIN lista = Grupos /\ DOMAIN enIO = Pids
  BY DEF AInv, IInv, TypeOK, TiposKernel
<1>1. enIO[p] = 1 /\ p \in lista["BLOCKED"] /\ \A c \in Cpus : ~Pedida(c, p)
  <2>1. enIO[p] \in {0, 1} /\ enIO[p] > 0
    BY <1>0 DEF FinIO, Bloqueos
  <2>2. enIO[p] = 1
    BY <2>1
  <2> QED BY <1>0, <2>2 DEF Bloqueos
<1>2. /\ UNCHANGED <<plan, running, intr, disp, aInt, deInt, aCpu, deCpu, cpu, hecho, desalojado,
                     pcb, nuevos, listaCPU>>
      /\ lista' = [lista EXCEPT !["BLOCKED"] = @ \ {p}] /\ ready' = Append(ready, p)
      /\ enIO' = [enIO EXCEPT ![p] = @ - 1]
  BY <1>1 DEF FinIO, agregar_a_READY
<1>3. /\ lista'["EXEC"] = lista["EXEC"] /\ lista'["BLOCKED"] = lista["BLOCKED"] \ {p}
      /\ enIO'[p] = 0 /\ \A q \in Pids : q # p => enIO'[q] = enIO[q]
  BY <1>0, <1>1, <1>2 DEF Grupos
<1>4. Charlas' /\ Quietas'
  BY <1>0, <1>2, ListasSolas
<1>5. Marcadas'
  BY <1>0, <1>2, <1>3 DEF Marcadas, EnDespacho
<1>6. Bloqueos'
  <2>1. \A q : \A d \in Cpus : Pedida(d, q)' <=> Pedida(d, q)
    BY <1>2 DEF Pedida
  <2>2. \A d \in Cpus : disp'[d].en = "io_bloquea" =>
          /\ disp'[d].p \in lista'["EXEC"] /\ disp'[d].pc = hecho'[disp'[d].p]
          /\ \A f \in Cpus : running'[f] # disp'[d].p
          /\ \A f \in Cpus : disp'[f].en = "io_bloquea" /\ disp'[f].p = disp'[d].p => f = d
    BY <1>0, <1>2, <1>3 DEF Bloqueos
  <2> HIDE DEF Pedida
  <2>3. ASSUME NEW q \in Pids
        PROVE  /\ enIO'[q] \in {0, 1}
               /\ q \notin lista'["BLOCKED"] => enIO'[q] = 0 /\ \A d \in Cpus : ~Pedida(d, q)'
               /\ q \in lista'["BLOCKED"] => enIO'[q] = 1 \/ \E d \in Cpus : Pedida(d, q)'
               /\ enIO'[q] = 1 => \A d \in Cpus : ~Pedida(d, q)'
               /\ \A d, f \in Cpus : Pedida(d, q)' /\ Pedida(f, q)' => d = f
    <3>1. CASE q = p
      BY <1>1, <1>3, <2>1, <3>1
    <3>2. CASE q # p
      BY <1>0, <1>3, <2>1, <3>2 DEF Bloqueos
    <3> QED BY <3>1, <3>2
  <2> QED BY <2>2, <2>3 DEF Bloqueos
<1>7. Guardado'
  <2>1. Range(ready') = Range(ready) \cup {p}
    BY <1>0, <1>2, AppendPropiedades
  <2>2. Fuera(p)
    BY <1>1 DEF Fuera
  <2>3. \A q \in Pids : Fuera(q)' => Fuera(q)
    BY <1>2, <1>3, <2>1, <2>2 DEF Fuera, EnVuelta, EnDespacho
  <2> QED BY <1>0, <1>2, <2>3 DEF Guardado
<1> QED BY <1>4, <1>5, <1>6, <1>7 DEF AInv

-----------------------------------------------------------------------------
(* What holds with no races.                                                 *)

\* It holds at the start.
LEMMA AInicial == Init => AInv
<1> SUFFICES ASSUME Init PROVE AInv
  OBVIOUS
<1>1. ASSUME NEW c \in Cpus PROVE Conversa(c)
  <2>1. ~Espera(c)
    BY DEF Init, PlanQuieto, Espera
  <2>2. Libre(c)
    BY <1>1 DEF Init, HiloQuieto, CpuQuieta, Libre, SinCharla, Pasado, Parada
  <2> QED BY <2>1, <2>2 DEF Conversa
<1>2. Quietas
  BY DEF Init, PlanQuieto, Quietas
<1>3. Marcadas
  BY DEF Init, Marcadas, Cpus, HiloQuieto
<1>4. Bloqueos
  BY DEF Init, Bloqueos, Pedida, HiloQuieto
<1>5. Guardado
  BY DEF Init, Guardado
<1> QED BY <1>1, <1>2, <1>3, <1>4, <1>5 DEF AInv, Charlas

\* Every step keeps it.
LEMMA APaso == ASSUME Carreras = {}, IInv, AInv, [Next]_vars PROVE AInv'
<1>1. CASE UNCHANGED vars
  <2> USE <1>1 DEF vars, procVars, admVars, cpusVars, hilosVars, aVars, deVars
  <2>1. Charlas' /\ Quietas'
    BY ListasSolas DEF AInv
  <2> QED BY <2>1 DEF AInv, Marcadas, Bloqueos, Guardado, EnDespacho, Pedida, Fuera, EnVuelta
<1>2. CASE Next
  BY <1>2, AAdmite, AFinIO, APlanificador, ADispatch, AInterrumpe, ADesalojado, ACpu
     DEF Next, HiloInterrupt
<1> QED BY <1>1, <1>2

\* AInv is inductive when no unlucky moment is allowed.
THEOREM SinCarreras == Carreras = {} => (Spec => [](IInv /\ AInv))
<1> SUFFICES ASSUME Carreras = {} PROVE Spec => [](IInv /\ AInv)
  OBVIOUS
<1>1. Init => IInv /\ AInv
  BY InvInicial, AInicial
<1>2. IInv /\ AInv /\ [Next]_vars => IInv' /\ AInv'
  BY InvPaso, APaso
<1> QED BY <1>1, <1>2, PTL DEF Spec

\* What the invariant says of a CPU that executes.
LEMMA AlEjecutar ==
  ASSUME IInv, AInv, NEW c \in Cpus, cpu[c].en = "ciclo", ~cpu[c].esp
  PROVE  /\ Tiene(c) /\ Pasado(c)
         /\ cpu[c].pid \in lista["EXEC"] \/ (plan.en = "a_exec" /\ plan.p = cpu[c].pid)
         /\ \A d \in Cpus \ {c} : running[d] # cpu[c].pid
<1>0. Charlas /\ Marcadas /\ Nadie \notin Pids
  BY Constantes DEF AInv
<1>1. Tiene(c)
  BY <1>0 DEF Charlas, Conversa, Avisado, Desalojado, Aguarda, Libre, Enviado, Recibido, Llama,
     Corre, Cambio, Parada
<1>2. Pasado(c) /\ running[c] \in Pids /\ cpu[c].pid = running[c]
  BY <1>1 DEF Tiene
<1> QED BY <1>0, <1>1, <1>2 DEF Marcadas, EnDespacho, Pasado

\* With no races the kernel and the CPUs agree, for any number of both: the
\* process a CPU executes is the one its node has, it is in EXEC or on its way
\* there, and no other node has it (kernel_manejo_cpus.c:151-179).
THEOREM AcuerdoSinCarreras == Carreras = {} => (Spec => []AcuerdoConLaCpu)
<1> SUFFICES ASSUME Carreras = {} PROVE Spec => []AcuerdoConLaCpu
  OBVIOUS
<1>1. IInv /\ AInv => AcuerdoConLaCpu
  <2> SUFFICES ASSUME IInv, AInv, NEW c \in Cpus, Ejecutando(c)
               PROVE  /\ running[c] = cpu[c].pid
                      /\ cpu[c].pid \in lista["EXEC"] \/ (plan.en = "a_exec" /\ plan.p = cpu[c].pid)
                      /\ \A d \in Cpus \ {c} : running[d] # cpu[c].pid
    BY DEF AcuerdoConLaCpu
  <2>1. cpu[c].en = "ciclo" /\ ~cpu[c].esp
    BY DEF Ejecutando
  <2>2. /\ Tiene(c)
        /\ cpu[c].pid \in lista["EXEC"] \/ (plan.en = "a_exec" /\ plan.p = cpu[c].pid)
        /\ \A d \in Cpus \ {c} : running[d] # cpu[c].pid
    BY <2>1, AlEjecutar
  <2>3. running[c] = cpu[c].pid
    BY <2>2 DEF Tiene
  <2> QED BY <2>2, <2>3
<1> QED BY <1>1, SinCarreras, PTL

\* With no races every instruction is executed once and in order, however often a
\* process is preempted or blocks: the pc that the kernel keeps and sends is the
\* one of the last answer (check_interrupt, SYS_INTERRUPT, exec_a_blocked).
THEOREM ContinuaSinCarreras == Carreras = {} => (Spec => []ContinuaDondeIba)
<1> SUFFICES ASSUME Carreras = {} PROVE Spec => []ContinuaDondeIba
  OBVIOUS
<1>1. IInv /\ AInv => ContinuaDondeIba
  <2> SUFFICES ASSUME IInv, AInv, NEW c \in Cpus, cpu[c].en = "ciclo", ~cpu[c].esp
               PROVE  cpu[c].pc = hecho[cpu[c].pid]
    BY DEF ContinuaDondeIba
  <2>1. Tiene(c)
    BY AlEjecutar
  <2> QED BY <2>1 DEF Tiene
<1> QED BY <1>1, SinCarreras, PTL

\* With no races a process is BLOCKED exactly while it has a request, on its way
\* to a device or there, and it never has two (kernel_cpu_dispatch.c:29-32).
THEOREM BloqueadoSinCarreras == Carreras = {} => (Spec => []BloqueadoMientrasIO)
<1> SUFFICES ASSUME Carreras = {} PROVE Spec => []BloqueadoMientrasIO
  OBVIOUS
<1>1. IInv /\ AInv => BloqueadoMientrasIO
  <2> SUFFICES ASSUME IInv, AInv, NEW p \in Pids
               PROVE  enIO[p] + Cardinality({c \in Cpus : disp[c].en = "io_encola" /\ disp[c].p = p})
                        = IF p \in lista["BLOCKED"] THEN 1 ELSE 0
    BY DEF BloqueadoMientrasIO
  <2>1. PICK S : S = {c \in Cpus : disp[c].en = "io_encola" /\ disp[c].p = p}
    OBVIOUS
  <2>2. /\ enIO[p] \in {0, 1}
        /\ p \notin lista["BLOCKED"] => enIO[p] = 0 /\ \A c \in Cpus : ~Pedida(c, p)
        /\ p \in lista["BLOCKED"] => enIO[p] = 1 \/ \E c \in Cpus : Pedida(c, p)
        /\ enIO[p] = 1 => \A c \in Cpus : ~Pedida(c, p)
        /\ \A c, d \in Cpus : Pedida(c, p) /\ Pedida(d, p) => c = d
    BY DEF AInv, Bloqueos
  <2>3. CASE enIO[p] = 1
    <3>1. S = {} /\ p \in lista["BLOCKED"]
      BY <2>1, <2>2, <2>3 DEF Pedida
    <3>2. Cardinality(S) = 0
      BY <3>1, FS_EmptySet
    <3> QED BY <2>1, <2>3, <3>1, <3>2
  <2>4. CASE enIO[p] = 0 /\ p \notin lista["BLOCKED"]
    <3>1. S = {}
      BY <2>1, <2>2, <2>4 DEF Pedida
    <3>2. Cardinality(S) = 0
      BY <3>1, FS_EmptySet
    <3> QED BY <2>1, <2>4, <3>2
  <2>5. CASE enIO[p] = 0 /\ p \in lista["BLOCKED"]
    <3>1. PICK c \in Cpus : Pedida(c, p)
      BY <2>2, <2>5
    <3>2. S = {c}
      BY <2>1, <2>2, <3>1 DEF Pedida
    <3>3. Cardinality(S) = 1
      BY <3>2, FS_Singleton
    <3> QED BY <2>1, <2>5, <3>3
  <2> QED BY <2>2, <2>3, <2>4, <2>5
<1> QED BY <1>1, SinCarreras, PTL

\* Only a CPU that has a process is preempted, and its answer is about a process in
\* EXEC: the planner and the interrupt threads read no NULL.
LEMMA EnPiePaso ==
  ASSUME Carreras = {}, CpusConectadas # <<>>, IInv, AInv, KernelEnPie, [Next]_vars
  PROVE  KernelEnPie'
<1> USE DEF procVars, admVars, cpusVars, hilosVars, aVars, deVars
<1>1. ASSUME caido' # caido
      PROVE  buscar_cpu_disponible_desalojo \/ \E c \in Cpus : SysInterrupt(c)
  BY <1>1 DEF Next, vars, Admitir, FinIO, Planificador, CortoDespierta, buscar_cpu_disponible,
     ConfirmarDesalojo, ReadyAExec, HiloDispatch, SysComienzoIO, SysExit, RecibeLlamada, LiberarPorIO,
     BloquearPorIO, agregar_a_cola_por_IO, ExitBusca, ExitLibera, HiloInterrupt, DesalojadoAReady,
     CicloCpu, CpuEspera, CpuEjecuta, CpuVacia, check_interrupt, CpuAguarda, CpuLimpia,
     RecibeContexto, RecibeInterrupt
<1>2. CASE buscar_cpu_disponible_desalojo
  <2>0. /\ TypeOK /\ Charlas /\ Quietas /\ plan.en = "desaloja" /\ listaCPU \in Seq(Cpus) /\ Nadie \notin Pids
        /\ Range(listaCPU) = Cpus
    BY <1>2, Constantes DEF AInv, IInv, TypeOK, TiposKernel, Marcadas, buscar_cpu_disponible_desalojo
  <2>1. listaCPU # <<>>
    <3>1. \E c : c \in Cpus
      BY Constantes DEF Cpus, Range
    <3> QED BY <2>0, <3>1 DEF Range
  <2>2. listaCPU' \in Seq(Cpus) /\ listaCPU' # <<>>
    <3>1. PICK f \in Bijection(DOMAIN listaCPU, DOMAIN listaCPU) :
            listaCPU' = [i \in DOMAIN listaCPU |-> listaCPU[f[i]]]
      BY <1>2 DEF buscar_cpu_disponible_desalojo
    <3>2. listaCPU' \in Seq(Cpus) /\ DOMAIN listaCPU' = DOMAIN listaCPU
      BY <2>0, <3>1, PermutacionPropiedades
    <3> QED BY <2>0, <2>1, <3>2, LenProperties
  <2>3. PICK v \in Cpus : v = Head(listaCPU')
    BY <2>2, HeadTailProperties
  <2>4. running[v] \in Pids
    BY <2>0 DEF Quietas, Quieta, Espera
  <2>5. UNCHANGED caido
    BY <1>2, <2>0, <2>1, <2>3, <2>4 DEF buscar_cpu_disponible_desalojo
  <2> QED BY <2>5 DEF KernelEnPie
<1>3. ASSUME NEW c \in Cpus, SysInterrupt(c) PROVE KernelEnPie'
  <2>1. deInt[c] # <<>>
    BY <1>3 DEF SysInterrupt
  <2>2. Head(deInt[c]).p \in lista["EXEC"]
    BY <2>1, Contestada
  <2> QED BY <1>3, <2>2 DEF SysInterrupt, KernelEnPie
<1> QED BY <1>1, <1>2, <1>3 DEF KernelEnPie

\* With no races, and a CPU to preempt, the kernel does not fall of a NULL
\* dereference (kernel_manejo_cpus.c:163, kernel_cpu_interrupt.c:17).
THEOREM EnPieSinCarreras == Carreras = {} /\ CpusConectadas # <<>> => (Spec => []KernelEnPie)
<1> SUFFICES ASSUME Carreras = {}, CpusConectadas # <<>> PROVE Spec => []KernelEnPie
  OBVIOUS
<1>1. Init => KernelEnPie
  BY DEF Init, KernelEnPie
<1>2. IInv /\ AInv /\ KernelEnPie /\ [Next]_vars => KernelEnPie'
  BY EnPiePaso
<1> QED BY <1>1, <1>2, SinCarreras, PTL DEF Spec

-----------------------------------------------------------------------------
(* Every event posts one token of the short term. Without races they are     *)
(* enough: the planner never rests with a process in READY and a CPU free.   *)

\* The CPUs that the planner may still give, the threads about to post a token,
\* and the processes that wait for a CPU.
Ociosas == {c \in Cpus : running[c] = Nadie /\ ~Espera(c)}
Bloqueando == {c \in Cpus : disp[c].en = "io_bloquea"}
Pendientes == {p \in Range(ready) : ~EnDespacho(p)}

\* The tokens posted, to be posted, or in the hand of the planner.
Fichas == corto + Cardinality(Bloqueando) + (IF plan.en = "busca" THEN 1 ELSE 0)

\* There is a token for every process that could have a CPU.
FichasBastan == Cardinality(Ociosas) <= Fichas \/ Cardinality(Pendientes) <= Fichas

\* The process that leaves READY has its CPU already.
ConDueno == plan.en = "a_exec" => \E c \in Cpus : running[c] = plan.p

\* A list has finitely many elements.
LEMMA RangoFinito ==
  ASSUME NEW S, NEW s \in Seq(S)
  PROVE  IsFiniteSet(Range(s))
<1> DEFINE n == Len(s)
           f == [i \in 1..n |-> s[i]]
<1>1. n \in Nat /\ DOMAIN s = 1..n
  BY LenProperties
<1>2. IsFiniteSet(1..n)
  BY <1>1, FS_Interval
<1>3. Range(s) = {s[i] : i \in 1..n}
  BY <1>1 DEF Range
<1>4. f \in Surjection(1..n, Range(s))
  BY <1>3 DEF Surjection
<1> QED BY <1>2, <1>4, FS_Surjection

\* The CPUs are finitely many.
LEMMA CpusFinitas ==
  ASSUME NEW S \in SUBSET Cpus
  PROVE  IsFiniteSet(S) /\ Cardinality(S) \in Nat
<1>1. IsFiniteSet(Cpus)
  BY Constantes, RangoFinito DEF Cpus
<1> QED BY <1>1, FS_Subset, FS_CardinalityType

\* The processes of a list are finitely many.
LEMMA EnListaFinitos ==
  ASSUME NEW r \in Seq(Pids), NEW S \in SUBSET Range(r)
  PROVE  IsFiniteSet(S) /\ Cardinality(S) \in Nat
<1>1. IsFiniteSet(Range(r))
  BY RangoFinito
<1> QED BY <1>1, FS_Subset, FS_CardinalityType

\* One element more, at most.
LEMMA UnoMas ==
  ASSUME NEW A, IsFiniteSet(A), NEW x, NEW B \in SUBSET (A \cup {x})
  PROVE  Cardinality(B) <= Cardinality(A) + 1
<1>0. Cardinality(A) \in Nat
  BY FS_CardinalityType
<1>1. /\ IsFiniteSet(A \cup {x})
      /\ Cardinality(A \cup {x}) = IF x \in A THEN Cardinality(A) ELSE Cardinality(A) + 1
  BY FS_AddElement
<1>2. Cardinality(B) \in Nat /\ Cardinality(B) <= Cardinality(A \cup {x})
  BY <1>1, FS_Subset, FS_CardinalityType
<1> QED BY <1>0, <1>1, <1>2

\* One element less, at least.
LEMMA UnoMenos ==
  ASSUME NEW A, IsFiniteSet(A), NEW x \in A, NEW B \in SUBSET (A \ {x})
  PROVE  Cardinality(B) <= Cardinality(A) - 1
<1>1. IsFiniteSet(A \ {x}) /\ Cardinality(A \ {x}) = Cardinality(A) - 1
  BY FS_RemoveElement
<1>2. Cardinality(B) \in Nat /\ Cardinality(B) <= Cardinality(A \ {x})
  BY <1>1, FS_Subset, FS_CardinalityType
<1> QED BY <1>1, <1>2

\* The types of what is counted.
LEMMA CuentasTipo ==
  ASSUME TypeOK
  PROVE  /\ IsFiniteSet(Ociosas) /\ Cardinality(Ociosas) \in Nat
         /\ IsFiniteSet(Pendientes) /\ Cardinality(Pendientes) \in Nat
         /\ IsFiniteSet(Bloqueando) /\ Cardinality(Bloqueando) \in Nat
         /\ Fichas \in Nat
<1>1. ready \in Seq(Pids) /\ corto \in Nat
  BY DEF TypeOK, TiposKernel
<1>2. /\ Ociosas \in SUBSET Cpus /\ Bloqueando \in SUBSET Cpus
      /\ Pendientes \in SUBSET Range(ready)
  BY DEF Ociosas, Bloqueando, Pendientes
<1>3. /\ IsFiniteSet(Ociosas) /\ Cardinality(Ociosas) \in Nat
      /\ IsFiniteSet(Bloqueando) /\ Cardinality(Bloqueando) \in Nat
      /\ IsFiniteSet(Pendientes) /\ Cardinality(Pendientes) \in Nat
  BY <1>1, <1>2, CpusFinitas, EnListaFinitos
<1> QED BY <1>1, <1>3 DEF Fichas

\* The same after the step.
LEMMA CuentasTipoPrima ==
  ASSUME TypeOK'
  PROVE  /\ Cardinality(Ociosas)' \in Nat /\ Cardinality(Pendientes)' \in Nat
         /\ Cardinality(Bloqueando)' \in Nat /\ Fichas' \in Nat
<1>1. ready' \in Seq(Pids) /\ corto' \in Nat
  BY DEF TypeOK, TiposKernel
<1>2. /\ Ociosas' \in SUBSET Cpus /\ Bloqueando' \in SUBSET Cpus
      /\ Pendientes' \in SUBSET Range(ready')
  BY DEF Ociosas, Bloqueando, Pendientes
<1>3. /\ Cardinality(Ociosas)' \in Nat /\ Cardinality(Bloqueando)' \in Nat
      /\ Cardinality(Pendientes)' \in Nat
  BY <1>1, <1>2, CpusFinitas, EnListaFinitos
<1> QED BY <1>1, <1>3 DEF Fichas

\* A step that adds one CPU and one process brings a token; one that spends a token
\* takes one of each; and with none of either no token is needed.
LEMMA FichasTras ==
  ASSUME TypeOK, TypeOK', FichasBastan,
         \/ Ociosas' \subseteq Ociosas /\ Pendientes' \subseteq Pendientes /\ Fichas' >= Fichas
         \/ \E x, y : /\ Ociosas' \subseteq Ociosas \cup {x} /\ Pendientes' \subseteq Pendientes \cup {y}
                      /\ Fichas' >= Fichas + 1
         \/ \E x \in Ociosas, y \in Pendientes :
              /\ Ociosas' \subseteq Ociosas \ {x} /\ Pendientes' \subseteq Pendientes \ {y}
              /\ Fichas' >= Fichas - 1
         \/ Ociosas' = {} \/ Pendientes' = {}
  PROVE  FichasBastan'
<1>1. /\ IsFiniteSet(Ociosas) /\ Cardinality(Ociosas) \in Nat
      /\ IsFiniteSet(Pendientes) /\ Cardinality(Pendientes) \in Nat /\ Fichas \in Nat
  BY CuentasTipo
<1>2. Cardinality(Ociosas)' \in Nat /\ Cardinality(Pendientes)' \in Nat /\ Fichas' \in Nat
  BY CuentasTipoPrima
<1>3. Cardinality(Ociosas) <= Fichas \/ Cardinality(Pendientes) <= Fichas
  BY DEF FichasBastan
<1> HIDE DEF Fichas
<1>4. CASE Ociosas' \subseteq Ociosas /\ Pendientes' \subseteq Pendientes /\ Fichas' >= Fichas
  <2>1. Cardinality(Ociosas') <= Cardinality(Ociosas) /\ Cardinality(Pendientes') <= Cardinality(Pendientes)
    BY <1>1, <1>4, FS_Subset
  <2> QED BY <1>1, <1>2, <1>3, <1>4, <2>1 DEF FichasBastan
<1>5. ASSUME NEW x, NEW y, Ociosas' \subseteq Ociosas \cup {x}, Pendientes' \subseteq Pendientes \cup {y},
             Fichas' >= Fichas + 1
      PROVE  FichasBastan'
  <2>1. Cardinality(Ociosas') <= Cardinality(Ociosas) + 1 /\ Cardinality(Pendientes') <= Cardinality(Pendientes) + 1
    BY <1>1, <1>5, UnoMas
  <2> QED BY <1>1, <1>2, <1>3, <1>5, <2>1 DEF FichasBastan
<1>6. ASSUME NEW x \in Ociosas, NEW y \in Pendientes, Ociosas' \subseteq Ociosas \ {x},
             Pendientes' \subseteq Pendientes \ {y}, Fichas' >= Fichas - 1
      PROVE  FichasBastan'
  <2>1. Cardinality(Ociosas') <= Cardinality(Ociosas) - 1 /\ Cardinality(Pendientes') <= Cardinality(Pendientes) - 1
    BY <1>1, <1>6, UnoMenos
  <2> QED BY <1>1, <1>2, <1>3, <1>6, <2>1 DEF FichasBastan
<1>7. CASE Ociosas' = {} \/ Pendientes' = {}
  <2>1. Cardinality(Ociosas') = 0 \/ Cardinality(Pendientes') = 0
    BY <1>7, FS_EmptySet
  <2> QED BY <1>2, <2>1 DEF FichasBastan
<1> QED BY <1>4, <1>5, <1>6, <1>7

\* A process of READY is in no other list and in the hand of no thread.
LEMMA ListoEnReady ==
  ASSUME UnSoloLugar, NEW p \in Pids, p \in Range(ready)
  PROVE  /\ \A g \in Grupos : p \notin lista[g]
         /\ \A c \in Cpus : ~(disp[c].en = "exit_libera" /\ disp[c].p = p)
<1>1. <<"ready", Nadie>> \in Sitios /\ En(<<"ready", Nadie>>, p)
  BY SitiosPartes, EnPartes, Zenon
<1>2. ASSUME NEW g \in Grupos PROVE p \notin lista[g]
  <2>1. <<g, Nadie>> \in Sitios /\ <<g, Nadie>> # <<"ready", Nadie>>
    BY SitiosPartes DEF Grupos
  <2>2. ~En(<<g, Nadie>>, p)
    BY <1>1, <2>1, Zenon DEF UnSoloLugar
  <2> QED BY <2>2, EnPartes, Zenon
<1>3. ASSUME NEW c \in Cpus PROVE ~(disp[c].en = "exit_libera" /\ disp[c].p = p)
  <2>1. <<"disp", c>> \in Sitios /\ <<"disp", c>> # <<"ready", Nadie>>
    BY SitiosPartes
  <2>2. ~En(<<"disp", c>>, p)
    BY <1>1, <2>1, Zenon DEF UnSoloLugar
  <2> QED BY <2>2, EnPartes, Zenon
<1> QED BY <1>2, <1>3

\* A step that leaves alone what is counted.
LEMMA FichasIguales ==
  ASSUME FichasBastan, ConDueno, UNCHANGED <<running, disp, ready, plan, corto>>
  PROVE  FichasBastan' /\ ConDueno'
BY DEF FichasBastan, Fichas, Ociosas, Bloqueando, Pendientes, Espera, EnDespacho, ConDueno

\* A step that adds a process to READY, and a token.
LEMMA FichasListo ==
  ASSUME TypeOK, TypeOK', FichasBastan, ConDueno, NEW p \in Pids, agregar_a_READY(p),
         UNCHANGED <<running, disp, plan>>
  PROVE  FichasBastan' /\ ConDueno'
<1>1. Ociosas' = Ociosas /\ Bloqueando' = Bloqueando
  BY DEF Ociosas, Bloqueando, Espera
<1>2. Pendientes' \subseteq Pendientes \cup {p}
  <2>1. ready \in Seq(Pids)
    BY DEF TypeOK, TiposKernel
  <2>2. Range(ready') = Range(ready) \cup {p}
    BY <2>1, AppendPropiedades DEF agregar_a_READY
  <2> QED BY <2>2 DEF Pendientes, EnDespacho
<1>3. Fichas' = Fichas + 1
  <2>1. corto \in Nat /\ Cardinality(Bloqueando) \in Nat
    BY CuentasTipo DEF TypeOK, TiposKernel
  <2> QED BY <1>1, <2>1 DEF Fichas, agregar_a_READY
<1>4. Fichas \in Nat
  BY CuentasTipo
<1>5. FichasBastan'
  <2>1. Ociosas' \subseteq Ociosas \cup {p} /\ Fichas' >= Fichas + 1
    BY <1>1, <1>3, <1>4
  <2> QED BY <1>2, <2>1, FichasTras
<1> QED BY <1>5 DEF ConDueno

\* The planner: a token taken for a process of READY is in its hand until a CPU is
\* marked with the process or none is free.
LEMMA FichasPlanificador ==
  ASSUME TypeOK, TypeOK', PunteroEnReady, Marcadas, IsInjective(ready), FichasBastan, ConDueno, Planificador
  PROVE  FichasBastan' /\ ConDueno'
<1> USE DEF procVars, admVars, cpusVars, hilosVars, aVars, deVars
<1>0. /\ ready \in Seq(Pids) /\ corto \in Nat /\ Cardinality(Bloqueando) \in Nat /\ Fichas \in Nat
      /\ DOMAIN running = Cpus /\ Nadie \notin Pids
      /\ plan.en # "espera" => plan.p \in Pids
      /\ plan \in [en : {"espera", "busca", "desaloja", "confirma", "a_exec"},
                  p : PidONadie, c : Cpus \cup {Nadie}]
  BY CuentasTipo, Constantes DEF TypeOK, TiposKernel, TiposHilos
<1>1. CASE CortoDespierta
  <2>1. Ociosas' = Ociosas /\ Bloqueando' = Bloqueando /\ ~EnDespacho(plan.p)
    <3>1. plan.en = "espera" /\ plan'.en \in {"espera", "busca"} /\ UNCHANGED <<running, disp>>
      BY <1>1 DEF CortoDespierta, TypeOK, TiposHilos
    <3> QED BY <3>1 DEF Ociosas, Bloqueando, Espera, EnDespacho
  <2>2. CASE ready = <<>>
    <3>1. ready' = <<>>
      BY <1>1, <2>2 DEF CortoDespierta
    <3>2. Pendientes' = {}
      BY <3>1 DEF Pendientes, Range
    <3>3. ConDueno'
      BY <1>1, <2>2 DEF ConDueno, CortoDespierta
    <3> QED BY <3>2, <3>3, FichasTras
  <2>3. CASE ready # <<>>
    <3>1. /\ plan.en = "espera" /\ corto' = corto - 1 /\ ready' = OrdenadaPor(ready, Estimadas)
          /\ plan'.en = "busca"
      BY <1>1, <2>3 DEF CortoDespierta, TypeOK, TiposHilos
    <3>2. Range(ready') = Range(ready)
      <4>1. \A p \in Pids : Estimadas[p].est \in Int
        BY EstimadasTipo DEF TypeOK
      <4> QED BY <1>0, <3>1, <4>1, OrdenadaPropiedades
    <3>3. Pendientes' = Pendientes /\ ConDueno'
      BY <3>1, <3>2 DEF Pendientes, EnDespacho, ConDueno
    <3>4. Fichas' = Fichas
      BY <1>0, <2>1, <3>1 DEF Fichas
    <3> QED BY <1>0, <2>1, <3>3, <3>4, FichasTras
  <2> QED BY <2>2, <2>3
<1>2. CASE buscar_cpu_disponible
  <2>1. plan.en = "busca" /\ UNCHANGED <<ready, corto, disp, listaCPU>> /\ plan.p \in Range(ready)
    BY <1>2 DEF buscar_cpu_disponible, PunteroEnReady
  <2>2. CASE Libres # {}
    <3>1. PICK c \in Cpus : running[c] = Nadie /\ running' = [running EXCEPT ![c] = plan.p]
      <4>1. Libres \in SUBSET Nat /\ \A i \in Libres : listaCPU[i] \in Cpus /\ running[listaCPU[i]] = Nadie
        BY LenProperties, ElementOfSeq DEF Libres, TypeOK, TiposKernel
      <4>2. Min(Libres) \in Libres
        BY <2>2, <4>1, MinEsta
      <4> QED BY <1>2, <2>2, <4>1, <4>2 DEF buscar_cpu_disponible
    <3>2. plan'.en = "a_exec" /\ plan'.p = plan.p
      BY <1>2, <2>2 DEF buscar_cpu_disponible, TypeOK, TiposHilos
    <3>0. /\ plan.p \in Pids /\ plan.p # Nadie
          /\ \A d \in Cpus : running'[d] = IF d = c THEN plan.p ELSE running[d]
      BY <1>0, <2>1, <3>1
    <3>3. c \in Ociosas /\ Ociosas' \subseteq Ociosas \ {c}
      BY <2>1, <3>0, <3>1 DEF Ociosas, Espera
    <3>4. plan.p \in Pendientes /\ Pendientes' \subseteq Pendientes \ {plan.p}
      BY <2>1, <3>2 DEF Pendientes, EnDespacho
    <3>5. Fichas' = Fichas - 1 /\ ConDueno'
      <4>1. Bloqueando' = Bloqueando
        BY <2>1 DEF Bloqueando
      <4>2. Fichas = corto + Cardinality(Bloqueando) + 1 /\ Fichas' = corto + Cardinality(Bloqueando) + 0
        BY <2>1, <3>2, <4>1 DEF Fichas
      <4>3. ConDueno'
        BY <3>0, <3>2 DEF ConDueno
      <4> QED BY <1>0, <4>2, <4>3
    <3>6. Fichas' >= Fichas - 1
      BY <1>0, <3>5
    <3> QED BY <3>3, <3>4, <3>5, <3>6, FichasTras
  <2>3. CASE Libres = {}
    <3>1. running' = running /\ plan'.en \in {"espera", "desaloja"}
      BY <1>2, <2>3 DEF buscar_cpu_disponible, PlanQuieto, TypeOK, TiposHilos
    <3>2. \A c \in Cpus : running[c] # Nadie
      <4> SUFFICES ASSUME NEW c \in Cpus PROVE running[c] # Nadie
        OBVIOUS
      <4>1. PICK i \in DOMAIN listaCPU : listaCPU[i] = c
        BY DEF Marcadas, Range
      <4> QED BY <2>3, <4>1 DEF Libres
    <3>3. Ociosas' = {} /\ ConDueno'
      BY <3>1, <3>2 DEF Ociosas, ConDueno
    <3> QED BY <3>3, FichasTras
  <2> QED BY <2>2, <2>3
<1>3. CASE buscar_cpu_disponible_desalojo
  <2>1. /\ plan.en = "desaloja" /\ plan'.en \in {"espera", "desaloja", "confirma"}
        /\ UNCHANGED <<ready, corto, disp, running>>
    <3>1. plan.en = "desaloja" /\ UNCHANGED <<ready, corto, disp, running>>
      BY <1>3 DEF buscar_cpu_disponible_desalojo
    <3>2. plan' = plan \/ plan' = PlanQuieto \/ \E v : plan' = [plan EXCEPT !.en = "confirma", !.c = v]
      BY <1>3, Zenon DEF buscar_cpu_disponible_desalojo
    <3>3. plan'.en = plan.en \/ plan'.en = "espera" \/ plan'.en = "confirma"
      <4>1. ASSUME NEW v, plan' = [plan EXCEPT !.en = "confirma", !.c = v] PROVE plan'.en = "confirma"
        BY <1>0, <4>1
      <4>2. plan' = PlanQuieto => plan'.en = "espera"
        BY DEF PlanQuieto
      <4> QED BY <3>2, <4>1, <4>2
    <3> QED BY <3>1, <3>3
  <2>2. Ociosas' \subseteq Ociosas /\ Pendientes' \subseteq Pendientes /\ Fichas' = Fichas /\ ConDueno'
    BY <2>1 DEF Ociosas, Espera, Pendientes, EnDespacho, Fichas, Bloqueando, ConDueno
  <2>3. Fichas' >= Fichas
    BY <1>0, <2>2
  <2> QED BY <2>2, <2>3, FichasTras
<1>4. CASE ConfirmarDesalojo
  <2>1. /\ plan.en = "confirma" /\ plan.c \in Cpus /\ plan'.en = "a_exec" /\ plan'.p = plan.p
        /\ running' = [running EXCEPT ![plan.c] = plan.p] /\ UNCHANGED <<ready, corto, disp>>
    BY <1>4 DEF ConfirmarDesalojo, TypeOK, TiposHilos
  <2>0. /\ plan.p \in Pids /\ plan.p # Nadie
        /\ \A d \in Cpus : running'[d] = IF d = plan.c THEN plan.p ELSE running[d]
    BY <1>0, <2>1
  <2>2. Ociosas' \subseteq Ociosas
    <3> SUFFICES ASSUME NEW d \in Ociosas' PROVE d \in Ociosas
      OBVIOUS
    <3>1. d \in Cpus /\ running'[d] = Nadie
      BY DEF Ociosas
    <3>2. d # plan.c /\ running[d] = Nadie
      BY <2>0, <3>1
    <3> QED BY <3>1, <3>2 DEF Ociosas, Espera
  <2>3. Pendientes' \subseteq Pendientes /\ Fichas' = Fichas /\ ConDueno'
    <3>1. Pendientes' \subseteq Pendientes
      BY <2>1 DEF Pendientes, EnDespacho
    <3>2. Fichas' = Fichas
      BY <2>1 DEF Fichas, Bloqueando
    <3>3. ConDueno'
      BY <2>0, <2>1 DEF ConDueno
    <3> QED BY <3>1, <3>2, <3>3
  <2>4. Fichas' >= Fichas
    BY <1>0, <2>3
  <2> QED BY <2>2, <2>3, <2>4, FichasTras
<1>5. CASE ReadyAExec
  <2>1. /\ plan.en = "a_exec" /\ plan'.en = "espera" /\ ready' = RemoveFirst(ready, plan.p)
        /\ UNCHANGED <<corto, disp, running>>
    BY <1>5 DEF ReadyAExec, PlanQuieto
  <2>2. Range(ready') = Range(ready) \ {plan.p}
    BY <1>0, <2>1, RemoveFirstPropiedades
  <2>3. Pendientes' \subseteq Pendientes
    BY <2>1, <2>2 DEF Pendientes, EnDespacho
  <2>4. Ociosas' \subseteq Ociosas /\ Fichas' = Fichas /\ ConDueno'
    BY <2>1 DEF Ociosas, Espera, Fichas, Bloqueando, ConDueno
  <2>5. Fichas' >= Fichas
    BY <1>0, <2>4
  <2> QED BY <2>3, <2>4, <2>5, FichasTras
<1> QED BY <1>1, <1>2, <1>3, <1>4, <1>5 DEF Planificador

\* The dispatch threads: one that frees a CPU posts a token, then or when it blocks
\* the process, which is still in EXEC.
LEMMA FichasDispatch ==
  ASSUME IInv, AInv, TypeOK', FichasBastan, ConDueno, NEW c \in Cpus, HiloDispatch(c)
  PROVE  FichasBastan' /\ ConDueno'
<1> USE DEF procVars, admVars, cpusVars, hilosVars, aVars, deVars
<1>0. /\ TypeOK /\ Charlas /\ Quietas /\ Marcadas /\ Bloqueos
      /\ corto \in Nat /\ Fichas \in Nat /\ IsFiniteSet(Bloqueando) /\ Cardinality(Bloqueando) \in Nat
      /\ DOMAIN disp = Cpus /\ DOMAIN running = Cpus /\ Nadie \notin Pids
  BY CuentasTipo, Constantes DEF IInv, AInv, TypeOK, TiposKernel, TiposHilos
<1>1. disp[c].en \in {"io_libera", "exit_libera"} => running[c] \in Pids /\ disp[c].p = running[c]
  BY <1>0, Sirviendo
<1>2. /\ HiloSolo(c)
      /\ disp[c].en \in {"io_libera", "exit_libera"} => running' = [running EXCEPT ![c] = Nadie]
      /\ disp[c].en \notin {"io_libera", "exit_libera"} => running' = running
  BY <1>0, <1>1, HiloSoloEsta
<1>3. /\ UNCHANGED <<plan, ready>> /\ \A d \in Cpus : d # c => disp'[d] = disp[d]
  BY <1>2 DEF HiloSolo
<1>4. Pendientes' = Pendientes
  BY <1>3 DEF Pendientes, EnDespacho
<1>5. ConDueno'
  <2> SUFFICES ASSUME plan.en = "a_exec" PROVE \E d \in Cpus : running'[d] = plan.p
    BY <1>3 DEF ConDueno
  <2>1. PICK d \in Cpus : running[d] = plan.p
    BY DEF ConDueno
  <2>2. /\ plan.p \in Pids /\ plan.p \notin lista["EXEC"]
        /\ ~(disp[c].en = "exit_libera" /\ disp[c].p = plan.p)
    <3>1. plan.p \in Pids /\ plan.p \in Range(ready) /\ UnSoloLugar
      BY DEF IInv, TypeOK, TiposHilos, PunteroEnReady
    <3> QED BY <3>1, ListoEnReady DEF Grupos
  <2>3. disp[c].en \in {"io_libera", "exit_libera"} => d # c
    BY <1>0, <1>1, <2>1, <2>2 DEF Marcadas
  <2> QED BY <1>0, <1>2, <2>1, <2>3
<1>6. CASE LiberarPorIO(c)
  <2>1. disp[c].en = "io_libera" /\ disp'[c].en = "io_bloquea" /\ corto' = corto
    BY <1>0, <1>6 DEF LiberarPorIO, HiloVa, TypeOK, TiposHilos
  <2>2. Ociosas' \subseteq Ociosas \cup {c}
    BY <1>0, <1>2, <1>3, <2>1 DEF Ociosas, Espera
  <2>3. c \notin Bloqueando /\ Bloqueando' = Bloqueando \cup {c}
    BY <1>3, <2>1 DEF Bloqueando
  <2>4. Cardinality(Bloqueando') = Cardinality(Bloqueando) + 1
    BY <1>0, <2>3, FS_AddElement
  <2>5. Fichas' >= Fichas + 1
    BY <1>0, <1>3, <2>1, <2>4 DEF Fichas
  <2>6. Pendientes' \subseteq Pendientes \cup {c}
    BY <1>4
  <2> QED BY <1>0, <1>5, <2>2, <2>5, <2>6, FichasTras
<1>7. CASE BloquearPorIO(c)
  <2>1. disp[c].en = "io_bloquea" /\ disp'[c].en = "io_encola"
    BY <1>0, <1>7 DEF BloquearPorIO, HiloVa, TypeOK, TiposHilos
  <2>2. corto' = corto + 1
    <3>1. disp[c].p \in lista["EXEC"]
      BY <1>0, <2>1 DEF Bloqueos
    <3> QED BY <1>7, <3>1 DEF BloquearPorIO, exec_a_blocked
  <2>3. Ociosas' \subseteq Ociosas
    BY <1>2, <1>3, <2>1 DEF Ociosas, Espera
  <2>4. c \in Bloqueando /\ Bloqueando' = Bloqueando \ {c}
    BY <1>3, <2>1 DEF Bloqueando
  <2>5. Cardinality(Bloqueando') = Cardinality(Bloqueando) - 1
    BY <1>0, <2>4, FS_RemoveElement
  <2>6. Fichas' >= Fichas
    BY <1>0, <1>3, <2>2, <2>5 DEF Fichas
  <2> QED BY <1>0, <1>4, <1>5, <2>3, <2>6, FichasTras
<1>8. CASE ExitLibera(c)
  <2>1. disp[c].en = "exit_libera" /\ disp'[c].en = "recibe" /\ corto' = corto + 1
    BY <1>0, <1>8 DEF ExitLibera, HiloQueda
  <2>2. Ociosas' \subseteq Ociosas \cup {c}
    BY <1>0, <1>2, <1>3, <2>1 DEF Ociosas, Espera
  <2>3. Bloqueando' = Bloqueando
    BY <1>3, <2>1 DEF Bloqueando
  <2>4. Fichas' >= Fichas + 1
    BY <1>0, <1>3, <2>1, <2>3 DEF Fichas
  <2>5. Pendientes' \subseteq Pendientes \cup {c}
    BY <1>4
  <2> QED BY <1>0, <1>5, <2>2, <2>4, <2>5, FichasTras
<1>9. CASE SysComienzoIO(c) \/ SysExit(c) \/ agregar_a_cola_por_IO(c) \/ ExitBusca(c)
  <2>1. /\ disp[c].en \in {"recibe", "io_encola", "exit_busca"} /\ disp'[c].en # "io_bloquea"
        /\ corto' = corto
    BY <1>0, <1>9 DEF SysComienzoIO, SysExit, RecibeLlamada, agregar_a_cola_por_IO, ExitBusca, HiloQueda,
       HiloVa, HiloCon, TypeOK, TiposHilos
  <2>2. Bloqueando' = Bloqueando
    BY <1>3, <2>1 DEF Bloqueando
  <2>3. Ociosas' \subseteq Ociosas
    BY <1>2, <1>3, <2>1 DEF Ociosas, Espera
  <2>4. Fichas' = Fichas
    BY <1>3, <2>1, <2>2 DEF Fichas
  <2>5. Fichas' >= Fichas
    BY <1>0, <2>4
  <2> QED BY <1>0, <1>4, <1>5, <2>3, <2>5, FichasTras
<1> QED BY <1>6, <1>7, <1>8, <1>9 DEF HiloDispatch

\* SYS_INTERRUPT takes the process of the CPU the planner waits for, which is in EXEC.
LEMMA LeQuitan ==
  ASSUME IInv, AInv, NEW c \in Cpus, SysInterrupt(c)
  PROVE  \E p \in Pids :
           /\ Espera(c) /\ p \in lista["EXEC"] /\ running' = [running EXCEPT ![c] = Nadie]
           /\ \A q \in Pids : q # p => pcb'[q] = pcb[q]
           /\ UNCHANGED <<algoritmo, ready, corto, plan, disp>>
<1> USE DEF procVars, admVars, cpusVars, hilosVars, aVars, deVars
<1>0. TypeOK /\ Marcadas /\ DOMAIN pcb = Pids /\ deInt[c] # <<>>
  BY DEF IInv, AInv, TypeOK, TiposKernel, SysInterrupt
<1>1. PICK p \in Pids : /\ p = running[c] /\ Espera(c) /\ p \in lista["EXEC"]
                        /\ Head(deInt[c]).p = p
  BY <1>0, Contestada
<1>2. /\ running' = liberar_cpu(p)
      /\ \E t \in Rafagas : pcb' = [pcb EXCEPT ![p].pc = Head(deInt[c]).pc, ![p].est = @ - 4 * t]
      /\ UNCHANGED <<algoritmo, ready, corto, plan, disp>>
  BY <1>1 DEF SysInterrupt
<1>3. running' = [running EXCEPT ![c] = Nadie]
  BY <1>0, <1>1, <1>2, LiberaUna
<1>4. \A q \in Pids : q # p => pcb'[q] = pcb[q]
  BY <1>0, <1>2
<1> QED BY <1>1, <1>2, <1>3, <1>4

\* The interrupt threads: the CPU they free is promised, and the process they give
\* back brings its token.
LEMMA FichasInterrupt ==
  ASSUME IInv, AInv, TypeOK', FichasBastan, ConDueno, NEW c \in Cpus, HiloInterrupt(c)
  PROVE  FichasBastan' /\ ConDueno'
<1> USE DEF procVars, admVars, cpusVars, hilosVars, aVars, deVars
<1>0. TypeOK /\ Charlas /\ Fichas \in Nat /\ DOMAIN running = Cpus
  BY CuentasTipo DEF IInv, AInv, TypeOK, TiposKernel
<1>1. CASE SysInterrupt(c)
  <2>1. /\ Espera(c) /\ running' = [running EXCEPT ![c] = Nadie]
        /\ UNCHANGED <<ready, corto, plan, disp>>
    BY <1>1, LeQuitan
  <2>2. Ociosas' \subseteq Ociosas
    BY <1>0, <2>1 DEF Ociosas, Espera
  <2>3. Pendientes' \subseteq Pendientes /\ Fichas' = Fichas
    BY <2>1 DEF Pendientes, EnDespacho, Fichas, Bloqueando
  <2>4. ConDueno'
    BY <2>1 DEF ConDueno, Espera
  <2>5. Fichas' >= Fichas
    BY <1>0, <2>3
  <2> QED BY <1>0, <2>2, <2>3, <2>4, <2>5, FichasTras
<1>2. CASE DesalojadoAReady(c)
  <2>1. intr[c].p \in Pids /\ agregar_a_READY(intr[c].p) /\ UNCHANGED <<running, disp, plan>>
    BY <1>0, <1>2 DEF DesalojadoAReady, TypeOK, TiposHilos
  <2> QED BY <1>0, <2>1, FichasListo
<1> QED BY <1>1, <1>2 DEF HiloInterrupt

\* A CPU and what it receives.
LEMMA CpuNoCuenta ==
  ASSUME NEW c \in Cpus, CicloCpu(c) \/ RecibeContexto(c) \/ RecibeInterrupt(c)
  PROVE  UNCHANGED <<algoritmo, ready, pcb, corto, plan, running, disp>>
BY DEF CicloCpu, CpuEspera, CpuEjecuta, CpuVacia, check_interrupt, CpuAguarda, CpuLimpia, RecibeContexto,
   RecibeInterrupt, procVars, admVars, cpusVars, hilosVars

\* The tokens are enough after every step.
LEMMA FichasPaso ==
  ASSUME IInv, AInv, IInv', FichasBastan, ConDueno, [Next]_vars
  PROVE  FichasBastan' /\ ConDueno'
<1>0. TypeOK /\ TypeOK' /\ PunteroEnReady /\ Marcadas /\ IsInjective(ready)
  BY DEF IInv, AInv, UnSoloLugar
<1>1. CASE UNCHANGED vars
  BY <1>1, FichasIguales DEF vars, procVars, cpusVars, hilosVars
<1>2. ASSUME NEW p \in Pids, Admitir(p) PROVE FichasBastan' /\ ConDueno'
  BY <1>0, <1>2, FichasListo DEF Admitir, cpusVars, hilosVars
<1>3. ASSUME NEW p \in Pids, FinIO(p) PROVE FichasBastan' /\ ConDueno'
  <2>1. UNCHANGED <<running, disp, plan>> /\ (agregar_a_READY(p) \/ UNCHANGED <<ready, corto>>)
    BY <1>3 DEF FinIO, cpusVars, hilosVars
  <2> QED BY <1>0, <2>1, FichasListo, FichasIguales
<1>4. CASE Planificador
  BY <1>0, <1>4, FichasPlanificador
<1>5. ASSUME NEW c \in Cpus, CicloCpu(c) \/ RecibeContexto(c) \/ RecibeInterrupt(c)
      PROVE  FichasBastan' /\ ConDueno'
  BY <1>5, CpuNoCuenta, FichasIguales
<1>6. ASSUME NEW c \in Cpus, HiloDispatch(c) \/ HiloInterrupt(c) PROVE FichasBastan' /\ ConDueno'
  BY <1>0, <1>6, FichasDispatch, FichasInterrupt
<1> QED BY <1>1, <1>2, <1>3, <1>4, <1>5, <1>6 DEF Next

\* At the start nothing waits.
LEMMA FichasInicial == Init => FichasBastan /\ ConDueno
<1> SUFFICES ASSUME Init PROVE FichasBastan /\ ConDueno
  OBVIOUS
<1>1. Pendientes = {} /\ Bloqueando = {}
  BY DEF Init, Pendientes, Bloqueando, HiloQuieto, Range
<1>2. Cardinality(Pendientes) = 0 /\ Cardinality(Bloqueando) = 0
  BY <1>1, FS_EmptySet
<1>3. Fichas = 0 /\ ConDueno
  BY <1>2 DEF Fichas, Init, PlanQuieto, ConDueno
<1> QED BY <1>2, <1>3 DEF FichasBastan

\* With no races, the tokens are enough in every state.
LEMMA FichasSiempre == Carreras = {} => (Spec => [](IInv /\ AInv /\ FichasBastan /\ ConDueno))
<1> SUFFICES ASSUME Carreras = {} PROVE Spec => [](IInv /\ AInv /\ FichasBastan /\ ConDueno)
  OBVIOUS
<1>1. Init => IInv /\ AInv /\ FichasBastan /\ ConDueno
  BY InvInicial, AInicial, FichasInicial
<1>2. IInv /\ AInv /\ FichasBastan /\ ConDueno /\ [Next]_vars
        => IInv' /\ AInv' /\ FichasBastan' /\ ConDueno'
  BY InvPaso, APaso, FichasPaso
<1> QED BY <1>1, <1>2, PTL DEF Spec

\* A kernel at rest has a process in READY only when every CPU has one.
NadieSinCpu == KernelQuieto => \A p \in Range(ready), c \in Cpus : running[c] # Nadie

\* With no token left, none is needed.
LEMMA QuietoSinCpu == ASSUME TypeOK, FichasBastan PROVE NadieSinCpu
<1> SUFFICES ASSUME KernelQuieto, NEW p \in Range(ready), NEW c \in Cpus, running[c] = Nadie PROVE FALSE
  BY DEF NadieSinCpu
<1>1. plan.en = "espera" /\ corto = 0 /\ \A d \in Cpus : disp[d].en = "recibe"
  BY DEF KernelQuieto
<1>2. Bloqueando = {} /\ p \in Pendientes /\ c \in Ociosas
  BY <1>1 DEF Bloqueando, Pendientes, EnDespacho, Ociosas, Espera
<1>3. Fichas = 0
  BY <1>1, <1>2, FS_EmptySet DEF Fichas
<1>4. /\ IsFiniteSet(Ociosas) /\ Cardinality(Ociosas) \in Nat
      /\ IsFiniteSet(Pendientes) /\ Cardinality(Pendientes) \in Nat
  BY CuentasTipo
<1>5. Cardinality(Ociosas) # 0 /\ Cardinality(Pendientes) # 0
  BY <1>2, <1>4, FS_EmptySet
<1> QED BY <1>3, <1>4, <1>5 DEF FichasBastan

\* With no races and any number of CPUs, SJF or SRT, the planner does not rest with
\* a process in READY and a CPU free: no token is lost, though an event posts one
\* only and the planner takes one process of READY for each (planificadores.c:505-506).
THEOREM NingunaCpuOciosa == Carreras = {} => (Spec => []NadieSinCpu)
<1> SUFFICES ASSUME Carreras = {} PROVE Spec => []NadieSinCpu
  OBVIOUS
<1>1. IInv /\ FichasBastan => NadieSinCpu
  BY QuietoSinCpu DEF IInv
<1> QED BY <1>1, FichasSiempre, PTL

\* With one CPU and SRT. With no token left, everything in READY was seen by the
\* planner the last time: what it carries is as short as any, and, when it rests,
\* so is what executes.
UnaCpu == \A c, d \in Cpus : c = d
Menores ==
  algoritmo = "SRT" /\ corto = 0 => \A p \in Range(ready) :
    /\ plan.en # "espera" => pcb[plan.p].est <= pcb[p].est
    /\ plan.en = "espera" => \A c \in Cpus : running[c] # Nadie => pcb[running[c]].est <= pcb[p].est

\* A step that posts a token.
LEMMA MenoresConFicha ==
  ASSUME TypeOK, corto' = corto + 1
  PROVE  Menores'
<1>1. corto \in Nat
  BY DEF TypeOK, TiposKernel
<1> QED BY <1>1 DEF Menores

\* A step that frees a CPU, or none, and changes nothing else of this.
LEMMA MenoresIguales ==
  ASSUME Menores, UNCHANGED <<algoritmo, ready, pcb, corto, plan>>,
         \A c \in Cpus : running'[c] = running[c] \/ running'[c] = Nadie
  PROVE  Menores'
BY DEF Menores

\* Head of a list that is not empty.
LEMMA PrimeroEsta ==
  ASSUME NEW S, NEW s \in Seq(S), s # <<>>
  PROVE  1 \in DOMAIN s /\ Head(s) = s[1] /\ DOMAIN s = 1..Len(s)
BY LenProperties

\* The planner: it takes the shortest of READY, and preempts or gives up by comparing
\* it with the only process that executes.
LEMMA MenoresPlanificador ==
  ASSUME TypeOK, PunteroEnReady, IsInjective(ready), UnaCpu, ConDueno, Menores, Planificador
  PROVE  Menores'
<1> USE DEF procVars, admVars, cpusVars, hilosVars, aVars, deVars
<1>0. /\ ready \in Seq(Pids) /\ Nadie \notin Pids
      /\ plan.en # "espera" => plan.p \in Pids
      /\ \A p \in Pids : pcb[p].est \in Int
      /\ \A p \in Range(ready) : p \in Pids
      /\ plan \in [en : {"espera", "busca", "desaloja", "confirma", "a_exec"},
                  p : PidONadie, c : Cpus \cup {Nadie}]
      /\ running \in [Cpus -> PidONadie]
  <2>1. ready \in Seq(Pids)
    BY DEF TypeOK, TiposKernel
  <2>2. \A p \in Range(ready) : p \in Pids
    BY <2>1, LenProperties, ElementOfSeq DEF Range
  <2> QED BY <2>1, <2>2, Constantes DEF TypeOK, TiposKernel, TiposHilos
<1>1. CASE CortoDespierta
  <2>1. CASE ready = <<>>
    <3>1. Range(ready') = {}
      BY <1>1, <2>1 DEF CortoDespierta, Range
    <3> QED BY <3>1 DEF Menores
  <2>2. CASE ready # <<>>
    <3>1. /\ plan.en = "espera" /\ pcb' = Estimadas /\ ready' = OrdenadaPor(ready, Estimadas)
          /\ plan' = [plan EXCEPT !.en = "busca", !.p = Head(ready')]
      BY <1>1, <2>2 DEF CortoDespierta
    <3>2. plan'.en = "busca" /\ plan'.p = Head(ready')
      BY <1>0, <3>1
    <3>3. \A p \in Pids : Estimadas[p].est \in Int
      BY EstimadasTipo DEF TypeOK
    <3>4. /\ ready' \in Seq(Pids) /\ DOMAIN ready' = DOMAIN ready
          /\ \A i, j \in DOMAIN ready : i < j => Estimadas[ready'[i]].est <= Estimadas[ready'[j]].est
      BY <1>0, <3>1, <3>3, OrdenadaPropiedades
    <3>5. ready' # <<>>
      BY <1>0, <2>2, <3>4, LenProperties
    <3>6. 1 \in DOMAIN ready' /\ Head(ready') = ready'[1] /\ DOMAIN ready' = 1..Len(ready')
      BY <3>4, <3>5, PrimeroEsta
    <3>7. ASSUME NEW p \in Range(ready') PROVE pcb'[plan'.p].est <= pcb'[p].est
      <4>1. PICK j \in DOMAIN ready' : ready'[j] = p
        BY DEF Range
      <4>2. ready'[1] \in Pids /\ Estimadas[ready'[1]].est \in Int
        BY <3>3, <3>4, <3>6, ElementOfSeq
      <4>3. j = 1 \/ 1 < j
        BY <3>4, <3>6, LenProperties
      <4>4. CASE j = 1
        BY <3>1, <3>2, <3>6, <4>1, <4>2, <4>4
      <4>5. CASE 1 < j
        BY <3>1, <3>2, <3>4, <3>6, <4>1, <4>5
      <4> QED BY <4>3, <4>4, <4>5
    <3> QED BY <3>2, <3>7 DEF Menores
  <2> QED BY <2>1, <2>2
<1>2. CASE buscar_cpu_disponible
  <2>1. plan.en = "busca" /\ UNCHANGED <<algoritmo, ready, pcb, corto>>
    BY <1>2 DEF buscar_cpu_disponible
  <2>2. algoritmo = "SRT" => plan'.en \in {"a_exec", "desaloja"} /\ plan'.p = plan.p
    <3>1. CASE Libres # {}
      BY <1>0, <1>2, <3>1 DEF buscar_cpu_disponible
    <3>2. CASE Libres = {}
      <4>1. algoritmo = "SRT" => plan' = [plan EXCEPT !.en = "desaloja"]
        BY <1>2, <3>2 DEF buscar_cpu_disponible
      <4> QED BY <1>0, <4>1
    <3> QED BY <3>1, <3>2
  <2> QED BY <2>1, <2>2 DEF Menores
<1>3. CASE buscar_cpu_disponible_desalojo
  <2>1. plan.en = "desaloja" /\ UNCHANGED <<algoritmo, ready, pcb, corto, running>>
    BY <1>3 DEF buscar_cpu_disponible_desalojo
  <2>2. CASE plan' = plan
    BY <2>1, <2>2 DEF Menores
  <2>3. ASSUME NEW v, plan' = [plan EXCEPT !.en = "confirma", !.c = v] PROVE Menores'
    <3>1. plan'.en = "confirma" /\ plan'.p = plan.p
      BY <1>0, <2>3
    <3> QED BY <2>1, <3>1 DEF Menores
  <2>4. ASSUME NEW v \in Cpus, running[v] \in Pids, ~(pcb[running[v]].est > pcb[plan.p].est),
               plan' = PlanQuieto
        PROVE  Menores'
    <3>1. plan'.en = "espera"
      BY <2>4 DEF PlanQuieto
    <3>2. pcb[running[v]].est \in Int /\ pcb[plan.p].est \in Int
      BY <1>0, <2>1, <2>4
    <3>3. ASSUME algoritmo = "SRT", corto = 0, NEW p \in Range(ready)
          PROVE  pcb[running[v]].est <= pcb[p].est
      <4>1. pcb[plan.p].est <= pcb[p].est /\ pcb[p].est \in Int
        BY <1>0, <2>1, <3>3 DEF Menores
      <4> QED BY <2>4, <3>2, <4>1
    <3>4. \A c \in Cpus : c = v
      BY DEF UnaCpu
    <3> QED BY <2>1, <3>1, <3>3, <3>4 DEF Menores
  <2>5. \/ plan' = plan
        \/ \E v : plan' = [plan EXCEPT !.en = "confirma", !.c = v]
        \/ \E v \in Cpus : running[v] \in Pids /\ ~(pcb[running[v]].est > pcb[plan.p].est) /\ plan' = PlanQuieto
    <3>1. \/ plan' = plan
          \/ \E v : plan' = [plan EXCEPT !.en = "confirma", !.c = v]
          \/ /\ listaCPU # <<>> /\ running[Head(listaCPU')] # Nadie
             /\ ~(pcb[running[Head(listaCPU')]].est > pcb[plan.p].est) /\ plan' = PlanQuieto
      BY <1>3, Zenon DEF buscar_cpu_disponible_desalojo
    <3>2. listaCPU # <<>> => Head(listaCPU') \in Cpus
      <4>1. PICK f \in Bijection(DOMAIN listaCPU, DOMAIN listaCPU) :
              listaCPU' = [i \in DOMAIN listaCPU |-> listaCPU[f[i]]]
        BY <1>3 DEF buscar_cpu_disponible_desalojo
      <4>2. listaCPU \in Seq(Cpus) /\ listaCPU' \in Seq(Cpus) /\ DOMAIN listaCPU' = DOMAIN listaCPU
        <5>1. listaCPU \in Seq(Cpus)
          BY DEF TypeOK, TiposKernel
        <5> QED BY <4>1, <5>1, PermutacionPropiedades
      <4>3. listaCPU # <<>> => listaCPU' # <<>>
        BY <4>2, LenProperties
      <4> QED BY <4>2, <4>3, HeadTailProperties
    <3>3. \A v \in Cpus : running[v] # Nadie => running[v] \in Pids
      BY <1>0 DEF PidONadie
    <3> QED BY <3>1, <3>2, <3>3
  <2> QED BY <2>2, <2>3, <2>4, <2>5
<1>4. CASE ConfirmarDesalojo
  <2>1. /\ plan.en = "confirma" /\ plan'.en = "a_exec" /\ plan'.p = plan.p
        /\ UNCHANGED <<algoritmo, ready, pcb, corto>>
    BY <1>0, <1>4 DEF ConfirmarDesalojo
  <2> QED BY <2>1 DEF Menores
<1>5. CASE ReadyAExec
  <2>1. /\ plan.en = "a_exec" /\ plan'.en = "espera" /\ ready' = RemoveFirst(ready, plan.p)
        /\ UNCHANGED <<algoritmo, pcb, corto, running>>
    BY <1>5 DEF ReadyAExec, PlanQuieto
  <2>2. Range(ready') \subseteq Range(ready)
    BY <1>0, <2>1, RemoveFirstPropiedades
  <2>3. \A c \in Cpus : running[c] = plan.p
    BY <2>1 DEF ConDueno, UnaCpu
  <2> QED BY <2>1, <2>2, <2>3 DEF Menores
<1> QED BY <1>1, <1>2, <1>3, <1>4, <1>5 DEF Planificador

\* The order is kept by every step: what changes an estimate is in no list, and what
\* adds to READY posts a token.
LEMMA MenoresPaso ==
  ASSUME IInv, AInv, UnaCpu, ConDueno, Menores, [Next]_vars
  PROVE  Menores'
<1> USE DEF procVars, admVars, cpusVars, hilosVars, aVars, deVars
<1>0. /\ TypeOK /\ PunteroEnReady /\ Marcadas /\ Bloqueos /\ UnSoloLugar /\ Charlas /\ Quietas
      /\ DOMAIN running = Cpus
  BY DEF IInv, AInv, TypeOK, TiposKernel
<1>1. CASE UNCHANGED vars
  BY <1>1, MenoresIguales DEF vars
<1>2. ASSUME NEW p \in Pids, Admitir(p) PROVE Menores'
  BY <1>0, <1>2, MenoresConFicha DEF Admitir, agregar_a_READY
<1>3. ASSUME NEW p \in Pids, FinIO(p) PROVE Menores'
  <2>1. corto' = corto + 1 \/ UNCHANGED <<algoritmo, ready, pcb, corto, plan, running>>
    BY <1>3 DEF FinIO, agregar_a_READY
  <2> QED BY <1>0, <2>1, MenoresConFicha, MenoresIguales
<1>4. CASE Planificador
  <2>1. IsInjective(ready)
    BY <1>0 DEF UnSoloLugar
  <2> QED BY <1>0, <1>4, <2>1, MenoresPlanificador
<1>5. ASSUME NEW c \in Cpus, CicloCpu(c) \/ RecibeContexto(c) \/ RecibeInterrupt(c)
      PROVE  Menores'
  BY <1>5, CpuNoCuenta, MenoresIguales
<1>6. ASSUME NEW c \in Cpus, HiloDispatch(c) PROVE Menores'
  <2>1. CASE BloquearPorIO(c)
    <3>1. disp[c].p \in lista["EXEC"]
      BY <1>0, <2>1 DEF Bloqueos, BloquearPorIO
    <3> QED BY <1>0, <2>1, <3>1, MenoresConFicha DEF BloquearPorIO, exec_a_blocked
  <2>2. CASE ExitLibera(c)
    BY <1>0, <2>2, MenoresConFicha DEF ExitLibera
  <2>3. CASE LiberarPorIO(c)
    <3>1. \A d \in Cpus : running'[d] = running[d] \/ running'[d] = Nadie
      <4>1. running' = liberar_cpu(disp[c].p)
        BY <2>3 DEF LiberarPorIO
      <4>2. TiposKernel
        BY <1>0 DEF TypeOK
      <4> QED BY <4>1, <4>2, LiberarTipo
    <3> QED BY <2>3, <3>1, MenoresIguales DEF LiberarPorIO
  <2>4. CASE SysComienzoIO(c) \/ SysExit(c) \/ agregar_a_cola_por_IO(c) \/ ExitBusca(c)
    <3>1. UNCHANGED <<algoritmo, ready, pcb, corto, plan, running>>
      BY <2>4 DEF SysComienzoIO, SysExit, RecibeLlamada, agregar_a_cola_por_IO, ExitBusca
    <3> QED BY <3>1, MenoresIguales
  <2> QED BY <1>6, <2>1, <2>2, <2>3, <2>4 DEF HiloDispatch
<1>7. ASSUME NEW c \in Cpus, SysInterrupt(c) PROVE Menores'
  <2>1. PICK q \in Pids :
          /\ Espera(c) /\ q \in lista["EXEC"]
          /\ \A r \in Pids : r # q => pcb'[r] = pcb[r]
          /\ UNCHANGED <<algoritmo, ready, corto, plan>>
    BY <1>7, LeQuitan
  <2>2. q \notin Range(ready)
    BY <1>0, <2>1, ListoEnReady DEF Grupos
  <2>3. plan.en = "confirma" /\ plan.p \in Range(ready) /\ \A r \in Range(ready) : r \in Pids
    <3>1. \A r \in Range(ready) : r \in Pids
      BY <1>0, LenProperties, ElementOfSeq DEF Range, TypeOK, TiposKernel
    <3> QED BY <1>0, <2>1, <3>1 DEF Espera, PunteroEnReady
  <2>4. \A r \in Range(ready) : pcb'[r] = pcb[r]
    BY <2>1, <2>2, <2>3
  <2> QED BY <2>1, <2>3, <2>4 DEF Menores
<1>8. ASSUME NEW c \in Cpus, DesalojadoAReady(c) PROVE Menores'
  BY <1>0, <1>8, MenoresConFicha DEF DesalojadoAReady, agregar_a_READY
<1> QED BY <1>1, <1>2, <1>3, <1>4, <1>5, <1>6, <1>7, <1>8 DEF Next, HiloInterrupt

\* With no races, NadieMasCorto holds of SJF with any number of CPUs, and of SRT
\* with one: a process in READY finds no CPU free, and none is shorter than the one
\* that executes (planificadores.c:505-506). With SRT and two CPUs it is false: the
\* CPU to preempt is any of them (kernel_manejo_cpus.c:161).
THEOREM NadieMasCortoSinCarreras ==
  Carreras = {} /\ (Algoritmos \subseteq {"SJF"} \/ Cardinality(Cpus) <= 1) => (Spec => []NadieMasCorto)
<1>1. ASSUME Carreras = {}, Algoritmos \subseteq {"SJF"} PROVE Spec => []NadieMasCorto
  <2>1. IInv /\ FichasBastan => NadieMasCorto
    <3> SUFFICES ASSUME IInv, FichasBastan PROVE NadieMasCorto
      OBVIOUS
    <3>1. algoritmo \in Algoritmos /\ TypeOK
      BY DEF IInv, TypeOK, TiposKernel
    <3>2. algoritmo # "SRT" /\ NadieSinCpu
      BY <1>1, <3>1, QuietoSinCpu
    <3> QED BY <3>2 DEF NadieSinCpu, NadieMasCorto
  <2> QED BY <1>1, <2>1, FichasSiempre, PTL
<1>2. ASSUME Carreras = {}, Cardinality(Cpus) <= 1 PROVE Spec => []NadieMasCorto
  <2>1. UnaCpu
    <3> SUFFICES ASSUME NEW c \in Cpus, NEW d \in Cpus, c # d PROVE FALSE
      BY DEF UnaCpu
    <3>1. IsFiniteSet(Cpus) /\ Cardinality(Cpus) \in Nat
      BY CpusFinitas
    <3>2. Cardinality({d}) = 1 /\ IsFiniteSet({d})
      BY FS_Singleton
    <3>3. Cardinality({d} \cup {c}) = 2 /\ {d} \cup {c} \in SUBSET Cpus
      BY <3>2, FS_AddElement
    <3>4. 2 <= Cardinality(Cpus)
      BY <3>1, <3>3, FS_Subset
    <3> QED BY <1>2, <3>1, <3>4
  <2>2. Init => Menores
    BY DEF Init, Menores, Range
  <2>3. IInv /\ AInv /\ ConDueno /\ Menores /\ [Next]_vars => Menores'
    BY <2>1, MenoresPaso
  <2>4. IInv /\ FichasBastan /\ Menores => NadieMasCorto
    <3> SUFFICES ASSUME IInv, FichasBastan, Menores, KernelQuieto, NEW p \in Range(ready), NEW c \in Cpus
                 PROVE  running[c] # Nadie /\ (algoritmo = "SRT" => pcb[running[c]].est <= pcb[p].est)
      BY DEF NadieMasCorto
    <3>1. running[c] # Nadie
      BY QuietoSinCpu DEF IInv, NadieSinCpu
    <3>2. plan.en = "espera" /\ corto = 0
      BY DEF KernelQuieto
    <3> QED BY <3>1, <3>2 DEF Menores
  <2> QED BY <1>2, <2>2, <2>3, <2>4, FichasSiempre, PTL DEF Spec
<1> QED BY <1>1, <1>2
=============================================================================
