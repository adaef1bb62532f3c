--------------------------- MODULE Memoria_proofs ---------------------------
(***************************************************************************)
(* Proofs about Memoria, for any number of processes, CPUs and frames, any *)
(* sizes and either configuration of the cache.                            *)
(*                                                                         *)
(* MemoriaTypeOK is inductive by itself. MarcosExclusivos is inductive     *)
(* given the types. MarcoRespondido is not inductive: InvVivos adds that a *)
(* process the kernel has not ended is listed, that the kernel's thread is *)
(* busy with a process in the phase of its request, and that what a CPU    *)
(* runs is in EXEC and on no other CPU.                                    *)
(***************************************************************************)
EXTENDS Memoria, Listas, FiniteSetTheorems

-----------------------------------------------------------------------------
(* Types.                                                                    *)

\* The mark of a page with no frame is no frame.
LEMMA SinMarcoAparte == SinMarco \notin Marcos /\ SinMarco \in MarcoONada
BY DEF SinMarco, Marcos, MarcoONada

\* An idle thread has the types of one.
LEMMA ReposoTipo == EnReposo \in TipoK /\ EnReposo.en = "recibe" /\ CpuLibre \in TipoCpu
                    /\ PosicionCpu(CpuLibre) /\ CpuLibre.en = "libre" /\ CpuLibre.vacia = FALSE
                    /\ CpuLibre.sucia = -1
BY SinMarcoAparte DEF EnReposo, CpuLibre, TipoK, TipoCpu, PidONadie, PosicionCpu

\* The initial state has the right types.
LEMMA TipoInicial == Init => MemoriaTypeOK
<1> SUFFICES ASSUME Init PROVE MemoriaTypeOK
  OBVIOUS
<1>1. TiposMarcos
  BY MemoriaConstantesOK, SinMarcoAparte DEF Init, TiposMarcos, MemoriaConstantesOK
<1>2. TiposFijos
  BY MemoriaConstantesOK DEF Init, TiposFijos, Fases, MemoriaConstantesOK
<1>3. TiposK
  BY ReposoTipo DEF Init, TiposK
<1>4. TiposCpu
  BY ReposoTipo DEF Init, TiposCpu
<1> QED BY <1>1, <1>2, <1>3, <1>4 DEF MemoriaTypeOK

\* asignar_marco_libre hands out a frame that was not marked, or none.
LEMMA MarcoLibre ==
  ASSUME TiposMarcos, NEW f, asignar_marco_libre(f)
  PROVE  /\ f \in MarcoONada /\ bitmap' \subseteq Marcos
         /\ bitmap \subseteq bitmap'
         /\ f # SinMarco => f \in Marcos /\ f \notin bitmap /\ f \in bitmap'
  BY SinMarcoAparte DEF asignar_marco_libre, Libres, MarcosA, TiposMarcos, MarcoONada

\* The pages of a leaf are finitely many.
LEMMA HojaFinita ==
  ASSUME NEW p \in Pids, NEW h
  PROVE  Cardinality(ConMarco(Hoja(p, h))) \in Nat
<1>1. cantidad_paginas(p) \in Int
  BY MemoriaConstantesOK DEF MemoriaConstantesOK, cantidad_paginas
<1>2. IsFiniteSet(0..(cantidad_paginas(p) - 1))
  <2>1. cantidad_paginas(p) - 1 \in Int
    BY <1>1
  <2> HIDE DEF cantidad_paginas
  <2> QED BY <2>1, FS_Interval
<1>3. IsFiniteSet({p} \X Pag(p))
  <2>1. IsFiniteSet({p})
    BY FS_Singleton
  <2> QED BY <1>2, <2>1, FS_Product DEF Pag
<1>4. ConMarco(Hoja(p, h)) \subseteq {p} \X Pag(p)
  BY DEF ConMarco, Hoja, Paginas
<1> QED BY <1>3, <1>4, FS_Subset, FS_CardinalityType

\* What the thread of the kernel carries when it starts a request.
LEMMA AtiendeTipo ==
  ASSUME NEW op \in {"CREAR", "SUSPENDER", "DESUSPENDER", "FINALIZAR"}, NEW p \in Pids,
         NEW en \in {"asigna", "recolecta", "destruye"}, Atiende(op, p, en)
  PROVE  TiposK' /\ k'.en = en /\ k'.p = p /\ k'.op = op
  BY SinMarcoAparte DEF Atiende, EnReposo, TiposK, TipoK, PidONadie

\* It goes from page to page, and from one stage of a request to the next.
LEMMA AvanzaK ==
  ASSUME k \in TipoK, k.p \in Pids, k.en \in {"asigna", "recolecta", "copia", "lee"},
         k' = [k EXCEPT !.i = @ + 1]
  PROVE  TiposK'
<1>1. k.i + 1 \in Nat
  <2>1. k.i \in Nat
    BY DEF TipoK
  <2> QED BY <2>1
<1>2. k' \in TipoK
  BY <1>1 DEF TipoK
<1>3. k'.p = k.p /\ k'.en = k.en
  BY DEF TipoK
<1> QED BY <1>2, <1>3 DEF TiposK

\* The thread of the kernel goes on to copy pages.
LEMMA EmpiezaK ==
  ASSUME k \in TipoK, k.p \in Pids, NEW en \in {"copia", "lee"},
         k' = [k EXCEPT !.en = en, !.i = 0]
  PROVE  TiposK'
<1>1. k' \in TipoK
  BY DEF TipoK
<1>2. k'.p = k.p /\ k'.en = en
  BY DEF TipoK
<1> QED BY <1>1, <1>2 DEF TiposK

\* The thread of the kernel goes back to its recv.
LEMMA ReposoK == ASSUME k' = EnReposo PROVE TiposK'
  BY ReposoTipo DEF TiposK

\* A process changes its phase and the rest stays.
LEMMA PasaTipo ==
  ASSUME TiposFijos, NEW p \in Pids, NEW f \in Fases, Pasa(p, f), conCache' = conCache,
         sucios' = sucios, escrito' = escrito
  PROVE  TiposFijos'
  BY DEF TiposFijos, Pasa

\* A step of the kernel's thread keeps every type.
LEMMA TipoKernel == MemoriaTypeOK /\ Kernel => MemoriaTypeOK'
<1> SUFFICES ASSUME TiposMarcos, TiposFijos, TiposK, TiposCpu, Kernel
             PROVE  TiposMarcos' /\ TiposFijos' /\ TiposK' /\ TiposCpu'
  BY DEF MemoriaTypeOK
<1> USE DEF mem, swap, conf
<1>1. ASSUME NEW p \in Pids, CREAR(p) PROVE TiposMarcos' /\ TiposFijos' /\ TiposK' /\ TiposCpu'
  <2> USE <1>1
  <2>1. TiposMarcos'
    BY DEF CREAR, TiposMarcos
  <2>2. TiposFijos'
    <3>1. CASE Tamanio[p] = 0
      BY <3>1, PasaTipo DEF CREAR, Fases
    <3>2. CASE Tamanio[p] # 0
      BY <3>2 DEF CREAR, TiposFijos
    <3> QED BY <3>1, <3>2
  <2>3. TiposK'
    <3>1. CASE Tamanio[p] = 0
      BY <3>1 DEF CREAR, TiposK
    <3>2. CASE Tamanio[p] # 0
      BY <3>2, AtiendeTipo DEF CREAR
    <3> QED BY <3>1, <3>2
  <2>4. TiposCpu'
    BY DEF CREAR, TiposCpu
  <2> QED BY <2>1, <2>2, <2>3, <2>4
<1>2. ASSUME NEW p \in Pids, SUSPENDER(p) PROVE TiposMarcos' /\ TiposFijos' /\ TiposK' /\ TiposCpu'
  <2> USE <1>2
  <2>1. TiposMarcos'
    BY DEF SUSPENDER, TiposMarcos
  <2>2. TiposFijos'
    BY PasaTipo DEF SUSPENDER, Fases
  <2>3. TiposK'
    BY AtiendeTipo DEF SUSPENDER
  <2>4. TiposCpu'
    BY DEF SUSPENDER, TiposCpu
  <2> QED BY <2>1, <2>2, <2>3, <2>4
<1>3. ASSUME NEW p \in Pids, DESUSPENDER(p) PROVE TiposMarcos' /\ TiposFijos' /\ TiposK' /\ TiposCpu'
  <2> USE <1>3
  <2>1. TiposMarcos'
    BY DEF DESUSPENDER, TiposMarcos
  <2>2. TiposFijos'
    <3>1. CASE Tamanio[p] > 0 /\ buscar_entrada_swap_por_pid(p) # 0
      BY <3>1 DEF DESUSPENDER, TiposFijos
    <3>2. CASE ~(Tamanio[p] > 0 /\ buscar_entrada_swap_por_pid(p) # 0)
      BY <3>2, PasaTipo DEF DESUSPENDER, Fases
    <3> QED BY <3>1, <3>2
  <2>3. TiposK'
    <3>1. CASE Tamanio[p] > 0 /\ buscar_entrada_swap_por_pid(p) # 0
      BY <3>1, AtiendeTipo DEF DESUSPENDER
    <3>2. CASE ~(Tamanio[p] > 0 /\ buscar_entrada_swap_por_pid(p) # 0)
      BY <3>2 DEF DESUSPENDER, TiposK
    <3> QED BY <3>1, <3>2
  <2>4. TiposCpu'
    BY DEF DESUSPENDER, TiposCpu
  <2> QED BY <2>1, <2>2, <2>3, <2>4
<1>4. ASSUME NEW p \in Pids, FINALIZAR(p) PROVE TiposMarcos' /\ TiposFijos' /\ TiposK' /\ TiposCpu'
  <2> DEFINE F == {tabla[x] : x \in ConMarco({x \in Paginas : x[1] = p})}
  <2>0. bitmap' \in {bitmap, bitmap \ F} /\ viva' \in [Pids -> BOOLEAN] /\ tabla' = tabla
        /\ ocupada' \in {ocupada, ocupada - TAM_PAGINA * cantidad_paginas(p)}
    BY <1>4 DEF FINALIZAR, TiposMarcos
  <2>1. TiposMarcos'
    <3>1. TAM_PAGINA * cantidad_paginas(p) \in Int
      BY MemoriaConstantesOK DEF MemoriaConstantesOK, cantidad_paginas
    <3> QED BY <2>0, <3>1 DEF TiposMarcos
  <2>2. TiposFijos'
    BY <1>4, PasaTipo DEF FINALIZAR, Fases
  <2>3. TiposK'
    <3>1. CASE UNCHANGED k
      BY <3>1 DEF TiposK
    <3>2. CASE Atiende("FINALIZAR", p, "destruye")
      BY <3>2, AtiendeTipo
    <3> QED BY <1>4, <3>1, <3>2 DEF FINALIZAR
  <2>4. TiposCpu'
    BY <1>4 DEF FINALIZAR, TiposCpu
  <2> QED BY <2>1, <2>2, <2>3, <2>4
<1>5. ASSUME AsignarMarco PROVE TiposMarcos' /\ TiposFijos' /\ TiposK' /\ TiposCpu'
  <2> USE <1>5
  <2>0. k.en = "asigna" /\ k.p \in Pids /\ k \in TipoK
    BY DEF AsignarMarco, TiposK
  <2>1. TiposMarcos'
    <3>1. bitmap' \subseteq Marcos
      <4>1. CASE UNCHANGED bitmap
        BY <4>1 DEF TiposMarcos
      <4>2. CASE \E f \in Libres \cup {SinMarco} : asignar_marco_libre(f)
        BY <4>2, MarcoLibre
      <4> QED BY <4>1, <4>2 DEF AsignarMarco
    <3>2. viva' \in [Pids -> BOOLEAN] /\ tabla' \in [Paginas -> MarcoONada]
      BY SinMarcoAparte DEF AsignarMarco, TiposMarcos
    <3> QED BY <3>1, <3>2 DEF AsignarMarco, TiposMarcos
  <2>2. TiposFijos'
    <3>1. CASE UNCHANGED fase
      BY <3>1 DEF AsignarMarco, TiposFijos
    <3>2. CASE \E s \in {"susp", "listo"} : Pasa(k.p, s)
      BY <2>0, <3>2, PasaTipo DEF AsignarMarco, Fases
    <3> QED BY <3>1, <3>2 DEF AsignarMarco
  <2>3. TiposK'
    <3>1. CASE k' = [k EXCEPT !.i = @ + 1]
      BY <2>0, <3>1, AvanzaK
    <3>2. CASE \E f \in Libres : k' = [k EXCEPT !.en = "guarda", !.f = f]
      <4>1. Libres \subseteq Marcos /\ Marcos \subseteq MarcoONada /\ <<k.p, k.i>> \in Paginas
        BY DEF Libres, MarcoONada, AsignarMarco
      <4>2. PICK f \in Libres : k' = [k EXCEPT !.en = "guarda", !.f = f]
        BY <3>2
      <4>3. k' \in TipoK
        BY <2>0, <4>1, <4>2 DEF TipoK
      <4>4. k'.p = k.p /\ k'.i = k.i /\ k'.en = "guarda" /\ k'.f = f
        BY <2>0, <4>2 DEF TipoK
      <4> QED BY <2>0, <4>1, <4>3, <4>4 DEF TiposK
    <3>3. CASE k' = EnReposo
      BY <3>3, ReposoK
    <3> QED BY <3>1, <3>2, <3>3 DEF AsignarMarco
  <2>4. TiposCpu'
    BY DEF AsignarMarco, TiposCpu
  <2> QED BY <2>1, <2>2, <2>3, <2>4
<1>6. ASSUME GuardarMarco PROVE TiposMarcos' /\ TiposFijos' /\ TiposK' /\ TiposCpu'
  <2> USE <1>6
  <2>0. k.en = "guarda" /\ k \in TipoK /\ k.f \in MarcoONada /\ k.p \in Pids
    BY DEF GuardarMarco, TiposK, TipoK
  <2>1. TiposMarcos'
    <3>1. ocupada' \in Int
      <4>1. ocupada \in Int /\ TAM_PAGINA \in Int /\ ocupada' = ocupada + TAM_PAGINA
        BY MemoriaConstantesOK DEF GuardarMarco, TiposMarcos, MemoriaConstantesOK
      <4> QED BY <4>1
    <3>2. tabla' \in [Paginas -> MarcoONada]
      BY <2>0 DEF GuardarMarco, TiposMarcos
    <3> QED BY <3>1, <3>2 DEF GuardarMarco, TiposMarcos
  <2>2. TiposFijos'
    BY DEF GuardarMarco, TiposFijos
  <2>3. TiposK'
    <3>0. k.i \in Nat
      BY <2>0 DEF TipoK
    <3>1. k.i + 1 \in Nat /\ SinMarco \in MarcoONada
      BY <3>0, SinMarcoAparte
    <3>2. k' = [k EXCEPT !.en = "asigna", !.i = @ + 1, !.f = SinMarco]
      BY DEF GuardarMarco
    <3>3. k' \in TipoK
      BY <2>0, <3>1, <3>2 DEF TipoK
    <3>4. k'.p = k.p /\ k'.en = "asigna"
      BY <2>0, <3>2 DEF TipoK
    <3> QED BY <2>0, <3>3, <3>4 DEF TiposK
  <2>4. TiposCpu'
    BY DEF GuardarMarco, TiposCpu
  <2> QED BY <2>1, <2>2, <2>3, <2>4
<1>7. ASSUME FinAsignacion PROVE TiposMarcos' /\ TiposFijos' /\ TiposK' /\ TiposCpu'
  <2> USE <1>7
  <2>0. k.en = "asigna" /\ k \in TipoK /\ k.p \in Pids
    BY DEF FinAsignacion, TiposK
  <2>1. TiposMarcos'
    BY DEF FinAsignacion, TiposMarcos
  <2>2. TiposFijos'
    <3>1. CASE k.op = "CREAR"
      BY <2>0, <3>1, PasaTipo DEF FinAsignacion, Fases
    <3>2. CASE k.op # "CREAR"
      BY <3>2 DEF FinAsignacion, TiposFijos
    <3> QED BY <3>1, <3>2
  <2>3. TiposK'
    <3>1. CASE k.op = "CREAR"
      BY <3>1, ReposoK DEF FinAsignacion
    <3>2. CASE k.op # "CREAR"
      BY <2>0, <3>2, EmpiezaK DEF FinAsignacion
    <3> QED BY <3>1, <3>2
  <2>4. TiposCpu'
    BY DEF FinAsignacion, TiposCpu
  <2> QED BY <2>1, <2>2, <2>3, <2>4
<1>8. ASSUME RecolectarMarcos PROVE TiposMarcos' /\ TiposFijos' /\ TiposK' /\ TiposCpu'
  <2>0. k.en = "recolecta" /\ k \in TipoK /\ k.p \in Pids
    BY <1>8 DEF RecolectarMarcos, TiposK
  <2>1. TiposMarcos'
    <3> DEFINE X == ConMarco(Hoja(k.p, k.i))
    <3>1. TAM_PAGINA * Cardinality(X) \in Int
      BY <2>0, HojaFinita, MemoriaConstantesOK DEF MemoriaConstantesOK
    <3>2. /\ tabla' = [x \in Paginas |-> IF x \in X THEN SinMarco ELSE tabla[x]]
          /\ bitmap' = bitmap \ {tabla[x] : x \in X}
          /\ ocupada' = ocupada - TAM_PAGINA * Cardinality(X)
          /\ viva' = viva
      BY <1>8 DEF RecolectarMarcos
    <3> HIDE DEF X
    <3> QED BY <3>1, <3>2, SinMarcoAparte DEF TiposMarcos
  <2>2. TiposFijos'
    BY <1>8 DEF RecolectarMarcos, TiposFijos
  <2>3. TiposK'
    <3>1. k' = [k EXCEPT !.i = @ + 1]
      BY <1>8 DEF RecolectarMarcos
    <3> QED BY <2>0, <3>1, AvanzaK
  <2>4. TiposCpu'
    BY <1>8 DEF RecolectarMarcos, TiposCpu
  <2> QED BY <2>1, <2>2, <2>3, <2>4
<1>9. ASSUME FinRecoleccion PROVE TiposMarcos' /\ TiposFijos' /\ TiposK' /\ TiposCpu'
  <2>1. TiposMarcos' /\ TiposFijos' /\ TiposCpu'
    BY <1>9 DEF FinRecoleccion, TiposMarcos, TiposFijos, TiposCpu
  <2>2. TiposK'
    BY <1>9, EmpiezaK DEF FinRecoleccion, TiposK
  <2> QED BY <2>1, <2>2
<1>10. ASSUME CopiarASwap PROVE TiposMarcos' /\ TiposFijos' /\ TiposK' /\ TiposCpu'
  <2>1. TiposMarcos' /\ TiposFijos' /\ TiposCpu'
    BY <1>10 DEF CopiarASwap, TiposMarcos, TiposFijos, TiposCpu
  <2>2. TiposK'
    <3>1. k.en = "copia" /\ k \in TipoK /\ k.p \in Pids
      BY <1>10 DEF CopiarASwap, TiposK
    <3>2. k' = EnReposo \/ k' = [k EXCEPT !.i = @ + 1]
      BY <1>10 DEF CopiarASwap
    <3> QED BY <3>1, <3>2, ReposoK, AvanzaK
  <2> QED BY <2>1, <2>2
<1>11. ASSUME LeerDeSwap PROVE TiposMarcos' /\ TiposFijos' /\ TiposK' /\ TiposCpu'
  <2>1. TiposMarcos' /\ TiposFijos' /\ TiposCpu'
    BY <1>11 DEF LeerDeSwap, TiposMarcos, TiposFijos, TiposCpu
  <2>2. TiposK'
    <3>1. k.en = "lee" /\ k \in TipoK /\ k.p \in Pids /\ k' = [k EXCEPT !.i = @ + 1]
      BY <1>11 DEF LeerDeSwap, TiposK
    <3> QED BY <3>1, AvanzaK
  <2> QED BY <2>1, <2>2
<1>12. ASSUME FinDesuspension PROVE TiposMarcos' /\ TiposFijos' /\ TiposK' /\ TiposCpu'
  <2>1. TiposMarcos' /\ TiposCpu'
    BY <1>12 DEF FinDesuspension, TiposMarcos, TiposCpu
  <2>2. TiposFijos'
    <3>1. k.p \in Pids
      BY <1>12 DEF FinDesuspension, TiposK
    <3> QED BY <1>12, <3>1, PasaTipo DEF FinDesuspension, Fases
  <2>3. TiposK'
    BY <1>12, ReposoK DEF FinDesuspension
  <2> QED BY <2>1, <2>2, <2>3
<1>13. ASSUME eliminar_proceso_en_memoria PROVE TiposMarcos' /\ TiposFijos' /\ TiposK' /\ TiposCpu'
  <2>1. TiposMarcos'
    BY <1>13, SinMarcoAparte DEF eliminar_proceso_en_memoria, TiposMarcos
  <2>2. TiposFijos' /\ TiposCpu'
    BY <1>13 DEF eliminar_proceso_en_memoria, TiposFijos, TiposCpu
  <2>3. TiposK'
    BY <1>13, ReposoK DEF eliminar_proceso_en_memoria
  <2> QED BY <2>1, <2>2, <2>3
<1> QED BY <1>1, <1>2, <1>3, <1>4, <1>5, <1>6, <1>7, <1>8, <1>9, <1>10, <1>11, <1>12, <1>13
        DEF Kernel

\* One CPU changes what it carries.
LEMMA CambiaCpu ==
  ASSUME TiposCpu, NEW c \in CPUs, NEW r \in TipoCpu, PosicionCpu(r),
         cpu' = [cpu EXCEPT ![c] = r]
  PROVE  TiposCpu'
<1>1. cpu' \in [CPUs -> TipoCpu]
  BY DEF TiposCpu
<1>2. ASSUME NEW d \in CPUs PROVE PosicionCpu(cpu'[d])
  <2>1. CASE d = c
    BY <2>1 DEF TiposCpu
  <2>2. CASE d # c
    BY <2>2 DEF TiposCpu
  <2> QED BY <2>1, <2>2
<1> QED BY <1>1, <1>2 DEF TiposCpu

\* A page of a process that has it is a page of the tables.
LEMMA PaginaDe == ASSUME NEW p \in Pids, NEW i \in Pag(p) PROVE <<p, i>> \in Paginas /\ i \in Int
  BY MemoriaConstantesOK DEF Paginas, Pag, cantidad_paginas, MemoriaConstantesOK

\* Types: a process that the kernel gives to a CPU.
LEMMA TipoDespachar ==
  ASSUME MemoriaTypeOK, NEW c \in CPUs, NEW p \in Pids, Despachar(c, p) PROVE MemoriaTypeOK'
<1> USE DEF mem, swap, conf
<1>1. TiposMarcos' /\ TiposK'
  BY DEF Despachar, MemoriaTypeOK, TiposMarcos, TiposK
<1>2. TiposFijos'
  BY PasaTipo DEF Despachar, MemoriaTypeOK, Fases
<1>3. TiposCpu'
  <2> DEFINE r == [CpuLibre EXCEPT !.en = "ejecuta", !.p = p]
  <2>1. r \in TipoCpu /\ PosicionCpu(r)
    BY ReposoTipo DEF CpuLibre, TipoCpu, PosicionCpu, PidONadie
  <2>2. cpu' = [cpu EXCEPT ![c] = r]
    BY DEF Despachar
  <2> HIDE DEF r
  <2> QED BY <2>1, <2>2, CambiaCpu DEF MemoriaTypeOK
<1> QED BY <1>1, <1>2, <1>3 DEF MemoriaTypeOK

\* Types: the end of the IO of a process.
LEMMA TipoFinIO == ASSUME MemoriaTypeOK, NEW p \in Pids, FinIO(p) PROVE MemoriaTypeOK'
<1> USE DEF mem, swap, conf
<1>1. TiposMarcos' /\ TiposK' /\ TiposCpu'
  BY DEF FinIO, MemoriaTypeOK, TiposMarcos, TiposK, TiposCpu
<1>2. TiposFijos'
  BY PasaTipo DEF FinIO, MemoriaTypeOK, Fases
<1> QED BY <1>1, <1>2 DEF MemoriaTypeOK

\* A step of a CPU, or of the thread that serves it, keeps every type.
LEMMA TipoCpus == ASSUME MemoriaTypeOK, NEW c \in CPUs, Cpu(c) PROVE MemoriaTypeOK'
<1> DEFINE r0 == cpu[c]
<1>0. /\ TiposMarcos /\ TiposFijos /\ TiposK /\ TiposCpu
      /\ r0 \in TipoCpu /\ PosicionCpu(r0) /\ cpu \in [CPUs -> TipoCpu]
  BY DEF MemoriaTypeOK, TiposCpu
<1>f. r0.i \in Int /\ r0.f \in MarcoONada /\ r0.sucia \in Int /\ r0.dir \in MarcoONada
      /\ r0.v \in Nat /\ r0.vacia \in BOOLEAN /\ r0.p \in PidONadie
  BY <1>0 DEF TipoCpu
<1> SUFFICES TiposMarcos' /\ TiposFijos' /\ TiposK' /\ TiposCpu'
  BY DEF MemoriaTypeOK
<1> USE DEF mem, swap, conf
<1>1. CASE PedirMarco(c)
  <2>1. TiposMarcos' /\ TiposFijos' /\ TiposK'
    BY <1>0, <1>1 DEF PedirMarco, TiposMarcos, TiposFijos, TiposK
  <2>2. PICK i \in Pag(r0.p) : cpu' = [cpu EXCEPT ![c].en = "busca", ![c].i = i]
    BY <1>1 DEF PedirMarco
  <2>3. r0.en = "ejecuta" /\ r0.p \in Pids /\ <<r0.p, i>> \in Paginas /\ i \in Int /\ r0.sucia = -1
    BY <1>0, <1>1, <2>2, PaginaDe DEF PedirMarco, PosicionCpu
  <2> DEFINE r == [r0 EXCEPT !.en = "busca", !.i = i]
  <2>4. r \in TipoCpu
    BY <1>0, <2>3 DEF TipoCpu
  <2>5. r.en = "busca" /\ r.p = r0.p /\ r.i = i /\ r.sucia = r0.sucia /\ r.vacia = r0.vacia
    BY <1>0 DEF TipoCpu
  <2>6. PosicionCpu(r)
    BY <1>0, <2>3, <2>5 DEF PosicionCpu
  <2>7. cpu' = [cpu EXCEPT ![c] = r]
    BY <2>2
  <2> HIDE DEF r
  <2> QED BY <1>0, <2>1, <2>4, <2>6, <2>7, CambiaCpu
<1>2. CASE BloquearOSalir(c)
  <2>1. TiposMarcos' /\ TiposK'
    BY <1>0, <1>2 DEF BloquearOSalir, TiposMarcos, TiposK
  <2>2. r0.en = "ejecuta" /\ r0.p \in Pids
    BY <1>0, <1>2 DEF BloquearOSalir, PosicionCpu
  <2>3. TiposFijos'
    BY <1>0, <1>2, <2>2, PasaTipo DEF BloquearOSalir, Fases
  <2>4. CASE r0.sucia = -1
    <3>1. cpu' = [cpu EXCEPT ![c] = CpuLibre]
      BY <1>2, <2>4 DEF BloquearOSalir
    <3> QED BY <1>0, <2>1, <2>3, <3>1, ReposoTipo, CambiaCpu
  <2>5. CASE r0.sucia # -1
    <3> DEFINE r == [r0 EXCEPT !.en = "busca", !.i = r0.sucia, !.vacia = TRUE]
    <3>1. cpu' = [cpu EXCEPT ![c] = r]
      BY <1>2, <2>5 DEF BloquearOSalir
    <3>2. r \in TipoCpu
      BY <1>0, <1>f DEF TipoCpu
    <3>3. r.en = "busca" /\ r.p = r0.p /\ r.i = r0.sucia /\ r.sucia = r0.sucia /\ r.dir = r0.dir
      BY <1>0 DEF TipoCpu
    <3>4. PosicionCpu(r)
      BY <1>0, <2>2, <2>5, <3>3 DEF PosicionCpu
    <3> HIDE DEF r
    <3> QED BY <1>0, <2>1, <2>3, <3>1, <3>2, <3>4, CambiaCpu
  <2> QED BY <2>4, <2>5
<1>3. CASE BuscarProceso(c)
  <2>1. TiposMarcos' /\ TiposFijos' /\ TiposK'
    BY <1>0, <1>3 DEF BuscarProceso, TiposMarcos, TiposFijos, TiposK
  <2>2. PICK en \in {"mira", "colgada"} : cpu' = [cpu EXCEPT ![c].en = en]
    BY <1>3 DEF BuscarProceso, VaCpu
  <2>3. r0.en = "busca"
    BY <1>3 DEF BuscarProceso
  <2> DEFINE r == [r0 EXCEPT !.en = en]
  <2>4. r \in TipoCpu
    BY <1>0 DEF TipoCpu
  <2>5. /\ r.en = en /\ r.p = r0.p /\ r.i = r0.i /\ r.sucia = r0.sucia /\ r.dir = r0.dir
        /\ r.vacia = r0.vacia
    BY <1>0 DEF TipoCpu
  <2>6. PosicionCpu(r)
    BY <1>0, <2>3, <2>5 DEF PosicionCpu
  <2>7. cpu' = [cpu EXCEPT ![c] = r]
    BY <2>2
  <2> HIDE DEF r
  <2> QED BY <1>0, <2>1, <2>4, <2>6, <2>7, CambiaCpu
<1>4. CASE MirarMarco(c)
  <2>1. TiposFijos' /\ TiposK'
    BY <1>0, <1>4 DEF MirarMarco, TiposFijos, TiposK
  <2>2. r0.en = "mira" /\ <<r0.p, r0.i>> \in Paginas
    BY <1>0, <1>4 DEF MirarMarco, PosicionCpu
  <2>3. TiposMarcos'
    <3>1. bitmap' \subseteq Marcos
      <4>1. CASE UNCHANGED bitmap
        BY <1>0, <4>1 DEF TiposMarcos
      <4>2. CASE \E f \in Libres \cup {SinMarco} : asignar_marco_libre(f)
        BY <1>0, <4>2, MarcoLibre
      <4> QED BY <1>4, <4>1, <4>2 DEF MirarMarco
    <3> QED BY <1>0, <1>4, <3>1 DEF MirarMarco, TiposMarcos
  <2>4. PICK en \in {"usa", "guarda"}, f \in MarcoONada :
          /\ cpu' = [cpu EXCEPT ![c].en = en, ![c].f = f]
          /\ en = "guarda" => f \in Marcos
    <3>1. CASE viva[r0.p] /\ cpu' = [cpu EXCEPT ![c].en = "usa", ![c].f = tabla[Pagina(c)]]
      <4>1. tabla[Pagina(c)] \in MarcoONada
        BY <1>0, <2>2 DEF TiposMarcos, Pagina
      <4> QED BY <3>1, <4>1
    <3>2. CASE \E f \in Libres \cup {SinMarco} :
                 cpu' = [cpu EXCEPT ![c].en = IF f = SinMarco THEN "usa" ELSE "guarda", ![c].f = f]
      <4>1. Libres \subseteq Marcos /\ Marcos \subseteq MarcoONada /\ SinMarco \in MarcoONada
        BY DEF Libres, MarcoONada
      <4> QED BY <3>2, <4>1
    <3>3. CASE \E f \in Marcos : cpu' = [cpu EXCEPT ![c].en = "usa", ![c].f = f]
      BY <3>3 DEF MarcoONada
    <3> QED BY <1>4, <3>1, <3>2, <3>3 DEF MirarMarco
  <2> DEFINE r == [r0 EXCEPT !.en = en, !.f = f]
  <2>5. r \in TipoCpu
    BY <1>0, <2>4 DEF TipoCpu
  <2>6. /\ r.en = en /\ r.p = r0.p /\ r.i = r0.i /\ r.f = f /\ r.sucia = r0.sucia
        /\ r.dir = r0.dir /\ r.vacia = r0.vacia
    BY <1>0 DEF TipoCpu
  <2>7. PosicionCpu(r)
    BY <1>0, <2>2, <2>4, <2>6 DEF PosicionCpu
  <2>8. cpu' = [cpu EXCEPT ![c] = r]
    BY <2>4
  <2> HIDE DEF r
  <2> QED BY <1>0, <2>1, <2>3, <2>5, <2>7, <2>8, CambiaCpu
<1>5. CASE GuardarMarcoCPU(c)
  <2>1. TiposFijos' /\ TiposK'
    BY <1>0, <1>5 DEF GuardarMarcoCPU, TiposFijos, TiposK
  <2>2. r0.en = "guarda"
    BY <1>5 DEF GuardarMarcoCPU
  <2>3. TiposMarcos'
    <3>1. tabla' = tabla \/ tabla' = [tabla EXCEPT ![Pagina(c)] = r0.f]
      BY <1>5 DEF GuardarMarcoCPU
    <3> QED BY <1>0, <1>5, <1>f, <3>1 DEF GuardarMarcoCPU, TiposMarcos
  <2> DEFINE r == [r0 EXCEPT !.en = "usa"]
  <2>4. r \in TipoCpu
    BY <1>0 DEF TipoCpu
  <2>5. /\ r.en = "usa" /\ r.p = r0.p /\ r.i = r0.i /\ r.sucia = r0.sucia /\ r.dir = r0.dir
        /\ r.vacia = r0.vacia
    BY <1>0 DEF TipoCpu
  <2>6. PosicionCpu(r)
    BY <1>0, <2>2, <2>5 DEF PosicionCpu
  <2>7. cpu' = [cpu EXCEPT ![c] = r]
    BY <1>5 DEF GuardarMarcoCPU, VaCpu
  <2> HIDE DEF r
  <2> QED BY <1>0, <2>1, <2>3, <2>4, <2>6, <2>7, CambiaCpu
<1>6. CASE EscribirMemoria(c)
  <2>1. TiposMarcos' /\ TiposK'
    BY <1>0, <1>6 DEF EscribirMemoria, TiposMarcos, TiposK
  <2>2. r0.en = "usa" /\ Pagina(c) \in Paginas
    BY <1>0, <1>6 DEF EscribirMemoria, PosicionCpu, Pagina
  <2>3. TiposFijos'
    <3>1. escrito[Pagina(c)] + 1 \in Nat
      BY <1>0, <2>2 DEF TiposFijos
    <3>2. escrito' \in [Paginas -> Nat]
      BY <1>0, <1>6, <3>1 DEF EscribirMemoria, TiposFijos
    <3> QED BY <1>0, <1>6, <3>2 DEF EscribirMemoria, TiposFijos
  <2> DEFINE r == [r0 EXCEPT !.en = "ejecuta"]
  <2>4. r \in TipoCpu
    BY <1>0 DEF TipoCpu
  <2>5. /\ r.en = "ejecuta" /\ r.p = r0.p /\ r.i = r0.i /\ r.sucia = r0.sucia /\ r.dir = r0.dir
        /\ r.vacia = r0.vacia
    BY <1>0 DEF TipoCpu
  <2>6. PosicionCpu(r)
    BY <1>0, <2>2, <2>5 DEF PosicionCpu
  <2>7. cpu' = [cpu EXCEPT ![c] = r]
    BY <1>6 DEF EscribirMemoria, VaCpu
  <2> HIDE DEF r
  <2> QED BY <1>0, <2>1, <2>3, <2>4, <2>6, <2>7, CambiaCpu
<1>7. CASE EscribirCache(c)
  <2>1. TiposMarcos' /\ TiposK'
    BY <1>0, <1>7 DEF EscribirCache, TiposMarcos, TiposK
  <2>2. r0.en = "usa" /\ Pagina(c) \in Paginas /\ Pagina(c) = <<r0.p, r0.i>> /\ ~r0.vacia
    BY <1>0, <1>7 DEF EscribirCache, PosicionCpu, Pagina
  <2>3. escrito[Pagina(c)] + 1 \in Nat
    BY <1>0, <2>2 DEF TiposFijos
  <2>4. TiposFijos'
    <3>1. escrito' \in [Paginas -> Nat]
      BY <1>0, <1>7, <2>3 DEF EscribirCache, TiposFijos
    <3> QED BY <1>0, <1>7, <3>1 DEF EscribirCache, TiposFijos
  <2>5. CASE r0.f = SinMarco
    <3> DEFINE r == [r0 EXCEPT !.en = "colgada"]
    <3>1. r \in TipoCpu
      BY <1>0 DEF TipoCpu
    <3>2. /\ r.en = "colgada" /\ r.p = r0.p /\ r.sucia = r0.sucia /\ r.dir = r0.dir
          /\ r.vacia = r0.vacia
      BY <1>0 DEF TipoCpu
    <3>3. PosicionCpu(r)
      BY <1>0, <2>2, <3>2 DEF PosicionCpu
    <3>4. cpu' = [cpu EXCEPT ![c] = r]
      BY <1>7, <2>5 DEF EscribirCache, VaCpu
    <3> HIDE DEF r
    <3> QED BY <1>0, <2>1, <2>4, <3>1, <3>3, <3>4, CambiaCpu
  <2>6. CASE r0.f # SinMarco
    <3> DEFINE n == escrito[Pagina(c)] + 1
               r == [r0 EXCEPT !.en = "ejecuta", !.sucia = r0.i, !.dir = r0.f, !.v = n]
    <3>1. r0.f \in Marcos
      BY <1>f, <2>6 DEF MarcoONada
    <3>2. r \in TipoCpu
      BY <1>0, <1>f, <2>3 DEF TipoCpu
    <3>3. r.en = "ejecuta" /\ r.p = r0.p /\ r.sucia = r0.i /\ r.dir = r0.f /\ r.vacia = r0.vacia
      BY <1>0 DEF TipoCpu
    <3>4. PosicionCpu(r)
      BY <1>0, <2>2, <3>1, <3>3 DEF PosicionCpu
    <3>5. cpu' = [cpu EXCEPT ![c] = r]
      BY <1>7, <2>6 DEF EscribirCache
    <3> HIDE DEF r
    <3> QED BY <1>0, <2>1, <2>4, <3>2, <3>4, <3>5, CambiaCpu
  <2> QED BY <2>5, <2>6
<1>8. CASE VaciarCache(c)
  <2>1. TiposMarcos' /\ TiposFijos' /\ TiposK'
    BY <1>0, <1>8 DEF VaciarCache, TiposMarcos, TiposFijos, TiposK
  <2>2. cpu' = [cpu EXCEPT ![c] = CpuLibre]
    BY <1>8 DEF VaciarCache
  <2> QED BY <1>0, <2>1, <2>2, ReposoTipo, CambiaCpu
<1> QED BY <1>1, <1>2, <1>3, <1>4, <1>5, <1>6, <1>7, <1>8 DEF Cpu

\* Every reachable state has the right types, and no thread carries a page or a
\* frame that does not exist.
THEOREM MemoriaTipos == Spec => []MemoriaTypeOK
<1>1. MemoriaTypeOK /\ [Next]_vars => MemoriaTypeOK'
  <2> SUFFICES ASSUME MemoriaTypeOK, [Next]_vars PROVE MemoriaTypeOK'
    OBVIOUS
  <2>1. CASE UNCHANGED vars
    BY <2>1 DEF MemoriaTypeOK, TiposMarcos, TiposFijos, TiposK, TiposCpu, vars, mem, swap, conf
  <2>2. CASE Next
    BY <2>2, TipoKernel, TipoFinIO, TipoCpus, TipoDespachar DEF Next
  <2> QED BY <2>1, <2>2
<1> QED BY <1>1, TipoInicial, PTL DEF Spec

-----------------------------------------------------------------------------
(* A frame belongs to one page, or to one hand.                              *)

\* A step that gives nobody a frame, and unmarks none that somebody keeps.
LEMMA NadieGana ==
  ASSUME MarcosExclusivos,
         \A x \in EnMesa' : x \in EnMesa /\ tabla'[x] = tabla[x] /\ tabla[x] \in bitmap',
         \A c \in EnMano' : c \in EnMano /\ cpu'[c].f = cpu[c].f /\ cpu[c].f \in bitmap',
         k'.en = "guarda" => k.en = "guarda" /\ k'.f = k.f /\ k.f \in bitmap'
  PROVE  MarcosExclusivos'
<1> HIDE DEF EnMesa, EnMano
<1>1. \A x, y \in EnMesa' : x # y => tabla'[x] # tabla'[y]
  BY DEF MarcosExclusivos
<1>2. \A x \in EnMesa' : tabla'[x] \in bitmap'
  OBVIOUS
<1>3. ASSUME NEW c \in EnMano'
      PROVE  /\ cpu'[c].f \in bitmap'
             /\ \A x \in EnMesa' : tabla'[x] # cpu'[c].f
             /\ \A d \in EnMano' \ {c} : cpu'[d].f # cpu'[c].f
  BY DEF MarcosExclusivos
<1>4. ASSUME k'.en = "guarda"
      PROVE  /\ k'.f \in bitmap'
             /\ \A x \in EnMesa' : tabla'[x] # k'.f
             /\ \A c \in EnMano' : cpu'[c].f # k'.f
  BY <1>4 DEF MarcosExclusivos
<1> QED BY <1>1, <1>2, <1>3, <1>4 DEF MarcosExclusivos

\* Steps of the kernel's thread that touch neither tables nor bitmap.
LEMMA KernelNoGana ==
  ASSUME MarcosExclusivos, UNCHANGED <<tabla, bitmap, cpu>>, k.en # "destruye", k'.en # "guarda"
  PROVE  MarcosExclusivos'
<1>1. \A x \in EnMesa' : x \in EnMesa /\ tabla'[x] = tabla[x]
  BY DEF EnMesa, EnDestruccion
<1>2. \A c \in EnMano' : c \in EnMano /\ cpu'[c].f = cpu[c].f
  BY DEF EnMano
<1>3. \A x \in EnMesa : tabla[x] \in bitmap
  BY DEF MarcosExclusivos
<1>4. \A c \in EnMano : cpu[c].f \in bitmap
  BY DEF MarcosExclusivos
<1> QED BY <1>1, <1>2, <1>3, <1>4, NadieGana

\* Steps of a CPU that touch neither tables nor bitmap.
LEMMA CpuNoGana ==
  ASSUME MarcosExclusivos, UNCHANGED <<tabla, bitmap, k>>, NEW c \in CPUs, TiposCpu, NEW r,
         cpu' = [cpu EXCEPT ![c] = r], r.en # "guarda"
  PROVE  MarcosExclusivos'
<1>1. \A x \in EnMesa' : x \in EnMesa /\ tabla'[x] = tabla[x]
  BY DEF EnMesa, EnDestruccion
<1>2. \A d \in EnMano' : d \in EnMano /\ cpu'[d].f = cpu[d].f
  BY DEF EnMano, TiposCpu
<1>3. \A x \in EnMesa : tabla[x] \in bitmap
  BY DEF MarcosExclusivos
<1>4. \A d \in EnMano : cpu[d].f \in bitmap
  BY DEF MarcosExclusivos
<1>5. k.en = "guarda" => k.f \in bitmap
  BY DEF MarcosExclusivos
<1> QED BY <1>1, <1>2, <1>3, <1>4, <1>5, NadieGana

\* The kernel's thread: a frame is taken, kept, and given back.
LEMMA ExclusivosKernel == ASSUME MemoriaTypeOK, MarcosExclusivos, Kernel PROVE MarcosExclusivos'
<1> USE DEF mem, swap, conf
<1>a. \A x \in EnMesa : tabla[x] \in bitmap /\ x \in Paginas
  BY DEF MarcosExclusivos, EnMesa
<1>b. \A c \in EnMano : cpu[c].f \in bitmap /\ c \in CPUs
  BY DEF MarcosExclusivos, EnMano
<1>k. TiposMarcos /\ TiposK /\ TiposCpu
  BY DEF MemoriaTypeOK
<1>1. ASSUME NEW p \in Pids, CREAR(p) PROVE MarcosExclusivos'
  BY <1>1, <1>k, AtiendeTipo, KernelNoGana DEF CREAR
<1>2. ASSUME NEW p \in Pids, SUSPENDER(p) PROVE MarcosExclusivos'
  BY <1>2, <1>k, AtiendeTipo, KernelNoGana DEF SUSPENDER
<1>3. ASSUME NEW p \in Pids, DESUSPENDER(p) PROVE MarcosExclusivos'
  BY <1>3, <1>k, AtiendeTipo, KernelNoGana DEF DESUSPENDER
<1>4. ASSUME NEW p \in Pids, FINALIZAR(p) PROVE MarcosExclusivos'
  <2>1. k.en = "recibe" /\ tabla' = tabla /\ cpu' = cpu
    BY <1>4 DEF FINALIZAR
  <2>2. CASE bitmap' = bitmap /\ k' = k
    BY <2>1, <2>2, KernelNoGana
  <2>3. CASE Atiende("FINALIZAR", p, "destruye")
    <3> DEFINE X == ConMarco({x \in Paginas : x[1] = p})
               F == {tabla[x] : x \in X}
    <3>1. k'.en = "destruye" /\ k'.p = p
      BY <2>3, AtiendeTipo
    <3>2. bitmap' = bitmap \ F \/ bitmap' = bitmap
      BY <1>4 DEF FINALIZAR
    <3>3. \A x \in EnMesa' : x \in EnMesa /\ x[1] # p
      BY <2>1, <3>1 DEF EnMesa, EnDestruccion
    <3>4. X \subseteq EnMesa /\ \A x \in X : x[1] = p
      BY <2>1 DEF EnMesa, EnDestruccion, ConMarco
    <3>5. \A x \in EnMesa' : tabla[x] \notin F
      BY <3>3, <3>4 DEF MarcosExclusivos
    <3>6. \A c \in EnMano : cpu[c].f \notin F
      BY <3>4 DEF MarcosExclusivos
    <3>7. EnMano' = EnMano
      BY <2>1 DEF EnMano
    <3> HIDE DEF F
    <3> QED BY <1>a, <1>b, <2>1, <3>1, <3>2, <3>3, <3>5, <3>6, <3>7, NadieGana
  <2> QED BY <1>4, <2>2, <2>3 DEF FINALIZAR
<1>5. ASSUME AsignarMarco PROVE MarcosExclusivos'
  <2>1. k.en = "asigna" /\ cpu' = cpu /\ k \in TipoK
    BY <1>5, <1>k DEF AsignarMarco, TiposK
  <2>2. CASE k' = [k EXCEPT !.i = @ + 1] /\ UNCHANGED <<bitmap, tabla>>
    <3>1. k'.en = "asigna"
      BY <2>1, <2>2 DEF TipoK
    <3> QED BY <2>1, <2>2, <3>1, KernelNoGana
  <2>3. ASSUME NEW f \in Libres, asignar_marco_libre(f),
               k' = [k EXCEPT !.en = "guarda", !.f = f], tabla' = tabla
        PROVE  MarcosExclusivos'
    <3>1. f \notin bitmap /\ f \in bitmap' /\ bitmap \subseteq bitmap'
      <4>1. f # SinMarco
        BY SinMarcoAparte DEF Libres
      <4> QED BY <1>k, <2>3, <4>1, MarcoLibre
    <3>2. k'.en = "guarda" /\ k'.f = f
      BY <2>1, <2>3 DEF TipoK
    <3>3. EnMesa' = EnMesa /\ EnMano' = EnMano
      BY <2>1, <2>3, <3>2 DEF EnMesa, EnDestruccion, EnMano
    <3>4. \A x \in EnMesa : tabla[x] # f
      BY <1>a, <3>1
    <3>5. \A c \in EnMano : cpu[c].f # f
      BY <1>b, <3>1
    <3> QED BY <2>1, <2>3, <3>1, <3>2, <3>3, <3>4, <3>5 DEF MarcosExclusivos
  <2>4. CASE k' = EnReposo /\ asignar_marco_libre(SinMarco)
    <3>1. bitmap' = bitmap
      BY <2>4, SinMarcoAparte DEF asignar_marco_libre, Libres
    <3>2. k'.en # "guarda" /\ k'.en # "destruye"
      BY <2>4, ReposoTipo
    <3>3. \A x \in EnMesa' : x \in EnMesa /\ tabla'[x] = tabla[x]
      BY <1>5, <2>1 DEF AsignarMarco, EnMesa, EnDestruccion
    <3>4. \A c \in EnMano' : c \in EnMano /\ cpu'[c].f = cpu[c].f
      BY <2>1 DEF EnMano
    <3> QED BY <1>a, <1>b, <3>1, <3>2, <3>3, <3>4, NadieGana
  <2> QED BY <1>5, <2>2, <2>3, <2>4 DEF AsignarMarco
<1>6. ASSUME GuardarMarco PROVE MarcosExclusivos'
  <2> DEFINE x0 == <<k.p, k.i>>
  <2>1. k.en = "guarda" /\ bitmap' = bitmap /\ cpu' = cpu /\ tabla' = [tabla EXCEPT ![x0] = k.f]
        /\ k \in TipoK /\ x0 \in Paginas /\ tabla \in [Paginas -> MarcoONada]
    BY <1>6, <1>k DEF GuardarMarco, TiposK, TiposMarcos
  <2>2. k'.en = "asigna"
    BY <1>6, <2>1 DEF GuardarMarco, TipoK
  <2> HIDE DEF x0
  <2>3. tabla'[x0] = k.f /\ \A x \in EnMesa' \ {x0} : x \in EnMesa /\ tabla'[x] = tabla[x]
    BY <2>1, <2>2 DEF EnMesa, EnDestruccion
  <2>4. EnMano' = EnMano
    BY <2>1 DEF EnMano
  <2>5. k.f \in bitmap /\ (\A x \in EnMesa : tabla[x] # k.f) /\ \A c \in EnMano : cpu[c].f # k.f
    BY <2>1 DEF MarcosExclusivos
  <2> QED BY <2>1, <2>2, <2>3, <2>4, <2>5 DEF MarcosExclusivos
<1>7. ASSUME FinAsignacion PROVE MarcosExclusivos'
  <2>1. k.en = "asigna" /\ k \in TipoK
    BY <1>7, <1>k DEF FinAsignacion, TiposK
  <2>2. k'.en \in {"recibe", "lee"}
    BY <1>7, <2>1, ReposoTipo DEF FinAsignacion, TipoK
  <2> QED BY <1>7, <2>1, <2>2, KernelNoGana DEF FinAsignacion
<1>8. ASSUME RecolectarMarcos PROVE MarcosExclusivos'
  <2> DEFINE X == ConMarco(Hoja(k.p, k.i))
  <2>1. /\ k.en = "recolecta" /\ cpu' = cpu /\ k \in TipoK
        /\ k' = [k EXCEPT !.i = @ + 1]
        /\ tabla' = [x \in Paginas |-> IF x \in X THEN SinMarco ELSE tabla[x]]
        /\ bitmap' = bitmap \ {tabla[x] : x \in X}
    BY <1>8, <1>k DEF RecolectarMarcos, TiposK
  <2>2. k'.en = "recolecta"
    BY <2>1 DEF TipoK
  <2>3. X \subseteq EnMesa
    BY <2>1 DEF EnMesa, EnDestruccion, ConMarco, Hoja
  <2> HIDE DEF X
  <2>4. \A x \in EnMesa' : x \in EnMesa /\ x \notin X /\ tabla'[x] = tabla[x]
    BY <2>1, <2>2 DEF EnMesa, EnDestruccion
  <2>5. \A x \in EnMesa' : tabla[x] \in bitmap'
    BY <1>a, <2>1, <2>3, <2>4 DEF MarcosExclusivos
  <2>6. \A c \in EnMano' : c \in EnMano /\ cpu'[c].f = cpu[c].f
    BY <2>1 DEF EnMano
  <2>7. \A c \in EnMano : cpu[c].f \in bitmap'
    BY <1>b, <2>1, <2>3 DEF MarcosExclusivos
  <2> QED BY <2>2, <2>4, <2>5, <2>6, <2>7, NadieGana
<1>9. ASSUME FinRecoleccion PROVE MarcosExclusivos'
  <2>1. k.en = "recolecta" /\ k'.en = "copia"
    BY <1>9, <1>k DEF FinRecoleccion, TiposK, TipoK
  <2> QED BY <1>9, <2>1, KernelNoGana DEF FinRecoleccion
<1>10. ASSUME CopiarASwap PROVE MarcosExclusivos'
  <2>1. k.en = "copia" /\ k \in TipoK
    BY <1>10, <1>k DEF CopiarASwap, TiposK
  <2>2. k'.en \in {"recibe", "copia"}
    BY <1>10, <2>1, ReposoTipo DEF CopiarASwap, TipoK
  <2> QED BY <1>10, <2>1, <2>2, KernelNoGana DEF CopiarASwap
<1>11. ASSUME LeerDeSwap PROVE MarcosExclusivos'
  <2>1. k.en = "lee" /\ k'.en = "lee"
    BY <1>11, <1>k DEF LeerDeSwap, TiposK, TipoK
  <2> QED BY <1>11, <2>1, KernelNoGana DEF LeerDeSwap
<1>12. ASSUME FinDesuspension PROVE MarcosExclusivos'
  BY <1>12, ReposoTipo, KernelNoGana DEF FinDesuspension
<1>13. ASSUME eliminar_proceso_en_memoria PROVE MarcosExclusivos'
  <2>1. k.en = "destruye" /\ k'.en = "recibe" /\ bitmap' = bitmap /\ cpu' = cpu
        /\ tabla' = [y \in Paginas |-> IF y[1] = k.p THEN SinMarco ELSE tabla[y]]
    BY <1>13, ReposoTipo DEF eliminar_proceso_en_memoria
  <2>2. \A x \in EnMesa' : x \in EnMesa /\ tabla'[x] = tabla[x]
    BY <2>1 DEF EnMesa, EnDestruccion
  <2>3. \A c \in EnMano' : c \in EnMano /\ cpu'[c].f = cpu[c].f
    BY <2>1 DEF EnMano
  <2> QED BY <1>a, <1>b, <2>1, <2>2, <2>3, NadieGana
<1> QED BY <1>1, <1>2, <1>3, <1>4, <1>5, <1>6, <1>7, <1>8, <1>9, <1>10, <1>11, <1>12, <1>13
        DEF Kernel

\* A CPU: the frame it is given for a page goes from the bitmap to the table.
LEMMA ExclusivosCpu == ASSUME MemoriaTypeOK, MarcosExclusivos, NEW c \in CPUs, Cpu(c)
                       PROVE  MarcosExclusivos'
<1> USE DEF mem, swap, conf
<1> DEFINE r0 == cpu[c]
<1>0. TiposMarcos /\ TiposCpu /\ r0 \in TipoCpu /\ PosicionCpu(r0) /\ cpu \in [CPUs -> TipoCpu]
  BY DEF MemoriaTypeOK, TiposCpu
<1>a. \A x \in EnMesa : tabla[x] \in bitmap
  BY DEF MarcosExclusivos
<1>b. \A d \in EnMano : cpu[d].f \in bitmap /\ d \in CPUs
  BY DEF MarcosExclusivos, EnMano
<1>n. ASSUME UNCHANGED <<tabla, bitmap, k>>, NEW r, cpu' = [cpu EXCEPT ![c] = r], r.en # "guarda"
      PROVE  MarcosExclusivos'
  BY <1>0, <1>n, CpuNoGana
<1>1. CASE PedirMarco(c)
  <2>1. PICK i \in Pag(r0.p) : cpu' = [cpu EXCEPT ![c].en = "busca", ![c].i = i]
    BY <1>1 DEF PedirMarco
  <2>2. [r0 EXCEPT !.en = "busca", !.i = i].en = "busca"
    BY <1>0 DEF TipoCpu
  <2>3. cpu' = [cpu EXCEPT ![c] = [r0 EXCEPT !.en = "busca", !.i = i]]
    BY <2>1
  <2> QED BY <1>1, <2>2, <2>3, <1>n DEF PedirMarco
<1>2. CASE BloquearOSalir(c)
  <2> DEFINE r == IF r0.sucia = -1 THEN CpuLibre
                  ELSE [r0 EXCEPT !.en = "busca", !.i = r0.sucia, !.vacia = TRUE]
  <2>1. cpu' = [cpu EXCEPT ![c] = r]
    BY <1>2 DEF BloquearOSalir
  <2>2. r.en # "guarda"
    BY <1>0, ReposoTipo DEF TipoCpu
  <2> HIDE DEF r
  <2> QED BY <1>2, <2>1, <2>2, <1>n DEF BloquearOSalir
<1>3. CASE BuscarProceso(c)
  <2>1. PICK en \in {"mira", "colgada"} : cpu' = [cpu EXCEPT ![c].en = en]
    BY <1>3 DEF BuscarProceso, VaCpu
  <2>2. [r0 EXCEPT !.en = en].en = en
    BY <1>0 DEF TipoCpu
  <2>3. cpu' = [cpu EXCEPT ![c] = [r0 EXCEPT !.en = en]]
    BY <2>1
  <2> QED BY <1>3, <2>2, <2>3, <1>n DEF BuscarProceso
<1>4. CASE MirarMarco(c)
  <2>1. tabla' = tabla /\ k' = k /\ r0.en = "mira" /\ c \notin EnMano
    BY <1>4 DEF MirarMarco, EnMano
  <2>2. ASSUME NEW f, cpu' = [cpu EXCEPT ![c].en = "usa", ![c].f = f], bitmap' = bitmap
        PROVE  MarcosExclusivos'
    <3>1. [r0 EXCEPT !.en = "usa", !.f = f].en = "usa"
      BY <1>0 DEF TipoCpu
    <3>2. cpu' = [cpu EXCEPT ![c] = [r0 EXCEPT !.en = "usa", !.f = f]]
      BY <2>2
    <3> QED BY <2>1, <2>2, <3>1, <3>2, <1>n
  <2>3. ASSUME NEW f \in Libres, asignar_marco_libre(f),
               cpu' = [cpu EXCEPT ![c].en = "guarda", ![c].f = f]
        PROVE  MarcosExclusivos'
    <3>1. f \notin bitmap /\ f \in bitmap' /\ bitmap \subseteq bitmap'
      <4>1. f # SinMarco
        BY SinMarcoAparte DEF Libres
      <4> QED BY <1>0, <2>3, <4>1, MarcoLibre
    <3>2. cpu'[c].f = f /\ \A d \in CPUs \ {c} : cpu'[d] = cpu[d]
      BY <1>0, <2>3 DEF TipoCpu
    <3>3. EnMesa' = EnMesa
      BY <2>1 DEF EnMesa, EnDestruccion
    <3>4. \A d \in EnMano' : d = c \/ (d \in EnMano /\ d # c /\ cpu'[d].f = cpu[d].f)
      BY <2>1, <3>2 DEF EnMano
    <3>5. \A x \in EnMesa : tabla[x] # f /\ tabla[x] \in bitmap'
      BY <1>a, <3>1
    <3>6. \A d \in EnMano : cpu[d].f # f /\ cpu[d].f \in bitmap'
      BY <1>b, <3>1
    <3>7. k.en = "guarda" => k.f # f /\ k.f \in bitmap'
      BY <3>1 DEF MarcosExclusivos
    <3>8. \A d \in EnMano' :
             /\ cpu'[d].f \in bitmap'
             /\ \A x \in EnMesa' : tabla'[x] # cpu'[d].f
             /\ \A e \in EnMano' \ {d} : cpu'[e].f # cpu'[d].f
      BY <2>1, <3>1, <3>2, <3>3, <3>4, <3>5, <3>6 DEF MarcosExclusivos
    <3>9. k'.en = "guarda" =>
             /\ k'.f \in bitmap'
             /\ \A x \in EnMesa' : tabla'[x] # k'.f
             /\ \A d \in EnMano' : cpu'[d].f # k'.f
      BY <2>1, <3>2, <3>3, <3>4, <3>7 DEF MarcosExclusivos
    <3> QED BY <2>1, <3>3, <3>5, <3>8, <3>9 DEF MarcosExclusivos
  <2>4. ASSUME asignar_marco_libre(SinMarco),
               cpu' = [cpu EXCEPT ![c].en = "usa", ![c].f = SinMarco]
        PROVE  MarcosExclusivos'
    <3>1. bitmap' = bitmap
      BY <2>4, SinMarcoAparte DEF asignar_marco_libre, Libres
    <3> QED BY <2>2, <2>4, <3>1
  <2>5. \A f \in Libres : f # SinMarco
    BY SinMarcoAparte DEF Libres
  <2> QED BY <1>4, <2>2, <2>3, <2>4, <2>5 DEF MirarMarco
<1>5. CASE GuardarMarcoCPU(c)
  <2> DEFINE x0 == Pagina(c)
  <2>1. /\ r0.en = "guarda" /\ c \in EnMano /\ bitmap' = bitmap /\ k' = k /\ x0 \in Paginas
        /\ tabla' = tabla \/ tabla' = [tabla EXCEPT ![x0] = r0.f]
        /\ tabla \in [Paginas -> MarcoONada]
    BY <1>0, <1>5 DEF GuardarMarcoCPU, EnMano, PosicionCpu, Pagina, TiposMarcos
  <2>2. cpu'[c].en = "usa" /\ \A d \in CPUs \ {c} : cpu'[d] = cpu[d]
    BY <1>0, <1>5 DEF GuardarMarcoCPU, VaCpu, TipoCpu
  <2> HIDE DEF x0
  <2>3. \A x \in EnMesa' : (x = x0 /\ tabla'[x] = r0.f) \/ (x \in EnMesa /\ tabla'[x] = tabla[x])
    BY <2>1 DEF EnMesa, EnDestruccion
  <2>4. \A d \in EnMano' : d \in EnMano /\ d # c /\ cpu'[d].f = cpu[d].f
    BY <2>2 DEF EnMano
  <2>5. /\ r0.f \in bitmap
        /\ \A x \in EnMesa : tabla[x] # r0.f
        /\ \A d \in EnMano \ {c} : cpu[d].f # r0.f
        /\ k.en = "guarda" => k.f # r0.f
    BY <2>1 DEF MarcosExclusivos
  <2>6. \A x, y \in EnMesa' : x # y => tabla'[x] # tabla'[y]
    BY <2>3, <2>5 DEF MarcosExclusivos
  <2>7. \A x \in EnMesa' : tabla'[x] \in bitmap'
    BY <1>a, <2>1, <2>3, <2>5
  <2>8. \A d \in EnMano' :
           /\ cpu'[d].f \in bitmap'
           /\ \A x \in EnMesa' : tabla'[x] # cpu'[d].f
           /\ \A e \in EnMano' \ {d} : cpu'[e].f # cpu'[d].f
    BY <1>b, <2>1, <2>3, <2>4, <2>5 DEF MarcosExclusivos
  <2>9. k'.en = "guarda" =>
           /\ k'.f \in bitmap'
           /\ \A x \in EnMesa' : tabla'[x] # k'.f
           /\ \A d \in EnMano' : cpu'[d].f # k'.f
    BY <2>1, <2>3, <2>4, <2>5 DEF MarcosExclusivos
  <2> QED BY <2>6, <2>7, <2>8, <2>9 DEF MarcosExclusivos
<1>6. CASE EscribirMemoria(c)
  <2>1. [r0 EXCEPT !.en = "ejecuta"].en = "ejecuta"
    BY <1>0 DEF TipoCpu
  <2>2. cpu' = [cpu EXCEPT ![c] = [r0 EXCEPT !.en = "ejecuta"]]
    BY <1>6 DEF EscribirMemoria, VaCpu
  <2> QED BY <1>6, <2>1, <2>2, <1>n DEF EscribirMemoria
<1>7. CASE EscribirCache(c)
  <2> DEFINE n == escrito[Pagina(c)] + 1
             r == IF r0.f = SinMarco THEN [r0 EXCEPT !.en = "colgada"]
                  ELSE [r0 EXCEPT !.en = "ejecuta", !.sucia = r0.i, !.dir = r0.f, !.v = n]
  <2>1. r.en # "guarda"
    BY <1>0 DEF TipoCpu
  <2>2. cpu' = [cpu EXCEPT ![c] = r]
    BY <1>7 DEF EscribirCache, VaCpu
  <2> HIDE DEF r
  <2> QED BY <1>7, <2>1, <2>2, <1>n DEF EscribirCache
<1>8. CASE VaciarCache(c)
  <2>1. cpu' = [cpu EXCEPT ![c] = CpuLibre]
    BY <1>8 DEF VaciarCache
  <2> QED BY <1>8, <2>1, <1>n, ReposoTipo DEF VaciarCache
<1> QED BY <1>1, <1>2, <1>3, <1>4, <1>5, <1>6, <1>7, <1>8 DEF Cpu

\* For any number of CPUs, processes and frames, and whatever malloc left in the
\* bitmap: no frame is in two pages, although the tables have no lock.
THEOREM MemoriaExclusivos == Spec => []MarcosExclusivos
<1>1. Init => MarcosExclusivos
  BY ReposoTipo, SinMarcoAparte DEF Init, MarcosExclusivos, EnMesa, EnMano
<1>2. MemoriaTypeOK /\ MarcosExclusivos /\ [Next]_vars => MarcosExclusivos'
  <2> SUFFICES ASSUME MemoriaTypeOK, MarcosExclusivos, [Next]_vars PROVE MarcosExclusivos'
    OBVIOUS
  <2> USE DEF mem, swap, conf
  <2>1. CASE UNCHANGED vars
    BY <2>1 DEF MarcosExclusivos, EnMesa, EnMano, EnDestruccion, vars
  <2>2. CASE Kernel
    BY <2>2, ExclusivosKernel
  <2>3. ASSUME NEW p \in Pids, FinIO(p) PROVE MarcosExclusivos'
    BY <2>3 DEF FinIO, MarcosExclusivos, EnMesa, EnMano, EnDestruccion
  <2>4. ASSUME NEW c \in CPUs, Cpu(c) PROVE MarcosExclusivos'
    BY <2>4, ExclusivosCpu
  <2>5. ASSUME NEW c \in CPUs, NEW p \in Pids, Despachar(c, p) PROVE MarcosExclusivos'
    <3>1. [CpuLibre EXCEPT !.en = "ejecuta", !.p = p].en = "ejecuta"
      BY DEF CpuLibre
    <3>2. cpu' = [cpu EXCEPT ![c] = [CpuLibre EXCEPT !.en = "ejecuta", !.p = p]]
      BY <2>5 DEF Despachar
    <3> QED BY <2>5, <3>1, <3>2, CpuNoGana DEF Despachar, MemoriaTypeOK
  <2> QED BY <2>1, <2>2, <2>3, <2>4, <2>5 DEF Next
<1> QED BY <1>1, <1>2, MemoriaTipos, PTL DEF Spec

-----------------------------------------------------------------------------
(* A CPU with no cache is always answered. Its process must be listed while  *)
(* it asks: so the kernel's thread destroys only processes that run nowhere. *)

\* What the kernel has started and not ended is listed.
Vivos == \A p \in Pids : fase[p] \in {"listo", "exec", "bloq", "susp", "saliendo"} => viva[p]

\* The process the kernel's thread is busy with is in the phase of the request.
Pedido ==
  /\ k.en \in {"asigna", "guarda"} =>
       \/ k.op = "CREAR" /\ fase[k.p] = "nuevo" /\ viva[k.p]
       \/ k.op = "DESUSPENDER" /\ fase[k.p] = "susp"
  /\ k.en = "lee" => fase[k.p] = "susp"
  /\ k.en = "destruye" => fase[k.p] = "fin"

\* A CPU runs its process until it has made the system call that leaves it.
Corre(r) == r.en \in {"ejecuta", "busca", "mira", "guarda", "usa"} /\ ~r.vacia

\* What a CPU runs is in EXEC, is listed, and runs on no other CPU. With no
\* cache there is nothing to write back late.
EnCpus ==
  \A c \in CPUs :
    /\ ~conCache => cpu[c].en # "colgada" /\ cpu[c].sucia = -1 /\ ~cpu[c].vacia
    /\ cpu[c].en = "ejecuta" => ~cpu[c].vacia
    /\ Corre(cpu[c]) => fase[cpu[c].p] = "exec" /\ viva[cpu[c].p]
    /\ \A d \in CPUs \ {c} : Corre(cpu[c]) /\ Corre(cpu[d]) => cpu[d].p # cpu[c].p

InvVivos == Vivos /\ Pedido /\ EnCpus

\* Steps of the kernel's thread take no process out of EXEC, or to it.
LEMMA EnCpusKernel ==
  ASSUME MemoriaTypeOK, EnCpus, Vivos', UNCHANGED <<conCache, cpu>>,
         \A p \in Pids : fase[p] = "exec" => fase'[p] = "exec"
  PROVE  EnCpus'
<1> SUFFICES ASSUME NEW c \in CPUs, Corre(cpu[c]) PROVE fase'[cpu[c].p] = "exec" /\ viva'[cpu[c].p]
  BY DEF EnCpus
<1>1. fase[cpu[c].p] = "exec"
  BY DEF EnCpus
<1>2. cpu[c].p \in Pids
  BY DEF MemoriaTypeOK, TiposCpu, PosicionCpu, Corre
<1> QED BY <1>1, <1>2 DEF Vivos

\* InvVivos: the thread of the kernel.
LEMMA VivosKernel == ASSUME MemoriaTypeOK, InvVivos, Kernel PROVE InvVivos'
<1> USE DEF mem, swap, conf
<1>0. /\ TiposMarcos /\ TiposFijos /\ TiposK /\ Vivos /\ Pedido /\ EnCpus
      /\ fase \in [Pids -> Fases] /\ viva \in [Pids -> BOOLEAN] /\ k \in TipoK
      /\ k.en # "recibe" => k.p \in Pids
  BY DEF MemoriaTypeOK, TiposMarcos, TiposFijos, TiposK, InvVivos
<1> SUFFICES Vivos' /\ Pedido' /\ EnCpus'
  BY DEF InvVivos
<1>1. ASSUME NEW p \in Pids, CREAR(p) PROVE Vivos' /\ Pedido' /\ EnCpus'
  <2>1. /\ viva' = [viva EXCEPT ![p] = TRUE] /\ fase[p] = "nuevo"
        /\ k.en = "recibe" /\ UNCHANGED <<conCache, cpu>>
    BY <1>1 DEF CREAR
  <2>2. fase' = fase \/ (fase' = [fase EXCEPT ![p] = "listo"] /\ k' = k)
    BY <1>1 DEF CREAR, Pasa
  <2>3. Vivos'
    BY <1>0, <2>1, <2>2 DEF Vivos
  <2>4. Pedido'
    <3>1. CASE k' = k
      BY <2>1, <3>1 DEF Pedido
    <3>2. CASE Atiende("CREAR", p, "asigna") /\ fase' = fase
      <4>1. k'.en = "asigna" /\ k'.p = p /\ k'.op = "CREAR"
        BY <3>2, AtiendeTipo
      <4> QED BY <1>0, <2>1, <3>2, <4>1 DEF Pedido
    <3> QED BY <1>1, <3>1, <3>2 DEF CREAR
  <2>5. \A q \in Pids : fase[q] = "exec" => fase'[q] = "exec"
    BY <1>0, <2>1, <2>2
  <2> QED BY <1>0, <2>1, <2>3, <2>4, <2>5, EnCpusKernel
<1>2. ASSUME NEW p \in Pids, SUSPENDER(p) PROVE Vivos' /\ Pedido' /\ EnCpus'
  <2>1. /\ viva' = viva /\ viva[p] /\ fase[p] = "bloq" /\ fase' = [fase EXCEPT ![p] = "susp"]
        /\ UNCHANGED <<conCache, cpu>>
    BY <1>2 DEF SUSPENDER, Pasa
  <2>2. k'.en = "recolecta"
    BY <1>2, AtiendeTipo DEF SUSPENDER
  <2>3. Vivos' /\ Pedido'
    BY <1>0, <2>1, <2>2 DEF Vivos, Pedido
  <2>4. \A q \in Pids : fase[q] = "exec" => fase'[q] = "exec"
    BY <1>0, <2>1
  <2> QED BY <1>0, <2>1, <2>3, <2>4, EnCpusKernel
<1>3. ASSUME NEW p \in Pids, DESUSPENDER(p) PROVE Vivos' /\ Pedido' /\ EnCpus'
  <2>1. /\ viva' = viva /\ viva[p] /\ fase[p] = "susp" /\ k.en = "recibe"
        /\ UNCHANGED <<conCache, cpu>>
    BY <1>3 DEF DESUSPENDER
  <2>2. fase' = fase \/ fase' = [fase EXCEPT ![p] = "susp"] \/ fase' = [fase EXCEPT ![p] = "listo"]
    BY <1>3 DEF DESUSPENDER, Pasa
  <2>3. Vivos'
    BY <1>0, <2>1, <2>2 DEF Vivos
  <2>4. Pedido'
    <3>1. CASE k' = k
      BY <2>1, <3>1 DEF Pedido
    <3>2. CASE Atiende("DESUSPENDER", p, "asigna") /\ fase' = fase
      <4>1. k'.en = "asigna" /\ k'.p = p /\ k'.op = "DESUSPENDER"
        BY <3>2, AtiendeTipo
      <4> QED BY <2>1, <3>2, <4>1 DEF Pedido
    <3> QED BY <1>3, <3>1, <3>2 DEF DESUSPENDER
  <2>5. \A q \in Pids : fase[q] = "exec" => fase'[q] = "exec"
    BY <1>0, <2>1, <2>2
  <2> QED BY <1>0, <2>1, <2>3, <2>4, <2>5, EnCpusKernel
<1>4. ASSUME NEW p \in Pids, FINALIZAR(p) PROVE Vivos' /\ Pedido' /\ EnCpus'
  <2>1. /\ fase' = [fase EXCEPT ![p] = "fin"] /\ fase[p] # "exec" /\ k.en = "recibe"
        /\ viva' = viva \/ viva' = [viva EXCEPT ![p] = FALSE]
        /\ UNCHANGED <<conCache, cpu>>
    BY <1>4 DEF FINALIZAR, Pasa
  <2>2. Vivos'
    BY <1>0, <2>1 DEF Vivos
  <2>3. Pedido'
    <3>1. CASE k' = k
      BY <2>1, <3>1 DEF Pedido
    <3>2. CASE Atiende("FINALIZAR", p, "destruye")
      <4>1. k'.en = "destruye" /\ k'.p = p
        BY <3>2, AtiendeTipo
      <4> QED BY <1>0, <2>1, <4>1 DEF Pedido
    <3> QED BY <1>4, <3>1, <3>2 DEF FINALIZAR
  <2>4. \A q \in Pids : fase[q] = "exec" => fase'[q] = "exec"
    BY <1>0, <2>1
  <2> QED BY <1>0, <2>1, <2>2, <2>3, <2>4, EnCpusKernel
<1>5. ASSUME AsignarMarco PROVE Vivos' /\ Pedido' /\ EnCpus'
  <2>1. k.en = "asigna" /\ k.p \in Pids /\ UNCHANGED <<conCache, cpu>>
    BY <1>0, <1>5 DEF AsignarMarco
  <2>2. \/ k.op = "CREAR" /\ fase[k.p] = "nuevo" /\ viva[k.p]
        \/ k.op = "DESUSPENDER" /\ fase[k.p] = "susp" /\ viva[k.p]
    BY <1>0, <2>1 DEF Pedido, Vivos
  <2>3. CASE UNCHANGED <<fase, viva>> /\ k' = [k EXCEPT !.i = @ + 1]
    <3>1. k'.en = "asigna" /\ k'.p = k.p /\ k'.op = k.op
      BY <1>0, <2>1, <2>3 DEF TipoK
    <3>2. Vivos' /\ Pedido'
      BY <1>0, <2>1, <2>3, <3>1 DEF Vivos, Pedido
    <3> QED BY <1>0, <2>1, <2>3, <3>2, EnCpusKernel
  <2>4. CASE UNCHANGED <<fase, viva>> /\ \E f \in Libres : k' = [k EXCEPT !.en = "guarda", !.f = f]
    <3>1. k'.en = "guarda" /\ k'.p = k.p /\ k'.op = k.op
      BY <1>0, <2>1, <2>4 DEF TipoK
    <3>2. Vivos' /\ Pedido'
      BY <1>0, <2>1, <2>4, <3>1 DEF Vivos, Pedido
    <3> QED BY <1>0, <2>1, <2>4, <3>2, EnCpusKernel
  <2>5. CASE k' = EnReposo /\ k.op = "CREAR" /\ viva' = [viva EXCEPT ![k.p] = FALSE] /\ fase' = fase
    <3>1. Vivos'
      BY <1>0, <2>1, <2>2, <2>5 DEF Vivos
    <3>2. Pedido'
      BY <2>5, ReposoTipo DEF Pedido
    <3> QED BY <1>0, <2>1, <2>5, <3>1, <3>2, EnCpusKernel
  <2>6. CASE /\ k' = EnReposo /\ k.op = "DESUSPENDER" /\ viva' = viva
             /\ \E s \in {"susp", "listo"} : fase' = [fase EXCEPT ![k.p] = s]
    <3>1. Vivos'
      BY <1>0, <2>1, <2>2, <2>6 DEF Vivos
    <3>2. Pedido'
      BY <2>6, ReposoTipo DEF Pedido
    <3>3. \A q \in Pids : fase[q] = "exec" => fase'[q] = "exec"
      BY <1>0, <2>1, <2>2, <2>6
    <3> QED BY <1>0, <2>1, <3>1, <3>2, <3>3, EnCpusKernel
  <2> QED BY <1>5, <2>3, <2>4, <2>5, <2>6 DEF AsignarMarco, Pasa
<1>6. ASSUME GuardarMarco PROVE Vivos' /\ Pedido' /\ EnCpus'
  <2>1. k.en = "guarda" /\ UNCHANGED <<conCache, cpu, fase, viva>>
    BY <1>6 DEF GuardarMarco
  <2>2. k'.en = "asigna" /\ k'.p = k.p /\ k'.op = k.op
    BY <1>0, <1>6 DEF GuardarMarco, TipoK
  <2>3. Vivos' /\ Pedido'
    BY <1>0, <2>1, <2>2 DEF Vivos, Pedido
  <2> QED BY <1>0, <2>1, <2>3, EnCpusKernel
<1>7. ASSUME FinAsignacion PROVE Vivos' /\ Pedido' /\ EnCpus'
  <2>1. k.en = "asigna" /\ k.p \in Pids /\ UNCHANGED <<conCache, cpu, viva>>
    BY <1>0, <1>7 DEF FinAsignacion
  <2>2. \/ k.op = "CREAR" /\ fase[k.p] = "nuevo" /\ viva[k.p]
        \/ k.op = "DESUSPENDER" /\ fase[k.p] = "susp" /\ viva[k.p]
    BY <1>0, <2>1 DEF Pedido, Vivos
  <2>3. CASE k.op = "CREAR"
    <3>1. fase' = [fase EXCEPT ![k.p] = "listo"] /\ k' = EnReposo
      BY <1>7, <2>3 DEF FinAsignacion, Pasa
    <3>2. Vivos'
      BY <1>0, <2>1, <2>2, <3>1 DEF Vivos
    <3>3. Pedido'
      BY <3>1, ReposoTipo DEF Pedido
    <3>4. \A q \in Pids : fase[q] = "exec" => fase'[q] = "exec"
      BY <1>0, <2>1, <2>2, <3>1
    <3> QED BY <1>0, <2>1, <3>2, <3>3, <3>4, EnCpusKernel
  <2>4. CASE k.op # "CREAR"
    <3>1. fase' = fase /\ k' = [k EXCEPT !.en = "lee", !.i = 0]
      BY <1>7, <2>4 DEF FinAsignacion
    <3>2. k'.en = "lee" /\ k'.p = k.p
      BY <1>0, <3>1 DEF TipoK
    <3>3. Vivos' /\ Pedido'
      BY <1>0, <2>1, <2>2, <2>4, <3>1, <3>2 DEF Vivos, Pedido
    <3> QED BY <1>0, <2>1, <3>1, <3>3, EnCpusKernel
  <2> QED BY <2>3, <2>4
<1>8. ASSUME UNCHANGED <<conCache, cpu, fase, viva>>, k'.en \in {"recibe", "recolecta", "copia"}
      PROVE  Vivos' /\ Pedido' /\ EnCpus'
  <2>1. Vivos' /\ Pedido'
    BY <1>0, <1>8 DEF Vivos, Pedido
  <2> QED BY <1>0, <1>8, <2>1, EnCpusKernel
<1>9. ASSUME RecolectarMarcos PROVE Vivos' /\ Pedido' /\ EnCpus'
  <2>1. k'.en = "recolecta"
    BY <1>0, <1>9 DEF RecolectarMarcos, TipoK
  <2> QED BY <1>8, <1>9, <2>1 DEF RecolectarMarcos
<1>10. ASSUME FinRecoleccion PROVE Vivos' /\ Pedido' /\ EnCpus'
  <2>1. k'.en = "copia"
    BY <1>0, <1>10 DEF FinRecoleccion, TipoK
  <2> QED BY <1>8, <1>10, <2>1 DEF FinRecoleccion
<1>11. ASSUME CopiarASwap PROVE Vivos' /\ Pedido' /\ EnCpus'
  <2>1. k'.en \in {"copia", "recibe"}
    BY <1>0, <1>11, ReposoTipo DEF CopiarASwap, TipoK
  <2> QED BY <1>8, <1>11, <2>1 DEF CopiarASwap
<1>12. ASSUME LeerDeSwap PROVE Vivos' /\ Pedido' /\ EnCpus'
  <2>1. k.en = "lee" /\ UNCHANGED <<conCache, cpu, fase, viva>>
    BY <1>12 DEF LeerDeSwap
  <2>2. k'.en = "lee" /\ k'.p = k.p
    BY <1>0, <1>12 DEF LeerDeSwap, TipoK
  <2>3. Vivos' /\ Pedido'
    BY <1>0, <2>1, <2>2 DEF Vivos, Pedido
  <2> QED BY <1>0, <2>1, <2>3, EnCpusKernel
<1>13. ASSUME FinDesuspension PROVE Vivos' /\ Pedido' /\ EnCpus'
  <2>1. /\ k.p \in Pids /\ fase[k.p] = "susp" /\ viva[k.p] /\ k' = EnReposo
        /\ fase' = [fase EXCEPT ![k.p] = "listo"] /\ UNCHANGED <<conCache, cpu, viva>>
    BY <1>0, <1>13 DEF FinDesuspension, Pasa, Pedido, Vivos
  <2>2. Vivos'
    BY <1>0, <2>1 DEF Vivos
  <2>3. Pedido'
    BY <2>1, ReposoTipo DEF Pedido
  <2>4. \A q \in Pids : fase[q] = "exec" => fase'[q] = "exec"
    BY <1>0, <2>1
  <2> QED BY <1>0, <2>1, <2>2, <2>3, <2>4, EnCpusKernel
<1>14. ASSUME eliminar_proceso_en_memoria PROVE Vivos' /\ Pedido' /\ EnCpus'
  <2>1. /\ k.p \in Pids /\ fase[k.p] = "fin" /\ k' = EnReposo
        /\ viva' = [viva EXCEPT ![k.p] = FALSE] /\ UNCHANGED <<conCache, cpu, fase>>
    BY <1>0, <1>14 DEF eliminar_proceso_en_memoria, Pedido
  <2>2. Vivos'
    BY <1>0, <2>1 DEF Vivos
  <2>3. Pedido'
    BY <2>1, ReposoTipo DEF Pedido
  <2> QED BY <1>0, <2>1, <2>2, <2>3, EnCpusKernel
<1> QED BY <1>1, <1>2, <1>3, <1>4, <1>5, <1>6, <1>7, <1>9, <1>10, <1>11, <1>12, <1>13, <1>14
        DEF Kernel

\* A CPU goes on with the process it runs.
LEMMA Sigue ==
  ASSUME InvVivos, TiposCpu, NEW c \in CPUs, NEW r, cpu' = [cpu EXCEPT ![c] = r],
         UNCHANGED <<conCache, fase, viva, k>>, Corre(r) => Corre(cpu[c]) /\ r.p = cpu[c].p,
         ~conCache => r.en # "colgada" /\ r.sucia = -1 /\ ~r.vacia, r.en = "ejecuta" => ~r.vacia
  PROVE  InvVivos'
<1>1. Vivos' /\ Pedido'
  BY DEF InvVivos, Vivos, Pedido
<1>2. cpu'[c] = r /\ \A e \in CPUs \ {c} : cpu'[e] = cpu[e]
  BY DEF TiposCpu
<1>3. EnCpus
  BY DEF InvVivos
<1>4. ASSUME NEW d \in CPUs
      PROVE  /\ ~conCache => cpu'[d].en # "colgada" /\ cpu'[d].sucia = -1 /\ ~cpu'[d].vacia
             /\ cpu'[d].en = "ejecuta" => ~cpu'[d].vacia
             /\ Corre(cpu'[d]) => fase[cpu'[d].p] = "exec" /\ viva[cpu'[d].p]
  <2>1. CASE d = c
    BY <1>2, <1>3, <2>1 DEF EnCpus
  <2>2. CASE d # c
    BY <1>2, <1>3, <2>2 DEF EnCpus
  <2> QED BY <2>1, <2>2
<1>5. \A d \in CPUs : Corre(cpu'[d]) => Corre(cpu[d]) /\ cpu'[d].p = cpu[d].p
  BY <1>2
<1>6. \A d \in CPUs : \A e \in CPUs \ {d} : Corre(cpu'[d]) /\ Corre(cpu'[e]) => cpu'[e].p # cpu'[d].p
  BY <1>3, <1>5 DEF EnCpus
<1> QED BY <1>1, <1>4, <1>6 DEF InvVivos, EnCpus

\* A CPU goes to another process, or to none; the process it leaves changes phase.
LEMMA CambiaProceso ==
  ASSUME EnCpus, TiposCpu, NEW c \in CPUs, NEW r, cpu' = [cpu EXCEPT ![c] = r],
         UNCHANGED <<conCache, viva>>,
         ~conCache => r.en # "colgada" /\ r.sucia = -1 /\ ~r.vacia, r.en = "ejecuta" => ~r.vacia,
         Corre(r) => fase'[r.p] = "exec" /\ viva[r.p],
         \A d \in CPUs \ {c} : Corre(cpu[d]) => fase'[cpu[d].p] = "exec" /\ (Corre(r) => cpu[d].p # r.p)
  PROVE  EnCpus'
<1>1. cpu'[c] = r /\ \A e \in CPUs \ {c} : cpu'[e] = cpu[e]
  BY DEF TiposCpu
<1>2. ASSUME NEW d \in CPUs
      PROVE  /\ ~conCache => cpu'[d].en # "colgada" /\ cpu'[d].sucia = -1 /\ ~cpu'[d].vacia
             /\ cpu'[d].en = "ejecuta" => ~cpu'[d].vacia
             /\ Corre(cpu'[d]) => fase'[cpu'[d].p] = "exec" /\ viva[cpu'[d].p]
  <2>1. CASE d = c
    BY <1>1, <2>1
  <2>2. CASE d # c
    BY <1>1, <2>2 DEF EnCpus
  <2> QED BY <2>1, <2>2
<1>3. ASSUME NEW d \in CPUs, NEW e \in CPUs \ {d}, Corre(cpu'[d]), Corre(cpu'[e])
      PROVE  cpu'[e].p # cpu'[d].p
  <2>1. CASE d = c
    BY <1>1, <1>3, <2>1
  <2>2. CASE e = c
    BY <1>1, <1>3, <2>2
  <2>3. CASE d # c /\ e # c
    BY <1>1, <1>3, <2>3 DEF EnCpus
  <2> QED BY <2>1, <2>2, <2>3
<1> QED BY <1>2, <1>3 DEF EnCpus

\* Steps that change the phase of p and nothing the kernel's thread is busy with.
LEMMA PedidoIgual ==
  ASSUME MemoriaTypeOK, Pedido, Vivos, NEW p \in Pids, fase[p] \in {"listo", "exec", "bloq"},
         NEW f \in {"listo", "exec", "bloq", "saliendo"}, Pasa(p, f), UNCHANGED <<viva, k>>
  PROVE  Pedido' /\ Vivos'
<1>1. fase \in [Pids -> Fases] /\ fase' = [fase EXCEPT ![p] = f]
      /\ (k.en # "recibe" => k.p \in Pids)
  BY DEF MemoriaTypeOK, TiposFijos, TiposK, Pasa
<1>2. Vivos'
  BY <1>1 DEF Vivos
<1>3. Pedido'
  BY <1>1 DEF Pedido
<1> QED BY <1>2, <1>3

\* InvVivos: the thread of a CPU.
LEMMA VivosCpu == ASSUME MemoriaTypeOK, InvVivos, NEW c \in CPUs, Cpu(c) PROVE InvVivos'
<1> USE DEF mem, swap, conf
<1> DEFINE r0 == cpu[c]
<1>0. TiposCpu /\ r0 \in TipoCpu /\ PosicionCpu(r0) /\ Vivos /\ Pedido /\ EnCpus
  BY DEF MemoriaTypeOK, TiposCpu, InvVivos
<1>s. /\ ~conCache => r0.en # "colgada" /\ r0.sucia = -1 /\ ~r0.vacia
      /\ r0.en = "ejecuta" => ~r0.vacia
      /\ Corre(r0) => fase[r0.p] = "exec" /\ viva[r0.p]
  BY <1>0 DEF EnCpus
<1>1. CASE PedirMarco(c)
  <2>1. PICK i \in Pag(r0.p) : cpu' = [cpu EXCEPT ![c].en = "busca", ![c].i = i]
    BY <1>1 DEF PedirMarco
  <2> DEFINE r == [r0 EXCEPT !.en = "busca", !.i = i]
  <2>2. r.en = "busca" /\ r.p = r0.p /\ r.sucia = r0.sucia /\ r.vacia = r0.vacia
    BY <1>0 DEF TipoCpu
  <2>3. cpu' = [cpu EXCEPT ![c] = r]
    BY <2>1
  <2> HIDE DEF r
  <2> QED BY <1>0, <1>1, <1>s, <2>2, <2>3, Sigue DEF PedirMarco, Corre
<1>2. CASE BloquearOSalir(c)
  <2>1. r0.en = "ejecuta" /\ r0.p \in Pids /\ UNCHANGED <<conCache, viva, k>>
    BY <1>0, <1>2 DEF BloquearOSalir, PosicionCpu
  <2>2. PICK s \in {"bloq", "saliendo"} : fase' = [fase EXCEPT ![r0.p] = s]
    BY <1>2 DEF BloquearOSalir, Pasa
  <2>3. Corre(r0) /\ fase[r0.p] = "exec" /\ fase \in [Pids -> Fases]
    BY <1>s, <2>1 DEF Corre, MemoriaTypeOK, TiposFijos
  <2>4. Vivos' /\ Pedido'
    BY <1>0, <2>1, <2>2, <2>3, PedidoIgual DEF Pasa
  <2> DEFINE r == IF r0.sucia = -1 THEN CpuLibre
                  ELSE [r0 EXCEPT !.en = "busca", !.i = r0.sucia, !.vacia = TRUE]
  <2>5. cpu' = [cpu EXCEPT ![c] = r]
    BY <1>2 DEF BloquearOSalir
  <2>6. /\ ~Corre(r) /\ r.en \in {"libre", "busca"}
        /\ ~conCache => r.sucia = -1 /\ ~r.vacia
    <3>1. CASE r0.sucia = -1
      BY <3>1, ReposoTipo DEF Corre
    <3>2. CASE r0.sucia # -1
      BY <1>0, <1>s, <3>2 DEF Corre, TipoCpu
    <3> QED BY <3>1, <3>2
  <2> HIDE DEF r
  <2>7. ASSUME NEW d \in CPUs \ {c}, Corre(cpu[d]) PROVE fase'[cpu[d].p] = "exec"
    <3>1. cpu[d].p \in Pids
      BY <1>0, <2>7 DEF TiposCpu, PosicionCpu, Corre
    <3>2. cpu[d].p # r0.p /\ fase[cpu[d].p] = "exec"
      BY <1>0, <2>3, <2>7 DEF EnCpus
    <3> QED BY <2>2, <2>3, <3>1, <3>2
  <2>8. EnCpus'
    BY <1>0, <2>1, <2>5, <2>6, <2>7, CambiaProceso
  <2> QED BY <2>4, <2>8 DEF InvVivos
<1>3. CASE BuscarProceso(c)
  <2> DEFINE en == IF viva[r0.p] THEN "mira" ELSE "colgada"
             r == [r0 EXCEPT !.en = en]
  <2>1. r0.en = "busca"
    BY <1>3 DEF BuscarProceso
  <2>2. r.en = en /\ r.p = r0.p /\ r.sucia = r0.sucia /\ r.vacia = r0.vacia
    BY <1>0 DEF TipoCpu
  <2>3. cpu' = [cpu EXCEPT ![c] = r]
    BY <1>3 DEF BuscarProceso, VaCpu
  <2> HIDE DEF r
  <2> QED BY <1>0, <1>3, <1>s, <2>1, <2>2, <2>3, Sigue DEF BuscarProceso, Corre
<1>4. CASE MirarMarco(c)
  <2>0. Pagina(c) \in Paginas
    BY <1>4 DEF MirarMarco, MemoriaTypeOK, TiposCpu, PosicionCpu, Pagina
  <2>1. PICK en \in {"usa", "guarda"}, f \in MarcoONada :
          cpu' = [cpu EXCEPT ![c].en = en, ![c].f = f]
    BY <1>4, <2>0 DEF MirarMarco, MemoriaTypeOK, TiposMarcos, MarcoONada, Libres
  <2> DEFINE r == [r0 EXCEPT !.en = en, !.f = f]
  <2>2. r.en = en /\ r.p = r0.p /\ r.sucia = r0.sucia /\ r.vacia = r0.vacia
    BY <1>0 DEF TipoCpu
  <2>3. cpu' = [cpu EXCEPT ![c] = r]
    BY <2>1
  <2> HIDE DEF r
  <2> QED BY <1>0, <1>4, <1>s, <2>2, <2>3, Sigue DEF MirarMarco, Corre
<1>5. CASE GuardarMarcoCPU(c)
  <2> DEFINE r == [r0 EXCEPT !.en = "usa"]
  <2>1. r.en = "usa" /\ r.p = r0.p /\ r.sucia = r0.sucia /\ r.vacia = r0.vacia
    BY <1>0 DEF TipoCpu
  <2>2. cpu' = [cpu EXCEPT ![c] = r]
    BY <1>5 DEF GuardarMarcoCPU, VaCpu
  <2> HIDE DEF r
  <2> QED BY <1>0, <1>5, <1>s, <2>1, <2>2, Sigue DEF GuardarMarcoCPU, Corre
<1>6. CASE EscribirMemoria(c)
  <2> DEFINE r == [r0 EXCEPT !.en = "ejecuta"]
  <2>1. r.en = "ejecuta" /\ r.p = r0.p /\ r.sucia = r0.sucia /\ r.vacia = r0.vacia
    BY <1>0 DEF TipoCpu
  <2>2. cpu' = [cpu EXCEPT ![c] = r]
    BY <1>6 DEF EscribirMemoria, VaCpu
  <2> HIDE DEF r
  <2> QED BY <1>0, <1>6, <1>s, <2>1, <2>2, Sigue DEF EscribirMemoria, Corre
<1>7. CASE EscribirCache(c)
  <2> DEFINE n == escrito[Pagina(c)] + 1
             r == IF r0.f = SinMarco THEN [r0 EXCEPT !.en = "colgada"]
                  ELSE [r0 EXCEPT !.en = "ejecuta", !.sucia = r0.i, !.dir = r0.f, !.v = n]
  <2>1. conCache /\ r0.en = "usa" /\ ~r0.vacia
    BY <1>7 DEF EscribirCache
  <2>3. r.p = r0.p /\ r.vacia = r0.vacia
    BY <1>0 DEF TipoCpu
  <2>2. cpu' = [cpu EXCEPT ![c] = r]
    BY <1>7 DEF EscribirCache, VaCpu
  <2> HIDE DEF r
  <2> QED BY <1>0, <1>7, <2>1, <2>2, <2>3, Sigue DEF EscribirCache, Corre
<1>8. CASE VaciarCache(c)
  <2>1. cpu' = [cpu EXCEPT ![c] = CpuLibre]
    BY <1>8 DEF VaciarCache
  <2> QED BY <1>0, <1>8, <2>1, ReposoTipo, Sigue DEF VaciarCache, Corre
<1> QED BY <1>1, <1>2, <1>3, <1>4, <1>5, <1>6, <1>7, <1>8 DEF Cpu

\* InvVivos: a process that the kernel gives to a CPU.
LEMMA VivosDespachar ==
  ASSUME MemoriaTypeOK, InvVivos, NEW c \in CPUs, NEW p \in Pids, Despachar(c, p) PROVE InvVivos'
<1> USE DEF mem, swap, conf
<1>0. TiposCpu /\ Vivos /\ Pedido /\ EnCpus /\ fase \in [Pids -> Fases]
  BY DEF MemoriaTypeOK, TiposFijos, InvVivos
<1> DEFINE r == [CpuLibre EXCEPT !.en = "ejecuta", !.p = p]
<1>1. /\ fase' = [fase EXCEPT ![p] = "exec"] /\ fase[p] = "listo" /\ cpu[c].en = "libre"
      /\ cpu' = [cpu EXCEPT ![c] = r] /\ UNCHANGED <<conCache, viva, k>>
  BY DEF Despachar, Pasa
<1>2. Vivos' /\ Pedido'
  BY <1>0, <1>1, PedidoIgual DEF Pasa
<1>3. r.en = "ejecuta" /\ r.p = p /\ r.sucia = -1 /\ ~r.vacia
  BY DEF CpuLibre
<1> HIDE DEF r
<1>4. viva[p] /\ fase'[p] = "exec"
  BY <1>0, <1>1 DEF Vivos
<1>5. ASSUME NEW d \in CPUs \ {c}, Corre(cpu[d]) PROVE cpu[d].p # p /\ fase'[cpu[d].p] = "exec"
  <2>1. cpu[d].p \in Pids /\ fase[cpu[d].p] = "exec"
    BY <1>0, <1>5 DEF TiposCpu, PosicionCpu, Corre, EnCpus
  <2> QED BY <1>0, <1>1, <2>1
<1>6. EnCpus'
  BY <1>0, <1>1, <1>3, <1>4, <1>5, CambiaProceso
<1> QED BY <1>2, <1>6 DEF InvVivos

\* InvVivos: the end of the IO of a process.
LEMMA VivosFinIO == ASSUME MemoriaTypeOK, InvVivos, NEW p \in Pids, FinIO(p) PROVE InvVivos'
<1> USE DEF mem, swap, conf
<1>1. /\ fase' = [fase EXCEPT ![p] = "listo"] /\ fase[p] = "bloq" /\ fase \in [Pids -> Fases]
      /\ UNCHANGED <<conCache, viva, k, cpu>>
  BY DEF FinIO, Pasa, MemoriaTypeOK, TiposFijos
<1>2. Vivos' /\ Pedido'
  BY <1>1, PedidoIgual DEF InvVivos, Pasa
<1>3. \A q \in Pids : fase[q] = "exec" => fase'[q] = "exec"
  BY <1>1
<1>4. EnCpus'
  BY <1>1, <1>2, <1>3, EnCpusKernel DEF InvVivos
<1> QED BY <1>2, <1>4 DEF InvVivos

\* The phases and the CPUs at the start, and after any step.
LEMMA VivosInicial == Init => InvVivos
<1> SUFFICES ASSUME Init PROVE InvVivos
  OBVIOUS
<1>1. Vivos
  BY DEF Init, Vivos
<1>2. Pedido
  BY ReposoTipo DEF Init, Pedido
<1>3. \A c \in CPUs : cpu[c] = CpuLibre
  BY DEF Init
<1>4. EnCpus
  BY <1>3, ReposoTipo DEF EnCpus, Corre
<1> QED BY <1>1, <1>2, <1>4 DEF InvVivos

\* InvVivos is inductive.
LEMMA VivosPaso == MemoriaTypeOK /\ InvVivos /\ [Next]_vars => InvVivos'
<1> SUFFICES ASSUME MemoriaTypeOK, InvVivos, [Next]_vars PROVE InvVivos'
  OBVIOUS
<1>1. CASE UNCHANGED vars
  BY <1>1 DEF InvVivos, Vivos, Pedido, EnCpus, vars, mem, conf
<1>2. CASE Next
  BY <1>2, VivosKernel, VivosFinIO, VivosCpu, VivosDespachar DEF Next
<1> QED BY <1>1, <1>2

\* With no cache, whatever the kernel creates, suspends and ends meanwhile, no
\* CPU waits for ever for a frame, and the process a CPU runs is listed.
THEOREM MemoriaResponde == Spec => []MarcoRespondido
<1>1. InvVivos => MarcoRespondido
  BY DEF InvVivos, EnCpus, MarcoRespondido
<1> QED BY <1>1, VivosInicial, VivosPaso, MemoriaTipos, PTL DEF Spec

-----------------------------------------------------------------------------
(* ContabilidadExacta: with no cache in the CPUs, a clean bitmap and a       *)
(* memory of whole pages, MEMORIA_OCUPADA counts the marked frames and each  *)
(* of them is in a table. For any number of processes, CPUs and frames, and  *)
(* any sizes of the processes, of the pages and of the tables.               *)
(*                                                                           *)
(* It is not inductive. A frame that a CPU took would be marked and not      *)
(* counted, and so would those that a failed assignment leaves; so the       *)
(* invariant says that the processes in memory have all their frames, that a *)
(* request that has begun finds a frame for each page it lacks, and that a   *)
(* suspended process has its entry of the swap file (without it the end of   *)
(* the process would discount frames that it has not got).                   *)

DePid(p) == {x \in Paginas : x[1] = p}

\* The frames of a set of pages.
MarcosDe(X) == {tabla[x] : x \in X}

\* The frame that is marked and not yet in the table, in the thread of the kernel.
EnGuarda == IF k.en = "guarda" THEN {k.f} ELSE {}

Marcados == bitmap = MarcosDe(EnMesa) \cup EnGuarda

\* How many frames are marked and counted, how many are left.
Contados == Cardinality(bitmap) - (IF k.en = "guarda" THEN 1 ELSE 0)
Quedan == framesMaximos - Cardinality(bitmap)

\* Processes in memory have all their frames.
Llenas ==
  \A p \in Pids : fase[p] \in {"listo", "exec", "bloq", "saliendo"} =>
                    \A x \in DePid(p) : tabla[x] # SinMarco

\* The request under way has assigned the pages it has gone through; the one it
\* has a frame for has none yet. What is being suspended is suspended.
Asignadas ==
  /\ k.en \in {"recolecta", "copia"} => fase[k.p] = "susp"
  /\ k.en = "guarda" => tabla[<<k.p, k.i>>] = SinMarco
  /\ k.en \in {"asigna", "guarda"} => \A x \in DePid(k.p) : x[2] < k.i => tabla[x] # SinMarco
  /\ k.en = "lee" => \A x \in DePid(k.p) : tabla[x] # SinMarco

\* There is a frame for each page it has yet to go through.
Alcanza ==
  /\ k.en = "asigna" => cantidad_paginas(k.p) - k.i <= Quedan
  /\ k.en = "guarda" => cantidad_paginas(k.p) - k.i - 1 <= Quedan

\* A suspended process with pages has its entry of the swap file, and a request
\* under way is of a process with pages.
TieneEntrada(p) == \E e \in DOMAIN entradas : entradas[e].pid = p
ConEntrada ==
  /\ entradas \in Seq([pid : Pids, ini : Nat]) /\ archivo \in Seq(Range(archivo))
  /\ k.en \in {"recolecta", "copia"} => entradas # <<>>
  /\ k.en \in {"asigna", "guarda", "lee"} => Tamanio[k.p] > 0
  /\ \A p \in Pids : fase[p] = "susp" /\ Tamanio[p] > 0 => TieneEntrada(p)

Cuentas ==
  /\ Marcados
  /\ ocupada = TAM_PAGINA * Contados
  /\ EnMano = {}
  /\ Llenas /\ Asignadas /\ Alcanza

IInv == MemoriaTypeOK /\ MarcosExclusivos /\ InvVivos /\ ConEntrada /\ (Sano => Cuentas)

-----------------------------------------------------------------------------
(* Arithmetic of pages and frames.                                          *)

\* The division of C, by what the proofs need of it.
LEMMA Division ==
  ASSUME NEW a \in Nat, NEW b \in Nat \ {0}
  PROVE  /\ a \div b \in Nat /\ b * (a \div b) <= a /\ a < b * (a \div b) + b
         /\ a % b = 0 => a = b * (a \div b)
<1>1. a \div b \in Nat
  OBVIOUS
<1>2. b * (a \div b) <= a
  BY SMTT(30)
<1>3. a < b * (a \div b) + b
  BY SMTT(30)
<1>4. a % b = 0 => a = b * (a \div b)
  BY SMTT(30)
<1> QED BY <1>1, <1>2, <1>3, <1>4

\* What fits in n frames has n pages at most: cantidad_paginas rounds up.
LEMMA Techo ==
  ASSUME NEW t \in Nat, NEW b \in Nat \ {0}, NEW n \in Int, t <= b * n
  PROVE  (t + b - 1) \div b <= n
<1> DEFINE q == (t + b - 1) \div b
<1>1. t + b - 1 \in Nat
  OBVIOUS
<1>2. q \in Nat /\ b * q <= t + b - 1
  BY <1>1, Division
<1> HIDE DEF q
<1>3. ASSUME n < q PROVE FALSE
  <2>1. b * (q - n) >= b
    BY <1>2, <1>3
  <2>2. b * (q - n) = b * q - b * n
    BY <1>2
  <2> QED BY <1>2, <2>1, <2>2
<1>4. q <= n
  BY <1>2, <1>3
<1> QED BY <1>4 DEF q

\* Sizes: those of the memory, and of each process.
LEMMA Tamanios ==
  /\ TAM_PAGINA \in Nat \ {0} /\ TAM_MEMORIA \in Nat /\ framesMaximos \in Nat
  /\ TAM_MEMORIA % TAM_PAGINA = 0 => TAM_MEMORIA = TAM_PAGINA * framesMaximos
  /\ \A p \in Pids : cantidad_paginas(p) \in Nat /\ Tamanio[p] \in Nat
<1>1. TAM_PAGINA \in Nat \ {0} /\ TAM_MEMORIA \in Nat /\ \A p \in Pids : Tamanio[p] \in Nat
  BY MemoriaConstantesOK DEF MemoriaConstantesOK
<1>2. /\ framesMaximos \in Nat
      /\ TAM_MEMORIA % TAM_PAGINA = 0 => TAM_MEMORIA = TAM_PAGINA * framesMaximos
  BY <1>1, Division DEF framesMaximos
<1>3. ASSUME NEW p \in Pids PROVE cantidad_paginas(p) \in Nat
  <2>1. Tamanio[p] + TAM_PAGINA - 1 \in Nat
    BY <1>1
  <2> QED BY <1>1, <2>1, Division DEF cantidad_paginas
<1> QED BY <1>1, <1>2, <1>3

\* The pages of a process are as many as cantidad_paginas says.
LEMMA PaginasDePid ==
  ASSUME NEW p \in Pids
  PROVE  /\ \A x \in DePid(p) : x = <<p, x[2]>> /\ x[2] \in Nat /\ x[2] < cantidad_paginas(p)
         /\ \A i \in Nat : <<p, i>> \in DePid(p) <=> i < cantidad_paginas(p)
         /\ \A i \in Nat : <<p, i>> \in Paginas <=> i < cantidad_paginas(p)
         /\ IsFiniteSet(DePid(p)) /\ Cardinality(DePid(p)) = cantidad_paginas(p)
<1> DEFINE n == cantidad_paginas(p)
<1>0. n \in Nat
  BY Tamanios
<1>1. Pag(p) = 0..(n - 1)
  BY DEF Pag
<1> HIDE DEF n
<1>2. DePid(p) = {p} \X Pag(p)
  BY DEF DePid, Paginas
<1>3. \A x \in DePid(p) : x = <<p, x[2]>> /\ x[2] \in Nat /\ x[2] < n
  BY <1>0, <1>1, <1>2
<1>4. \A i \in Nat : <<p, i>> \in DePid(p) <=> i < n
  BY <1>0, <1>1, <1>2
<1>5. \A i \in Nat : <<p, i>> \in Paginas <=> <<p, i>> \in DePid(p)
  BY DEF DePid
<1>6. IsFiniteSet(Pag(p)) /\ Cardinality(Pag(p)) = n
  <2>1. n - 1 \in Int
    BY <1>0
  <2>2. IsFiniteSet(0..(n - 1)) /\ Cardinality(0..(n - 1)) = IF 0 > n - 1 THEN 0 ELSE n - 1 - 0 + 1
    BY <2>1, FS_Interval
  <2> QED BY <1>0, <1>1, <2>2
<1>7. IsFiniteSet({p}) /\ Cardinality({p}) = 1
  BY FS_Singleton
<1>8. IsFiniteSet(DePid(p)) /\ Cardinality(DePid(p)) = n
  <2>1. IsFiniteSet({p} \X Pag(p)) /\ Cardinality({p} \X Pag(p)) = Cardinality({p}) * Cardinality(Pag(p))
    BY <1>6, <1>7, FS_Product
  <2> QED BY <1>0, <1>2, <1>6, <1>7, <2>1
<1> QED BY <1>3, <1>4, <1>5, <1>8 DEF n

\* A process with no bytes has no pages.
LEMMA SinPaginas == ASSUME NEW p \in Pids, Tamanio[p] = 0 PROVE cantidad_paginas(p) = 0 /\ DePid(p) = {}
<1>1. cantidad_paginas(p) <= 0
  BY Tamanios, Techo DEF cantidad_paginas
<1> HIDE DEF cantidad_paginas
<1> QED BY <1>1, Tamanios, PaginasDePid

\* The frames are finitely many, and framesMaximos of them.
LEMMA MarcosFinitos ==
  /\ IsFiniteSet(Marcos) /\ Cardinality(Marcos) = framesMaximos
  /\ TiposMarcos => /\ IsFiniteSet(bitmap) /\ Cardinality(bitmap) \in Nat
                    /\ Libres = {} => Cardinality(bitmap) = framesMaximos
<1>1. framesMaximos \in Nat
  BY Tamanios
<1>2. IsFiniteSet(Marcos) /\ Cardinality(Marcos) = framesMaximos
  <2> HIDE DEF framesMaximos
  <2>1. framesMaximos - 1 \in Int
    BY <1>1
  <2>2. IsFiniteSet(Marcos) /\ Cardinality(Marcos) = IF 0 > framesMaximos - 1 THEN 0 ELSE framesMaximos - 1 - 0 + 1
    BY <2>1, FS_Interval DEF Marcos
  <2> QED BY <1>1, <2>2
<1>3. ASSUME TiposMarcos PROVE IsFiniteSet(bitmap) /\ Cardinality(bitmap) \in Nat
  BY <1>2, <1>3, FS_Subset, FS_CardinalityType DEF TiposMarcos
<1>4. ASSUME TiposMarcos, Libres = {} PROVE bitmap = Marcos
  BY <1>4 DEF TiposMarcos, Libres
<1> QED BY <1>2, <1>3, <1>4

\* Pages that have a frame have as many frames, all marked.
LEMMA MarcosDeSon ==
  ASSUME TiposMarcos, MarcosExclusivos, NEW X \in SUBSET EnMesa, IsFiniteSet(X)
  PROVE  /\ IsFiniteSet(MarcosDe(X)) /\ MarcosDe(X) \subseteq bitmap
         /\ Cardinality(MarcosDe(X)) = Cardinality(X)
<1> DEFINE f == [x \in X |-> tabla[x]]
<1>1. f \in Bijection(X, MarcosDe(X))
  <2>1. \A x, y \in X : f[x] = f[y] => x = y
    BY DEF MarcosExclusivos
  <2>2. f \in [X -> MarcosDe(X)] /\ \A m \in MarcosDe(X) : \E x \in X : f[x] = m
    BY DEF MarcosDe
  <2> QED BY <2>1, <2>2 DEF Bijection, Injection, Surjection, IsInjective
<1>2. ExistsBijection(X, MarcosDe(X))
  BY <1>1 DEF ExistsBijection
<1>3. MarcosDe(X) \subseteq bitmap
  BY DEF MarcosExclusivos, MarcosDe
<1> QED BY <1>2, <1>3, FS_Bijection

-----------------------------------------------------------------------------
(* The entries of the swap file.                                            *)

\* A function on 1..n is a sequence.
LEMMA FuncionSeq ==
  ASSUME NEW n \in Nat, NEW f, f = [i \in 1..n |-> f[i]]
  PROVE  f \in Seq(Range(f))
<1>1. \A i \in 1..n : f[i] \in Range(f)
  BY DEF Range
<1>2. f \in [1..n -> Range(f)]
  BY <1>1
<1> QED BY <1>2

\* The swap file stays a sequence when a page is written or the place of a
\* process is blanked.
LEMMA ArchivoTipo ==
  ASSUME archivo \in Seq(Range(archivo)), NEW pos \in Nat, NEW c, NEW e,
         entradas[e].ini \in Nat, entradas[e].pid \in Pids
  PROVE  /\ Escribir(archivo, pos, c) \in Seq(Range(Escribir(archivo, pos, c)))
         /\ borrar_espacio_swap(e) \in Seq(Range(borrar_espacio_swap(e)))
<1>1. Len(archivo) \in Nat
  BY LenProperties
<1>2. Escribir(archivo, pos, c) \in Seq(Range(Escribir(archivo, pos, c)))
  <2> DEFINE n == IF pos < Len(archivo) THEN Len(archivo) ELSE pos + 1
             g == Escribir(archivo, pos, c)
  <2>1. n \in Nat
    BY <1>1
  <2>2. g = [i \in 1..n |-> g[i]]
    BY DEF Escribir
  <2> HIDE DEF n, g
  <2>3. g \in Seq(Range(g))
    BY <2>1, <2>2, FuncionSeq
  <2> QED BY <2>3 DEF g
<1>3. borrar_espacio_swap(e) \in Seq(Range(borrar_espacio_swap(e)))
  <2> DEFINE u == entradas[e].ini + cantidad_paginas(entradas[e].pid)
             n == IF u < Len(archivo) THEN Len(archivo) ELSE u
             g == borrar_espacio_swap(e)
  <2>1. n \in Nat
    <3>1. cantidad_paginas(entradas[e].pid) \in Nat
      BY Tamanios
    <3> HIDE DEF cantidad_paginas
    <3> QED BY <1>1, <3>1
  <2>2. g = [i \in 1..n |-> g[i]]
    BY DEF borrar_espacio_swap
  <2> HIDE DEF n, g
  <2>3. g \in Seq(Range(g))
    BY <2>1, <2>2, FuncionSeq
  <2> QED BY <2>3 DEF g
<1> QED BY <1>2, <1>3

\* Where the entry of a process is, when it has one.
LEMMA EntradaDe ==
  ASSUME ConEntrada, NEW p \in Pids
  PROVE  LET e == buscar_entrada_swap_por_pid(p)
         IN /\ ~TieneEntrada(p) => e = 0
            /\ TieneEntrada(p) => /\ e \in 1..Len(entradas) /\ e # 0 /\ entradas[e].pid = p
                                  /\ entradas[e].ini \in Nat
<1> DEFINE I == {i \in DOMAIN entradas : entradas[i].pid = p}
           e == buscar_entrada_swap_por_pid(p)
<1>1. /\ DOMAIN entradas = 1..Len(entradas) /\ Len(entradas) \in Nat
      /\ \A i \in DOMAIN entradas : entradas[i].ini \in Nat
  <2>1. entradas \in Seq([pid : Pids, ini : Nat])
    BY DEF ConEntrada
  <2>2. DOMAIN entradas = 1..Len(entradas) /\ Len(entradas) \in Nat
    BY <2>1, LenProperties
  <2>3. ASSUME NEW i \in DOMAIN entradas PROVE entradas[i].ini \in Nat
    <3>1. entradas[i] \in [pid : Pids, ini : Nat]
      BY <2>1, <2>2, ElementOfSeq
    <3> QED BY <3>1
  <2> QED BY <2>2, <2>3
<1>2. TieneEntrada(p) <=> I # {}
  BY DEF TieneEntrada
<1>3. CASE I = {}
  BY <1>2, <1>3 DEF buscar_entrada_swap_por_pid
<1>4. CASE I # {}
  <2>1. I \in SUBSET Nat
    BY <1>1
  <2>2. e = Min(I)
    BY <1>4 DEF buscar_entrada_swap_por_pid
  <2>3. e \in I
    BY <1>4, <2>1, <2>2, MinEsta
  <2> QED BY <1>1, <1>2, <1>4, <2>3
<1> QED BY <1>3, <1>4

\* Taking out the entry of one process leaves those of the others.
LEMMA SinUnaEntrada ==
  ASSUME ConEntrada, NEW e \in 1..Len(entradas), entradas' = RemoveAt(entradas, e)
  PROVE  /\ entradas' \in Seq([pid : Pids, ini : Nat])
         /\ \A p : TieneEntrada(p) /\ p # entradas[e].pid => TieneEntrada(p)'
<1>0. entradas \in Seq([pid : Pids, ini : Nat])
  BY DEF ConEntrada
<1>1. DOMAIN entradas = 1..Len(entradas) /\ Len(entradas) \in Nat
  BY <1>0, LenProperties
<1>2. /\ entradas' \in Seq([pid : Pids, ini : Nat]) /\ Len(entradas') = Len(entradas) - 1
      /\ \A j \in 1..(Len(entradas) - 1) :
           entradas'[j] = IF j < e THEN entradas[j] ELSE entradas[j + 1]
  BY <1>0, RemoveAtPropiedades, Zenon
<1>3. DOMAIN entradas' = 1..(Len(entradas) - 1)
  BY <1>2, LenProperties
<1>4. ASSUME NEW p, TieneEntrada(p), p # entradas[e].pid PROVE TieneEntrada(p)'
  <2>1. PICK i \in DOMAIN entradas : entradas[i].pid = p
    BY <1>4 DEF TieneEntrada
  <2>2. CASE i < e
    <3>1. i \in DOMAIN entradas' /\ entradas'[i] = entradas[i]
      BY <1>1, <1>2, <1>3, <2>2
    <3> QED BY <2>1, <3>1 DEF TieneEntrada
  <2>3. CASE ~(i < e)
    <3>1. i # e
      BY <1>4, <2>1
    <3>2. i - 1 \in DOMAIN entradas' /\ entradas'[i - 1] = entradas[i]
      BY <1>1, <1>2, <1>3, <2>3, <3>1
    <3> QED BY <2>1, <3>2 DEF TieneEntrada
  <2> QED BY <2>2, <2>3
<1> QED BY <1>2, <1>4

\* Steps that suspend nobody and leave the swap file alone.
LEMMA EntradaIgual ==
  ASSUME ConEntrada, UNCHANGED <<entradas, archivo>>,
         \A p \in Pids : fase'[p] = "susp" => fase[p] = "susp",
         k'.en \in {"recolecta", "copia"} => k.en \in {"recolecta", "copia"},
         k'.en \in {"asigna", "guarda", "lee"} => Tamanio[k'.p] > 0
  PROVE  ConEntrada'
BY DEF ConEntrada, TieneEntrada

\* The kernel's thread.
LEMMA EntradaKernel ==
  ASSUME MemoriaTypeOK, InvVivos, ConEntrada, Kernel PROVE ConEntrada'
<1> USE DEF mem, swap
<1>0. /\ k \in TipoK /\ (k.en # "recibe" => k.p \in Pids) /\ fase \in [Pids -> Fases]
      /\ \A p \in Pids : Tamanio[p] \in Nat
  BY Tamanios DEF MemoriaTypeOK, TiposFijos, TiposK
<1>i. ASSUME NEW p, NEW f, f # "susp", Pasa(p, f)
      PROVE  \A q \in Pids : fase'[q] = "susp" => fase[q] = "susp"
  BY <1>0, <1>i DEF Pasa
<1>r. EnReposo.en = "recibe"
  BY DEF EnReposo
<1>1. ASSUME NEW p \in Pids, CREAR(p) PROVE ConEntrada'
  <2>1. UNCHANGED <<entradas, archivo>> /\ (Pasa(p, "listo") \/ UNCHANGED fase)
        /\ k.en = "recibe"
    BY <1>1 DEF CREAR
  <2>2. \A q \in Pids : fase'[q] = "susp" => fase[q] = "susp"
    BY <1>i, <2>1
  <2>3. CASE UNCHANGED k
    BY <2>1, <2>2, <2>3, EntradaIgual
  <2>4. CASE Tamanio[p] # 0 /\ Atiende("CREAR", p, "asigna")
    <3>1. k'.en = "asigna" /\ k'.p = p /\ Tamanio[p] > 0
      BY <1>0, <2>4, AtiendeTipo
    <3> QED BY <2>1, <2>2, <3>1, EntradaIgual
  <2> QED BY <1>1, <2>3, <2>4 DEF CREAR
<1>2. ASSUME NEW p \in Pids, SUSPENDER(p) PROVE ConEntrada'
  <2>a. PICK x : x = [pid |-> p, ini |-> Len(archivo)]
    OBVIOUS
  <2>1. /\ entradas' = Append(entradas, x) /\ UNCHANGED archivo /\ Pasa(p, "susp")
        /\ Atiende("SUSPENDER", p, "recolecta")
    BY <1>2, <2>a DEF SUSPENDER
  <2>2. x \in [pid : Pids, ini : Nat] /\ x.pid = p
    BY <2>a, LenProperties DEF ConEntrada
  <2>3. entradas \in Seq([pid : Pids, ini : Nat])
    BY DEF ConEntrada
  <2>4. /\ entradas' \in Seq([pid : Pids, ini : Nat])
        /\ Len(entradas') = Len(entradas) + 1 /\ Len(entradas) \in Nat
        /\ \A i \in 1..Len(entradas) : entradas'[i] = entradas[i]
        /\ entradas'[Len(entradas) + 1] = x
        /\ DOMAIN entradas = 1..Len(entradas) /\ DOMAIN entradas' = 1..(Len(entradas) + 1)
    BY <2>1, <2>2, <2>3, AppendProperties, LenProperties
  <2>5. \A q : TieneEntrada(q) \/ q = p => TieneEntrada(q)'
    BY <2>2, <2>4 DEF TieneEntrada
  <2>6. \A q \in Pids : fase'[q] = "susp" => fase[q] = "susp" \/ q = p
    BY <1>0, <2>1 DEF Pasa
  <2>7. k'.en = "recolecta"
    BY <2>1, AtiendeTipo
  <2>8. entradas' # <<>>
    BY <2>4
  <2> QED BY <2>1, <2>4, <2>5, <2>6, <2>7, <2>8 DEF ConEntrada
<1>3. ASSUME NEW p \in Pids, DESUSPENDER(p) PROVE ConEntrada'
  <2>1. fase[p] = "susp" /\ UNCHANGED <<entradas, archivo>> /\ k.en = "recibe"
    BY <1>3 DEF DESUSPENDER
  <2>2. CASE Tamanio[p] > 0 /\ Atiende("DESUSPENDER", p, "asigna") /\ UNCHANGED fase
    <3>1. k'.en = "asigna" /\ k'.p = p
      BY <2>2, AtiendeTipo
    <3> QED BY <2>1, <2>2, <3>1, EntradaIgual
  <2>3. CASE UNCHANGED k /\ \E s \in {"susp", "listo"} : Pasa(p, s)
    <3>1. \A q \in Pids : fase'[q] = "susp" => fase[q] = "susp"
      BY <1>0, <2>1, <2>3 DEF Pasa
    <3> QED BY <2>1, <2>3, <3>1, EntradaIgual
  <2> QED BY <1>3, <2>2, <2>3 DEF DESUSPENDER
<1>4. ASSUME NEW p \in Pids, FINALIZAR(p) PROVE ConEntrada'
  <2>a. PICK e : e = buscar_entrada_swap_por_pid(p)
    OBVIOUS
  <2>1. /\ k.en = "recibe" /\ Pasa(p, "fin")
        /\ UNCHANGED k \/ Atiende("FINALIZAR", p, "destruye")
        /\ \/ UNCHANGED <<entradas, archivo>>
           \/ /\ e # 0 /\ archivo' = borrar_espacio_swap(e) /\ entradas' = RemoveAt(entradas, e)
    BY <1>4, <2>a DEF FINALIZAR
  <2>2. k'.en \in {"recibe", "destruye"}
    BY <2>1, AtiendeTipo
  <2>3. \A q \in Pids : fase'[q] = "susp" => fase[q] = "susp" /\ q # p
    BY <1>0, <2>1 DEF Pasa
  <2>4. CASE UNCHANGED <<entradas, archivo>>
    BY <2>2, <2>3, <2>4, EntradaIgual
  <2>5. CASE e # 0 /\ archivo' = borrar_espacio_swap(e) /\ entradas' = RemoveAt(entradas, e)
    <3>1. e \in 1..Len(entradas) /\ entradas[e].pid = p /\ entradas[e].ini \in Nat
      BY <2>5, <2>a, EntradaDe
    <3>2. archivo' \in Seq(Range(archivo'))
      BY <2>5, <3>1, ArchivoTipo DEF ConEntrada
    <3>3. /\ entradas' \in Seq([pid : Pids, ini : Nat])
          /\ \A q : TieneEntrada(q) /\ q # p => TieneEntrada(q)'
      BY <2>5, <3>1, SinUnaEntrada
    <3> QED BY <2>2, <2>3, <3>2, <3>3 DEF ConEntrada
  <2> QED BY <2>1, <2>4, <2>5
<1>5. CASE AsignarMarco
  <2>1. /\ k.en = "asigna" /\ UNCHANGED <<entradas, archivo>> /\ k.p \in Pids
        /\ \/ k'.en \in {"asigna", "guarda"} /\ k'.p = k.p /\ UNCHANGED fase
           \/ k' = EnReposo /\ UNCHANGED fase
           \/ k' = EnReposo /\ k.op # "CREAR" /\ \E s \in {"susp", "listo"} : Pasa(k.p, s)
    BY <1>0, <1>5 DEF AsignarMarco, TipoK
  <2>2. k'.en \in {"asigna", "guarda", "recibe"} /\ (k'.en # "recibe" => k'.p = k.p)
    BY <1>r, <2>1
  <2>3. \A q \in Pids : fase'[q] = "susp" => fase[q] = "susp"
    <3>1. k.op # "CREAR" => fase[k.p] = "susp"
      BY <2>1 DEF InvVivos, Pedido
    <3> QED BY <1>0, <2>1, <3>1 DEF Pasa
  <2> QED BY <2>1, <2>2, <2>3, EntradaIgual DEF ConEntrada
<1>6. CASE GuardarMarco
  <2>1. /\ UNCHANGED <<entradas, archivo, fase>> /\ k.en = "guarda"
        /\ k'.en = "asigna" /\ k'.p = k.p
    BY <1>0, <1>6 DEF GuardarMarco, TipoK
  <2> QED BY <2>1, EntradaIgual DEF ConEntrada
<1>7. CASE FinAsignacion
  <2>1. /\ UNCHANGED <<entradas, archivo>> /\ k.en = "asigna"
        /\ \/ Pasa(k.p, "listo") /\ k' = EnReposo
           \/ k'.en = "lee" /\ k'.p = k.p /\ UNCHANGED fase
    BY <1>0, <1>7 DEF FinAsignacion, TipoK
  <2>2. \A q \in Pids : fase'[q] = "susp" => fase[q] = "susp"
    BY <1>i, <2>1
  <2> QED BY <1>r, <2>1, <2>2, EntradaIgual DEF ConEntrada
<1>8. CASE RecolectarMarcos \/ FinRecoleccion
  <2>1. UNCHANGED <<entradas, archivo, fase>> /\ k.en = "recolecta" /\ k'.en \in {"recolecta", "copia"}
    BY <1>0, <1>8 DEF RecolectarMarcos, FinRecoleccion, TipoK
  <2> QED BY <2>1, EntradaIgual
<1>9. CASE CopiarASwap
  <2>1. UNCHANGED <<entradas, fase>> /\ k.en = "copia"
    BY <1>9 DEF CopiarASwap
  <2>2. CASE UNCHANGED archivo
    <3>1. k'.en \in {"copia", "recibe"}
      BY <1>0, <1>r, <1>9 DEF CopiarASwap, TipoK
    <3> QED BY <2>1, <2>2, <3>1, EntradaIgual
  <2>3. CASE k.i < Len(lista_marcos)
    <3>a. PICK pos : pos = Last(entradas).ini + k.i
      OBVIOUS
    <3>b. PICK c : c = espacio[lista_marcos[k.i + 1]]
      OBVIOUS
    <3>1. \/ /\ archivo' = Escribir(archivo, pos, c) /\ k' = [k EXCEPT !.i = @ + 1]
          \/ UNCHANGED archivo
      BY <1>9, <3>a, <3>b DEF CopiarASwap
    <3>2. Last(entradas) \in [pid : Pids, ini : Nat]
      <4>1. entradas # <<>> /\ entradas \in Seq([pid : Pids, ini : Nat])
        BY <2>1 DEF ConEntrada
      <4>2. Len(entradas) \in Nat /\ Len(entradas) > 0
        BY <4>1, LenProperties, EmptySeq
      <4>3. Len(entradas) \in 1..Len(entradas)
        BY <4>2
      <4>4. entradas[Len(entradas)] \in [pid : Pids, ini : Nat]
        BY <4>1, <4>3, ElementOfSeq
      <4> QED BY <4>4 DEF Last
    <3>3. pos \in Nat
      <4>1. k.i \in Nat /\ Last(entradas).ini \in Nat
        BY <1>0, <3>2 DEF TipoK
      <4> QED BY <3>a, <4>1
    <3>4. CASE archivo' = Escribir(archivo, pos, c) /\ k' = [k EXCEPT !.i = @ + 1]
      <4>1. archivo' \in Seq(Range(archivo'))
        <5>1. Len(entradas) \in 1..Len(entradas) /\ entradas[Len(entradas)] \in [pid : Pids, ini : Nat]
          <6>1. Len(entradas) \in Nat /\ Len(entradas) > 0
            BY <2>1, LenProperties, EmptySeq DEF ConEntrada
          <6> QED BY <3>2, <6>1 DEF Last
        <5> QED BY <3>3, <3>4, <5>1, ArchivoTipo DEF ConEntrada
      <4>2. k'.en = "copia"
        BY <1>0, <2>1, <3>4 DEF TipoK
      <4> QED BY <2>1, <4>1, <4>2 DEF ConEntrada, TieneEntrada
    <3> QED BY <2>2, <3>1, <3>4
  <2> QED BY <1>9, <2>2, <2>3 DEF CopiarASwap
<1>10. CASE LeerDeSwap
  <2>1. UNCHANGED <<entradas, archivo, fase>> /\ k.en = "lee" /\ k'.en = "lee" /\ k'.p = k.p
    BY <1>0, <1>10 DEF LeerDeSwap, TipoK
  <2> QED BY <2>1, EntradaIgual DEF ConEntrada
<1>11. CASE FinDesuspension
  <2>a. PICK e : e = buscar_entrada_swap_por_pid(k.p)
    OBVIOUS
  <2>1. /\ k.en = "lee" /\ k.p \in Pids /\ Pasa(k.p, "listo") /\ k' = EnReposo
        /\ archivo' = borrar_espacio_swap(e) /\ entradas' = RemoveAt(entradas, e)
    BY <1>0, <1>11, <2>a DEF FinDesuspension
  <2>2. TieneEntrada(k.p)
    BY <2>1 DEF ConEntrada, InvVivos, Pedido
  <2>3. e \in 1..Len(entradas) /\ entradas[e].pid = k.p /\ entradas[e].ini \in Nat
    BY <2>1, <2>2, <2>a, EntradaDe
  <2>4. archivo' \in Seq(Range(archivo'))
    BY <2>1, <2>3, ArchivoTipo DEF ConEntrada
  <2>5. /\ entradas' \in Seq([pid : Pids, ini : Nat])
        /\ \A q : TieneEntrada(q) /\ q # k.p => TieneEntrada(q)'
    BY <2>1, <2>3, SinUnaEntrada
  <2>6. \A q \in Pids : fase'[q] = "susp" => fase[q] = "susp" /\ q # k.p
    BY <1>0, <2>1 DEF Pasa
  <2> QED BY <1>r, <2>1, <2>4, <2>5, <2>6 DEF ConEntrada
<1>12. CASE eliminar_proceso_en_memoria
  BY <1>r, <1>12, EntradaIgual DEF eliminar_proceso_en_memoria
<1> QED BY <1>1, <1>2, <1>3, <1>4, <1>5, <1>6, <1>7, <1>8, <1>9, <1>10, <1>11, <1>12 DEF Kernel

\* CPUs and the end of an IO suspend nobody.
LEMMA EntradaPaso ==
  ASSUME MemoriaTypeOK, InvVivos, ConEntrada, [Next]_vars PROVE ConEntrada'
<1> USE DEF mem, swap
<1>0. fase \in [Pids -> Fases]
  BY DEF MemoriaTypeOK, TiposFijos
<1>i. ASSUME NEW p, NEW f, f # "susp", Pasa(p, f)
      PROVE  \A q \in Pids : fase'[q] = "susp" => fase[q] = "susp"
  BY <1>0, <1>i DEF Pasa
<1>e. ASSUME UNCHANGED <<entradas, archivo, k>>,
             \A q \in Pids : fase'[q] = "susp" => fase[q] = "susp"
      PROVE  ConEntrada'
  BY <1>e, EntradaIgual DEF ConEntrada
<1>1. CASE UNCHANGED vars
  BY <1>1, <1>e DEF vars
<1>2. ASSUME NEW p, FinIO(p) PROVE ConEntrada'
  BY <1>2, <1>i, <1>e DEF FinIO
<1>3. ASSUME NEW c, NEW p, Despachar(c, p) PROVE ConEntrada'
  BY <1>3, <1>i, <1>e DEF Despachar
<1>4. ASSUME NEW c, BloquearOSalir(c) PROVE ConEntrada'
  <2>1. PICK s \in {"bloq", "saliendo"} : Pasa(cpu[c].p, s)
    BY <1>4 DEF BloquearOSalir
  <2>2. s # "susp" /\ \A q \in Pids : fase'[q] = "susp" => fase[q] = "susp"
    BY <1>i, <2>1
  <2> QED BY <1>4, <1>e, <2>2 DEF BloquearOSalir
<1>5. ASSUME NEW c, \/ PedirMarco(c) \/ BuscarProceso(c) \/ MirarMarco(c) \/ GuardarMarcoCPU(c)
                    \/ EscribirMemoria(c) \/ EscribirCache(c) \/ VaciarCache(c)
      PROVE  ConEntrada'
  <2>1. UNCHANGED <<entradas, archivo, k, fase>>
    BY <1>5 DEF PedirMarco, BuscarProceso, MirarMarco, GuardarMarcoCPU, EscribirMemoria,
       EscribirCache, VaciarCache
  <2> QED BY <1>e, <2>1
<1> QED BY <1>1, <1>2, <1>3, <1>4, <1>5, EntradaKernel DEF Next, Cpu

-----------------------------------------------------------------------------
(* The count.                                                               *)

EnMemoria == {"listo", "exec", "bloq", "saliendo"}

\* Two products of sizes are a size.
LEMMA Por ==
  ASSUME NEW a \in Int, NEW b \in Int, NEW c \in Int
  PROVE  a * (b + c) = a * b + a * c /\ a * (b - c) = a * b - a * c
OBVIOUS

\* Frames that are freed are taken from the count and from the tables alike.
LEMMA Desmarca ==
  ASSUME TiposMarcos, MarcosExclusivos, NEW X \in SUBSET EnMesa, IsFiniteSet(X)
  PROVE  /\ Cardinality(bitmap \ MarcosDe(X)) = Cardinality(bitmap) - Cardinality(X)
         /\ Cardinality(X) \in Nat
         /\ MarcosDe(EnMesa \ X) = MarcosDe(EnMesa) \ MarcosDe(X)
<1>1. /\ IsFiniteSet(MarcosDe(X)) /\ MarcosDe(X) \subseteq bitmap
      /\ Cardinality(MarcosDe(X)) = Cardinality(X)
  BY MarcosDeSon
<1>2. Cardinality(bitmap \ MarcosDe(X)) = Cardinality(bitmap) - Cardinality(bitmap \cap MarcosDe(X))
  BY MarcosFinitos, FS_Difference
<1>3. bitmap \cap MarcosDe(X) = MarcosDe(X)
  BY <1>1
<1>4. \A x \in EnMesa \ X, y \in X : tabla[x] # tabla[y]
  BY DEF MarcosExclusivos
<1>5. MarcosDe(EnMesa \ X) = MarcosDe(EnMesa) \ MarcosDe(X)
  BY <1>4 DEF MarcosDe
<1> QED BY <1>1, <1>2, <1>3, <1>5, FS_CardinalityType

\* Steps that leave the tables and the bitmap alone, with no frame in hand.
LEMMA CuentasIgual ==
  ASSUME Cuentas, UNCHANGED <<tabla, bitmap, ocupada>>, EnMano' = {},
         k' = k \/ (k.en \notin {"guarda", "destruye"} /\ k'.en \notin {"guarda", "destruye"}),
         Llenas', Asignadas', Alcanza'
  PROVE  Cuentas'
<1>1. EnMesa' = EnMesa
  BY DEF EnMesa, EnDestruccion
<1>2. MarcosDe(EnMesa)' = MarcosDe(EnMesa)
  BY <1>1 DEF MarcosDe
<1>3. EnGuarda' = EnGuarda /\ Contados' = Contados
  BY DEF EnGuarda, Contados
<1> QED BY <1>2, <1>3 DEF Cuentas, Marcados

\* No process comes into memory.
LEMMA LlenasIgual ==
  ASSUME Llenas, UNCHANGED tabla,
         \A p \in Pids : fase'[p] \in EnMemoria => fase[p] \in EnMemoria
  PROVE  Llenas'
BY DEF Llenas, EnMemoria

\* CREAR, DESUSPENDER: what fits has a frame for each page.
LEMMA HayMarcos ==
  ASSUME Sano, Cuentas, TiposMarcos, k.en # "guarda", NEW p \in Pids,
         \/ Tamanio[p] <= espacio_libre_en_memoria
         \/ cantidad_paginas(p) * TAM_PAGINA <= espacio_libre_en_memoria
  PROVE  cantidad_paginas(p) <= Quedan
<1>1. /\ TAM_PAGINA \in Nat \ {0} /\ framesMaximos \in Nat
      /\ TAM_MEMORIA = TAM_PAGINA * framesMaximos
      /\ cantidad_paginas(p) \in Nat /\ Tamanio[p] \in Nat
  BY Tamanios DEF Sano
<1>2. Cardinality(bitmap) \in Nat /\ Quedan \in Int
  BY <1>1, MarcosFinitos DEF Quedan
<1>3. espacio_libre_en_memoria = TAM_PAGINA * Quedan
  <2>1. ocupada = TAM_PAGINA * Cardinality(bitmap)
    BY <1>2 DEF Cuentas, Contados
  <2> QED BY <1>1, <1>2, <2>1, Por DEF espacio_libre_en_memoria, Quedan
<1>4. CASE Tamanio[p] <= espacio_libre_en_memoria
  <2>1. (Tamanio[p] + TAM_PAGINA - 1) \div TAM_PAGINA <= Quedan
    BY <1>1, <1>2, <1>3, <1>4, Techo
  <2> QED BY <2>1 DEF cantidad_paginas
<1>5. CASE cantidad_paginas(p) * TAM_PAGINA <= espacio_libre_en_memoria
  <2>a. PICK n : n = cantidad_paginas(p)
    OBVIOUS
  <2>b. PICK m : m = Quedan
    OBVIOUS
  <2>1. n \in Nat /\ m \in Int /\ n * TAM_PAGINA <= TAM_PAGINA * m
    BY <1>1, <1>2, <1>3, <1>5, <2>a, <2>b
  <2>2. ASSUME m < n PROVE FALSE
    <3>1. TAM_PAGINA * (n - m) >= TAM_PAGINA
      BY <1>1, <2>1, <2>2
    <3>2. TAM_PAGINA * (n - m) = TAM_PAGINA * n - TAM_PAGINA * m
      BY <1>1, <2>1
    <3> QED BY <1>1, <2>1, <3>1, <3>2
  <2> QED BY <2>1, <2>2, <2>a, <2>b
<1> QED BY <1>4, <1>5

\* The index of the request in hand is a number.
LEMMA AtiendeI ==
  ASSUME NEW op, NEW p, NEW en, Atiende(op, p, en)
  PROVE  k'.en = en /\ k'.p = p /\ k'.op = op /\ k'.i = 0
BY DEF Atiende, EnReposo

\* The kernel's thread, requests that begin.
LEMMA CuentasPedidos ==
  ASSUME MemoriaTypeOK, MarcosExclusivos, InvVivos, ConEntrada, Sano, Cuentas, NEW p \in Pids,
         CREAR(p) \/ SUSPENDER(p) \/ DESUSPENDER(p) \/ FINALIZAR(p)
  PROVE  Cuentas'
<1> USE DEF mem, swap
<1>0. /\ TiposMarcos /\ k \in TipoK /\ fase \in [Pids -> Fases] /\ Llenas /\ EnMano = {}
      /\ \A q \in Pids : Tamanio[q] \in Nat /\ cantidad_paginas(q) \in Nat
      /\ k.en = "recibe" /\ UNCHANGED <<tabla, cpu>>
  BY Tamanios DEF MemoriaTypeOK, TiposFijos, TiposK, Cuentas, CREAR, SUSPENDER, DESUSPENDER, FINALIZAR
<1>1. EnMano' = {}
  BY <1>0 DEF EnMano
<1>2. ASSUME Atiende("CREAR", p, "asigna") \/ Atiende("DESUSPENDER", p, "asigna"),
             UNCHANGED <<bitmap, ocupada, fase>>, cantidad_paginas(p) <= Quedan
      PROVE  Cuentas'
  <2>1. k'.en = "asigna" /\ k'.p = p /\ k'.i = 0
    BY <1>2, AtiendeI
  <2>2. Asignadas'
    <3>1. \A x \in DePid(p) : ~(x[2] < 0)
      BY PaginasDePid
    <3> QED BY <2>1, <3>1 DEF Asignadas
  <2>3. Alcanza'
    <3>1. Quedan' = Quedan
      BY <1>2 DEF Quedan
    <3> QED BY <1>0, <1>2, <2>1, <3>1 DEF Alcanza
  <2>4. Llenas'
    BY <1>0, <1>2, LlenasIgual
  <2> QED BY <1>0, <1>1, <1>2, <2>1, <2>2, <2>3, <2>4, CuentasIgual
<1>3. ASSUME k'.en \in {"recibe", "recolecta"}, UNCHANGED <<bitmap, ocupada>>, Llenas',
             k'.en = "recolecta" => fase'[k'.p] = "susp"
      PROVE  Cuentas'
  <2>1. Asignadas' /\ Alcanza'
    BY <1>3 DEF Asignadas, Alcanza
  <2> QED BY <1>0, <1>1, <1>3, <2>1, CuentasIgual
<1>4. ASSUME Tamanio[p] = 0 \/ fase[p] \in EnMemoria, Pasa(p, "listo") PROVE Llenas'
  <2>1. Tamanio[p] = 0 => DePid(p) = {}
    BY SinPaginas
  <2>2. fase' = [fase EXCEPT ![p] = "listo"]
    BY <1>4 DEF Pasa
  <2> QED BY <1>0, <1>4, <2>1, <2>2 DEF Llenas, EnMemoria
<1>5. ASSUME NEW f, f \notin EnMemoria, Pasa(p, f) PROVE Llenas'
  <2>1. fase' = [fase EXCEPT ![p] = f]
    BY <1>5 DEF Pasa
  <2>2. \A q \in Pids : fase'[q] \in EnMemoria => fase[q] \in EnMemoria
    BY <1>0, <1>5, <2>1
  <2> QED BY <1>0, <2>2, LlenasIgual
<1>6. CASE CREAR(p)
  <2>1. UNCHANGED <<bitmap, ocupada>> /\ Tamanio[p] <= espacio_libre_en_memoria
    BY <1>6 DEF CREAR
  <2>2. CASE Tamanio[p] = 0
    <3>1. Pasa(p, "listo") /\ k' = k
      BY <1>6, <2>2 DEF CREAR
    <3> QED BY <1>0, <1>3, <1>4, <2>1, <2>2, <3>1
  <2>3. CASE Tamanio[p] # 0
    <3>1. Atiende("CREAR", p, "asigna") /\ UNCHANGED fase
      BY <1>6, <2>3 DEF CREAR
    <3>2. cantidad_paginas(p) <= Quedan
      BY <1>0, <2>1, HayMarcos
    <3> QED BY <1>2, <2>1, <3>1, <3>2
  <2> QED BY <2>2, <2>3
<1>7. CASE SUSPENDER(p)
  <2>1. UNCHANGED <<bitmap, ocupada>> /\ Pasa(p, "susp") /\ Atiende("SUSPENDER", p, "recolecta")
    BY <1>7 DEF SUSPENDER
  <2>2. k'.en = "recolecta" /\ k'.p = p /\ fase'[p] = "susp"
    BY <1>0, <2>1, AtiendeI DEF Pasa
  <2>3. Llenas'
    BY <1>5, <2>1 DEF EnMemoria
  <2> QED BY <1>3, <2>1, <2>2, <2>3
<1>8. CASE DESUSPENDER(p)
  <2>1. /\ UNCHANGED <<bitmap, ocupada>> /\ fase[p] = "susp"
        /\ cantidad_paginas(p) * TAM_PAGINA <= espacio_libre_en_memoria
    BY <1>8 DEF DESUSPENDER
  <2>2. CASE Tamanio[p] > 0
    <3>1. buscar_entrada_swap_por_pid(p) # 0
      BY <2>1, <2>2, EntradaDe DEF ConEntrada
    <3>2. Atiende("DESUSPENDER", p, "asigna") /\ UNCHANGED fase
      BY <1>8, <2>2, <3>1 DEF DESUSPENDER
    <3>3. cantidad_paginas(p) <= Quedan
      BY <1>0, <2>1, HayMarcos
    <3> QED BY <1>2, <2>1, <3>2, <3>3
  <2>3. CASE ~(Tamanio[p] > 0)
    <3>1. k' = k /\ (Pasa(p, "susp") \/ Pasa(p, "listo")) /\ Tamanio[p] = 0
      BY <1>0, <1>8, <2>3 DEF DESUSPENDER
    <3>2. Llenas'
      BY <1>4, <1>5, <3>1 DEF EnMemoria
    <3> QED BY <1>0, <1>3, <2>1, <3>1, <3>2
  <2> QED BY <2>2, <2>3
<1>9. CASE FINALIZAR(p)
  <2> DEFINE X == ConMarco({x \in Paginas : x[1] = p})
  <2>1. /\ fase[p] \in {"saliendo", "bloq", "susp"} /\ Pasa(p, "fin")
        /\ \/ UNCHANGED <<bitmap, ocupada, k>>
           \/ /\ Tamanio[p] > 0 /\ buscar_entrada_swap_por_pid(p) = 0
              /\ bitmap' = bitmap \ MarcosDe(X)
              /\ ocupada' = ocupada - TAM_PAGINA * cantidad_paginas(p)
              /\ Atiende("FINALIZAR", p, "destruye")
    BY <1>9 DEF FINALIZAR, MarcosDe
  <2>2. Llenas'
    BY <1>5, <2>1 DEF EnMemoria
  <2>3. CASE UNCHANGED <<bitmap, ocupada, k>>
    BY <1>0, <1>3, <2>2, <2>3
  <2>4. CASE /\ Tamanio[p] > 0 /\ buscar_entrada_swap_por_pid(p) = 0
             /\ bitmap' = bitmap \ MarcosDe(X)
             /\ ocupada' = ocupada - TAM_PAGINA * cantidad_paginas(p)
             /\ Atiende("FINALIZAR", p, "destruye")
    <3>1. fase[p] \in EnMemoria
      BY <2>1, <2>4, EntradaDe DEF ConEntrada, EnMemoria
    <3>2. X = DePid(p)
      BY <1>0, <3>1 DEF Llenas, ConMarco, DePid, EnMemoria
    <3>3. X \subseteq EnMesa
      BY <1>0 DEF ConMarco, EnMesa, EnDestruccion
    <3>4. IsFiniteSet(X) /\ Cardinality(X) = cantidad_paginas(p)
      BY <3>2, PaginasDePid
    <3> HIDE DEF X
    <3>5. /\ Cardinality(bitmap') = Cardinality(bitmap) - cantidad_paginas(p)
          /\ MarcosDe(EnMesa \ X) = MarcosDe(EnMesa) \ MarcosDe(X)
      BY <1>0, <2>4, <3>3, <3>4, Desmarca
    <3>6. k'.en = "destruye" /\ k'.p = p
      BY <2>4, AtiendeI
    <3>7. EnMesa' = EnMesa \ X
      BY <1>0, <3>2, <3>6 DEF EnMesa, EnDestruccion, DePid
    <3>8. MarcosDe(EnMesa)' = MarcosDe(EnMesa \ X)
      BY <1>0, <3>7 DEF MarcosDe
    <3>9. Marcados'
      <4>1. EnGuarda = {} /\ EnGuarda' = {}
        BY <1>0, <3>6 DEF EnGuarda
      <4>2. bitmap = MarcosDe(EnMesa)
        BY <4>1 DEF Cuentas, Marcados
      <4> QED BY <2>4, <3>5, <3>8, <4>1, <4>2 DEF Marcados
    <3>10. ocupada' = TAM_PAGINA * Contados'
      <4>a. Cardinality(bitmap) \in Nat /\ Cardinality(bitmap') \in Int
        BY <1>0, <3>5, MarcosFinitos
      <4>1. /\ Contados = Cardinality(bitmap) /\ Contados' = Cardinality(bitmap')
            /\ Cardinality(bitmap) \in Nat
        BY <1>0, <3>6, <4>a DEF Contados
      <4>2. ocupada = TAM_PAGINA * Cardinality(bitmap)
        BY <4>1 DEF Cuentas
      <4> QED BY <1>0, <2>4, <3>5, <4>1, <4>2, Por, Tamanios
    <3>11. Asignadas' /\ Alcanza'
      BY <3>6 DEF Asignadas, Alcanza
    <3> QED BY <1>1, <2>2, <3>9, <3>10, <3>11 DEF Cuentas
  <2> QED BY <2>1, <2>3, <2>4
<1> QED BY <1>6, <1>7, <1>8, <1>9

\* The kernel's thread, CREAR and DESUSPENDER page by page.
LEMMA CuentasAsigna ==
  ASSUME MemoriaTypeOK, InvVivos, Sano, Cuentas, AsignarMarco \/ GuardarMarco \/ FinAsignacion
  PROVE  Cuentas'
<1> USE DEF mem, swap
<1>0. /\ TiposMarcos /\ k \in TipoK /\ k.i \in Nat /\ fase \in [Pids -> Fases]
      /\ (k.en # "recibe" => k.p \in Pids)
      /\ (k.en = "guarda" => <<k.p, k.i>> \in Paginas /\ k.f \in Marcos)
      /\ Llenas /\ Asignadas /\ Alcanza /\ EnMano = {} /\ UNCHANGED cpu
  BY DEF MemoriaTypeOK, TiposFijos, TiposK, TipoK, Cuentas, AsignarMarco, GuardarMarco, FinAsignacion
<1>1. EnMano' = {}
  BY <1>0 DEF EnMano
<1>n. /\ Cardinality(bitmap) \in Nat /\ framesMaximos \in Nat
      /\ \A p \in Pids : cantidad_paginas(p) \in Nat
  BY <1>0, MarcosFinitos, Tamanios
<1>2. CASE AsignarMarco
  <2>1. k.en = "asigna" /\ k.p \in Pids /\ <<k.p, k.i>> \in Paginas /\ UNCHANGED ocupada
    BY <1>0, <1>2 DEF AsignarMarco
  <2>2. k.i < cantidad_paginas(k.p)
    BY <1>0, <2>1, PaginasDePid
  <2>3. CASE /\ tabla[<<k.p, k.i>>] # SinMarco /\ k' = [k EXCEPT !.i = @ + 1]
             /\ UNCHANGED <<bitmap, fase, tabla>>
    <3>1. k'.en = "asigna" /\ k'.p = k.p /\ k'.i = k.i + 1
      BY <1>0, <2>1, <2>3 DEF TipoK
    <3>2. Llenas'
      BY <1>0, <2>3, LlenasIgual
    <3>3. Asignadas'
      <4>1. ASSUME NEW x \in DePid(k.p), x[2] < k.i + 1 PROVE tabla[x] # SinMarco
        <5>1. x = <<k.p, x[2]>> /\ x[2] \in Nat
          BY <2>1, PaginasDePid
        <5> QED BY <1>0, <2>1, <2>3, <4>1, <5>1 DEF Asignadas
      <4> QED BY <2>3, <3>1, <4>1 DEF Asignadas
    <3>4. Alcanza'
      BY <1>0, <1>n, <2>1, <2>3, <3>1 DEF Alcanza, Quedan
    <3> QED BY <1>1, <2>1, <2>3, <3>1, <3>2, <3>3, <3>4, CuentasIgual
  <2>4. ASSUME NEW f \in Libres, tabla[<<k.p, k.i>>] = SinMarco, asignar_marco_libre(f),
               k' = [k EXCEPT !.en = "guarda", !.f = f], UNCHANGED <<fase, tabla>>
        PROVE  Cuentas'
    <3>1. k'.en = "guarda" /\ k'.p = k.p /\ k'.i = k.i /\ k'.f = f
      BY <1>0, <2>4 DEF TipoK
    <3>2. bitmap' = bitmap \cup {f} /\ f \notin bitmap
      BY <2>4 DEF asignar_marco_libre, Libres, MarcosA
    <3>3. Cardinality(bitmap') = Cardinality(bitmap) + 1
      BY <1>0, <3>2, MarcosFinitos, FS_AddElement
    <3>4. Llenas'
      BY <1>0, <2>4, LlenasIgual
    <3>5. Asignadas'
      BY <1>0, <2>1, <2>4, <3>1 DEF Asignadas
    <3>6. Alcanza'
      BY <1>0, <1>n, <2>1, <3>1, <3>3 DEF Alcanza, Quedan
    <3>7. Marcados'
      <4>1. EnMesa' = EnMesa
        BY <2>1, <2>4, <3>1 DEF EnMesa, EnDestruccion
      <4>2. MarcosDe(EnMesa)' = MarcosDe(EnMesa)
        BY <2>4, <4>1 DEF MarcosDe
      <4>3. EnGuarda = {} /\ EnGuarda' = {f}
        BY <2>1, <3>1 DEF EnGuarda
      <4> QED BY <3>2, <4>2, <4>3 DEF Cuentas, Marcados
    <3>8. ocupada' = TAM_PAGINA * Contados'
      <4>1. Contados' = Contados
        BY <1>n, <2>1, <3>1, <3>3 DEF Contados
      <4> QED BY <2>1, <4>1 DEF Cuentas
    <3> QED BY <1>1, <3>4, <3>5, <3>6, <3>7, <3>8 DEF Cuentas
  <2>5. ~asignar_marco_libre(SinMarco)
    <3>1. SUFFICES ASSUME asignar_marco_libre(SinMarco) PROVE FALSE
      OBVIOUS
    <3>2. Libres = {}
      BY <3>1, SinMarcoAparte DEF asignar_marco_libre, Libres
    <3>3. Cardinality(bitmap) = framesMaximos
      BY <1>0, <3>2, MarcosFinitos
    <3> QED BY <1>0, <1>n, <2>1, <2>2, <3>3 DEF Alcanza, Quedan
  <2> QED BY <1>2, <2>3, <2>4, <2>5 DEF AsignarMarco
<1>3. CASE GuardarMarco
  <2>a. PICK x : x = <<k.p, k.i>>
    OBVIOUS
  <2>1. /\ k.en = "guarda" /\ k.p \in Pids /\ x \in Paginas /\ k.f \in Marcos
        /\ tabla' = [tabla EXCEPT ![x] = k.f] /\ ocupada' = ocupada + TAM_PAGINA
        /\ UNCHANGED <<bitmap, fase>>
    BY <1>0, <1>3, <2>a DEF GuardarMarco
  <2>2. k'.en = "asigna" /\ k'.p = k.p /\ k'.i = k.i + 1
    BY <1>0, <1>3 DEF TipoK, GuardarMarco
  <2>3. tabla[x] = SinMarco /\ k.f # SinMarco /\ x \notin EnMesa
    BY <1>0, <2>1, <2>a, SinMarcoAparte DEF Asignadas, EnMesa
  <2>4. tabla'[x] = k.f /\ \A y \in Paginas : y # x => tabla'[y] = tabla[y]
    BY <1>0, <2>1 DEF TiposMarcos
  <2>5. EnMesa' = EnMesa \cup {x}
    BY <2>1, <2>2, <2>3, <2>4 DEF EnMesa, EnDestruccion
  <2>6. MarcosDe(EnMesa)' = MarcosDe(EnMesa) \cup {k.f}
    BY <2>3, <2>4, <2>5 DEF MarcosDe, EnMesa
  <2>7. Marcados'
    <3>1. EnGuarda = {k.f} /\ EnGuarda' = {}
      BY <2>1, <2>2 DEF EnGuarda
    <3> QED BY <2>1, <2>6, <3>1 DEF Cuentas, Marcados
  <2>8. ocupada' = TAM_PAGINA * Contados'
    <3>1. Contados \in Int /\ Contados' = Contados + 1
      BY <1>n, <2>1, <2>2 DEF Contados
    <3>2. ocupada = TAM_PAGINA * Contados
      BY DEF Cuentas
    <3>3. TAM_PAGINA * (Contados + 1) = TAM_PAGINA * Contados + TAM_PAGINA * 1
      BY <3>1, Por, Tamanios
    <3> QED BY <2>1, <3>1, <3>2, <3>3, Tamanios
  <2>9. Llenas'
    BY <1>0, <2>1, <2>3, <2>4 DEF Llenas, DePid
  <2>10. Asignadas'
    <3>1. ASSUME NEW y \in DePid(k.p), y[2] < k.i + 1 PROVE tabla'[y] # SinMarco
      <4>1. y = <<k.p, y[2]>> /\ y[2] \in Nat /\ y \in Paginas
        BY <2>1, PaginasDePid DEF DePid
      <4>2. y # x => y[2] < k.i
        BY <1>0, <2>a, <3>1, <4>1
      <4> QED BY <1>0, <2>1, <2>3, <2>4, <4>1, <4>2 DEF Asignadas
    <3> QED BY <2>2, <3>1 DEF Asignadas
  <2>11. Alcanza'
    BY <1>0, <1>n, <2>1, <2>2 DEF Alcanza, Quedan
  <2> QED BY <1>1, <2>7, <2>8, <2>9, <2>10, <2>11 DEF Cuentas
<1>4. CASE FinAsignacion
  <2>1. k.en = "asigna" /\ k.p \in Pids /\ <<k.p, k.i>> \notin Paginas /\ UNCHANGED <<tabla, bitmap, ocupada>>
    BY <1>0, <1>4 DEF FinAsignacion
  <2>2. \A x \in DePid(k.p) : tabla[x] # SinMarco
    <3>1. k.i >= cantidad_paginas(k.p)
      BY <1>0, <1>n, <2>1, PaginasDePid
    <3>2. \A x \in DePid(k.p) : x[2] < k.i
      <4>1. \A x \in DePid(k.p) : x[2] \in Nat /\ x[2] < cantidad_paginas(k.p)
        BY <2>1, PaginasDePid
      <4> QED BY <1>0, <1>n, <2>1, <3>1, <4>1
    <3> QED BY <1>0, <2>1, <3>2 DEF Asignadas
  <2>3. CASE k.op = "CREAR"
    <3>1. fase' = [fase EXCEPT ![k.p] = "listo"] /\ k' = EnReposo
      BY <1>4, <2>3 DEF FinAsignacion, Pasa
    <3>2. Llenas'
      BY <1>0, <2>1, <2>2, <3>1 DEF Llenas
    <3>3. k'.en = "recibe"
      BY <3>1 DEF EnReposo
    <3>4. Asignadas' /\ Alcanza'
      BY <3>3 DEF Asignadas, Alcanza
    <3> QED BY <1>1, <2>1, <3>2, <3>3, <3>4, CuentasIgual
  <2>4. CASE k.op # "CREAR"
    <3>1. k'.en = "lee" /\ k'.p = k.p /\ UNCHANGED fase
      BY <1>0, <1>4, <2>4 DEF FinAsignacion, TipoK
    <3>2. Llenas'
      BY <1>0, <2>1, <3>1, LlenasIgual
    <3>3. Asignadas' /\ Alcanza'
      BY <2>1, <2>2, <3>1 DEF Asignadas, Alcanza
    <3> QED BY <1>1, <2>1, <3>1, <3>2, <3>3, CuentasIgual
  <2> QED BY <2>3, <2>4
<1> QED BY <1>2, <1>3, <1>4

\* The kernel's thread, the rest of SUSPENDER, DESUSPENDER and FINALIZAR.
LEMMA CuentasSigue ==
  ASSUME MemoriaTypeOK, MarcosExclusivos, InvVivos, Sano, Cuentas,
         \/ RecolectarMarcos \/ FinRecoleccion \/ CopiarASwap
         \/ LeerDeSwap \/ FinDesuspension \/ eliminar_proceso_en_memoria
  PROVE  Cuentas'
<1> USE DEF mem, swap
<1>0. /\ TiposMarcos /\ k \in TipoK /\ k.i \in Nat /\ fase \in [Pids -> Fases]
      /\ (k.en # "recibe" => k.p \in Pids) /\ UNCHANGED cpu
      /\ Llenas /\ Asignadas /\ EnMano = {}
  BY DEF MemoriaTypeOK, TiposFijos, TiposK, TipoK, Cuentas, RecolectarMarcos, FinRecoleccion,
     CopiarASwap, LeerDeSwap, FinDesuspension, eliminar_proceso_en_memoria
<1>1. EnMano' = {}
  BY <1>0 DEF EnMano
<1>r. EnReposo.en = "recibe"
  BY DEF EnReposo
<1>2. CASE RecolectarMarcos
  <2>a. PICK X : X = ConMarco(Hoja(k.p, k.i))
    OBVIOUS
  <2>1. /\ k.en = "recolecta" /\ k.p \in Pids
        /\ tabla' = [x \in Paginas |-> IF x \in X THEN SinMarco ELSE tabla[x]]
        /\ bitmap' = bitmap \ MarcosDe(X)
        /\ ocupada' = ocupada - TAM_PAGINA * Cardinality(X)
        /\ UNCHANGED fase
    BY <1>0, <1>2, <2>a DEF RecolectarMarcos, MarcosDe
  <2>2. k'.en = "recolecta" /\ k'.p = k.p
    BY <1>0, <1>2 DEF RecolectarMarcos, TipoK
  <2>3. X \subseteq EnMesa /\ X \subseteq DePid(k.p)
    BY <2>1, <2>a DEF ConMarco, Hoja, EnMesa, EnDestruccion, DePid
  <2>4. IsFiniteSet(X)
    BY <2>1, <2>3, PaginasDePid, FS_Subset
  <2>5. /\ Cardinality(bitmap') = Cardinality(bitmap) - Cardinality(X)
        /\ Cardinality(X) \in Nat /\ Cardinality(bitmap) \in Nat
        /\ MarcosDe(EnMesa \ X) = MarcosDe(EnMesa) \ MarcosDe(X)
    BY <1>0, <2>1, <2>3, <2>4, Desmarca, MarcosFinitos
  <2>6. EnMesa' = EnMesa \ X
    BY <2>1, <2>2 DEF EnMesa, EnDestruccion
  <2>7. MarcosDe(EnMesa)' = MarcosDe(EnMesa \ X)
    <3>1. \A x \in EnMesa \ X : tabla'[x] = tabla[x]
      BY <2>1 DEF EnMesa
    <3> QED BY <2>6, <3>1 DEF MarcosDe
  <2>8. Marcados'
    <3>1. EnGuarda = {} /\ EnGuarda' = {}
      BY <2>1, <2>2 DEF EnGuarda
    <3>2. bitmap = MarcosDe(EnMesa)
      BY <3>1 DEF Cuentas, Marcados
    <3> QED BY <2>1, <2>5, <2>7, <3>1, <3>2 DEF Marcados
  <2>9. ocupada' = TAM_PAGINA * Contados'
    <3>1. Contados = Cardinality(bitmap) /\ Contados' = Cardinality(bitmap) - Cardinality(X)
      BY <2>1, <2>2, <2>5 DEF Contados
    <3>2. ocupada = TAM_PAGINA * Cardinality(bitmap)
      BY <3>1 DEF Cuentas
    <3> QED BY <2>1, <2>5, <3>1, <3>2, Por, Tamanios
  <2>10. fase[k.p] = "susp"
    BY <1>0, <2>1 DEF Asignadas
  <2>11. Llenas'
    BY <1>0, <2>1, <2>3, <2>10 DEF Llenas, DePid
  <2>12. Asignadas' /\ Alcanza'
    BY <2>1, <2>2, <2>10 DEF Asignadas, Alcanza
  <2> QED BY <1>1, <2>8, <2>9, <2>11, <2>12 DEF Cuentas
<1>3. CASE FinRecoleccion \/ CopiarASwap
  <2>1. /\ k.en \in {"recolecta", "copia"} /\ UNCHANGED <<tabla, bitmap, ocupada, fase>>
        /\ k'.en = "recibe" \/ (k'.en = "copia" /\ k'.p = k.p)
    BY <1>0, <1>r, <1>3 DEF FinRecoleccion, CopiarASwap, TipoK
  <2>2. Llenas'
    BY <1>0, <2>1, LlenasIgual
  <2>3. Asignadas' /\ Alcanza'
    BY <1>0, <2>1 DEF Asignadas, Alcanza
  <2> QED BY <1>1, <2>1, <2>2, <2>3, CuentasIgual
<1>4. CASE LeerDeSwap
  <2>1. /\ k.en = "lee" /\ UNCHANGED <<tabla, bitmap, ocupada, fase>> /\ k'.en = "lee" /\ k'.p = k.p
    BY <1>0, <1>4 DEF LeerDeSwap, TipoK
  <2>2. Llenas'
    BY <1>0, <2>1, LlenasIgual
  <2>3. Asignadas' /\ Alcanza'
    BY <1>0, <2>1 DEF Asignadas, Alcanza
  <2> QED BY <1>1, <2>1, <2>2, <2>3, CuentasIgual
<1>5. CASE FinDesuspension
  <2>1. /\ k.en = "lee" /\ UNCHANGED <<tabla, bitmap, ocupada>> /\ k'.en = "recibe"
        /\ fase' = [fase EXCEPT ![k.p] = "listo"]
    BY <1>r, <1>5 DEF FinDesuspension, Pasa
  <2>2. Llenas'
    BY <1>0, <2>1 DEF Llenas, Asignadas
  <2>3. Asignadas' /\ Alcanza'
    BY <2>1 DEF Asignadas, Alcanza
  <2> QED BY <1>1, <2>1, <2>2, <2>3, CuentasIgual
<1>6. CASE eliminar_proceso_en_memoria
  <2>1. /\ k.en = "destruye" /\ k.p \in Pids /\ k'.en = "recibe" /\ UNCHANGED <<bitmap, ocupada, fase>>
        /\ tabla' = [y \in Paginas |-> IF y[1] = k.p THEN SinMarco ELSE tabla[y]]
    BY <1>0, <1>r, <1>6 DEF eliminar_proceso_en_memoria
  <2>2. EnMesa' = EnMesa /\ \A x \in EnMesa : tabla'[x] = tabla[x]
    BY <2>1 DEF EnMesa, EnDestruccion
  <2>3. MarcosDe(EnMesa)' = MarcosDe(EnMesa)
    BY <2>2 DEF MarcosDe
  <2>4. EnGuarda' = EnGuarda /\ Contados' = Contados
    BY <2>1 DEF EnGuarda, Contados
  <2>5. fase[k.p] = "fin"
    BY <2>1 DEF InvVivos, Pedido
  <2>6. Llenas'
    BY <1>0, <2>1, <2>5 DEF Llenas, DePid
  <2>7. Asignadas' /\ Alcanza'
    BY <2>1 DEF Asignadas, Alcanza
  <2> QED BY <1>1, <2>1, <2>3, <2>4, <2>6, <2>7 DEF Cuentas, Marcados
<1> QED BY <1>2, <1>3, <1>4, <1>5, <1>6

\* What a dispatch leaves: one process more in execution, nothing else in memory.
LEMMA Despacho ==
  ASSUME NEW c, NEW p, Despachar(c, p)
  PROVE  /\ fase[p] \in EnMemoria /\ Pasa(p, "exec") /\ UNCHANGED <<tabla, bitmap, ocupada, k>>
         /\ cpu' = [cpu EXCEPT ![c] = [CpuLibre EXCEPT !.en = "ejecuta", !.p = p]]
BY DEF Despachar, EnMemoria, mem

\* The CPUs: the pages of what they run have their frames, so they take none.
LEMMA CuentasCpu ==
  ASSUME MemoriaTypeOK, InvVivos, Sano, Cuentas,
         \/ \E c \in CPUs : Cpu(c) \/ \E p \in Pids : Despachar(c, p)
         \/ \E p \in Pids : FinIO(p)
  PROVE  Cuentas'
<1> USE DEF mem, swap
<1>0. /\ TiposMarcos /\ TiposCpu /\ fase \in [Pids -> Fases] /\ EnMano = {} /\ Llenas
      /\ Asignadas /\ Alcanza /\ (k.en # "recibe" => k.p \in Pids)
  BY DEF MemoriaTypeOK, TiposFijos, TiposK, Cuentas
<1>a. ASSUME UNCHANGED <<tabla, bitmap, ocupada, k>>, EnMano' = {},
             \A p \in Pids : /\ fase'[p] \in EnMemoria => fase[p] \in EnMemoria
                             /\ fase[p] = "susp" => fase'[p] = "susp"
      PROVE  Cuentas'
  <2>1. Llenas'
    BY <1>0, <1>a, LlenasIgual
  <2>2. Asignadas'
    BY <1>0, <1>a DEF Asignadas
  <2>3. Alcanza'
    BY <1>0, <1>a DEF Alcanza, Quedan
  <2> QED BY <1>a, <2>1, <2>2, <2>3, CuentasIgual
<1>b. ASSUME NEW p \in Pids, NEW f \in EnMemoria, fase[p] \in EnMemoria, Pasa(p, f)
      PROVE  \A q \in Pids : /\ fase'[q] \in EnMemoria => fase[q] \in EnMemoria
                             /\ fase[q] = "susp" => fase'[q] = "susp"
  BY <1>0, <1>b DEF Pasa, EnMemoria
<1>c. ASSUME NEW c \in CPUs, cpu[c].en \in {"ejecuta", "busca", "mira", "usa"}
      PROVE  cpu[c].p \in Pids /\ fase[cpu[c].p] = "exec" /\ viva[cpu[c].p]
  <2>1. ~cpu[c].vacia
    BY DEF InvVivos, EnCpus, Sano
  <2>2. Corre(cpu[c])
    BY <1>c, <2>1 DEF Corre
  <2> QED BY <1>0, <1>c, <2>2 DEF InvVivos, EnCpus, TiposCpu, PosicionCpu
<1>d. ASSUME NEW c \in CPUs, NEW r, cpu' = [cpu EXCEPT ![c] = r], r.en # "guarda" PROVE EnMano' = {}
  <2>1. cpu'[c] = r /\ \A d \in CPUs \ {c} : cpu'[d] = cpu[d]
    BY <1>0, <1>d DEF TiposCpu
  <2> QED BY <1>0, <1>d, <2>1 DEF EnMano
<1>e. ASSUME NEW c \in CPUs, NEW r, cpu' = [cpu EXCEPT ![c] = r], r.en # "guarda",
             UNCHANGED <<tabla, bitmap, ocupada, k, fase>>
      PROVE  Cuentas'
  <2>1. EnMano' = {}
    BY <1>d, <1>e
  <2> QED BY <1>a, <1>e, <2>1
<1>f. ASSUME NEW c \in CPUs, NEW en, NEW g
      PROVE  /\ [cpu[c] EXCEPT !.en = en].en = en
             /\ [cpu[c] EXCEPT !.en = en, !.i = g].en = en
             /\ [cpu[c] EXCEPT !.en = en, !.f = g].en = en
  BY <1>0 DEF TiposCpu, TipoCpu
<1>1. ASSUME NEW p \in Pids, FinIO(p) PROVE Cuentas'
  <2>1. fase[p] \in EnMemoria /\ Pasa(p, "listo") /\ UNCHANGED <<tabla, bitmap, ocupada, k, cpu>>
    BY <1>1 DEF FinIO, EnMemoria
  <2>2. EnMano' = {}
    BY <1>0, <2>1 DEF EnMano
  <2> QED BY <1>a, <1>b, <2>1, <2>2 DEF EnMemoria
<1>2. ASSUME NEW c \in CPUs, NEW p \in Pids, Despachar(c, p) PROVE Cuentas'
  <2> DEFINE r == [CpuLibre EXCEPT !.en = "ejecuta", !.p = p]
  <2>1. /\ fase[p] \in EnMemoria /\ Pasa(p, "exec") /\ UNCHANGED <<tabla, bitmap, ocupada, k>>
        /\ cpu' = [cpu EXCEPT ![c] = r]
    BY <1>2, Despacho, Zenon
  <2>2. r.en = "ejecuta"
    BY DEF CpuLibre
  <2> HIDE DEF r
  <2>3. EnMano' = {}
    BY <1>d, <2>1, <2>2
  <2> QED BY <1>a, <1>b, <2>1, <2>3 DEF EnMemoria
<1>3. ASSUME NEW c \in CPUs, PedirMarco(c) PROVE Cuentas'
  <2>1. PICK i \in Pag(cpu[c].p) : cpu' = [cpu EXCEPT ![c].en = "busca", ![c].i = i]
    BY <1>3 DEF PedirMarco
  <2>2. PICK r : r = [cpu[c] EXCEPT !.en = "busca", !.i = i]
    OBVIOUS
  <2>3. r.en # "guarda"
    BY <1>f, <2>2
  <2>4. cpu' = [cpu EXCEPT ![c] = r] /\ UNCHANGED <<tabla, bitmap, ocupada, k, fase>>
    BY <1>3, <2>1, <2>2 DEF PedirMarco
  <2> QED BY <1>e, <2>3, <2>4
<1>4. ASSUME NEW c \in CPUs, BloquearOSalir(c) PROVE Cuentas'
  <2>1. PICK s \in {"bloq", "saliendo"} : Pasa(cpu[c].p, s)
    BY <1>4 DEF BloquearOSalir
  <2>2. /\ UNCHANGED <<tabla, bitmap, ocupada, k>> /\ cpu[c].en = "ejecuta"
        /\ cpu' = [cpu EXCEPT ![c] =
             IF cpu[c].sucia = -1 THEN CpuLibre
             ELSE [cpu[c] EXCEPT !.en = "busca", !.i = cpu[c].sucia, !.vacia = TRUE]]
    BY <1>4 DEF BloquearOSalir
  <2>3. cpu[c].sucia = -1
    BY DEF InvVivos, EnCpus, Sano
  <2>4. EnMano' = {}
    BY <1>d, <2>2, <2>3, ReposoTipo
  <2>5. cpu[c].p \in Pids /\ fase[cpu[c].p] \in EnMemoria /\ s \in EnMemoria
    BY <1>c, <2>2 DEF EnMemoria
  <2> QED BY <1>a, <1>b, <2>1, <2>2, <2>4, <2>5
<1>5. ASSUME NEW c \in CPUs, BuscarProceso(c) PROVE Cuentas'
  <2>1. PICK en \in {"mira", "colgada"} : cpu' = [cpu EXCEPT ![c] = [cpu[c] EXCEPT !.en = en]]
    BY <1>5 DEF BuscarProceso, VaCpu
  <2>2. PICK r : r = [cpu[c] EXCEPT !.en = en]
    OBVIOUS
  <2>3. r.en # "guarda"
    BY <1>f, <2>2
  <2>4. cpu' = [cpu EXCEPT ![c] = r] /\ UNCHANGED <<tabla, bitmap, ocupada, k, fase>>
    BY <1>5, <2>1, <2>2 DEF BuscarProceso
  <2> QED BY <1>e, <2>3, <2>4
<1>6. ASSUME NEW c \in CPUs, MirarMarco(c) PROVE Cuentas'
  <2>1. cpu[c].en = "mira" /\ UNCHANGED <<tabla, ocupada, k, fase>>
    BY <1>6 DEF MirarMarco
  <2>2. viva[cpu[c].p] /\ tabla[Pagina(c)] # SinMarco
    <3>1. cpu[c].p \in Pids /\ fase[cpu[c].p] = "exec" /\ viva[cpu[c].p]
      BY <1>c, <2>1
    <3>2. Pagina(c) \in DePid(cpu[c].p)
      BY <1>0, <2>1 DEF TiposCpu, PosicionCpu, Pagina, DePid
    <3> QED BY <1>0, <3>1, <3>2 DEF Llenas
  <2>3. UNCHANGED bitmap /\ cpu' = [cpu EXCEPT ![c] = [cpu[c] EXCEPT !.en = "usa", !.f = tabla[Pagina(c)]]]
    BY <1>6, <2>2 DEF MirarMarco
  <2>4. PICK r : r = [cpu[c] EXCEPT !.en = "usa", !.f = tabla[Pagina(c)]]
    OBVIOUS
  <2>5. r.en # "guarda"
    BY <1>f, <2>4
  <2>6. cpu' = [cpu EXCEPT ![c] = r] /\ UNCHANGED <<tabla, bitmap, ocupada, k, fase>>
    BY <2>1, <2>3, <2>4
  <2> QED BY <1>e, <2>5, <2>6
<1>7. ASSUME NEW c \in CPUs PROVE ~GuardarMarcoCPU(c)
  BY <1>0 DEF GuardarMarcoCPU, EnMano
<1>8. ASSUME NEW c \in CPUs, EscribirMemoria(c) PROVE Cuentas'
  <2>1. cpu' = [cpu EXCEPT ![c] = [cpu[c] EXCEPT !.en = "ejecuta"]]
        /\ UNCHANGED <<tabla, bitmap, ocupada, k, fase>>
    BY <1>8 DEF EscribirMemoria, VaCpu
  <2>2. PICK r : r = [cpu[c] EXCEPT !.en = "ejecuta"]
    OBVIOUS
  <2>3. r.en # "guarda"
    BY <1>f, <2>2
  <2>4. cpu' = [cpu EXCEPT ![c] = r]
    BY <2>1, <2>2
  <2> QED BY <1>e, <2>1, <2>3, <2>4
<1>9. ASSUME NEW c \in CPUs PROVE ~EscribirCache(c) /\ ~VaciarCache(c)
  BY DEF EscribirCache, VaciarCache, InvVivos, EnCpus, Sano
<1> QED BY <1>1, <1>2, <1>3, <1>4, <1>5, <1>6, <1>7, <1>8, <1>9 DEF Cpu

-----------------------------------------------------------------------------
(* The invariant, and what it shows.                                        *)

\* The configuration does not change.
LEMMA SanoFijo == ASSUME [Next]_vars PROVE Sano' <=> Sano
<1>1. UNCHANGED conf
  BY DEF Next, Kernel, Cpu, vars, CREAR, SUSPENDER, DESUSPENDER, FINALIZAR, AsignarMarco, GuardarMarco,
     FinAsignacion, RecolectarMarcos, FinRecoleccion, CopiarASwap, LeerDeSwap, FinDesuspension,
     eliminar_proceso_en_memoria, FinIO, PedirMarco, BloquearOSalir, BuscarProceso, MirarMarco,
     GuardarMarcoCPU, EscribirMemoria, EscribirCache, VaciarCache, Despachar
<1> QED BY <1>1 DEF conf, Sano

\* Every step keeps the accounts.
LEMMA CuentasPaso ==
  ASSUME MemoriaTypeOK, MarcosExclusivos, InvVivos, ConEntrada, Sano => Cuentas, [Next]_vars
  PROVE  Sano' => Cuentas'
<1> SUFFICES ASSUME Sano, Cuentas PROVE Cuentas'
  BY SanoFijo
<1>1. CASE UNCHANGED vars
  BY <1>1 DEF vars, mem, Cuentas, Marcados, MarcosDe, EnMesa, EnDestruccion, EnGuarda, Contados,
     EnMano, Llenas, Asignadas, Alcanza, Quedan
<1>2. CASE Kernel
  BY <1>2, CuentasPedidos, CuentasAsigna, CuentasSigue DEF Kernel
<1> QED BY <1>1, <1>2, CuentasCpu DEF Next

\* At the start no frame is marked, if the bitmap came clean.
LEMMA CuentasInicial == ASSUME Init PROVE ConEntrada /\ (Sano => Cuentas)
<1>1. /\ entradas = <<>> /\ archivo = <<>> /\ k.en = "recibe" /\ k = EnReposo
      /\ \A p \in Pids : fase[p] = "nuevo"
  BY ReposoTipo DEF Init
<1>2. ConEntrada
  BY <1>1 DEF ConEntrada
<1>3. ASSUME Sano PROVE Cuentas
  <2>1. bitmap = {} /\ ocupada = 0 /\ EnMesa = {} /\ EnMano = {}
    BY <1>3, ReposoTipo DEF Init, Sano, EnMesa, EnMano
  <2>2. Marcados
    BY <1>1, <2>1 DEF Marcados, MarcosDe, EnGuarda
  <2>3. ocupada = TAM_PAGINA * Contados
    <3>1. Contados = 0
      BY <1>1, <2>1, FS_EmptySet DEF Contados
    <3> QED BY <2>1, <3>1, Tamanios
  <2>4. Llenas /\ Asignadas /\ Alcanza
    BY <1>1 DEF Llenas, Asignadas, Alcanza
  <2> QED BY <2>1, <2>2, <2>3, <2>4 DEF Cuentas
<1> QED BY <1>2, <1>3

\* The count, the entries of the swap file, the frames and the phases hold in
\* every reachable state.
THEOREM Invariante == Spec => []IInv
<1>1. Init => InvVivos /\ ConEntrada /\ (Sano => Cuentas)
  BY VivosInicial, CuentasInicial
<1>2. MemoriaTypeOK /\ MarcosExclusivos /\ InvVivos /\ ConEntrada /\ (Sano => Cuentas) /\ [Next]_vars
        => InvVivos' /\ ConEntrada' /\ (Sano => Cuentas)'
  BY VivosPaso, EntradaPaso, CuentasPaso
<1>3. IInv <=> MemoriaTypeOK /\ MarcosExclusivos /\ (InvVivos /\ ConEntrada /\ (Sano => Cuentas))
  BY DEF IInv
<1> QED BY <1>1, <1>2, <1>3, MemoriaTipos, MemoriaExclusivos, PTL DEF Spec

\* MEMORIA_OCUPADA, which decides who is admitted, counts the marked frames, and
\* each of them is in a table: what asignar_marco_libre gives, what GuardarMarco
\* counts and what suspending and ending give back never drift apart.
THEOREM NadaDeMas == Spec => []ContabilidadExacta
<1>1. IInv => ContabilidadExacta
  <2> SUFFICES ASSUME IInv, Sano, k.en = "recibe"
               PROVE  /\ ocupada = TAM_PAGINA * Cardinality(bitmap)
                      /\ bitmap = {tabla[x] : x \in ConMarco(Paginas)}
    BY DEF ContabilidadExacta
  <2>1. Cuentas /\ TiposMarcos
    BY DEF IInv, MemoriaTypeOK
  <2>2. Contados = Cardinality(bitmap)
    BY <2>1, MarcosFinitos DEF Contados
  <2>3. EnMesa = ConMarco(Paginas) /\ EnGuarda = {}
    BY DEF EnMesa, EnDestruccion, ConMarco, EnGuarda
  <2> QED BY <2>1, <2>2, <2>3 DEF Cuentas, Marcados, MarcosDe
<1> QED BY <1>1, Invariante, PTL

=============================================================================
