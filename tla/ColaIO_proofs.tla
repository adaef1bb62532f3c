---------------------------- MODULE ColaIO_proofs ----------------------------
(***************************************************************************)
(* Proofs about ColaIO, for every number of processes and of devices, any  *)
(* names and any environment: devices that come, go, share a name, and go  *)
(* in the middle of a pass over the queue. When that takes an entry out of *)
(* the queue under the pass, types and the conversation with each device   *)
(* are left; the place of each request is not (QuitaLaSuya is false then). *)
(***************************************************************************)
EXTENDS ColaIO, Listas, FiniteSetTheorems

-----------------------------------------------------------------------------
(* The inductive invariant.                                                 *)

\* A process in a call has asked for a name.
NombresOK == \A p \in Pids : sys[p].en # "nada" => sys[p].n \in Nombres

\* The conversation of the kernel with a device: what the two sockets may hold,
\* by the process noted in it and the place of its thread.
Charla(d) ==
  LET p == proceso[d]
      a == aDev[d]
      b == deDev[d]
      atento == hilo[d] \in {"acepta", "espera"}
  IN \/ conexion[d] = "fuera" /\ hilo[d] = "fin" /\ p = Nadie /\ a = <<>> /\ b = <<>>
     \/ conexion[d] = "viva" /\ atento /\ p = Nadie /\ a = <<>> /\ b = <<>>
     \/ conexion[d] = "viva" /\ atento /\ p # Nadie /\ a = <<p>> /\ b = <<>>
     \/ conexion[d] = "viva" /\ atento /\ p # Nadie /\ a = <<>> /\ b = <<p>>
     \/ conexion[d] = "viva" /\ hilo[d] = "libera" /\ p # Nadie /\ a = <<>> /\ b = <<>>
     \/ conexion[d] = "caida" /\ atento /\ a = <<>> /\ b = <<Nadie>>
     \/ conexion[d] = "caida" /\ atento /\ p # Nadie /\ a = <<>> /\ b = <<p, Nadie>>
     \/ conexion[d] = "caida" /\ hilo[d] = "libera" /\ p # Nadie /\ a = <<>> /\ b = <<Nadie>>
     \/ conexion[d] = "caida" /\ hilo[d] \in {"saca", "expulsa"} /\ a = <<>> /\ b = <<>>
     \/ conexion[d] = "caida" /\ hilo[d] = "fin" /\ p = Nadie /\ a = <<>> /\ b = <<>>

\* The devices listed are those with a thread, or about to have it; the thread
\* that takes a device out has the mutex.
Lista(d) ==
  /\ hilo[d] # "fin" <=> d \in Range(lista_IO)
  /\ hilo[d] \in {"saca", "expulsa"} <=> mutex_ios = d

Charlas == \A d \in Dispositivos : Charla(d) /\ Lista(d)

\* Where the request of a process may be: the queue, a device, its own thread.
EnCola(p) == \E i \in DOMAIN cola : cola[i].pid = p
Sirve(d, p) == proceso[d] = p /\ hilo[d] \in {"acepta", "espera"}
Llama(p) == sys[p].en = "encola"

\* It is in one place at most, only while the process is blocked, and (unless a
\* device goes in the middle of a pass) as long as it is.
Lugar(p) ==
  /\ EnCola(p) => ~Llama(p) /\ estado[p] = "BLOCKED"
  /\ Llama(p) => estado[p] = "BLOCKED"
  /\ \A d \in Dispositivos : Sirve(d, p) => /\ ~EnCola(p) /\ ~Llama(p)
                                            /\ estado[p] = "BLOCKED"
  /\ \A d, e \in Dispositivos : Sirve(d, p) /\ Sirve(e, p) => d = e
  /\ sys[p].en = "bloquea" => estado[p] = "EXEC"
  /\ estado[p] = "BLOCKED" /\ ~entorno.carrera
       => EnCola(p) \/ Llama(p) \/ \E d \in Dispositivos : Sirve(d, p)

UnaEntrada == \A i, j \in DOMAIN cola : cola[i].pid = cola[j].pid => i = j

UnLugar == UnaEntrada /\ \A p \in Pids : Lugar(p)

\* Without that race the pass and the end of a device exclude each other, and a
\* device found free is still free.
Tranquilo ==
  ~entorno.carrera =>
    /\ mutex_ios # Nadie => barrido.en = "espera"
    /\ barrido.en = "ocupa" => hay_alguno_libre_io(barrido.x.n)

\* The index of the pass is that of the entry it has in hand.
Vigente ==
  barrido.en # "espera" => barrido.i \in DOMAIN cola /\ barrido.x = cola[barrido.i]

IInv ==
  /\ ColaTypeOK /\ NombresOK /\ Charlas /\ Tranquilo
  /\ ~entorno.quita => UnLugar /\ Vigente

-----------------------------------------------------------------------------
(* Types.                                                                   *)

TiposProcesos ==
  /\ entorno \in Entornos
  /\ estado \in [Pids -> {"EXEC", "BLOCKED", "EXIT"}]
  /\ sys \in [Pids -> [en : {"nada", "bloquea", "encola"}, n : Nombres \cup {Nadie}]]
  /\ \A p \in Pids : quedan[p] \in 0 .. Pedidos[p]
  /\ NombresOK

TiposCola ==
  /\ cola \in Seq([pid : Pids, n : Nombres])
  /\ binario \in Nat
  /\ \/ barrido = Quieto
     \/ barrido \in [en : {"existe", "libre", "ocupa"}, i : Nat \ {0},
                     x : [pid : Pids, n : Nombres] \cup {Basura}]

TiposLista ==
  /\ lista_IO \in Seq(Dispositivos) /\ IsInjective(lista_IO)
  /\ proceso \in [Dispositivos -> Pids \cup {Nadie}]
  /\ mutex_ios \in Dispositivos \cup {Nadie}

TiposDev ==
  /\ hilo \in [Dispositivos -> {"acepta", "espera", "libera", "expulsa", "saca", "fin"}]
  /\ aDev \in [Dispositivos -> Seq(Pids)]
  /\ deDev \in [Dispositivos -> Seq(Pids \cup {Nadie})]
  /\ conexion \in [Dispositivos -> {"fuera", "viva", "caida"}]

\* The type invariant in four parts, before and after a step.
LEMMA TiposPartes ==
  /\ ColaTypeOK /\ NombresOK <=> TiposProcesos /\ TiposCola /\ TiposLista /\ TiposDev
  /\ ColaTypeOK' /\ NombresOK' <=> TiposProcesos' /\ TiposCola' /\ TiposLista' /\ TiposDev'
BY DEF ColaTypeOK, TiposProcesos, TiposCola, TiposLista, TiposDev

\* What the proofs use of the constants.
LEMMA Constantes ==
  /\ Nombre \in [Dispositivos -> Nombres]
  /\ Nadie \notin Pids /\ Nadie \notin Dispositivos /\ Nadie \notin Nombres
  /\ \A p \in Pids : Pedidos[p] \in Nat
  /\ IsFiniteSet(Dispositivos)
  /\ \A e \in Entornos : /\ e.estan \in Seq(Dispositivos) /\ IsInjective(e.estan)
                         /\ e.vienen \subseteq Dispositivos /\ e.caen \subseteq Dispositivos
                         /\ e.quita => e.carrera /\ e.caen # {}
BY ConstantesColaOK DEF EntornosPosibles

\* EXIT_PID changes the list of one process at most.
LEMMA ExitTipo ==
  ASSUME NEW p, estado \in [Pids -> {"EXEC", "BLOCKED", "EXIT"}], EXIT_PID(p)
  PROVE  /\ estado' \in [Pids -> {"EXEC", "BLOCKED", "EXIT"}]
         /\ \A q \in Pids : estado'[q] = IF q = p THEN "EXIT" ELSE estado[q]
BY DEF EXIT_PID

\* Sigue is the end of the pass or an entry of the queue.
LEMMA SigueTipo ==
  ASSUME TiposCola, NEW i \in Nat \ {0}
  PROVE  \/ Sigue(i) = Quieto
         \/ /\ Sigue(i) = [en |-> "existe", i |-> i, x |-> cola[i]]
            /\ i \in DOMAIN cola /\ cola[i] \in [pid : Pids, n : Nombres]
<1>1. cola \in Seq([pid : Pids, n : Nombres])
  BY DEF TiposCola
<1>2. i > Len(cola) \/ i \in 1..Len(cola)
  BY <1>1, LenProperties
<1>3. i \in 1..Len(cola) => i \in DOMAIN cola /\ cola[i] \in [pid : Pids, n : Nombres]
  BY <1>1, LenProperties, ElementOfSeq
<1> QED BY <1>2, <1>3 DEF Sigue

\* list_remove by index leaves a queue.
LEMMA SinEntradaTipo ==
  ASSUME TiposCola, NEW i
  PROVE  SinEntrada(i) \in Seq([pid : Pids, n : Nombres])
<1>1. cola \in Seq([pid : Pids, n : Nombres]) /\ DOMAIN cola = 1..Len(cola)
  BY LenProperties DEF TiposCola
<1>2. CASE i \in DOMAIN cola
  <2>1. RemoveAt(cola, i) \in Seq([pid : Pids, n : Nombres])
    BY <1>1, <1>2, RemoveAtPropiedades
  <2> QED BY <1>2, <2>1 DEF SinEntrada
<1>3. CASE i \notin DOMAIN cola
  BY <1>1, <1>3 DEF SinEntrada
<1> QED BY <1>2, <1>3

\* A pass that goes through the queue, whatever it has in hand.
LEMMA BarridoTipo ==
  ASSUME TiposCola
  PROVE  /\ barrido.en = "espera" <=> barrido = Quieto
         /\ barrido.en # "espera" =>
              barrido \in [en : {"existe", "libre", "ocupa"}, i : Nat \ {0},
                           x : [pid : Pids, n : Nombres] \cup {Basura}]
BY DEF TiposCola, Quieto

\* ocupar_io finds a free device of that name, or there is none.
LEMMA PrimeroEs ==
  ASSUME TiposLista, NEW n
  PROVE  \/ Primero(n) = Nadie /\ ~hay_alguno_libre_io(n)
         \/ /\ Primero(n) \in Range(lista_IO) /\ Primero(n) \in Dispositivos
            /\ proceso[Primero(n)] = Nadie /\ Nombre[Primero(n)] = n
<1> DEFINE L == {i \in DOMAIN lista_IO : Nombre[lista_IO[i]] = n /\ proceso[lista_IO[i]] = Nadie}
<1>1. DOMAIN lista_IO = 1..Len(lista_IO) /\ L \in SUBSET Nat
      /\ \A i \in DOMAIN lista_IO : lista_IO[i] \in Dispositivos
  BY LenProperties, ElementOfSeq DEF TiposLista
<1>2. CASE L = {}
  <2>1. Primero(n) = Nadie
    BY <1>2 DEF Primero
  <2>2. ASSUME hay_alguno_libre_io(n) PROVE FALSE
    <3>1. PICK d \in Range(lista_IO) : Nombre[d] = n /\ proceso[d] = Nadie
      BY <2>2 DEF hay_alguno_libre_io, Llamado
    <3>2. PICK i \in DOMAIN lista_IO : lista_IO[i] = d
      BY <3>1 DEF Range
    <3> QED BY <1>2, <3>1, <3>2
  <2> QED BY <2>1, <2>2
<1>3. CASE L # {}
  <2>1. Primero(n) = lista_IO[Min(L)] /\ Min(L) \in L
    BY <1>1, <1>3, MinEsta DEF Primero
  <2> HIDE DEF Primero
  <2> QED BY <1>1, <2>1 DEF Range
<1> QED BY <1>2, <1>3

\* A device is noted the process of an entry: rubbish has the name of none.
LEMMA OcupaEntrada ==
  ASSUME TiposCola, TiposLista, barrido.en = "ocupa", Primero(barrido.x.n) # Nadie
  PROVE  barrido.x.pid \in Pids
<1>1. PICK d : d = Primero(barrido.x.n)
  OBVIOUS
<1>2. d \in Dispositivos /\ Nombre[d] = barrido.x.n
  BY <1>1, PrimeroEs
<1>3. barrido.x.n \in Nombres
  BY <1>2, Constantes
<1>4. barrido.x # Basura
  BY <1>3, Constantes DEF Basura
<1>5. barrido.x \in [pid : Pids, n : Nombres]
  BY <1>4, BarridoTipo
<1> QED BY <1>5

\* The steps that leave the calls and the lists of the processes alone.
LEMMA ProcesosQuietos ==
  ASSUME NEW d,
         \/ BarridoDespierta \/ BarridoLibre \/ BarridoOcupa \/ CreaHilo(d) \/ liberar_io(d)
         \/ SacaDispositivo(d) \/ Termina(d) \/ conectar_io(d) \/ SeCae(d)
  PROVE  UNCHANGED <<entorno, estado, sys, quedan>>
BY DEF BarridoDespierta, BarridoLibre, BarridoOcupa, CreaHilo, liberar_io, SacaDispositivo,
   Termina, conectar_io, SeCae, procVars

\* Types: the processes.
LEMMA TipoProcesos ==
  ASSUME TiposProcesos, TiposCola, [Next]_vars
  PROVE  TiposProcesos'
<1> USE DEF TiposProcesos, NombresOK, procVars
<1>0. ASSUME UNCHANGED <<entorno, estado, sys, quedan>> PROVE TiposProcesos'
  BY <1>0
<1>1. CASE UNCHANGED vars
  BY <1>0, <1>1 DEF vars
<1>2. ASSUME NEW p \in Pids, NEW n \in Nombres, SysComienzoIO(p, n) PROVE TiposProcesos'
  <2>1. /\ quedan' = [quedan EXCEPT ![p] = @ - 1] /\ quedan[p] > 0 /\ UNCHANGED entorno
        /\ \/ sys' = [sys EXCEPT ![p] = [en |-> "bloquea", n |-> n]] /\ UNCHANGED estado
           \/ EXIT_PID(p) /\ UNCHANGED sys
    BY <1>2 DEF SysComienzoIO
  <2>2. \A q \in Pids : quedan'[q] \in 0 .. Pedidos[q]
    BY <2>1, Constantes
  <2>3. CASE sys' = [sys EXCEPT ![p] = [en |-> "bloquea", n |-> n]] /\ UNCHANGED estado
    BY <2>1, <2>2, <2>3
  <2>4. CASE EXIT_PID(p) /\ UNCHANGED sys
    BY <2>1, <2>2, <2>4, ExitTipo
  <2> QED BY <2>1, <2>3, <2>4
<1>3. ASSUME NEW p \in Pids, Llamada(p) PROVE TiposProcesos'
  <2>1. CASE exec_a_blocked(p)
    BY <2>1 DEF exec_a_blocked
  <2>2. CASE agregar_a_cola_por_IO(p)
    BY <2>2 DEF agregar_a_cola_por_IO, SinLlamada
  <2> QED BY <1>3, <2>1, <2>2 DEF Llamada
<1>4. ASSUME NEW p, EXIT_PID(p) \/ UNCHANGED estado, UNCHANGED <<entorno, sys, quedan>>
      PROVE  TiposProcesos'
  BY <1>4, ExitTipo
<1>5. CASE BarridoExiste
  BY <1>4, <1>5 DEF BarridoExiste
<1>6. ASSUME NEW d \in Dispositivos, AtiendeFin(d) PROVE TiposProcesos'
  BY <1>6 DEF AtiendeFin
<1>7. ASSUME NEW d \in Dispositivos, Desconecta(d) \/ ExpulsaDeLaCola(d) PROVE TiposProcesos'
  BY <1>4, <1>7 DEF Desconecta, ExpulsaDeLaCola
<1>8. ASSUME NEW d,
             \/ BarridoDespierta \/ BarridoLibre \/ BarridoOcupa \/ CreaHilo(d) \/ liberar_io(d)
             \/ SacaDispositivo(d) \/ Termina(d) \/ conectar_io(d) \/ SeCae(d)
      PROVE  TiposProcesos'
  BY <1>0, <1>8, ProcesosQuietos
<1> HIDE DEF TiposProcesos
<1> QED BY <1>1, <1>2, <1>3, <1>5, <1>6, <1>7, <1>8 DEF Next, Barrido, HiloIO

\* Types: the queue and the pass over it.
LEMMA TipoCola ==
  ASSUME TiposProcesos, TiposCola, [Next]_vars
  PROVE  TiposCola'
<1> USE DEF colaVars
<1> DEFINE E == [pid : Pids, n : Nombres]
<1>0. ASSUME cola' = cola, binario' \in Nat, barrido' = barrido \/ barrido' = Quieto
      PROVE  TiposCola'
  BY <1>0 DEF TiposCola
<1>a. ASSUME cola' \in Seq(E), UNCHANGED binario, barrido' = Quieto PROVE TiposCola'
  BY <1>a DEF TiposCola
<1>b. barrido.en = "espera" <=> barrido = Quieto
  BY DEF TiposCola, Quieto
<1>1. CASE UNCHANGED vars
  BY <1>0, <1>1 DEF vars, TiposCola
<1>2. ASSUME NEW p \in Pids, agregar_a_cola_por_IO(p) PROVE TiposCola'
  <2> DEFINE x == [pid |-> p, n |-> sys[p].n]
  <2>1. /\ cola' = Append(cola, x) /\ binario' = binario + 1 /\ UNCHANGED barrido
        /\ barrido.en = "espera" /\ sys[p].en = "encola"
    BY <1>2 DEF agregar_a_cola_por_IO
  <2>2. x \in E
    BY <2>1 DEF TiposProcesos, NombresOK
  <2> HIDE DEF x
  <2>3. cola' \in Seq(E)
    BY <2>1, <2>2, AppendPropiedades DEF TiposCola
  <2> QED BY <1>b, <2>1, <2>3 DEF TiposCola
<1>c. ASSUME cola' = cola, binario' \in Nat, NEW i \in Nat \ {0}, barrido' = Sigue(i)
      PROVE  TiposCola'
  <2>1. cola \in Seq(E)
    BY DEF TiposCola
  <2>2. CASE Sigue(i) = Quieto
    BY <1>c, <2>1, <2>2 DEF TiposCola
  <2>3. CASE Sigue(i) = [en |-> "existe", i |-> i, x |-> cola[i]] /\ cola[i] \in E
    BY <1>c, <2>1, <2>3 DEF TiposCola
  <2> QED BY <2>2, <2>3, SigueTipo
<1>d. ASSUME barrido.en # "espera", UNCHANGED <<cola, binario>>, NEW e \in {"libre", "ocupa"},
             barrido' = [barrido EXCEPT !.en = e]
      PROVE  TiposCola'
  BY <1>d, BarridoTipo DEF TiposCola
<1>3. CASE BarridoDespierta
  <2>1. cola' = cola /\ binario > 0 /\ binario' = binario - 1 /\ barrido' = Sigue(1)
    BY <1>3 DEF BarridoDespierta
  <2>2. binario' \in Nat
    BY <2>1 DEF TiposCola
  <2> QED BY <1>c, <2>1, <2>2
<1>4. CASE BarridoExiste
  <2>1. barrido.en = "existe" /\ UNCHANGED binario
    BY <1>4 DEF BarridoExiste
  <2>2. CASE cola' = cola /\ barrido' = [barrido EXCEPT !.en = "libre"]
    BY <1>d, <2>1, <2>2
  <2>3. CASE cola' = SinEntrada(barrido.i) /\ barrido' = Quieto
    BY <1>a, <2>1, <2>3, SinEntradaTipo
  <2> QED BY <1>4, <2>2, <2>3 DEF BarridoExiste
<1>5. CASE BarridoLibre
  <2>1. barrido.en = "libre" /\ UNCHANGED <<cola, binario>>
        /\ (barrido' = [barrido EXCEPT !.en = "ocupa"] \/ barrido' = Sigue(barrido.i + 1))
    BY <1>5 DEF BarridoLibre
  <2>2. barrido.i + 1 \in Nat \ {0} /\ binario' \in Nat
    <3>1. barrido.i \in Nat
      BY <2>1, BarridoTipo
    <3> QED BY <2>1, <3>1 DEF TiposCola
  <2> QED BY <1>c, <1>d, <2>1, <2>2
<1>6. CASE BarridoOcupa
  <2>1. UNCHANGED binario /\ cola' = SinEntrada(barrido.i) /\ barrido' = Quieto
    BY <1>6 DEF BarridoOcupa
  <2> QED BY <1>a, <2>1, SinEntradaTipo
<1>7. ASSUME NEW d \in Dispositivos, ExpulsaDeLaCola(d) PROVE TiposCola'
  <2> DEFINE X == EnColaPor(Nombre[d])
  <2>1. UNCHANGED binario
        /\ (barrido' = barrido \/ barrido' = [barrido EXCEPT !.x = Basura])
    BY <1>7 DEF ExpulsaDeLaCola
  <2>2. CASE X = {}
    BY <1>0, <1>7, <2>1, <2>2 DEF ExpulsaDeLaCola, TiposCola
  <2>3. CASE X # {}
    <3>1. X \subseteq 1..Len(cola) /\ X \in SUBSET Nat
      BY LenProperties DEF EnColaPor, TiposCola
    <3>2. cola' = RemoveAt(cola, Min(X)) /\ Min(X) \in X
      BY <1>7, <2>3, <3>1, MinEsta DEF ExpulsaDeLaCola
    <3>3. cola' \in Seq(E)
      BY <3>1, <3>2, RemoveAtPropiedades DEF TiposCola
    <3>4. CASE barrido.en = "espera"
      <4>1. barrido = Quieto /\ [Quieto EXCEPT !.x = Basura] = Quieto
        BY <3>4, BarridoTipo DEF Quieto
      <4> QED BY <1>a, <2>1, <3>3, <4>1
    <3>5. CASE barrido.en # "espera"
      <4>1. barrido' \in [en : {"existe", "libre", "ocupa"}, i : Nat \ {0},
                          x : [pid : Pids, n : Nombres] \cup {Basura}]
        BY <2>1, <3>5, BarridoTipo
      <4> QED BY <2>1, <3>3, <4>1 DEF TiposCola
    <3> QED BY <3>4, <3>5
  <2> QED BY <2>2, <2>3
<1>8. ASSUME NEW d \in Dispositivos, CreaHilo(d) \/ liberar_io(d) \/ SacaDispositivo(d)
      PROVE  TiposCola'
  <2>1. UNCHANGED <<cola, barrido>> /\ binario' = binario + 1
    BY <1>8 DEF CreaHilo, liberar_io, SacaDispositivo
  <2> QED BY <1>0, <2>1 DEF TiposCola
<1>9. ASSUME NEW p \in Pids, NEW n, SysComienzoIO(p, n) \/ exec_a_blocked(p) PROVE TiposCola'
  BY <1>0, <1>9 DEF SysComienzoIO, exec_a_blocked, TiposCola
<1>10. ASSUME NEW d \in Dispositivos,
              AtiendeFin(d) \/ Desconecta(d) \/ Termina(d) \/ conectar_io(d) \/ SeCae(d)
       PROVE  TiposCola'
  BY <1>0, <1>10 DEF AtiendeFin, Desconecta, Termina, conectar_io, SeCae, TiposCola
<1> QED BY <1>1, <1>2, <1>3, <1>4, <1>5, <1>6, <1>7, <1>8, <1>9, <1>10
        DEF Next, Llamada, Barrido, HiloIO

\* Types: the list of devices and what is noted in each.
LEMMA TipoLista ==
  ASSUME TiposCola, TiposLista, TiposDev, Charlas, [Next]_vars
  PROVE  TiposLista'
<1> USE DEF listaVars, devVars
<1>0. ASSUME UNCHANGED <<lista_IO, proceso, mutex_ios>> PROVE TiposLista'
  BY <1>0 DEF TiposLista
<1>1. CASE UNCHANGED vars
  BY <1>0, <1>1 DEF vars
<1>2. CASE BarridoOcupa
  <2> DEFINE d == Primero(barrido.x.n)
             p == barrido.x.pid
  <2>1. barrido.en = "ocupa" /\ UNCHANGED <<lista_IO, mutex_ios>>
    BY <1>2 DEF BarridoOcupa
  <2>2. d # Nadie => p \in Pids
    BY <2>1, OcupaEntrada
  <2>3. IF d = Nadie THEN proceso' = proceso ELSE proceso' = [proceso EXCEPT ![d] = p]
    BY <1>2 DEF BarridoOcupa
  <2> HIDE DEF d, p
  <2> QED BY <2>1, <2>2, <2>3 DEF TiposLista
<1>3. ASSUME NEW d \in Dispositivos, conectar_io(d) PROVE TiposLista'
  <2>1. conexion[d] = "fuera" /\ lista_IO' = Append(lista_IO, d) /\ UNCHANGED <<proceso, mutex_ios>>
    BY <1>3 DEF conectar_io
  <2>2. hilo[d] = "fin"
    BY <2>1 DEF Charlas, Charla
  <2>3. d \notin Range(lista_IO)
    BY <2>2 DEF Charlas, Lista
  <2>4. lista_IO' \in Seq(Dispositivos) /\ IsInjective(lista_IO')
    BY <2>1, <2>3, AppendPropiedades DEF TiposLista
  <2> QED BY <2>1, <2>4 DEF TiposLista
<1>4. ASSUME NEW d \in Dispositivos, liberar_io(d) PROVE TiposLista'
  BY <1>4 DEF liberar_io, TiposLista
<1>5. ASSUME NEW d \in Dispositivos, Desconecta(d) PROVE TiposLista'
  BY <1>5 DEF Desconecta, TiposLista
<1>6. ASSUME NEW d \in Dispositivos, SacaDispositivo(d) PROVE TiposLista'
  <2>1. lista_IO' \in Seq(Dispositivos) /\ IsInjective(lista_IO')
    BY <1>6, RemoveFirstPropiedades DEF SacaDispositivo, TiposLista
  <2> QED BY <1>6, <2>1 DEF SacaDispositivo, TiposLista
<1>7. ASSUME NEW p, NEW n, SysComienzoIO(p, n) \/ Llamada(p) PROVE TiposLista'
  BY <1>0, <1>7 DEF SysComienzoIO, Llamada, exec_a_blocked, agregar_a_cola_por_IO
<1>8. CASE BarridoDespierta \/ BarridoExiste \/ BarridoLibre
  BY <1>0, <1>8 DEF BarridoDespierta, BarridoExiste, BarridoLibre
<1>9. ASSUME NEW d, CreaHilo(d) \/ AtiendeFin(d) \/ ExpulsaDeLaCola(d) \/ Termina(d) \/ SeCae(d)
      PROVE  TiposLista'
  BY <1>0, <1>9 DEF CreaHilo, AtiendeFin, ExpulsaDeLaCola, Termina, SeCae
<1> QED BY <1>1, <1>2, <1>3, <1>4, <1>5, <1>6, <1>7, <1>8, <1>9 DEF Next, Barrido, HiloIO

\* A message more in a socket, or one less.
LEMMA SocketTipo ==
  ASSUME NEW S, NEW k \in [Dispositivos -> Seq(S)], NEW d \in Dispositivos
  PROVE  /\ \A m \in S : [k EXCEPT ![d] = Append(@, m)] \in [Dispositivos -> Seq(S)]
         /\ k[d] # <<>> => /\ [k EXCEPT ![d] = Tail(@)] \in [Dispositivos -> Seq(S)]
                           /\ Head(k[d]) \in S
         /\ [k EXCEPT ![d] = <<>>] \in [Dispositivos -> Seq(S)]
BY AppendProperties, HeadTailProperties, EmptySeq

\* Types: the threads of the devices, the sockets and the connections.
LEMMA TipoDev ==
  ASSUME TiposCola, TiposLista, TiposDev, [Next]_vars
  PROVE  TiposDev'
<1> USE DEF devVars
<1> DEFINE M == Pids \cup {Nadie}
<1>0. ASSUME UNCHANGED <<hilo, aDev, deDev, conexion>> PROVE TiposDev'
  BY <1>0 DEF TiposDev
<1>a. /\ hilo \in [Dispositivos -> {"acepta", "espera", "libera", "expulsa", "saca", "fin"}]
      /\ aDev \in [Dispositivos -> Seq(Pids)] /\ deDev \in [Dispositivos -> Seq(M)]
      /\ conexion \in [Dispositivos -> {"fuera", "viva", "caida"}]
  BY DEF TiposDev
<1>1. CASE UNCHANGED vars
  BY <1>0, <1>1 DEF vars
<1>2. CASE BarridoOcupa
  <2> DEFINE d == Primero(barrido.x.n)
             p == barrido.x.pid
  <2>1. barrido.en = "ocupa" /\ UNCHANGED <<hilo, deDev, conexion>>
    BY <1>2 DEF BarridoOcupa
  <2>2. d # Nadie => p \in Pids
    BY <2>1, OcupaEntrada
  <2>3. aDev' = aDev \/ (d # Nadie /\ aDev' = [aDev EXCEPT ![d] = Append(@, p)])
    BY <1>2 DEF BarridoOcupa
  <2> HIDE DEF d, p
  <2>4. aDev' \in [Dispositivos -> Seq(Pids)]
    <3>1. CASE d \notin Dispositivos \/ aDev' = aDev
      BY <1>a, <2>3, <3>1
    <3>2. CASE d # Nadie /\ d \in Dispositivos /\ aDev' = [aDev EXCEPT ![d] = Append(@, p)]
      BY <1>a, <2>2, <3>2, SocketTipo
    <3> QED BY <2>3, <3>1, <3>2
  <2> QED BY <2>1, <2>4 DEF TiposDev
<1>3. ASSUME NEW d \in Dispositivos, conectar_io(d) \/ CreaHilo(d) \/ liberar_io(d)
                                     \/ ExpulsaDeLaCola(d) \/ SacaDispositivo(d)
      PROVE  TiposDev'
  <2>1. UNCHANGED <<aDev, deDev>>
    BY <1>3 DEF conectar_io, CreaHilo, liberar_io, ExpulsaDeLaCola, SacaDispositivo
  <2>2. \E e \in {"acepta", "espera", "libera", "expulsa", "saca", "fin"} :
           hilo' = [hilo EXCEPT ![d] = e]
    BY <1>3 DEF conectar_io, CreaHilo, liberar_io, ExpulsaDeLaCola, SacaDispositivo
  <2>3. conexion' = conexion \/ conexion' = [conexion EXCEPT ![d] = "viva"]
    BY <1>3 DEF conectar_io, CreaHilo, liberar_io, ExpulsaDeLaCola, SacaDispositivo
  <2> QED BY <2>1, <2>2, <2>3 DEF TiposDev
<1>4. ASSUME NEW d \in Dispositivos, Termina(d) PROVE TiposDev'
  <2>1. /\ aDev[d] # <<>> /\ UNCHANGED <<hilo, conexion>>
        /\ deDev' = [deDev EXCEPT ![d] = Append(@, Head(aDev[d]))]
        /\ aDev' = [aDev EXCEPT ![d] = Tail(@)]
    BY <1>4 DEF Termina
  <2>2. Head(aDev[d]) \in M /\ aDev' \in [Dispositivos -> Seq(Pids)]
    BY <1>a, <2>1, SocketTipo
  <2>3. deDev' \in [Dispositivos -> Seq(M)]
    BY <1>a, <2>1, <2>2, SocketTipo
  <2> QED BY <2>1, <2>2, <2>3 DEF TiposDev
<1>5. ASSUME NEW d \in Dispositivos, SeCae(d) PROVE TiposDev'
  <2>1. /\ UNCHANGED hilo /\ conexion' = [conexion EXCEPT ![d] = "caida"]
        /\ aDev' = [aDev EXCEPT ![d] = <<>>] /\ deDev' = [deDev EXCEPT ![d] = Append(@, Nadie)]
    BY <1>5 DEF SeCae
  <2>2. aDev' \in [Dispositivos -> Seq(Pids)] /\ deDev' \in [Dispositivos -> Seq(M)]
    BY <1>a, <2>1, SocketTipo
  <2> QED BY <2>1, <2>2 DEF TiposDev
<1>6. ASSUME NEW d \in Dispositivos, AtiendeFin(d) \/ Desconecta(d) PROVE TiposDev'
  <2>1. /\ UNCHANGED <<aDev, conexion>> /\ deDev[d] # <<>>
        /\ deDev' = [deDev EXCEPT ![d] = Tail(@)]
        /\ \E e \in {"libera", "expulsa", "saca"} : hilo' = [hilo EXCEPT ![d] = e]
    BY <1>6 DEF AtiendeFin, Desconecta
  <2>2. deDev' \in [Dispositivos -> Seq(M)]
    BY <1>a, <2>1, SocketTipo
  <2> QED BY <2>1, <2>2 DEF TiposDev
<1>7. ASSUME NEW p, NEW n, SysComienzoIO(p, n) \/ Llamada(p) PROVE TiposDev'
  BY <1>0, <1>7 DEF SysComienzoIO, Llamada, exec_a_blocked, agregar_a_cola_por_IO
<1>8. CASE BarridoDespierta \/ BarridoExiste \/ BarridoLibre
  BY <1>0, <1>8 DEF BarridoDespierta, BarridoExiste, BarridoLibre
<1> QED BY <1>1, <1>2, <1>3, <1>4, <1>5, <1>6, <1>7, <1>8 DEF Next, Barrido, HiloIO

-----------------------------------------------------------------------------
(* The conversation with each device.                                       *)

\* The sequences a socket may hold.
LEMMA Cortas ==
  ASSUME NEW x, NEW y
  PROVE  /\ Append(<<>>, x) = <<x>> /\ Append(<<x>>, y) = <<x, y>>
         /\ Tail(<<x>>) = <<>> /\ Head(<<x>>) = x
         /\ Tail(<<x, y>>) = <<y>> /\ Head(<<x, y>>) = x
         /\ <<x>> # <<>> /\ <<x, y>> # <<>>
<1>1. Append(<<>>, x) = <<x>>
  OBVIOUS
<1>2. Append(<<x>>, y) = <<x, y>>
  <2> DEFINE S == {x, y}
             s == <<x>>
             t == <<x, y>>
  <2>1. s \in Seq(S) /\ t \in Seq(S) /\ Len(s) = 1 /\ Len(t) = 2
        /\ s[1] = x /\ t[1] = x /\ t[2] = y
    OBVIOUS
  <2>2. y \in S
    OBVIOUS
  <2> HIDE DEF S, s, t
  <2>3. /\ Append(s, y) \in Seq(S) /\ Len(Append(s, y)) = 2
        /\ Append(s, y)[1] = x /\ Append(s, y)[2] = y
    <3>1. /\ Append(s, y) \in Seq(S) /\ Len(Append(s, y)) = Len(s) + 1
          /\ \A i \in 1..Len(s) : Append(s, y)[i] = s[i]
          /\ Append(s, y)[Len(s) + 1] = y
      <4>1. s \in Seq(S)
        BY <2>1
      <4> QED BY <2>2, <4>1, AppendProperties
    <3> QED BY <2>1, <3>1
  <2>4. \A i \in 1..Len(t) : Append(s, y)[i] = t[i]
    BY <2>1, <2>3
  <2>5. Append(s, y) = t
    BY <2>1, <2>3, <2>4, SeqEqual
  <2> QED BY <2>5 DEF s, t
<1>3. Tail(<<x>>) = <<>> /\ Head(<<x>>) = x
  OBVIOUS
<1>4. Tail(<<x, y>>) = <<y>>
  OBVIOUS
<1>5. Head(<<x, y>>) = x /\ <<x>> # <<>> /\ <<x, y>> # <<>>
  OBVIOUS
<1> QED BY <1>1, <1>2, <1>3, <1>4, <1>5

\* A device that a step does not touch.
LEMMA CharlaIgual ==
  ASSUME NEW d \in Dispositivos, Charla(d), conexion'[d] = conexion[d], hilo'[d] = hilo[d],
         proceso'[d] = proceso[d], aDev'[d] = aDev[d], deDev'[d] = deDev[d]
  PROVE  Charla(d)'
BY DEF Charla

\* A step that leaves the devices alone.
LEMMA CharlasQuietas ==
  ASSUME Charlas, UNCHANGED <<conexion, hilo, proceso, aDev, deDev, lista_IO, mutex_ios>>
  PROVE  Charlas'
<1>1. \A d \in Dispositivos : Charla(d)'
  BY CharlaIgual DEF Charlas
<1>2. \A d \in Dispositivos : Lista(d)'
  BY DEF Charlas, Lista
<1> QED BY <1>1, <1>2 DEF Charlas

\* A step on one device that neither lists it nor takes it out, nor moves the
\* mutex.
LEMMA CharlaUna ==
  ASSUME Charlas, NEW d \in Dispositivos, Charla(d)',
         \A e \in Dispositivos : e # d =>
           /\ conexion'[e] = conexion[e] /\ hilo'[e] = hilo[e] /\ proceso'[e] = proceso[e]
           /\ aDev'[e] = aDev[e] /\ deDev'[e] = deDev[e],
         UNCHANGED <<lista_IO, mutex_ios>>,
         hilo'[d] = "fin" <=> hilo[d] = "fin",
         hilo'[d] \in {"saca", "expulsa"} <=> hilo[d] \in {"saca", "expulsa"}
  PROVE  Charlas'
<1>1. \A e \in Dispositivos : Charla(e)'
  BY CharlaIgual DEF Charlas
<1>2. \A e \in Dispositivos : Lista(e)'
  BY DEF Charlas, Lista
<1> QED BY <1>1, <1>2 DEF Charlas

\* The pass gives a request to a device that has none.
LEMMA CharlaOcupa ==
  ASSUME TiposCola, TiposLista, TiposDev, Charlas, BarridoOcupa
  PROVE  Charlas'
<1>1. /\ barrido.en = "ocupa" /\ mutex_ios = Nadie
      /\ UNCHANGED <<hilo, deDev, conexion, lista_IO, mutex_ios>>
  BY DEF BarridoOcupa
<1>a. PICK d : d = Primero(barrido.x.n)
  OBVIOUS
<1>b. PICK p : p = barrido.x.pid
  OBVIOUS
<1>2. d # Nadie => p \in Pids /\ p # Nadie
  BY <1>1, <1>a, <1>b, OcupaEntrada, Constantes
<1>3. IF d = Nadie THEN UNCHANGED <<proceso, aDev>>
      ELSE /\ proceso' = [proceso EXCEPT ![d] = p]
           /\ aDev' = IF conexion[d] # "viva" THEN aDev ELSE [aDev EXCEPT ![d] = Append(@, p)]
  BY <1>a, <1>b DEF BarridoOcupa
<1>4. d = Nadie \/ (d \in Range(lista_IO) /\ d \in Dispositivos /\ proceso[d] = Nadie)
  BY <1>a, PrimeroEs
<1>5. CASE d = Nadie
  BY <1>1, <1>3, <1>5, CharlasQuietas
<1>6. CASE d # Nadie
  <2>1. d \in Dispositivos /\ proceso[d] = Nadie /\ hilo[d] \notin {"fin", "saca", "expulsa"}
    BY <1>1, <1>4, <1>6 DEF Charlas, Lista
  <2>2. \/ conexion[d] = "viva" /\ hilo[d] \in {"acepta", "espera"} /\ aDev[d] = <<>> /\ deDev[d] = <<>>
        \/ /\ conexion[d] = "caida" /\ hilo[d] \in {"acepta", "espera"} /\ aDev[d] = <<>>
           /\ deDev[d] = <<Nadie>>
    BY <2>1 DEF Charlas, Charla
  <2>3. proceso'[d] = p /\ (conexion[d] = "viva" => aDev'[d] = <<p>>)
        /\ (conexion[d] # "viva" => aDev'[d] = aDev[d])
    BY <1>3, <1>6, <2>1, <2>2, Cortas DEF TiposLista, TiposDev
  <2>4. \A e \in Dispositivos : e # d => proceso'[e] = proceso[e] /\ aDev'[e] = aDev[e]
    BY <1>3, <1>6 DEF TiposLista, TiposDev
  <2>5. Charla(d)'
    BY <1>1, <1>2, <1>6, <2>2, <2>3 DEF Charla
  <2> QED BY <1>1, <2>1, <2>4, <2>5, CharlaUna
<1> QED BY <1>5, <1>6

\* The device ends its IO, or goes; its thread reads the end, or frees it.
LEMMA CharlaDev ==
  ASSUME TiposLista, TiposDev, Charlas, NEW d \in Dispositivos,
         CreaHilo(d) \/ Termina(d) \/ SeCae(d) \/ AtiendeFin(d) \/ liberar_io(d)
  PROVE  Charlas'
<1> USE DEF listaVars, devVars
<1>0. Charla(d)
  BY DEF Charlas
<1>1. UNCHANGED <<lista_IO, mutex_ios>>
  BY DEF CreaHilo, Termina, SeCae, AtiendeFin, liberar_io
<1>2. CASE CreaHilo(d)
  <2>1. hilo[d] = "acepta" /\ hilo' = [hilo EXCEPT ![d] = "espera"]
        /\ UNCHANGED <<conexion, proceso, aDev, deDev>>
    BY <1>2 DEF CreaHilo
  <2>2. hilo'[d] = "espera" /\ \A e \in Dispositivos : e # d => hilo'[e] = hilo[e]
    BY <2>1 DEF TiposDev
  <2>3. Charla(d)'
    BY <1>0, <2>1, <2>2 DEF Charla
  <2> QED BY <1>1, <2>1, <2>2, <2>3, CharlaUna
<1>3. CASE Termina(d)
  <2>1. /\ conexion[d] = "viva" /\ aDev[d] # <<>> /\ UNCHANGED <<hilo, conexion, proceso>>
        /\ deDev' = [deDev EXCEPT ![d] = Append(@, Head(aDev[d]))]
        /\ aDev' = [aDev EXCEPT ![d] = Tail(@)]
    BY <1>3 DEF Termina
  <2>2. /\ aDev[d] = <<proceso[d]>> /\ deDev[d] = <<>> /\ proceso[d] # Nadie
        /\ hilo[d] \in {"acepta", "espera"}
    BY <1>0, <2>1 DEF Charla
  <2>3. /\ aDev'[d] = <<>> /\ deDev'[d] = <<proceso[d]>>
        /\ \A e \in Dispositivos : e # d => aDev'[e] = aDev[e] /\ deDev'[e] = deDev[e]
    BY <2>1, <2>2, Cortas DEF TiposDev
  <2>4. Charla(d)'
    BY <2>1, <2>2, <2>3 DEF Charla
  <2> QED BY <1>1, <2>1, <2>3, <2>4, CharlaUna
<1>4. CASE SeCae(d)
  <2>1. /\ conexion[d] = "viva" /\ UNCHANGED <<hilo, proceso>>
        /\ conexion' = [conexion EXCEPT ![d] = "caida"]
        /\ aDev' = [aDev EXCEPT ![d] = <<>>]
        /\ deDev' = [deDev EXCEPT ![d] = Append(@, Nadie)]
    BY <1>4 DEF SeCae
  <2>2. /\ hilo[d] \in {"acepta", "espera", "libera"}
        /\ hilo[d] = "libera" => proceso[d] # Nadie /\ deDev[d] = <<>>
        /\ deDev[d] = <<>> \/ (deDev[d] = <<proceso[d]>> /\ proceso[d] # Nadie)
    BY <1>0, <2>1 DEF Charla
  <2>3. /\ conexion'[d] = "caida" /\ aDev'[d] = <<>>
        /\ deDev[d] = <<>> => deDev'[d] = <<Nadie>>
        /\ deDev[d] = <<proceso[d]>> => deDev'[d] = <<proceso[d], Nadie>>
        /\ \A e \in Dispositivos : e # d => /\ aDev'[e] = aDev[e] /\ deDev'[e] = deDev[e]
                                            /\ conexion'[e] = conexion[e]
    BY <2>1, Cortas DEF TiposDev
  <2>4. Charla(d)'
    BY <2>1, <2>2, <2>3 DEF Charla
  <2> QED BY <1>1, <2>1, <2>3, <2>4, CharlaUna
<1>5. CASE AtiendeFin(d)
  <2>1. /\ hilo[d] = "espera" /\ deDev[d] # <<>> /\ Head(deDev[d]) # Nadie
        /\ deDev' = [deDev EXCEPT ![d] = Tail(@)] /\ hilo' = [hilo EXCEPT ![d] = "libera"]
        /\ UNCHANGED <<aDev, conexion, proceso>>
    BY <1>5 DEF AtiendeFin
  <2>2. /\ proceso[d] # Nadie /\ aDev[d] = <<>>
        /\ \/ conexion[d] = "viva" /\ deDev[d] = <<proceso[d]>>
           \/ conexion[d] = "caida" /\ deDev[d] = <<proceso[d], Nadie>>
    BY <1>0, <2>1, Cortas DEF Charla
  <2>3. /\ hilo'[d] = "libera"
        /\ conexion[d] = "viva" => deDev'[d] = <<>>
        /\ conexion[d] = "caida" => deDev'[d] = <<Nadie>>
        /\ \A e \in Dispositivos : e # d => hilo'[e] = hilo[e] /\ deDev'[e] = deDev[e]
    <3>1. /\ hilo'[d] = "libera" /\ deDev'[d] = Tail(deDev[d])
          /\ \A e \in Dispositivos : e # d => hilo'[e] = hilo[e] /\ deDev'[e] = deDev[e]
      BY <2>1 DEF TiposDev
    <3>2. Tail(<<proceso[d]>>) = <<>> /\ Tail(<<proceso[d], Nadie>>) = <<Nadie>>
      BY Cortas, Zenon
    <3> QED BY <2>2, <3>1, <3>2
  <2>4. Charla(d)'
    BY <2>1, <2>2, <2>3 DEF Charla
  <2> QED BY <1>1, <2>1, <2>3, <2>4, CharlaUna
<1>6. CASE liberar_io(d)
  <2>1. /\ hilo[d] = "libera" /\ proceso' = [proceso EXCEPT ![d] = Nadie]
        /\ hilo' = [hilo EXCEPT ![d] = "espera"] /\ UNCHANGED <<aDev, deDev, conexion>>
    BY <1>6 DEF liberar_io
  <2>2. /\ hilo'[d] = "espera" /\ proceso'[d] = Nadie
        /\ \A e \in Dispositivos : e # d => hilo'[e] = hilo[e] /\ proceso'[e] = proceso[e]
    BY <2>1 DEF TiposDev, TiposLista
  <2>3. Charla(d)'
    BY <1>0, <2>1, <2>2 DEF Charla
  <2> QED BY <1>1, <2>1, <2>2, <2>3, CharlaUna
<1> QED BY <1>2, <1>3, <1>4, <1>5, <1>6

\* A device is listed, or taken out.
LEMMA CharlaLista ==
  ASSUME TiposLista, TiposDev, Charlas, NEW d \in Dispositivos,
         conectar_io(d) \/ Desconecta(d) \/ ExpulsaDeLaCola(d) \/ SacaDispositivo(d)
  PROVE  Charlas'
<1> USE DEF listaVars, devVars
<1>0. Charla(d) /\ Lista(d) /\ Nadie \notin Dispositivos
  BY Constantes DEF Charlas
<1>a. ASSUME Charla(d)', Lista(d)',
             \A e \in Dispositivos : e # d =>
               /\ conexion'[e] = conexion[e] /\ hilo'[e] = hilo[e] /\ proceso'[e] = proceso[e]
               /\ aDev'[e] = aDev[e] /\ deDev'[e] = deDev[e]
               /\ e \in Range(lista_IO') <=> e \in Range(lista_IO)
               /\ mutex_ios' = e <=> mutex_ios = e
      PROVE  Charlas'
  <2>1. \A e \in Dispositivos : Charla(e)'
    BY <1>a, CharlaIgual DEF Charlas
  <2>2. \A e \in Dispositivos : Lista(e)'
    BY <1>a DEF Charlas, Lista
  <2> QED BY <2>1, <2>2 DEF Charlas
<1>1. CASE conectar_io(d)
  <2>1. /\ conexion[d] = "fuera" /\ lista_IO' = Append(lista_IO, d)
        /\ conexion' = [conexion EXCEPT ![d] = "viva"] /\ hilo' = [hilo EXCEPT ![d] = "acepta"]
        /\ UNCHANGED <<proceso, mutex_ios, aDev, deDev>>
    BY <1>1 DEF conectar_io
  <2>2. proceso[d] = Nadie /\ aDev[d] = <<>> /\ deDev[d] = <<>> /\ mutex_ios # d
    BY <1>0, <2>1 DEF Charla, Lista
  <2>3. Range(lista_IO') = Range(lista_IO) \cup {d}
    BY <2>1, AppendPropiedades DEF TiposLista
  <2>4. /\ conexion'[d] = "viva" /\ hilo'[d] = "acepta"
        /\ \A e \in Dispositivos : e # d => conexion'[e] = conexion[e] /\ hilo'[e] = hilo[e]
    BY <2>1 DEF TiposDev
  <2>5. Charla(d)' /\ Lista(d)'
    BY <2>1, <2>2, <2>3, <2>4 DEF Charla, Lista
  <2> QED BY <1>a, <2>1, <2>3, <2>4, <2>5
<1>2. CASE Desconecta(d)
  <2>1. /\ hilo[d] = "espera" /\ deDev[d] # <<>> /\ Head(deDev[d]) = Nadie /\ mutex_ios = Nadie
        /\ deDev' = [deDev EXCEPT ![d] = Tail(@)] /\ mutex_ios' = d
        /\ \E e \in {"saca", "expulsa"} : hilo' = [hilo EXCEPT ![d] = e]
        /\ UNCHANGED <<lista_IO, proceso, aDev, conexion>>
    BY <1>2 DEF Desconecta
  <2>2. conexion[d] = "caida" /\ aDev[d] = <<>> /\ deDev[d] = <<Nadie>>
    <3>1. /\ Head(<<proceso[d]>>) = proceso[d] /\ Head(<<proceso[d], Nadie>>) = proceso[d]
      BY Cortas, Zenon
    <3> QED BY <1>0, <2>1, <3>1 DEF Charla
  <2>3. /\ deDev'[d] = <<>> /\ hilo'[d] \in {"saca", "expulsa"}
        /\ \A e \in Dispositivos : e # d => deDev'[e] = deDev[e] /\ hilo'[e] = hilo[e]
    <3>1. Tail(<<Nadie>>) = <<>>
      BY Cortas, Zenon
    <3> QED BY <2>1, <2>2, <3>1 DEF TiposDev
  <2>4. Charla(d)' /\ Lista(d)'
    BY <1>0, <2>1, <2>2, <2>3 DEF Charla, Lista
  <2> QED BY <1>0, <1>a, <2>1, <2>3, <2>4
<1>3. CASE ExpulsaDeLaCola(d)
  <2>1. /\ hilo[d] = "expulsa" /\ hilo' = [hilo EXCEPT ![d] = "saca"]
        /\ UNCHANGED <<lista_IO, proceso, mutex_ios, aDev, deDev, conexion>>
    BY <1>3 DEF ExpulsaDeLaCola
  <2>2. hilo'[d] = "saca" /\ \A e \in Dispositivos : e # d => hilo'[e] = hilo[e]
    BY <2>1 DEF TiposDev
  <2>3. Charla(d)' /\ Lista(d)'
    BY <1>0, <2>1, <2>2 DEF Charla, Lista
  <2> QED BY <1>a, <2>1, <2>2, <2>3
<1>4. CASE SacaDispositivo(d)
  <2>1. /\ hilo[d] = "saca" /\ lista_IO' = RemoveFirst(lista_IO, d)
        /\ proceso' = [proceso EXCEPT ![d] = Nadie] /\ mutex_ios' = Nadie
        /\ hilo' = [hilo EXCEPT ![d] = "fin"] /\ UNCHANGED <<aDev, deDev, conexion>>
    BY <1>4 DEF SacaDispositivo
  <2>2. mutex_ios = d /\ conexion[d] = "caida" /\ aDev[d] = <<>> /\ deDev[d] = <<>>
    BY <1>0, <2>1 DEF Charla, Lista
  <2>3. Range(lista_IO') = Range(lista_IO) \ {d}
    BY <2>1, RemoveFirstPropiedades DEF TiposLista
  <2>4. /\ hilo'[d] = "fin" /\ proceso'[d] = Nadie
        /\ \A e \in Dispositivos : e # d => hilo'[e] = hilo[e] /\ proceso'[e] = proceso[e]
    BY <2>1 DEF TiposDev, TiposLista
  <2>5. Charla(d)' /\ Lista(d)'
    BY <1>0, <2>1, <2>2, <2>3, <2>4 DEF Charla, Lista
  <2> QED BY <1>0, <1>a, <2>1, <2>2, <2>3, <2>4, <2>5
<1> QED BY <1>1, <1>2, <1>3, <1>4

\* Every step keeps the conversation with each device.
LEMMA CharlaPaso ==
  ASSUME TiposCola, TiposLista, TiposDev, Charlas, [Next]_vars
  PROVE  Charlas'
<1> USE DEF listaVars, devVars
<1>1. CASE UNCHANGED vars
  BY <1>1, CharlasQuietas DEF vars
<1>2. ASSUME NEW p, NEW n, SysComienzoIO(p, n) \/ Llamada(p) PROVE Charlas'
  BY <1>2, CharlasQuietas DEF SysComienzoIO, Llamada, exec_a_blocked, agregar_a_cola_por_IO
<1>3. CASE BarridoDespierta \/ BarridoExiste \/ BarridoLibre
  BY <1>3, CharlasQuietas DEF BarridoDespierta, BarridoExiste, BarridoLibre
<1> QED BY <1>1, <1>2, <1>3, CharlaOcupa, CharlaDev, CharlaLista DEF Next, Barrido, HiloIO

-----------------------------------------------------------------------------
(* One place for the request of each process.                               *)

\* list_remove of one entry of the queue: its process is no longer in it.
LEMMA ColaSin ==
  ASSUME TiposCola, UnaEntrada, NEW k \in DOMAIN cola, cola' = RemoveAt(cola, k)
  PROVE  /\ UnaEntrada'
         /\ \A p : EnCola(p)' <=> EnCola(p) /\ p # cola[k].pid
<1>1. DOMAIN cola = 1..Len(cola) /\ Len(cola) \in Nat /\ k \in 1..Len(cola)
  BY LenProperties DEF TiposCola
<1>a. cola \in Seq([pid : Pids, n : Nombres])
  BY DEF TiposCola
<1>2. /\ cola' \in Seq([pid : Pids, n : Nombres]) /\ Len(cola') = Len(cola) - 1
      /\ \A j \in 1..(Len(cola) - 1) : cola'[j] = IF j < k THEN cola[j] ELSE cola[j + 1]
  BY <1>1, <1>a, RemoveAtPropiedades, Zenon
<1>3. DOMAIN cola' = 1..(Len(cola) - 1)
  BY <1>2, LenProperties
<1> DEFINE g(j) == IF j < k THEN j ELSE j + 1
<1>4. \A j \in DOMAIN cola' : g(j) \in DOMAIN cola /\ g(j) # k /\ cola'[j] = cola[g(j)]
  BY <1>1, <1>2, <1>3
<1>5. \A i, j \in DOMAIN cola' : g(i) = g(j) => i = j
  BY <1>1, <1>3
<1>6. \A i \in DOMAIN cola \ {k} : \E j \in DOMAIN cola' : g(j) = i
  <2> TAKE i \in DOMAIN cola \ {k}
  <2>1. CASE i < k
    <3>1. i \in DOMAIN cola' /\ g(i) = i
      BY <1>1, <1>3, <2>1
    <3> QED BY <3>1
  <2>2. CASE ~(i < k)
    <3>1. i - 1 \in DOMAIN cola' /\ g(i - 1) = i
      BY <1>1, <1>3, <2>2
    <3> QED BY <3>1
  <2> QED BY <2>1, <2>2
<1> HIDE DEF g
<1>7. UnaEntrada'
  BY <1>4, <1>5 DEF UnaEntrada
<1>8. ASSUME NEW p PROVE EnCola(p)' <=> EnCola(p) /\ p # cola[k].pid
  <2>1. ASSUME EnCola(p)' PROVE EnCola(p) /\ p # cola[k].pid
    <3>1. PICK j \in DOMAIN cola' : cola'[j].pid = p
      BY <2>1 DEF EnCola
    <3> QED BY <1>4, <3>1 DEF EnCola, UnaEntrada
  <2>2. ASSUME EnCola(p), p # cola[k].pid PROVE EnCola(p)'
    <3>1. PICK i \in DOMAIN cola : cola[i].pid = p
      BY <2>2 DEF EnCola
    <3>2. PICK j \in DOMAIN cola' : g(j) = i
      BY <1>6, <2>2, <3>1
    <3> QED BY <1>4, <3>1, <3>2 DEF EnCola
  <2> QED BY <2>1, <2>2
<1> QED BY <1>7, <1>8


\* A process that a step does not touch.
LEMMA LugarIgual ==
  ASSUME NEW p \in Pids, Lugar(p), entorno' = entorno, estado'[p] = estado[p],
         sys'[p].en = sys[p].en, EnCola(p)' <=> EnCola(p),
         \A d \in Dispositivos : Sirve(d, p)' <=> Sirve(d, p)
  PROVE  Lugar(p)'
<1> Llama(p)' <=> Llama(p)
  BY DEF Llama
<1> HIDE DEF EnCola, Sirve, Llama
<1> QED BY DEF Lugar

\* A process that a step takes out of BLOCKED, and its request with it.
LEMMA LugarSale ==
  ASSUME NEW p \in Pids, estado'[p] # "BLOCKED", ~EnCola(p)', ~Llama(p)',
         sys'[p].en # "bloquea", \A d \in Dispositivos : ~Sirve(d, p)'
  PROVE  Lugar(p)'
BY DEF Lugar

\* The pass is at an entry of the queue.
LEMMA EntradaDelBarrido ==
  ASSUME TiposCola, Vigente, barrido.en # "espera"
  PROVE  /\ barrido.i \in DOMAIN cola /\ barrido.x = cola[barrido.i]
         /\ cola[barrido.i] \in [pid : Pids, n : Nombres]
         /\ cola[barrido.i].pid \in Pids /\ EnCola(cola[barrido.i].pid)
         /\ SinEntrada(barrido.i) = RemoveAt(cola, barrido.i)
<1>1. barrido.i \in DOMAIN cola /\ barrido.x = cola[barrido.i] /\ DOMAIN cola = 1..Len(cola)
  BY LenProperties DEF TiposCola, Vigente
<1>2. cola[barrido.i] \in [pid : Pids, n : Nombres]
  BY <1>1, ElementOfSeq DEF TiposCola
<1> QED BY <1>1, <1>2 DEF EnCola, SinEntrada

\* Every step keeps it so, unless an entry is taken out under the pass.
LEMMA VigentePaso ==
  ASSUME TiposCola, Vigente, ~entorno.quita, [Next]_vars
  PROVE  Vigente'
<1> USE DEF procVars, colaVars, listaVars, devVars
<1>0. ASSUME UNCHANGED <<cola, barrido>> PROVE Vigente'
  BY <1>0 DEF Vigente
<1>a. ASSUME barrido'.en = "espera" PROVE Vigente'
  BY <1>a DEF Vigente
<1>b. ASSUME UNCHANGED cola, NEW i \in Nat \ {0}, barrido' = Sigue(i) PROVE Vigente'
  <2>1. CASE Sigue(i) = Quieto
    BY <1>a, <1>b, <2>1 DEF Quieto
  <2>2. CASE Sigue(i) = [en |-> "existe", i |-> i, x |-> cola[i]] /\ i \in DOMAIN cola
    <3>1. barrido'.i = i /\ barrido'.x = cola[i]
      BY <1>b, <2>2
    <3> QED BY <1>b, <2>2, <3>1 DEF Vigente
  <2> QED BY <2>1, <2>2, SigueTipo
<1>c. ASSUME barrido.en # "espera", UNCHANGED cola, NEW e, barrido' = [barrido EXCEPT !.en = e]
      PROVE  Vigente'
  <2>1. barrido'.i = barrido.i /\ barrido'.x = barrido.x
    BY <1>c, BarridoTipo
  <2> QED BY <1>c, <2>1 DEF Vigente
<1>1. CASE UNCHANGED vars
  BY <1>0, <1>1 DEF vars
<1>2. ASSUME NEW p, NEW n, SysComienzoIO(p, n) \/ exec_a_blocked(p) PROVE Vigente'
  BY <1>0, <1>2 DEF SysComienzoIO, exec_a_blocked
<1>3. ASSUME NEW p, agregar_a_cola_por_IO(p) PROVE Vigente'
  BY <1>a, <1>3 DEF agregar_a_cola_por_IO
<1>4. CASE BarridoDespierta
  BY <1>b, <1>4 DEF BarridoDespierta
<1>5. CASE BarridoExiste
  <2>1. barrido.en # "espera"
    BY <1>5 DEF BarridoExiste
  <2>2. \/ barrido' = Quieto
        \/ UNCHANGED cola /\ barrido' = [barrido EXCEPT !.en = "libre"]
    BY <1>5 DEF BarridoExiste
  <2> QED BY <1>a, <1>c, <2>1, <2>2 DEF Quieto
<1>6. CASE BarridoLibre
  <2>1. barrido.en # "espera" /\ UNCHANGED cola
    BY <1>6 DEF BarridoLibre
  <2>2. barrido.i + 1 \in Nat \ {0}
    BY <2>1, BarridoTipo
  <2>3. barrido' = [barrido EXCEPT !.en = "ocupa"] \/ barrido' = Sigue(barrido.i + 1)
    BY <1>6 DEF BarridoLibre
  <2> QED BY <1>b, <1>c, <2>1, <2>2, <2>3
<1>7. CASE BarridoOcupa
  BY <1>a, <1>7 DEF BarridoOcupa, Quieto
<1>8. ASSUME NEW d \in Dispositivos, ExpulsaDeLaCola(d) PROVE Vigente'
  <2>1. CASE EnColaPor(Nombre[d]) = {}
    BY <1>0, <1>8, <2>1 DEF ExpulsaDeLaCola
  <2>2. CASE EnColaPor(Nombre[d]) # {}
    <3>1. /\ barrido.en = "espera"
          /\ barrido' = barrido \/ barrido' = [barrido EXCEPT !.x = Basura]
      BY <1>8, <2>2 DEF ExpulsaDeLaCola, SinBarrido
    <3>2. barrido'.en = "espera"
      BY <3>1, BarridoTipo DEF Quieto
    <3> QED BY <1>a, <3>2
  <2> QED BY <2>1, <2>2
<1>9. ASSUME NEW d \in Dispositivos,
             \/ CreaHilo(d) \/ liberar_io(d) \/ SacaDispositivo(d) \/ AtiendeFin(d)
             \/ Desconecta(d) \/ Termina(d) \/ conectar_io(d) \/ SeCae(d)
      PROVE  Vigente'
  BY <1>0, <1>9 DEF CreaHilo, liberar_io, SacaDispositivo, AtiendeFin, Desconecta, Termina,
     conectar_io, SeCae
<1> QED BY <1>1, <1>2, <1>3, <1>4, <1>5, <1>6, <1>7, <1>8, <1>9
        DEF Next, Llamada, Barrido, HiloIO

\* A process in the queue that EXIT_PID ends, and is taken out of it.
LEMMA LugarSinEntrada ==
  ASSUME TiposProcesos, TiposCola, UnLugar, NEW k \in DOMAIN cola, cola' = RemoveAt(cola, k),
         EXIT_PID(cola[k].pid), UNCHANGED <<entorno, sys>>,
         \A p \in Pids, d \in Dispositivos : Sirve(d, p)' <=> Sirve(d, p)
  PROVE  UnLugar'
<1>a. PICK x : x = cola[k].pid
  OBVIOUS
<1>1. UnaEntrada' /\ \A p : EnCola(p)' <=> EnCola(p) /\ p # x
  BY <1>a, ColaSin DEF UnLugar
<1>2. \A q \in Pids : estado'[q] = IF q = x THEN "EXIT" ELSE estado[q]
  BY <1>a, ExitTipo DEF TiposProcesos
<1>3. EnCola(x)
  BY <1>a DEF EnCola
<1>4. ASSUME NEW p \in Pids PROVE Lugar(p)'
  <2>1. CASE p = x
    <3>1. estado[p] = "BLOCKED" /\ ~Llama(p) /\ sys[p].en # "bloquea"
          /\ \A d \in Dispositivos : ~Sirve(d, p)
      BY <1>3, <2>1 DEF UnLugar, Lugar
    <3>2. ~Llama(p)' /\ sys'[p].en # "bloquea"
      BY <3>1 DEF Llama
    <3> QED BY <1>1, <1>2, <2>1, <3>1, <3>2, LugarSale
  <2>2. CASE p # x
    BY <1>1, <1>2, <2>2, LugarIgual DEF UnLugar
  <2> QED BY <2>1, <2>2
<1> QED BY <1>1, <1>4 DEF UnLugar

\* A step of a device that neither takes a request nor ends one.
LEMMA LugarQuieto ==
  ASSUME UnLugar, UNCHANGED <<entorno, estado, sys, cola>>,
         \A p \in Pids, d \in Dispositivos : Sirve(d, p)' <=> Sirve(d, p)
  PROVE  UnLugar'
<1>1. UnaEntrada' /\ \A p : EnCola(p)' <=> EnCola(p)
  BY DEF UnLugar, UnaEntrada, EnCola
<1> QED BY <1>1, LugarIgual DEF UnLugar

\* The thread of the CPU: the request goes from nowhere to the call, and from
\* there to the queue.
LEMMA LugarLlamada ==
  ASSUME TiposProcesos, TiposCola, UnLugar, NEW p \in Pids, NEW n,
         SysComienzoIO(p, n) \/ Llamada(p)
  PROVE  UnLugar'
<1> USE DEF procVars, colaVars, listaVars, devVars
<1>0. \A q \in Pids, d \in Dispositivos : Sirve(d, q)' <=> Sirve(d, q)
  BY DEF SysComienzoIO, Llamada, exec_a_blocked, agregar_a_cola_por_IO, Sirve
<1>1. UNCHANGED entorno
  BY DEF SysComienzoIO, Llamada, exec_a_blocked, agregar_a_cola_por_IO
<1>2. ASSUME UNCHANGED cola, Lugar(p)',
             \A q \in Pids \ {p} : estado'[q] = estado[q] /\ sys'[q].en = sys[q].en
      PROVE  UnLugar'
  <2>1. UnaEntrada' /\ \A q : EnCola(q)' <=> EnCola(q)
    BY <1>2 DEF UnLugar, UnaEntrada, EnCola
  <2>2. \A q \in Pids \ {p} : Lugar(q)'
    BY <1>0, <1>1, <1>2, <2>1, LugarIgual DEF UnLugar
  <2> QED BY <1>2, <2>1, <2>2 DEF UnLugar
<1>3. CASE SysComienzoIO(p, n)
  <2>1. /\ estado[p] = "EXEC" /\ sys[p].en = "nada" /\ UNCHANGED cola
        /\ \/ sys' = [sys EXCEPT ![p] = [en |-> "bloquea", n |-> n]] /\ UNCHANGED estado
           \/ EXIT_PID(p) /\ UNCHANGED sys
    BY <1>3 DEF SysComienzoIO
  <2>2. ~EnCola(p) /\ \A d \in Dispositivos : ~Sirve(d, p)
    BY <2>1 DEF UnLugar, Lugar
  <2>3. ~EnCola(p)' /\ \A d \in Dispositivos : ~Sirve(d, p)'
    BY <1>0, <2>1, <2>2 DEF EnCola
  <2>4. /\ estado'[p] \in {"EXEC", "EXIT"} /\ sys'[p].en \in {"nada", "bloquea"}
        /\ sys'[p].en = "bloquea" => estado'[p] = "EXEC"
        /\ \A q \in Pids \ {p} : estado'[q] = estado[q] /\ sys'[q].en = sys[q].en
    BY <2>1, ExitTipo DEF TiposProcesos
  <2>5. Lugar(p)'
    BY <2>3, <2>4 DEF Lugar, Llama
  <2> QED BY <1>2, <2>1, <2>4, <2>5
<1>4. CASE exec_a_blocked(p)
  <2>1. /\ sys[p].en = "bloquea" /\ UNCHANGED cola
        /\ estado' = [estado EXCEPT ![p] = IF @ = "EXEC" THEN "BLOCKED" ELSE @]
        /\ sys' = [sys EXCEPT ![p].en = "encola"]
    BY <1>4 DEF exec_a_blocked
  <2>2. estado[p] = "EXEC" /\ ~EnCola(p) /\ \A d \in Dispositivos : ~Sirve(d, p)
    BY <2>1 DEF UnLugar, Lugar
  <2>3. ~EnCola(p)' /\ \A d \in Dispositivos : ~Sirve(d, p)'
    BY <1>0, <2>1, <2>2 DEF EnCola
  <2>4. /\ estado'[p] = "BLOCKED" /\ sys'[p].en = "encola"
        /\ \A q \in Pids \ {p} : estado'[q] = estado[q] /\ sys'[q].en = sys[q].en
    BY <2>1, <2>2 DEF TiposProcesos
  <2>5. Lugar(p)'
    BY <2>3, <2>4 DEF Lugar, Llama
  <2> QED BY <1>2, <2>1, <2>4, <2>5
<1>5. CASE agregar_a_cola_por_IO(p)
  <2>a. PICK x : x = [pid |-> p, n |-> sys[p].n]
    OBVIOUS
  <2>1. /\ sys[p].en = "encola" /\ cola' = Append(cola, x) /\ sys' = SinLlamada(p)
        /\ UNCHANGED estado /\ x.pid = p
    BY <1>5, <2>a DEF agregar_a_cola_por_IO
  <2>2. x \in [pid : Pids, n : Nombres]
    BY <2>1, <2>a DEF TiposProcesos, NombresOK
  <2>3. /\ Len(cola') = Len(cola) + 1 /\ Len(cola) \in Nat
        /\ DOMAIN cola' = 1..(Len(cola) + 1) /\ DOMAIN cola = 1..Len(cola)
        /\ \A i \in 1..Len(cola) : cola'[i] = cola[i]
        /\ cola'[Len(cola) + 1] = x
    <3>1. cola \in Seq([pid : Pids, n : Nombres])
      BY DEF TiposCola
    <3> QED BY <2>1, <2>2, <3>1, AppendProperties, LenProperties
  <2>4. \A q : EnCola(q)' <=> EnCola(q) \/ q = p
    BY <2>1, <2>3 DEF EnCola
  <2>5. ~EnCola(p) /\ estado[p] = "BLOCKED" /\ \A d \in Dispositivos : ~Sirve(d, p)
    BY <2>1 DEF UnLugar, Lugar, Llama
  <2>6. UnaEntrada'
    BY <2>1, <2>3, <2>5 DEF UnLugar, UnaEntrada, EnCola
  <2>7. sys'[p].en = "nada" /\ \A q \in Pids \ {p} : sys'[q].en = sys[q].en
    BY <2>1 DEF TiposProcesos, SinLlamada
  <2>8. Lugar(p)'
    BY <1>0, <2>1, <2>4, <2>5, <2>7 DEF Lugar, Llama
  <2>9. \A q \in Pids \ {p} : Lugar(q)'
    BY <1>0, <1>1, <2>1, <2>4, <2>7, LugarIgual DEF UnLugar
  <2> QED BY <2>6, <2>8, <2>9 DEF UnLugar
<1> QED BY <1>3, <1>4, <1>5 DEF Llamada

\* ocupar_io: the request goes from the queue to the device that is free. Only a
\* device that went in the middle of the pass leaves it without one.
LEMMA LugarOcupa ==
  ASSUME TiposCola, TiposLista, TiposDev, Charlas, UnLugar, Vigente, Tranquilo, BarridoOcupa
  PROVE  UnLugar'
<1> USE DEF procVars
<1>a. PICK k : k = barrido.i
  OBVIOUS
<1>b. PICK x : x = cola[k].pid
  OBVIOUS
<1>c. PICK d : d = Primero(cola[k].n)
  OBVIOUS
<1>0. barrido.en = "ocupa" /\ barrido.x = cola[k] /\ SinEntrada(k) = RemoveAt(cola, k)
  BY <1>a, EntradaDelBarrido DEF BarridoOcupa
<1>1. /\ barrido.en = "ocupa" /\ mutex_ios = Nadie /\ cola' = RemoveAt(cola, k)
      /\ UNCHANGED <<entorno, estado, sys, hilo>>
      /\ proceso' = IF d = Nadie THEN proceso ELSE [proceso EXCEPT ![d] = x]
  BY <1>0, <1>a, <1>b, <1>c DEF BarridoOcupa
<1>2. k \in DOMAIN cola /\ x \in Pids /\ EnCola(x) /\ Nadie \notin Pids /\ Nadie \notin Dispositivos
  BY <1>1, <1>a, <1>b, EntradaDelBarrido, Constantes
<1>3. UnaEntrada' /\ \A p : EnCola(p)' <=> EnCola(p) /\ p # x
  BY <1>1, <1>2, <1>b, ColaSin DEF UnLugar
<1>4. ~Llama(x) /\ estado[x] = "BLOCKED" /\ sys[x].en # "bloquea"
      /\ \A e \in Dispositivos : ~Sirve(e, x)
  BY <1>2 DEF UnLugar, Lugar
<1>5. \/ d = Nadie /\ ~hay_alguno_libre_io(cola[k].n)
      \/ d \in Range(lista_IO) /\ d \in Dispositivos /\ proceso[d] = Nadie
  BY <1>c, PrimeroEs
<1>6. CASE d = Nadie
  <2>1. entorno.carrera
    BY <1>0, <1>2, <1>5, <1>6 DEF Tranquilo
  <2>2. \A p \in Pids, e \in Dispositivos : Sirve(e, p)' <=> Sirve(e, p)
    BY <1>1, <1>6 DEF Sirve
  <2>3. Lugar(x)'
    <3>1. ~EnCola(x)' /\ ~Llama(x)' /\ sys'[x].en # "bloquea" /\ entorno'.carrera
          /\ \A e \in Dispositivos : ~Sirve(e, x)'
      BY <1>1, <1>2, <1>3, <1>4, <2>1, <2>2 DEF Llama
    <3> QED BY <3>1 DEF Lugar
  <2>4. \A p \in Pids \ {x} : Lugar(p)'
    BY <1>1, <1>3, <2>2, LugarIgual DEF UnLugar
  <2> QED BY <1>3, <2>3, <2>4 DEF UnLugar
<1>7. CASE d # Nadie
  <2>1. d \in Dispositivos /\ proceso[d] = Nadie /\ hilo[d] \in {"acepta", "espera"}
    <3>1. d \in Dispositivos /\ proceso[d] = Nadie /\ hilo[d] \notin {"fin", "saca", "expulsa"}
      BY <1>1, <1>2, <1>5, <1>7 DEF Charlas, Lista
    <3> QED BY <3>1 DEF Charlas, Charla
  <2>2. proceso'[d] = x /\ \A e \in Dispositivos : e # d => proceso'[e] = proceso[e]
    BY <1>1, <1>7, <2>1 DEF TiposLista
  <2>3. \A e \in Dispositivos : Sirve(e, x)' <=> e = d
    BY <1>1, <1>4, <2>1, <2>2 DEF Sirve
  <2>4. \A p \in Pids \ {x}, e \in Dispositivos : Sirve(e, p)' <=> Sirve(e, p)
    BY <1>1, <1>2, <2>1, <2>2 DEF Sirve
  <2>5. Lugar(x)'
    <3>1. ~EnCola(x)' /\ ~Llama(x)' /\ sys'[x].en # "bloquea" /\ estado'[x] = "BLOCKED"
      BY <1>1, <1>3, <1>4 DEF Llama
    <3> QED BY <2>1, <2>3, <3>1 DEF Lugar
  <2>6. \A p \in Pids \ {x} : Lugar(p)'
    BY <1>1, <1>3, <2>4, LugarIgual DEF UnLugar
  <2> QED BY <1>3, <2>5, <2>6 DEF UnLugar
<1> QED BY <1>6, <1>7

\* The request of the process noted in a device ends with it: FIN_IO wakes it, or
\* the end of the connection sends it to EXIT.
LEMMA LugarTermina ==
  ASSUME TiposProcesos, TiposLista, TiposDev, Charlas, UnLugar, NEW d \in Dispositivos,
         AtiendeFin(d) \/ Desconecta(d)
  PROVE  UnLugar'
<1> USE DEF procVars, colaVars, listaVars, devVars
<1>a. PICK x : x = proceso[d]
  OBVIOUS
<1>1. hilo[d] = "espera" /\ UNCHANGED <<entorno, sys, cola, proceso>>
  BY DEF AtiendeFin, Desconecta
<1>2. /\ hilo'[d] \in {"libera", "saca", "expulsa"}
      /\ \A e \in Dispositivos : e # d => hilo'[e] = hilo[e]
  BY DEF AtiendeFin, Desconecta, TiposDev
<1>3. /\ x \in Pids => estado'[x] # "BLOCKED"
      /\ \A q \in Pids \ {x} : estado'[q] = estado[q]
  <2>1. CASE AtiendeFin(d)
    <3>1. Head(deDev[d]) = x
      <4>1. deDev[d] # <<>> /\ Head(deDev[d]) # Nadie
        BY <2>1 DEF AtiendeFin
      <4>2. deDev[d] \in {<<>>, <<x>>, <<Nadie>>, <<x, Nadie>>}
        BY <1>a DEF Charlas, Charla
      <4>3. Head(<<x>>) = x /\ Head(<<Nadie>>) = Nadie /\ Head(<<x, Nadie>>) = x
        BY Cortas, Zenon
      <4> QED BY <4>1, <4>2, <4>3
    <3>2. estado' = [p \in Pids |-> IF p = Head(deDev[d]) /\ estado[p] = "BLOCKED"
                                    THEN "EXEC" ELSE estado[p]]
      BY <2>1 DEF AtiendeFin
    <3> QED BY <3>1, <3>2
  <2>2. CASE Desconecta(d)
    BY <1>a, <2>2, ExitTipo DEF Desconecta, TiposProcesos
  <2> QED BY <2>1, <2>2
<1>4. UnaEntrada' /\ \A p : EnCola(p)' <=> EnCola(p)
  BY <1>1 DEF UnLugar, UnaEntrada, EnCola
<1>5. ASSUME NEW p \in Pids PROVE Lugar(p)'
  <2>1. CASE p = x
    <3>1. Sirve(d, p)
      BY <1>1, <1>a, <2>1 DEF Sirve
    <3>2. /\ ~EnCola(p) /\ ~Llama(p) /\ sys[p].en # "bloquea"
          /\ \A e \in Dispositivos : Sirve(e, p) => e = d
      BY <2>1, <3>1 DEF UnLugar, Lugar
    <3>3. \A e \in Dispositivos : ~Sirve(e, p)'
      BY <1>1, <1>2, <3>2 DEF Sirve
    <3>4. ~Llama(p)' /\ ~EnCola(p)' /\ sys'[p].en # "bloquea"
      BY <1>1, <1>4, <3>2 DEF Llama
    <3> QED BY <1>3, <2>1, <3>3, <3>4, LugarSale
  <2>2. CASE p # x
    <3>1. \A e \in Dispositivos : Sirve(e, p)' <=> Sirve(e, p)
      BY <1>1, <1>2, <1>a, <2>2 DEF Sirve
    <3> QED BY <1>1, <1>3, <1>4, <2>2, <3>1, LugarIgual DEF UnLugar
  <2> QED BY <2>1, <2>2
<1> QED BY <1>4, <1>5 DEF UnLugar

\* The other steps of a device and of its thread.
LEMMA LugarDispositivo ==
  ASSUME TiposProcesos, TiposCola, TiposLista, TiposDev, Charlas, UnLugar,
         NEW d \in Dispositivos,
         \/ CreaHilo(d) \/ liberar_io(d) \/ SacaDispositivo(d) \/ ExpulsaDeLaCola(d)
         \/ Termina(d) \/ conectar_io(d) \/ SeCae(d)
  PROVE  UnLugar'
<1> USE DEF procVars, colaVars, listaVars, devVars
<1>1. \A p \in Pids, e \in Dispositivos : Sirve(e, p)' <=> Sirve(e, p)
  <2> SUFFICES ASSUME NEW p \in Pids, NEW e \in Dispositivos PROVE Sirve(e, p)' <=> Sirve(e, p)
    OBVIOUS
  <2>0. p # Nadie
    BY Constantes
  <2>1. CASE CreaHilo(d)
    BY <2>1 DEF CreaHilo, Sirve, TiposDev
  <2>2. CASE liberar_io(d)
    BY <2>0, <2>2 DEF liberar_io, Sirve, TiposDev, TiposLista
  <2>3. CASE SacaDispositivo(d)
    BY <2>0, <2>3 DEF SacaDispositivo, Sirve, TiposDev, TiposLista
  <2>4. CASE ExpulsaDeLaCola(d)
    BY <2>4 DEF ExpulsaDeLaCola, Sirve, TiposDev
  <2>5. CASE Termina(d) \/ SeCae(d)
    BY <2>5 DEF Termina, SeCae, Sirve
  <2>6. CASE conectar_io(d)
    <3>1. conexion[d] = "fuera" /\ hilo' = [hilo EXCEPT ![d] = "acepta"] /\ UNCHANGED proceso
      BY <2>6 DEF conectar_io
    <3>2. proceso[d] = Nadie
      BY <3>1 DEF Charlas, Charla
    <3> QED BY <2>0, <3>1, <3>2 DEF Sirve, TiposDev
  <2> QED BY <2>1, <2>2, <2>3, <2>4, <2>5, <2>6
<1>2. CASE CreaHilo(d) \/ liberar_io(d) \/ SacaDispositivo(d) \/ Termina(d) \/ conectar_io(d) \/ SeCae(d)
  <2>1. UNCHANGED <<entorno, estado, sys, cola>>
    BY <1>2 DEF CreaHilo, liberar_io, SacaDispositivo, Termina, conectar_io, SeCae
  <2> QED BY <1>1, <2>1, LugarQuieto
<1>3. CASE ExpulsaDeLaCola(d)
  <2>a. PICK X : X = EnColaPor(Nombre[d])
    OBVIOUS
  <2>1. /\ UNCHANGED <<entorno, sys>>
        /\ IF X = {} THEN UNCHANGED <<cola, estado>>
           ELSE EXIT_PID(cola[Min(X)].pid) /\ cola' = RemoveAt(cola, Min(X))
    BY <1>3, <2>a DEF ExpulsaDeLaCola
  <2>2. CASE X = {}
    BY <1>1, <2>1, <2>2, LugarQuieto
  <2>3. CASE X # {}
    <3>1. X \subseteq DOMAIN cola /\ X \in SUBSET Nat
      BY <2>a, LenProperties DEF EnColaPor, TiposCola
    <3>b. PICK k : k = Min(X)
      OBVIOUS
    <3>2. k \in DOMAIN cola /\ EXIT_PID(cola[k].pid) /\ cola' = RemoveAt(cola, k)
      BY <2>1, <2>3, <3>1, <3>b, MinEsta
    <3> QED BY <1>1, <2>1, <3>2, LugarSinEntrada
  <2> QED BY <2>2, <2>3
<1> QED BY <1>2, <1>3

\* Every step keeps each request in one place.
LEMMA LugarPaso ==
  ASSUME TiposProcesos, TiposCola, TiposLista, TiposDev, Charlas, UnLugar, Vigente, Tranquilo,
         [Next]_vars
  PROVE  UnLugar'
<1> USE DEF procVars, colaVars, listaVars, devVars
<1>1. CASE UNCHANGED vars
  <2>1. \A p \in Pids, d \in Dispositivos : Sirve(d, p)' <=> Sirve(d, p)
    BY <1>1 DEF vars, Sirve
  <2> QED BY <1>1, <2>1, LugarQuieto DEF vars
<1>2. CASE BarridoDespierta \/ BarridoLibre
  <2>1. \A p \in Pids, d \in Dispositivos : Sirve(d, p)' <=> Sirve(d, p)
    BY <1>2 DEF BarridoDespierta, BarridoLibre, Sirve
  <2> QED BY <1>2, <2>1, LugarQuieto DEF BarridoDespierta, BarridoLibre
<1>3. CASE BarridoExiste
  <2>1. \A p \in Pids, d \in Dispositivos : Sirve(d, p)' <=> Sirve(d, p)
    BY <1>3 DEF BarridoExiste, Sirve
  <2>a. PICK k : k = barrido.i
    OBVIOUS
  <2>2. /\ barrido.en = "existe" /\ UNCHANGED <<entorno, sys>>
        /\ \/ UNCHANGED <<estado, cola>>
           \/ EXIT_PID(barrido.x.pid) /\ cola' = SinEntrada(k)
    BY <1>3, <2>a DEF BarridoExiste
  <2>3. k \in DOMAIN cola /\ barrido.x = cola[k] /\ SinEntrada(k) = RemoveAt(cola, k)
    BY <2>2, <2>a, EntradaDelBarrido
  <2>4. CASE UNCHANGED <<estado, cola>>
    BY <2>1, <2>2, <2>4, LugarQuieto
  <2>5. CASE EXIT_PID(cola[k].pid) /\ cola' = RemoveAt(cola, k)
    BY <2>1, <2>2, <2>3, <2>5, LugarSinEntrada
  <2> QED BY <2>2, <2>3, <2>4, <2>5
<1> QED BY <1>1, <1>2, <1>3, LugarLlamada, LugarOcupa, LugarTermina, LugarDispositivo
        DEF Next, Barrido, HiloIO

-----------------------------------------------------------------------------
(* The pass and the end of a device.                                        *)

\* The pass is nowhere, or at an entry it has not found a device for yet.
LEMMA TranquiloSinOcupar ==
  ASSUME Tranquilo, UNCHANGED entorno, barrido'.en # "ocupa",
         ~entorno.carrera /\ mutex_ios' # Nadie => barrido'.en = "espera"
  PROVE  Tranquilo'
BY DEF Tranquilo

\* The pass and the mutex do not move, and a device that was free still is.
LEMMA TranquiloIgual ==
  ASSUME Tranquilo, UNCHANGED <<entorno, mutex_ios, barrido>>,
         \A n : hay_alguno_libre_io(n) => hay_alguno_libre_io(n)'
  PROVE  Tranquilo'
<1>1. PICK n : n = barrido.x.n
  OBVIOUS
<1>2. barrido'.x.n = n
  BY <1>1
<1>3. CASE entorno.carrera
  BY <1>3 DEF Tranquilo
<1>4. CASE ~entorno.carrera
  <2>1. /\ mutex_ios' # Nadie => barrido'.en = "espera"
        /\ barrido'.en = "ocupa" => hay_alguno_libre_io(n)'
    BY <1>1, <1>4 DEF Tranquilo
  <2>2. hay_alguno_libre_io(n)' => hay_alguno_libre_io(barrido.x.n)'
    BY <1>2 DEF hay_alguno_libre_io, Llamado
  <2> QED BY <2>1, <2>2 DEF Tranquilo
<1> QED BY <1>3, <1>4

\* Every step keeps them apart.
LEMMA TranquiloPaso ==
  ASSUME TiposProcesos, TiposCola, TiposLista, TiposDev, Charlas, Tranquilo, [Next]_vars
  PROVE  Tranquilo'
<1> USE DEF procVars, colaVars, listaVars, devVars
<1>q. ~entorno.carrera => ~entorno.quita
  BY Constantes DEF TiposProcesos
<1>0. ASSUME UNCHANGED <<entorno, mutex_ios, barrido, lista_IO, proceso>> PROVE Tranquilo'
  <2>1. \A n : hay_alguno_libre_io(n) => hay_alguno_libre_io(n)'
    BY <1>0 DEF hay_alguno_libre_io, Llamado
  <2> QED BY <1>0, <2>1, TranquiloIgual
<1>1. CASE UNCHANGED vars
  BY <1>0, <1>1 DEF vars
<1>2. ASSUME NEW p, NEW n, SysComienzoIO(p, n) \/ exec_a_blocked(p) PROVE Tranquilo'
  BY <1>0, <1>2 DEF SysComienzoIO, exec_a_blocked
<1>3. ASSUME NEW p, agregar_a_cola_por_IO(p) PROVE Tranquilo'
  BY <1>3, TranquiloSinOcupar DEF agregar_a_cola_por_IO
<1>4. ASSUME NEW d, Termina(d) \/ SeCae(d) \/ AtiendeFin(d) \/ CreaHilo(d) PROVE Tranquilo'
  BY <1>0, <1>4 DEF Termina, SeCae, AtiendeFin, CreaHilo
<1>5. \A i : Sigue(i).en # "ocupa"
  BY DEF Sigue, Quieto
<1>6. CASE BarridoDespierta
  BY <1>5, <1>6, <1>q, TranquiloSinOcupar DEF BarridoDespierta
<1>7. CASE BarridoExiste
  <2>1. barrido'.en # "ocupa"
    BY <1>7, BarridoTipo DEF BarridoExiste, Quieto
  <2> QED BY <1>7, <2>1, TranquiloSinOcupar DEF BarridoExiste
<1>8. CASE BarridoLibre
  <2>1. /\ mutex_ios = Nadie /\ UNCHANGED <<entorno, mutex_ios, lista_IO, proceso>>
        /\ barrido.en = "libre"
    BY <1>8 DEF BarridoLibre
  <2>2. CASE hay_alguno_libre_io(barrido.x.n)
    <3>1. barrido' = [barrido EXCEPT !.en = "ocupa"]
      BY <1>8, <2>2 DEF BarridoLibre
    <3>2. barrido'.x = barrido.x
      BY <2>1, <3>1, BarridoTipo
    <3>3. hay_alguno_libre_io(barrido.x.n)'
      BY <2>1, <2>2, <3>2 DEF hay_alguno_libre_io, Llamado
    <3> QED BY <2>1, <3>3 DEF Tranquilo
  <2>3. CASE ~hay_alguno_libre_io(barrido.x.n)
    BY <1>5, <1>8, <2>1, <2>3, TranquiloSinOcupar DEF BarridoLibre
  <2> QED BY <2>2, <2>3
<1>9. CASE BarridoOcupa
  BY <1>9, TranquiloSinOcupar DEF BarridoOcupa, Quieto
<1>10. ASSUME NEW d \in Dispositivos, conectar_io(d) PROVE Tranquilo'
  <2>1. lista_IO' = Append(lista_IO, d) /\ UNCHANGED <<entorno, proceso, mutex_ios, barrido, cola>>
    BY <1>10 DEF conectar_io
  <2>2. Range(lista_IO') = Range(lista_IO) \cup {d}
    BY <2>1, AppendPropiedades DEF TiposLista
  <2>3. \A n : hay_alguno_libre_io(n) => hay_alguno_libre_io(n)'
    BY <2>1, <2>2 DEF hay_alguno_libre_io, Llamado
  <2> QED BY <2>1, <2>3, TranquiloIgual
<1>11. ASSUME NEW d \in Dispositivos, liberar_io(d) PROVE Tranquilo'
  <2>1. /\ proceso' = [proceso EXCEPT ![d] = Nadie]
        /\ UNCHANGED <<entorno, lista_IO, mutex_ios, barrido, cola>>
    BY <1>11 DEF liberar_io
  <2>2. \A e : proceso[e] = Nadie /\ e \in Range(lista_IO) => proceso'[e] = Nadie
    <3>1. \A e \in Range(lista_IO) : e \in Dispositivos
      BY ElementOfSeq, LenProperties DEF TiposLista, Range
    <3> QED BY <2>1, <3>1 DEF TiposLista
  <2>3. \A n : hay_alguno_libre_io(n) => hay_alguno_libre_io(n)'
    BY <2>1, <2>2 DEF hay_alguno_libre_io, Llamado
  <2> QED BY <2>1, <2>3, TranquiloIgual
<1>12. ASSUME NEW d \in Dispositivos, Desconecta(d) PROVE Tranquilo'
  <2>1. UNCHANGED <<entorno, barrido>> /\ (barrido.en = "espera" \/ entorno.carrera)
    BY <1>12, <1>q DEF Desconecta, SinBarrido
  <2> QED BY <2>1 DEF Tranquilo
<1>13. ASSUME NEW d \in Dispositivos, ExpulsaDeLaCola(d) PROVE Tranquilo'
  <2>1. hilo[d] = "expulsa" /\ UNCHANGED entorno
        /\ (barrido' = barrido \/ barrido' = [barrido EXCEPT !.x = Basura])
    BY <1>13 DEF ExpulsaDeLaCola
  <2>2. mutex_ios # Nadie
    BY <2>1, Constantes DEF Charlas, Lista
  <2>3. CASE entorno.carrera
    BY <2>1, <2>3 DEF Tranquilo
  <2>4. CASE ~entorno.carrera
    <3>1. barrido.en = "espera"
      BY <2>2, <2>4 DEF Tranquilo
    <3>2. barrido'.en = "espera"
      BY <2>1, <3>1, BarridoTipo DEF Quieto
    <3> QED BY <2>1, <3>2 DEF Tranquilo
  <2> QED BY <2>3, <2>4
<1>14. ASSUME NEW d \in Dispositivos, SacaDispositivo(d) PROVE Tranquilo'
  <2>1. UNCHANGED <<entorno, barrido>> /\ mutex_ios' = Nadie /\ hilo[d] = "saca"
    BY <1>14 DEF SacaDispositivo
  <2>2. mutex_ios = d /\ d # Nadie
    BY <2>1, Constantes DEF Charlas, Lista
  <2> QED BY <2>1, <2>2 DEF Tranquilo
<1> QED BY <1>1, <1>2, <1>3, <1>4, <1>6, <1>7, <1>8, <1>9, <1>10, <1>11, <1>12, <1>13, <1>14
        DEF Next, Llamada, Barrido, HiloIO

-----------------------------------------------------------------------------
(* The inductive invariant holds.                                           *)

\* At the start the devices of the environment are connected and free, and
\* nobody has asked for anything.
LEMMA InvInicial == ASSUME Init PROVE IInv
<1>1. entorno \in Entornos /\ entorno.estan \in Seq(Dispositivos) /\ IsInjective(entorno.estan)
  BY Constantes DEF Init
<1>2. TiposProcesos
  BY <1>1, Constantes DEF Init, TiposProcesos, NombresOK
<1>3. TiposCola
  BY DEF Init, TiposCola
<1>4. TiposLista
  BY <1>1 DEF Init, TiposLista
<1>5. TiposDev
  BY DEF Init, TiposDev
<1>6. Charlas
  <2> SUFFICES ASSUME NEW d \in Dispositivos PROVE Charla(d) /\ Lista(d)
    BY DEF Charlas
  <2>1. Contains(entorno.estan, d) <=> d \in Range(lista_IO)
    BY <1>1, LenProperties DEF Init, Contains, Range
  <2>2. Charla(d)
    BY DEF Init, Charla
  <2>3. Lista(d)
    BY <2>1, Constantes DEF Init, Lista
  <2> QED BY <2>2, <2>3
<1>7. UnLugar
  <2>1. cola = <<>> /\ DOMAIN cola = {}
    BY LenProperties DEF Init
  <2>2. \A p \in Pids : /\ sys[p].en = "nada" /\ estado[p] = "EXEC"
                        /\ \A d \in Dispositivos : ~Sirve(d, p)
    BY Constantes DEF Init, Sirve
  <2> QED BY <2>1, <2>2 DEF UnLugar, UnaEntrada, Lugar, EnCola, Llama
<1>8. Tranquilo /\ Vigente
  BY DEF Init, Tranquilo, Vigente, Quieto
<1> QED BY <1>2, <1>3, <1>4, <1>5, <1>6, <1>7, <1>8, TiposPartes DEF IInv

\* The environment is fixed.
LEMMA EntornoFijo == ASSUME [Next]_vars PROVE entorno' = entorno
BY DEF Next, vars, Llamada, Barrido, HiloIO, SysComienzoIO, exec_a_blocked,
   agregar_a_cola_por_IO, BarridoDespierta, BarridoExiste, BarridoLibre, BarridoOcupa,
   conectar_io, CreaHilo, Termina, SeCae, AtiendeFin, liberar_io, Desconecta,
   ExpulsaDeLaCola, SacaDispositivo

\* Every step keeps it.
LEMMA InvPaso == ASSUME IInv, [Next]_vars PROVE IInv'
<1>1. TiposProcesos /\ TiposCola /\ TiposLista /\ TiposDev
  BY TiposPartes DEF IInv
<1>2. Charlas /\ Tranquilo
  BY DEF IInv
<1>3. TiposProcesos' /\ TiposCola' /\ TiposLista' /\ TiposDev'
  BY <1>1, <1>2, TipoProcesos, TipoCola, TipoLista, TipoDev
<1>4. Charlas' /\ Tranquilo'
  BY <1>1, <1>2, CharlaPaso, TranquiloPaso
<1>5. ASSUME ~entorno'.quita PROVE UnLugar' /\ Vigente'
  <2>1. ~entorno.quita
    BY <1>5, EntornoFijo
  <2>2. UnLugar /\ Vigente
    BY <2>1 DEF IInv
  <2> QED BY <1>1, <1>2, <2>1, <2>2, LugarPaso, VigentePaso
<1> QED BY <1>3, <1>4, <1>5, TiposPartes DEF IInv

\* Types, the conversation with each device and the order of the pass and of the
\* ends hold in every reachable state; the place of each request too, where no
\* entry is taken out of the queue under the pass.
THEOREM Invariante == Spec => []IInv
<1>1. Init => IInv
  BY InvInicial
<1>2. IInv /\ [Next]_vars => IInv'
  BY InvPaso
<1> QED BY <1>1, <1>2, PTL DEF Spec

-----------------------------------------------------------------------------
(* What follows from it.                                                    *)

\* What a device has of the kernel, by what its two sockets hold.
LEMMA EnCursoEs ==
  ASSUME NEW d, NEW p, p # Nadie
  PROVE  /\ aDev[d] = <<>> /\ deDev[d] = <<>> => EnCurso(d) = <<>>
         /\ aDev[d] = <<p>> /\ deDev[d] = <<>> => EnCurso(d) = <<p>>
         /\ aDev[d] = <<>> /\ deDev[d] = <<p>> => EnCurso(d) = <<p>>
         /\ aDev[d] = <<>> /\ deDev[d] = <<Nadie>> => EnCurso(d) = <<>>
         /\ aDev[d] = <<>> /\ deDev[d] = <<p, Nadie>> => EnCurso(d) = <<p>>
<1> DEFINE S == {p, Nadie}
<1>1. <<>> \o <<>> = <<>> /\ <<p>> \o <<>> = <<p>> /\ <<>> \o <<p>> = <<p>>
  <2>1. <<>> \in Seq(S) /\ <<p>> \in Seq(S)
    OBVIOUS
  <2> HIDE DEF S
  <2> QED BY <2>1, ConcatEmptySeq
<1>2. <<p>> # <<>> /\ <<Nadie>> # <<>> /\ <<p, Nadie>> # <<>>
  OBVIOUS
<1>3. Last(<<p>>) = p /\ Last(<<Nadie>>) = Nadie /\ Last(<<p, Nadie>>) = Nadie
  BY DEF Last
<1>4. Front(<<Nadie>>) = <<>> /\ Front(<<p, Nadie>>) = <<p>>
  <2>1. SubSeq(<<Nadie>>, 1, 0) = <<>>
    <3>1. <<Nadie>> \in Seq(S)
      OBVIOUS
    <3> QED BY <3>1, SubSeqEmpty
  <2>2. SubSeq(<<p, Nadie>>, 1, 1) = <<p>>
    <3>1. <<p, Nadie>> \in Seq(S) /\ Len(<<p, Nadie>>) = 2 /\ <<p, Nadie>>[1] = p
      OBVIOUS
    <3>a. PICK s : s = <<p, Nadie>>
      OBVIOUS
    <3>2. s \in Seq(S) /\ Len(s) = 2 /\ s[1] = p
      BY <3>1, <3>a
    <3>3. /\ SubSeq(s, 1, 1) \in Seq(S) /\ Len(SubSeq(s, 1, 1)) = 1
          /\ SubSeq(s, 1, 1)[1] = p
      BY <3>2, SubSeqProperties
    <3>4. \A t \in Seq(S) : Len(t) = 1 /\ t[1] = p => t = <<p>>
      OBVIOUS
    <3> QED BY <3>3, <3>4, <3>a
  <2> QED BY <2>1, <2>2 DEF Front
<1>5. /\ deDev[d] = <<>> => Fines(d) = <<>>
      /\ deDev[d] = <<p>> => Fines(d) = <<p>>
      /\ deDev[d] = <<Nadie>> => Fines(d) = <<>>
      /\ deDev[d] = <<p, Nadie>> => Fines(d) = <<p>>
  BY <1>2, <1>3, <1>4, Zenon DEF Fines
<1> QED BY <1>1, <1>5, Zenon DEF EnCurso

\* A device has the request of the process noted in it, or none; a process is
\* served in a device exactly when it has, or had when it went, its request.
LEMMA EnCursoSirve ==
  ASSUME TiposLista, Charlas, NEW d \in Dispositivos
  PROVE  /\ EnCurso(d) \in {<<>>, <<proceso[d]>>}
         /\ conexion[d] = "viva" /\ EnCurso(d) = <<>> /\ proceso[d] # Nadie
              => hilo[d] = "libera"
         /\ \A p \in Pids : Contains(EnCurso(d), p) \/ Cortado(d, p) <=> Sirve(d, p)
<1>a. PICK q : q = proceso[d]
  OBVIOUS
<1>b. PICK c : c = EnCurso(d)
  OBVIOUS
<1>0. <<q>> # <<>> /\ <<q, Nadie>> # <<Nadie>> /\ <<>> # <<Nadie>>
  OBVIOUS
<1>1. q \in Pids \cup {Nadie} /\ Nadie \notin Pids /\ Charla(d)
  BY <1>a, Constantes DEF TiposLista, Charlas
<1>2. \A p : ~Contains(<<>>, p)
  BY DEF Contains
<1>3. \A p : Contains(<<q>>, p) <=> p = q
  BY DEF Contains
<1>4. \/ /\ c = <<>> /\ q = Nadie /\ deDev[d] # <<Nadie>>
      \/ /\ c = <<>> /\ hilo[d] = "libera"
      \/ /\ c = <<>> /\ conexion[d] = "caida" /\ hilo[d] \in {"acepta", "espera"}
         /\ deDev[d] = <<Nadie>>
      \/ /\ c = <<>> /\ conexion[d] = "caida" /\ hilo[d] \in {"saca", "expulsa", "fin"}
      \/ /\ c = <<q>> /\ q # Nadie /\ hilo[d] \in {"acepta", "espera"} /\ deDev[d] # <<Nadie>>
  <2>1. /\ aDev[d] = <<>> /\ deDev[d] = <<>> => c = <<>>
        /\ aDev[d] = <<>> /\ deDev[d] = <<Nadie>> => c = <<>>
    BY <1>1, <1>b, EnCursoEs, Constantes
  <2>2. q # Nadie => /\ aDev[d] = <<q>> /\ deDev[d] = <<>> => c = <<q>>
                     /\ aDev[d] = <<>> /\ deDev[d] = <<q>> => c = <<q>>
                     /\ aDev[d] = <<>> /\ deDev[d] = <<q, Nadie>> => c = <<q>>
    BY <1>b, EnCursoEs
  <2>3. q # Nadie => <<q>> # <<Nadie>>
    OBVIOUS
  <2> HIDE DEF EnCurso
  <2> QED BY <1>0, <1>1, <1>a, <2>1, <2>2, <2>3 DEF Charla
<1>5. \A p \in Pids : Contains(c, p) \/ Cortado(d, p) <=> Sirve(d, p)
  <2> SUFFICES ASSUME NEW p \in Pids PROVE Contains(c, p) \/ Cortado(d, p) <=> Sirve(d, p)
    OBVIOUS
  <2> HIDE DEF Contains
  <2>1. p # Nadie
    BY <1>1
  <2> QED BY <1>a, <1>2, <1>3, <1>4, <2>1 DEF Cortado, Sirve
<1> QED BY <1>0, <1>1, <1>4, <1>5, <1>a, <1>b DEF Charla

\* A set of naturals or of devices with no element, or with one.
LEMMA Cardinales ==
  ASSUME NEW S
  PROVE  /\ S = {} => Cardinality(S) = 0
         /\ \A x : x \in S /\ (\A y \in S : y = x) => Cardinality(S) = 1
<1>1. S = {} => Cardinality(S) = 0
  BY FS_EmptySet
<1>2. ASSUME NEW x, x \in S, \A y \in S : y = x PROVE Cardinality(S) = 1
  <2>1. S = {x}
    BY <1>2
  <2> QED BY <2>1, FS_Singleton
<1> QED BY <1>1, <1>2

\* The count of the requests of a process is that of the places where one is.
LEMMA PendientesSon ==
  ASSUME IInv, ~entorno.quita, NEW p \in Pids
  PROVE  /\ estado[p] # "BLOCKED" => Pendientes(p) = 0
         /\ estado[p] = "BLOCKED" =>
              Pendientes(p) = 1 \/ (entorno.carrera /\ Pendientes(p) = 0)
<1> DEFINE C == {i \in DOMAIN cola : cola[i].pid = p}
           D == {d \in Dispositivos : Contains(EnCurso(d), p) \/ Cortado(d, p)}
           L == IF sys[p].en = "encola" THEN 1 ELSE 0
<1>1. Pendientes(p) = Cardinality(C) + Cardinality(D) + L
  BY DEF Pendientes
<1>2. UnaEntrada /\ Lugar(p) /\ Charlas /\ TiposLista
  BY TiposPartes DEF IInv, UnLugar
<1>3. D = {d \in Dispositivos : Sirve(d, p)}
  BY <1>2, EnCursoSirve
<1>4. Cardinality(C) = IF EnCola(p) THEN 1 ELSE 0
  <2>1. \A i, j \in C : i = j
    BY <1>2 DEF UnaEntrada
  <2>2. EnCola(p) <=> C # {}
    BY DEF EnCola
  <2> HIDE DEF C
  <2>3. CASE C = {}
    BY <2>2, <2>3, Cardinales
  <2>4. CASE C # {}
    BY <2>1, <2>2, <2>4, Cardinales
  <2> QED BY <2>3, <2>4
<1>5. Cardinality(D) = IF \E d \in Dispositivos : Sirve(d, p) THEN 1 ELSE 0
  <2>1. \A d, e \in D : d = e
    BY <1>2, <1>3 DEF Lugar
  <2>2. (\E d \in Dispositivos : Sirve(d, p)) <=> D # {}
    BY <1>3
  <2> HIDE DEF D
  <2>3. CASE D = {}
    BY <2>2, <2>3, Cardinales
  <2>4. CASE D # {}
    BY <2>1, <2>2, <2>4, Cardinales
  <2> QED BY <2>3, <2>4
<1>6. L = IF Llama(p) THEN 1 ELSE 0
  BY DEF Llama
<1> HIDE DEF C, D, L, EnCola, Llama, Sirve
<1> QED BY <1>1, <1>2, <1>4, <1>5, <1>6 DEF Lugar

\* Every variable has its type, also when the end of a device takes an entry out of
\* the queue under the pass, which goes on with rubbish in its hand.
THEOREM Tipos == Spec => []ColaTypeOK
<1>1. IInv => ColaTypeOK
  BY DEF IInv
<1> QED BY <1>1, Invariante, PTL

\* A blocked process has one request, in the queue or in one device, and no other
\* process has any; a device that goes in the middle of a pass may lose one, but
\* takes no entry out of the queue there.
THEOREM NadieDosVeces == Spec => []UnPedido
<1>1. IInv => UnPedido
  BY PendientesSon DEF UnPedido
<1> QED BY <1>1, Invariante, PTL

\* The kernel notes in each device the process whose request it has; a device
\* that is connected and has none is free, or about to be: also when the pass has
\* served the process of an entry that was no longer in the queue.
THEOREM Anotado == Spec => []AnotadoLoQueHace
<1>1. IInv => AnotadoLoQueHace
  BY TiposPartes, EnCursoSirve DEF IInv, AnotadoLoQueHace
<1> QED BY <1>1, Invariante, PTL


\* A pass that comes to its end with an entry in hand removes what is at its index.
LEMMA FinDelBarrido ==
  ASSUME TiposCola, ~entorno.quita, barrido.en \in {"existe", "ocupa"},
         barrido'.en = "espera", [Next]_vars
  PROVE  cola' = SinEntrada(barrido.i)
<1> USE DEF procVars, colaVars, listaVars, devVars
<1>0. barrido' # barrido
  OBVIOUS
<1>1. CASE UNCHANGED vars
  BY <1>0, <1>1 DEF vars
<1>2. ASSUME NEW p, NEW n, SysComienzoIO(p, n) \/ Llamada(p) PROVE FALSE
  BY <1>0, <1>2 DEF SysComienzoIO, Llamada, exec_a_blocked, agregar_a_cola_por_IO
<1>3. CASE BarridoExiste
  <2>1. CASE existe_io(barrido.x.n)
    <3>1. barrido'.en = "libre"
      BY <1>3, <2>1 DEF BarridoExiste, TiposCola, Quieto
    <3> QED BY <3>1
  <2> QED BY <1>3, <2>1 DEF BarridoExiste
<1>4. CASE BarridoOcupa
  BY <1>4 DEF BarridoOcupa
<1>5. CASE BarridoDespierta \/ BarridoLibre
  BY <1>5 DEF BarridoDespierta, BarridoLibre
<1>6. ASSUME NEW d, ExpulsaDeLaCola(d) PROVE FALSE
  <2>1. EnColaPor(Nombre[d]) = {} => UNCHANGED barrido
    BY <1>6 DEF ExpulsaDeLaCola
  <2>2. EnColaPor(Nombre[d]) # {} => SinBarrido
    BY <1>6 DEF ExpulsaDeLaCola
  <2> QED BY <1>0, <2>1, <2>2 DEF SinBarrido
<1>7. ASSUME NEW d, CreaHilo(d) \/ AtiendeFin(d) \/ liberar_io(d) \/ Desconecta(d)
                    \/ SacaDispositivo(d) \/ Termina(d) \/ conectar_io(d) \/ SeCae(d)
      PROVE  FALSE
  BY <1>0, <1>7 DEF CreaHilo, AtiendeFin, liberar_io, Desconecta, SacaDispositivo, Termina,
     conectar_io, SeCae
<1> QED BY <1>1, <1>2, <1>3, <1>4, <1>5, <1>6, <1>7 DEF Next, Barrido, HiloIO

\* Where no entry is taken out under the pass, what it removes by index is the entry of
\* the process it has served or ended, and no other: the queue has one of each
\* process, and nothing before it in the queue has gone.
THEOREM SacaLaSuya == Spec => QuitaLaSuya
<1>1. ASSUME IInv, [Next]_vars, ~entorno.quita, barrido.en \in {"existe", "ocupa"},
             barrido'.en = "espera"
      PROVE  /\ ~Contains(cola', barrido.x)
             /\ \A k \in DOMAIN cola : cola[k] # barrido.x => Contains(cola', cola[k])
  <2>i. PICK i : i = barrido.i
    OBVIOUS
  <2>x. PICK x : x = cola[i].pid
    OBVIOUS
  <2>1. TiposCola /\ UnaEntrada /\ Vigente
    BY <1>1, TiposPartes DEF IInv, UnLugar
  <2>2. /\ i \in DOMAIN cola /\ barrido.x = cola[i]
        /\ cola' = RemoveAt(cola, i)
    BY <1>1, <2>i, <2>1, EntradaDelBarrido, FinDelBarrido
  <2>3. /\ cola \in Seq([pid : Pids, n : Nombres])
        /\ DOMAIN cola = 1..Len(cola) /\ Len(cola) \in Nat
    BY <2>1, LenProperties DEF TiposCola
  <2>4. /\ cola' \in Seq([pid : Pids, n : Nombres]) /\ Len(cola') = Len(cola) - 1
        /\ \A j \in 1..(Len(cola) - 1) : cola'[j] = IF j < i THEN cola[j] ELSE cola[j + 1]
    BY <2>2, <2>3, RemoveAtPropiedades, Zenon
  <2>5. ~Contains(cola', barrido.x)
    <3>1. ~EnCola(x)'
      BY <2>x, <2>1, <2>2, ColaSin
    <3>2. DOMAIN cola' = 1..Len(cola')
      BY <2>4, LenProperties
    <3> QED BY <2>x, <2>2, <3>1, <3>2 DEF Contains, EnCola
  <2>6. ASSUME NEW k \in DOMAIN cola, cola[k] # barrido.x PROVE Contains(cola', cola[k])
    <3>1. k # i /\ k \in 1..Len(cola) /\ i \in 1..Len(cola)
      BY <2>2, <2>3, <2>6
    <3>2. CASE k < i
      <4>1. k \in 1..Len(cola') /\ cola'[k] = cola[k]
        BY <2>3, <2>4, <3>1, <3>2
      <4> QED BY <4>1 DEF Contains
    <3>3. CASE k > i
      <4>1. k - 1 \in 1..Len(cola') /\ cola'[k - 1] = cola[k]
        BY <2>3, <2>4, <3>1, <3>3
      <4> QED BY <4>1 DEF Contains
    <3> QED BY <2>3, <3>1, <3>2, <3>3
  <2> QED BY <2>5, <2>6
<1>2. IInv /\ [Next]_vars =>
        [~entorno.quita /\ barrido.en \in {"existe", "ocupa"} /\ barrido'.en = "espera"
           => /\ ~Contains(cola', barrido.x)
              /\ \A k \in DOMAIN cola : cola[k] # barrido.x => Contains(cola', cola[k])]_vars
  BY <1>1
<1> QED BY <1>2, Invariante, PTL DEF Spec, QuitaLaSuya

-----------------------------------------------------------------------------
(* Without disconnections the tokens are enough. The devices of a name that *)
(* are free and the entries of the queue that ask for it are two sides of a *)
(* graph; every edge of it is a process that waits for a device it could    *)
(* have. The tokens bound the size of a set of vertices that touches every  *)
(* edge: with no token left there is no edge.                               *)

\* Devices that are listed and free.
Libres == {d \in Range(lista_IO) : proceso[d] = Nadie}

\* D and Q touch the edges of the entries K of a queue.
Cubre(D, Q, col, lib, K) ==
  \A k \in K : col[k].pid \in Q \/ \A d \in lib : Nombre[d] = col[k].n => d \in D

\* t tokens are enough for the entries K.
Alcanzan(col, lib, K, t) ==
  \E D \in SUBSET Dispositivos, Q \in SUBSET Pids :
    /\ IsFiniteSet(Q) /\ Cardinality(D) + Cardinality(Q) <= t
    /\ Cubre(D, Q, col, lib, K)

\* The tokens posted, and those that manejar_conexiones_ios is about to post.
Aceptados == {d \in Dispositivos : hilo[d] = "acepta"}
Fichas == binario + Cardinality(Aceptados)

\* A pass has taken a token: it is still enough for all, and what the pass has
\* gone by needs none but those that were posted since.
FichasAlcanzan ==
  IF barrido.en = "espera" THEN Alcanzan(cola, Libres, DOMAIN cola, Fichas)
  ELSE /\ Alcanzan(cola, Libres, DOMAIN cola, Fichas + 1)
       /\ Alcanzan(cola, Libres, 1 .. (barrido.i - 1), Fichas)

\* Whoever is in the queue, or on its way there, asked for a name that exists.
Existen ==
  /\ \A k \in DOMAIN cola : existe_io(cola[k].n)
  /\ \A p \in Pids : sys[p].en # "nada" => existe_io(sys[p].n)

SinCaidas == \A d \in Dispositivos : conexion[d] # "caida"
OcupaUnoLibre == barrido.en = "ocupa" => hay_alguno_libre_io(barrido.x.n)

Justo == entorno.caen = {} =>
           SinCaidas /\ Existen /\ OcupaUnoLibre /\ FichasAlcanzan

\* Less to touch, or more tokens: as enough as before.
LEMMA AlcanzanMenos ==
  ASSUME NEW col, NEW lib, NEW K, NEW t \in Int, Alcanzan(col, lib, K, t),
         NEW lib2 \in SUBSET lib, NEW u \in Int, t <= u,
         NEW K2, \A k \in K2 : k \in K \/ \A d \in lib2 : Nombre[d] # col[k].n
  PROVE  Alcanzan(col, lib2, K2, u)
<1>1. PICK D \in SUBSET Dispositivos, Q \in SUBSET Pids :
        /\ IsFiniteSet(Q) /\ Cardinality(D) + Cardinality(Q) <= t
        /\ Cubre(D, Q, col, lib, K)
  BY DEF Alcanzan
<1>2. Cubre(D, Q, col, lib2, K2)
  BY <1>1 DEF Cubre
<1>3. IsFiniteSet(D)
  BY Constantes, FS_Subset
<1>4. Cardinality(D) \in Nat /\ Cardinality(Q) \in Nat
  BY <1>1, <1>3, FS_CardinalityType
<1>5. Cardinality(D) + Cardinality(Q) <= u
  BY <1>1, <1>4
<1> QED BY <1>1, <1>2, <1>5 DEF Alcanzan

\* Nothing to touch.
LEMMA AlcanzanNada ==
  ASSUME NEW col, NEW lib, NEW t \in Nat
  PROVE  Alcanzan(col, lib, {}, t)
<1>1. Cubre({}, {}, col, lib, {})
  BY DEF Cubre
<1>2. IsFiniteSet({}) /\ Cardinality({}) = 0
  BY FS_EmptySet
<1>3. Cardinality({}) + Cardinality({}) <= t
  BY <1>2
<1> QED BY <1>1, <1>2, <1>3 DEF Alcanzan

\* With no tokens there is nothing to touch.
LEMMA AlcanzanSinFichas ==
  ASSUME NEW col, NEW lib, NEW K, Alcanzan(col, lib, K, 0), NEW k \in K, NEW d \in lib
  PROVE  Nombre[d] # col[k].n
<1>1. PICK D \in SUBSET Dispositivos, Q \in SUBSET Pids :
        /\ IsFiniteSet(Q) /\ Cardinality(D) + Cardinality(Q) <= 0
        /\ Cubre(D, Q, col, lib, K)
  BY DEF Alcanzan
<1>2. IsFiniteSet(D)
  BY Constantes, FS_Subset
<1>3. Cardinality(D) \in Nat /\ Cardinality(Q) \in Nat
  BY <1>1, <1>2, FS_CardinalityType
<1>4. Cardinality(D) = 0 /\ Cardinality(Q) = 0
  BY <1>1, <1>3
<1>5. D = {} /\ Q = {}
  BY <1>1, <1>2, <1>4, FS_EmptySet
<1> QED BY <1>1, <1>5 DEF Cubre

\* A device becomes free, and a token is posted.
LEMMA AlcanzanLibre ==
  ASSUME NEW col, NEW lib, NEW K, NEW t \in Int, Alcanzan(col, lib, K, t),
         NEW d \in Dispositivos, NEW lib2 \in SUBSET (lib \cup {d})
  PROVE  Alcanzan(col, lib2, K, t + 1)
<1>1. PICK D \in SUBSET Dispositivos, Q \in SUBSET Pids :
        /\ IsFiniteSet(Q) /\ Cardinality(D) + Cardinality(Q) <= t
        /\ Cubre(D, Q, col, lib, K)
  BY DEF Alcanzan
<1>2. Cubre(D \cup {d}, Q, col, lib2, K)
  BY <1>1 DEF Cubre
<1>3. IsFiniteSet(D)
  BY Constantes, FS_Subset
<1>4. /\ Cardinality(D) \in Nat /\ Cardinality(Q) \in Nat
      /\ Cardinality(D \cup {d}) \in {Cardinality(D), Cardinality(D) + 1}
  BY <1>1, <1>3, FS_CardinalityType, FS_AddElement
<1>5. Cardinality(D \cup {d}) + Cardinality(Q) <= t + 1
  BY <1>1, <1>4
<1>6. D \cup {d} \in SUBSET Dispositivos
  OBVIOUS
<1> QED BY <1>1, <1>2, <1>5, <1>6 DEF Alcanzan

\* A process is queued, and a token is posted.
LEMMA AlcanzanAgrega ==
  ASSUME NEW col, NEW lib, NEW K, NEW t \in Int, Alcanzan(col, lib, K, t),
         NEW n, NEW p \in Pids, NEW col2, col2[n].pid = p, n \notin K,
         \A k \in K : col2[k] = col[k]
  PROVE  Alcanzan(col2, lib, K \cup {n}, t + 1)
<1>1. PICK D \in SUBSET Dispositivos, Q \in SUBSET Pids :
        /\ IsFiniteSet(Q) /\ Cardinality(D) + Cardinality(Q) <= t
        /\ Cubre(D, Q, col, lib, K)
  BY DEF Alcanzan
<1>2. Cubre(D, Q \cup {p}, col2, lib, K \cup {n})
  BY <1>1 DEF Cubre
<1>3. IsFiniteSet(D) /\ IsFiniteSet(Q \cup {p})
  BY <1>1, Constantes, FS_Subset, FS_AddElement
<1>4. /\ Cardinality(D) \in Nat /\ Cardinality(Q) \in Nat
      /\ Cardinality(Q \cup {p}) \in {Cardinality(Q), Cardinality(Q) + 1}
  BY <1>1, <1>3, FS_CardinalityType, FS_AddElement
<1>5. Cardinality(D) + Cardinality(Q \cup {p}) <= t + 1
  BY <1>1, <1>4
<1>6. Q \cup {p} \in SUBSET Pids
  OBVIOUS
<1> QED BY <1>1, <1>2, <1>3, <1>5, <1>6 DEF Alcanzan

\* A process of the queue gets a device of its name: one edge less, and one
\* token less is enough. j maps the entries left to those there were.
LEMMA AlcanzanOcupa ==
  ASSUME NEW col, NEW lib, NEW K, NEW t \in Int, Alcanzan(col, lib, K, t + 1),
         NEW i \in K, NEW d \in lib, Nombre[d] = col[i].n,
         NEW col2, NEW K2, NEW lib2 \in SUBSET (lib \ {d}),
         \A k \in K2 : \E j \in K : col2[k] = col[j] /\ col[j].pid # col[i].pid
  PROVE  Alcanzan(col2, lib2, K2, t)
<1>1. PICK D \in SUBSET Dispositivos, Q \in SUBSET Pids :
        /\ IsFiniteSet(Q) /\ Cardinality(D) + Cardinality(Q) <= t + 1
        /\ Cubre(D, Q, col, lib, K)
  BY DEF Alcanzan
<1>a. PICK p : p = col[i].pid
  OBVIOUS
<1>2. Cubre(D \ {d}, Q \ {p}, col2, lib2, K2)
  BY <1>1, <1>a DEF Cubre
<1>3. IsFiniteSet(D)
  BY Constantes, FS_Subset
<1>4. /\ IsFiniteSet(Q \ {p}) /\ IsFiniteSet(D \ {d})
      /\ Cardinality(D) \in Nat /\ Cardinality(Q) \in Nat
      /\ Cardinality(Q \ {p}) = IF p \in Q THEN Cardinality(Q) - 1 ELSE Cardinality(Q)
      /\ Cardinality(D \ {d}) = IF d \in D THEN Cardinality(D) - 1 ELSE Cardinality(D)
  BY <1>1, <1>3, FS_CardinalityType, FS_RemoveElement
<1>5. p \in Q \/ d \in D
  BY <1>1, <1>a DEF Cubre
<1>6. Cardinality(D \ {d}) + Cardinality(Q \ {p}) <= t
  BY <1>1, <1>4, <1>5
<1>7. D \ {d} \in SUBSET Dispositivos /\ Q \ {p} \in SUBSET Pids
  OBVIOUS
<1> QED BY <1>2, <1>4, <1>6, <1>7 DEF Alcanzan

\* With nobody to go, no device does.
LEMMA NadieSeVa ==
  ASSUME TiposDev, Charlas, SinCaidas, NEW d \in Dispositivos
  PROVE  ~Desconecta(d) /\ ~ExpulsaDeLaCola(d) /\ ~SacaDispositivo(d)
<1>1. Charla(d) /\ conexion[d] # "caida" /\ Nadie \notin Dispositivos
  BY Constantes DEF Charlas, SinCaidas
<1>2. hilo[d] \notin {"saca", "expulsa"}
  BY <1>1 DEF Charla
<1>3. ~Desconecta(d)
  <2>1. SUFFICES ASSUME Desconecta(d) PROVE FALSE
    OBVIOUS
  <2>2. hilo[d] = "espera" /\ deDev[d] # <<>> /\ Head(deDev[d]) = Nadie
    BY <2>1 DEF Desconecta
  <2>3. deDev[d] = <<proceso[d]>> /\ proceso[d] # Nadie
    BY <1>1, <2>2 DEF Charla
  <2>4. Head(<<proceso[d]>>) = proceso[d]
    BY Cortas, Zenon
  <2> QED BY <2>2, <2>3, <2>4
<1> QED BY <1>2, <1>3 DEF ExpulsaDeLaCola, SacaDispositivo

\* The tokens are counted in whole numbers.
LEMMA FichasTipo ==
  ASSUME TiposCola
  PROVE  /\ Fichas \in Nat /\ binario \in Nat /\ IsFiniteSet(Aceptados)
         /\ Cardinality(Aceptados) \in Nat
<1>1. IsFiniteSet(Aceptados)
  <2>1. Aceptados \in SUBSET Dispositivos
    BY DEF Aceptados
  <2> QED BY <2>1, Constantes, FS_Subset
<1>2. Cardinality(Aceptados) \in Nat /\ binario \in Nat
  BY <1>1, FS_CardinalityType DEF TiposCola
<1> QED BY <1>1, <1>2 DEF Fichas

\* No name is forgotten: devices are only added to the list.
LEMMA ExistenPaso ==
  ASSUME TiposProcesos, TiposCola, TiposLista, TiposDev, Charlas, Vigente, SinCaidas, Existen,
         [Next]_vars
  PROVE  Existen'
<1> USE DEF procVars, colaVars, listaVars, devVars
<1>0. ASSUME Range(lista_IO) \subseteq Range(lista_IO'),
             \A k \in DOMAIN cola' : \/ \E j \in DOMAIN cola : cola'[k] = cola[j]
                                     \/ \E p \in Pids : cola'[k].n = sys[p].n /\ sys[p].en # "nada",
             \A p \in Pids : sys'[p].en # "nada" =>
               (sys[p].en # "nada" /\ sys'[p].n = sys[p].n) \/ existe_io(sys'[p].n)
      PROVE  Existen'
  <2>1. \A n : existe_io(n) => existe_io(n)'
    BY <1>0 DEF existe_io, Llamado
  <2>2. \A k \in DOMAIN cola' : existe_io(cola'[k].n)
    BY <1>0 DEF Existen
  <2>3. \A p \in Pids : sys'[p].en # "nada" => existe_io(sys'[p].n)
    BY <1>0 DEF Existen
  <2>4. (\A k \in DOMAIN cola' : existe_io(cola[k].n)') /\ (\A p \in Pids : sys'[p].en # "nada" => existe_io(sys[p].n)')
    <3> HIDE DEF existe_io
    <3> QED BY <2>1, <2>2, <2>3 DEF existe_io, Llamado
  <2> QED BY <2>4 DEF Existen
<1>1. ASSUME UNCHANGED <<lista_IO, cola, sys>> PROVE Existen'
  BY <1>0, <1>1
<1>2. CASE UNCHANGED vars
  BY <1>1, <1>2 DEF vars
<1>3. ASSUME NEW p \in Pids, NEW n \in Nombres, SysComienzoIO(p, n) PROVE Existen'
  <2>1. /\ UNCHANGED <<lista_IO, cola>>
        /\ \/ existe_io(n) /\ sys' = [sys EXCEPT ![p] = [en |-> "bloquea", n |-> n]]
           \/ UNCHANGED sys
    BY <1>3 DEF SysComienzoIO
  <2>2. \A q \in Pids : sys'[q].en # "nada" =>
          (sys[q].en # "nada" /\ sys'[q].n = sys[q].n) \/ existe_io(sys'[q].n)
    BY <2>1 DEF TiposProcesos
  <2> QED BY <1>0, <2>1, <2>2
<1>4. ASSUME NEW p \in Pids, exec_a_blocked(p) PROVE Existen'
  <2>1. /\ UNCHANGED <<lista_IO, cola>> /\ sys[p].en = "bloquea"
        /\ sys' = [sys EXCEPT ![p].en = "encola"]
    BY <1>4 DEF exec_a_blocked
  <2>2. \A q \in Pids : sys'[q].n = sys[q].n /\ (sys'[q].en # "nada" => sys[q].en # "nada")
    BY <2>1 DEF TiposProcesos
  <2> QED BY <1>0, <2>1, <2>2
<1>5. ASSUME NEW p \in Pids, agregar_a_cola_por_IO(p) PROVE Existen'
  <2>a. PICK x : x = [pid |-> p, n |-> sys[p].n]
    OBVIOUS
  <2>1. /\ sys[p].en = "encola" /\ cola' = Append(cola, x) /\ sys' = SinLlamada(p)
        /\ UNCHANGED lista_IO /\ x.n = sys[p].n
    BY <1>5, <2>a DEF agregar_a_cola_por_IO
  <2>2. x \in [pid : Pids, n : Nombres]
    BY <2>1, <2>a DEF TiposProcesos, NombresOK
  <2>3. /\ DOMAIN cola' = 1..(Len(cola) + 1) /\ DOMAIN cola = 1..Len(cola)
        /\ \A i \in 1..Len(cola) : cola'[i] = cola[i]
        /\ cola'[Len(cola) + 1] = x /\ Len(cola) \in Nat
    <3>1. cola \in Seq([pid : Pids, n : Nombres])
      BY DEF TiposCola
    <3> QED BY <2>1, <2>2, <3>1, AppendProperties, LenProperties
  <2>4. \A k \in DOMAIN cola' : \/ \E j \in DOMAIN cola : cola'[k] = cola[j]
                                \/ cola'[k].n = sys[p].n
    BY <2>1, <2>3
  <2>5. \A q \in Pids : sys'[q].en # "nada" => sys[q].en # "nada" /\ sys'[q].n = sys[q].n
    BY <2>1 DEF TiposProcesos, SinLlamada
  <2> QED BY <1>0, <2>1, <2>4, <2>5
<1>6. CASE BarridoDespierta \/ BarridoLibre
  BY <1>1, <1>6 DEF BarridoDespierta, BarridoLibre
<1>7. CASE BarridoExiste \/ BarridoOcupa
  <2>1. barrido.en # "espera" /\ UNCHANGED <<lista_IO, sys>>
        /\ (cola' = cola \/ cola' = RemoveAt(cola, barrido.i))
    BY <1>7, EntradaDelBarrido DEF BarridoExiste, BarridoOcupa
  <2>2. barrido.i \in 1..Len(cola) /\ DOMAIN cola = 1..Len(cola) /\ Len(cola) \in Nat
    BY <2>1, EntradaDelBarrido, LenProperties DEF TiposCola
  <2>3. CASE cola' = RemoveAt(cola, barrido.i)
    <3>a. PICK k : k = barrido.i
      OBVIOUS
    <3>1. /\ cola' \in Seq([pid : Pids, n : Nombres]) /\ Len(cola') = Len(cola) - 1
          /\ \A j \in 1..(Len(cola) - 1) : cola'[j] = IF j < k THEN cola[j] ELSE cola[j + 1]
      <4>1. cola \in Seq([pid : Pids, n : Nombres]) /\ k \in 1..Len(cola) /\ cola' = RemoveAt(cola, k)
        BY <2>2, <2>3, <3>a DEF TiposCola
      <4> QED BY <4>1, RemoveAtPropiedades, Zenon
    <3>2. DOMAIN cola' = 1..(Len(cola) - 1)
      BY <3>1, LenProperties
    <3>3. \A j \in DOMAIN cola' : \E i \in DOMAIN cola : cola'[j] = cola[i]
      <4> TAKE j \in DOMAIN cola'
      <4>1. j \in DOMAIN cola /\ j + 1 \in DOMAIN cola
        BY <2>2, <3>2
      <4> QED BY <3>1, <3>2, <4>1
    <3> QED BY <1>0, <2>1, <3>3
  <2> QED BY <1>1, <2>1, <2>3
<1>8. ASSUME NEW d \in Dispositivos, conectar_io(d) PROVE Existen'
  <2>1. conexion[d] = "fuera" /\ lista_IO' = Append(lista_IO, d) /\ UNCHANGED <<cola, sys>>
    BY <1>8 DEF conectar_io
  <2>2. d \notin Range(lista_IO)
    BY <2>1 DEF Charlas, Charla, Lista
  <2>3. Range(lista_IO') = Range(lista_IO) \cup {d}
    BY <2>1, <2>2, AppendPropiedades DEF TiposLista
  <2> QED BY <1>0, <2>1, <2>3
<1>9. ASSUME NEW d \in Dispositivos,
             CreaHilo(d) \/ AtiendeFin(d) \/ liberar_io(d) \/ Termina(d) \/ SeCae(d)
      PROVE  Existen'
  BY <1>1, <1>9 DEF CreaHilo, AtiendeFin, liberar_io, Termina, SeCae
<1> QED BY <1>2, <1>3, <1>4, <1>5, <1>6, <1>7, <1>8, <1>9, NadieSeVa
        DEF Next, Llamada, Barrido, HiloIO

\* A device found free stays free until the pass takes it.
LEMMA OcupaPaso ==
  ASSUME TiposProcesos, TiposCola, TiposLista, TiposDev, Charlas, SinCaidas, OcupaUnoLibre,
         [Next]_vars
  PROVE  OcupaUnoLibre'
<1> USE DEF procVars, colaVars, listaVars, devVars
<1>0. ASSUME UNCHANGED barrido, Range(lista_IO) \subseteq Range(lista_IO'),
             \A d \in Range(lista_IO) : proceso[d] = Nadie => proceso'[d] = Nadie
      PROVE  OcupaUnoLibre'
  <2>1. \A n : hay_alguno_libre_io(n) => hay_alguno_libre_io(n)'
    BY <1>0 DEF hay_alguno_libre_io, Llamado
  <2> HIDE DEF hay_alguno_libre_io
  <2> QED BY <1>0, <2>1 DEF OcupaUnoLibre
<1>1. ASSUME UNCHANGED <<barrido, lista_IO, proceso>> PROVE OcupaUnoLibre'
  BY <1>0, <1>1
<1>2. ASSUME barrido'.en # "ocupa" PROVE OcupaUnoLibre'
  BY <1>2 DEF OcupaUnoLibre
<1>3. CASE UNCHANGED vars
  BY <1>1, <1>3 DEF vars
<1>4. ASSUME NEW p \in Pids, NEW n, SysComienzoIO(p, n) \/ exec_a_blocked(p)
      PROVE  OcupaUnoLibre'
  BY <1>1, <1>4 DEF SysComienzoIO, exec_a_blocked
<1>5. ASSUME NEW p \in Pids, agregar_a_cola_por_IO(p) PROVE OcupaUnoLibre'
  BY <1>2, <1>5 DEF agregar_a_cola_por_IO
<1>6. CASE BarridoDespierta
  BY <1>2, <1>6 DEF BarridoDespierta, Sigue, Quieto
<1>7. CASE BarridoExiste
  <2>1. barrido.en = "existe"
        /\ (barrido' = [barrido EXCEPT !.en = "libre"] \/ barrido' = Quieto)
    BY <1>7 DEF BarridoExiste
  <2> QED BY <1>2, <2>1, BarridoTipo DEF Quieto
<1>8. CASE BarridoLibre
  <2>0. barrido.en = "libre"
    BY <1>8 DEF BarridoLibre
  <2>1. UNCHANGED <<lista_IO, proceso>>
    BY <1>8 DEF BarridoLibre
  <2>2. CASE hay_alguno_libre_io(barrido.x.n)
    <3>1. barrido' = [barrido EXCEPT !.en = "ocupa"]
      BY <1>8, <2>2 DEF BarridoLibre
    <3>2. barrido'.x = barrido.x
      BY <2>0, <3>1, BarridoTipo
    <3>3. hay_alguno_libre_io(barrido.x.n)'
      BY <2>1, <2>2, <3>2 DEF hay_alguno_libre_io, Llamado
    <3> QED BY <3>3 DEF OcupaUnoLibre
  <2>3. CASE ~hay_alguno_libre_io(barrido.x.n)
    <3>1. barrido' = Sigue(barrido.i + 1)
      BY <1>8, <2>3 DEF BarridoLibre
    <3> QED BY <1>2, <3>1 DEF Sigue, Quieto
  <2> QED BY <2>2, <2>3
<1>9. CASE BarridoOcupa
  BY <1>2, <1>9 DEF BarridoOcupa, Quieto
<1>10. ASSUME NEW d \in Dispositivos, conectar_io(d) PROVE OcupaUnoLibre'
  <2>1. conexion[d] = "fuera" /\ lista_IO' = Append(lista_IO, d)
        /\ UNCHANGED <<cola, barrido, proceso>>
    BY <1>10 DEF conectar_io
  <2>2. d \notin Range(lista_IO)
    BY <2>1 DEF Charlas, Charla, Lista
  <2>3. Range(lista_IO') = Range(lista_IO) \cup {d}
    BY <2>1, <2>2, AppendPropiedades DEF TiposLista
  <2> QED BY <1>0, <2>1, <2>3
<1>11. ASSUME NEW d \in Dispositivos, liberar_io(d) PROVE OcupaUnoLibre'
  <2>1. UNCHANGED <<cola, barrido, lista_IO>> /\ proceso' = [proceso EXCEPT ![d] = Nadie]
    BY <1>11 DEF liberar_io
  <2>2. \A e \in Dispositivos : proceso[e] = Nadie => proceso'[e] = Nadie
    BY <2>1 DEF TiposLista
  <2>3. Range(lista_IO) \subseteq Dispositivos
    BY ElementOfSeq, LenProperties DEF TiposLista, Range
  <2> QED BY <1>0, <2>1, <2>2, <2>3
<1>12. ASSUME NEW d \in Dispositivos, CreaHilo(d) \/ AtiendeFin(d) \/ Termina(d) \/ SeCae(d)
       PROVE  OcupaUnoLibre'
  BY <1>1, <1>12 DEF CreaHilo, AtiendeFin, Termina, SeCae
<1> QED BY <1>3, <1>4, <1>5, <1>6, <1>7, <1>8, <1>9, <1>10, <1>11, <1>12, NadieSeVa
        DEF Next, Llamada, Barrido, HiloIO

\* A step that touches neither the queue nor the devices free nor the tokens.
LEMMA FichasIgual ==
  ASSUME FichasAlcanzan, UNCHANGED <<cola, barrido>>, Libres' = Libres, Fichas' = Fichas
  PROVE  FichasAlcanzan'
<1> HIDE DEF Libres, Fichas
<1> QED BY DEF FichasAlcanzan

\* A device becomes free and its token is posted, or is about to be.
LEMMA FichasMas ==
  ASSUME TiposCola, FichasAlcanzan, UNCHANGED <<cola, barrido>>, NEW d \in Dispositivos,
         Libres' \subseteq Libres \cup {d}, Fichas' = Fichas + 1
  PROVE  FichasAlcanzan'
<1>1. PICK c, K, J, l, m, t :
        c = cola /\ K = DOMAIN cola /\ J = 1 .. (barrido.i - 1) /\ l = Libres /\ m = Libres' /\ t = Fichas
  OBVIOUS
<1>2. t \in Nat /\ m \in SUBSET (l \cup {d}) /\ t \in Int /\ t + 1 \in Int
  BY <1>1, FichasTipo
<1>3. CASE barrido.en = "espera"
  <2>1. Alcanzan(c, l, K, t)
    BY <1>1, <1>3 DEF FichasAlcanzan
  <2>2. Alcanzan(c, m, K, t + 1)
    BY <1>2, <2>1, AlcanzanLibre
  <2> QED BY <1>1, <1>3, <2>2 DEF FichasAlcanzan
<1>4. CASE barrido.en # "espera"
  <2>1. Alcanzan(c, l, K, t + 1) /\ Alcanzan(c, l, J, t)
    BY <1>1, <1>4 DEF FichasAlcanzan
  <2>2. Alcanzan(c, m, K, t + 1 + 1) /\ Alcanzan(c, m, J, t + 1)
    BY <1>2, <2>1, AlcanzanLibre
  <2> QED BY <1>1, <1>4, <2>2 DEF FichasAlcanzan
<1> QED BY <1>3, <1>4

\* The first free device, with its name.
LEMMA PrimeroLibre ==
  ASSUME TiposLista, NEW n, hay_alguno_libre_io(n)
  PROVE  Primero(n) \in Libres /\ Primero(n) \in Dispositivos /\ Nombre[Primero(n)] = n
<1> DEFINE L == {i \in DOMAIN lista_IO : Nombre[lista_IO[i]] = n /\ proceso[lista_IO[i]] = Nadie}
<1>1. DOMAIN lista_IO = 1..Len(lista_IO) /\ L \in SUBSET Nat
      /\ \A i \in DOMAIN lista_IO : lista_IO[i] \in Dispositivos
  BY LenProperties, ElementOfSeq DEF TiposLista
<1>2. L # {}
  <2>1. PICK d \in Range(lista_IO) : Nombre[d] = n /\ proceso[d] = Nadie
    BY DEF hay_alguno_libre_io, Llamado
  <2>2. PICK i \in DOMAIN lista_IO : lista_IO[i] = d
    BY <2>1 DEF Range
  <2> QED BY <2>1, <2>2
<1>3. Primero(n) = lista_IO[Min(L)] /\ Min(L) \in L
  BY <1>1, <1>2, MinEsta DEF Primero
<1> HIDE DEF Primero
<1> QED BY <1>1, <1>3 DEF Range, Libres

\* The pass: a token is taken, an entry is gone by.
LEMMA FichasBarrido ==
  ASSUME TiposCola, TiposLista, Vigente, Existen, FichasAlcanzan,
         BarridoDespierta \/ BarridoExiste \/ BarridoLibre
  PROVE  FichasAlcanzan'
<1> USE DEF listaVars
<1>1. UNCHANGED <<lista_IO, proceso, hilo>>
  BY DEF BarridoDespierta, BarridoExiste, BarridoLibre
<1>2. PICK c, K, l, t : c = cola /\ K = DOMAIN cola /\ l = Libres /\ t = Fichas
  OBVIOUS
<1>3. Libres' = l /\ t \in Nat /\ K = 1..Len(c) /\ Len(c) \in Nat
  BY <1>1, <1>2, FichasTipo, LenProperties DEF Libres, TiposCola
<1>4. UNCHANGED binario => Fichas' = t
  BY <1>1, <1>2 DEF Fichas, Aceptados
<1>5. CASE BarridoDespierta
  <2>1. /\ barrido.en = "espera" /\ binario > 0 /\ binario' = binario - 1 /\ barrido' = Sigue(1)
        /\ cola' = c
    BY <1>2, <1>5 DEF BarridoDespierta
  <2>2. Fichas' = t - 1 /\ t - 1 \in Nat
    <3>1. PICK a : a = Cardinality(Aceptados)
      OBVIOUS
    <3>2. a \in Nat /\ Fichas' = binario' + a /\ t = binario + a /\ binario \in Nat
      BY <1>1, <1>2, <3>1, FichasTipo DEF Fichas, Aceptados
    <3> QED BY <2>1, <3>2
  <2>3. Alcanzan(c, l, K, t)
    BY <1>2, <2>1 DEF FichasAlcanzan
  <2>4. Alcanzan(c, l, {}, t - 1)
    BY <2>2, AlcanzanNada
  <2>5. CASE 1 > Len(cola)
    <3>1. barrido'.en = "espera" /\ DOMAIN cola' = {}
      BY <1>2, <1>3, <2>1, <2>5 DEF Sigue, Quieto
    <3> QED BY <1>3, <2>1, <2>2, <2>4, <3>1 DEF FichasAlcanzan
  <2>6. CASE ~(1 > Len(cola))
    <3>1. barrido'.en # "espera" /\ barrido'.i = 1 /\ DOMAIN cola' = K
      BY <1>2, <2>1, <2>6 DEF Sigue
    <3>2. 1 .. (barrido'.i - 1) = {} /\ Fichas' + 1 = t
      BY <1>3, <2>2, <3>1
    <3> QED BY <1>3, <2>1, <2>2, <2>3, <2>4, <3>1, <3>2 DEF FichasAlcanzan
  <2> QED BY <2>5, <2>6
<1>6. ASSUME barrido.en # "espera", UNCHANGED <<cola, binario>>, barrido'.en # "espera",
             barrido'.i = barrido.i
      PROVE  FichasAlcanzan'
  <2>1. Fichas' = Fichas /\ Libres' = Libres
    BY <1>2, <1>3, <1>4, <1>6
  <2> HIDE DEF Fichas, Libres
  <2> QED BY <1>6, <2>1 DEF FichasAlcanzan
<1>7. CASE BarridoExiste
  <2>1. barrido.en = "existe" /\ UNCHANGED binario
    BY <1>7 DEF BarridoExiste
  <2>2. barrido.i \in DOMAIN cola /\ barrido.x = cola[barrido.i]
    BY <2>1, EntradaDelBarrido
  <2>3. existe_io(barrido.x.n)
    BY <2>2 DEF Existen
  <2>4. barrido' = [barrido EXCEPT !.en = "libre"] /\ UNCHANGED cola
    BY <1>7, <2>3 DEF BarridoExiste
  <2>5. barrido'.en = "libre" /\ barrido'.i = barrido.i
    BY <2>1, <2>4, BarridoTipo
  <2> QED BY <1>6, <2>1, <2>4, <2>5
<1>8. CASE BarridoLibre
  <2>1. barrido.en = "libre" /\ UNCHANGED <<cola, binario>>
    BY <1>8 DEF BarridoLibre
  <2>2. CASE hay_alguno_libre_io(barrido.x.n)
    <3>1. barrido' = [barrido EXCEPT !.en = "ocupa"]
      BY <1>8, <2>2 DEF BarridoLibre
    <3>2. barrido'.en = "ocupa" /\ barrido'.i = barrido.i
      BY <2>1, <3>1, BarridoTipo
    <3> QED BY <1>6, <2>1, <3>2
  <2>3. CASE ~hay_alguno_libre_io(barrido.x.n)
    <3>a. PICK i : i = barrido.i
      OBVIOUS
    <3>1. barrido' = Sigue(i + 1) /\ cola' = c
      BY <1>2, <1>8, <2>1, <2>3, <3>a DEF BarridoLibre
    <3>2. i \in 1..Len(c) /\ barrido.x = c[i]
      BY <1>2, <1>3, <2>1, <3>a, EntradaDelBarrido
    <3>3. Alcanzan(c, l, K, t + 1) /\ Alcanzan(c, l, 1 .. (i - 1), t)
      BY <1>2, <2>1, <3>a DEF FichasAlcanzan
    <3>4. \A d \in l : Nombre[d] # c[i].n
      BY <1>2, <2>3, <3>2 DEF hay_alguno_libre_io, Llamado, Libres
    <3>5. \A k \in 1 .. i : k \in 1 .. (i - 1) \/ \A d \in l : Nombre[d] # c[k].n
      BY <3>2, <3>4
    <3>6. l \in SUBSET l /\ t \in Int /\ t <= t
      BY <1>3
    <3>7. Alcanzan(c, l, 1 .. i, t)
      BY <3>3, <3>5, <3>6, AlcanzanMenos
    <3>8. CASE i + 1 > Len(c)
      <4>1. barrido'.en = "espera" /\ DOMAIN cola' = 1 .. i
        BY <1>2, <1>3, <3>1, <3>2, <3>8 DEF Sigue, Quieto
      <4> QED BY <1>3, <1>4, <2>1, <3>1, <3>7, <4>1 DEF FichasAlcanzan
    <3>9. CASE ~(i + 1 > Len(c))
      <4>1. barrido'.en # "espera" /\ barrido'.i = i + 1 /\ DOMAIN cola' = K
        BY <1>2, <3>1, <3>9 DEF Sigue
      <4>2. 1 .. (barrido'.i - 1) = 1 .. i
        BY <3>2, <4>1
      <4> QED BY <1>3, <1>4, <2>1, <3>1, <3>3, <3>7, <4>1, <4>2 DEF FichasAlcanzan
    <3> QED BY <3>8, <3>9
  <2> QED BY <2>2, <2>3
<1> QED BY <1>5, <1>7, <1>8

\* The pass serves a process: the token it took is spent.
LEMMA FichasOcupa ==
  ASSUME TiposCola, TiposLista, UnaEntrada, Vigente, OcupaUnoLibre, FichasAlcanzan, BarridoOcupa
  PROVE  FichasAlcanzan'
<1>a. PICK i : i = barrido.i
  OBVIOUS
<1>b. PICK d : d = Primero(cola[i].n)
  OBVIOUS
<1>c. PICK c, K, l, t : c = cola /\ K = DOMAIN cola /\ l = Libres /\ t = Fichas
  OBVIOUS
<1>d. PICK c2, K2, l2 : c2 = cola' /\ K2 = DOMAIN cola' /\ l2 = Libres'
  OBVIOUS
<1>0. barrido.en = "ocupa" /\ barrido.x = cola[i] /\ SinEntrada(i) = RemoveAt(cola, i)
  BY <1>a, EntradaDelBarrido DEF BarridoOcupa
<1>1. /\ barrido.en = "ocupa" /\ barrido'.en = "espera" /\ cola' = RemoveAt(cola, i)
      /\ UNCHANGED <<binario, hilo, lista_IO>>
      /\ proceso' = IF d = Nadie THEN proceso ELSE [proceso EXCEPT ![d] = cola[i].pid]
  BY <1>0, <1>a, <1>b DEF BarridoOcupa, Quieto
<1>2. i \in DOMAIN cola /\ cola[i].pid \in Pids /\ Nadie \notin Pids /\ Nadie \notin Dispositivos
  BY <1>1, <1>a, EntradaDelBarrido, Constantes
<1>3. d \in Libres /\ d \in Dispositivos /\ Nombre[d] = cola[i].n
  BY <1>0, <1>b, PrimeroLibre DEF OcupaUnoLibre
<1>4. proceso'[d] # Nadie /\ \A e \in Dispositivos : e # d => proceso'[e] = proceso[e]
  BY <1>1, <1>2, <1>3 DEF TiposLista
<1>5. Range(lista_IO) \subseteq Dispositivos
  BY ElementOfSeq, LenProperties DEF TiposLista, Range
<1>6. l2 \in SUBSET (l \ {d})
  BY <1>1, <1>4, <1>5, <1>c, <1>d DEF Libres
<1>7. \A k \in K2 : \E j \in K : c2[k] = c[j] /\ c[j].pid # c[i].pid
  <2>1. DOMAIN cola = 1..Len(cola) /\ Len(cola) \in Nat /\ i \in 1..Len(cola)
    BY <1>2, LenProperties DEF TiposCola
  <2>2. /\ cola' \in Seq([pid : Pids, n : Nombres]) /\ Len(cola') = Len(cola) - 1
        /\ \A j \in 1..(Len(cola) - 1) : cola'[j] = IF j < i THEN cola[j] ELSE cola[j + 1]
    <3>1. cola \in Seq([pid : Pids, n : Nombres])
      BY DEF TiposCola
    <3> QED BY <1>1, <2>1, <3>1, RemoveAtPropiedades, Zenon
  <2>3. DOMAIN cola' = 1..(Len(cola) - 1)
    BY <2>2, LenProperties
  <2>4. ASSUME NEW k \in DOMAIN cola'
        PROVE  \E j \in DOMAIN cola : j # i /\ cola'[k] = cola[j]
    <3>1. k \in DOMAIN cola /\ k + 1 \in DOMAIN cola /\ (k < i => k # i) /\ (~(k < i) => k + 1 # i)
      BY <2>1, <2>3
    <3> QED BY <2>2, <2>3, <3>1
  <2> QED BY <1>2, <1>c, <1>d, <2>4 DEF UnaEntrada
<1>8. Alcanzan(c, l, K, t + 1) /\ t \in Int /\ i \in K /\ d \in l /\ Nombre[d] = c[i].n
  BY <1>1, <1>2, <1>3, <1>c, FichasTipo DEF FichasAlcanzan
<1>9. Alcanzan(c2, l2, K2, t)
  BY <1>6, <1>7, <1>8, AlcanzanOcupa
<1>10. Fichas' = t
  BY <1>1, <1>c DEF Fichas, Aceptados
<1> QED BY <1>1, <1>9, <1>10, <1>d DEF FichasAlcanzan

\* A process is queued with its token.
LEMMA FichasAgrega ==
  ASSUME TiposProcesos, TiposCola, FichasAlcanzan, NEW p \in Pids, agregar_a_cola_por_IO(p)
  PROVE  FichasAlcanzan'
<1> USE DEF listaVars
<1>a. PICK x : x = [pid |-> p, n |-> sys[p].n]
  OBVIOUS
<1>b. PICK c, K, l, t : c = cola /\ K = DOMAIN cola /\ l = Libres /\ t = Fichas
  OBVIOUS
<1>c. PICK c2, n : c2 = cola' /\ n = Len(cola) + 1
  OBVIOUS
<1>1. /\ sys[p].en = "encola" /\ barrido.en = "espera" /\ cola' = Append(cola, x)
      /\ binario' = binario + 1 /\ UNCHANGED <<barrido, lista_IO, proceso, hilo>> /\ x.pid = p
  BY <1>a DEF agregar_a_cola_por_IO
<1>2. x \in [pid : Pids, n : Nombres]
  BY <1>1, <1>a DEF TiposProcesos, NombresOK
<1>3. /\ DOMAIN cola' = 1..(Len(cola) + 1) /\ DOMAIN cola = 1..Len(cola) /\ Len(cola) \in Nat
      /\ \A i \in 1..Len(cola) : cola'[i] = cola[i]
      /\ cola'[Len(cola) + 1] = x
  <2>1. cola \in Seq([pid : Pids, n : Nombres])
    BY DEF TiposCola
  <2> QED BY <1>1, <1>2, <2>1, AppendProperties, LenProperties
<1>4. Libres' = l
  BY <1>1, <1>b DEF Libres
<1>5. Fichas' = t + 1 /\ t \in Int
  <2>1. PICK a : a = Cardinality(Aceptados)
    OBVIOUS
  <2>2. a \in Nat /\ Fichas' = binario' + a /\ t = binario + a /\ binario \in Nat
    BY <1>1, <1>b, <2>1, FichasTipo DEF Fichas, Aceptados
  <2> QED BY <1>1, <2>2
<1>6. Alcanzan(c, l, K, t)
  BY <1>1, <1>b DEF FichasAlcanzan
<1>7. n \notin K /\ c2[n].pid = p /\ (\A k \in K : c2[k] = c[k]) /\ DOMAIN cola' = K \cup {n}
  BY <1>1, <1>3, <1>b, <1>c
<1>8. Alcanzan(c2, l, K \cup {n}, t + 1)
  BY <1>5, <1>6, <1>7, AlcanzanAgrega
<1> QED BY <1>1, <1>4, <1>5, <1>7, <1>8, <1>c DEF FichasAlcanzan

\* A device connects, gets its thread, or ends an IO.
LEMMA FichasDispositivo ==
  ASSUME TiposCola, TiposLista, TiposDev, Charlas, FichasAlcanzan, NEW d \in Dispositivos,
         conectar_io(d) \/ CreaHilo(d) \/ liberar_io(d)
  PROVE  FichasAlcanzan'
<1> USE DEF colaVars, listaVars
<1>a. PICK A, A2, a, b : /\ A = Aceptados /\ A2 = Aceptados' /\ a = Cardinality(Aceptados)
                         /\ b = binario
  OBVIOUS
<1>1. /\ Fichas = b + a /\ Fichas' = binario' + Cardinality(A2) /\ a = Cardinality(A)
      /\ a \in Nat /\ b \in Nat /\ IsFiniteSet(A)
  BY <1>a, FichasTipo DEF Fichas
<1>2. CASE conectar_io(d)
  <2>1. /\ conexion[d] = "fuera" /\ lista_IO' = Append(lista_IO, d)
        /\ hilo' = [hilo EXCEPT ![d] = "acepta"] /\ UNCHANGED <<cola, binario, barrido, proceso>>
    BY <1>2 DEF conectar_io
  <2>2. d \notin Range(lista_IO) /\ hilo[d] # "acepta"
    BY <2>1 DEF Charlas, Charla, Lista
  <2>3. Range(lista_IO') = Range(lista_IO) \cup {d}
    BY <2>1, <2>2, AppendPropiedades DEF TiposLista
  <2>4. A2 = A \cup {d} /\ d \notin A
    BY <1>a, <2>1, <2>2 DEF Aceptados, TiposDev
  <2>5. Cardinality(A2) = a + 1
    BY <1>1, <2>4, FS_AddElement
  <2>6. Fichas' = Fichas + 1
    BY <1>1, <1>a, <2>1, <2>5
  <2>7. Libres' \subseteq Libres \cup {d}
    BY <2>1, <2>3 DEF Libres
  <2> QED BY <2>1, <2>6, <2>7, FichasMas
<1>3. CASE CreaHilo(d)
  <2>1. /\ hilo[d] = "acepta" /\ hilo' = [hilo EXCEPT ![d] = "espera"] /\ binario' = b + 1
        /\ UNCHANGED <<cola, barrido, proceso, lista_IO>>
    BY <1>3, <1>a DEF CreaHilo
  <2>2. A2 = A \ {d} /\ d \in A
    BY <1>a, <2>1 DEF Aceptados, TiposDev
  <2>3. Cardinality(A2) = a - 1
    BY <1>1, <2>2, FS_RemoveElement
  <2>4. Fichas' = Fichas /\ Libres' = Libres
    BY <1>1, <2>1, <2>3 DEF Libres
  <2> QED BY <2>1, <2>4, FichasIgual
<1>4. CASE liberar_io(d)
  <2>1. /\ hilo[d] = "libera" /\ hilo' = [hilo EXCEPT ![d] = "espera"] /\ binario' = b + 1
        /\ proceso' = [proceso EXCEPT ![d] = Nadie] /\ UNCHANGED <<cola, barrido, lista_IO>>
    BY <1>4, <1>a DEF liberar_io
  <2>2. A2 = A
    BY <1>a, <2>1 DEF Aceptados, TiposDev
  <2>3. Fichas' = Fichas + 1
    BY <1>1, <2>1, <2>2
  <2>4. \A e \in Dispositivos : e # d => proceso'[e] = proceso[e]
    BY <2>1 DEF TiposLista
  <2>5. Range(lista_IO) \subseteq Dispositivos
    BY ElementOfSeq, LenProperties DEF TiposLista, Range
  <2>6. Libres' \subseteq Libres \cup {d}
    BY <2>1, <2>4, <2>5 DEF Libres
  <2> QED BY <2>1, <2>3, <2>6, FichasMas
<1> QED BY <1>2, <1>3, <1>4

\* Every step keeps the tokens enough.
LEMMA FichasPaso ==
  ASSUME TiposProcesos, TiposCola, TiposLista, TiposDev, Charlas, UnaEntrada, Vigente,
         SinCaidas, Existen, OcupaUnoLibre, FichasAlcanzan, [Next]_vars
  PROVE  FichasAlcanzan'
<1> USE DEF procVars, colaVars, listaVars, devVars
<1>1. ASSUME UNCHANGED <<cola, barrido, binario, lista_IO, proceso>>, Aceptados' = Aceptados
      PROVE  FichasAlcanzan'
  <2>1. Libres' = Libres /\ Fichas' = Fichas
    BY <1>1 DEF Libres, Fichas
  <2> QED BY <1>1, <2>1, FichasIgual
<1>2. CASE UNCHANGED vars
  BY <1>1, <1>2 DEF vars, Aceptados
<1>3. ASSUME NEW p, NEW n, SysComienzoIO(p, n) \/ exec_a_blocked(p) PROVE FichasAlcanzan'
  BY <1>1, <1>3 DEF SysComienzoIO, exec_a_blocked, Aceptados
<1>4. ASSUME NEW d \in Dispositivos, Termina(d) \/ SeCae(d) PROVE FichasAlcanzan'
  BY <1>1, <1>4 DEF Termina, SeCae, Aceptados
<1>5. ASSUME NEW d \in Dispositivos, AtiendeFin(d) PROVE FichasAlcanzan'
  <2>1. /\ hilo[d] = "espera" /\ hilo' = [hilo EXCEPT ![d] = "libera"]
        /\ UNCHANGED <<cola, barrido, binario, lista_IO, proceso>>
    BY <1>5 DEF AtiendeFin
  <2>2. Aceptados' = Aceptados
    BY <2>1 DEF Aceptados, TiposDev
  <2> QED BY <1>1, <2>1, <2>2
<1> QED BY <1>2, <1>3, <1>4, <1>5, FichasAgrega, FichasBarrido, FichasOcupa, FichasDispositivo,
           NadieSeVa
        DEF Next, Llamada, Barrido, HiloIO

\* No connection is lost where none may be.
LEMMA SinCaidasPaso ==
  ASSUME TiposDev, SinCaidas, entorno.caen = {}, [Next]_vars
  PROVE  SinCaidas' /\ entorno' = entorno
<1> USE DEF procVars, colaVars, listaVars, devVars
<1>1. ASSUME UNCHANGED <<conexion, entorno>> PROVE SinCaidas' /\ entorno' = entorno
  BY <1>1 DEF SinCaidas
<1>2. CASE UNCHANGED vars
  BY <1>1, <1>2 DEF vars
<1>3. ASSUME NEW p, NEW n, SysComienzoIO(p, n) \/ Llamada(p) PROVE UNCHANGED <<conexion, entorno>>
  BY <1>3 DEF SysComienzoIO, Llamada, exec_a_blocked, agregar_a_cola_por_IO
<1>4. CASE Barrido
  BY <1>1, <1>4 DEF Barrido, BarridoDespierta, BarridoExiste, BarridoLibre, BarridoOcupa
<1>5. ASSUME NEW d \in Dispositivos, HiloIO(d) \/ Termina(d) PROVE UNCHANGED <<conexion, entorno>>
  BY <1>5 DEF HiloIO, CreaHilo, AtiendeFin, liberar_io, Desconecta, ExpulsaDeLaCola,
     SacaDispositivo, Termina
<1>6. ASSUME NEW d \in Dispositivos, conectar_io(d) PROVE SinCaidas' /\ entorno' = entorno
  BY <1>6 DEF conectar_io, SinCaidas, TiposDev
<1>7. ASSUME NEW d \in Dispositivos PROVE ~SeCae(d)
  BY DEF SeCae
<1> QED BY <1>1, <1>2, <1>3, <1>4, <1>5, <1>6, <1>7 DEF Next

\* The initial states.
LEMMA JustoInicial == ASSUME Init PROVE Justo
<1>1. /\ cola = <<>> /\ binario = 0 /\ barrido.en = "espera"
      /\ \A p \in Pids : sys[p].en = "nada"
  BY DEF Init, Quieto
<1>2. SinCaidas /\ Existen /\ OcupaUnoLibre
  <2>1. SinCaidas
    BY DEF Init, SinCaidas
  <2>2. DOMAIN cola = {}
    BY <1>1, EmptySeq, LenProperties
  <2>3. Existen
    BY <1>1, <2>2 DEF Existen
  <2> QED BY <1>1, <2>1, <2>3 DEF OcupaUnoLibre
<1>3. FichasAlcanzan
  <2>1. TiposCola
    BY InvInicial, TiposPartes DEF IInv
  <2>2. PICK c, l, t : c = cola /\ l = Libres /\ t = Fichas
    OBVIOUS
  <2>3. t \in Nat
    BY <2>1, <2>2, FichasTipo
  <2>4. Alcanzan(c, l, {}, t)
    BY <2>3, AlcanzanNada
  <2>5. DOMAIN cola = {}
    BY <1>1, EmptySeq, LenProperties
  <2> QED BY <1>1, <2>2, <2>4, <2>5 DEF FichasAlcanzan
<1> QED BY <1>2, <1>3 DEF Justo

\* Every step.
LEMMA JustoPaso == ASSUME IInv, Justo, [Next]_vars PROVE Justo'
<1>1. TiposProcesos /\ TiposCola /\ TiposLista /\ TiposDev /\ Charlas
  BY TiposPartes DEF IInv
<1>2. SUFFICES ASSUME (entorno.caen = {})' PROVE Justo'
  BY DEF Justo
<1>3. entorno' = entorno
  BY EntornoFijo
<1>4. entorno.caen = {} /\ UnaEntrada /\ Vigente
  <2>1. entorno.caen = {}
    BY <1>2, <1>3
  <2>2. ~entorno.quita
    BY <1>1, <2>1, Constantes DEF TiposProcesos
  <2> QED BY <2>1, <2>2 DEF IInv, UnLugar
<1>5. SinCaidas /\ Existen /\ OcupaUnoLibre /\ FichasAlcanzan
  BY <1>4 DEF Justo
<1>6. SinCaidas' /\ Existen' /\ OcupaUnoLibre' /\ FichasAlcanzan'
  BY <1>1, <1>4, <1>5, SinCaidasPaso, ExistenPaso, OcupaPaso, FichasPaso
<1> QED BY <1>6 DEF Justo

\* Without disconnections the tokens posted, with the one of the pass, are enough for
\* every process that waits for a device it could have.
THEOREM FichasBastan == Spec => []Justo
<1>1. Init => Justo
  BY JustoInicial
<1>2. IInv /\ Justo /\ [Next]_vars => Justo'
  BY JustoPaso
<1> QED BY <1>1, <1>2, Invariante, PTL DEF Spec

\* When the thread of the queue has no token left, no process of the queue asked for a
\* device that is free: post on every event, one process per token, is enough.
THEOREM NadieOlvidado == Spec => []NadieEsperaPorUnoLibre
<1>1. ASSUME IInv, Justo PROVE NadieEsperaPorUnoLibre
  <2>1. SUFFICES ASSUME entorno.caen = {}, Reposo, NEW i \in DOMAIN cola,
                        hay_alguno_libre_io(cola[i].n)
                 PROVE  FALSE
    BY DEF NadieEsperaPorUnoLibre
  <2>2. barrido.en = "espera" /\ binario = 0 /\ Aceptados = {}
    BY <2>1 DEF Reposo, Aceptados
  <2>3. Fichas = 0
    BY <2>2, FS_EmptySet DEF Fichas
  <2>4. PICK c, K, l : c = cola /\ K = DOMAIN cola /\ l = Libres
    OBVIOUS
  <2>5. Alcanzan(c, l, K, 0)
    BY <1>1, <2>1, <2>2, <2>3, <2>4 DEF Justo, FichasAlcanzan
  <2>6. PICK d \in l : Nombre[d] = c[i].n
    BY <2>1, <2>4 DEF hay_alguno_libre_io, Llamado, Libres
  <2> QED BY <2>1, <2>4, <2>5, <2>6, AlcanzanSinFichas
<1> QED BY <1>1, Invariante, FichasBastan, PTL
=============================================================================
