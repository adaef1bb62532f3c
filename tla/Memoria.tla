------------------------------ MODULE Memoria ------------------------------
(***************************************************************************)
(* The memory module: frames, page tables and the swap file. One thread    *)
(* serves the kernel (atender_memoria_kernel) and one thread serves each   *)
(* CPU (atender_memoria_cpu). They share the process list, the tables, the *)
(* bitmap and the user space; only the first and the third have a mutex.   *)
(*                                                                         *)
(* A step is what a thread does between two points where the others see    *)
(* it. MEMORIA_OCUPADA, the swap file and procesos_en_swap belong to the   *)
(* thread of the kernel alone, so a change of theirs goes with the step    *)
(* next to it. A multi-level table is the function from the pages of a     *)
(* process to frames, cut into leaves of ENTRADAS_POR_TABLA pages.         *)
(*                                                                         *)
(* The kernel asks for what the life cycle of a process allows (fase). A   *)
(* CPU and the thread that serves it take turns and are one actor.         *)
(***************************************************************************)
EXTENDS Integers, SequencesExt

CONSTANTS
  Pids, CPUs,
  Nadie,               \* NULL
  Tamanio,             \* bytes of each process
  TAM_MEMORIA, TAM_PAGINA, ENTRADAS_POR_TABLA,
  Caches,              \* configurations of the CPUs: FALSE is ENTRADAS_CACHE = 0
  Basuras,             \* what malloc may leave in the bitmap
  MaxSwap,             \* bound: pages of the swap file
  MaxEntradas,         \* bound: entries of procesos_en_swap
  MaxEscrituras        \* bound: writes to each page

framesMaximos == TAM_MEMORIA \div TAM_PAGINA
Marcos == 0..(framesMaximos - 1)
SinMarco == -1

\* ceil(tamanio / TAM_PAGINA)
cantidad_paginas(p) == (Tamanio[p] + TAM_PAGINA - 1) \div TAM_PAGINA
Pag(p) == 0..(cantidad_paginas(p) - 1)
Paginas == UNION {{p} \X Pag(p) : p \in Pids}

ASSUME MemoriaConstantesOK ==
  /\ Tamanio \in [Pids -> Nat]
  /\ TAM_MEMORIA \in Nat /\ TAM_PAGINA \in Nat \ {0} /\ ENTRADAS_POR_TABLA \in Nat \ {0}
  /\ Caches \subseteq BOOLEAN /\ Basuras \subseteq SUBSET Marcos
  /\ MaxSwap \in Nat /\ MaxEntradas \in Nat /\ MaxEscrituras \in Nat
  /\ Nadie \notin Pids

VARIABLES
  conCache, sucios,    \* configuration: Caches, and the garbage of the bitmap
  fase,                \* where the kernel has each process
  viva,                \* is its proceso_t in lista_procesos, with its tables
  tabla,               \* marcos[] of the tables: page -> frame
  bitmap,              \* frames marked
  ocupada,             \* MEMORIA_OCUPADA
  espacio,             \* espacio_usuario, by frame
  archivo, entradas,   \* the swap file by page, and procesos_en_swap
  k, lista_marcos,     \* thread of the kernel, frames it has yet to copy out
  cpu,                 \* each CPU with its thread
  escrito              \* history: writes a program has made to each page

mem  == <<viva, tabla, bitmap, ocupada>>
swap == <<archivo, entradas, lista_marcos>>
conf == <<conCache, sucios>>
vars == <<conf, fase, mem, espacio, swap, k, cpu, escrito>>

\* Contents of a page: zeros, blanks, or what write number v to page x left.
Cero == <<Nadie, 0>>
Blancos == <<Nadie, 1>>
Dato(x, v) == <<x, v>>

-----------------------------------------------------------------------------
(* Frames.                                                                   *)

\* Mutant of Libres: the loop over the bitmap goes one too far.
Libres_de_mas == (0..framesMaximos) \ bitmap

Libres == Marcos \ bitmap

\* Mutant of MarcosA: the frame is not marked.
MarcosA_sin_marcar(f) == bitmap

\* The bitmap once asignar_marco_libre has handed out frame f.
MarcosA(f) == bitmap \cup {f}

\* The first frame that is free, marked; or none.
asignar_marco_libre(f) ==
  \/ /\ f \in Libres /\ \A g \in Libres : f <= g
     /\ bitmap' = MarcosA(f)
  \/ /\ Libres = {} /\ f = SinMarco
     /\ UNCHANGED bitmap

espacio_libre_en_memoria == TAM_MEMORIA - ocupada

\* Pages of p in the order of the table, and those of its leaf h.
Hoja(p, h) == {x \in Paginas : x[1] = p /\ x[2] \div ENTRADAS_POR_TABLA = h}
ConMarco(X) == {x \in X : tabla[x] # SinMarco}
Hojas(p) == {x[2] \div ENTRADAS_POR_TABLA : x \in {y \in Paginas : y[1] = p}}
EnOrden(X) ==
  CHOOSE s \in [1..Cardinality(X) -> X] : \A i, j \in DOMAIN s : i < j => s[i][2] < s[j][2]

-----------------------------------------------------------------------------
(* atender_memoria_kernel.                                                   *)

EnReposo == [en |-> "recibe", op |-> "", p |-> Nadie, i |-> 0, f |-> SinMarco]

Atiende(op, p, en) == k' = [EnReposo EXCEPT !.op = op, !.p = p, !.en = en]
Pasa(p, f) == fase' = [fase EXCEPT ![p] = f]

\* A process with no bytes has no tables. One that does not fit is refused. Else
\* it is listed, with empty tables, and its pages get frames one by one.
CREAR(p) ==
  /\ k.en = "recibe" /\ fase[p] = "nuevo"
  /\ Tamanio[p] <= espacio_libre_en_memoria
  /\ viva' = [viva EXCEPT ![p] = TRUE]
  /\ IF Tamanio[p] = 0 THEN Pasa(p, "listo") /\ UNCHANGED k
     ELSE Atiende("CREAR", p, "asigna") /\ UNCHANGED fase
  /\ UNCHANGED <<conf, tabla, bitmap, ocupada, espacio, swap, cpu, escrito>>

\* asignar_marcos_a_tabla at page k.i: a page that has a frame keeps it; with no
\* free frame the whole assignment fails with the frames it took left assigned.
\* A failed CREAR destroys the process and its tables (the list still points to
\* it, but free() has overwritten its pid); a failed desuspender answers an
\* error and then its caller an OK, and the kernel may believe either.
AsignarMarco ==
  LET x == <<k.p, k.i>>
  IN /\ k.en = "asigna" /\ x \in Paginas
     /\ \/ /\ tabla[x] # SinMarco
           /\ k' = [k EXCEPT !.i = @ + 1]
           /\ UNCHANGED <<bitmap, viva, fase, tabla>>
        \/ /\ tabla[x] = SinMarco
           /\ \E f \in Libres : asignar_marco_libre(f) /\ k' = [k EXCEPT !.en = "guarda", !.f = f]
           /\ UNCHANGED <<viva, fase, tabla>>
        \/ /\ tabla[x] = SinMarco /\ asignar_marco_libre(SinMarco)
           /\ k' = EnReposo
           /\ \/ /\ k.op = "CREAR"
                 /\ viva' = [viva EXCEPT ![k.p] = FALSE]
                 /\ tabla' = [y \in Paginas |-> IF y[1] = k.p THEN SinMarco ELSE tabla[y]]
                 /\ UNCHANGED fase
              \/ /\ k.op = "DESUSPENDER"
                 /\ \E s \in {"susp", "listo"} : Pasa(k.p, s)
                 /\ UNCHANGED <<viva, tabla>>
     /\ UNCHANGED <<conf, ocupada, espacio, swap, cpu, escrito>>

\* Mutant of GuardarMarco: MEMORIA_OCUPADA is not brought up to date.
GuardarMarco_sin_contar ==
  /\ k.en = "guarda"
  /\ tabla' = [tabla EXCEPT ![<<k.p, k.i>>] = k.f]
  /\ k' = [k EXCEPT !.en = "asigna", !.i = @ + 1, !.f = SinMarco]
  /\ UNCHANGED <<conf, fase, viva, bitmap, ocupada, espacio, swap, cpu, escrito>>

GuardarMarco ==
  /\ k.en = "guarda"
  /\ tabla' = [tabla EXCEPT ![<<k.p, k.i>>] = k.f]
  /\ ocupada' = ocupada + TAM_PAGINA
  /\ k' = [k EXCEPT !.en = "asigna", !.i = @ + 1, !.f = SinMarco]
  /\ UNCHANGED <<conf, fase, viva, bitmap, espacio, swap, cpu, escrito>>

\* Every page has been looked at: CREAR answers, DESUSPENDER goes on to read.
FinAsignacion ==
  /\ k.en = "asigna" /\ <<k.p, k.i>> \notin Paginas
  /\ IF k.op = "CREAR" THEN Pasa(k.p, "listo") /\ k' = EnReposo
     ELSE k' = [k EXCEPT !.en = "lee", !.i = 0] /\ UNCHANGED fase
  /\ UNCHANGED <<conf, mem, espacio, swap, cpu, escrito>>

\* Mutant of SUSPENDER: the pages go to the start of the swap file.
SUSPENDER_al_principio(p) ==
  /\ k.en = "recibe" /\ fase[p] = "bloq" /\ viva[p]
  /\ Len(archivo) + cantidad_paginas(p) <= MaxSwap /\ Len(entradas) < MaxEntradas
  /\ entradas' = Append(entradas, [pid |-> p, ini |-> 0])
  /\ Atiende("SUSPENDER", p, "recolecta")
  /\ Pasa(p, "susp")
  /\ UNCHANGED <<conf, mem, espacio, archivo, lista_marcos, cpu, escrito>>

\* The entry of the process starts at the end of the swap file.
SUSPENDER(p) ==
  /\ k.en = "recibe" /\ fase[p] = "bloq" /\ viva[p]
  /\ Len(archivo) + cantidad_paginas(p) <= MaxSwap /\ Len(entradas) < MaxEntradas
  /\ entradas' = Append(entradas, [pid |-> p, ini |-> Len(archivo)])
  /\ Atiende("SUSPENDER", p, "recolecta")
  /\ Pasa(p, "susp")
  /\ UNCHANGED <<conf, mem, espacio, archivo, lista_marcos, cpu, escrito>>

\* recolectar_marcos_suspender at leaf k.i: under mutex_bitmap its frames are
\* listed, taken from the table and freed. Nothing has been copied yet.
RecolectarMarcos ==
  LET X == ConMarco(Hoja(k.p, k.i))
      orden == EnOrden(X)
  IN /\ k.en = "recolecta" /\ k.i \in Hojas(k.p)
     /\ tabla' = [x \in Paginas |-> IF x \in X THEN SinMarco ELSE tabla[x]]
     /\ bitmap' = bitmap \ {tabla[x] : x \in X}
     /\ ocupada' = ocupada - TAM_PAGINA * Cardinality(X)
     /\ lista_marcos' = lista_marcos \o [j \in DOMAIN orden |-> tabla[orden[j]]]
     /\ k' = [k EXCEPT !.i = @ + 1]
     /\ UNCHANGED <<conf, fase, viva, espacio, archivo, entradas, cpu, escrito>>

FinRecoleccion ==
  /\ k.en = "recolecta" /\ k.i \notin Hojas(k.p)
  /\ k' = [k EXCEPT !.en = "copia", !.i = 0]
  /\ UNCHANGED <<conf, fase, mem, espacio, swap, cpu, escrito>>

\* Writing past the end of the file fills the gap with zeros.
Escribir(a, pos, c) ==
  [i \in 1..(IF pos < Len(a) THEN Len(a) ELSE pos + 1) |->
     IF i = pos + 1 THEN c ELSE IF i <= Len(a) THEN a[i] ELSE Cero]

buscar_entrada_swap_por_pid(p) ==
  LET I == {i \in DOMAIN entradas : entradas[i].pid = p}
  IN IF I = {} THEN 0 ELSE Min(I)

\* The rest of suspender_proceso_a_swap: the frames, now free, go to the file.
CopiarASwap ==
  /\ k.en = "copia"
  /\ \/ /\ k.i < Len(lista_marcos)
        /\ archivo' = Escribir(archivo, Last(entradas).ini + k.i, espacio[lista_marcos[k.i + 1]])
        /\ k' = [k EXCEPT !.i = @ + 1]
        /\ UNCHANGED lista_marcos
     \/ /\ k.i = Len(lista_marcos)
        /\ k' = EnReposo /\ lista_marcos' = <<>>
        /\ UNCHANGED archivo
  /\ UNCHANGED <<conf, fase, mem, espacio, entradas, cpu, escrito>>

\* A process that does not fit stays suspended. One with no tables or no entry
\* gets an error and then an OK, as when the assignment fails.
DESUSPENDER(p) ==
  /\ k.en = "recibe" /\ fase[p] = "susp" /\ viva[p]
  /\ cantidad_paginas(p) * TAM_PAGINA <= espacio_libre_en_memoria
  /\ IF Tamanio[p] > 0 /\ buscar_entrada_swap_por_pid(p) # 0
     THEN Atiende("DESUSPENDER", p, "asigna") /\ UNCHANGED fase
     ELSE UNCHANGED k /\ \E s \in {"susp", "listo"} : Pasa(p, s)
  /\ UNCHANGED <<conf, mem, espacio, swap, cpu, escrito>>

LeerDeSwap ==
  /\ k.en = "lee" /\ <<k.p, k.i>> \in Paginas
  /\ LET pos == entradas[buscar_entrada_swap_por_pid(k.p)].ini + k.i
     IN espacio' = [espacio EXCEPT ![tabla[<<k.p, k.i>>]] =
                      IF pos < Len(archivo) THEN archivo[pos + 1] ELSE @]
  /\ k' = [k EXCEPT !.i = @ + 1]
  /\ UNCHANGED <<conf, fase, mem, swap, cpu, escrito>>

\* The swap file after borrar_espacio_swap of entry e.
borrar_espacio_swap(e) ==
  LET ultima == entradas[e].ini + cantidad_paginas(entradas[e].pid)
  IN [i \in 1..(IF ultima < Len(archivo) THEN Len(archivo) ELSE ultima) |->
        IF i > entradas[e].ini /\ i <= ultima THEN Blancos
        ELSE IF i <= Len(archivo) THEN archivo[i] ELSE Cero]

FinDesuspension ==
  /\ k.en = "lee" /\ <<k.p, k.i>> \notin Paginas
  /\ LET e == buscar_entrada_swap_por_pid(k.p)
     IN archivo' = borrar_espacio_swap(e) /\ entradas' = RemoveAt(entradas, e)
  /\ Pasa(k.p, "listo")
  /\ k' = EnReposo
  /\ UNCHANGED <<conf, mem, espacio, lista_marcos, cpu, escrito>>

\* FINALIZAR. In swap: the entry is destroyed as if it were the proceso_t (if the
\* memory survives that, the process is still listed). In memory: its frames are
\* cleared and freed, then the process leaves the list.
FINALIZAR(p) ==
  LET e == buscar_entrada_swap_por_pid(p)
      X == ConMarco({x \in Paginas : x[1] = p})
      F == {tabla[x] : x \in X}
  IN /\ k.en = "recibe" /\ fase[p] \in {"saliendo", "bloq", "susp"} /\ viva[p]
     /\ Pasa(p, "fin")
     /\ \/ /\ Tamanio[p] = 0
           /\ viva' = [viva EXCEPT ![p] = FALSE]
           /\ UNCHANGED <<bitmap, ocupada, espacio, swap, k>>
        \/ /\ Tamanio[p] > 0 /\ e # 0
           /\ archivo' = borrar_espacio_swap(e) /\ entradas' = RemoveAt(entradas, e)
           /\ UNCHANGED <<viva, bitmap, ocupada, espacio, lista_marcos, k>>
        \/ /\ Tamanio[p] > 0 /\ e = 0
           /\ espacio' = [f \in Marcos |-> IF f \in F THEN Cero ELSE espacio[f]]
           /\ bitmap' = bitmap \ F
           /\ ocupada' = ocupada - TAM_PAGINA * cantidad_paginas(p)
           /\ Atiende("FINALIZAR", p, "destruye")
           /\ UNCHANGED <<viva, swap>>
     /\ UNCHANGED <<conf, tabla, cpu, escrito>>

eliminar_proceso_en_memoria ==
  /\ k.en = "destruye"
  /\ viva' = [viva EXCEPT ![k.p] = FALSE]
  /\ tabla' = [y \in Paginas |-> IF y[1] = k.p THEN SinMarco ELSE tabla[y]]
  /\ k' = EnReposo
  /\ UNCHANGED <<conf, fase, bitmap, ocupada, espacio, swap, cpu, escrito>>

-----------------------------------------------------------------------------
(* A CPU and atender_memoria_cpu. With a cache, at most one page is dirty.   *)

CpuLibre == [en |-> "libre", p |-> Nadie, i |-> 0, f |-> SinMarco, vacia |-> FALSE,
             sucia |-> -1, dir |-> SinMarco, v |-> 0]

VaCpu(c, en) == cpu' = [cpu EXCEPT ![c].en = en]
Pagina(c) == <<cpu[c].p, cpu[c].i>>

\* The kernel gives the CPU a process that is in READY.
Despachar(c, p) ==
  /\ cpu[c].en = "libre" /\ fase[p] = "listo"
  /\ Pasa(p, "exec")
  /\ cpu' = [cpu EXCEPT ![c] = [CpuLibre EXCEPT !.en = "ejecuta", !.p = p]]
  /\ UNCHANGED <<conf, mem, espacio, swap, k, escrito>>

\* WRITE to a page that is not in the cache asks for its frame.
PedirMarco(c) ==
  /\ cpu[c].en = "ejecuta" /\ cpu[c].sucia = -1
  /\ \E i \in Pag(cpu[c].p) :
       /\ escrito[<<cpu[c].p, i>>] < MaxEscrituras
       /\ cpu' = [cpu EXCEPT ![c].en = "busca", ![c].i = i]
  /\ UNCHANGED <<conf, fase, mem, espacio, swap, k, escrito>>

\* Mutant of BloquearOSalir: a CPU with no cache makes the system call without
\* waiting for the frame it asked for, and writes afterwards.
BloquearOSalir_sin_esperar(c) ==
  /\ cpu[c].en \in {"ejecuta", "busca"} /\ ~cpu[c].vacia
  /\ fase[cpu[c].p] = "exec"
  /\ \E s \in {"bloq", "saliendo"} : Pasa(cpu[c].p, s)
  /\ cpu' = [cpu EXCEPT ![c] =
       IF @.en # "ejecuta" THEN @
       ELSE IF @.sucia = -1 THEN CpuLibre
       ELSE [@ EXCEPT !.en = "busca", !.i = cpu[c].sucia, !.vacia = TRUE]]
  /\ UNCHANGED <<conf, mem, espacio, swap, k, escrito>>

\* A blocking system call or EXIT: it is sent first. Then desalojar_proceso
\* clears the TLB and writes the dirty pages back, asking for the frame of each.
BloquearOSalir(c) ==
  /\ cpu[c].en = "ejecuta"
  /\ \E s \in {"bloq", "saliendo"} : Pasa(cpu[c].p, s)
  /\ cpu' = [cpu EXCEPT ![c] =
       IF @.sucia = -1 THEN CpuLibre
       ELSE [@ EXCEPT !.en = "busca", !.i = cpu[c].sucia, !.vacia = TRUE]]
  /\ UNCHANGED <<conf, mem, espacio, swap, k, escrito>>

\* What wakes a blocked process that was not suspended.
FinIO(p) ==
  /\ fase[p] = "bloq" /\ Pasa(p, "listo")
  /\ UNCHANGED <<conf, mem, espacio, swap, k, cpu, escrito>>

\* REQUEST_FRAME. An unknown process gets no answer: the CPU waits for ever.
BuscarProceso(c) ==
  /\ cpu[c].en = "busca"
  /\ VaCpu(c, IF viva[cpu[c].p] THEN "mira" ELSE "colgada")
  /\ UNCHANGED <<conf, fase, mem, espacio, swap, k, escrito>>

\* The table is read without a lock, a delay per level after the process was
\* found. A page with no frame gets the first free one. The tables of a process
\* destroyed in between are freed memory: anything may be read there.
MirarMarco(c) ==
  LET x == Pagina(c)
  IN /\ cpu[c].en = "mira"
     /\ \/ /\ viva[cpu[c].p] /\ tabla[x] # SinMarco
           /\ cpu' = [cpu EXCEPT ![c].en = "usa", ![c].f = tabla[x]]
           /\ UNCHANGED bitmap
        \/ /\ viva[cpu[c].p] => tabla[x] = SinMarco
           /\ \E f \in Libres \cup {SinMarco} :
                /\ asignar_marco_libre(f)
                /\ cpu' = [cpu EXCEPT ![c].en = IF f = SinMarco THEN "usa" ELSE "guarda", ![c].f = f]
        \/ /\ ~viva[cpu[c].p]
           /\ \E f \in Marcos : cpu' = [cpu EXCEPT ![c].en = "usa", ![c].f = f]
           /\ UNCHANGED bitmap
     /\ UNCHANGED <<conf, fase, viva, tabla, ocupada, espacio, swap, k, escrito>>

\* The frame goes into the table; MEMORIA_OCUPADA is not told.
GuardarMarcoCPU(c) ==
  /\ cpu[c].en = "guarda"
  /\ tabla' = IF viva[cpu[c].p] THEN [tabla EXCEPT ![Pagina(c)] = cpu[c].f] ELSE tabla
  /\ VaCpu(c, "usa")
  /\ UNCHANGED <<conf, fase, viva, bitmap, ocupada, espacio, swap, k, escrito>>

\* REQUEST_WRITE, with no cache. The CPU does not wait for the answer, but its
\* next fetch goes through the same socket: the write is done before it. A write
\* outside the memory, or of an unknown process, is refused; the CPU ignores it.
EscribirMemoria(c) ==
  LET x == Pagina(c)
      n == escrito[x] + 1
  IN /\ cpu[c].en = "usa" /\ ~conCache
     /\ escrito' = [escrito EXCEPT ![x] = n]
     /\ espacio' = IF cpu[c].f # SinMarco /\ viva[cpu[c].p]
                   THEN [espacio EXCEPT ![cpu[c].f] = Dato(x, n)] ELSE espacio
     /\ VaCpu(c, "ejecuta")
     /\ UNCHANGED <<conf, fase, mem, swap, k>>

\* REQUEST_READ_FULL_PAGE and the write to the copy in the cache, with the
\* address the page had. With frame -1 there is no answer: the address is not
\* aligned or, when it is, the check of the range wraps and the read is undefined.
EscribirCache(c) ==
  LET x == Pagina(c)
      n == escrito[x] + 1
  IN /\ cpu[c].en = "usa" /\ conCache /\ ~cpu[c].vacia
     /\ IF cpu[c].f = SinMarco THEN VaCpu(c, "colgada") /\ UNCHANGED escrito
        ELSE /\ escrito' = [escrito EXCEPT ![x] = n]
             /\ cpu' = [cpu EXCEPT ![c].en = "ejecuta", ![c].sucia = cpu[c].i,
                                   ![c].dir = cpu[c].f, ![c].v = n]
     /\ UNCHANGED <<conf, fase, mem, espacio, swap, k>>

\* desalojar_proceso_cache: REQUEST_WRITE_FULL_PAGE goes to the address kept in
\* the cache, not to the frame it has just asked for. No process is looked up.
VaciarCache(c) ==
  /\ cpu[c].en = "usa" /\ cpu[c].vacia
  /\ espacio' = [espacio EXCEPT ![cpu[c].dir] = Dato(<<cpu[c].p, cpu[c].sucia>>, cpu[c].v)]
  /\ cpu' = [cpu EXCEPT ![c] = CpuLibre]
  /\ UNCHANGED <<conf, fase, mem, swap, k, escrito>>

-----------------------------------------------------------------------------
Init ==
  /\ conCache \in Caches /\ sucios \in Basuras
  /\ fase = [p \in Pids |-> "nuevo"]
  /\ viva = [p \in Pids |-> FALSE]
  /\ tabla = [x \in Paginas |-> SinMarco]
  /\ bitmap = sucios /\ ocupada = 0
  /\ espacio = [f \in Marcos |-> Cero]
  /\ archivo = <<>> /\ entradas = <<>>
  /\ k = EnReposo /\ lista_marcos = <<>>
  /\ cpu = [c \in CPUs |-> CpuLibre]
  /\ escrito = [x \in Paginas |-> 0]

Kernel ==
  \/ \E p \in Pids : CREAR(p) \/ SUSPENDER(p) \/ DESUSPENDER(p) \/ FINALIZAR(p)
  \/ AsignarMarco \/ GuardarMarco \/ FinAsignacion
  \/ RecolectarMarcos \/ FinRecoleccion \/ CopiarASwap
  \/ LeerDeSwap \/ FinDesuspension \/ eliminar_proceso_en_memoria

Cpu(c) ==
  \/ PedirMarco(c) \/ BloquearOSalir(c)
  \/ BuscarProceso(c) \/ MirarMarco(c) \/ GuardarMarcoCPU(c)
  \/ EscribirMemoria(c) \/ EscribirCache(c) \/ VaciarCache(c)

Next ==
  \/ Kernel
  \/ \E p \in Pids : FinIO(p)
  \/ \E c \in CPUs : Cpu(c) \/ \E p \in Pids : Despachar(c, p)

Spec == Init /\ [][Next]_vars

-----------------------------------------------------------------------------
(* Properties *)

MarcoONada == Marcos \cup {SinMarco}

Fases == {"nuevo", "listo", "exec", "bloq", "susp", "saliendo", "fin"}
PidONadie == Pids \cup {Nadie}

TipoK ==
  [en : {"recibe", "asigna", "guarda", "recolecta", "copia", "lee", "destruye"},
   op : {"", "CREAR", "SUSPENDER", "DESUSPENDER", "FINALIZAR"},
   p : PidONadie, i : Nat, f : MarcoONada]

TipoCpu ==
  [en : {"libre", "ejecuta", "busca", "mira", "guarda", "usa", "colgada"},
   p : PidONadie, i : Int, f : MarcoONada,
   vacia : BOOLEAN, sucia : Int, dir : MarcoONada, v : Nat]

TiposMarcos ==
  /\ viva \in [Pids -> BOOLEAN]
  /\ tabla \in [Paginas -> MarcoONada]
  /\ bitmap \subseteq Marcos /\ ocupada \in Int

TiposFijos ==
  /\ conCache \in BOOLEAN /\ sucios \subseteq Marcos
  /\ fase \in [Pids -> Fases]
  /\ escrito \in [Paginas -> Nat]

\* A thread that carries a page carries one of a process.
TiposK ==
  /\ k \in TipoK
  /\ k.en # "recibe" => k.p \in Pids
  /\ k.en = "guarda" => <<k.p, k.i>> \in Paginas /\ k.f \in Marcos

PosicionCpu(r) ==
  /\ r.en # "libre" => r.p \in Pids
  /\ r.en \in {"busca", "mira", "guarda", "usa"} => <<r.p, r.i>> \in Paginas
  /\ r.sucia # -1 => <<r.p, r.sucia>> \in Paginas /\ r.dir \in Marcos
  /\ r.en = "guarda" => r.f \in Marcos
  /\ r.vacia => r.sucia # -1

TiposCpu == cpu \in [CPUs -> TipoCpu] /\ \A c \in CPUs : PosicionCpu(cpu[c])

\* Every variable has its type, and the pages and frames the threads carry from
\* one step to the next exist.
MemoriaTypeOK == TiposMarcos /\ TiposFijos /\ TiposK /\ TiposCpu

\* The page tables whose frames have just been freed, not yet destroyed.
EnDestruccion(x) == k.en = "destruye" /\ k.p = x[1]

\* Pages with a frame, and CPUs whose thread holds one for a page.
EnMesa == {x \in Paginas : tabla[x] # SinMarco /\ ~EnDestruccion(x)}
EnMano == {c \in CPUs : cpu[c].en = "guarda"}

\* Whatever the threads of the CPUs and of the kernel do at once, a frame is in
\* one page of one table, or in the hand of one thread, and is then marked
\* (asignar_marco_libre; the tables themselves have no lock).
MarcosExclusivos ==
  /\ \A x, y \in EnMesa : x # y => tabla[x] # tabla[y]
  /\ \A x \in EnMesa : tabla[x] \in bitmap
  /\ \A c \in EnMano :
       /\ cpu[c].f \in bitmap
       /\ \A x \in EnMesa : tabla[x] # cpu[c].f
       /\ \A d \in EnMano \ {c} : cpu[d].f # cpu[c].f
  /\ k.en = "guarda" =>
       /\ k.f \in bitmap
       /\ \A x \in EnMesa : tabla[x] # k.f
       /\ \A c \in EnMano : cpu[c].f # k.f

\* The configuration in which the memory keeps its promises: no cache in the
\* CPUs, a bitmap that malloc returned clean, a memory of whole pages.
Sano == ~conCache /\ sucios = {} /\ TAM_MEMORIA % TAM_PAGINA = 0

\* MEMORIA_OCUPADA, which decides who is admitted, counts the marked frames, and
\* each of them is in a table: a process that fits always gets all its frames.
ContabilidadExacta ==
  Sano /\ k.en = "recibe" =>
    /\ ocupada = TAM_PAGINA * Cardinality(bitmap)
    /\ bitmap = {tabla[x] : x \in ConMarco(Paginas)}

\* What a program wrote to a page is what the page holds: in its frame while the
\* process is in memory, in its place of the swap file while it is suspended,
\* whoever used its frames in between (suspender_proceso_a_swap,
\* desuspender_proceso_de_swap).
DatosPreservados ==
  Sano /\ k.en = "recibe" =>
    \A x \in Paginas :
      escrito[x] > 0 =>
        /\ fase[x[1]] \in {"listo", "exec", "bloq"} =>
             tabla[x] # SinMarco /\ espacio[tabla[x]] = Dato(x, escrito[x])
        /\ fase[x[1]] = "susp" =>
             LET e == buscar_entrada_swap_por_pid(x[1])
             IN e # 0 /\ archivo[entradas[e].ini + x[2] + 1] = Dato(x, escrito[x])

\* A CPU with no cache always gets an answer: its process is listed as long as
\* the CPU may ask for it (REQUEST_FRAME answers nothing otherwise).
MarcoRespondido == ~conCache => \A c \in CPUs : cpu[c].en # "colgada"

=============================================================================
