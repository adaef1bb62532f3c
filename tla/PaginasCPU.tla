----------------------------- MODULE PaginasCPU -----------------------------
(***************************************************************************)
(* A CPU and the pages it keeps: its TLB and its page cache, in front of   *)
(* the frames of the memory module.                                        *)
(*                                                                         *)
(* A step is one instruction, or one decision of the kernel: the CPU waits *)
(* for each answer of the memory before it goes on. That the memory serves *)
(* the write-backs of desalojar_proceso before the kernel does anything to *)
(* the process is the one assumption (Memoria does without it). A page is  *)
(* a row of cells and a string of the program fills one; pages are of 32   *)
(* bytes, the size whose header the CPU strips, and no program uses the    *)
(* last four, which that loses.                                            *)
(***************************************************************************)
EXTENDS Integers, SequencesExt

CONSTANTS
  Pids,
  CantMarcos,          \* frames of the memory
  Ninguno,             \* -1 as a pid, and no process on the CPU
  CantPaginas,         \* pages of each process
  CantCeldas,          \* cells of a page
  Datos, Cero,         \* strings a program writes, and the byte zero
  Configuraciones,     \* pairs: configuration file of a CPU, and whether the
                       \* kernel may take it from a process (SRT)
  MaxInstrucciones     \* bound: instructions executed

Marcos == 0..(CantMarcos - 1)
SinMarco == -1
Celdas == 0..(CantCeldas - 1)
Pag(p) == 0..(CantPaginas[p] - 1)
Contenido == [Celdas -> Datos \cup {Cero}]
Ceros == [c \in Celdas |-> Cero]

ASSUME PaginasConstantesOK ==
  /\ CantPaginas \in [Pids -> Nat] /\ CantMarcos \in Nat /\ CantCeldas \in Nat \ {0}
  /\ Ninguno \notin Pids /\ Cero \notin Datos
  /\ MaxInstrucciones \in Nat
  /\ Configuraciones \subseteq
       [ENTRADAS_TLB : Nat, REEMPLAZO_TLB : {"FIFO", "LRU"},
        ENTRADAS_CACHE : Nat, REEMPLAZO_CACHE : {"CLOCK", "CLOCK_MODIFICADO"}] \X BOOLEAN

VARIABLES
  config, desaloja,    \* configuration of the CPU, and of the kernel
  pid, tlb, cache,     \* the CPU
  estado,              \* where the kernel has each process
  tabla, espacio,      \* memory: frame of each page, and contents of the frames
  archivo,             \* memory: pages of the suspended processes
  instrucciones,       \* instructions executed
  programa, ultima,    \* history: what the programs wrote to each page, where last
  uso                  \* history: last page looked up in the TLB, and how many were

vars == <<config, desaloja, pid, tlb, cache, estado, tabla, espacio,
          archivo, instrucciones, programa, ultima, uso>>

TLBVacia == [pid |-> Ninguno, nro_pagina |-> -1, marco |-> SinMarco, tiempo |-> 0]
CacheVacia == [pid |-> Ninguno, nro_pagina |-> -1, contenido |-> Ceros, bit_uso |-> 0,
               modificado |-> FALSE, tiempo |-> 0, marco |-> SinMarco]

-----------------------------------------------------------------------------
(* Searches in the two arrays. An index of 0 stands for the -1 of the code.  *)

Primero(S) == IF S = {} THEN 0 ELSE Min(S)

IndiceDe(a, n, p) == Primero({i \in DOMAIN a : a[i].nro_pagina = n /\ a[i].pid = p})
IndiceVacio(a) == Primero({i \in DOMAIN a : a[i].pid = Ninguno})

\* The for loop after a load: the entries in use grow older.
Envejece(a) ==
  [i \in DOMAIN a |-> IF a[i].pid = Ninguno THEN a[i] ELSE [a[i] EXCEPT !.tiempo = @ + 1]]

-----------------------------------------------------------------------------
(* The TLB.                                                                  *)

\* The last one of the oldest.
pagina_mas_antigua(t) ==
  Max({i \in DOMAIN t : \A j \in DOMAIN t : t[j].tiempo <= t[i].tiempo})

\* The entry a page goes to: its own, an empty one or the oldest.
Lugar(t, n, p) ==
  LET pag == IndiceDe(t, n, p)
      vacia == IndiceVacio(t)
  IN IF pag # 0 THEN pag ELSE IF vacia # 0 THEN vacia ELSE pagina_mas_antigua(t)

Traduccion(n, p, m, tiempo) ==
  [pid |-> p, nro_pagina |-> n, marco |-> m, tiempo |-> tiempo]

\* A page that was there keeps its time.
algoritmo_tlb_fifo(t, n, p, m) ==
  LET i == Lugar(t, n, p)
      tiempo == IF IndiceDe(t, n, p) # 0 THEN t[i].tiempo ELSE 0
  IN Envejece([t EXCEPT ![i] = Traduccion(n, p, m, tiempo)])

\* Mutant of algoritmo_tlb_lru: the branch of the page that was there does not
\* reset its time.
algoritmo_tlb_lru_sin_reiniciar(t, n, p, m) == algoritmo_tlb_fifo(t, n, p, m)

algoritmo_tlb_lru(t, n, p, m) ==
  Envejece([t EXCEPT ![Lugar(t, n, p)] = Traduccion(n, p, m, 0)])

actualizar_tlb(t, n, p, m) ==
  IF t = <<>> THEN t
  ELSE IF config.REEMPLAZO_TLB = "FIFO" THEN algoritmo_tlb_fifo(t, n, p, m)
  ELSE algoritmo_tlb_lru(t, n, p, m)

\* A hit gives the frame of the TLB, a miss asks the memory for it.
Marco(n) ==
  LET i == IndiceDe(tlb, n, pid) IN IF i # 0 THEN tlb[i].marco ELSE tabla[pid][n]

-----------------------------------------------------------------------------
(* Contents of a page.                                                       *)

\* Cells before the first zero: the string that starts at the page.
strlen(pagina) == Cardinality({c \in Celdas : \A k \in 0..c : pagina[k] # Cero})

\* memcpy(base + des, pagina, strlen(pagina))
Copia(base, des, pagina) ==
  [c \in Celdas |-> IF des <= c /\ c - des < strlen(pagina) THEN pagina[c - des] ELSE base[c]]

Texto(dato) == [Ceros EXCEPT ![0] = dato]

\* REQUEST_WRITE_FULL_PAGE sends the page as a string: the memory clears the
\* frame and gets what is before the first zero.
ComoString(pagina) == Copia(Ceros, 0, pagina)

\* The page is cleared. If the array has it already (leida is no longer looked
\* at) only the new contents are left; else they go over the page read.
cargar_contenido(esta, leida, des, nuevo) == Copia(IF esta THEN Ceros ELSE leida, des, nuevo)

-----------------------------------------------------------------------------
(* The cache. actualizar_cache copies the contents nuevo to offset des of    *)
(* page n of the running process, whose frame is m.                          *)

Entrada(n, contenido, modificado, m) ==
  [pid |-> pid, nro_pagina |-> n, contenido |-> contenido, bit_uso |-> 1,
   modificado |-> modificado, tiempo |-> 0, marco |-> m]

MasAntigua(c, S) == Min({i \in S : \A j \in S : c[j].tiempo <= c[i].tiempo})

ConBits(c, bit) == {i \in DOMAIN c : c[i].bit_uso = bit}
Limpias(c) == {i \in DOMAIN c : ~c[i].modificado}

\* When every bit_uso is 1 all are cleared.
TodasConSegunda(c) ==
  IF ConBits(c, 0) # {} THEN c ELSE [i \in DOMAIN c |-> [c[i] EXCEPT !.bit_uso = 0]]

\* The oldest (0,0), else the oldest (0,1).
victima_clock_m(c) ==
  LET limpias == ConBits(c, 0) \cap Limpias(c)
  IN MasAntigua(c, IF limpias # {} THEN limpias ELSE ConBits(c, 0))

EscribeEn(i) == [espacio EXCEPT ![cache[i].marco] = ComoString(cache[i].contenido)]

\* The oldest page with bit_uso 0 leaves. It is written back if it is dirty and
\* its number is not that of page n, whoever it belongs to. When it is and the
\* TLB has it, the entry already has the number of page n when its contents are
\* loaded, so the page read is not copied.
algoritmo_cache_clock(n, des, nuevo, modificado, m) ==
  LET c == TodasConSegunda(cache)
      v == MasAntigua(c, ConBits(c, 0))
      escribe == cache[v].nro_pagina # n /\ cache[v].modificado
      esta == escribe /\ IndiceDe(tlb, cache[v].nro_pagina, cache[v].pid) # 0
      pagina == cargar_contenido(esta, espacio[m], des, nuevo)
  IN /\ cache' = Envejece([c EXCEPT ![v] = Entrada(n, pagina, modificado, m)])
     /\ espacio' = IF escribe THEN EscribeEn(v) ELSE espacio

\* Mutant of algoritmo_cache_clock_modificado: a (0,1) victim is not written.
algoritmo_cache_clock_modificado_sin_escribir(n, des, nuevo, modificado, m) ==
  LET c == TodasConSegunda(cache)
      v == victima_clock_m(c)
      pagina == cargar_contenido(FALSE, espacio[m], des, nuevo)
  IN /\ cache' = Envejece([c EXCEPT ![v] = Entrada(n, pagina, modificado, m)])
     /\ UNCHANGED espacio

algoritmo_cache_clock_modificado(n, des, nuevo, modificado, m) ==
  LET c == TodasConSegunda(cache)
      v == victima_clock_m(c)
      pagina == cargar_contenido(FALSE, espacio[m], des, nuevo)
  IN /\ cache' = Envejece([c EXCEPT ![v] = Entrada(n, pagina, modificado, m)])
     /\ espacio' = IF cache[v].modificado THEN EscribeEn(v) ELSE espacio

actualizar_cache(n, des, nuevo, modificado, m) ==
  LET nro == IndiceDe(cache, n, pid)
      vacia == IndiceVacio(cache)
      pagina == cargar_contenido(nro # 0, espacio[m], des, nuevo)
  IN CASE nro # 0 ->
            /\ cache' = [cache EXCEPT ![nro] =
                           [Entrada(n, pagina, modificado, m) EXCEPT !.tiempo = cache[nro].tiempo]]
            /\ UNCHANGED espacio
       [] nro = 0 /\ vacia # 0 ->
            /\ cache' = Envejece([cache EXCEPT ![vacia] = Entrada(n, pagina, modificado, m)])
            /\ UNCHANGED espacio
       [] nro = 0 /\ vacia = 0 /\ config.REEMPLAZO_CACHE = "CLOCK" ->
            algoritmo_cache_clock(n, des, nuevo, modificado, m)
       [] OTHER -> algoritmo_cache_clock_modificado(n, des, nuevo, modificado, m)

\* victima_clock_m, when it writes back, also puts in the TLB a page that is not
\* there: the instruction then does it again.
TLBTrasVictima(n) ==
  LET c == TodasConSegunda(cache)
      reemplaza == IndiceDe(cache, n, pid) = 0 /\ IndiceVacio(cache) = 0
  IN IF /\ config.ENTRADAS_CACHE > 0 /\ config.REEMPLAZO_CACHE = "CLOCK_MODIFICADO"
        /\ reemplaza /\ IndiceDe(tlb, n, pid) = 0
        /\ cache[victima_clock_m(c)].modificado
     THEN actualizar_tlb(tlb, n, pid, Marco(n)) ELSE tlb

UsaTLB(n) ==
  /\ tlb' = actualizar_tlb(TLBTrasVictima(n), n, pid, Marco(n))
  /\ uso' = IF tlb = <<>> THEN uso ELSE [clave |-> <<pid, n>>, veces |-> uso.veces + 1]

-----------------------------------------------------------------------------
(* Instructions.                                                             *)

Ejecuta ==
  /\ pid # Ninguno /\ instrucciones < MaxInstrucciones
  /\ instrucciones' = instrucciones + 1
  /\ UNCHANGED <<config, desaloja, archivo>>

\* WRITE. With a cache the page is brought and changed in it, without one the
\* string goes to the memory. The TLB is left alone when it and the cache (if
\* there is one) have the page.
ejecutar_write(n, des, dato) ==
  LET enTLB == IndiceDe(tlb, n, pid) # 0
      enCache == config.ENTRADAS_CACHE = 0 \/ IndiceDe(cache, n, pid) # 0
  IN /\ Ejecuta
     /\ IF enTLB /\ enCache THEN UNCHANGED <<tlb, uso>> ELSE UsaTLB(n)
     /\ IF config.ENTRADAS_CACHE > 0 THEN actualizar_cache(n, des, Texto(dato), TRUE, Marco(n))
        ELSE /\ espacio' = [espacio EXCEPT ![Marco(n)][des] = dato]
             /\ UNCHANGED cache
     /\ programa' = [programa EXCEPT ![pid][n][des] = dato]
     /\ ultima' = [ultima EXCEPT ![pid][n] = des]
     /\ UNCHANGED <<pid, estado, tabla>>

\* READ. A page that is in the cache is shown as it is; one that is not is loaded,
\* and its string copied over it again at the offset (what would go past the
\* end of the page is undefined and left out).
ejecutar_read(n, des) ==
  LET leida == espacio[Marco(n)]
  IN /\ Ejecuta
     /\ IF IndiceDe(cache, n, pid) # 0 THEN UNCHANGED <<tlb, cache, espacio, uso>>
        ELSE /\ UsaTLB(n)
             /\ IF config.ENTRADAS_CACHE > 0
                THEN /\ des + strlen(leida) <= CantCeldas
                     /\ actualizar_cache(n, des, leida, FALSE, Marco(n))
                ELSE UNCHANGED <<cache, espacio>>
     /\ UNCHANGED <<pid, estado, tabla, programa, ultima>>

\* Mutant of desalojar_proceso_tlb: the TLB keeps its entries.
desalojar_proceso_tlb_omitido == UNCHANGED tlb

desalojar_proceso_tlb == tlb' = [i \in DOMAIN tlb |-> TLBVacia]

\* Every dirty page is written where it came from and every entry is freed.
desalojar_proceso_cache ==
  LET sucias(m) == {i \in DOMAIN cache \ Limpias(cache) : cache[i].marco = m}
  IN /\ espacio' = [m \in Marcos |-> IF sucias(m) = {} THEN espacio[m]
                                     ELSE ComoString(cache[Max(sucias(m))].contenido)]
     /\ cache' = [i \in DOMAIN cache |-> CacheVacia]

SinTabla(p) == [tabla EXCEPT ![p] = [n \in Pag(p) |-> SinMarco]]

\* IO and DUMP_MEMORY block the process, EXIT ends it and frees its frames. In
\* each case the CPU is emptied and waits for another process.
desalojar_proceso(destino) ==
  /\ Ejecuta
  /\ desalojar_proceso_tlb
  /\ desalojar_proceso_cache
  /\ pid' = Ninguno
  /\ estado' = [estado EXCEPT ![pid] = destino]
  /\ tabla' = IF destino = "EXIT" THEN SinTabla(pid) ELSE tabla
  /\ UNCHANGED <<programa, ultima, uso>>

-----------------------------------------------------------------------------
(* What the kernel and the memory do to the processes.                       *)

SinTocarPaginas ==
  UNCHANGED <<config, desaloja, tlb, cache, instrucciones, programa, ultima, uso>>

Contexto(p) ==
  /\ pid = Ninguno /\ estado[p] = "READY"
  /\ pid' = p
  /\ estado' = [estado EXCEPT ![p] = "EXEC"]
  /\ UNCHANGED <<tabla, espacio, archivo>>
  /\ SinTocarPaginas

\* Mutant of check_interrupt: the kernel forgets the process that was running.
check_interrupt_sin_devolver(p) ==
  /\ desaloja /\ pid # Ninguno /\ estado[p] = "READY"
  /\ pid' = p
  /\ estado' = [estado EXCEPT ![p] = "EXEC"]
  /\ UNCHANGED <<tabla, espacio, archivo>>
  /\ SinTocarPaginas

\* check_interrupt: the process goes back to READY and the CPU is given another,
\* with the TLB and the cache as they are.
check_interrupt(p) ==
  /\ desaloja /\ pid # Ninguno /\ estado[p] = "READY"
  /\ pid' = p
  /\ estado' = [estado EXCEPT ![p] = "EXEC", ![pid] = "READY"]
  /\ UNCHANGED <<tabla, espacio, archivo>>
  /\ SinTocarPaginas

\* A blocked process goes to the swap file; its frames are free for others.
Suspender(p) ==
  /\ estado[p] = "BLOCKED"
  /\ estado' = [estado EXCEPT ![p] = "SUSP"]
  /\ archivo' = [archivo EXCEPT ![p] = [n \in Pag(p) |-> espacio[tabla[p][n]]]]
  /\ tabla' = SinTabla(p)
  /\ UNCHANGED <<pid, espacio>>
  /\ SinTocarPaginas

\* It comes back to the first free frames, in the order of its pages.
Libres == Marcos \ UNION {{tabla[p][n] : n \in Pag(p)} : p \in Pids}
Desuspender(p) ==
  LET nueva == [n \in Pag(p) |->
                  CHOOSE m \in Libres : Cardinality({k \in Libres : k < m}) = n]
  IN /\ estado[p] = "SUSP" /\ Cardinality(Libres) >= CantPaginas[p]
     /\ estado' = [estado EXCEPT ![p] = "READY"]
     /\ tabla' = [tabla EXCEPT ![p] = nueva]
     /\ espacio' = [m \in Marcos |-> IF \E n \in Pag(p) : nueva[n] = m
                                     THEN archivo[p][CHOOSE n \in Pag(p) : nueva[n] = m]
                                     ELSE espacio[m]]
     /\ UNCHANGED <<pid, archivo>>
     /\ SinTocarPaginas

Desbloquear(p) ==
  /\ estado[p] = "BLOCKED"
  /\ estado' = [estado EXCEPT ![p] = "READY"]
  /\ UNCHANGED <<pid, tabla, espacio, archivo>>
  /\ SinTocarPaginas

-----------------------------------------------------------------------------
\* Each page starts in a frame of its own: the memory admitted the processes.
PaginasTodas == UNION {{p} \X Pag(p) : p \in Pids}
ASSUME PaginasEntranTodas ==
  \E f \in [PaginasTodas -> Marcos] : \A x, y \in PaginasTodas : f[x] = f[y] => x = y
MarcoInicial == CHOOSE f \in [PaginasTodas -> Marcos] : \A x, y \in PaginasTodas : f[x] = f[y] => x = y

Init ==
  /\ \E x \in Configuraciones : config = x[1] /\ desaloja = x[2]
  /\ pid = Ninguno
  /\ tlb = [i \in 1..config.ENTRADAS_TLB |-> TLBVacia]
  /\ cache = [i \in 1..config.ENTRADAS_CACHE |-> CacheVacia]
  /\ estado = [p \in Pids |-> "READY"]
  /\ tabla = [p \in Pids |-> [n \in Pag(p) |-> MarcoInicial[<<p, n>>]]]
  /\ archivo = [p \in Pids |-> [n \in Pag(p) |-> Ceros]]
  /\ espacio = [m \in Marcos |-> Ceros]
  /\ instrucciones = 0
  /\ programa = [p \in Pids |-> [n \in Pag(p) |-> Ceros]]
  /\ ultima = [p \in Pids |-> [n \in Pag(p) |-> -1]]
  /\ uso = [clave |-> <<>>, veces |-> 0]

Instruccion ==
  /\ pid # Ninguno
  /\ \/ \E n \in Pag(pid), des \in Celdas :
          ejecutar_read(n, des) \/ \E dato \in Datos : ejecutar_write(n, des, dato)
     \/ \E destino \in {"BLOCKED", "EXIT"} : desalojar_proceso(destino)

Next ==
  \/ Instruccion
  \/ \E p \in Pids : Contexto(p) \/ check_interrupt(p) \/ Desbloquear(p)
                   \/ Suspender(p) \/ Desuspender(p)

Spec == Init /\ [][Next]_vars

-----------------------------------------------------------------------------
(* Properties.                                                               *)

EntradaTLB == [pid : Pids \cup {Ninguno}, nro_pagina : Int, marco : Int, tiempo : Nat]
EntradaCache == [pid : Pids \cup {Ninguno}, nro_pagina : Int, contenido : Contenido,
                 bit_uso : {0, 1}, modificado : BOOLEAN, tiempo : Nat, marco : Int]
PorPagina(f, S) == DOMAIN f = Pids /\ \A p \in Pids : f[p] \in [Pag(p) -> S]

\* Each variable has its type; the process on the CPU is the one the kernel has
\* in EXEC, and an entry of the TLB or of the cache is free or of a page that its
\* process has (that none is repeated is EntradasVigentes).
PaginasTypeOK ==
  /\ <<config, desaloja>> \in Configuraciones
  /\ pid \in Pids \cup {Ninguno}
  /\ estado \in [Pids -> {"READY", "EXEC", "BLOCKED", "SUSP", "EXIT"}]
  /\ \A p \in Pids : estado[p] = "EXEC" <=> pid = p
  /\ tlb \in [1..config.ENTRADAS_TLB -> EntradaTLB]
  /\ cache \in [1..config.ENTRADAS_CACHE -> EntradaCache]
  /\ \A i \in DOMAIN tlb : tlb[i].pid \in Pids => tlb[i].nro_pagina \in Pag(tlb[i].pid)
  /\ \A i \in DOMAIN cache : cache[i].pid \in Pids => cache[i].nro_pagina \in Pag(cache[i].pid)
  /\ PorPagina(tabla, Marcos \cup {SinMarco})
  /\ espacio \in [Marcos -> Contenido] /\ PorPagina(archivo, Contenido)
  /\ instrucciones \in 0..MaxInstrucciones
  /\ PorPagina(programa, Contenido) /\ PorPagina(ultima, Celdas \cup {-1})
  /\ uso \in [clave : PaginasTodas \cup {<<>>}, veces : Nat]

\* No entry of the TLB or of the cache outlives the frame it points to, although
\* a process that blocks may come back to other frames, and none is repeated.
EntradaVigente(a, i) ==
  a[i].pid # Ninguno =>
    /\ a[i].marco = tabla[a[i].pid][a[i].nro_pagina]
    /\ \A j \in DOMAIN a : a[j].pid = a[i].pid /\ a[j].nro_pagina = a[i].nro_pagina => i = j

EntradasVigentes ==
  /\ \A i \in DOMAIN tlb : EntradaVigente(tlb, i)
  /\ \A i \in DOMAIN cache : EntradaVigente(cache, i)

\* With no cache the memory has what each program wrote. With one, what the last
\* WRITE to a page put there is in its dirty entry, and when the page has none it
\* is in the memory if it went to the start of the page (further on, a zero
\* before it cuts it off). CLOCK with interruptions is left out: it drops dirty
\* pages (VictimaEnMemoria).
EnMemoria(p, n) == IF estado[p] = "SUSP" THEN archivo[p][n] ELSE espacio[tabla[p][n]]
Sucia(p, n) == \E i \in DOMAIN cache :
                 cache[i].pid = p /\ cache[i].nro_pagina = n /\ cache[i].modificado

UltimaEscrituraLlega ==
  \A p \in {q \in Pids : estado[q] # "EXIT"} : \A n \in Pag(p) :
    LET des == ultima[p][n] IN
    IF config.ENTRADAS_CACHE = 0 THEN EnMemoria(p, n) = programa[p][n]
    ELSE des # -1 /\ (config.REEMPLAZO_CACHE = "CLOCK" => ~desaloja) =>
           IF Sucia(p, n)
           THEN cache[IndiceDe(cache, n, p)].contenido[des] = programa[p][n][des]
           ELSE des = 0 => EnMemoria(p, n)[0] = programa[p][n][0]

\* The TLB is the queue its algorithm promises: the times of the entries, which
\* grow at different steps, always put them in the order of that queue. A WRITE
\* that finds its page, and a READ the cache answers, do not count as uses.
EnUso == {i \in DOMAIN tlb : tlb[i].pid # Ninguno}
MasViejas(i) == {j \in EnUso : tlb[j].tiempo > tlb[i].tiempo}
ColaTLB ==
  [k \in 1..Cardinality(EnUso) |->
     LET i == CHOOSE j \in EnUso : Cardinality(MasViejas(j)) = k - 1
     IN <<tlb[i].pid, tlb[i].nro_pagina>>]

Cola == INSTANCE ColaReemplazo
  WITH Claves <- PaginasTodas, entradas <- config.ENTRADAS_TLB, algoritmo <- config.REEMPLAZO_TLB,
       cola <- ColaTLB, clave <- uso.clave, veces <- uso.veces

ImplementaColaReemplazo == Cola!Spec

\* The comment of algoritmo_cache_clock: a dirty page that is replaced is written
\* to the memory.
VictimaEnMemoria ==
  [][\A i \in DOMAIN cache :
       cache[i].modificado
         /\ <<cache'[i].pid, cache'[i].nro_pagina>> # <<cache[i].pid, cache[i].nro_pagina>>
       => espacio'[cache[i].marco] = cache[i].contenido]_vars
=============================================================================
