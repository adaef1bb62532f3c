------------------------ MODULE MemoriaDatos_proofs ------------------------
(***************************************************************************)
(* Proof of DatosPreservados: with no cache in the CPUs, a clean bitmap    *)
(* and a memory of whole pages, what a program wrote to a page is what the *)
(* page holds, in memory or in swap, whoever used its frames in between.   *)
(*                                                                         *)
(* It is not inductive: while a process is suspended its pages are neither *)
(* in its table nor yet in the file, and while it is resumed they are in   *)
(* both. The invariant follows each page through the frame that was freed  *)
(* and not yet copied (the list of frames that the thread of the kernel    *)
(* carries), and says why nobody writes over it: the frames of the list    *)
(* are free and only this thread hands frames out, the places of the swap  *)
(* file do not overlap, and a CPU writes to the frame its page is in.      *)
(***************************************************************************)
EXTENDS Memoria_proofs

-----------------------------------------------------------------------------
(* The inductive invariant.                                                 *)

Copia == k.en \in {"recolecta", "copia"}

\* Where the last write to a page can be found.
Ultimo(x) == Dato(x, escrito[x])
EnSuMarco(x) == espacio[tabla[x]] = Ultimo(x)
EnLista(x) == espacio[lista_marcos[x[2] + 1]] = Ultimo(x)
EnArchivo(x) ==
  archivo[entradas[buscar_entrada_swap_por_pid(x[1])].ini + x[2] + 1] = Ultimo(x)

\* A page that was written is in its frame in memory and in its place of the file
\* in swap. While its process is suspended it passes through the list.
Pagina1(x) ==
  escrito[x] > 0 =>
    /\ fase[x[1]] # "nuevo"
    /\ fase[x[1]] \in {"listo", "exec", "bloq"} => EnSuMarco(x)
    /\ fase[x[1]] = "susp" /\ ~(Copia /\ k.p = x[1]) => EnArchivo(x)
    /\ k.p = x[1] =>
         /\ k.en = "recolecta" => IF x[2] < Len(lista_marcos) THEN EnLista(x) ELSE EnSuMarco(x)
         /\ k.en = "copia" => IF x[2] < k.i THEN EnArchivo(x) ELSE EnLista(x)
         /\ k.en = "lee" /\ x[2] < k.i => EnSuMarco(x)
Contenido == \A x \in Paginas : Pagina1(x)

\* The list has the frames of the leaves gone through, all free; what is left of
\* the table is still full.
ListaLibre ==
  /\ lista_marcos \in Seq(Marcos)
  /\ \A j \in DOMAIN lista_marcos : lista_marcos[j] \notin bitmap
  /\ ~Copia => lista_marcos = <<>>
  /\ k.en = "recolecta" =>
       /\ Len(lista_marcos) = IF k.i * ENTRADAS_POR_TABLA <= cantidad_paginas(k.p)
                              THEN k.i * ENTRADAS_POR_TABLA ELSE cantidad_paginas(k.p)
       /\ \A x \in DePid(k.p) : x[2] >= Len(lista_marcos) => tabla[x] # SinMarco
  /\ k.en = "copia" => Len(lista_marcos) = cantidad_paginas(k.p) /\ k.i <= Len(lista_marcos)

\* Where the place of an entry ends.
FinDe(e) == entradas[e].ini + cantidad_paginas(entradas[e].pid)

\* The places in the file follow one another and are written, but for the last
\* one while it is being written; a process has one, and only while it is in swap.
Lugares ==
  /\ Copia => entradas[Len(entradas)].pid = k.p
  /\ k.en = "recolecta" => Len(archivo) = entradas[Len(entradas)].ini
  /\ k.en = "copia" => Len(archivo) = entradas[Len(entradas)].ini + k.i
  /\ \A e \in DOMAIN entradas : ~(Copia /\ e = Len(entradas)) => FinDe(e) <= Len(archivo)
  /\ \A e, f \in DOMAIN entradas : e < f => FinDe(e) <= entradas[f].ini
  /\ \A e \in DOMAIN entradas : Tamanio[entradas[e].pid] > 0 =>
       /\ fase[entradas[e].pid] = "susp"
       /\ \A f \in DOMAIN entradas : entradas[f].pid = entradas[e].pid => f = e

\* The frame a CPU writes to is the one of its page.
UsaElSuyo == \A c \in CPUs : cpu[c].en = "usa" => cpu[c].f = tabla[Pagina(c)]

Datos ==
  /\ DOMAIN espacio = Marcos /\ espacio = [f \in Marcos |-> espacio[f]]
  /\ Contenido /\ ListaLibre /\ Lugares /\ UsaElSuyo

IDatos == IInv /\ (Sano => Datos)

-----------------------------------------------------------------------------
(* The order of a leaf.                                                     *)

\* As many numbers as an interval has, in it and in order, are the interval.
LEMMA EnOrdenSon ==
  ASSUME NEW n \in Nat, NEW a \in Nat, NEW g,
         \A j \in 1..n : g[j] \in a..(a + n - 1),
         \A i, j \in 1..n : i < j => g[i] < g[j]
  PROVE  \A j \in 1..n : g[j] = a + j - 1
<1>1. ASSUME NEW m \in 1..n, g[m] < a + m - 1 PROVE FALSE
  <2> DEFINE S == {j \in 1..n : g[j] < a + j - 1}
  <2>1. S \in SUBSET Nat /\ S # {}
    BY <1>1
  <2>2. PICK j \in S : \A i \in S : j <= i
    BY <2>1, MinEsta
  <2>3. j \in 1..n /\ g[j] < a + j - 1 /\ g[j] \in a..(a + n - 1)
    BY <2>2
  <2>4. CASE j = 1
    BY <2>3, <2>4
  <2>5. CASE j # 1
    <3>1. j - 1 \in 1..n /\ j - 1 < j
      BY <2>3, <2>5
    <3>2. j - 1 \notin S
      BY <2>2, <2>3, <3>1
    <3>3. g[j - 1] \in a..(a + n - 1) /\ g[j - 1] < g[j]
      BY <2>3, <3>1
    <3>4. g[j - 1] >= a + (j - 1) - 1
      BY <3>1, <3>2, <3>3
    <3> QED BY <2>3, <3>3, <3>4
  <2> QED BY <2>4, <2>5
<1>2. ASSUME NEW m \in 1..n, g[m] > a + m - 1 PROVE FALSE
  <2> DEFINE S == {d \in 0..(n - 1) : g[n - d] > a + (n - d) - 1}
  <2>1. S \in SUBSET Nat /\ S # {}
    <3>1. n - m \in 0..(n - 1) /\ n - (n - m) = m
      OBVIOUS
    <3>2. g[n - (n - m)] > a + (n - (n - m)) - 1
      BY <1>2, <3>1
    <3>3. n - m \in S
      BY <3>1, <3>2
    <3>4. S # {}
      BY <3>3
    <3>5. \A d \in S : d \in Nat
      OBVIOUS
    <3> HIDE DEF S
    <3> QED BY <3>4, <3>5
  <2>2. PICK d \in S : \A i \in S : d <= i
    BY <2>1, MinEsta
  <2>3. d \in 0..(n - 1) /\ n - d \in 1..n /\ g[n - d] > a + (n - d) - 1 /\ g[n - d] \in a..(a + n - 1)
    BY <2>2
  <2>4. CASE d = 0
    BY <2>3, <2>4
  <2>5. CASE d # 0
    <3>1. d - 1 \in 0..(n - 1) /\ n - (d - 1) \in 1..n /\ n - d < n - (d - 1)
      BY <2>3, <2>5
    <3>2. d - 1 \notin S
      BY <2>2, <2>3, <3>1
    <3>3. g[n - (d - 1)] \in a..(a + n - 1) /\ g[n - d] < g[n - (d - 1)]
      BY <2>3, <3>1
    <3>4. g[n - (d - 1)] <= a + (n - (d - 1)) - 1
      BY <3>1, <3>2, <3>3
    <3> QED BY <2>3, <3>3, <3>4
  <2> QED BY <2>4, <2>5
<1> QED
  <2> SUFFICES ASSUME NEW j \in 1..n PROVE g[j] = a + j - 1
    OBVIOUS
  <2>1. g[j] \in Int /\ a + j - 1 \in Int
    OBVIOUS
  <2> QED BY <1>1, <1>2, <2>1

\* Consecutive pages of a process: n of them, from a on.
Seguidas(X, p, a, n) == X = {<<p, i>> : i \in a..(a + n - 1)}

\* They come in the order of the table.
LEMMA Consecutivas ==
  ASSUME NEW p, NEW a \in Nat, NEW n \in Nat, NEW X, Seguidas(X, p, a, n)
  PROVE  /\ DOMAIN EnOrden(X) = 1..n
         /\ \A j \in 1..n : EnOrden(X)[j] = <<p, a + j - 1>>
         /\ IsFiniteSet(X) /\ Cardinality(X) = n
<1> DEFINE t == [j \in 1..n |-> <<p, a + j - 1>>]
           EsOrden(s) == \A i, j \in DOMAIN s : i < j => s[i][2] < s[j][2]
<1>0. X = {<<p, i>> : i \in a..(a + n - 1)}
  BY DEF Seguidas
<1>1. IsFiniteSet(X) /\ Cardinality(X) = n
  <2>1. IsFiniteSet(1..n) /\ Cardinality(1..n) = n
    <3>1. IsFiniteSet(1..n) /\ Cardinality(1..n) = IF 1 > n THEN 0 ELSE n - 1 + 1
      BY FS_Interval
    <3> QED BY <3>1
  <2>2. t \in Bijection(1..n, X)
    <3>1. t \in [1..n -> X]
      BY <1>0
    <3>2. \A i, j \in 1..n : t[i] = t[j] => i = j
      OBVIOUS
    <3>3. ASSUME NEW x \in X PROVE \E j \in 1..n : t[j] = x
      <4>1. PICK i \in a..(a + n - 1) : x = <<p, i>>
        BY <1>0
      <4>2. i - a + 1 \in 1..n /\ a + (i - a + 1) - 1 = i
        OBVIOUS
      <4> QED BY <4>1, <4>2
    <3> HIDE DEF t
    <3> QED BY <3>1, <3>2, <3>3 DEF Bijection, Injection, Surjection, IsInjective
  <2>3. ExistsBijection(1..n, X)
    BY <2>2 DEF ExistsBijection
  <2> QED BY <2>1, <2>3, FS_Bijection
<1>2. t \in [1..n -> X] /\ EsOrden(t)
  BY <1>0
<1> DEFINE s == EnOrden(X)
<1>3. s \in [1..n -> X] /\ EsOrden(s)
  BY <1>1, <1>2 DEF EnOrden
<1> HIDE DEF s, t
<1>4. \A j \in 1..n : s[j] = <<p, s[j][2]>> /\ s[j][2] \in a..(a + n - 1)
  <2> SUFFICES ASSUME NEW j \in 1..n PROVE s[j] = <<p, s[j][2]>> /\ s[j][2] \in a..(a + n - 1)
    OBVIOUS
  <2>1. PICK i \in a..(a + n - 1) : s[j] = <<p, i>>
    BY <1>0, <1>3
  <2> QED BY <2>1
<1> DEFINE g == [j \in 1..n |-> s[j][2]]
<1>5. \A j \in 1..n : g[j] = a + j - 1
  <2>1. \A j \in 1..n : g[j] \in a..(a + n - 1)
    BY <1>4
  <2>2. \A i, j \in 1..n : i < j => g[i] < g[j]
    BY <1>3
  <2> HIDE DEF g
  <2> QED BY <2>1, <2>2, EnOrdenSon
<1>6. \A j \in 1..n : s[j] = <<p, a + j - 1>>
  BY <1>4, <1>5
<1> QED BY <1>1, <1>3, <1>6 DEF s

\* The leaves are cut every ENTRADAS_POR_TABLA pages.
LEMMA HojaSon ==
  ASSUME NEW p \in Pids, NEW h \in Nat
  PROVE  LET E == ENTRADAS_POR_TABLA
             c == cantidad_paginas(p)
             n == IF h * E >= c THEN 0 ELSE IF (h + 1) * E <= c THEN E ELSE c - h * E
         IN /\ n \in Nat /\ h * E \in Nat /\ (h + 1) * E = h * E + E
            /\ Hoja(p, h) = {<<p, i>> : i \in (h * E)..(h * E + n - 1)}
            /\ h \in Hojas(p) <=> h * E < c
<1> DEFINE E == ENTRADAS_POR_TABLA
           c == cantidad_paginas(p)
           a == h * E
           n == IF a >= c THEN 0 ELSE IF a + E <= c THEN E ELSE c - a
<1>1. E \in Nat \ {0} /\ c \in Nat
  BY Tamanios, MemoriaConstantesOK DEF MemoriaConstantesOK
<1> HIDE DEF E, c
<1>2. a \in Nat /\ (h + 1) * E = a + E
  BY <1>1, SMTT(30)
<1>3. ASSUME NEW i \in Nat PROVE i \div E = h <=> a <= i /\ i < a + E
  <2> DEFINE q == i \div E
  <2>1. q \in Nat /\ E * q <= i /\ i < E * q + E
    BY <1>1, Division
  <2> HIDE DEF q
  <2>2. CASE q = h
    BY <1>1, <2>1, <2>2
  <2>3. CASE q < h
    <3>1. E * (h - q) >= E /\ E * (h - q) = E * h - E * q /\ E * h = a
      BY <1>1, <2>1, <2>3, Por
    <3> QED BY <1>1, <1>2, <2>1, <2>3, <3>1 DEF q
  <2>4. CASE q > h
    <3>1. E * (q - h) >= E /\ E * (q - h) = E * q - E * h /\ E * h = a
      BY <1>1, <2>1, <2>4, Por
    <3> QED BY <1>1, <1>2, <2>1, <2>4, <3>1 DEF q
  <2> QED BY <2>1, <2>2, <2>3, <2>4 DEF q
<1> HIDE DEF a
<1>4. n \in Nat
  BY <1>1, <1>2
<1>5. \A i \in Nat : a <= i /\ i < a + E /\ i < c <=> i \in a..(a + n - 1)
  BY <1>1, <1>2
<1> HIDE DEF n
<1>6. Hoja(p, h) = {<<p, i>> : i \in a..(a + n - 1)}
  <2>1. \A x : x \in DePid(p) <=> \E i \in Nat : i < c /\ x = <<p, i>>
    BY PaginasDePid DEF c
  <2>2. Hoja(p, h) = {x \in DePid(p) : x[2] \div E = h}
    BY DEF Hoja, DePid, E
  <2>3. ASSUME NEW x \in Hoja(p, h) PROVE x \in {<<p, i>> : i \in a..(a + n - 1)}
    <3>1. PICK i \in Nat : i < c /\ x = <<p, i>> /\ i \div E = h
      BY <2>1, <2>2, <2>3
    <3> QED BY <1>3, <1>5, <3>1
  <2>4. ASSUME NEW i \in a..(a + n - 1) PROVE <<p, i>> \in Hoja(p, h)
    <3>1. i \in Nat
      BY <1>2, <1>4
    <3>2. i < c /\ i \div E = h
      BY <1>3, <1>5, <3>1
    <3> QED BY <2>1, <2>2, <3>1, <3>2
  <2> QED BY <2>3, <2>4
<1>7. h \in Hojas(p) <=> a < c
  <2>1. Hojas(p) = {x[2] \div E : x \in DePid(p)}
    BY DEF Hojas, DePid, E
  <2>2. ASSUME h \in Hojas(p) PROVE a < c
    <3>1. PICK x \in DePid(p) : h = x[2] \div E
      BY <2>1, <2>2
    <3>2. x[2] \in Nat /\ x[2] < c
      BY PaginasDePid DEF c
    <3> QED BY <1>1, <1>2, <1>3, <3>1, <3>2
  <2>3. ASSUME a < c PROVE h \in Hojas(p)
    <3>1. <<p, a>> \in DePid(p)
      BY <1>2, <2>3, PaginasDePid DEF c
    <3>2. a \div E = h
      BY <1>1, <1>2, <1>3
    <3> QED BY <2>1, <3>1, <3>2
  <2> QED BY <2>2, <2>3
<1> QED BY <1>2, <1>4, <1>6, <1>7 DEF E, c, a, n

-----------------------------------------------------------------------------
(* The places of the swap file.                                             *)

\* buscar_entrada_swap_por_pid, of any list of entries.
Buscar(E, p) ==
  LET I == {i \in DOMAIN E : E[i].pid = p} IN IF I = {} THEN 0 ELSE Min(I)

\* It finds the only entry of a process.
LEMMA BuscarUnico ==
  ASSUME NEW E, DOMAIN E \subseteq Nat, NEW e \in DOMAIN E, NEW p, E[e].pid = p,
         \A f \in DOMAIN E : E[f].pid = p => f = e
  PROVE  Buscar(E, p) = e
<1> DEFINE I == {i \in DOMAIN E : E[i].pid = p}
<1>1. I = {e} /\ I \in SUBSET Nat
  OBVIOUS
<1>2. Min(I) \in I
  BY <1>1, MinEsta
<1> QED BY <1>1, <1>2 DEF Buscar

\* What holds together of a memory in order.
Todo ==
  /\ MemoriaTypeOK /\ MarcosExclusivos /\ InvVivos /\ ConEntrada
  /\ Sano /\ Cuentas /\ Datos

\* The entries and the file are sequences.
LEMMA Secuencias ==
  ASSUME ConEntrada
  PROVE  /\ entradas \in Seq([pid : Pids, ini : Nat])
         /\ DOMAIN entradas = 1..Len(entradas) /\ Len(entradas) \in Nat
         /\ DOMAIN archivo = 1..Len(archivo) /\ Len(archivo) \in Nat
         /\ \A e \in DOMAIN entradas : /\ entradas[e] \in [pid : Pids, ini : Nat]
                                       /\ entradas[e].pid \in Pids /\ entradas[e].ini \in Nat
                                       /\ cantidad_paginas(entradas[e].pid) \in Nat
                                       /\ FinDe(e) \in Nat
<1>1. entradas \in Seq([pid : Pids, ini : Nat])
  BY DEF ConEntrada
<1>2. DOMAIN entradas = 1..Len(entradas) /\ Len(entradas) \in Nat
  BY <1>1, LenProperties
<1>3. DOMAIN archivo = 1..Len(archivo) /\ Len(archivo) \in Nat
  BY LenProperties DEF ConEntrada
<1>4. ASSUME NEW e \in DOMAIN entradas
      PROVE  /\ entradas[e] \in [pid : Pids, ini : Nat]
             /\ entradas[e].pid \in Pids /\ entradas[e].ini \in Nat
             /\ cantidad_paginas(entradas[e].pid) \in Nat
             /\ FinDe(e) \in Nat
  <2>1. entradas[e] \in [pid : Pids, ini : Nat]
    BY <1>1, <1>2, ElementOfSeq
  <2>2. entradas[e].pid \in Pids /\ entradas[e].ini \in Nat
    BY <2>1
  <2>3. cantidad_paginas(entradas[e].pid) \in Nat
    BY <2>2, Tamanios
  <2> HIDE DEF cantidad_paginas
  <2> QED BY <2>1, <2>2, <2>3 DEF FinDe
<1> QED BY <1>1, <1>2, <1>3, <1>4

\* Types and sizes.
LEMMA Hechos ==
  ASSUME Todo
  PROVE  /\ k \in TipoK /\ k.i \in Nat /\ (k.en # "recibe" => k.p \in Pids)
         /\ fase \in [Pids -> Fases] /\ escrito \in [Paginas -> Nat]
         /\ tabla \in [Paginas -> MarcoONada] /\ bitmap \subseteq Marcos
         /\ Llenas /\ Asignadas /\ EnMano = {}
         /\ ENTRADAS_POR_TABLA \in Nat \ {0}
         /\ \A p \in Pids : cantidad_paginas(p) \in Nat
         /\ \A x \in Paginas : /\ x[1] \in Pids /\ x[2] \in Nat /\ x = <<x[1], x[2]>> /\ x \in DePid(x[1])
                               /\ x[2] < cantidad_paginas(x[1]) /\ Tamanio[x[1]] > 0
<1>1. /\ k \in TipoK /\ k.i \in Nat /\ (k.en # "recibe" => k.p \in Pids)
      /\ fase \in [Pids -> Fases] /\ escrito \in [Paginas -> Nat]
      /\ tabla \in [Paginas -> MarcoONada] /\ bitmap \subseteq Marcos
      /\ Llenas /\ Asignadas /\ EnMano = {}
  BY DEF Todo, MemoriaTypeOK, TiposK, TipoK, TiposFijos, TiposMarcos, Cuentas
<1>2. ENTRADAS_POR_TABLA \in Nat \ {0}
  BY MemoriaConstantesOK DEF MemoriaConstantesOK
<1>3. \A p \in Pids : cantidad_paginas(p) \in Nat
  BY Tamanios
<1>4. ASSUME NEW x \in Paginas
      PROVE  /\ x[1] \in Pids /\ x[2] \in Nat /\ x = <<x[1], x[2]>> /\ x \in DePid(x[1])
             /\ x[2] < cantidad_paginas(x[1]) /\ Tamanio[x[1]] > 0
  <2>1. x[1] \in Pids /\ x \in DePid(x[1])
    BY DEF Paginas, DePid
  <2>2. x = <<x[1], x[2]>> /\ x[2] \in Nat /\ x[2] < cantidad_paginas(x[1])
    BY <2>1, PaginasDePid
  <2>3. Tamanio[x[1]] # 0
    BY <2>1, SinPaginas
  <2>4. Tamanio[x[1]] \in Nat
    BY <2>1, Tamanios
  <2> QED BY <2>1, <2>2, <2>3, <2>4
<1> QED BY <1>1, <1>2, <1>3, <1>4

\* The entry of a suspended process with pages: the only one, and where it is found.
LEMMA SuEntrada ==
  ASSUME Todo, NEW p \in Pids, fase[p] = "susp", Tamanio[p] > 0
  PROVE  LET e == buscar_entrada_swap_por_pid(p)
         IN e \in DOMAIN entradas /\ e # 0 /\ entradas[e].pid = p /\ entradas[e].ini \in Nat
            /\ \A f \in DOMAIN entradas : entradas[f].pid = p => f = e
<1>1. ConEntrada /\ Lugares
  BY DEF Todo, Datos
<1>2. TieneEntrada(p)
  BY <1>1 DEF ConEntrada
<1> DEFINE e == buscar_entrada_swap_por_pid(p)
<1>3. e \in 1..Len(entradas) /\ e # 0 /\ entradas[e].pid = p /\ entradas[e].ini \in Nat
  BY <1>1, <1>2, EntradaDe
<1>4. DOMAIN entradas = 1..Len(entradas)
  BY <1>1, Secuencias
<1> HIDE DEF e
<1>5. \A f \in DOMAIN entradas : entradas[f].pid = p => f = e
  BY <1>1, <1>3, <1>4 DEF Lugares
<1> QED BY <1>3, <1>4, <1>5 DEF e

\* Where a page of a suspended process has its place: no other entry has it, and
\* it is written unless the process is being copied.
LEMMA SuLugar ==
  ASSUME Todo, NEW x \in Paginas, fase[x[1]] = "susp"
  PROVE  LET e == buscar_entrada_swap_por_pid(x[1])
             l == entradas[e].ini + x[2] + 1
         IN /\ e \in DOMAIN entradas /\ l \in Nat /\ l >= 1 /\ entradas[e].ini \in Nat
            /\ entradas[e].ini < l /\ l <= FinDe(e) /\ l = entradas[e].ini + x[2] + 1
            /\ ~(Copia /\ k.p = x[1]) => l <= Len(archivo)
            /\ \A f \in DOMAIN entradas \ {e} : l <= entradas[f].ini \/ FinDe(f) < l
<1> DEFINE e == buscar_entrada_swap_por_pid(x[1])
           l == entradas[e].ini + x[2] + 1
<1>1. x[1] \in Pids /\ Tamanio[x[1]] > 0 /\ x[2] \in Nat /\ x[2] < cantidad_paginas(x[1])
  BY Hechos
<1>2. ConEntrada /\ Lugares
  BY DEF Todo, Datos
<1>3. e \in DOMAIN entradas /\ entradas[e].pid = x[1] /\ entradas[e].ini \in Nat
  BY <1>1, SuEntrada
<1>4. /\ DOMAIN entradas = 1..Len(entradas) /\ Len(entradas) \in Nat /\ Len(archivo) \in Nat
      /\ \A f \in DOMAIN entradas : FinDe(f) \in Nat /\ entradas[f].ini \in Nat
                                    /\ cantidad_paginas(entradas[f].pid) \in Nat
                                    /\ FinDe(f) = entradas[f].ini + cantidad_paginas(entradas[f].pid)
  BY <1>2, Secuencias DEF FinDe
<1> HIDE DEF e, cantidad_paginas, FinDe
<1>5. l \in Nat /\ l >= 1 /\ entradas[e].ini < l /\ l <= FinDe(e)
  BY <1>1, <1>3, <1>4
<1>6. ~(Copia /\ k.p = x[1]) => FinDe(e) <= Len(archivo)
  BY <1>2, <1>3 DEF Lugares
<1>7. ASSUME NEW f \in DOMAIN entradas, f # e PROVE l <= entradas[f].ini \/ FinDe(f) < l
  <2>1. CASE e < f
    <3>1. FinDe(e) <= entradas[f].ini
      BY <1>2, <1>3, <2>1 DEF Lugares
    <3> QED BY <1>3, <1>4, <1>5, <3>1
  <2>2. CASE f < e
    <3>1. FinDe(f) <= entradas[e].ini
      BY <1>2, <1>3, <2>2 DEF Lugares
    <3> QED BY <1>3, <1>4, <1>5, <3>1
  <2> QED BY <1>3, <1>4, <1>7, <2>1, <2>2
<1> HIDE DEF l
<1>8. ~(Copia /\ k.p = x[1]) => l <= Len(archivo)
  BY <1>3, <1>4, <1>5, <1>6
<1> QED BY <1>3, <1>5, <1>7, <1>8 DEF e, l

\* Pages with frames have different ones, which are marked.
LEMMA OtroMarco ==
  ASSUME Todo, NEW x \in Paginas, tabla[x] # SinMarco, fase[x[1]] # "fin"
  PROVE  /\ tabla[x] \in Marcos /\ tabla[x] \in bitmap
         /\ \A y \in Paginas : y # x /\ tabla[y] # SinMarco /\ fase[y[1]] # "fin" =>
                                 tabla[y] # tabla[x]
<1>1. \A y \in Paginas : tabla[y] # SinMarco /\ fase[y[1]] # "fin" => y \in EnMesa
  BY DEF Todo, InvVivos, Pedido, EnMesa, EnDestruccion
<1>2. MarcosExclusivos /\ bitmap \subseteq Marcos
  BY DEF Todo, MemoriaTypeOK, TiposMarcos
<1> QED BY <1>1, <1>2 DEF MarcosExclusivos

-----------------------------------------------------------------------------
(* Steps that leave the swap file alone.                                    *)

Vivas == {"listo", "exec", "bloq"}

\* Neither the file nor the list changes, and pages of a process in memory keep
\* their frames and what is in them. A process comes into memory new, or has no
\* pages; and it leaves memory to end.
LEMMA DatosSimple ==
  ASSUME Todo, UNCHANGED <<archivo, entradas, lista_marcos, escrito>>,
         DOMAIN espacio' = Marcos, espacio' = [f \in Marcos |-> espacio'[f]],
         \/ k' = k /\ UNCHANGED <<tabla, espacio, bitmap>>
         \/ ~Copia /\ ~Copia' /\ (k'.en = "lee" => k'.i = 0),
         \A x \in Paginas : fase[x[1]] \in Vivas /\ fase'[x[1]] \in Vivas =>
                              tabla'[x] = tabla[x] /\ espacio'[tabla[x]] = espacio[tabla[x]],
         \A p \in Pids : \/ fase'[p] = fase[p]
                         \/ Tamanio[p] = 0
                         \/ fase[p] = "nuevo" /\ fase'[p] # "susp"
                         \/ fase[p] \in Vivas \cup {"saliendo"}
                            /\ fase'[p] \in {"saliendo", "fin"}
                         \/ fase[p] \in Vivas /\ fase'[p] \in Vivas,
         UsaElSuyo'
  PROVE  Datos'
<1>0. /\ Contenido /\ ListaLibre /\ Lugares /\ ConEntrada
      /\ escrito \in [Paginas -> Nat]
  BY Hechos DEF Todo, Datos
<1>1. Contenido'
  <2> SUFFICES ASSUME NEW x \in Paginas PROVE Pagina1(x)'
    BY DEF Contenido
  <2>a. x[1] \in Pids /\ Tamanio[x[1]] > 0
    BY Hechos
  <2>b. Pagina1(x)
    BY <1>0 DEF Contenido
  <2>c. EnArchivo(x)' = EnArchivo(x) /\ EnLista(x)' = (espacio'[lista_marcos[x[2] + 1]] = Ultimo(x))
    BY DEF EnArchivo, EnLista, Ultimo, buscar_entrada_swap_por_pid
  <2>d. fase[x[1]] \in Vivas /\ fase'[x[1]] \in Vivas => EnSuMarco(x)' = EnSuMarco(x)
    BY DEF EnSuMarco, Ultimo
  <2>e. \/ fase'[x[1]] = fase[x[1]]
        \/ fase[x[1]] = "nuevo" /\ fase'[x[1]] # "susp"
        \/ fase[x[1]] \in Vivas \cup {"saliendo"} /\ fase'[x[1]] \in {"saliendo", "fin"}
        \/ fase[x[1]] \in Vivas /\ fase'[x[1]] \in Vivas
    BY <2>a
  <2> SUFFICES ASSUME escrito[x] > 0
               PROVE  /\ fase'[x[1]] # "nuevo"
                      /\ fase'[x[1]] \in {"listo", "exec", "bloq"} => EnSuMarco(x)'
                      /\ fase'[x[1]] = "susp" /\ ~(Copia' /\ k'.p = x[1]) => EnArchivo(x)'
                      /\ k'.p = x[1] =>
                           /\ k'.en = "recolecta" => IF x[2] < Len(lista_marcos) THEN EnLista(x)' ELSE EnSuMarco(x)'
                           /\ k'.en = "copia" => IF x[2] < k'.i THEN EnArchivo(x)' ELSE EnLista(x)'
                           /\ k'.en = "lee" /\ x[2] < k'.i => EnSuMarco(x)'
    BY DEF Pagina1
  <2>1. fase[x[1]] # "nuevo" /\ fase'[x[1]] # "nuevo"
    BY <2>b, <2>e DEF Pagina1, Vivas
  <2>2. fase'[x[1]] \in {"listo", "exec", "bloq"} => EnSuMarco(x)'
    BY <2>b, <2>d, <2>e, <2>1 DEF Pagina1, Vivas
  <2>3. fase'[x[1]] = "susp" => fase[x[1]] = "susp"
    BY <2>e, <2>1 DEF Vivas
  <2>4. CASE k' = k /\ UNCHANGED <<tabla, espacio, bitmap>>
    <3>1. /\ EnSuMarco(x)' = EnSuMarco(x) /\ EnLista(x)' = EnLista(x)
          /\ EnArchivo(x)' = EnArchivo(x)
      BY <2>c, <2>4 DEF EnSuMarco, EnLista, Ultimo
    <3>2. Copia' = Copia
      BY <2>4 DEF Copia
    <3> QED BY <2>b, <2>1, <2>2, <2>3, <2>4, <3>1, <3>2 DEF Pagina1
  <2>5. CASE ~Copia /\ ~Copia' /\ (k'.en = "lee" => k'.i = 0)
    <3>1. k'.en \notin {"recolecta", "copia"}
      BY <2>5 DEF Copia
    <3>2. x[2] \in Nat
      BY Hechos
    <3>3. ~(k'.en = "lee" /\ x[2] < k'.i)
      BY <2>5, <3>2
    <3> QED BY <2>b, <2>c, <2>1, <2>2, <2>3, <2>5, <3>1, <3>3 DEF Pagina1
  <2> QED BY <2>4, <2>5
<1>2. ListaLibre'
  <2>1. CASE k' = k /\ UNCHANGED <<tabla, espacio, bitmap>>
    BY <1>0, <2>1 DEF ListaLibre, Copia
  <2>2. CASE ~Copia /\ ~Copia'
    <3>1. k'.en \notin {"recolecta", "copia"}
      BY <2>2 DEF Copia
    <3>2. lista_marcos = <<>> /\ lista_marcos \in Seq(Marcos)
      BY <1>0, <2>2 DEF ListaLibre
    <3>3. DOMAIN lista_marcos = {}
      BY <3>2
    <3> QED BY <2>2, <3>1, <3>2, <3>3 DEF ListaLibre
  <2> QED BY <2>1, <2>2
<1>3. Lugares'
  <2>1. \A e \in DOMAIN entradas : Tamanio[entradas[e].pid] > 0 /\ entradas[e].pid \in Pids =>
            fase'[entradas[e].pid] = "susp"
    <3> SUFFICES ASSUME NEW p \in Pids, fase[p] = "susp", Tamanio[p] > 0 PROVE fase'[p] = "susp"
      BY <1>0 DEF Lugares
    <3> QED BY DEF Vivas
  <2>2. \A e \in DOMAIN entradas : entradas[e].pid \in Pids
    BY <1>0, Secuencias
  <2>3. FinDe(0)' = FinDe(0) /\ \A e : FinDe(e)' = FinDe(e)
    BY DEF FinDe
  <2>4. \/ k' = k
        \/ ~Copia /\ ~Copia' /\ k'.en \notin {"recolecta", "copia"}
    BY DEF Copia
  <2>5. Copia' => Copia /\ k' = k
    BY <2>4 DEF Copia
  <2>6. Copia /\ k' = k => Copia'
    BY DEF Copia
  <2>7. \A e \in DOMAIN entradas : ~(Copia' /\ e = Len(entradas)) => FinDe(e) <= Len(archivo)
    BY <1>0, <2>4, <2>6 DEF Lugares
  <2> HIDE DEF Copia
  <2> QED BY <1>0, <2>1, <2>2, <2>3, <2>4, <2>5, <2>7 DEF Lugares
<1> QED BY <1>1, <1>2, <1>3 DEF Datos

\* The thread of the kernel does not move the page a CPU is about to write to.
LEMMA UsaKernel ==
  ASSUME Todo, UNCHANGED cpu,
         \A x \in Paginas : fase[x[1]] = "exec" => tabla'[x] = tabla[x]
  PROVE  UsaElSuyo'
<1> SUFFICES ASSUME NEW c \in CPUs, cpu[c].en = "usa" PROVE cpu[c].f = tabla'[Pagina(c)]
  BY DEF UsaElSuyo, Pagina
<1>1. fase[cpu[c].p] = "exec"
  BY DEF Todo, InvVivos, EnCpus, Sano, Corre
<1>2. Pagina(c) \in Paginas /\ Pagina(c)[1] = cpu[c].p
  BY DEF Todo, MemoriaTypeOK, TiposCpu, PosicionCpu, Pagina
<1>3. cpu[c].f = tabla[Pagina(c)]
  BY DEF Todo, Datos, UsaElSuyo
<1> QED BY <1>1, <1>2, <1>3

\* A write of a CPU goes to the frame of its page, which no other page has, nor
\* the list of frames to be copied.
LEMMA DatosEscribe ==
  ASSUME Todo, NEW c \in CPUs, EscribirMemoria(c)
  PROVE  Contenido' /\ DOMAIN espacio' = Marcos /\ espacio' = [f \in Marcos |-> espacio'[f]]
<1> USE DEF mem, swap
<1>x. PICK x : x = Pagina(c)
  OBVIOUS
<1>f. PICK f : f = cpu[c].f
  OBVIOUS
<1>0. Contenido /\ ListaLibre /\ espacio = [g \in Marcos |-> espacio[g]] /\ DOMAIN espacio = Marcos
      /\ Llenas /\ Asignadas
  BY Hechos DEF Todo, Datos
<1>1. /\ cpu[c].en = "usa" /\ fase[x[1]] = "exec" /\ viva[x[1]] /\ x \in Paginas
      /\ cpu[c].p = x[1] /\ f = tabla[x]
  <2>1. cpu[c].en = "usa"
    BY DEF EscribirMemoria
  <2> QED BY <1>x, <1>f, <2>1 DEF Todo, Datos, UsaElSuyo, InvVivos, EnCpus, Sano, Corre, MemoriaTypeOK,
       TiposCpu, PosicionCpu, Pagina
<1>2. tabla[x] # SinMarco
  BY <1>0, <1>1, Hechos DEF Llenas
<1>3. f \in Marcos /\ f \in bitmap
      /\ \A y \in Paginas : y # x /\ tabla[y] # SinMarco /\ fase[y[1]] # "fin" => tabla[y] # f
  BY <1>1, <1>2, OtroMarco
<1>4. /\ escrito' = [escrito EXCEPT ![x] = escrito[x] + 1]
      /\ espacio' = [espacio EXCEPT ![f] = Dato(x, escrito[x] + 1)]
      /\ UNCHANGED <<fase, tabla, bitmap, archivo, entradas, lista_marcos, k>>
  BY <1>x, <1>f, <1>1, <1>2 DEF EscribirMemoria
<1>5. escrito'[x] = escrito[x] + 1 /\ espacio'[f] = Dato(x, escrito'[x])
      /\ (\A y \in Paginas : y # x => escrito'[y] = escrito[y])
      /\ (\A g \in Marcos : g # f => espacio'[g] = espacio[g])
  BY <1>0, <1>1, <1>3, <1>4, Hechos
<1>6. DOMAIN espacio' = Marcos /\ espacio' = [g \in Marcos |-> espacio'[g]]
  BY <1>0, <1>4
<1>7. fase[x[1]] = "exec" => ~(k.p = x[1] /\ k.en \in {"recolecta", "copia", "lee"})
  BY <1>0 DEF Asignadas, Todo, InvVivos, Pedido
<1>8. Pagina1(x)'
  <2>1. EnSuMarco(x)'
    BY <1>1, <1>4, <1>5 DEF EnSuMarco, Ultimo
  <2> QED BY <1>1, <1>4, <1>7, <2>1 DEF Pagina1
<1>9. ASSUME NEW y \in Paginas, y # x PROVE Pagina1(y)'
  <2>a. Pagina1(y)
    BY <1>0 DEF Contenido
  <2>b. y[2] \in Nat /\ y[1] \in Pids /\ y \in DePid(y[1]) /\ y[2] < cantidad_paginas(y[1])
    BY Hechos
  <2>c. Ultimo(y)' = Ultimo(y) /\ escrito'[y] = escrito[y] /\ EnArchivo(y)' = EnArchivo(y)
    BY <1>4, <1>5, <1>9 DEF Ultimo, EnArchivo, buscar_entrada_swap_por_pid
  <2>1. ASSUME tabla[y] # SinMarco, fase[y[1]] # "fin" PROVE EnSuMarco(y)' = EnSuMarco(y)
    <3>1. tabla[y] # f /\ tabla[y] \in Marcos
      BY <1>3, <1>9, <2>1, OtroMarco
    <3> QED BY <1>4, <1>5, <2>c, <3>1 DEF EnSuMarco
  <2>2. ASSUME y[2] < Len(lista_marcos) PROVE EnLista(y)' = EnLista(y)
    <3>1. lista_marcos \in Seq(Marcos) /\ \A j \in DOMAIN lista_marcos : lista_marcos[j] \notin bitmap
      BY <1>0 DEF ListaLibre
    <3>2. y[2] + 1 \in DOMAIN lista_marcos /\ y[2] + 1 \in 1..Len(lista_marcos)
      BY <2>2, <2>b, <3>1, LenProperties
    <3>3. lista_marcos[y[2] + 1] \in Marcos
      BY <3>1, <3>2, ElementOfSeq
    <3>4. lista_marcos[y[2] + 1] # f
      BY <1>3, <3>1, <3>2
    <3> QED BY <1>4, <1>5, <2>c, <3>3, <3>4 DEF EnLista
  <2>3. fase[y[1]] \in {"listo", "exec", "bloq"} => tabla[y] # SinMarco /\ fase[y[1]] # "fin"
    BY <1>0, <2>b DEF Llenas
  <2>4. k.p = y[1] /\ k.en = "recolecta" /\ ~(y[2] < Len(lista_marcos)) =>
          tabla[y] # SinMarco /\ fase[y[1]] # "fin"
    <3>1. Len(lista_marcos) \in Nat
      BY <1>0, LenProperties DEF ListaLibre
    <3> QED BY <1>0, <2>b, <3>1 DEF ListaLibre, Asignadas
  <2>5. k.p = y[1] /\ k.en = "lee" => tabla[y] # SinMarco /\ fase[y[1]] # "fin"
    BY <1>0, <2>b DEF Asignadas, Todo, InvVivos, Pedido
  <2>6. k.p = y[1] /\ k.en = "copia" => y[2] < Len(lista_marcos)
    BY <1>0, <2>b DEF ListaLibre
  <2>7. Copia' = Copia
    BY <1>4 DEF Copia
  <2> HIDE DEF Copia
  <2> QED BY <1>4, <2>a, <2>c, <2>1, <2>2, <2>3, <2>4, <2>5, <2>6, <2>7 DEF Pagina1
<1> QED BY <1>6, <1>8, <1>9 DEF Contenido

\* The steps of the CPUs, of what gives them work and of what wakes a process.
LEMMA DatosCpu ==
  ASSUME Todo, \/ \E c \in CPUs : Cpu(c) \/ \E p \in Pids : Despachar(c, p)
               \/ \E p \in Pids : FinIO(p)
  PROVE  Datos'
<1> USE DEF mem, swap
<1>0. /\ TiposCpu /\ fase \in [Pids -> Fases] /\ UsaElSuyo /\ EnMano = {} /\ Llenas
      /\ espacio = [g \in Marcos |-> espacio[g]] /\ DOMAIN espacio = Marcos
  BY Hechos DEF Todo, MemoriaTypeOK, Datos
<1>a. ASSUME NEW c \in CPUs, NEW r, cpu' = [cpu EXCEPT ![c] = r], UNCHANGED tabla,
             r.en = "usa" => r.f = tabla[<<r.p, r.i>>]
      PROVE  UsaElSuyo'
  <2>1. cpu'[c] = r /\ \A d \in CPUs \ {c} : cpu'[d] = cpu[d]
    BY <1>0, <1>a DEF TiposCpu
  <2> QED BY <1>0, <1>a, <2>1 DEF UsaElSuyo, Pagina
<1>b. ASSUME UNCHANGED <<tabla, espacio, bitmap, archivo, entradas, lista_marcos, k, escrito>>, UsaElSuyo',
             \A p \in Pids : \/ fase'[p] = fase[p]
                             \/ fase[p] \in Vivas /\ fase'[p] \in Vivas \cup {"saliendo"}
      PROVE  Datos'
  <2>1. \A p \in Pids : fase'[p] # fase[p] =>
          \/ fase[p] \in Vivas \cup {"saliendo"} /\ fase'[p] \in {"saliendo", "fin"}
          \/ fase[p] \in Vivas /\ fase'[p] \in Vivas
    BY <1>b
  <2>2. DOMAIN espacio' = Marcos /\ espacio' = [f \in Marcos |-> espacio'[f]]
    BY <1>0, <1>b
  <2> QED BY <1>b, <2>1, <2>2, DatosSimple
<1>c. ASSUME NEW p \in Pids, NEW f \in Vivas \cup {"saliendo"}, fase[p] \in Vivas, Pasa(p, f)
      PROVE  \A q \in Pids : \/ fase'[q] = fase[q]
                             \/ fase[q] \in Vivas /\ fase'[q] \in Vivas \cup {"saliendo"}
  BY <1>0, <1>c DEF Pasa
<1>d. ASSUME NEW c \in CPUs, NEW en, NEW g
      PROVE  /\ [cpu[c] EXCEPT !.en = en].en = en
             /\ [cpu[c] EXCEPT !.en = en, !.i = g].en = en
             /\ LET r == [cpu[c] EXCEPT !.en = en, !.f = g]
                IN r.f = g /\ r.p = cpu[c].p /\ r.i = cpu[c].i
  BY <1>0 DEF TiposCpu, TipoCpu
<1>e. ASSUME NEW c \in CPUs, NEW r, cpu' = [cpu EXCEPT ![c] = r],
             r.en = "usa" => r.f = tabla[<<r.p, r.i>>],
             UNCHANGED <<tabla, espacio, bitmap, archivo, entradas, lista_marcos, k, escrito, fase>>
      PROVE  Datos'
  <2>1. UsaElSuyo'
    BY <1>a, <1>e
  <2> QED BY <1>b, <1>e, <2>1
<1>f. ASSUME NEW c \in CPUs, cpu[c].en \in {"ejecuta", "busca", "mira", "usa"}
      PROVE  cpu[c].p \in Pids /\ fase[cpu[c].p] = "exec" /\ viva[cpu[c].p]
  <2>1. ~cpu[c].vacia
    BY DEF Todo, InvVivos, EnCpus, Sano
  <2>2. Corre(cpu[c])
    BY <1>f, <2>1 DEF Corre
  <2> QED BY <1>0, <1>f, <2>2 DEF Todo, InvVivos, EnCpus, TiposCpu, PosicionCpu
<1>1. ASSUME NEW p \in Pids, FinIO(p) PROVE Datos'
  <2>1. /\ fase[p] \in Vivas /\ Pasa(p, "listo")
        /\ UNCHANGED <<tabla, espacio, bitmap, archivo, entradas, lista_marcos, k, escrito, cpu>>
    BY <1>1 DEF FinIO, Vivas
  <2>2. UsaElSuyo'
    BY <1>0, <2>1 DEF UsaElSuyo, Pagina
  <2>3. "listo" \in Vivas
    BY DEF Vivas
  <2> QED BY <1>b, <1>c, <2>1, <2>2, <2>3
<1>2. ASSUME NEW c \in CPUs, NEW p \in Pids, Despachar(c, p) PROVE Datos'
  <2>0. PICK r : r = [CpuLibre EXCEPT !.en = "ejecuta", !.p = p]
    OBVIOUS
  <2>1. /\ fase[p] = "listo" /\ Pasa(p, "exec")
        /\ UNCHANGED <<tabla, espacio, bitmap, archivo, entradas, lista_marcos, k, escrito>>
        /\ cpu' = [cpu EXCEPT ![c] = r]
    BY ONLY <1>2, <2>0 DEF Despachar, mem, swap
  <2>2. r.en = "ejecuta" /\ fase[p] \in Vivas /\ "exec" \in Vivas
    BY <2>0, <2>1 DEF CpuLibre, Vivas
  <2>3. UsaElSuyo'
    BY <1>a, <2>1, <2>2
  <2> QED BY <1>b, <1>c, <2>1, <2>2, <2>3
<1>3. ASSUME NEW c \in CPUs, PedirMarco(c) PROVE Datos'
  <2>1. PICK i \in Pag(cpu[c].p) : cpu' = [cpu EXCEPT ![c].en = "busca", ![c].i = i]
    BY <1>3 DEF PedirMarco
  <2>2. PICK r : r = [cpu[c] EXCEPT !.en = "busca", !.i = i]
    OBVIOUS
  <2>3. r.en # "usa"
    BY <1>d, <2>2
  <2>4. /\ cpu' = [cpu EXCEPT ![c] = r]
        /\ UNCHANGED <<tabla, espacio, bitmap, archivo, entradas, lista_marcos, k, escrito, fase>>
    BY <1>3, <2>1, <2>2 DEF PedirMarco
  <2> QED BY <1>e, <2>3, <2>4
<1>4. ASSUME NEW c \in CPUs, BloquearOSalir(c) PROVE Datos'
  <2>1. PICK s \in {"bloq", "saliendo"} : Pasa(cpu[c].p, s)
    BY <1>4 DEF BloquearOSalir
  <2>2. /\ UNCHANGED <<tabla, espacio, bitmap, archivo, entradas, lista_marcos, k, escrito>>
        /\ cpu[c].en = "ejecuta"
        /\ cpu' = [cpu EXCEPT ![c] =
             IF cpu[c].sucia = -1 THEN CpuLibre
             ELSE [cpu[c] EXCEPT !.en = "busca", !.i = cpu[c].sucia, !.vacia = TRUE]]
    BY <1>4 DEF BloquearOSalir
  <2>3. cpu[c].sucia = -1
    BY DEF Todo, InvVivos, EnCpus, Sano
  <2>4. UsaElSuyo'
    BY <1>a, <2>2, <2>3, ReposoTipo
  <2>5. cpu[c].p \in Pids /\ fase[cpu[c].p] \in Vivas /\ s \in Vivas \cup {"saliendo"}
    BY <1>f, <2>2 DEF Vivas
  <2> QED BY <1>b, <1>c, <2>1, <2>2, <2>4, <2>5
<1>5. ASSUME NEW c \in CPUs, BuscarProceso(c) PROVE Datos'
  <2>1. PICK en \in {"mira", "colgada"} : cpu' = [cpu EXCEPT ![c] = [cpu[c] EXCEPT !.en = en]]
    BY <1>5 DEF BuscarProceso, VaCpu
  <2>2. PICK r : r = [cpu[c] EXCEPT !.en = en]
    OBVIOUS
  <2>3. r.en # "usa"
    BY <1>d, <2>2
  <2>4. /\ cpu' = [cpu EXCEPT ![c] = r]
        /\ UNCHANGED <<tabla, espacio, bitmap, archivo, entradas, lista_marcos, k, escrito, fase>>
    BY <1>5, <2>1, <2>2 DEF BuscarProceso
  <2> QED BY <1>e, <2>3, <2>4
<1>6. ASSUME NEW c \in CPUs, MirarMarco(c) PROVE Datos'
  <2>1. /\ cpu[c].en = "mira"
        /\ UNCHANGED <<tabla, espacio, archivo, entradas, lista_marcos, k, escrito, fase>>
    BY <1>6 DEF MirarMarco
  <2>2. viva[cpu[c].p] /\ tabla[Pagina(c)] # SinMarco
    <3>1. cpu[c].p \in Pids /\ fase[cpu[c].p] = "exec" /\ viva[cpu[c].p]
      BY <1>f, <2>1
    <3>2. Pagina(c) \in DePid(cpu[c].p)
      BY <1>0, <2>1 DEF TiposCpu, PosicionCpu, Pagina, DePid
    <3> QED BY <1>0, <3>1, <3>2 DEF Llenas
  <2>3. UNCHANGED bitmap /\ cpu' = [cpu EXCEPT ![c] = [cpu[c] EXCEPT !.en = "usa", !.f = tabla[Pagina(c)]]]
    BY <1>6, <2>2 DEF MirarMarco
  <2>4. PICK r : r = [cpu[c] EXCEPT !.en = "usa", !.f = tabla[Pagina(c)]]
    OBVIOUS
  <2>5. r.f = tabla[<<r.p, r.i>>]
    <3>1. r.f = tabla[Pagina(c)] /\ r.p = cpu[c].p /\ r.i = cpu[c].i
      BY <1>d, <2>4
    <3> QED BY <3>1 DEF Pagina
  <2>6. cpu' = [cpu EXCEPT ![c] = r]
    BY <2>3, <2>4
  <2> QED BY <1>e, <2>1, <2>3, <2>5, <2>6
<1>7. ASSUME NEW c \in CPUs PROVE ~GuardarMarcoCPU(c)
  BY <1>0 DEF GuardarMarcoCPU, EnMano
<1>8. ASSUME NEW c \in CPUs, EscribirMemoria(c) PROVE Datos'
  <2>1. /\ cpu' = [cpu EXCEPT ![c] = [cpu[c] EXCEPT !.en = "ejecuta"]]
        /\ UNCHANGED <<tabla, bitmap, k, fase, archivo, entradas, lista_marcos>>
    BY <1>8 DEF EscribirMemoria, VaCpu
  <2>2. PICK r : r = [cpu[c] EXCEPT !.en = "ejecuta"]
    OBVIOUS
  <2>3. r.en # "usa"
    BY <1>d, <2>2
  <2>4. UsaElSuyo'
    BY <1>a, <2>1, <2>2, <2>3
  <2>5. ListaLibre' /\ Lugares'
    <3>1. ListaLibre /\ Lugares
      BY DEF Todo, Datos
    <3>2. Copia' = Copia /\ \A e : FinDe(e)' = FinDe(e)
      BY <2>1 DEF Copia, FinDe
    <3>3. ListaLibre'
      BY <2>1, <3>1, <3>2 DEF ListaLibre
    <3>4. Lugares'
      BY <2>1, <3>1, <3>2 DEF Lugares
    <3> QED BY <3>3, <3>4
  <2>6. Contenido' /\ DOMAIN espacio' = Marcos /\ espacio' = [f \in Marcos |-> espacio'[f]]
    BY <1>8, DatosEscribe
  <2> QED BY <2>4, <2>5, <2>6 DEF Datos
<1>9. ASSUME NEW c \in CPUs PROVE ~EscribirCache(c) /\ ~VaciarCache(c)
  BY DEF EscribirCache, VaciarCache, Todo, InvVivos, EnCpus, Sano
<1> QED BY <1>1, <1>2, <1>3, <1>4, <1>5, <1>6, <1>7, <1>8, <1>9 DEF Cpu

\* A request that assigns frames finds one for each page.
LEMMA SiempreHay ==
  ASSUME Todo, k.en = "asigna", <<k.p, k.i>> \in Paginas
  PROVE  ~asignar_marco_libre(SinMarco)
<1> SUFFICES ASSUME asignar_marco_libre(SinMarco) PROVE FALSE
  OBVIOUS
<1>1. Libres = {}
  BY SinMarcoAparte DEF asignar_marco_libre, Libres
<1>2. TiposMarcos /\ Alcanza
  BY DEF Todo, MemoriaTypeOK, Cuentas
<1>3. Cardinality(bitmap) = framesMaximos /\ framesMaximos \in Nat
  BY <1>1, <1>2, MarcosFinitos, Tamanios
<1>4. k.p \in Pids /\ k.i \in Nat /\ cantidad_paginas(k.p) \in Nat
  BY Hechos
<1>5. k.i < cantidad_paginas(k.p)
  BY <1>4, PaginasDePid
<1> QED BY <1>2, <1>3, <1>4, <1>5 DEF Alcanza, Quedan

\* Requests that begin in memory, or that end there.
LEMMA DatosPedidos ==
  ASSUME Todo, NEW p \in Pids, CREAR(p) \/ DESUSPENDER(p) PROVE Datos'
<1> USE DEF mem, swap
<1>0. /\ fase \in [Pids -> Fases] /\ DOMAIN espacio = Marcos
      /\ espacio = [g \in Marcos |-> espacio[g]]
  BY Hechos DEF Todo, Datos
<1>1. /\ UNCHANGED <<tabla, espacio, bitmap, archivo, entradas, lista_marcos, escrito, cpu>>
      /\ k.en = "recibe"
  BY DEF CREAR, DESUSPENDER
<1>2. UsaElSuyo'
  BY <1>1, UsaKernel
<1>3. DOMAIN espacio' = Marcos /\ espacio' = [g \in Marcos |-> espacio'[g]]
  BY <1>0, <1>1
<1>4. \A x \in Paginas : fase[x[1]] \in Vivas /\ fase'[x[1]] \in Vivas =>
                          tabla'[x] = tabla[x] /\ espacio'[tabla[x]] = espacio[tabla[x]]
  BY <1>1
<1>5. CASE CREAR(p)
  <2>1. fase[p] = "nuevo" /\ (Pasa(p, "listo") \/ UNCHANGED fase)
        /\ (UNCHANGED k \/ Atiende("CREAR", p, "asigna"))
    BY <1>5 DEF CREAR
  <2>2. k' = k \/ k'.en = "asigna"
    BY <2>1, AtiendeI
  <2>3. k' = k \/ (~Copia /\ ~Copia' /\ k'.en # "lee")
    BY <1>1, <2>2 DEF Copia
  <2>4. \A q \in Pids : fase'[q] = fase[q] \/ (fase[q] = "nuevo" /\ fase'[q] # "susp")
    BY <1>0, <2>1 DEF Pasa
  <2> QED BY <1>1, <1>2, <1>3, <1>4, <2>3, <2>4, DatosSimple
<1>6. CASE DESUSPENDER(p)
  <2>1. CASE Tamanio[p] > 0
    <3>1. fase[p] = "susp"
      BY <1>6 DEF DESUSPENDER
    <3>2. buscar_entrada_swap_por_pid(p) # 0
      BY <2>1, <3>1, SuEntrada
    <3>3. UNCHANGED fase /\ Atiende("DESUSPENDER", p, "asigna")
      BY <1>6, <2>1, <3>2 DEF DESUSPENDER
    <3>4. k'.en = "asigna"
      BY <3>3, AtiendeI
    <3>5. ~Copia /\ ~Copia' /\ k'.en # "lee"
      BY <1>1, <3>4 DEF Copia
    <3> QED BY <1>1, <1>2, <1>3, <1>4, <3>3, <3>5, DatosSimple
  <2>2. CASE ~(Tamanio[p] > 0)
    <3>1. k' = k /\ (Pasa(p, "susp") \/ Pasa(p, "listo")) /\ Tamanio[p] = 0
      BY <1>6, <2>2, Tamanios DEF DESUSPENDER
    <3>2. \A q \in Pids : fase'[q] = fase[q] \/ Tamanio[q] = 0
      BY <1>0, <3>1 DEF Pasa
    <3> QED BY <1>1, <1>2, <1>3, <1>4, <3>1, <3>2, DatosSimple
  <2> QED BY <2>1, <2>2
<1> QED BY <1>5, <1>6

\* CREAR and DESUSPENDER, page by page: the pages that get a frame are of a
\* process that is not in memory yet. And the tables of one that has ended go.
LEMMA DatosAsigna ==
  ASSUME Todo, AsignarMarco \/ GuardarMarco \/ FinAsignacion \/ eliminar_proceso_en_memoria
  PROVE  Datos'
<1> USE DEF mem, swap
<1>0. /\ fase \in [Pids -> Fases] /\ DOMAIN espacio = Marcos /\ k \in TipoK /\ k.i \in Nat
      /\ (k.en # "recibe" => k.p \in Pids) /\ tabla \in [Paginas -> MarcoONada]
      /\ espacio = [g \in Marcos |-> espacio[g]]
  BY Hechos DEF Todo, Datos
<1>1. /\ UNCHANGED <<espacio, archivo, entradas, lista_marcos, escrito, cpu>>
      /\ k.en \in {"asigna", "guarda", "destruye"}
  BY DEF AsignarMarco, GuardarMarco, FinAsignacion, eliminar_proceso_en_memoria
<1>2. DOMAIN espacio' = Marcos /\ espacio' = [g \in Marcos |-> espacio'[g]]
  BY <1>0, <1>1
<1>3. k.p \in Pids /\ fase[k.p] \in {"nuevo", "susp", "fin"}
      /\ (k.en = "asigna" /\ k.op = "CREAR" => fase[k.p] = "nuevo")
  BY <1>0, <1>1 DEF Todo, InvVivos, Pedido
<1>r. EnReposo.en = "recibe"
  BY DEF EnReposo
<1>4. k'.en \in {"recibe", "asigna", "guarda", "lee"} /\ (k'.en = "lee" => k'.i = 0)
  <2>1. CASE AsignarMarco
    BY <1>0, <1>r, <2>1 DEF AsignarMarco, TipoK
  <2>2. CASE GuardarMarco
    BY <1>0, <2>2 DEF GuardarMarco, TipoK
  <2>3. CASE FinAsignacion
    BY <1>0, <1>r, <2>3 DEF FinAsignacion, TipoK
  <2>4. CASE eliminar_proceso_en_memoria
    BY <1>r, <2>4 DEF eliminar_proceso_en_memoria
  <2> QED BY <2>1, <2>2, <2>3, <2>4
<1>5. ~Copia /\ ~Copia' /\ (k'.en = "lee" => k'.i = 0)
  BY <1>1, <1>4 DEF Copia
<1>6. \A x \in Paginas : x[1] # k.p => tabla'[x] = tabla[x]
  <2>1. CASE AsignarMarco
    BY <1>0, <2>1 DEF AsignarMarco
  <2>2. CASE GuardarMarco
    <3>1. tabla' = [tabla EXCEPT ![<<k.p, k.i>>] = k.f]
      BY <2>2 DEF GuardarMarco
    <3>2. <<k.p, k.i>>[1] = k.p
      OBVIOUS
    <3> QED BY <1>0, <3>1, <3>2
  <2>3. CASE FinAsignacion
    BY <2>3 DEF FinAsignacion
  <2>4. CASE eliminar_proceso_en_memoria
    BY <1>0, <2>4 DEF eliminar_proceso_en_memoria
  <2> QED BY <2>1, <2>2, <2>3, <2>4
<1>7. UsaElSuyo'
  BY <1>1, <1>3, <1>6, UsaKernel
<1>8. \A x \in Paginas : fase[x[1]] \in Vivas /\ fase'[x[1]] \in Vivas =>
                          tabla'[x] = tabla[x] /\ espacio'[tabla[x]] = espacio[tabla[x]]
  BY <1>1, <1>3, <1>6 DEF Vivas
<1>9. \A q \in Pids : fase'[q] = fase[q] \/ (fase[q] = "nuevo" /\ fase'[q] # "susp")
  <2>1. CASE AsignarMarco
    <3>1. k.en = "asigna" /\ <<k.p, k.i>> \in Paginas
      BY <2>1 DEF AsignarMarco
    <3>2. ~asignar_marco_libre(SinMarco)
      BY <3>1, SiempreHay
    <3> QED BY <2>1, <3>2 DEF AsignarMarco
  <2>2. CASE GuardarMarco
    BY <2>2 DEF GuardarMarco
  <2>3. CASE FinAsignacion
    <3>1. \/ UNCHANGED fase
          \/ fase[k.p] = "nuevo" /\ Pasa(k.p, "listo")
      BY <1>3, <2>3 DEF FinAsignacion
    <3> QED BY <1>0, <3>1 DEF Pasa
  <2>4. CASE eliminar_proceso_en_memoria
    BY <2>4 DEF eliminar_proceso_en_memoria
  <2> QED BY <2>1, <2>2, <2>3, <2>4
<1> HIDE DEF Copia
<1> QED BY <1>1, <1>2, <1>5, <1>7, <1>8, <1>9, DatosSimple

\* The end of a process that is in memory: the frames that are cleared are its own.
LEMMA DatosFinaliza ==
  ASSUME Todo, NEW p \in Pids, FINALIZAR(p),
         Tamanio[p] = 0 \/ buscar_entrada_swap_por_pid(p) = 0
  PROVE  Datos'
<1> USE DEF mem, swap
<1> DEFINE X == ConMarco({x \in Paginas : x[1] = p})
           F == {tabla[x] : x \in X}
<1>0. /\ fase \in [Pids -> Fases] /\ DOMAIN espacio = Marcos /\ Llenas
      /\ espacio = [g \in Marcos |-> espacio[g]]
  BY Hechos DEF Todo, Datos
<1>1. /\ UNCHANGED <<tabla, archivo, entradas, lista_marcos, escrito, cpu>> /\ k.en = "recibe"
      /\ fase[p] \in {"saliendo", "bloq", "susp"} /\ Pasa(p, "fin")
      /\ \/ Tamanio[p] = 0 /\ UNCHANGED <<espacio, bitmap, k>>
         \/ /\ Tamanio[p] > 0 /\ buscar_entrada_swap_por_pid(p) = 0
            /\ espacio' = [f \in Marcos |-> IF f \in F THEN Cero ELSE espacio[f]]
            /\ Atiende("FINALIZAR", p, "destruye")
  BY Tamanios DEF FINALIZAR
<1>2. UsaElSuyo'
  BY <1>1, UsaKernel
<1>3. DOMAIN espacio' = Marcos /\ espacio' = [g \in Marcos |-> espacio'[g]]
  <2> HIDE DEF F
  <2> QED BY <1>0, <1>1
<1>4. \A q \in Pids : \/ fase'[q] = fase[q]
                      \/ Tamanio[q] = 0
                      \/ fase[q] \in Vivas \cup {"saliendo"} /\ fase'[q] \in {"saliendo", "fin"}
  <2>1. fase' = [fase EXCEPT ![p] = "fin"]
    BY <1>1 DEF Pasa
  <2>2. Tamanio[p] > 0 => fase[p] # "susp"
    BY <1>1, SuEntrada
  <2>3. Tamanio[p] = 0 \/ fase[p] \in Vivas \cup {"saliendo"}
    BY <1>1, <2>2 DEF Vivas
  <2> QED BY <1>0, <2>1, <2>3
<1>5. ASSUME NEW x \in Paginas, fase[x[1]] \in Vivas, fase'[x[1]] \in Vivas
      PROVE  tabla'[x] = tabla[x] /\ espacio'[tabla[x]] = espacio[tabla[x]]
  <2>1. x[1] # p /\ x[1] \in Pids /\ x \in DePid(x[1])
    BY <1>0, <1>1, <1>5, Hechos DEF Pasa, Vivas
  <2>2. tabla[x] # SinMarco /\ fase[x[1]] # "fin"
    BY <1>0, <1>5, <2>1 DEF Llenas, Vivas
  <2>3. tabla[x] \in Marcos
    BY <2>2, OtroMarco
  <2>4. tabla[x] \notin F
    <3> SUFFICES ASSUME NEW y \in X PROVE tabla[y] # tabla[x]
      OBVIOUS
    <3>1. y \in Paginas /\ y[1] = p /\ tabla[y] # SinMarco
      BY DEF ConMarco
    <3>2. y # x /\ fase[y[1]] # "fin"
      BY <1>1, <2>1, <3>1
    <3> QED BY <2>2, <3>1, <3>2, OtroMarco
  <2> HIDE DEF F
  <2> QED BY <1>1, <2>3, <2>4
<1>6. (k' = k /\ UNCHANGED <<tabla, espacio, bitmap>>) \/ (~Copia /\ ~Copia' /\ k'.en # "lee")
  <2>1. CASE Tamanio[p] = 0
    BY <1>1, <2>1
  <2>2. CASE Atiende("FINALIZAR", p, "destruye")
    <3>1. k'.en = "destruye"
      BY <2>2, AtiendeI
    <3> QED BY <1>1, <3>1 DEF Copia
  <2> QED BY <1>1, <2>1, <2>2
<1> HIDE DEF Copia, F, X
<1>7. (k' = k /\ UNCHANGED <<tabla, espacio, bitmap>>) \/ (~Copia /\ ~Copia' /\ (k'.en = "lee" => k'.i = 0))
  BY <1>6
<1>8. UNCHANGED <<archivo, entradas, lista_marcos, escrito>>
  BY <1>1
<1> QED BY <1>2, <1>3, <1>4, <1>5, <1>7, <1>8, DatosSimple

-----------------------------------------------------------------------------
(* To the swap file and back.                                               *)

\* DESUSPENDER reads a page into the frame it got; the frame is of no other page.
LEMMA DatosLee ==
  ASSUME Todo, LeerDeSwap PROVE Datos'
<1> USE DEF mem, swap
<1>x. PICK x : x = <<k.p, k.i>>
  OBVIOUS
<1>e. PICK e : e = buscar_entrada_swap_por_pid(k.p)
  OBVIOUS
<1>f. PICK f : f = tabla[x]
  OBVIOUS
<1>0. /\ Contenido /\ ListaLibre /\ Lugares /\ ConEntrada /\ DOMAIN espacio = Marcos
      /\ espacio = [g \in Marcos |-> espacio[g]] /\ Llenas /\ Asignadas
      /\ k \in TipoK /\ k.i \in Nat /\ (k.en # "recibe" => k.p \in Pids)
  BY Hechos DEF Todo, Datos
<1>1. /\ k.en = "lee" /\ x \in Paginas /\ k.p \in Pids /\ x[1] = k.p /\ x[2] = k.i
      /\ UNCHANGED <<fase, tabla, bitmap, archivo, entradas, lista_marcos, cpu, escrito>>
      /\ k' = [k EXCEPT !.i = k.i + 1] /\ fase[k.p] = "susp"
  BY <1>0, <1>x DEF LeerDeSwap, Todo, InvVivos, Pedido
<1>2. k'.en = "lee" /\ k'.p = k.p /\ k'.i = k.i + 1
  BY <1>0, <1>1 DEF TipoK
<1>3. ~Copia /\ ~Copia'
  BY <1>1, <1>2 DEF Copia
<1>4. /\ e \in DOMAIN entradas /\ entradas[e].ini + x[2] + 1 \in Nat /\ entradas[e].ini \in Nat
      /\ entradas[e].ini + x[2] + 1 <= Len(archivo)
  BY <1>1, <1>3, <1>e, SuLugar
<1>5. entradas[e].ini + k.i < Len(archivo)
  <2>1. Len(archivo) \in Nat
    BY <1>0, Secuencias
  <2> QED BY <1>0, <1>1, <1>4, <2>1
<1>6. tabla[x] # SinMarco /\ fase[x[1]] # "fin"
  BY <1>0, <1>1, Hechos DEF Asignadas
<1>7. f \in Marcos /\ f \in bitmap
      /\ \A y \in Paginas : y # x /\ tabla[y] # SinMarco /\ fase[y[1]] # "fin" => tabla[y] # f
  BY <1>1, <1>6, <1>f, OtroMarco
<1>8. espacio' = [espacio EXCEPT ![f] = archivo[entradas[e].ini + k.i + 1]]
  BY <1>5, <1>x, <1>e, <1>f DEF LeerDeSwap
<1>9. /\ espacio'[f] = archivo[entradas[e].ini + k.i + 1]
      /\ \A g \in Marcos : g # f => espacio'[g] = espacio[g]
      /\ DOMAIN espacio' = Marcos /\ espacio' = [g \in Marcos |-> espacio'[g]]
  BY <1>0, <1>7, <1>8
<1>10. Contenido'
  <2> SUFFICES ASSUME NEW y \in Paginas PROVE Pagina1(y)'
    BY DEF Contenido
  <2>a. Pagina1(y)
    BY <1>0 DEF Contenido
  <2>b. y[2] \in Nat /\ y[1] \in Pids /\ y \in DePid(y[1]) /\ y = <<y[1], y[2]>>
    BY Hechos
  <2>c. Ultimo(y)' = Ultimo(y) /\ escrito'[y] = escrito[y] /\ EnArchivo(y)' = EnArchivo(y)
    BY <1>1 DEF Ultimo, EnArchivo, buscar_entrada_swap_por_pid
  <2>1. ASSUME y # x, tabla[y] # SinMarco, fase[y[1]] # "fin" PROVE EnSuMarco(y)' = EnSuMarco(y)
    <3>1. tabla[y] # f /\ tabla[y] \in Marcos
      BY <1>7, <2>1, OtroMarco
    <3> QED BY <1>1, <1>9, <2>c, <3>1 DEF EnSuMarco
  <2>2. y[1] = k.p /\ y[2] = k.i => y = x
    BY <1>x, <2>b
  <2>3. fase[y[1]] \in {"listo", "exec", "bloq"} => y # x /\ tabla[y] # SinMarco /\ fase[y[1]] # "fin"
    BY <1>0, <1>1, <2>b DEF Llenas
  <2>4. y[1] = k.p => tabla[y] # SinMarco /\ fase[y[1]] # "fin"
    BY <1>0, <1>1, <2>b DEF Asignadas
  <2>5. ASSUME y[1] = k.p, y[2] < k.i + 1, escrito[y] > 0 PROVE EnSuMarco(y)'
    <3>1. CASE y = x
      <4>1. EnArchivo(x)
        BY <1>1, <1>3, <2>a, <2>5, <3>1 DEF Pagina1
      <4>2. archivo[entradas[e].ini + k.i + 1] = Ultimo(x)
        BY <1>1, <1>e, <4>1 DEF EnArchivo
      <4>3. espacio'[tabla'[x]] = Ultimo(x)
        BY <1>1, <1>9, <1>f, <4>2
      <4> QED BY <2>c, <3>1, <4>3 DEF EnSuMarco
    <3>2. CASE y # x
      <4>1. y[2] < k.i
        BY <1>0, <2>2, <2>5, <2>b, <3>2
      <4>2. EnSuMarco(y)
        BY <1>1, <2>5, <2>a, <4>1 DEF Pagina1
      <4> QED BY <2>1, <2>4, <2>5, <3>2, <4>2
    <3> QED BY <3>1, <3>2
  <2> HIDE DEF Copia
  <2> QED BY <1>1, <1>2, <1>3, <2>a, <2>c, <2>1, <2>3, <2>5 DEF Pagina1
<1>11. ListaLibre'
  <2>1. lista_marcos = <<>>
    BY <1>0, <1>3 DEF ListaLibre
  <2> QED BY <1>0, <1>1, <1>2, <1>3, <2>1 DEF ListaLibre
<1>12. Lugares'
  <2>1. \A i : FinDe(i)' = FinDe(i)
    BY <1>1 DEF FinDe
  <2> HIDE DEF Copia
  <2> QED BY <1>0, <1>1, <1>2, <1>3, <2>1 DEF Lugares
<1>13. UsaElSuyo'
  BY <1>1, UsaKernel
<1> QED BY <1>9, <1>10, <1>11, <1>12, <1>13 DEF Datos

\* SUSPENDER adds an entry at the end of the file: those of the others stay.
LEMMA DatosSuspende ==
  ASSUME Todo, NEW p \in Pids, SUSPENDER(p) PROVE Datos'
<1> USE DEF mem, swap
<1>n. PICK n : n = Len(entradas)
  OBVIOUS
<1>a. PICK E : E = entradas'
  OBVIOUS
<1>b. PICK z : z = [pid |-> p, ini |-> Len(archivo)]
  OBVIOUS
<1>0. /\ Contenido /\ ListaLibre /\ Lugares /\ ConEntrada /\ DOMAIN espacio = Marcos
      /\ espacio = [g \in Marcos |-> espacio[g]] /\ Llenas
      /\ fase \in [Pids -> Fases] /\ ENTRADAS_POR_TABLA \in Nat
      /\ \A q \in Pids : cantidad_paginas(q) \in Nat
  BY Hechos DEF Todo, Datos
<1>s. /\ entradas \in Seq([pid : Pids, ini : Nat]) /\ DOMAIN entradas = 1..n /\ n \in Nat
      /\ Len(archivo) \in Nat
      /\ \A e \in 1..n : FinDe(e) \in Nat /\ entradas[e].pid \in Pids /\ entradas[e].ini \in Nat
  BY <1>0, <1>n, Secuencias
<1>1. /\ k.en = "recibe" /\ fase[p] = "bloq" /\ fase' = [fase EXCEPT ![p] = "susp"]
      /\ E = Append(entradas, z) /\ Atiende("SUSPENDER", p, "recolecta")
      /\ UNCHANGED <<tabla, bitmap, espacio, archivo, lista_marcos, cpu, escrito>>
  BY <1>a, <1>b DEF SUSPENDER, Pasa
<1>2. k'.en = "recolecta" /\ k'.p = p /\ k'.i = 0
  BY <1>1, AtiendeI
<1>3. ~Copia /\ Copia'
  BY <1>1, <1>2 DEF Copia
<1>4. lista_marcos = <<>> /\ Len(lista_marcos) = 0
  BY <1>0, <1>3 DEF ListaLibre
<1>5. /\ DOMAIN E = 1..(n + 1) /\ Len(E) = n + 1 /\ E[n + 1] = z
      /\ \A i \in 1..n : E[i] = entradas[i]
      /\ z.pid = p /\ z.ini = Len(archivo)
  <2>1. z \in [pid : Pids, ini : Nat]
    BY <1>b, <1>s
  <2>2. /\ Len(E) = n + 1 /\ E \in Seq([pid : Pids, ini : Nat])
        /\ \A i \in 1..n : E[i] = entradas[i]
        /\ E[n + 1] = z
    BY <1>1, <1>n, <1>s, <2>1, AppendProperties
  <2>3. DOMAIN E = 1..(n + 1)
    BY <2>2, LenProperties
  <2> QED BY <1>b, <2>2, <2>3
<1>6. fase'[p] = "susp" /\ \A q \in Pids : q # p => fase'[q] = fase[q]
  BY <1>0, <1>1
<1>7. Contenido'
  <2> SUFFICES ASSUME NEW x \in Paginas PROVE Pagina1(x)'
    BY DEF Contenido
  <2>a. Pagina1(x)
    BY <1>0 DEF Contenido
  <2>b. x[2] \in Nat /\ x[1] \in Pids /\ x \in DePid(x[1]) /\ Tamanio[x[1]] > 0
    BY Hechos
  <2>c. Ultimo(x)' = Ultimo(x) /\ escrito'[x] = escrito[x] /\ EnSuMarco(x)' = EnSuMarco(x)
    BY <1>1 DEF Ultimo, EnSuMarco
  <2>1. ASSUME x[1] # p, fase[x[1]] = "susp" PROVE EnArchivo(x)' <=> EnArchivo(x)
    <3>e. PICK e : e = buscar_entrada_swap_por_pid(x[1])
      OBVIOUS
    <3>1. /\ e \in DOMAIN entradas /\ entradas[e].pid = x[1]
          /\ \A f \in DOMAIN entradas : entradas[f].pid = x[1] => f = e
      BY <2>1, <2>b, <3>e, SuEntrada
    <3>2. e \in DOMAIN E /\ E[e] = entradas[e]
      BY <1>5, <1>s, <3>1
    <3>3. \A f \in DOMAIN E : E[f].pid = x[1] => f = e
      <4>1. \A f \in DOMAIN E : f \in 1..n \/ f = n + 1
        BY <1>5, <1>s
      <4> QED BY <1>5, <1>s, <2>1, <3>1, <4>1
    <3>4. Buscar(E, x[1]) = e
      <4>1. DOMAIN E \subseteq Nat
        BY <1>5, <1>s
      <4> QED BY <3>1, <3>2, <3>3, <4>1, BuscarUnico
    <3>5. buscar_entrada_swap_por_pid(x[1])' = e
      BY <1>a, <3>4 DEF buscar_entrada_swap_por_pid, Buscar
    <3> HIDE DEF buscar_entrada_swap_por_pid
    <3>6. EnArchivo(x) <=> archivo[entradas[e].ini + x[2] + 1] = Ultimo(x)
      BY <3>e DEF EnArchivo
    <3>7. EnArchivo(x)' <=> archivo[entradas[e].ini + x[2] + 1] = Ultimo(x)
      <4>1. entradas'[e] = entradas[e]
        BY <1>a, <3>2
      <4>2. EnArchivo(x)' <=> archivo'[entradas'[e].ini + x[2] + 1] = Ultimo(x)'
        BY <3>5 DEF EnArchivo
      <4> QED BY <1>1, <2>c, <4>1, <4>2
    <3> QED BY <3>6, <3>7
  <2>2. CASE x[1] = p
    <3>1. ~(x[2] < Len(lista_marcos))
      BY <1>4, <2>b
    <3> QED BY <1>1, <1>2, <1>3, <1>6, <2>a, <2>b, <2>c, <2>2, <3>1 DEF Pagina1
  <2>3. CASE x[1] # p
    BY <1>1, <1>2, <1>3, <1>6, <2>a, <2>b, <2>c, <2>1, <2>3 DEF Pagina1
  <2> QED BY <2>2, <2>3
<1>8. ListaLibre'
  <2>1. 0 * ENTRADAS_POR_TABLA = 0 /\ 0 <= cantidad_paginas(p)
    BY <1>0
  <2>2. \A x \in DePid(p) : tabla'[x] # SinMarco
    BY <1>0, <1>1 DEF Llenas
  <2> QED BY <1>0, <1>1, <1>2, <1>3, <1>4, <2>1, <2>2 DEF ListaLibre
<1>9. Lugares'
  <2>1. \A e \in 1..n : FinDe(e)' = FinDe(e)
    BY <1>5, <1>a DEF FinDe
  <2>2. \A e \in 1..n : FinDe(e) <= Len(archivo)
    BY <1>0, <1>3, <1>s DEF Lugares
  <2>3. entradas'[Len(entradas')].pid = p /\ entradas'[Len(entradas')].ini = Len(archivo)
    BY <1>5, <1>a
  <2>4. \A e \in DOMAIN E : e \in 1..n \/ e = n + 1
    BY <1>5, <1>s
  <2>5. \A e \in DOMAIN E : ~(e = Len(E)) => FinDe(e)' <= Len(archivo)
    BY <1>5, <2>1, <2>2, <2>4
  <2>6. ASSUME NEW e \in DOMAIN E, NEW f \in DOMAIN E, e < f PROVE FinDe(e)' <= E[f].ini
    <3>1. e \in 1..n
      BY <1>5, <1>s, <2>6
    <3>2. CASE f \in 1..n
      <4>1. FinDe(e) <= entradas[f].ini
        BY <1>0, <1>s, <2>6, <3>1, <3>2 DEF Lugares
      <4> QED BY <1>5, <2>1, <3>1, <3>2, <4>1
    <3>3. CASE f = n + 1
      BY <1>5, <2>1, <2>2, <3>1, <3>3
    <3> QED BY <2>4, <3>2, <3>3
  <2>7. ASSUME NEW e \in DOMAIN E, Tamanio[E[e].pid] > 0
        PROVE  fase'[E[e].pid] = "susp" /\ \A f \in DOMAIN E : E[f].pid = E[e].pid => f = e
    <3>1. \A i \in 1..n : entradas[i].pid = p => Tamanio[p] <= 0
      <4> SUFFICES ASSUME NEW i \in 1..n, entradas[i].pid = p, Tamanio[p] > 0 PROVE FALSE
        BY <1>s, Tamanios
      <4> QED BY <1>0, <1>1, <1>s DEF Lugares
    <3>2. CASE e = n + 1
      <4>1. \A f \in 1..n : E[f].pid # p
        BY <1>5, <2>7, <3>1, <3>2, Tamanios
      <4> QED BY <1>5, <1>6, <2>4, <3>2, <4>1
    <3>3. CASE e \in 1..n
      <4>1. entradas[e].pid # p
        BY <1>5, <2>7, <3>1, <3>3, Tamanios
      <4>2. fase[entradas[e].pid] = "susp"
            /\ \A f \in 1..n : entradas[f].pid = entradas[e].pid => f = e
        BY <1>0, <1>5, <1>s, <2>7, <3>3 DEF Lugares
      <4> QED BY <1>5, <1>6, <1>s, <2>4, <3>3, <4>1, <4>2
    <3> QED BY <2>4, <3>2, <3>3
  <2> HIDE DEF FinDe, Copia
  <2> QED BY <1>1, <1>2, <1>3, <1>a, <1>5, <2>3, <2>5, <2>6, <2>7 DEF Lugares
<1>10. UsaElSuyo'
  BY <1>1, UsaKernel
<1>11. DOMAIN espacio' = Marcos /\ espacio' = [g \in Marcos |-> espacio'[g]]
  BY <1>0, <1>1
<1> QED BY <1>7, <1>8, <1>9, <1>10, <1>11 DEF Datos

\* A leaf is taken out of the table: its frames go on to the list in the order of
\* the pages, with what they hold.
LEMMA DatosRecolecta ==
  ASSUME Todo, RecolectarMarcos PROVE Datos'
<1> USE DEF mem, swap
<1>p. PICK p : p = k.p
  OBVIOUS
<1>h. PICK h : h = k.i
  OBVIOUS
<1>l. PICK l : l = lista_marcos
  OBVIOUS
<1>m. PICK m : m = lista_marcos'
  OBVIOUS
<1>b. PICK E : E = ENTRADAS_POR_TABLA
  OBVIOUS
<1>c. PICK c : c = cantidad_paginas(p)
  OBVIOUS
<1>X. PICK X : X = ConMarco(Hoja(p, h))
  OBVIOUS
<1>a. PICK a : a = h * E
  OBVIOUS
<1>n. PICK n : n = IF a >= c THEN 0 ELSE IF (h + 1) * E <= c THEN E ELSE c - a
  OBVIOUS
<1>0. /\ Contenido /\ ListaLibre /\ Lugares /\ ConEntrada /\ DOMAIN espacio = Marcos
      /\ espacio = [g \in Marcos |-> espacio[g]] /\ Llenas /\ Asignadas
      /\ tabla \in [Paginas -> MarcoONada] /\ E \in Nat \ {0} /\ c \in Nat
      /\ k \in TipoK /\ k.i \in Nat /\ (k.en # "recibe" => k.p \in Pids)
  <2>1. k.en = "recolecta"
    BY DEF RecolectarMarcos
  <2> QED BY <1>b, <1>c, <1>p, <2>1, Hechos DEF Todo, Datos
<1>1. /\ k.en = "recolecta" /\ h \in Hojas(p) /\ p \in Pids /\ h \in Nat /\ fase[p] = "susp"
      /\ tabla' = [x \in Paginas |-> IF x \in X THEN SinMarco ELSE tabla[x]]
      /\ bitmap' = bitmap \ {tabla[x] : x \in X}
      /\ m = l \o [j \in DOMAIN EnOrden(X) |-> tabla[EnOrden(X)[j]]]
      /\ k' = [k EXCEPT !.i = h + 1]
      /\ UNCHANGED <<fase, espacio, archivo, entradas, cpu, escrito>>
  BY <1>0, <1>p, <1>h, <1>l, <1>m, <1>X DEF RecolectarMarcos, Asignadas
<1>2. k'.en = "recolecta" /\ k'.p = p /\ k'.i = h + 1
  <2>1. k \in TipoK /\ k.en = "recolecta" /\ k.p = p /\ k' = [k EXCEPT !.i = h + 1]
    BY <1>0, <1>1, <1>p
  <2> QED BY ONLY <2>1 DEF TipoK
<1>3. /\ n \in Nat /\ a \in Nat /\ (h + 1) * E = a + E /\ a < c
      /\ Hoja(p, h) = {<<p, i>> : i \in a..(a + n - 1)}
  BY <1>1, <1>a, <1>b, <1>c, <1>n, HojaSon
<1>4. /\ Len(l) = a /\ l \in Seq(Marcos) /\ DOMAIN l = 1..a
      /\ \A x \in DePid(p) : x[2] >= a => tabla[x] # SinMarco
  <2>1. Len(l) = a
    BY <1>0, <1>1, <1>3, <1>l, <1>h, <1>p, <1>a, <1>b, <1>c DEF ListaLibre
  <2>2. l \in Seq(Marcos)
    BY <1>0, <1>l DEF ListaLibre
  <2> QED BY <1>0, <1>1, <1>p, <1>l, <2>1, <2>2, LenProperties DEF ListaLibre
<1>5. a + n <= c /\ a + n = IF (h + 1) * E <= c THEN (h + 1) * E ELSE c
  BY <1>0, <1>3, <1>n
<1>6. \A i \in a..(a + n - 1) : /\ <<p, i>> \in DePid(p) /\ <<p, i>> \in Paginas
                                /\ tabla[<<p, i>>] # SinMarco
  <2> SUFFICES ASSUME NEW i \in a..(a + n - 1)
               PROVE  <<p, i>> \in DePid(p) /\ tabla[<<p, i>>] # SinMarco
    BY DEF DePid
  <2>1. i \in Nat /\ i < c
    BY <1>0, <1>3, <1>5
  <2>2. <<p, i>> \in DePid(p)
    BY <1>1, <1>c, <2>1, PaginasDePid
  <2>3. <<p, i>>[2] >= a
    BY <1>3
  <2> QED BY <1>4, <2>2, <2>3
<1>7. X = {<<p, i>> : i \in a..(a + n - 1)}
  BY <1>3, <1>6, <1>X DEF ConMarco
<1>8. DOMAIN EnOrden(X) = 1..n /\ \A j \in 1..n : EnOrden(X)[j] = <<p, a + j - 1>>
  <2>1. a \in Nat /\ n \in Nat
    BY <1>3
  <2>2. Seguidas(X, p, a, n)
    BY <1>7 DEF Seguidas
  <2>3. DOMAIN EnOrden(X) = 1..n
    BY ONLY <2>1, <2>2, Consecutivas
  <2>4. \A j \in 1..n : EnOrden(X)[j] = <<p, a + j - 1>>
    BY ONLY <2>1, <2>2, Consecutivas
  <2> QED BY <2>3, <2>4
<1>9. PICK t : t = [j \in 1..n |-> tabla[<<p, a + j - 1>>]]
  OBVIOUS
<1>10. m = l \o t
  BY <1>1, <1>8, <1>9
<1>11. \A x \in X : tabla[x] \in Marcos /\ x \in Paginas /\ x[1] = p
  <2> SUFFICES ASSUME NEW x \in X PROVE tabla[x] \in Marcos /\ x \in Paginas /\ x[1] = p
    OBVIOUS
  <2>1. x \in Paginas /\ tabla[x] # SinMarco /\ x[1] = p
    BY <1>6, <1>7
  <2> QED BY <1>1, <2>1, OtroMarco
<1>12. \A j \in 1..n : t[j] = tabla[<<p, a + j - 1>>] /\ <<p, a + j - 1>> \in X /\ t[j] \in Marcos
  <2> SUFFICES ASSUME NEW j \in 1..n
               PROVE  t[j] = tabla[<<p, a + j - 1>>] /\ <<p, a + j - 1>> \in X
    BY <1>11
  <2>1. a + j - 1 \in a..(a + n - 1)
    BY <1>3
  <2> QED BY <1>7, <1>9, <2>1
<1>13. t \in Seq(Marcos) /\ Len(t) = n
  <2>1. t \in [1..n -> Marcos]
    BY <1>9, <1>12
  <2> QED BY <1>3, <2>1, SeqDef, LenProperties
<1>14. /\ m \in Seq(Marcos) /\ Len(m) = a + n /\ DOMAIN m = 1..(a + n)
       /\ \A j \in 1..(a + n) : m[j] = IF j <= a THEN l[j] ELSE t[j - a]
  <2>1. /\ l \o t \in Seq(Marcos) /\ Len(l \o t) = Len(l) + Len(t)
        /\ \A j \in 1..(Len(l) + Len(t)) :
             (l \o t)[j] = IF j <= Len(l) THEN l[j] ELSE t[j - Len(l)]
    BY <1>4, <1>13, ConcatProperties
  <2>2. m \in Seq(Marcos) /\ Len(m) = a + n
    BY <1>4, <1>10, <1>13, <2>1
  <2>3. DOMAIN m = 1..(a + n)
    BY <2>2, LenProperties
  <2>4. \A j \in 1..(a + n) : m[j] = IF j <= a THEN l[j] ELSE t[j - a]
    BY <1>4, <1>10, <1>13, <2>1
  <2> QED BY <2>2, <2>3, <2>4
<1>15. \A j \in 1..(a + n) : j > a => m[j] = tabla[<<p, j - 1>>] /\ <<p, j - 1>> \in X
  <2> SUFFICES ASSUME NEW j \in 1..(a + n), j > a
               PROVE  m[j] = tabla[<<p, j - 1>>] /\ <<p, j - 1>> \in X
    OBVIOUS
  <2>1. j - a \in 1..n /\ a + (j - a) - 1 = j - 1
    BY <1>3
  <2>2. m[j] = t[j - a]
    BY <1>3, <1>14
  <2> QED BY <1>12, <2>1, <2>2
<1>16. \A x \in Paginas : x \notin X => tabla'[x] = tabla[x]
  BY <1>1
<1>17. Copia /\ Copia'
  BY <1>1, <1>2 DEF Copia
<1>18. Contenido'
  <2> SUFFICES ASSUME NEW x \in Paginas PROVE Pagina1(x)'
    BY DEF Contenido
  <2>a. Pagina1(x)
    BY <1>0 DEF Contenido
  <2>b. x[2] \in Nat /\ x[1] \in Pids /\ x \in DePid(x[1]) /\ x = <<x[1], x[2]>>
    BY Hechos
  <2>c. Ultimo(x)' = Ultimo(x) /\ escrito'[x] = escrito[x] /\ EnArchivo(x)' = EnArchivo(x)
    BY <1>1 DEF Ultimo, EnArchivo, buscar_entrada_swap_por_pid
  <2>1. x \notin X => EnSuMarco(x)' = EnSuMarco(x)
    BY <1>1, <1>16, <2>c DEF EnSuMarco
  <2>2. x \in X => x[1] = p
    BY <1>11
  <2>3. CASE x[1] # p
    <3>1. k'.p # x[1] /\ k.p # x[1] /\ x \notin X
      BY <1>2, <1>p, <2>2, <2>3
    <3> HIDE DEF Copia
    <3> QED BY <1>1, <2>a, <2>c, <2>1, <3>1 DEF Pagina1
  <2>4. CASE x[1] = p
    <3> SUFFICES ASSUME escrito[x] > 0
                 PROVE  IF x[2] < a + n THEN EnLista(x)' ELSE EnSuMarco(x)'
      BY <1>1, <1>2, <1>14, <1>17, <1>m, <2>4, <2>c DEF Pagina1
    <3>a. IF x[2] < a THEN EnLista(x) ELSE EnSuMarco(x)
      BY <1>1, <1>4, <1>l, <1>p, <2>a, <2>4 DEF Pagina1
    <3>b. EnLista(x)' <=> espacio[m[x[2] + 1]] = Ultimo(x)
      BY <1>1, <1>m, <2>c DEF EnLista
    <3>1. CASE x[2] < a
      <4>1. x[2] + 1 \in 1..(a + n) /\ x[2] + 1 <= a
        BY <1>3, <2>b, <3>1
      <4>2. m[x[2] + 1] = l[x[2] + 1]
        BY <1>14, <4>1
      <4>3. EnLista(x)' /\ x[2] < a + n
        BY <1>3, <1>l, <2>b, <3>1, <3>a, <3>b, <4>2 DEF EnLista
      <4> QED BY <4>3
    <3>2. CASE ~(x[2] < a) /\ x[2] < a + n
      <4>1. x[2] + 1 \in 1..(a + n) /\ x[2] + 1 > a /\ (x[2] + 1) - 1 = x[2]
        BY <1>3, <2>b, <3>2
      <4>2. m[x[2] + 1] = tabla[<<p, x[2]>>]
        BY <1>15, <4>1
      <4>3. <<p, x[2]>> = x
        BY <2>b, <2>4
      <4> QED BY <3>2, <3>a, <3>b, <4>2, <4>3 DEF EnSuMarco
    <3>3. CASE ~(x[2] < a + n)
      <4>1. x \notin X
        <5> SUFFICES ASSUME NEW i \in a..(a + n - 1), x = <<p, i>> PROVE FALSE
          BY <1>7
        <5>1. x[2] = i
          OBVIOUS
        <5> QED BY <1>3, <3>3, <5>1
      <4>2. ~(x[2] < a)
        BY <1>3, <2>b, <3>3
      <4> QED BY <2>1, <3>3, <3>a, <4>1, <4>2
    <3> QED BY <3>1, <3>2, <3>3
  <2> QED BY <2>3, <2>4
<1>19. ListaLibre'
  <2>1. \A j \in DOMAIN m : m[j] \notin bitmap'
    <3> SUFFICES ASSUME NEW j \in 1..(a + n) PROVE m[j] \notin bitmap'
      BY <1>14
    <3>1. CASE j > a
      BY <1>1, <1>15, <3>1
    <3>2. CASE ~(j > a)
      <4>1. j \in DOMAIN l /\ m[j] = l[j]
        BY <1>3, <1>4, <1>14, <3>2
      <4>2. l[j] \notin bitmap
        BY <1>0, <1>l, <4>1 DEF ListaLibre
      <4> QED BY <1>1, <4>1, <4>2
    <3> QED BY <3>1, <3>2
  <2>2. ASSUME NEW x \in DePid(p), x[2] >= a + n PROVE tabla'[x] # SinMarco
    <3>1. x \in Paginas /\ x[2] \in Nat /\ x = <<p, x[2]>>
      BY <1>1, PaginasDePid DEF DePid
    <3>2. x \notin X
      <4> SUFFICES ASSUME NEW i \in a..(a + n - 1), x = <<p, i>> PROVE FALSE
        BY <1>7
      <4>1. x[2] = i
        OBVIOUS
      <4> QED BY <1>3, <2>2, <4>1
    <3>3. x[2] >= a
      BY <1>3, <2>2, <3>1
    <3> QED BY <1>4, <1>16, <3>1, <3>2, <3>3
  <2>3. Len(m) = IF k'.i * E <= c THEN k'.i * E ELSE c
    BY <1>2, <1>5, <1>14
  <2> QED BY <1>2, <1>14, <1>17, <1>b, <1>c, <1>m, <2>1, <2>2, <2>3 DEF ListaLibre
<1>20. Lugares'
  <2>1. \A i : FinDe(i)' = FinDe(i)
    BY <1>1 DEF FinDe
  <2> HIDE DEF Copia
  <2> QED BY <1>0, <1>1, <1>2, <1>17, <1>p, <2>1 DEF Lugares
<1>21. UsaElSuyo'
  <2>1. \A x \in Paginas : fase[x[1]] = "exec" => tabla'[x] = tabla[x]
    BY <1>1, <1>11, <1>16
  <2> QED BY <1>1, <2>1, UsaKernel
<1>22. DOMAIN espacio' = Marcos /\ espacio' = [g \in Marcos |-> espacio'[g]]
  BY <1>0, <1>1
<1> QED BY <1>18, <1>19, <1>20, <1>21, <1>22 DEF Datos

\* With every leaf gone through, the list has all the pages.
LEMMA DatosFinRecoleccion ==
  ASSUME Todo, FinRecoleccion PROVE Datos'
<1> USE DEF mem, swap
<1>0. /\ Contenido /\ ListaLibre /\ Lugares /\ DOMAIN espacio = Marcos
      /\ espacio = [g \in Marcos |-> espacio[g]]
      /\ k \in TipoK /\ k.i \in Nat /\ (k.en # "recibe" => k.p \in Pids)
  BY Hechos DEF Todo, Datos
<1>1. /\ k.en = "recolecta" /\ k.i \notin Hojas(k.p) /\ k.p \in Pids
      /\ k' = [k EXCEPT !.en = "copia", !.i = 0]
      /\ UNCHANGED <<fase, tabla, bitmap, espacio, archivo, entradas, lista_marcos, cpu, escrito>>
  BY <1>0 DEF FinRecoleccion
<1>2. k'.en = "copia" /\ k'.p = k.p /\ k'.i = 0
  BY <1>0, <1>1 DEF TipoK
<1>3. Copia /\ Copia'
  BY <1>1, <1>2 DEF Copia
<1>4. Len(lista_marcos) = cantidad_paginas(k.p) /\ Len(lista_marcos) \in Nat
  <2>1. /\ k.i \in Hojas(k.p) <=> k.i * ENTRADAS_POR_TABLA < cantidad_paginas(k.p)
        /\ k.i * ENTRADAS_POR_TABLA \in Nat
    BY <1>0, <1>1, HojaSon
  <2>2. cantidad_paginas(k.p) \in Nat
    BY <1>1, Hechos
  <2>3. Len(lista_marcos) = IF k.i * ENTRADAS_POR_TABLA <= cantidad_paginas(k.p)
                              THEN k.i * ENTRADAS_POR_TABLA ELSE cantidad_paginas(k.p)
    BY <1>0, <1>1 DEF ListaLibre
  <2> HIDE DEF cantidad_paginas
  <2> QED BY <1>1, <2>1, <2>2, <2>3
<1>5. Contenido'
  <2> SUFFICES ASSUME NEW x \in Paginas PROVE Pagina1(x)'
    BY DEF Contenido
  <2>a. Pagina1(x)
    BY <1>0 DEF Contenido
  <2>b. x[2] \in Nat /\ x[2] < cantidad_paginas(x[1])
    BY Hechos
  <2>c. /\ escrito'[x] = escrito[x] /\ EnArchivo(x)' = EnArchivo(x)
        /\ EnSuMarco(x)' = EnSuMarco(x) /\ EnLista(x)' = EnLista(x)
    BY <1>1 DEF Ultimo, EnArchivo, EnSuMarco, EnLista, buscar_entrada_swap_por_pid
  <2>1. k.p = x[1] => x[2] < Len(lista_marcos)
    BY <1>4, <2>b
  <2>2. ~(x[2] < 0)
    BY <2>b
  <2> HIDE DEF Copia
  <2> QED BY <1>1, <1>2, <1>3, <2>a, <2>c, <2>1, <2>2 DEF Pagina1
<1>6. ListaLibre'
  BY <1>0, <1>1, <1>2, <1>3, <1>4 DEF ListaLibre
<1>7. Lugares'
  <2>1. \A i : FinDe(i)' = FinDe(i)
    BY <1>1 DEF FinDe
  <2>2. Len(archivo) = entradas[Len(entradas)].ini /\ entradas[Len(entradas)].ini + 0 = Len(archivo)
    <3>1. ConEntrada
      BY DEF Todo
    <3>2. Len(archivo) \in Nat
      BY <3>1, Secuencias
    <3> QED BY <1>0, <1>1, <3>2 DEF Lugares
  <2> HIDE DEF Copia
  <2> QED BY <1>0, <1>1, <1>2, <1>3, <2>1, <2>2 DEF Lugares
<1>8. UsaElSuyo'
  BY <1>1, UsaKernel
<1>9. DOMAIN espacio' = Marcos /\ espacio' = [g \in Marcos |-> espacio'[g]]
  BY <1>0, <1>1
<1> QED BY <1>5, <1>6, <1>7, <1>8, <1>9 DEF Datos

\* The next page of the list goes to the end of the file, in its place; with the
\* last one there, every page of the process is in the file.
LEMMA DatosCopia ==
  ASSUME Todo, CopiarASwap PROVE Datos'
<1> USE DEF mem, swap
<1>p. PICK p : p = k.p
  OBVIOUS
<1>i. PICK i : i = k.i
  OBVIOUS
<1>l. PICK l : l = lista_marcos
  OBVIOUS
<1>n. PICK n : n = Len(entradas)
  OBVIOUS
<1>z. PICK z : z = entradas[n].ini
  OBVIOUS
<1>L. PICK L : L = Len(archivo)
  OBVIOUS
<1>A. PICK A : A = archivo'
  OBVIOUS
<1>0. /\ Contenido /\ ListaLibre /\ Lugares /\ ConEntrada /\ DOMAIN espacio = Marcos
      /\ espacio = [g \in Marcos |-> espacio[g]] /\ Asignadas
      /\ k \in TipoK /\ k.i \in Nat /\ (k.en # "recibe" => k.p \in Pids)
      /\ \A q \in Pids : cantidad_paginas(q) \in Nat
  BY Hechos DEF Todo, Datos
<1>s. /\ DOMAIN entradas = 1..n /\ n \in Nat /\ L \in Nat /\ DOMAIN archivo = 1..L
      /\ \A e \in 1..n : FinDe(e) \in Nat /\ entradas[e].pid \in Pids /\ entradas[e].ini \in Nat
  BY <1>0, <1>n, <1>L, Secuencias
<1>1. /\ k.en = "copia" /\ p \in Pids /\ i \in Nat /\ k.p = p /\ fase[p] = "susp"
      /\ UNCHANGED <<fase, tabla, bitmap, espacio, entradas, cpu, escrito>>
  BY <1>0, <1>p, <1>i DEF CopiarASwap, Asignadas
<1>2. Copia
  BY <1>1 DEF Copia
<1>3. /\ Len(l) = cantidad_paginas(p) /\ Len(l) \in Nat /\ i <= Len(l)
      /\ l \in Seq(Marcos) /\ \A j \in DOMAIN l : l[j] \notin bitmap
  BY <1>0, <1>1, <1>l, <1>i, <1>p DEF ListaLibre
<1>4. n \in 1..n /\ L = z + i /\ z \in Nat /\ entradas[n].pid = p
  <2>1. entradas # <<>>
    BY <1>0, <1>1 DEF ConEntrada
  <2>2. n # 0
    <3>1. entradas \in Seq([pid : Pids, ini : Nat])
      BY <1>0, Secuencias
    <3> QED BY <1>n, <2>1, <3>1, EmptySeq
  <2>3. n \in 1..n
    BY <1>s, <2>2
  <2> QED BY <1>0, <1>1, <1>2, <1>n, <1>z, <1>L, <1>i, <1>p, <1>s, <2>3 DEF Lugares
<1>5. \A x \in Paginas : x[1] = p => x[2] < Len(l) /\ x[2] \in Nat
  BY <1>3, Hechos
<1>6. UsaElSuyo'
  BY <1>1, UsaKernel
<1>7. \A f : FinDe(f)' = FinDe(f)
  BY <1>1 DEF FinDe
<1>8. DOMAIN espacio' = Marcos /\ espacio' = [g \in Marcos |-> espacio'[g]]
  BY <1>0, <1>1
<1>9. \A x \in Paginas : /\ Ultimo(x)' = Ultimo(x) /\ EnSuMarco(x)' = EnSuMarco(x)
                         /\ escrito'[x] = escrito[x]
  BY <1>1 DEF Ultimo, EnSuMarco
<1>10. ASSUME NEW x \in Paginas, x[1] = p
       PROVE  EnArchivo(x) <=> archivo[z + x[2] + 1] = Ultimo(x)
  <2>1. buscar_entrada_swap_por_pid(p) = n
    <3>1. Tamanio[p] > 0
      BY <1>10, Hechos
    <3> QED BY <1>1, <1>4, <1>s, <3>1, SuEntrada
  <2> QED BY <1>10, <1>z, <2>1 DEF EnArchivo
<1>11. \A x \in Paginas : /\ x[2] \in Nat /\ x[1] \in Pids /\ Pagina1(x)
  BY <1>0, Hechos DEF Contenido
<1>12. CASE i < Len(l) /\ A = Escribir(archivo, Last(entradas).ini + i, espacio[l[i + 1]])
            /\ k' = [k EXCEPT !.i = i + 1] /\ UNCHANGED lista_marcos
  <2>1. k'.en = "copia" /\ k'.p = p /\ k'.i = i + 1
    <3>1. k \in TipoK /\ k.en = "copia" /\ k.p = p /\ k' = [k EXCEPT !.i = i + 1]
      BY <1>0, <1>1, <1>12
    <3> QED BY ONLY <3>1 DEF TipoK
  <2>2. Copia'
    BY <2>1 DEF Copia
  <2>3. A = Escribir(archivo, L, espacio[l[i + 1]])
    BY <1>12, <1>4, <1>n, <1>z DEF Last
  <2>4. A = [j \in 1..(L + 1) |-> IF j = L + 1 THEN espacio[l[i + 1]]
                                   ELSE IF j <= L THEN archivo[j] ELSE Cero]
    <3>1. ~(L < L)
      BY <1>s
    <3> QED BY <1>L, <2>3, <3>1 DEF Escribir
  <2>5. /\ Len(A) = L + 1 /\ A[L + 1] = espacio[l[i + 1]]
        /\ \A j \in 1..L : A[j] = archivo[j]
    BY <1>s, <2>4
  <2>6. ListaLibre'
    <3>1. i + 1 <= Len(l)
      BY <1>1, <1>3, <1>12
    <3>2. lista_marcos' = l /\ bitmap' = bitmap
      BY <1>1, <1>12, <1>l
    <3> QED BY <1>3, <2>1, <2>2, <3>1, <3>2 DEF ListaLibre
  <2>7. Lugares'
    <3>1. Len(A) = z + (i + 1)
      BY <1>1, <1>4, <1>s, <2>5
    <3>2. \A e \in 1..n : e # n => FinDe(e) <= L + 1
      <4>1. \A e \in 1..n : e # n => FinDe(e) <= L
        BY <1>0, <1>L, <1>n, <1>s DEF Lugares
      <4> QED BY <1>s, <4>1
    <3> HIDE DEF FinDe, Copia
    <3>3. entradas' = entradas /\ fase' = fase /\ archivo' = A
      BY <1>1, <1>A
    <3>4. /\ \A e, f \in DOMAIN entradas : e < f => FinDe(e) <= entradas[f].ini
          /\ \A e \in DOMAIN entradas : Tamanio[entradas[e].pid] > 0 =>
               /\ fase[entradas[e].pid] = "susp"
               /\ \A f \in DOMAIN entradas : entradas[f].pid = entradas[e].pid => f = e
      BY <1>0 DEF Lugares
    <3>5. /\ entradas'[Len(entradas')].pid = k'.p
          /\ Len(archivo') = entradas'[Len(entradas')].ini + k'.i
      BY <1>4, <1>n, <1>z, <2>1, <3>1, <3>3
    <3>6. \A e \in DOMAIN entradas' : e # Len(entradas') => FinDe(e)' <= Len(archivo')
      BY <1>7, <1>n, <1>s, <2>5, <3>2, <3>3
    <3>7. \A e, f \in DOMAIN entradas' : e < f => FinDe(e)' <= entradas'[f].ini
      BY <1>7, <3>3, <3>4
    <3>8. \A e \in DOMAIN entradas' : Tamanio[entradas'[e].pid] > 0 =>
            /\ fase'[entradas'[e].pid] = "susp"
            /\ \A f \in DOMAIN entradas' : entradas'[f].pid = entradas'[e].pid => f = e
      BY <3>3, <3>4
    <3>9. /\ Copia' => entradas'[Len(entradas')].pid = k'.p
          /\ k'.en = "recolecta" => Len(archivo') = entradas'[Len(entradas')].ini
          /\ k'.en = "copia" => Len(archivo') = entradas'[Len(entradas')].ini + k'.i
          /\ \A e \in DOMAIN entradas' :
                ~(Copia' /\ e = Len(entradas')) => FinDe(e)' <= Len(archivo')
      <4>1. k'.en # "recolecta"
        BY <2>1
      <4>2. \A e \in DOMAIN entradas' :
              ~(Copia' /\ e = Len(entradas')) => FinDe(e)' <= Len(archivo')
        BY ONLY <2>2, <3>6
      <4> QED BY <3>5, <4>1, <4>2
    <3> QED BY ONLY <3>7, <3>8, <3>9 DEF Lugares
  <2>8. Contenido'
    <3> SUFFICES ASSUME NEW x \in Paginas, escrito[x] > 0 PROVE Pagina1(x)'
      BY <1>9 DEF Contenido, Pagina1
    <3>1. CASE x[1] # p
      <4>1. fase[x[1]] = "susp" => (EnArchivo(x)' <=> EnArchivo(x))
        <5> SUFFICES ASSUME fase[x[1]] = "susp" PROVE EnArchivo(x)' <=> EnArchivo(x)
          OBVIOUS
        <5>j. PICK j : j = entradas[buscar_entrada_swap_por_pid(x[1])].ini + x[2] + 1
          OBVIOUS
        <5>1. j \in Nat /\ j >= 1 /\ j <= L
          BY <1>1, <1>L, <3>1, <5>j, SuLugar
        <5>2. A[j] = archivo[j]
          BY <1>s, <2>5, <5>1
        <5>3. EnArchivo(x) <=> archivo[j] = Ultimo(x)
          BY <5>j DEF EnArchivo
        <5>4. EnArchivo(x)' <=> A[j] = Ultimo(x)
          BY <1>1, <1>9, <1>A, <5>j DEF EnArchivo, buscar_entrada_swap_por_pid
        <5> QED BY <5>2, <5>3, <5>4
      <4>2. k.p # x[1] /\ k'.p # x[1]
        BY <1>1, <2>1, <3>1
      <4> HIDE DEF Copia
      <4> QED BY <1>1, <1>9, <1>11, <4>1, <4>2 DEF Pagina1
    <3>2. CASE x[1] = p
      <4>1. EnArchivo(x)' <=> A[z + x[2] + 1] = Ultimo(x)
        <5>1. buscar_entrada_swap_por_pid(p) = n
          <6>1. Tamanio[p] > 0
            BY <3>2, Hechos
          <6> QED BY <1>1, <1>4, <1>s, <6>1, SuEntrada
        <5>2. buscar_entrada_swap_por_pid(p)' = n
          BY <1>1, <5>1 DEF buscar_entrada_swap_por_pid
        <5>3. EnArchivo(x)' <=> archivo'[entradas'[buscar_entrada_swap_por_pid(p)'].ini + x[2] + 1] = Ultimo(x)'
          BY <3>2 DEF EnArchivo
        <5> QED BY <1>1, <1>9, <1>A, <1>z, <5>2, <5>3
      <4>2. EnLista(x)' <=> EnLista(x)
        BY <1>1, <1>9, <1>12 DEF EnLista
      <4>3. IF x[2] < i THEN EnArchivo(x) ELSE EnLista(x)
        BY <1>1, <1>i, <1>11, <3>2 DEF Pagina1
      <4>4. IF x[2] < i + 1 THEN EnArchivo(x)' ELSE EnLista(x)'
        <5>1. CASE x[2] < i
          <6>1. z + x[2] + 1 \in 1..L /\ x[2] < i + 1
            BY <1>1, <1>4, <1>11, <5>1
          <6>2. A[z + x[2] + 1] = archivo[z + x[2] + 1]
            BY <2>5, <6>1
          <6> QED BY <1>10, <3>2, <4>1, <4>3, <5>1, <6>1, <6>2
        <5>2. CASE x[2] = i
          <6>1. espacio[l[i + 1]] = Ultimo(x)
            <7>1. ~(x[2] < i)
              BY <1>1, <5>2
            <7> QED BY <1>l, <4>3, <5>2, <7>1 DEF EnLista
          <6>2. z + x[2] + 1 = L + 1 /\ x[2] < i + 1
            BY <1>1, <1>4, <5>2
          <6> QED BY <2>5, <4>1, <6>1, <6>2
        <5>3. CASE x[2] > i
          <6>1. ~(x[2] < i) /\ ~(x[2] < i + 1)
            BY <1>1, <1>11, <5>3
          <6> QED BY <4>2, <4>3, <6>1
        <5> QED BY <1>1, <1>11, <5>1, <5>2, <5>3
      <4> QED BY <1>1, <2>1, <2>2, <3>2, <4>4 DEF Pagina1
    <3> QED BY <3>1, <3>2
  <2> QED BY <1>6, <1>8, <2>6, <2>7, <2>8 DEF Datos
<1>13. CASE i = Len(l) /\ k' = EnReposo /\ lista_marcos' = <<>> /\ UNCHANGED archivo
  <2>1. k'.en = "recibe" /\ ~Copia'
    BY <1>13 DEF EnReposo, Copia
  <2>2. ListaLibre'
    <3>1. <<>> \in Seq(Marcos) /\ DOMAIN <<>> = {}
      OBVIOUS
    <3> QED BY <1>13, <2>1, <3>1 DEF ListaLibre
  <2>3. Lugares'
    <3>1. \A e \in DOMAIN entradas : FinDe(e) <= L
      <4>1. \A e \in 1..n : e # n => FinDe(e) <= L
        BY <1>0, <1>L, <1>n, <1>s DEF Lugares
      <4>2. FinDe(n) = z + Len(l)
        BY <1>3, <1>4, <1>z DEF FinDe
      <4>3. FinDe(n) <= L
        BY <1>4, <1>13, <1>s, <4>2
      <4> QED BY <1>s, <4>1, <4>3
    <3>2. entradas' = entradas /\ fase' = fase /\ Len(archivo') = L
      BY <1>1, <1>13, <1>L
    <3>3. /\ \A e, f \in DOMAIN entradas : e < f => FinDe(e) <= entradas[f].ini
          /\ \A e \in DOMAIN entradas : Tamanio[entradas[e].pid] > 0 =>
               /\ fase[entradas[e].pid] = "susp"
               /\ \A f \in DOMAIN entradas : entradas[f].pid = entradas[e].pid => f = e
      BY <1>0 DEF Lugares
    <3> HIDE DEF FinDe, Copia
    <3> QED BY <1>7, <2>1, <3>1, <3>2, <3>3 DEF Lugares
  <2>4. Contenido'
    <3> SUFFICES ASSUME NEW x \in Paginas PROVE Pagina1(x)'
      BY DEF Contenido
    <3>1. EnArchivo(x)' <=> EnArchivo(x)
      BY <1>1, <1>9, <1>13 DEF EnArchivo, buscar_entrada_swap_por_pid
    <3>2. x[1] = p => x[2] < i
      BY <1>5, <1>13
    <3> HIDE DEF Copia
    <3> QED BY <1>1, <1>2, <1>9, <1>11, <1>i, <2>1, <3>1, <3>2 DEF Pagina1
  <2> QED BY <1>6, <1>8, <2>2, <2>3, <2>4 DEF Datos
<1>14. \/ i < Len(l) /\ A = Escribir(archivo, Last(entradas).ini + i, espacio[l[i + 1]])
          /\ k' = [k EXCEPT !.i = i + 1] /\ UNCHANGED lista_marcos
       \/ i = Len(l) /\ k' = EnReposo /\ lista_marcos' = <<>> /\ UNCHANGED archivo
  BY <1>A, <1>i, <1>l DEF CopiarASwap
<1> QED BY <1>12, <1>13, <1>14

\* The process whose entry goes comes into memory with its pages in their frames,
\* or ends. The place that is blanked is its own and the entries that move down
\* keep their places, so the others are where they were.
LEMMA DatosSaca ==
  ASSUME Todo, NEW p \in Pids, Tamanio[p] > 0, fase[p] = "susp",
         ~Copia, ~Copia', k'.en # "lee",
         archivo' = borrar_espacio_swap(buscar_entrada_swap_por_pid(p)),
         entradas' = RemoveAt(entradas, buscar_entrada_swap_por_pid(p)),
         UNCHANGED <<tabla, bitmap, espacio, lista_marcos, cpu, escrito>>,
         NEW s \in {"listo", "fin"}, Pasa(p, s),
         s = "listo" => \A x \in DePid(p) : escrito[x] > 0 => EnSuMarco(x)
  PROVE  Datos'
<1>e. PICK e : e = buscar_entrada_swap_por_pid(p)
  OBVIOUS
<1>n. PICK n : n = Len(entradas)
  OBVIOUS
<1>L. PICK L : L = Len(archivo)
  OBVIOUS
<1>A. PICK A : A = archivo'
  OBVIOUS
<1>R. PICK R : R = entradas'
  OBVIOUS
<1>u. PICK u : u = FinDe(e)
  OBVIOUS
<1>0. /\ Contenido /\ ListaLibre /\ Lugares /\ ConEntrada /\ DOMAIN espacio = Marcos
      /\ espacio = [g \in Marcos |-> espacio[g]] /\ fase \in [Pids -> Fases]
  BY Hechos DEF Todo, Datos
<1>s. /\ entradas \in Seq([pid : Pids, ini : Nat])
      /\ DOMAIN entradas = 1..n /\ n \in Nat /\ L \in Nat /\ DOMAIN archivo = 1..L
      /\ \A g \in 1..n : FinDe(g) \in Nat /\ entradas[g].pid \in Pids /\ entradas[g].ini \in Nat
  BY <1>0, <1>n, <1>L, Secuencias
<1>1. /\ e \in 1..n /\ entradas[e].pid = p /\ entradas[e].ini \in Nat
      /\ \A f \in 1..n : entradas[f].pid = p => f = e
  BY <1>e, <1>s, SuEntrada
<1>2. u \in Nat /\ u <= L
  BY <1>0, <1>1, <1>L, <1>s, <1>u DEF Lugares
<1>3. A = [j \in 1..L |-> IF j > entradas[e].ini /\ j <= u THEN Blancos ELSE archivo[j]]
  <2>1. u = entradas[e].ini + cantidad_paginas(entradas[e].pid)
    BY <1>u DEF FinDe
  <2>2. A = borrar_espacio_swap(e)
    BY <1>A, <1>e
  <2>3. A = [j \in 1..(IF u < L THEN L ELSE u) |->
               IF j > entradas[e].ini /\ j <= u THEN Blancos
               ELSE IF j <= L THEN archivo[j] ELSE Cero]
    BY <1>L, <2>1, <2>2 DEF borrar_espacio_swap
  <2>4. (IF u < L THEN L ELSE u) = L /\ \A j \in 1..L : j <= L
    BY <1>2, <1>s
  <2> QED BY <2>3, <2>4
<1>4. /\ Len(A) = L
      /\ \A j \in 1..L : j <= entradas[e].ini \/ u < j => A[j] = archivo[j]
  BY <1>1, <1>2, <1>3, <1>s
<1>5. /\ DOMAIN R = 1..(n - 1) /\ Len(R) = n - 1
      /\ \A j \in 1..(n - 1) : R[j] = IF j < e THEN entradas[j] ELSE entradas[j + 1]
  <2>1. R = RemoveAt(entradas, e)
    BY <1>R, <1>e
  <2>2. /\ R \in Seq([pid : Pids, ini : Nat]) /\ Len(R) = n - 1
        /\ \A j \in 1..(n - 1) : R[j] = IF j < e THEN entradas[j] ELSE entradas[j + 1]
    <3>1. e \in 1..Len(entradas)
      BY <1>1, <1>n
    <3>2. /\ RemoveAt(entradas, e) \in Seq([pid : Pids, ini : Nat])
          /\ Len(RemoveAt(entradas, e)) = Len(entradas) - 1
          /\ \A j \in 1..(Len(entradas) - 1) :
               RemoveAt(entradas, e)[j] = IF j < e THEN entradas[j] ELSE entradas[j + 1]
      BY <1>s, <3>1, RemoveAtPropiedades, Zenon
    <3> QED BY <1>n, <2>1, <3>2
  <2>3. DOMAIN R = 1..(n - 1)
    BY <2>2, LenProperties
  <2> QED BY <2>2, <2>3
<1>6. fase'[p] = s /\ \A q \in Pids : q # p => fase'[q] = fase[q]
  BY <1>0 DEF Pasa
<1>7. k'.en \notin {"recolecta", "copia", "lee"} /\ k.en \notin {"recolecta", "copia"}
  BY DEF Copia
<1>8. ASSUME NEW x \in Paginas, x[1] # p, fase[x[1]] = "susp"
      PROVE  EnArchivo(x)' <=> EnArchivo(x)
  <2>g. PICK g : g = buscar_entrada_swap_por_pid(x[1])
    OBVIOUS
  <2>j. PICK j : j = entradas[g].ini + x[2] + 1
    OBVIOUS
  <2>b. x[1] \in Pids /\ Tamanio[x[1]] > 0
    BY Hechos
  <2>1. /\ g \in 1..n /\ entradas[g].pid = x[1]
        /\ \A f \in 1..n : entradas[f].pid = x[1] => f = g
    BY <1>8, <1>s, <2>b, <2>g, SuEntrada
  <2>2. /\ j \in Nat /\ j >= 1 /\ j <= L
        /\ \A f \in DOMAIN entradas \ {g} : j <= entradas[f].ini \/ FinDe(f) < j
    BY <1>8, <1>7, <1>L, <2>g, <2>j, SuLugar DEF Copia
  <2>3. e # g /\ (j <= entradas[e].ini \/ u < j)
    BY <1>1, <1>8, <1>s, <1>u, <2>1, <2>2
  <2>4. A[j] = archivo[j]
    BY <1>4, <1>s, <2>2, <2>3
  <2>5. PICK h : h = IF g < e THEN g ELSE g - 1
    OBVIOUS
  <2>6. h \in 1..(n - 1) /\ R[h] = entradas[g]
    BY <1>1, <1>5, <1>s, <2>1, <2>3, <2>5
  <2>7. ASSUME NEW f \in 1..(n - 1), R[f].pid = x[1] PROVE f = h
    <3>i. PICK i : i = IF f < e THEN f ELSE f + 1
      OBVIOUS
    <3>1. i \in 1..n /\ R[f] = entradas[i]
      BY <1>1, <1>5, <1>s, <3>i
    <3>2. i = g
      BY <2>1, <2>7, <3>1
    <3> QED BY <1>1, <1>s, <2>1, <2>3, <2>5, <3>i, <3>1, <3>2
  <2>8. Buscar(R, x[1]) = h
    <3>1. DOMAIN R \subseteq Nat
      BY <1>5, <1>s
    <3> QED BY <1>5, <2>1, <2>6, <2>7, <3>1, BuscarUnico
  <2>9. buscar_entrada_swap_por_pid(x[1])' = h
    BY <1>R, <2>8 DEF buscar_entrada_swap_por_pid, Buscar
  <2>10. Ultimo(x)' = Ultimo(x)
    BY DEF Ultimo
  <2> HIDE DEF buscar_entrada_swap_por_pid
  <2>11. EnArchivo(x) <=> archivo[j] = Ultimo(x)
    BY <2>g, <2>j DEF EnArchivo
  <2>12. EnArchivo(x)' <=> A[j] = Ultimo(x)
    <3>1. EnArchivo(x)' <=> archivo'[entradas'[h].ini + x[2] + 1] = Ultimo(x)'
      BY <2>9 DEF EnArchivo
    <3>2. entradas'[h].ini + x[2] + 1 = j
      BY <1>R, <2>6, <2>j
    <3> QED BY <1>A, <2>10, <3>1, <3>2
  <2> QED BY <2>4, <2>11, <2>12
<1>9. Contenido'
  <2> SUFFICES ASSUME NEW x \in Paginas, escrito[x] > 0 PROVE Pagina1(x)'
    BY DEF Contenido, Pagina1
  <2>1. Pagina1(x) /\ x[1] \in Pids /\ x \in DePid(x[1])
    BY <1>0, Hechos DEF Contenido
  <2>2. EnSuMarco(x)' <=> EnSuMarco(x)
    BY DEF EnSuMarco, Ultimo
  <2>3. CASE x[1] = p
    BY <1>6, <1>7, <2>1, <2>2, <2>3 DEF Pagina1
  <2>4. CASE x[1] # p
    <3>1. fase'[x[1]] = fase[x[1]]
      BY <1>6, <2>1, <2>4
    <3>2. fase[x[1]] = "susp" => (EnArchivo(x)' <=> EnArchivo(x))
      BY <1>8, <2>4
    <3> HIDE DEF Copia
    <3> QED BY <1>7, <2>1, <2>2, <3>1, <3>2 DEF Pagina1
  <2> QED BY <2>3, <2>4
<1>10. ListaLibre'
  <2>1. lista_marcos = <<>>
    BY <1>0 DEF ListaLibre
  <2>2. <<>> \in Seq(Marcos) /\ DOMAIN <<>> = {}
    OBVIOUS
  <2> QED BY <1>7, <2>1, <2>2 DEF ListaLibre
<1>11. Lugares'
  <2>1. \A f \in 1..(n - 1) : \E g \in 1..n : /\ g = IF f < e THEN f ELSE f + 1
                                              /\ g # e /\ R[f] = entradas[g]
    <3> TAKE f \in 1..(n - 1)
    <3>i. PICK g : g = IF f < e THEN f ELSE f + 1
      OBVIOUS
    <3>1. g \in 1..n /\ g # e /\ R[f] = entradas[g]
      BY <1>1, <1>5, <1>s, <3>i
    <3> QED BY <3>i, <3>1
  <2>2. ASSUME NEW f \in 1..(n - 1), NEW g \in 1..n, R[f] = entradas[g] PROVE FinDe(f)' = FinDe(g)
    BY <1>R, <2>2 DEF FinDe
  <2>3. \A f \in DOMAIN entradas' : FinDe(f)' <= Len(archivo')
    <3> SUFFICES ASSUME NEW f \in 1..(n - 1) PROVE FinDe(f)' <= L
      BY <1>4, <1>5, <1>A, <1>R
    <3>1. PICK g \in 1..n : R[f] = entradas[g]
      BY <2>1
    <3>2. FinDe(g) <= L
      BY <1>0, <1>L, <1>s DEF Lugares
    <3> QED BY <2>2, <3>1, <3>2
  <2>4. ASSUME NEW f \in 1..(n - 1), NEW g \in 1..(n - 1), f < g PROVE FinDe(f)' <= R[g].ini
    <3>1. PICK i \in 1..n : R[f] = entradas[i] /\ (i = IF f < e THEN f ELSE f + 1)
      BY <2>1
    <3>2. PICK j \in 1..n : R[g] = entradas[j] /\ (j = IF g < e THEN g ELSE g + 1)
      BY <2>1
    <3>3. i < j
      BY <1>1, <1>s, <2>4, <3>1, <3>2
    <3>4. FinDe(i) <= entradas[j].ini
      BY <1>0, <1>s, <3>3 DEF Lugares
    <3> QED BY <2>2, <3>1, <3>2, <3>4
  <2>5. ASSUME NEW f \in 1..(n - 1), Tamanio[R[f].pid] > 0
        PROVE  fase'[R[f].pid] = "susp" /\ \A g \in 1..(n - 1) : R[g].pid = R[f].pid => g = f
    <3>1. PICK i \in 1..n : R[f] = entradas[i] /\ (i = IF f < e THEN f ELSE f + 1) /\ i # e
      BY <2>1
    <3>2. fase[entradas[i].pid] = "susp"
          /\ \A j \in 1..n : entradas[j].pid = entradas[i].pid => j = i
      BY <1>0, <1>s, <2>5, <3>1 DEF Lugares
    <3>3. fase'[R[f].pid] = "susp"
      <4>1. entradas[i].pid # p /\ entradas[i].pid \in Pids
        BY <1>1, <1>s, <3>1
      <4> QED BY <1>6, <3>1, <3>2, <4>1
    <3>4. ASSUME NEW g \in 1..(n - 1), R[g].pid = R[f].pid PROVE g = f
      <4>1. PICK j \in 1..n : R[g] = entradas[j] /\ (j = IF g < e THEN g ELSE g + 1)
        BY <2>1
      <4>2. j = i
        BY <3>1, <3>2, <3>4, <4>1
      <4> QED BY <1>1, <1>s, <3>1, <4>1, <4>2
    <3> QED BY <3>3, <3>4
  <2>6. /\ \A f, g \in DOMAIN entradas' : f < g => FinDe(f)' <= entradas'[g].ini
        /\ \A f \in DOMAIN entradas' : Tamanio[entradas'[f].pid] > 0 =>
             /\ fase'[entradas'[f].pid] = "susp"
             /\ \A g \in DOMAIN entradas' : entradas'[g].pid = entradas'[f].pid => g = f
    BY <1>5, <1>R, <2>4, <2>5
  <2>7. /\ Copia' => entradas'[Len(entradas')].pid = k'.p
        /\ k'.en = "recolecta" => Len(archivo') = entradas'[Len(entradas')].ini
        /\ k'.en = "copia" => Len(archivo') = entradas'[Len(entradas')].ini + k'.i
        /\ \A f \in DOMAIN entradas' :
             ~(Copia' /\ f = Len(entradas')) => FinDe(f)' <= Len(archivo')
    BY <1>7, <2>3
  <2> QED BY ONLY <2>6, <2>7 DEF Lugares
<1>12. UsaElSuyo'
  BY UsaKernel
<1>13. DOMAIN espacio' = Marcos /\ espacio' = [g \in Marcos |-> espacio'[g]]
  BY <1>0
<1> QED BY <1>9, <1>10, <1>11, <1>12, <1>13 DEF Datos

\* DESUSPENDER has read every page; FINALIZAR of a process that is in swap.
LEMMA DatosSalida ==
  ASSUME Todo, FinDesuspension \/ \E p \in Pids : FINALIZAR(p) PROVE Datos'
<1> USE DEF mem, swap
<1>r. EnReposo.en = "recibe"
  BY DEF EnReposo
<1>1. CASE FinDesuspension
  <2>p. PICK p : p = k.p
    OBVIOUS
  <2>1. /\ k.en = "lee" /\ <<p, k.i>> \notin Paginas /\ p \in Pids /\ k.i \in Nat
        /\ fase[p] = "susp" /\ Tamanio[p] > 0
        /\ archivo' = borrar_espacio_swap(buscar_entrada_swap_por_pid(p))
        /\ entradas' = RemoveAt(entradas, buscar_entrada_swap_por_pid(p))
        /\ Pasa(p, "listo") /\ k' = EnReposo
        /\ UNCHANGED <<tabla, bitmap, espacio, lista_marcos, cpu, escrito>>
    BY <1>1, <2>p, Hechos DEF FinDesuspension, Todo, InvVivos, Pedido, ConEntrada
  <2>2. ~Copia /\ ~Copia' /\ k'.en # "lee"
    BY <1>r, <2>1 DEF Copia
  <2>3. ASSUME NEW x \in DePid(p), escrito[x] > 0 PROVE EnSuMarco(x)
    <3>1. x \in Paginas /\ x[1] = p
      BY DEF DePid
    <3>2. x[2] \in Nat /\ x[2] < cantidad_paginas(p)
      BY <2>1, PaginasDePid
    <3>3. ~(k.i < cantidad_paginas(p)) /\ cantidad_paginas(p) \in Nat
      BY <2>1, PaginasDePid, Tamanios
    <3>4. x[2] < k.i
      <4> HIDE DEF cantidad_paginas
      <4> QED BY <2>1, <3>2, <3>3
    <3>5. Pagina1(x)
      BY <3>1 DEF Todo, Datos, Contenido
    <3> QED BY <2>1, <2>p, <2>3, <3>1, <3>4, <3>5 DEF Pagina1
  <2> HIDE DEF Copia
  <2> QED BY <2>1, <2>2, <2>3, DatosSaca
<1>2. ASSUME NEW p \in Pids, FINALIZAR(p) PROVE Datos'
  <2>1. CASE Tamanio[p] = 0 \/ buscar_entrada_swap_por_pid(p) = 0
    BY <1>2, <2>1, DatosFinaliza
  <2>2. CASE ~(Tamanio[p] = 0 \/ buscar_entrada_swap_por_pid(p) = 0)
    <3>e. PICK e : e = buscar_entrada_swap_por_pid(p)
      OBVIOUS
    <3>1. Tamanio[p] > 0 /\ e # 0
      BY <2>2, <3>e, Tamanios
    <3>2. /\ k.en = "recibe" /\ k' = k /\ Pasa(p, "fin")
          /\ archivo' = borrar_espacio_swap(e) /\ entradas' = RemoveAt(entradas, e)
          /\ UNCHANGED <<tabla, bitmap, espacio, lista_marcos, cpu, escrito>>
      BY <1>2, <3>1, <3>e DEF FINALIZAR
    <3>3. fase[p] = "susp"
      <4>1. ConEntrada /\ Lugares
        BY DEF Todo, Datos
      <4>2. e \in 1..Len(entradas) /\ entradas[e].pid = p
        BY <3>1, <3>e, <4>1, EntradaDe
      <4>3. e \in DOMAIN entradas
        BY <4>1, <4>2, Secuencias
      <4> QED BY <3>1, <4>1, <4>2, <4>3 DEF Lugares
    <3>4. ~Copia /\ ~Copia' /\ k'.en # "lee"
      BY <3>2 DEF Copia
    <3> HIDE DEF Copia
    <3> QED BY <3>1, <3>2, <3>3, <3>4, <3>e, DatosSaca
  <2> QED BY <2>1, <2>2
<1> QED BY <1>1, <1>2

-----------------------------------------------------------------------------
(* The theorem.                                                             *)

\* Every step keeps what was written.
LEMMA DatosPaso ==
  ASSUME IInv, Sano => Datos, [Next]_vars
  PROVE  Sano' => Datos'
<1> SUFFICES ASSUME Sano, Datos PROVE Datos'
  BY SanoFijo
<1>0. Todo
  BY DEF Todo, IInv
<1>1. CASE UNCHANGED vars
  <2>1. UNCHANGED <<fase, tabla, bitmap, espacio, archivo, entradas, lista_marcos, k, cpu, escrito>>
    BY <1>1 DEF vars, mem, swap
  <2>2. \A p : buscar_entrada_swap_por_pid(p)' = buscar_entrada_swap_por_pid(p)
    BY <2>1 DEF buscar_entrada_swap_por_pid
  <2>3. ASSUME NEW x \in Paginas PROVE Pagina1(x)'
    <3>1. Pagina1(x)
      BY DEF Datos, Contenido
    <3>2. /\ EnSuMarco(x)' = EnSuMarco(x) /\ EnLista(x)' = EnLista(x)
          /\ EnArchivo(x)' = EnArchivo(x) /\ Copia' = Copia
      BY <2>1, <2>2 DEF EnSuMarco, EnLista, EnArchivo, Ultimo, Copia
    <3> HIDE DEF EnSuMarco, EnLista, EnArchivo, Copia
    <3> QED BY <2>1, <3>1, <3>2 DEF Pagina1
  <2>4. Contenido'
    BY <2>3 DEF Contenido
  <2>5. ListaLibre'
    BY <2>1 DEF Datos, ListaLibre, Copia
  <2>6. Lugares'
    <3>1. (\A e : FinDe(e)' = FinDe(e)) /\ Copia' = Copia /\ Lugares
      BY <2>1 DEF FinDe, Copia, Datos
    <3> HIDE DEF FinDe, Copia
    <3> QED BY <2>1, <3>1 DEF Lugares
  <2>7. UsaElSuyo'
    BY <2>1 DEF Datos, UsaElSuyo, Pagina
  <2> QED BY <2>1, <2>4, <2>5, <2>6, <2>7 DEF Datos
<1>2. CASE Kernel
  BY <1>0, <1>2, DatosPedidos, DatosAsigna, DatosSuspende, DatosRecolecta, DatosFinRecoleccion,
     DatosCopia, DatosLee, DatosSalida DEF Kernel
<1>3. CASE \/ \E c \in CPUs : Cpu(c) \/ \E p \in Pids : Despachar(c, p)
           \/ \E p \in Pids : FinIO(p)
  BY <1>0, <1>3, DatosCpu
<1> QED BY <1>1, <1>2, <1>3 DEF Next

\* At the start nothing has been written and nothing is in swap.
LEMMA DatosInicial == ASSUME Init PROVE Datos
<1>1. /\ entradas = <<>> /\ lista_marcos = <<>> /\ k.en = "recibe"
      /\ espacio = [f \in Marcos |-> Cero] /\ escrito = [x \in Paginas |-> 0]
      /\ \A c \in CPUs : cpu[c].en = "libre"
  BY ReposoTipo DEF Init
<1>2. ~Copia
  BY <1>1 DEF Copia
<1>3. Contenido
  BY <1>1 DEF Contenido, Pagina1
<1>4. ListaLibre
  <2>1. <<>> \in Seq(Marcos) /\ DOMAIN <<>> = {}
    OBVIOUS
  <2> QED BY <1>1, <1>2, <2>1 DEF ListaLibre
<1>5. Lugares
  <2>1. DOMAIN entradas = {}
    BY <1>1
  <2> QED BY <1>1, <1>2, <2>1 DEF Lugares
<1>6. UsaElSuyo
  BY <1>1 DEF UsaElSuyo
<1> QED BY <1>1, <1>3, <1>4, <1>5, <1>6 DEF Datos

\* Where each page is, in every reachable state.
THEOREM Paradero == Spec => []IDatos
<1>1. Init => (Sano => Datos)
  BY DatosInicial
<1>2. IInv /\ (Sano => Datos) /\ [Next]_vars => (Sano => Datos)'
  BY DatosPaso
<1>3. IDatos <=> IInv /\ (Sano => Datos)
  BY DEF IDatos
<1> QED BY <1>1, <1>2, <1>3, Invariante, PTL DEF Spec

\* What a program wrote to a page is what the page holds, in its frame or in its
\* place of the swap file: the frames that recolectar_marcos_suspender frees before
\* they are copied, the entries that move down in procesos_en_swap and the frames
\* that DESUSPENDER hands out again lose nothing and mix nothing.
THEOREM NadaSePierde == Spec => []DatosPreservados
<1>1. IDatos => DatosPreservados
  <2> SUFFICES ASSUME IDatos, Sano, k.en = "recibe", NEW x \in Paginas, escrito[x] > 0
               PROVE  /\ fase[x[1]] \in {"listo", "exec", "bloq"} =>
                           tabla[x] # SinMarco /\ espacio[tabla[x]] = Dato(x, escrito[x])
                      /\ fase[x[1]] = "susp" =>
                           LET e == buscar_entrada_swap_por_pid(x[1])
                           IN e # 0 /\ archivo[entradas[e].ini + x[2] + 1] = Dato(x, escrito[x])
    BY DEF DatosPreservados
  <2>0. Todo
    BY DEF IDatos, IInv, Todo
  <2>1. Pagina1(x) /\ Llenas
    BY <2>0, Hechos DEF Todo, Datos, Contenido
  <2>2. x[1] \in Pids /\ x \in DePid(x[1]) /\ Tamanio[x[1]] > 0
    BY <2>0, Hechos
  <2>3. ~Copia
    BY DEF Copia
  <2>4. fase[x[1]] \in {"listo", "exec", "bloq"} =>
          tabla[x] # SinMarco /\ espacio[tabla[x]] = Dato(x, escrito[x])
    BY <2>1, <2>2 DEF Pagina1, EnSuMarco, Ultimo, Llenas
  <2>5. ASSUME fase[x[1]] = "susp"
        PROVE  /\ buscar_entrada_swap_por_pid(x[1]) # 0
               /\ archivo[entradas[buscar_entrada_swap_por_pid(x[1])].ini + x[2] + 1] = Dato(x, escrito[x])
    <3>1. buscar_entrada_swap_por_pid(x[1]) # 0
      BY <2>0, <2>2, <2>5, SuEntrada
    <3>2. EnArchivo(x)
      BY <2>1, <2>3, <2>5 DEF Pagina1
    <3> QED BY <3>1, <3>2 DEF EnArchivo, Ultimo
  <2> QED BY <2>4, <2>5
<1> QED BY <1>1, Paradero, PTL

=============================================================================
