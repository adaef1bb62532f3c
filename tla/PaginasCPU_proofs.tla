-------------------------- MODULE PaginasCPU_proofs --------------------------
(***************************************************************************)
(* Proofs about PaginasCPU, for every number of processes, pages, frames   *)
(* and cells, every size of the TLB and of the cache, the four algorithms  *)
(* of replacement, and with or without interruptions.                      *)
(***************************************************************************)
EXTENDS PaginasCPU, Listas, FiniteSetTheorems

-----------------------------------------------------------------------------
(* The largest of a finite set, and the ranks of a total order.              *)

\* A value for each of finitely many things has a greatest one.
LEMMA MayorEsta ==
  ASSUME NEW S, IsFiniteSet(S), S # {}, NEW f, \A i \in S : f[i] \in Int
  PROVE  \E i \in S : \A j \in S : f[j] <= f[i]
<1> DEFINE Sobre(i) == {j \in S : f[j] > f[i]}
           R == {Cardinality(Sobre(i)) : i \in S}
<1>1. \A i \in S : IsFiniteSet(Sobre(i)) /\ Cardinality(Sobre(i)) \in Nat
  BY FS_Subset, FS_CardinalityType
<1>2. R \in SUBSET Nat /\ R # {}
  BY <1>1
<1>3. PICK k \in R : \A l \in R : k <= l
  BY <1>2, MinEsta
<1>4. PICK i \in S : k = Cardinality(Sobre(i))
  BY <1>3
<1>5. ASSUME NEW j \in S, ~(f[j] <= f[i]) PROVE FALSE
  <2>1. j \in Sobre(i) /\ j \notin Sobre(j) /\ Sobre(j) \in SUBSET Sobre(i)
    BY <1>5
  <2>2. Cardinality(Sobre(j)) <= Cardinality(Sobre(i)) /\ Sobre(j) # Sobre(i)
    BY <1>1, <2>1, FS_Subset
  <2>3. Cardinality(Sobre(j)) # Cardinality(Sobre(i))
    BY <1>1, <2>1, <2>2, FS_Subset
  <2>4. Cardinality(Sobre(j)) \in R
    OBVIOUS
  <2>5. k <= Cardinality(Sobre(j))
    BY <1>3, <2>4
  <2>6. PICK a \in Nat, b \in Nat : a = Cardinality(Sobre(j)) /\ b = Cardinality(Sobre(i))
    BY <1>1
  <2> QED BY <1>4, <2>2, <2>3, <2>5, <2>6
<1> QED BY <1>5

\* Max of a finite set of numbers is in it.
LEMMA MaxEsta ==
  ASSUME NEW S \in SUBSET Int, IsFiniteSet(S), S # {}
  PROVE  Max(S) \in S /\ \A y \in S : y <= Max(S)
<1> DEFINE f == [i \in S |-> i]
<1>1. PICK i \in S : \A j \in S : f[j] <= f[i]
  <2>1. \A i \in S : f[i] \in Int
    OBVIOUS
  <2> HIDE DEF f
  <2> QED BY <2>1, MayorEsta
<1> QED BY <1>1 DEF Max

\* In a total order of finitely many things, H the ones before each, there is
\* one and only one with k before it.
OrdenTotal(D, H) ==
  /\ \A i \in D : H[i] \in SUBSET D /\ i \notin H[i]
  /\ \A i, j \in D : i # j => i \in H[j] \/ j \in H[i]
  /\ \A i, j \in D : i \in H[j] => H[i] \subseteq H[j]

UnoSolo(D, H, k) ==
  \E i \in D : Cardinality(H[i]) = k /\ \A j \in D : Cardinality(H[j]) = k => j = i

\* In a total order of a finite set every rank below its size has exactly one holder.
LEMMA Rangos ==
  ASSUME NEW D, IsFiniteSet(D), NEW H, OrdenTotal(D, H), NEW k \in 0..(Cardinality(D) - 1)
  PROVE  UnoSolo(D, H, k)
<1>0. /\ \A i \in D : H[i] \in SUBSET D /\ i \notin H[i]
      /\ \A i, j \in D : i # j => i \in H[j] \/ j \in H[i]
      /\ \A i, j \in D : i \in H[j] => H[i] \subseteq H[j]
  BY DEF OrdenTotal
<1>1. PICK n \in Nat : n = Cardinality(D)
  BY FS_CardinalityType
<1> DEFINE T == 0..(n - 1)
           r == [i \in D |-> Cardinality(H[i])]
<1>2. \A i \in D : IsFiniteSet(H[i]) /\ Cardinality(H[i]) \in Nat
  BY <1>0, FS_Subset, FS_CardinalityType
<1>3. \A i \in D : Cardinality(H[i]) < n
  <2> TAKE i \in D
  <2>1. Cardinality(H[i]) <= Cardinality(D) /\ Cardinality(D) # Cardinality(H[i])
    BY <1>0, FS_Subset
  <2> QED BY <1>1, <1>2, <2>1
<1>4. IsFiniteSet(T) /\ Cardinality(T) = n
  <2>1. PICK b \in Int : b = n - 1
    BY <1>1
  <2>2. IsFiniteSet(0..b) /\ Cardinality(0..b) = IF 0 > b THEN 0 ELSE b - 0 + 1
    <3> HIDE DEF T, r
    <3>1. 0 \in Int
      OBVIOUS
    <3> QED BY <3>1, FS_Interval, Zenon
  <2>3. (IF 0 > b THEN 0 ELSE b - 0 + 1) = n
    BY <1>1, <2>1
  <2> QED BY <2>1, <2>2, <2>3
<1>5. \A i, j \in D : i \in H[j] => Cardinality(H[i]) < Cardinality(H[j])
  <2> SUFFICES ASSUME NEW i \in D, NEW j \in D, i \in H[j]
               PROVE  Cardinality(H[i]) < Cardinality(H[j])
    OBVIOUS
  <2>1. H[i] \in SUBSET H[j] /\ i \notin H[i]
    BY <1>0
  <2>2. Cardinality(H[i]) <= Cardinality(H[j]) /\ Cardinality(H[j]) # Cardinality(H[i])
    BY <1>2, <2>1, FS_Subset
  <2> QED BY <1>2, <2>2
<1>6. \A i, j \in D : r[i] = r[j] => i = j
  <2> SUFFICES ASSUME NEW i \in D, NEW j \in D, i # j PROVE r[i] # r[j]
    OBVIOUS
  <2>1. Cardinality(H[i]) < Cardinality(H[j]) \/ Cardinality(H[j]) < Cardinality(H[i])
    BY <1>0, <1>5
  <2> QED BY <1>2, <2>1
<1>7. r \in [D -> T]
  BY <1>1, <1>2, <1>3
<1>8. r \in Injection(D, T)
  BY <1>6, <1>7 DEF Injection, IsInjective
<1>9. r \in Surjection(D, T)
  <2> HIDE DEF r, T
  <2> QED BY <1>1, <1>4, <1>8, FS_Injection
<1>10. PICK i \in D : r[i] = k
  BY <1>1, <1>9 DEF Surjection
<1> QED BY <1>6, <1>10 DEF UnoSolo

-----------------------------------------------------------------------------
(* Searches in the TLB and in the cache.                                     *)

\* Primero is in the set, unless it is empty.
LEMMA PrimeroEsta ==
  ASSUME NEW S \in SUBSET (Nat \ {0})
  PROVE  /\ S = {} => Primero(S) = 0
         /\ S # {} => Primero(S) \in S /\ Primero(S) # 0
<1>1. CASE S = {}
  BY <1>1 DEF Primero
<1>2. CASE S # {}
  <2>1. PICK x \in S : \A y \in S : x <= y
    BY <1>2, MinEsta
  <2>2. Min(S) \in S
    BY <2>1 DEF Min
  <2> QED BY <1>2, <2>2 DEF Primero
<1> QED BY <1>1, <1>2

\* A search for a page gives an entry with it, and 0 when there is none.
LEMMA IndiceDeEsta ==
  ASSUME NEW E \in Nat, NEW a, DOMAIN a = 1..E, NEW n, NEW p
  PROVE  /\ IndiceDe(a, n, p) = 0 =>
              \A i \in DOMAIN a : ~(a[i].nro_pagina = n /\ a[i].pid = p)
         /\ IndiceDe(a, n, p) # 0 =>
              /\ IndiceDe(a, n, p) \in DOMAIN a
              /\ a[IndiceDe(a, n, p)].nro_pagina = n /\ a[IndiceDe(a, n, p)].pid = p
<1> DEFINE S == {i \in DOMAIN a : a[i].nro_pagina = n /\ a[i].pid = p}
<1>1. S \in SUBSET (Nat \ {0})
  OBVIOUS
<1>2. IndiceDe(a, n, p) = Primero(S)
  BY DEF IndiceDe
<1>3. /\ S = {} => Primero(S) = 0
      /\ S # {} => Primero(S) \in S /\ Primero(S) # 0
  <2> HIDE DEF S
  <2> QED BY <1>1, PrimeroEsta
<1> QED BY <1>2, <1>3

\* So does a search for an empty entry.
LEMMA IndiceVacioEsta ==
  ASSUME NEW E \in Nat, NEW a, DOMAIN a = 1..E
  PROVE  /\ IndiceVacio(a) = 0 => \A i \in DOMAIN a : a[i].pid # Ninguno
         /\ IndiceVacio(a) # 0 =>
              IndiceVacio(a) \in DOMAIN a /\ a[IndiceVacio(a)].pid = Ninguno
<1> DEFINE S == {i \in DOMAIN a : a[i].pid = Ninguno}
<1>1. S \in SUBSET (Nat \ {0})
  OBVIOUS
<1>2. IndiceVacio(a) = Primero(S)
  BY DEF IndiceVacio
<1>3. /\ S = {} => Primero(S) = 0
      /\ S # {} => Primero(S) \in S /\ Primero(S) # 0
  <2> HIDE DEF S
  <2> QED BY <1>1, PrimeroEsta
<1> QED BY <1>2, <1>3

\* The oldest of some entries is one of them.
LEMMA MasAntiguaEsta ==
  ASSUME NEW E \in Nat, NEW c, NEW S \in SUBSET (1..E), S # {},
         \A i \in S : c[i].tiempo \in Int
  PROVE  MasAntigua(c, S) \in S
<1> DEFINE f == [i \in S |-> c[i].tiempo]
           T == {i \in S : \A j \in S : c[j].tiempo <= c[i].tiempo}
<1>1. IsFiniteSet(S)
  <2>1. IsFiniteSet(1..E)
    BY FS_Interval
  <2> QED BY <2>1, FS_Subset
<1>2. PICK i \in S : \A j \in S : f[j] <= f[i]
  <2>1. \A i \in S : f[i] \in Int
    OBVIOUS
  <2> HIDE DEF f
  <2> QED BY <1>1, <2>1, MayorEsta
<1>3. T # {} /\ T \in SUBSET Nat /\ T \in SUBSET S
  <2>1. \A j \in S : c[j].tiempo <= c[i].tiempo
    BY <1>2
  <2>2. i \in T
    BY <2>1
  <2>3. T \in SUBSET S
    OBVIOUS
  <2>4. S \in SUBSET Nat
    OBVIOUS
  <2> HIDE DEF T
  <2> QED BY <2>2, <2>3, <2>4
<1>4. PICK x \in T : \A y \in T : x <= y
  <2> HIDE DEF T
  <2> QED BY <1>3, MinEsta
<1>5. Min(T) \in T
  BY <1>4 DEF Min
<1>6. MasAntigua(c, S) = Min(T)
  BY DEF MasAntigua
<1> QED BY <1>3, <1>5, <1>6

\* The oldest entry of the TLB is one of them.
LEMMA pagina_mas_antigua_Esta ==
  ASSUME NEW E \in Nat, NEW t, DOMAIN t = 1..E, E # 0,
         \A i \in DOMAIN t : t[i].tiempo \in Int
  PROVE  /\ pagina_mas_antigua(t) \in DOMAIN t
         /\ \A j \in DOMAIN t : t[j].tiempo <= t[pagina_mas_antigua(t)].tiempo
<1> DEFINE f == [i \in 1..E |-> t[i].tiempo]
           T == {i \in DOMAIN t : \A j \in DOMAIN t : t[j].tiempo <= t[i].tiempo}
<1>1. IsFiniteSet(1..E) /\ 1..E # {}
  <2>1. IsFiniteSet(1..E)
    BY FS_Interval
  <2>2. 1 \in 1..E
    OBVIOUS
  <2> QED BY <2>1, <2>2
<1>2. PICK i \in 1..E : \A j \in 1..E : f[j] <= f[i]
  <2>1. \A i \in 1..E : f[i] \in Int
    OBVIOUS
  <2> HIDE DEF f
  <2> QED BY <1>1, <2>1, MayorEsta
<1>3. T # {} /\ T \in SUBSET Int /\ T \in SUBSET (1..E)
  <2>1. \A j \in 1..E : t[j].tiempo <= t[i].tiempo
    BY <1>2
  <2>2. i \in T
    BY <2>1
  <2>3. T \in SUBSET (1..E)
    OBVIOUS
  <2>4. (1..E) \in SUBSET Int
    OBVIOUS
  <2> HIDE DEF T
  <2> QED BY <2>2, <2>3, <2>4
<1>4. IsFiniteSet(T)
  <2> HIDE DEF T
  <2> QED BY <1>1, <1>3, FS_Subset
<1>5. Max(T) \in T
  <2> HIDE DEF T
  <2> QED BY <1>3, <1>4, MaxEsta
<1>6. pagina_mas_antigua(t) = Max(T)
  BY DEF pagina_mas_antigua
<1> QED BY <1>5, <1>6

-----------------------------------------------------------------------------
(* What a load does to the TLB.                                              *)

\* From a to b: entry v is now that of page n of p, in frame m; the others are of
\* the pages they were, and none is of that one.
Carga(a, b, v, n, p, m) ==
  /\ DOMAIN b = DOMAIN a
  /\ v \in DOMAIN a
  /\ b[v].pid = p /\ b[v].nro_pagina = n /\ b[v].marco = m
  /\ \A i \in DOMAIN a \ {v} :
       /\ b[i].pid = a[i].pid /\ b[i].nro_pagina = a[i].nro_pagina /\ b[i].marco = a[i].marco
       /\ ~(a[i].pid = p /\ a[i].nro_pagina = n)

\* Every entry in use is of a page of a process that is in memory and is not
\* blocked, has its frame, and is the only one of that page. The page table t
\* and the states e are arguments.
Bien(a, t, e) ==
  \A i \in DOMAIN a : a[i].pid # Ninguno =>
    /\ a[i].pid \in Pids /\ e[a[i].pid] \in {"READY", "EXEC"}
    /\ a[i].nro_pagina \in Pag(a[i].pid)
    /\ a[i].marco = t[a[i].pid][a[i].nro_pagina]
    /\ \A j \in DOMAIN a : a[j].pid = a[i].pid /\ a[j].nro_pagina = a[i].nro_pagina => i = j

\* A load leaves them well.
LEMMA CargaBien ==
  ASSUME NEW a, NEW b, NEW v, NEW n, NEW p \in Pids, NEW t, NEW e,
         Bien(a, t, e), Carga(a, b, v, n, p, t[p][n]),
         n \in Pag(p), e[p] \in {"READY", "EXEC"}
  PROVE  Bien(b, t, e)
BY DEF Bien, Carga

\* Growing older changes nothing else.
LEMMA EnvejeceIgual ==
  ASSUME NEW a
  PROVE  /\ DOMAIN Envejece(a) = DOMAIN a
         /\ \A i \in DOMAIN a :
              a[i].pid = Ninguno => Envejece(a)[i] = a[i]
         /\ \A i \in DOMAIN a :
              a[i].pid # Ninguno => Envejece(a)[i] = [a[i] EXCEPT !.tiempo = @ + 1]
BY DEF Envejece

\* The place of a page: its own, or one of another page when no entry has it.
LEMMA LugarEsta ==
  ASSUME NEW E \in Nat, E # 0, NEW t \in [1..E -> EntradaTLB], NEW n, NEW p
  PROVE  /\ Lugar(t, n, p) \in 1..E
         /\ Bien(t, tabla, estado) /\ p # Ninguno =>
              \A i \in 1..E \ {Lugar(t, n, p)} : ~(t[i].pid = p /\ t[i].nro_pagina = n)
<1>1. DOMAIN t = 1..E
  OBVIOUS
<1>2. \A i \in DOMAIN t : t[i].tiempo \in Int
  BY DEF EntradaTLB
<1>3. pagina_mas_antigua(t) \in DOMAIN t
  BY <1>1, <1>2, pagina_mas_antigua_Esta
<1>4. /\ IndiceDe(t, n, p) = 0 =>
           \A i \in DOMAIN t : ~(t[i].nro_pagina = n /\ t[i].pid = p)
      /\ IndiceDe(t, n, p) # 0 =>
           /\ IndiceDe(t, n, p) \in DOMAIN t
           /\ t[IndiceDe(t, n, p)].nro_pagina = n /\ t[IndiceDe(t, n, p)].pid = p
  BY <1>1, IndiceDeEsta
<1>5. IndiceVacio(t) # 0 => IndiceVacio(t) \in DOMAIN t
  BY <1>1, IndiceVacioEsta
<1>6. CASE IndiceDe(t, n, p) # 0
  <2>1. Lugar(t, n, p) = IndiceDe(t, n, p)
    BY <1>6 DEF Lugar
  <2> QED BY <1>1, <1>4, <1>6, <2>1 DEF Bien
<1>7. CASE IndiceDe(t, n, p) = 0
  <2>1. Lugar(t, n, p) = IF IndiceVacio(t) # 0 THEN IndiceVacio(t) ELSE pagina_mas_antigua(t)
    BY <1>7 DEF Lugar
  <2> QED BY <1>1, <1>3, <1>4, <1>5, <1>7, <2>1
<1> QED BY <1>6, <1>7

\* Both algorithms put the page in one entry, with some time.
Entra(t, b, v, x, n, p, m) ==
  /\ v = Lugar(t, n, p)
  /\ x = IF config.REEMPLAZO_TLB = "FIFO" /\ IndiceDe(t, n, p) # 0 THEN t[v].tiempo ELSE 0
  /\ b = Envejece([t EXCEPT ![v] = Traduccion(n, p, m, x)])

\* An update of a TLB that has entries writes one of them, the hit, a free one or the
\* victim, and otherwise changes only the times.
LEMMA EntraEnTLB ==
  ASSUME NEW E \in Nat, NEW t \in [1..E -> EntradaTLB], t # <<>>,
         NEW n \in Int, NEW p \in Pids, NEW m \in Int
  PROVE  \E v \in 1..E, x \in Nat : Entra(t, actualizar_tlb(t, n, p, m), v, x, n, p, m)
<1>1. E # 0
  <2>1. SUFFICES ASSUME E = 0 PROVE FALSE
    OBVIOUS
  <2>2. DOMAIN t = {} /\ t = [i \in DOMAIN t |-> t[i]]
    BY <2>1
  <2> QED BY <2>2
<1>2. Lugar(t, n, p) \in 1..E
  BY <1>1, LugarEsta
<1>3. t[Lugar(t, n, p)].tiempo \in Nat
  BY <1>2 DEF EntradaTLB
<1>4. CASE config.REEMPLAZO_TLB = "FIFO"
  <2>1. actualizar_tlb(t, n, p, m) = algoritmo_tlb_fifo(t, n, p, m)
    BY <1>4 DEF actualizar_tlb
  <2>2. PICK x \in Nat : x = IF IndiceDe(t, n, p) # 0 THEN t[Lugar(t, n, p)].tiempo ELSE 0
    BY <1>3
  <2>3. algoritmo_tlb_fifo(t, n, p, m)
          = Envejece([t EXCEPT ![Lugar(t, n, p)] = Traduccion(n, p, m, x)])
    BY <2>2 DEF algoritmo_tlb_fifo
  <2> QED BY <1>2, <1>4, <2>1, <2>2, <2>3 DEF Entra
<1>5. CASE config.REEMPLAZO_TLB # "FIFO"
  <2>1. actualizar_tlb(t, n, p, m)
          = Envejece([t EXCEPT ![Lugar(t, n, p)] = Traduccion(n, p, m, 0)])
    BY <1>5 DEF actualizar_tlb, algoritmo_tlb_lru
  <2> QED BY <1>2, <1>5, <2>1 DEF Entra
<1> QED BY <1>4, <1>5

\* The TLB keeps its size and its types, and its entries stay well.
LEMMA TLBTras ==
  ASSUME NEW E \in Nat, NEW t \in [1..E -> EntradaTLB], Ninguno \notin Pids,
         NEW n \in Int, NEW p \in Pids, NEW m \in Int
  PROVE  /\ actualizar_tlb(t, n, p, m) \in [1..E -> EntradaTLB]
         /\ /\ Bien(t, tabla, estado) /\ n \in Pag(p) /\ estado[p] \in {"READY", "EXEC"}
            /\ m = tabla[p][n]
            => Bien(actualizar_tlb(t, n, p, m), tabla, estado)
<1>1. CASE t = <<>>
  <2>1. actualizar_tlb(t, n, p, m) = t
    BY <1>1 DEF actualizar_tlb
  <2> QED BY <2>1
<1>2. CASE t # <<>>
  <2>0. PICK v \in 1..E, x \in Nat : Entra(t, actualizar_tlb(t, n, p, m), v, x, n, p, m)
    BY <1>2, EntraEnTLB
  <2>1. /\ v = Lugar(t, n, p)
        /\ actualizar_tlb(t, n, p, m) = Envejece([t EXCEPT ![v] = Traduccion(n, p, m, x)])
    BY <2>0 DEF Entra
  <2>2. PICK u : u = [t EXCEPT ![v] = Traduccion(n, p, m, x)]
    OBVIOUS
  <2>3. PICK b : b = Envejece(u)
    OBVIOUS
  <2>4. u \in [1..E -> EntradaTLB]
    BY <2>2 DEF Traduccion, EntradaTLB
  <2>5. b \in [1..E -> EntradaTLB]
    <3>1. b = [i \in 1..E |-> IF u[i].pid = Ninguno THEN u[i] ELSE [u[i] EXCEPT !.tiempo = @ + 1]]
      BY <2>3, <2>4 DEF Envejece
    <3>2. \A i \in 1..E : [u[i] EXCEPT !.tiempo = @ + 1] \in EntradaTLB
      <4> TAKE i \in 1..E
      <4>1. u[i] \in EntradaTLB
        BY <2>4
      <4>2. u[i].tiempo + 1 \in Nat
        BY <4>1 DEF EntradaTLB
      <4> QED BY <4>1, <4>2 DEF EntradaTLB
    <3> QED BY <2>4, <3>1, <3>2
  <2>6. ASSUME Bien(t, tabla, estado), n \in Pag(p), estado[p] \in {"READY", "EXEC"},
               m = tabla[p][n]
        PROVE  Bien(b, tabla, estado)
    <3>1. E # 0
      OBVIOUS
    <3>2. \A i \in 1..E \ {v} : ~(t[i].pid = p /\ t[i].nro_pagina = n)
      BY <2>1, <2>6, <3>1, LugarEsta
    <3>3. \A i \in 1..E : /\ b[i].pid = u[i].pid /\ b[i].nro_pagina = u[i].nro_pagina
                          /\ b[i].marco = u[i].marco
      <4> TAKE i \in 1..E
      <4>1. b[i] = IF u[i].pid = Ninguno THEN u[i] ELSE [u[i] EXCEPT !.tiempo = @ + 1]
        BY <2>3, <2>4 DEF Envejece
      <4>2. u[i] \in EntradaTLB
        BY <2>4
      <4> QED BY <4>1, <4>2 DEF EntradaTLB
    <3>4. Carga(t, b, v, n, p, tabla[p][n])
      BY <2>2, <2>4, <2>5, <2>6, <3>2, <3>3 DEF Carga, Traduccion
    <3> QED BY <2>6, <3>4, CargaBien
  <2> QED BY <2>1, <2>2, <2>3, <2>5, <2>6
<1> QED BY <1>1, <1>2

-----------------------------------------------------------------------------
(* Contents of a page.                                                       *)

\* Copying over a page gives a page.
LEMMA CopiaEsta ==
  ASSUME NEW base \in Contenido, NEW pagina \in Contenido, NEW des \in Celdas
  PROVE  Copia(base, des, pagina) \in Contenido
<1>1. CantCeldas \in Nat \ {0}
  BY PaginasConstantesOK
<1>2. \A c \in Celdas : des <= c => c - des \in Celdas
  BY <1>1 DEF Celdas
<1>3. \A c \in Celdas : base[c] \in Datos \cup {Cero} /\ pagina[c] \in Datos \cup {Cero}
  BY DEF Contenido
<1> QED BY <1>2, <1>3 DEF Copia, Contenido

\* The page of zeroes is a page, and offset 0 is in every page.
LEMMA CerosEsta == Ceros \in Contenido /\ 0 \in Celdas
<1>1. CantCeldas \in Nat \ {0}
  BY PaginasConstantesOK
<1> QED BY <1>1 DEF Ceros, Contenido, Celdas

\* A string that does not start with a zero has something in it.
LEMMA strlenPositivo ==
  ASSUME NEW pagina, pagina[0] # Cero
  PROVE  strlen(pagina) \in Nat /\ 0 < strlen(pagina)
<1> DEFINE S == {c \in Celdas : \A k \in 0..c : pagina[k] # Cero}
<1>1. PICK N \in Nat \ {0} : N = CantCeldas
  BY PaginasConstantesOK
<1>2. IsFiniteSet(Celdas)
  <2>1. PICK b \in Int : b = N - 1
    BY <1>1
  <2>2. 0 \in Int /\ Celdas = 0..b
    BY <1>1, <2>1 DEF Celdas
  <2>3. IsFiniteSet(0..b)
    BY <2>2, FS_Interval, Zenon
  <2> QED BY <2>2, <2>3
<1>3. 0 \in S
  <2>1. \A k \in 0..0 : k = 0
    OBVIOUS
  <2> QED BY <2>1, CerosEsta
<1>4. IsFiniteSet(S)
  BY <1>2, FS_Subset
<1>5. Cardinality(S) \in Nat /\ Cardinality(S) # 0
  <2> HIDE DEF S
  <2> QED BY <1>3, <1>4, FS_CardinalityType, FS_EmptySet
<1>6. strlen(pagina) = Cardinality(S)
  BY DEF strlen
<1> QED BY <1>5, <1>6

\* A page that is written back keeps its first cell: a string ends at its first
\* zero, and before that the first cell is copied.
LEMMA ComoStringEsta ==
  ASSUME NEW pagina \in Contenido
  PROVE  ComoString(pagina) \in Contenido /\ ComoString(pagina)[0] = pagina[0]
<1>1. ComoString(pagina) \in Contenido
  BY CopiaEsta, CerosEsta DEF ComoString
<1>2. ComoString(pagina)[0]
        = IF 0 <= 0 /\ 0 - 0 < strlen(pagina) THEN pagina[0 - 0] ELSE Ceros[0]
  BY CerosEsta DEF ComoString, Copia
<1>3. Ceros[0] = Cero
  BY CerosEsta DEF Ceros
<1>4. CASE pagina[0] = Cero
  BY <1>1, <1>2, <1>3, <1>4
<1>5. CASE pagina[0] # Cero
  BY <1>1, <1>2, <1>5, strlenPositivo
<1> QED BY <1>4, <1>5

\* The string of a WRITE is a page, and copied at an offset it is found there.
LEMMA TextoEsta ==
  ASSUME NEW dato \in Datos
  PROVE  /\ Texto(dato) \in Contenido
         /\ \A base \in Contenido, des \in Celdas : Copia(base, des, Texto(dato))[des] = dato
<1>1. Texto(dato) \in Contenido
  BY CerosEsta DEF Texto, Contenido
<1>2. Texto(dato)[0] = dato /\ dato # Cero
  BY CerosEsta, PaginasConstantesOK DEF Texto, Contenido
<1>3. ASSUME NEW base \in Contenido, NEW des \in Celdas
      PROVE  Copia(base, des, Texto(dato))[des] = dato
  <2>1. Copia(base, des, Texto(dato))[des]
          = IF des <= des /\ des - des < strlen(Texto(dato)) THEN Texto(dato)[des - des]
            ELSE base[des]
    BY DEF Copia
  <2>2. des \in Int /\ des - des = 0 /\ des <= des
    BY PaginasConstantesOK DEF Celdas
  <2>3. 0 < strlen(Texto(dato))
    BY <1>2, strlenPositivo
  <2> QED BY <1>2, <2>1, <2>2, <2>3
<1> QED BY <1>1, <1>3

-----------------------------------------------------------------------------
(* What a load does to the cache.                                            *)

Misma(x, y) ==
  /\ x.pid = y.pid /\ x.nro_pagina = y.nro_pagina /\ x.marco = y.marco
  /\ x.contenido = y.contenido /\ x.modificado = y.modificado

\* From a to d: entry v is now w, but for its times and its bit of use.
Pone(a, d, v, w) ==
  /\ DOMAIN d = DOMAIN a /\ v \in DOMAIN a
  /\ Misma(d[v], w)
  /\ \A i \in DOMAIN a \ {v} : Misma(d[i], a[i])

\* An update of the times of the cache keeps its type and touches nothing else.
LEMMA EnvejeceCache ==
  ASSUME NEW E \in Nat, NEW u \in [1..E -> EntradaCache]
  PROVE  Envejece(u) \in [1..E -> EntradaCache] /\ \A i \in 1..E : Misma(Envejece(u)[i], u[i])
<1>1. PICK b : b = Envejece(u)
  OBVIOUS
<1>2. b = [i \in 1..E |-> IF u[i].pid = Ninguno THEN u[i] ELSE [u[i] EXCEPT !.tiempo = @ + 1]]
  BY <1>1 DEF Envejece
<1>3. ASSUME NEW i \in 1..E
      PROVE  b[i] \in EntradaCache /\ Misma(b[i], u[i])
  <2>1. u[i] \in EntradaCache
    OBVIOUS
  <2>2. u[i].tiempo + 1 \in Nat
    BY <2>1 DEF EntradaCache
  <2>3. CASE u[i].pid = Ninguno
    BY <1>2, <2>1, <2>3 DEF Misma
  <2>4. CASE u[i].pid # Ninguno
    <3>1. b[i] = [u[i] EXCEPT !.tiempo = u[i].tiempo + 1]
      BY <1>2, <2>4
    <3> QED BY <2>1, <2>2, <3>1 DEF EntradaCache, Misma
  <2> QED BY <2>3, <2>4
<1> QED BY <1>1, <1>2, <1>3

\* The round of the clock that clears the use bits ends with an entry to take.
LEMMA SegundaCache ==
  ASSUME NEW E \in Nat, NEW u \in [1..E -> EntradaCache], E # 0
  PROVE  /\ TodasConSegunda(u) \in [1..E -> EntradaCache]
         /\ \A i \in 1..E : Misma(TodasConSegunda(u)[i], u[i])
         /\ ConBits(TodasConSegunda(u), 0) # {}
         /\ ConBits(TodasConSegunda(u), 0) \in SUBSET (1..E)
<1>1. PICK c : c = TodasConSegunda(u)
  OBVIOUS
<1>2. CASE ConBits(u, 0) # {}
  <2>1. c = u
    BY <1>1, <1>2 DEF TodasConSegunda
  <2>2. ConBits(u, 0) \in SUBSET (1..E)
    BY DEF ConBits
  <2> QED BY <1>1, <1>2, <2>1, <2>2 DEF Misma
<1>3. CASE ConBits(u, 0) = {}
  <2>1. c = [i \in 1..E |-> [u[i] EXCEPT !.bit_uso = 0]]
    BY <1>1, <1>3 DEF TodasConSegunda
  <2>2. ASSUME NEW i \in 1..E
        PROVE  c[i] \in EntradaCache /\ Misma(c[i], u[i]) /\ c[i].bit_uso = 0
    <3>1. u[i] \in EntradaCache
      OBVIOUS
    <3>2. c[i] = [u[i] EXCEPT !.bit_uso = 0]
      BY <2>1
    <3> QED BY <3>1, <3>2 DEF EntradaCache, Misma
  <2>3. c \in [1..E -> EntradaCache]
    BY <2>1, <2>2
  <2>4. 1 \in ConBits(c, 0) /\ ConBits(c, 0) \in SUBSET (1..E)
    BY <2>2, <2>3 DEF ConBits
  <2> QED BY <1>1, <2>2, <2>3, <2>4
<1> QED BY <1>2, <1>3

\* The victims of the two algorithms are entries.
LEMMA VictimaEsta ==
  ASSUME NEW E \in Nat, NEW u \in [1..E -> EntradaCache], E # 0
  PROVE  /\ MasAntigua(TodasConSegunda(u), ConBits(TodasConSegunda(u), 0)) \in 1..E
         /\ victima_clock_m(TodasConSegunda(u)) \in 1..E
<1>1. PICK c : c = TodasConSegunda(u)
  OBVIOUS
<1>2. c \in [1..E -> EntradaCache] /\ ConBits(c, 0) # {} /\ ConBits(c, 0) \in SUBSET (1..E)
  BY <1>1, SegundaCache
<1>3. \A i \in 1..E : c[i].tiempo \in Int
  BY <1>2 DEF EntradaCache
<1>4. \A S \in SUBSET (1..E) : S # {} => MasAntigua(c, S) \in 1..E
  BY <1>3, MasAntiguaEsta
<1>5. MasAntigua(c, ConBits(c, 0)) \in 1..E
  BY <1>2, <1>4
<1>6. victima_clock_m(c) \in 1..E
  <2>1. PICK L : L = ConBits(c, 0) \cap Limpias(c)
    OBVIOUS
  <2>2. victima_clock_m(c) = MasAntigua(c, IF L # {} THEN L ELSE ConBits(c, 0))
    BY <2>1 DEF victima_clock_m
  <2>3. L \in SUBSET (1..E)
    BY <1>2, <2>1
  <2> QED BY <1>2, <1>4, <2>2, <2>3
<1> QED BY <1>1, <1>5, <1>6

\* A new entry in place of v, then the loop that ages the others.
LEMMA PoneEntrada ==
  ASSUME NEW E \in Nat, NEW a \in [1..E -> EntradaCache], NEW c \in [1..E -> EntradaCache],
         \A i \in 1..E : Misma(c[i], a[i]),
         NEW v \in 1..E, NEW w \in EntradaCache, NEW d,
         d = Envejece([c EXCEPT ![v] = w]) \/ d = [c EXCEPT ![v] = w]
  PROVE  d \in [1..E -> EntradaCache] /\ Pone(a, d, v, w)
<1>1. PICK u : u = [c EXCEPT ![v] = w]
  OBVIOUS
<1>2. u \in [1..E -> EntradaCache] /\ u[v] = w /\ \A i \in 1..E \ {v} : u[i] = c[i]
  BY <1>1
<1>3. Envejece(u) \in [1..E -> EntradaCache] /\ \A i \in 1..E : Misma(Envejece(u)[i], u[i])
  BY <1>2, EnvejeceCache
<1>4. d \in [1..E -> EntradaCache] /\ \A i \in 1..E : Misma(d[i], u[i])
  <2>1. d = Envejece(u) \/ d = u
    BY <1>1, Zenon
  <2>2. \A i \in 1..E : Misma(u[i], u[i])
    BY DEF Misma
  <2> QED BY <1>2, <1>3, <2>1, <2>2
<1>5. \A i \in 1..E \ {v} : Misma(d[i], a[i])
  <2> TAKE i \in 1..E \ {v}
  <2>1. Misma(d[i], u[i]) /\ u[i] = c[i] /\ Misma(c[i], a[i])
    BY <1>2, <1>4
  <2> QED BY <2>1 DEF Misma
<1>6. Misma(d[v], w)
  BY <1>2, <1>4
<1> QED BY <1>4, <1>5, <1>6 DEF Pone

\* actualizar_cache: page n of the process, with nuevo copied at des over some
\* page, takes entry v; a dirty page that leaves is written to its frame, which
\* CLOCK does only when its number is not n.
Cambia(n, des, nuevo, modificado, m, v, w) ==
  /\ w.pid = pid /\ w.nro_pagina = n /\ w.marco = m /\ w.modificado = modificado
  /\ \E base \in Contenido : w.contenido = Copia(base, des, nuevo)
  /\ Pone(cache, cache', v, w)
  /\ \A i \in DOMAIN cache \ {v} : ~(cache[i].pid = pid /\ cache[i].nro_pagina = n)
  /\ espacio' = espacio \/ (espacio' = EscribeEn(v) /\ cache[v].modificado)
  /\ /\ cache[v].modificado /\ ~(cache[v].pid = pid /\ cache[v].nro_pagina = n)
     /\ config.REEMPLAZO_CACHE = "CLOCK" => cache[v].nro_pagina # n
     => espacio' = EscribeEn(v)

\* An access through the cache changes one entry, and writes the dirty victim to its
\* frame; the others keep their page.
LEMMA CacheTras ==
  ASSUME NEW E \in Nat, E # 0, cache \in [1..E -> EntradaCache], pid \in Pids,
         espacio \in [Marcos -> Contenido], Ninguno \notin Pids,
         \A i \in 1..E : cache[i].pid = Ninguno => ~cache[i].modificado,
         Bien(cache, tabla, estado),
         NEW n \in Int, NEW des \in Celdas, NEW nuevo \in Contenido,
         NEW modificado \in BOOLEAN, NEW m \in Marcos,
         actualizar_cache(n, des, nuevo, modificado, m)
  PROVE  /\ cache' \in [1..E -> EntradaCache]
         /\ \E v \in 1..E, w \in EntradaCache : Cambia(n, des, nuevo, modificado, m, v, w)
<1>1. ASSUME NEW esta, NEW x \in Nat
      PROVE  /\ cargar_contenido(esta, espacio[m], des, nuevo) \in Contenido
             /\ \E base \in Contenido :
                  cargar_contenido(esta, espacio[m], des, nuevo) = Copia(base, des, nuevo)
  <2>1. (IF esta THEN Ceros ELSE espacio[m]) \in Contenido
    BY CerosEsta
  <2>2. cargar_contenido(esta, espacio[m], des, nuevo)
          = Copia(IF esta THEN Ceros ELSE espacio[m], des, nuevo)
    BY DEF cargar_contenido
  <2> QED BY <2>1, <2>2, CopiaEsta
<1>2. ASSUME NEW esta
      PROVE  Entrada(n, cargar_contenido(esta, espacio[m], des, nuevo), modificado, m)
               \in EntradaCache
  <2>1. m \in Int
    BY PaginasConstantesOK DEF Marcos
  <2>2. cargar_contenido(esta, espacio[m], des, nuevo) \in Contenido
    BY <1>1
  <2> QED BY <2>1, <2>2 DEF Entrada, EntradaCache
<1>3. DOMAIN cache = 1..E
  OBVIOUS
<1>4. PICK nro, vacia : nro = IndiceDe(cache, n, pid) /\ vacia = IndiceVacio(cache)
  OBVIOUS
<1>5. /\ nro = 0 => \A i \in 1..E : ~(cache[i].nro_pagina = n /\ cache[i].pid = pid)
      /\ nro # 0 => nro \in 1..E /\ cache[nro].nro_pagina = n /\ cache[nro].pid = pid
  BY <1>3, <1>4, IndiceDeEsta
<1>6. /\ vacia = 0 => \A i \in 1..E : cache[i].pid # Ninguno
      /\ vacia # 0 => vacia \in 1..E /\ cache[vacia].pid = Ninguno
  BY <1>3, <1>4, IndiceVacioEsta
<1>7. PICK c : c = TodasConSegunda(cache)
  OBVIOUS
<1>8. c \in [1..E -> EntradaCache] /\ \A i \in 1..E : Misma(c[i], cache[i])
  BY <1>7, SegundaCache
<1>9. \A i \in 1..E : Misma(cache[i], cache[i])
  BY DEF Misma
<1>10. CASE nro # 0
  <2>1. PICK pagina : pagina = cargar_contenido(TRUE, espacio[m], des, nuevo)
    OBVIOUS
  <2>2. PICK w : w = [Entrada(n, pagina, modificado, m) EXCEPT !.tiempo = cache[nro].tiempo]
    OBVIOUS
  <2>3. cache' = [cache EXCEPT ![nro] = w] /\ espacio' = espacio
    BY <1>4, <1>10, <2>1, <2>2 DEF actualizar_cache
  <2>4. cache[nro].tiempo \in Nat
    BY <1>5, <1>10 DEF EntradaCache
  <2>5. w \in EntradaCache /\ w.pid = pid /\ w.nro_pagina = n /\ w.marco = m
        /\ w.modificado = modificado /\ w.contenido = pagina
    BY <1>2, <2>1, <2>2, <2>4 DEF Entrada, EntradaCache
  <2>6. cache' \in [1..E -> EntradaCache] /\ Pone(cache, cache', nro, w)
    BY <1>5, <1>9, <1>10, <2>3, <2>5, PoneEntrada
  <2>7. \A i \in 1..E \ {nro} : ~(cache[i].pid = pid /\ cache[i].nro_pagina = n)
    BY <1>5, <1>10 DEF Bien
  <2>8. \E base \in Contenido : w.contenido = Copia(base, des, nuevo)
    BY <1>1, <2>1, <2>5
  <2>9. Cambia(n, des, nuevo, modificado, m, nro, w)
    BY <1>5, <1>10, <2>3, <2>5, <2>6, <2>7, <2>8 DEF Cambia
  <2> QED BY <1>5, <1>10, <2>5, <2>6, <2>9
<1>11. CASE nro = 0 /\ vacia # 0
  <2>1. PICK pagina : pagina = cargar_contenido(FALSE, espacio[m], des, nuevo)
    OBVIOUS
  <2>2. PICK w : w = Entrada(n, pagina, modificado, m)
    OBVIOUS
  <2>3. cache' = Envejece([cache EXCEPT ![vacia] = w]) /\ espacio' = espacio
    BY <1>4, <1>11, <2>1, <2>2 DEF actualizar_cache
  <2>4. w \in EntradaCache /\ w.pid = pid /\ w.nro_pagina = n /\ w.marco = m
        /\ w.modificado = modificado /\ w.contenido = pagina
    BY <1>2, <2>1, <2>2 DEF Entrada
  <2>5. cache' \in [1..E -> EntradaCache] /\ Pone(cache, cache', vacia, w)
    BY <1>6, <1>9, <1>11, <2>3, <2>4, PoneEntrada
  <2>6. \E base \in Contenido : w.contenido = Copia(base, des, nuevo)
    BY <1>1, <2>1, <2>4
  <2>7. Cambia(n, des, nuevo, modificado, m, vacia, w)
    BY <1>5, <1>6, <1>11, <2>3, <2>4, <2>5, <2>6 DEF Cambia
  <2> QED BY <1>6, <1>11, <2>4, <2>5, <2>7
<1>12. ASSUME nro = 0, NEW v \in 1..E, NEW esta, NEW w,
              w = Entrada(n, cargar_contenido(esta, espacio[m], des, nuevo), modificado, m),
              cache' = Envejece([c EXCEPT ![v] = w]),
              espacio' = espacio \/ (espacio' = EscribeEn(v) /\ cache[v].modificado),
              cache[v].modificado
                /\ (config.REEMPLAZO_CACHE = "CLOCK" => cache[v].nro_pagina # n)
                => espacio' = EscribeEn(v)
       PROVE  /\ cache' \in [1..E -> EntradaCache]
              /\ w \in EntradaCache
              /\ Cambia(n, des, nuevo, modificado, m, v, w)
  <2>1. w \in EntradaCache
    BY <1>2, <1>12
  <2>2. w.pid = pid /\ w.nro_pagina = n /\ w.marco = m /\ w.modificado = modificado
        /\ w.contenido = cargar_contenido(esta, espacio[m], des, nuevo)
    BY <1>12 DEF Entrada
  <2>3. cache' \in [1..E -> EntradaCache] /\ Pone(cache, cache', v, w)
    BY <1>8, <1>12, <2>1, PoneEntrada
  <2>4. \E base \in Contenido : w.contenido = Copia(base, des, nuevo)
    BY <1>1, <2>2
  <2> QED BY <1>5, <1>12, <2>1, <2>2, <2>3, <2>4 DEF Cambia
<1>13. CASE nro = 0 /\ vacia = 0 /\ config.REEMPLAZO_CACHE = "CLOCK"
  <2>1. PICK v : v = MasAntigua(c, ConBits(c, 0))
    OBVIOUS
  <2>2. v \in 1..E
    BY <1>7, <2>1, VictimaEsta
  <2>3. PICK escribe : escribe = (cache[v].nro_pagina # n /\ cache[v].modificado)
    OBVIOUS
  <2>4. PICK esta : esta = (escribe /\ IndiceDe(tlb, cache[v].nro_pagina, cache[v].pid) # 0)
    OBVIOUS
  <2>5. PICK w : w = Entrada(n, cargar_contenido(esta, espacio[m], des, nuevo), modificado, m)
    OBVIOUS
  <2>6. algoritmo_cache_clock(n, des, nuevo, modificado, m)
    BY <1>4, <1>13 DEF actualizar_cache
  <2>7. /\ cache' = Envejece([c EXCEPT ![v] = w])
        /\ espacio' = IF escribe THEN EscribeEn(v) ELSE espacio
    BY <1>7, <2>1, <2>3, <2>4, <2>5, <2>6 DEF algoritmo_cache_clock
  <2> QED BY <1>12, <1>13, <2>2, <2>3, <2>5, <2>7
<1>14. CASE nro = 0 /\ vacia = 0 /\ config.REEMPLAZO_CACHE # "CLOCK"
  <2>1. PICK v : v = victima_clock_m(c)
    OBVIOUS
  <2>2. v \in 1..E
    BY <1>7, <2>1, VictimaEsta
  <2>3. PICK w : w = Entrada(n, cargar_contenido(FALSE, espacio[m], des, nuevo), modificado, m)
    OBVIOUS
  <2>4. algoritmo_cache_clock_modificado(n, des, nuevo, modificado, m)
    BY <1>4, <1>14 DEF actualizar_cache
  <2>5. /\ cache' = Envejece([c EXCEPT ![v] = w])
        /\ espacio' = IF cache[v].modificado THEN EscribeEn(v) ELSE espacio
    BY <1>7, <2>1, <2>3, <2>4 DEF algoritmo_cache_clock_modificado
  <2> QED BY <1>12, <1>14, <2>2, <2>3, <2>5
<1> QED BY <1>10, <1>11, <1>13, <1>14

-----------------------------------------------------------------------------
(* The inductive invariant.                                                  *)

Estados == {"READY", "EXEC", "BLOCKED", "SUSP", "EXIT"}

TiposCPU ==
  /\ <<config, desaloja>> \in Configuraciones
  /\ pid \in Pids \cup {Ninguno}
  /\ tlb \in [1..config.ENTRADAS_TLB -> EntradaTLB]
  /\ cache \in [1..config.ENTRADAS_CACHE -> EntradaCache]
  /\ instrucciones \in 0..MaxInstrucciones

TiposMemoria ==
  /\ estado \in [Pids -> Estados] /\ DOMAIN tabla = Pids /\ DOMAIN archivo = Pids
  /\ \A p \in Pids : estado[p] \in Estados /\ (estado[p] = "EXEC" <=> pid = p)
  /\ \A p \in Pids : tabla[p] \in [Pag(p) -> Marcos \cup {SinMarco}]
  /\ \A p \in Pids : archivo[p] \in [Pag(p) -> Contenido]
  /\ espacio \in [Marcos -> Contenido]

TiposHistoria ==
  /\ DOMAIN programa = Pids /\ DOMAIN ultima = Pids
  /\ \A p \in Pids : programa[p] \in [Pag(p) -> Contenido]
  /\ \A p \in Pids : ultima[p] \in [Pag(p) -> Celdas \cup {-1}]
  /\ uso \in [clave : PaginasTodas \cup {<<>>}, veces : Nat]

\* A process that is neither suspended nor over has a frame for each page, and no
\* frame is of two pages.
Residentes ==
  /\ \A p \in Pids : estado[p] \in {"READY", "EXEC", "BLOCKED"} =>
       \A n \in Pag(p) : tabla[p][n] \in Marcos
  /\ \A p \in Pids : \A q \in Pids : \A n \in Pag(p) : \A k \in Pag(q) :
       tabla[p][n] = tabla[q][k] /\ tabla[p][n] # SinMarco => p = q /\ n = k

\* The entries are well; those that are free are clean; without interruptions
\* the cache has pages of one process only.
EntradasBien ==
  /\ Bien(tlb, tabla, estado)
  /\ Bien(cache, tabla, estado)
  /\ \A i \in DOMAIN cache : cache[i].pid = Ninguno => ~cache[i].modificado
  /\ ~desaloja => \A i \in DOMAIN cache : cache[i].pid \in {pid, Ninguno}

IInv == TiposCPU /\ TiposMemoria /\ TiposHistoria /\ Residentes /\ EntradasBien

\* The configuration is one of those of the constants.
LEMMA ConfigEsta ==
  ASSUME TiposCPU
  PROVE  /\ config.ENTRADAS_TLB \in Nat /\ config.ENTRADAS_CACHE \in Nat
         /\ config.REEMPLAZO_CACHE \in {"CLOCK", "CLOCK_MODIFICADO"}
         /\ config.REEMPLAZO_TLB \in {"FIFO", "LRU"}
         /\ desaloja \in BOOLEAN
BY PaginasConstantesOK DEF TiposCPU

\* The pages of a process are natural numbers.
LEMMA PagEsta == ASSUME NEW p \in Pids PROVE \A n \in Pag(p) : n \in Nat
BY PaginasConstantesOK DEF Pag

\* The frames are natural numbers, and "no frame" is not one of them.
LEMMA MarcosEsta == Marcos \subseteq Nat /\ SinMarco \notin Marcos
BY PaginasConstantesOK DEF Marcos, SinMarco

\* The initial states satisfy the invariant.
LEMMA InitIInv == ASSUME Init PROVE IInv
<1>1. TiposCPU
  <2>1. <<config, desaloja>> \in Configuraciones
    <3>1. PICK x \in Configuraciones : config = x[1] /\ desaloja = x[2]
      BY DEF Init
    <3>2. x = <<x[1], x[2]>>
      BY PaginasConstantesOK
    <3> QED BY <3>1, <3>2
  <2>2. TLBVacia \in EntradaTLB
    BY DEF TLBVacia, EntradaTLB, SinMarco
  <2>3. CacheVacia \in EntradaCache
    BY CerosEsta DEF CacheVacia, EntradaCache, SinMarco
  <2>4. 0 \in 0..MaxInstrucciones
    BY PaginasConstantesOK
  <2> QED BY <2>1, <2>2, <2>3, <2>4 DEF Init, TiposCPU
<1>2. MarcoInicial \in [PaginasTodas -> Marcos]
      /\ \A x, y \in PaginasTodas : MarcoInicial[x] = MarcoInicial[y] => x = y
  BY PaginasEntranTodas DEF MarcoInicial
<1>3. \A p \in Pids : \A n \in Pag(p) : <<p, n>> \in PaginasTodas
  BY DEF PaginasTodas
<1>4. \A p \in Pids : tabla[p] \in [Pag(p) -> Marcos]
  <2> TAKE p \in Pids
  <2>1. tabla[p] = [n \in Pag(p) |-> MarcoInicial[<<p, n>>]]
    BY DEF Init
  <2> QED BY <1>2, <1>3, <2>1
<1>5. TiposMemoria
  <2>1. \A p \in Pids : archivo[p] \in [Pag(p) -> Contenido]
    BY CerosEsta DEF Init
  <2>2. espacio \in [Marcos -> Contenido]
    BY CerosEsta DEF Init
  <2>3. \A p \in Pids : estado[p] \in Estados /\ (estado[p] = "EXEC" <=> pid = p)
    BY PaginasConstantesOK DEF Init, Estados
  <2>4. estado \in [Pids -> Estados] /\ DOMAIN tabla = Pids /\ DOMAIN archivo = Pids
    BY DEF Init, Estados
  <2>5. \A p \in Pids : tabla[p] \in [Pag(p) -> Marcos \cup {SinMarco}]
    BY <1>4
  <2> QED BY <2>1, <2>2, <2>3, <2>4, <2>5 DEF TiposMemoria
<1>6. TiposHistoria
  BY CerosEsta DEF Init, TiposHistoria
<1>7. Residentes
  <2>1. \A p \in Pids : \A n \in Pag(p) : tabla[p][n] = MarcoInicial[<<p, n>>]
    BY DEF Init
  <2>2. \A p \in Pids : \A q \in Pids : \A n \in Pag(p) : \A k \in Pag(q) :
          tabla[p][n] = tabla[q][k] => p = q /\ n = k
    <3> SUFFICES ASSUME NEW p \in Pids, NEW q \in Pids, NEW n \in Pag(p), NEW k \in Pag(q),
                        tabla[p][n] = tabla[q][k]
                 PROVE  p = q /\ n = k
      OBVIOUS
    <3>1. MarcoInicial[<<p, n>>] = MarcoInicial[<<q, k>>]
      BY <2>1
    <3>2. <<p, n>> = <<q, k>>
      BY <1>2, <1>3, <3>1
    <3> QED BY <3>2
  <2> QED BY <1>4, <2>2 DEF Residentes
<1>8. EntradasBien
  <2>1. \A i \in DOMAIN tlb : tlb[i].pid = Ninguno
    BY DEF Init, TLBVacia
  <2>2. \A i \in DOMAIN cache : cache[i].pid = Ninguno /\ ~cache[i].modificado
    BY DEF Init, CacheVacia
  <2> QED BY <2>1, <2>2 DEF EntradasBien, Bien
<1> QED BY <1>1, <1>5, <1>6, <1>7, <1>8 DEF IInv

-----------------------------------------------------------------------------
(* The frame of a page, and the steps of READ and WRITE.                     *)

\* Marco gives the frame of the page, from the TLB or from the memory.
LEMMA MarcoEsta ==
  ASSUME IInv, pid \in Pids, NEW n \in Pag(pid)
  PROVE  Marco(n) = tabla[pid][n] /\ Marco(n) \in Marcos /\ Marco(n) \in Int
<1>1. PICK E \in Nat : DOMAIN tlb = 1..E
  BY ConfigEsta DEF IInv, TiposCPU
<1>2. PICK i : i = IndiceDe(tlb, n, pid)
  OBVIOUS
<1>3. i # 0 => i \in DOMAIN tlb /\ tlb[i].nro_pagina = n /\ tlb[i].pid = pid
  BY <1>1, <1>2, IndiceDeEsta
<1>4. Marco(n) = IF i # 0 THEN tlb[i].marco ELSE tabla[pid][n]
  BY <1>2 DEF Marco
<1>5. pid # Ninguno
  BY PaginasConstantesOK
<1>6. i # 0 => tlb[i].marco = tabla[pid][n]
  BY <1>3, <1>5 DEF IInv, EntradasBien, Bien
<1>7. tabla[pid][n] \in Marcos
  <2>1. estado[pid] = "EXEC"
    BY DEF IInv, TiposMemoria
  <2> QED BY <2>1 DEF IInv, Residentes
<1>8. Marco(n) = tabla[pid][n]
  BY <1>4, <1>6
<1>9. \A m \in Marcos : m \in Int
  BY MarcosEsta
<1> QED BY <1>7, <1>8, <1>9

\* UsaTLB leaves the TLB with its types and its entries well.
LEMMA UsaTLBBien ==
  ASSUME IInv, pid \in Pids, NEW n \in Pag(pid), UsaTLB(n)
  PROVE  /\ tlb' \in [1..config.ENTRADAS_TLB -> EntradaTLB]
         /\ Bien(tlb', tabla, estado)
         /\ uso' \in [clave : PaginasTodas \cup {<<>>}, veces : Nat]
<1>1. PICK E \in Nat : E = config.ENTRADAS_TLB
  BY ConfigEsta DEF IInv
<1>2. tlb \in [1..E -> EntradaTLB] /\ Bien(tlb, tabla, estado) /\ Ninguno \notin Pids
  BY <1>1, PaginasConstantesOK DEF IInv, TiposCPU, EntradasBien
<1>3. n \in Int
  BY PagEsta
<1>4. PICK m : m = Marco(n)
  OBVIOUS
<1>5. m = tabla[pid][n] /\ m \in Int
  BY <1>4, MarcoEsta
<1>6. estado[pid] \in {"READY", "EXEC"}
  BY DEF IInv, TiposMemoria
<1>7. PICK t : t = TLBTrasVictima(n)
  OBVIOUS
<1>8. t = tlb \/ t = actualizar_tlb(tlb, n, pid, m)
  BY <1>4, <1>7 DEF TLBTrasVictima
<1>9. t \in [1..E -> EntradaTLB] /\ Bien(t, tabla, estado)
  BY <1>2, <1>3, <1>5, <1>6, <1>8, TLBTras
<1>10. tlb' = actualizar_tlb(t, n, pid, m)
  BY <1>4, <1>7 DEF UsaTLB
<1>11. tlb' \in [1..E -> EntradaTLB] /\ Bien(tlb', tabla, estado)
  BY <1>2, <1>3, <1>5, <1>6, <1>9, <1>10, TLBTras
<1>12. uso' \in [clave : PaginasTodas \cup {<<>>}, veces : Nat]
  <2>1. uso' = uso \/ uso' = [clave |-> <<pid, n>>, veces |-> uso.veces + 1]
    BY DEF UsaTLB
  <2>2. <<pid, n>> \in PaginasTodas /\ uso \in [clave : PaginasTodas \cup {<<>>}, veces : Nat]
    BY DEF PaginasTodas, IInv, TiposHistoria
  <2> QED BY <2>1, <2>2
<1> QED BY <1>1, <1>11, <1>12

\* actualizar_cache leaves the cache with its types and its entries well, and the
\* frames with pages in them.
LEMMA CacheBien ==
  ASSUME IInv, pid \in Pids, NEW n \in Pag(pid), NEW des \in Celdas, NEW nuevo \in Contenido,
         NEW modificado \in BOOLEAN, config.ENTRADAS_CACHE > 0,
         actualizar_cache(n, des, nuevo, modificado, Marco(n))
  PROVE  /\ cache' \in [1..config.ENTRADAS_CACHE -> EntradaCache]
         /\ Bien(cache', tabla, estado)
         /\ \A i \in DOMAIN cache' : cache'[i].pid = Ninguno => ~cache'[i].modificado
         /\ ~desaloja => \A i \in DOMAIN cache' : cache'[i].pid \in {pid, Ninguno}
         /\ espacio' \in [Marcos -> Contenido]
         /\ \E v \in DOMAIN cache, w \in EntradaCache :
              Cambia(n, des, nuevo, modificado, Marco(n), v, w)
<1>1. PICK E \in Nat : E = config.ENTRADAS_CACHE /\ E # 0
  BY ConfigEsta DEF IInv
<1>2. /\ cache \in [1..E -> EntradaCache] /\ Bien(cache, tabla, estado) /\ Ninguno \notin Pids
      /\ espacio \in [Marcos -> Contenido]
      /\ \A i \in 1..E : cache[i].pid = Ninguno => ~cache[i].modificado
  BY <1>1, PaginasConstantesOK DEF IInv, TiposCPU, TiposMemoria, EntradasBien
<1>3. n \in Int
  BY PagEsta
<1>4. PICK m : m = Marco(n)
  OBVIOUS
<1>5. m = tabla[pid][n] /\ m \in Marcos
  BY <1>4, MarcoEsta
<1>6. actualizar_cache(n, des, nuevo, modificado, m)
  BY <1>4
<1>7. /\ cache' \in [1..E -> EntradaCache]
      /\ \E v \in 1..E, w \in EntradaCache : Cambia(n, des, nuevo, modificado, m, v, w)
  BY <1>1, <1>2, <1>3, <1>5, <1>6, CacheTras
<1>8. PICK v \in 1..E, w \in EntradaCache : Cambia(n, des, nuevo, modificado, m, v, w)
  BY <1>7
<1>9. w.pid = pid /\ w.nro_pagina = n /\ w.marco = m /\ Pone(cache, cache', v, w)
      /\ \A i \in DOMAIN cache \ {v} : ~(cache[i].pid = pid /\ cache[i].nro_pagina = n)
  BY <1>8 DEF Cambia
<1>10. Carga(cache, cache', v, n, pid, tabla[pid][n])
  BY <1>5, <1>9 DEF Pone, Misma, Carga
<1>11. Bien(cache', tabla, estado)
  <2>1. estado[pid] \in {"READY", "EXEC"}
    BY DEF IInv, TiposMemoria
  <2> QED BY <1>2, <1>10, <2>1, CargaBien
<1>12. \A i \in 1..E : (i = v /\ cache'[i].pid = pid)
                       \/ (cache'[i].pid = cache[i].pid
                           /\ cache'[i].modificado = cache[i].modificado)
  BY <1>2, <1>9 DEF Pone, Misma
<1>13. \A i \in DOMAIN cache' : cache'[i].pid = Ninguno => ~cache'[i].modificado
  BY <1>2, <1>7, <1>12
<1>14. ~desaloja => \A i \in DOMAIN cache' : cache'[i].pid \in {pid, Ninguno}
  <2>1. ~desaloja => \A i \in DOMAIN cache : cache[i].pid \in {pid, Ninguno}
    BY DEF IInv, EntradasBien
  <2> QED BY <1>2, <1>7, <1>12, <2>1
<1>15. espacio' \in [Marcos -> Contenido]
  <2>1. espacio' = espacio \/ espacio' = EscribeEn(v)
    BY <1>8 DEF Cambia
  <2>2. cache[v].contenido \in Contenido
    BY <1>2 DEF EntradaCache
  <2>3. ComoString(cache[v].contenido) \in Contenido
    BY <2>2, ComoStringEsta
  <2>4. EscribeEn(v) \in [Marcos -> Contenido]
    BY <1>2, <2>3 DEF EscribeEn
  <2> QED BY <1>2, <2>1, <2>4
<1> QED BY <1>1, <1>2, <1>4, <1>7, <1>8, <1>11, <1>13, <1>14, <1>15

\* WRITE preserves the invariant.
LEMMA writeIInv ==
  ASSUME IInv, pid \in Pids, NEW n \in Pag(pid), NEW des \in Celdas, NEW dato \in Datos,
         ejecutar_write(n, des, dato)
  PROVE  IInv'
<1>1. UNCHANGED <<config, desaloja, archivo, pid, estado, tabla>>
      /\ instrucciones < MaxInstrucciones /\ instrucciones' = instrucciones + 1
  BY DEF ejecutar_write, Ejecuta
<1>2. /\ tlb' \in [1..config.ENTRADAS_TLB -> EntradaTLB]
      /\ Bien(tlb', tabla, estado)
      /\ uso' \in [clave : PaginasTodas \cup {<<>>}, veces : Nat]
  <2>1. (tlb' = tlb /\ uso' = uso) \/ UsaTLB(n)
    BY DEF ejecutar_write
  <2>2. /\ tlb \in [1..config.ENTRADAS_TLB -> EntradaTLB] /\ Bien(tlb, tabla, estado)
        /\ uso \in [clave : PaginasTodas \cup {<<>>}, veces : Nat]
    BY DEF IInv, TiposCPU, TiposHistoria, EntradasBien
  <2> QED BY <2>1, <2>2, UsaTLBBien
<1>3. /\ cache' \in [1..config.ENTRADAS_CACHE -> EntradaCache]
      /\ Bien(cache', tabla, estado)
      /\ \A i \in DOMAIN cache' : cache'[i].pid = Ninguno => ~cache'[i].modificado
      /\ ~desaloja => \A i \in DOMAIN cache' : cache'[i].pid \in {pid, Ninguno}
      /\ espacio' \in [Marcos -> Contenido]
  <2>1. CASE config.ENTRADAS_CACHE > 0
    <3>1. actualizar_cache(n, des, Texto(dato), TRUE, Marco(n))
      BY <2>1 DEF ejecutar_write
    <3> QED BY <2>1, <3>1, TextoEsta, CacheBien
  <2>2. CASE ~(config.ENTRADAS_CACHE > 0)
    <3>1. espacio' = [espacio EXCEPT ![Marco(n)][des] = dato] /\ cache' = cache
      BY <2>2 DEF ejecutar_write
    <3>2. Marco(n) \in Marcos
      BY MarcoEsta
    <3>3. espacio \in [Marcos -> Contenido]
      BY DEF IInv, TiposMemoria
    <3>4. [espacio[Marco(n)] EXCEPT ![des] = dato] \in Contenido
      BY <3>2, <3>3 DEF Contenido
    <3>5. espacio' \in [Marcos -> Contenido]
      BY <3>1, <3>3, <3>4
    <3> QED BY <3>1, <3>5 DEF IInv, TiposCPU, EntradasBien
  <2> QED BY <2>1, <2>2
<1>4. TiposCPU'
  <2>1. instrucciones' \in 0..MaxInstrucciones
    BY <1>1, PaginasConstantesOK DEF IInv, TiposCPU
  <2> QED BY <1>1, <1>2, <1>3, <2>1 DEF IInv, TiposCPU
<1>5. TiposMemoria'
  BY <1>1, <1>3 DEF IInv, TiposMemoria
<1>6. TiposHistoria'
  <2>1. /\ programa' = [programa EXCEPT ![pid][n][des] = dato]
        /\ ultima' = [ultima EXCEPT ![pid][n] = des]
    BY DEF ejecutar_write
  <2>2. TiposHistoria
    BY DEF IInv
  <2>3. [programa[pid][n] EXCEPT ![des] = dato] \in Contenido
    BY <2>2 DEF TiposHistoria, Contenido
  <2> QED BY <1>2, <2>1, <2>2, <2>3 DEF TiposHistoria
<1>7. Residentes'
  BY <1>1 DEF IInv, Residentes
<1>8. EntradasBien'
  BY <1>1, <1>2, <1>3 DEF EntradasBien, Bien
<1> QED BY <1>4, <1>5, <1>6, <1>7, <1>8 DEF IInv

\* READ preserves the invariant.
LEMMA readIInv ==
  ASSUME IInv, pid \in Pids, NEW n \in Pag(pid), NEW des \in Celdas, ejecutar_read(n, des)
  PROVE  IInv'
<1>1. UNCHANGED <<config, desaloja, archivo, pid, estado, tabla, programa, ultima>>
      /\ instrucciones < MaxInstrucciones /\ instrucciones' = instrucciones + 1
  BY DEF ejecutar_read, Ejecuta
<1>2. /\ tlb' \in [1..config.ENTRADAS_TLB -> EntradaTLB]
      /\ Bien(tlb', tabla, estado)
      /\ uso' \in [clave : PaginasTodas \cup {<<>>}, veces : Nat]
  <2>1. (tlb' = tlb /\ uso' = uso) \/ UsaTLB(n)
    BY DEF ejecutar_read
  <2>2. /\ tlb \in [1..config.ENTRADAS_TLB -> EntradaTLB] /\ Bien(tlb, tabla, estado)
        /\ uso \in [clave : PaginasTodas \cup {<<>>}, veces : Nat]
    BY DEF IInv, TiposCPU, TiposHistoria, EntradasBien
  <2> QED BY <2>1, <2>2, UsaTLBBien
<1>3. /\ cache' \in [1..config.ENTRADAS_CACHE -> EntradaCache]
      /\ Bien(cache', tabla, estado)
      /\ \A i \in DOMAIN cache' : cache'[i].pid = Ninguno => ~cache'[i].modificado
      /\ ~desaloja => \A i \in DOMAIN cache' : cache'[i].pid \in {pid, Ninguno}
      /\ espacio' \in [Marcos -> Contenido]
  <2>1. \/ cache' = cache /\ espacio' = espacio
        \/ /\ config.ENTRADAS_CACHE > 0
           /\ actualizar_cache(n, des, espacio[Marco(n)], FALSE, Marco(n))
    BY DEF ejecutar_read
  <2>2. espacio \in [Marcos -> Contenido]
    BY DEF IInv, TiposMemoria
  <2>3. CASE cache' = cache /\ espacio' = espacio
    BY <2>2, <2>3 DEF IInv, TiposCPU, EntradasBien
  <2>4. CASE /\ config.ENTRADAS_CACHE > 0
             /\ actualizar_cache(n, des, espacio[Marco(n)], FALSE, Marco(n))
    <3>1. espacio[Marco(n)] \in Contenido
      BY <2>2, MarcoEsta
    <3> QED BY <2>4, <3>1, CacheBien
  <2> QED BY <2>1, <2>3, <2>4
<1>4. TiposCPU'
  <2>1. instrucciones' \in 0..MaxInstrucciones
    BY <1>1, PaginasConstantesOK DEF IInv, TiposCPU
  <2> QED BY <1>1, <1>2, <1>3, <2>1 DEF IInv, TiposCPU
<1>5. TiposMemoria'
  BY <1>1, <1>3 DEF IInv, TiposMemoria
<1>6. TiposHistoria'
  BY <1>1, <1>2 DEF IInv, TiposHistoria
<1>7. Residentes'
  BY <1>1 DEF IInv, Residentes
<1>8. EntradasBien'
  BY <1>1, <1>2, <1>3 DEF EntradasBien, Bien
<1> QED BY <1>4, <1>5, <1>6, <1>7, <1>8 DEF IInv

-----------------------------------------------------------------------------
(* The steps that empty the CPU, and those of the kernel and the memory.     *)

\* desalojar_proceso writes to each frame the page of a dirty entry of it.
LEMMA VaciarEsta ==
  ASSUME IInv, desalojar_proceso_cache
  PROVE  /\ espacio' = [m \in Marcos |-> espacio'[m]]
         /\ \A m \in Marcos :
              \/ /\ \A i \in DOMAIN cache : cache[i].marco = m => ~cache[i].modificado
                 /\ espacio'[m] = espacio[m]
              \/ \E i \in DOMAIN cache :
                   /\ cache[i].modificado /\ cache[i].marco = m
                   /\ espacio'[m] = ComoString(cache[i].contenido)
         /\ cache' = [i \in DOMAIN cache |-> CacheVacia]
<1>1. PICK E \in Nat : E = config.ENTRADAS_CACHE
  BY ConfigEsta DEF IInv
<1>2. cache \in [1..E -> EntradaCache]
  BY <1>1 DEF IInv, TiposCPU
<1> DEFINE sucias(m) == {i \in DOMAIN cache \ Limpias(cache) : cache[i].marco = m}
<1>3. /\ espacio' = [m \in Marcos |-> IF sucias(m) = {} THEN espacio[m]
                                      ELSE ComoString(cache[Max(sucias(m))].contenido)]
      /\ cache' = [i \in DOMAIN cache |-> CacheVacia]
  BY DEF desalojar_proceso_cache
<1>4. ASSUME NEW m \in Marcos
      PROVE  \/ /\ \A i \in DOMAIN cache : cache[i].marco = m => ~cache[i].modificado
                /\ espacio'[m] = espacio[m]
             \/ \E i \in DOMAIN cache :
                  /\ cache[i].modificado /\ cache[i].marco = m
                  /\ espacio'[m] = ComoString(cache[i].contenido)
  <2>1. PICK S : S = sucias(m)
    OBVIOUS
  <2>2. espacio'[m] = IF S = {} THEN espacio[m] ELSE ComoString(cache[Max(S)].contenido)
    BY <1>3, <2>1
  <2>3. \A i : i \in S <=> i \in DOMAIN cache /\ cache[i].modificado /\ cache[i].marco = m
    BY <2>1 DEF Limpias
  <2>4. CASE S = {}
    BY <2>2, <2>3, <2>4
  <2>5. CASE S # {}
    <3>1. IsFiniteSet(1..E)
      BY FS_Interval
    <3>2. S \in SUBSET (1..E) /\ S \in SUBSET Int
      BY <1>2, <2>3
    <3>3. Max(S) \in S
      BY <2>5, <3>1, <3>2, FS_Subset, MaxEsta
    <3> QED BY <2>2, <2>3, <2>5, <3>3
  <2> QED BY <2>4, <2>5
<1>5. espacio' = [m \in Marcos |-> espacio'[m]]
  BY <1>3
<1> HIDE DEF sucias
<1> QED BY <1>3, <1>4, <1>5

\* IO, DUMP_MEMORY and EXIT, which write the dirty pages back and empty the TLB and
\* the cache, preserve the invariant.
LEMMA desalojarIInv ==
  ASSUME IInv, pid \in Pids, NEW destino \in {"BLOCKED", "EXIT"}, desalojar_proceso(destino)
  PROVE  IInv'
<1>1. /\ UNCHANGED <<config, desaloja, archivo, programa, ultima, uso>> /\ pid' = Ninguno
      /\ instrucciones < MaxInstrucciones /\ instrucciones' = instrucciones + 1
      /\ estado' = [estado EXCEPT ![pid] = destino]
      /\ tabla' = IF destino = "EXIT" THEN SinTabla(pid) ELSE tabla
      /\ tlb' = [i \in DOMAIN tlb |-> TLBVacia]
  BY DEF desalojar_proceso, Ejecuta, desalojar_proceso_tlb
<1>2. /\ espacio' = [m \in Marcos |-> espacio'[m]]
      /\ \A m \in Marcos :
           \/ espacio'[m] = espacio[m]
           \/ \E i \in DOMAIN cache : espacio'[m] = ComoString(cache[i].contenido)
      /\ cache' = [i \in DOMAIN cache |-> CacheVacia]
  BY VaciarEsta DEF desalojar_proceso
<1>3. TLBVacia \in EntradaTLB /\ CacheVacia \in EntradaCache
  BY CerosEsta DEF TLBVacia, CacheVacia, EntradaTLB, EntradaCache, SinMarco
<1>4. TiposCPU'
  <2>1. TiposCPU
    BY DEF IInv
  <2>2. instrucciones' \in 0..MaxInstrucciones
    BY <1>1, <2>1, PaginasConstantesOK DEF TiposCPU
  <2>3. tlb' \in [1..config.ENTRADAS_TLB -> EntradaTLB]
        /\ cache' \in [1..config.ENTRADAS_CACHE -> EntradaCache]
    BY <1>1, <1>2, <1>3, <2>1 DEF TiposCPU
  <2> QED BY <1>1, <2>1, <2>2, <2>3 DEF TiposCPU
<1>5. TiposMemoria
  BY DEF IInv
<1>6. TiposMemoria'
  <2>1. espacio' \in [Marcos -> Contenido]
    <3>1. ASSUME NEW m \in Marcos PROVE espacio'[m] \in Contenido
      <4>1. CASE espacio'[m] = espacio[m]
        BY <1>5, <4>1 DEF TiposMemoria
      <4>2. ASSUME NEW i \in DOMAIN cache, espacio'[m] = ComoString(cache[i].contenido)
            PROVE  espacio'[m] \in Contenido
        <5>1. cache[i].contenido \in Contenido
          BY DEF IInv, TiposCPU, EntradaCache
        <5> QED BY <4>2, <5>1, ComoStringEsta
      <4> QED BY <1>2, <4>1, <4>2
    <3> QED BY <1>2, <3>1
  <2>2. \A p \in Pids : estado'[p] \in Estados /\ (estado'[p] = "EXEC" <=> pid' = p)
    BY <1>1, <1>5, PaginasConstantesOK DEF TiposMemoria, Estados
  <2>3. DOMAIN tabla' = Pids /\ \A p \in Pids : tabla'[p] \in [Pag(p) -> Marcos \cup {SinMarco}]
    BY <1>1, <1>5 DEF TiposMemoria, SinTabla
  <2> QED BY <1>1, <1>5, <2>1, <2>2, <2>3 DEF TiposMemoria
<1>7. TiposHistoria'
  BY <1>1 DEF IInv, TiposHistoria
<1>8. Residentes'
  <2>1. \A p \in Pids : estado'[p] \in {"READY", "EXEC", "BLOCKED"} =>
          /\ tabla'[p] = tabla[p]
          /\ estado[p] \in {"READY", "EXEC", "BLOCKED"}
    BY <1>1, <1>5 DEF TiposMemoria, SinTabla
  <2>2. \A p \in Pids : \A n \in Pag(p) : tabla'[p][n] \in {tabla[p][n], SinMarco}
    BY <1>1, <1>5 DEF TiposMemoria, SinTabla
  <2> QED BY <2>1, <2>2 DEF IInv, Residentes
<1>9. EntradasBien'
  BY <1>1, <1>2 DEF EntradasBien, Bien, TLBVacia, CacheVacia
<1> QED BY <1>4, <1>6, <1>7, <1>8, <1>9 DEF IInv

\* Sending a process to the idle CPU preserves the invariant.
LEMMA ContextoIInv ==
  ASSUME IInv, NEW p \in Pids, Contexto(p)
  PROVE  IInv'
<1>1. UNCHANGED <<config, desaloja, tlb, cache, instrucciones, programa, ultima, uso, tabla, espacio,
                  archivo>>
      /\ pid = Ninguno /\ estado[p] = "READY" /\ pid' = p
      /\ estado' = [estado EXCEPT ![p] = "EXEC"]
  BY DEF Contexto, SinTocarPaginas
<1>2. TiposCPU'
  BY <1>1 DEF IInv, TiposCPU
<1>3. TiposMemoria'
  BY <1>1, PaginasConstantesOK DEF IInv, TiposMemoria, Estados
<1>4. TiposHistoria'
  BY <1>1 DEF IInv, TiposHistoria
<1>5. \A q \in Pids : (estado'[q] \in {"READY", "EXEC"} <=> estado[q] \in {"READY", "EXEC"})
                      /\ (estado'[q] = "BLOCKED" <=> estado[q] = "BLOCKED")
  BY <1>1 DEF IInv, TiposMemoria
<1>6. Residentes'
  BY <1>1, <1>5 DEF IInv, Residentes
<1>7. EntradasBien'
  <2>1. Bien(tlb, tabla, estado') /\ Bien(cache, tabla, estado')
    BY <1>5 DEF IInv, EntradasBien, Bien
  <2> QED BY <1>1, <2>1 DEF IInv, EntradasBien
<1> QED BY <1>2, <1>3, <1>4, <1>6, <1>7 DEF IInv

\* Changing the process of the CPU for another, which keeps the entries of both in
\* the TLB and in the cache, preserves the invariant.
LEMMA check_interruptIInv ==
  ASSUME IInv, NEW p \in Pids, check_interrupt(p)
  PROVE  IInv'
<1>1. UNCHANGED <<config, desaloja, tlb, cache, instrucciones, programa, ultima, uso, tabla, espacio,
                  archivo>>
      /\ desaloja /\ pid # Ninguno /\ estado[p] = "READY" /\ pid' = p
      /\ estado' = [estado EXCEPT ![p] = "EXEC", ![pid] = "READY"]
  BY DEF check_interrupt, SinTocarPaginas
<1>2. TiposCPU'
  BY <1>1 DEF IInv, TiposCPU
<1>3. pid \in Pids /\ estado[pid] = "EXEC" /\ p # pid
  BY <1>1 DEF IInv, TiposCPU, TiposMemoria
<1>4. TiposMemoria'
  BY <1>1, <1>3, PaginasConstantesOK DEF IInv, TiposMemoria, Estados
<1>5. TiposHistoria'
  BY <1>1 DEF IInv, TiposHistoria
<1>6. \A q \in Pids : (estado'[q] \in {"READY", "EXEC"} <=> estado[q] \in {"READY", "EXEC"})
                      /\ (estado'[q] = "BLOCKED" <=> estado[q] = "BLOCKED")
  BY <1>1, <1>3 DEF IInv, TiposMemoria
<1>7. Residentes'
  <2>1. \A q \in Pids : estado'[q] \in {"READY", "EXEC", "BLOCKED"} =>
          estado[q] \in {"READY", "EXEC", "BLOCKED"}
    BY <1>6
  <2>2. tabla' = tabla /\ Residentes
    BY <1>1 DEF IInv
  <2> QED BY <2>1, <2>2 DEF Residentes
<1>8. EntradasBien'
  <2>1. Bien(tlb, tabla, estado') /\ Bien(cache, tabla, estado')
    BY <1>6 DEF IInv, EntradasBien, Bien
  <2> QED BY <1>1, <2>1 DEF IInv, EntradasBien
<1> QED BY <1>2, <1>4, <1>5, <1>7, <1>8 DEF IInv

\* The end of a wait preserves the invariant.
LEMMA DesbloquearIInv ==
  ASSUME IInv, NEW p \in Pids, Desbloquear(p)
  PROVE  IInv'
<1>1. UNCHANGED <<config, desaloja, pid, tlb, cache, instrucciones, programa, ultima, uso, tabla,
                  espacio, archivo>>
      /\ estado[p] = "BLOCKED" /\ estado' = [estado EXCEPT ![p] = "READY"]
  BY DEF Desbloquear, SinTocarPaginas
<1>2. TiposCPU'
  BY <1>1 DEF IInv, TiposCPU
<1>3. TiposMemoria'
  BY <1>1 DEF IInv, TiposMemoria, Estados
<1>4. TiposHistoria'
  BY <1>1 DEF IInv, TiposHistoria
<1>5. Residentes'
  BY <1>1 DEF IInv, Residentes, TiposMemoria
<1>6. EntradasBien'
  <2>1. \A q \in Pids : estado[q] \in {"READY", "EXEC"} => estado'[q] \in {"READY", "EXEC"}
    BY <1>1 DEF IInv, TiposMemoria
  <2>2. Bien(tlb, tabla, estado') /\ Bien(cache, tabla, estado')
    BY <2>1 DEF IInv, EntradasBien, Bien
  <2> QED BY <1>1, <2>2 DEF IInv, EntradasBien
<1> QED BY <1>2, <1>3, <1>4, <1>5, <1>6 DEF IInv

\* A suspension, which takes the frames of a process with no entry, preserves the
\* invariant.
LEMMA SuspenderIInv ==
  ASSUME IInv, NEW p \in Pids, Suspender(p)
  PROVE  IInv'
<1>1. UNCHANGED <<config, desaloja, pid, tlb, cache, instrucciones, programa, ultima, uso,
                 espacio>>
      /\ estado[p] = "BLOCKED" /\ estado' = [estado EXCEPT ![p] = "SUSP"]
      /\ archivo' = [archivo EXCEPT ![p] = [n \in Pag(p) |-> espacio[tabla[p][n]]]]
      /\ tabla' = SinTabla(p)
  BY DEF Suspender, SinTocarPaginas
<1>2. TiposCPU'
  BY <1>1 DEF IInv, TiposCPU
<1>3. TiposMemoria /\ Residentes
  BY DEF IInv
<1>4. TiposMemoria'
  <2>1. \A n \in Pag(p) : tabla[p][n] \in Marcos
    BY <1>1, <1>3 DEF Residentes
  <2>2. [n \in Pag(p) |-> espacio[tabla[p][n]]] \in [Pag(p) -> Contenido]
    BY <1>3, <2>1 DEF TiposMemoria
  <2>3. DOMAIN archivo' = Pids /\ \A q \in Pids : archivo'[q] \in [Pag(q) -> Contenido]
    BY <1>1, <1>3, <2>2 DEF TiposMemoria
  <2>4. DOMAIN tabla' = Pids /\ \A q \in Pids : tabla'[q] \in [Pag(q) -> Marcos \cup {SinMarco}]
    BY <1>1, <1>3 DEF TiposMemoria, SinTabla
  <2>5. estado' \in [Pids -> Estados]
        /\ \A q \in Pids : estado'[q] \in Estados /\ (estado'[q] = "EXEC" <=> pid' = q)
    BY <1>1, <1>3 DEF TiposMemoria, Estados
  <2> QED BY <1>1, <1>3, <2>3, <2>4, <2>5 DEF TiposMemoria
<1>5. TiposHistoria'
  BY <1>1 DEF IInv, TiposHistoria
<1>6. Residentes'
  <2>1. \A q \in Pids : estado'[q] \in {"READY", "EXEC", "BLOCKED"} =>
          tabla'[q] = tabla[q] /\ estado[q] \in {"READY", "EXEC", "BLOCKED"}
    BY <1>1, <1>3 DEF TiposMemoria, SinTabla
  <2>2. \A q \in Pids : \A n \in Pag(q) : tabla'[q][n] \in {tabla[q][n], SinMarco}
    BY <1>1, <1>3 DEF TiposMemoria, SinTabla
  <2> QED BY <1>3, <2>1, <2>2 DEF Residentes
<1>7. EntradasBien'
  <2>1. \A q \in Pids : estado[q] \in {"READY", "EXEC"} =>
          estado'[q] \in {"READY", "EXEC"} /\ tabla'[q] = tabla[q]
    BY <1>1, <1>3 DEF TiposMemoria, SinTabla
  <2>2. Bien(tlb, tabla', estado') /\ Bien(cache, tabla', estado')
    BY <2>1 DEF IInv, EntradasBien, Bien
  <2> QED BY <1>1, <2>2 DEF IInv, EntradasBien
<1> QED BY <1>2, <1>4, <1>5, <1>6, <1>7 DEF IInv

\* A process that comes back gets free frames, a different one for each page.
LEMMA NuevaEsta ==
  ASSUME TiposMemoria, NEW p \in Pids, Cardinality(Libres) >= CantPaginas[p],
         NEW nueva, nueva = [n \in Pag(p) |->
                               CHOOSE m \in Libres : Cardinality({k \in Libres : k < m}) = n]
  PROVE  /\ Libres \subseteq Marcos
         /\ nueva \in [Pag(p) -> Libres]
         /\ \A n, k \in Pag(p) : nueva[n] = nueva[k] => n = k
<1>1. PICK D : D = Libres
  OBVIOUS
<1>2. D \in SUBSET Marcos
  BY <1>1 DEF Libres
<1>3. IsFiniteSet(D) /\ D \in SUBSET Nat
  <2>1. PICK b \in Int : b = CantMarcos - 1
    BY PaginasConstantesOK
  <2>2. 0 \in Int /\ Marcos = 0..b
    BY <2>1 DEF Marcos
  <2>3. IsFiniteSet(0..b)
    BY <2>2, FS_Interval, Zenon
  <2>4. IsFiniteSet(D)
    BY <1>2, <2>2, <2>3, FS_Subset
  <2> QED BY <1>2, <2>4, MarcosEsta
<1> DEFINE H == [m \in D |-> {k \in D : k < m}]
<1>4. OrdenTotal(D, H)
  <2>1. \A i, j \in D : i \in H[j] <=> i < j
    OBVIOUS
  <2>2. \A i \in D : H[i] \in SUBSET D
    OBVIOUS
  <2>3. \A i \in D : i \in Nat
    BY <1>3
  <2> HIDE DEF H
  <2>4. \A i \in D : i \notin H[i]
    BY <2>1, <2>3
  <2>5. \A i, j \in D : i # j => i \in H[j] \/ j \in H[i]
    BY <2>1, <2>3
  <2>6. \A i, j \in D : i \in H[j] => H[i] \subseteq H[j]
    BY <2>1, <2>2, <2>3
  <2> QED BY <2>2, <2>4, <2>5, <2>6 DEF OrdenTotal
<1>5. PICK N \in Nat : N = Cardinality(D)
  BY <1>3, FS_CardinalityType
<1>6. \A n \in Pag(p) : n \in 0..(N - 1)
  <2>1. PICK M \in Nat : M = CantPaginas[p]
    BY PaginasConstantesOK
  <2> QED BY <1>1, <1>5, <2>1 DEF Pag
<1>7. \A n \in Pag(p) : \E i \in D : Cardinality(H[i]) = n
  <2> TAKE n \in Pag(p)
  <2>1. n \in 0..(Cardinality(D) - 1)
    BY <1>5, <1>6
  <2> HIDE DEF H
  <2>2. UnoSolo(D, H, n)
    BY <1>3, <1>4, <2>1, Rangos
  <2> QED BY <2>2 DEF UnoSolo
<1>8. ASSUME NEW n \in Pag(p) PROVE nueva[n] \in D /\ Cardinality(H[nueva[n]]) = n
  <2>1. PICK i \in D : Cardinality({k \in D : k < i}) = n
    BY <1>7
  <2>2. nueva[n] = CHOOSE m \in D : Cardinality({k \in D : k < m}) = n
    BY <1>1
  <2>3. nueva[n] \in D /\ Cardinality({k \in D : k < nueva[n]}) = n
    BY <2>1, <2>2
  <2> QED BY <2>3
<1>9. nueva \in [Pag(p) -> D]
  BY <1>8
<1>10. \A n, k \in Pag(p) : nueva[n] = nueva[k] => n = k
  <2> HIDE DEF H
  <2> QED BY <1>8
<1> QED BY <1>1, <1>2, <1>9, <1>10

\* What Desuspender does, page by page.
LEMMA DesuspenderTras ==
  ASSUME TiposMemoria, NEW p \in Pids, Desuspender(p)
  PROVE  /\ estado[p] = "SUSP" /\ estado' = [estado EXCEPT ![p] = "READY"]
         /\ tabla' = [tabla EXCEPT ![p] = tabla'[p]]
         /\ tabla'[p] \in [Pag(p) -> Libres] /\ Libres \subseteq Marcos
         /\ \A n, k \in Pag(p) : tabla'[p][n] = tabla'[p][k] => n = k
         /\ espacio' = [m \in Marcos |-> espacio'[m]]
         /\ \A n \in Pag(p) : espacio'[tabla'[p][n]] = archivo[p][n]
         /\ \A m \in Marcos : (\E n \in Pag(p) : tabla'[p][n] = m) \/ espacio'[m] = espacio[m]
         /\ \A m \in Marcos \ Libres : espacio'[m] = espacio[m]
<1>1. PICK nueva : nueva = [n \in Pag(p) |->
                              CHOOSE m \in Libres : Cardinality({k \in Libres : k < m}) = n]
  OBVIOUS
<1>2. /\ estado[p] = "SUSP" /\ Cardinality(Libres) >= CantPaginas[p]
      /\ estado' = [estado EXCEPT ![p] = "READY"]
      /\ tabla' = [tabla EXCEPT ![p] = nueva]
      /\ espacio' = [m \in Marcos |-> IF \E n \in Pag(p) : nueva[n] = m
                                      THEN archivo[p][CHOOSE n \in Pag(p) : nueva[n] = m]
                                      ELSE espacio[m]]
  BY <1>1 DEF Desuspender
<1>3. /\ Libres \subseteq Marcos
      /\ nueva \in [Pag(p) -> Libres]
      /\ \A n, k \in Pag(p) : nueva[n] = nueva[k] => n = k
  BY <1>1, <1>2, NuevaEsta
<1>4. tabla'[p] = nueva
  BY <1>2 DEF TiposMemoria
<1>5. ASSUME NEW n \in Pag(p) PROVE espacio'[nueva[n]] = archivo[p][n]
  <2>1. nueva[n] \in Marcos
    BY <1>3
  <2>2. espacio'[nueva[n]] = archivo[p][CHOOSE k \in Pag(p) : nueva[k] = nueva[n]]
    BY <1>2, <2>1
  <2>3. (CHOOSE k \in Pag(p) : nueva[k] = nueva[n]) = n
    BY <1>3
  <2> QED BY <2>2, <2>3
<1>6. \A m \in Marcos \ Libres : espacio'[m] = espacio[m]
  BY <1>2, <1>3
<1>7. espacio' = [m \in Marcos |-> espacio'[m]]
  BY <1>2
<1>8. \A m \in Marcos : (\E n \in Pag(p) : nueva[n] = m) \/ espacio'[m] = espacio[m]
  BY <1>2
<1>9. tabla' = [tabla EXCEPT ![p] = tabla'[p]]
  BY <1>2, <1>4
<1>10. \A n \in Pag(p) : espacio'[tabla'[p][n]] = archivo[p][n]
  BY <1>4, <1>5
<1>11. \A m \in Marcos : (\E n \in Pag(p) : tabla'[p][n] = m) \/ espacio'[m] = espacio[m]
  BY <1>4, <1>8
<1>12. \A n, k \in Pag(p) : tabla'[p][n] = tabla'[p][k] => n = k
  BY <1>3, <1>4
<1>13. tabla'[p] \in [Pag(p) -> Libres] /\ Libres \subseteq Marcos
  BY <1>3, <1>4
<1>14. estado[p] = "SUSP" /\ estado' = [estado EXCEPT ![p] = "READY"]
  BY <1>2
<1> QED BY <1>6, <1>7, <1>9, <1>10, <1>11, <1>12, <1>13, <1>14

\* The return of a process to free frames preserves the invariant.
LEMMA DesuspenderIInv ==
  ASSUME IInv, NEW p \in Pids, Desuspender(p)
  PROVE  IInv'
<1>1. UNCHANGED <<config, desaloja, pid, tlb, cache, instrucciones, programa, ultima, uso,
                 archivo>>
  BY DEF Desuspender, SinTocarPaginas
<1>2. TiposMemoria /\ Residentes
  BY DEF IInv
<1>3. /\ estado[p] = "SUSP" /\ estado' = [estado EXCEPT ![p] = "READY"]
      /\ tabla' = [tabla EXCEPT ![p] = tabla'[p]]
      /\ tabla'[p] \in [Pag(p) -> Libres] /\ Libres \subseteq Marcos
      /\ \A n, k \in Pag(p) : tabla'[p][n] = tabla'[p][k] => n = k
      /\ espacio' = [m \in Marcos |-> espacio'[m]]
      /\ \A n \in Pag(p) : espacio'[tabla'[p][n]] = archivo[p][n]
      /\ \A m \in Marcos : (\E n \in Pag(p) : tabla'[p][n] = m) \/ espacio'[m] = espacio[m]
      /\ \A m \in Marcos \ Libres : espacio'[m] = espacio[m]
  BY <1>2, DesuspenderTras
<1>4. \A q \in Pids : \A k \in Pag(q) : tabla[q][k] \notin Libres
  BY DEF Libres
<1>5. \A q \in Pids : q # p => tabla'[q] = tabla[q]
  BY <1>2, <1>3 DEF TiposMemoria
<1>6. TiposCPU'
  BY <1>1 DEF IInv, TiposCPU
<1>7. TiposMemoria'
  <2>1. ASSUME NEW m \in Marcos PROVE espacio'[m] \in Contenido
    <3>1. CASE \E n \in Pag(p) : tabla'[p][n] = m
      BY <1>2, <1>3, <3>1 DEF TiposMemoria
    <3>2. CASE ~\E n \in Pag(p) : tabla'[p][n] = m
      <4>1. espacio'[m] = espacio[m]
        BY <1>3, <3>2
      <4> QED BY <1>2, <4>1 DEF TiposMemoria
    <3> QED BY <3>1, <3>2
  <2>2. espacio' \in [Marcos -> Contenido]
    BY <1>3, <2>1
  <2>3. DOMAIN tabla' = Pids /\ \A q \in Pids : tabla'[q] \in [Pag(q) -> Marcos \cup {SinMarco}]
    BY <1>2, <1>3, <1>5 DEF TiposMemoria
  <2>4. estado' \in [Pids -> Estados]
        /\ \A q \in Pids : estado'[q] \in Estados /\ (estado'[q] = "EXEC" <=> pid' = q)
    BY <1>1, <1>2, <1>3 DEF TiposMemoria, Estados
  <2> QED BY <1>1, <1>2, <2>2, <2>3, <2>4 DEF TiposMemoria
<1>8. TiposHistoria'
  BY <1>1 DEF IInv, TiposHistoria
<1>9. Residentes'
  <2>1. ASSUME NEW q \in Pids, estado'[q] \in {"READY", "EXEC", "BLOCKED"}, NEW n \in Pag(q)
        PROVE  tabla'[q][n] \in Marcos
    <3>1. CASE q = p
      BY <1>3, <3>1
    <3>2. CASE q # p
      BY <1>2, <1>3, <1>5, <2>1, <3>2 DEF Residentes, TiposMemoria
    <3> QED BY <3>1, <3>2
  <2>2. ASSUME NEW q \in Pids, NEW r \in Pids, NEW n \in Pag(q), NEW k \in Pag(r),
               tabla'[q][n] = tabla'[r][k], tabla'[q][n] # SinMarco
        PROVE  q = r /\ n = k
    <3>1. CASE q = p /\ r = p
      BY <1>3, <2>2, <3>1
    <3>2. CASE q = p /\ r # p
      BY <1>3, <1>4, <1>5, <2>2, <3>2
    <3>3. CASE q # p /\ r = p
      BY <1>3, <1>4, <1>5, <2>2, <3>3
    <3>4. CASE q # p /\ r # p
      BY <1>2, <1>5, <2>2, <3>4 DEF Residentes
    <3> QED BY <3>1, <3>2, <3>3, <3>4
  <2> QED BY <2>1, <2>2 DEF Residentes
<1>10. EntradasBien'
  <2>1. \A q \in Pids : estado[q] \in {"READY", "EXEC"} =>
          estado'[q] \in {"READY", "EXEC"} /\ tabla'[q] = tabla[q]
    BY <1>2, <1>3, <1>5 DEF TiposMemoria
  <2>2. Bien(tlb, tabla', estado') /\ Bien(cache, tabla', estado')
    BY <2>1 DEF IInv, EntradasBien, Bien
  <2> QED BY <1>1, <2>2 DEF IInv, EntradasBien
<1> QED BY <1>6, <1>7, <1>8, <1>9, <1>10 DEF IInv

\* Every step preserves the invariant.
LEMMA NextIInv == ASSUME IInv, [Next]_vars PROVE IInv'
<1>1. CASE Instruccion
  <2>1. pid \in Pids
    BY <1>1 DEF Instruccion, IInv, TiposCPU
  <2>2. ASSUME NEW n \in Pag(pid), NEW des \in Celdas, ejecutar_read(n, des) PROVE IInv'
    BY <2>1, <2>2, readIInv
  <2>3. ASSUME NEW n \in Pag(pid), NEW des \in Celdas, NEW dato \in Datos,
               ejecutar_write(n, des, dato)
        PROVE  IInv'
    BY <2>1, <2>3, writeIInv
  <2>4. ASSUME NEW destino \in {"BLOCKED", "EXIT"}, desalojar_proceso(destino) PROVE IInv'
    BY <2>1, <2>4, desalojarIInv
  <2> QED BY <1>1, <2>2, <2>3, <2>4 DEF Instruccion
<1>2. CASE \E p \in Pids : Contexto(p) \/ check_interrupt(p) \/ Desbloquear(p)
                           \/ Suspender(p) \/ Desuspender(p)
  BY <1>2, ContextoIInv, check_interruptIInv, DesbloquearIInv, SuspenderIInv, DesuspenderIInv
<1>3. CASE UNCHANGED vars
  <2>1. UNCHANGED <<config, desaloja, pid, tlb, cache, estado, tabla, espacio,
                    archivo, instrucciones, programa, ultima, uso>>
    BY <1>3 DEF vars
  <2>2. TiposCPU' /\ TiposMemoria' /\ TiposHistoria'
    BY <2>1 DEF IInv, TiposCPU, TiposMemoria, TiposHistoria
  <2>3. Residentes' /\ EntradasBien'
    BY <2>1 DEF IInv, Residentes, EntradasBien, Bien
  <2> QED BY <2>2, <2>3 DEF IInv
<1> QED BY <1>1, <1>2, <1>3 DEF Next

\* The invariant holds in every state.
LEMMA SpecIInv == Spec => []IInv
<1>1. Init => IInv
  BY InitIInv
<1>2. IInv /\ [Next]_vars => IInv'
  BY NextIInv
<1> QED BY <1>1, <1>2, PTL DEF Spec

\* Each variable has its type, the process on the CPU is the one in EXEC and
\* every entry of the TLB and of the cache is free or of a page of its process.
THEOREM PaginasTipos == Spec => []PaginasTypeOK
<1>1. ASSUME IInv PROVE PaginasTypeOK
  <2>1. TiposCPU /\ TiposMemoria /\ TiposHistoria /\ EntradasBien
    BY <1>1 DEF IInv
  <2>2. Ninguno \notin Pids
    BY PaginasConstantesOK
  <2>3. \A i \in DOMAIN tlb : tlb[i].pid \in Pids => tlb[i].nro_pagina \in Pag(tlb[i].pid)
    BY <2>1, <2>2 DEF EntradasBien, Bien
  <2>4. \A i \in DOMAIN cache : cache[i].pid \in Pids => cache[i].nro_pagina \in Pag(cache[i].pid)
    BY <2>1, <2>2 DEF EntradasBien, Bien
  <2>5. /\ PorPagina(tabla, Marcos \cup {SinMarco}) /\ PorPagina(archivo, Contenido)
        /\ PorPagina(programa, Contenido) /\ PorPagina(ultima, Celdas \cup {-1})
    BY <2>1 DEF PorPagina, TiposMemoria, TiposHistoria
  <2>6. estado \in [Pids -> Estados] /\ \A p \in Pids : estado[p] = "EXEC" <=> pid = p
    BY <2>1 DEF TiposMemoria
  <2> QED BY <2>1, <2>3, <2>4, <2>5, <2>6
          DEF PaginasTypeOK, TiposCPU, TiposMemoria, TiposHistoria, Estados
<1>2. IInv => PaginasTypeOK
  BY <1>1
<1> QED BY <1>2, SpecIInv, PTL

\* No entry of the TLB or of the cache points to a frame its page no longer has,
\* and no page is in two entries, whatever the kernel suspends, brings back to
\* other frames or takes out of the CPU in between.
THEOREM SoloEntradasVigentes == Spec => []EntradasVigentes
<1>1. IInv => EntradasVigentes
  BY DEF IInv, EntradasBien, Bien, EntradasVigentes, EntradaVigente
<1> QED BY <1>1, SpecIInv, PTL

-----------------------------------------------------------------------------
(* What a program wrote is where it will look for it.                        *)

EsSucia(i, p, n) == cache[i].pid = p /\ cache[i].nro_pagina = n /\ cache[i].modificado

\* The property, page by page and entry by entry.
Llega(p, n) ==
  IF config.ENTRADAS_CACHE = 0 THEN EnMemoria(p, n) = programa[p][n]
  ELSE ultima[p][n] # -1 /\ (config.REEMPLAZO_CACHE = "CLOCK" => ~desaloja) =>
         /\ \A i \in DOMAIN cache : EsSucia(i, p, n) =>
              cache[i].contenido[ultima[p][n]] = programa[p][n][ultima[p][n]]
         /\ (\A i \in DOMAIN cache : ~EsSucia(i, p, n)) /\ ultima[p][n] = 0 =>
              EnMemoria(p, n)[0] = programa[p][n][0]

Llegan == \A p \in Pids : estado[p] # "EXIT" => \A n \in Pag(p) : Llega(p, n)

\* What Llegan says of every page is what the property says of the last cell written.
LEMMA LleganEs == ASSUME IInv, Llegan PROVE UltimaEscrituraLlega
<1> SUFFICES ASSUME NEW p \in Pids, estado[p] # "EXIT", NEW n \in Pag(p),
                    config.ENTRADAS_CACHE # 0, ultima[p][n] # -1,
                    config.REEMPLAZO_CACHE = "CLOCK" => ~desaloja
             PROVE  IF Sucia(p, n)
                    THEN cache[IndiceDe(cache, n, p)].contenido[ultima[p][n]]
                           = programa[p][n][ultima[p][n]]
                    ELSE ultima[p][n] = 0 => EnMemoria(p, n)[0] = programa[p][n][0]
  BY DEF Llegan, Llega, UltimaEscrituraLlega
<1>1. Llega(p, n)
  BY DEF Llegan
<1>2. CASE Sucia(p, n)
  <2>1. PICK i \in DOMAIN cache : EsSucia(i, p, n)
    BY <1>2 DEF Sucia, EsSucia
  <2>2. PICK E \in Nat : DOMAIN cache = 1..E
    BY ConfigEsta DEF IInv, TiposCPU
  <2>3. PICK j : j = IndiceDe(cache, n, p)
    OBVIOUS
  <2>4. j \in DOMAIN cache /\ cache[j].nro_pagina = n /\ cache[j].pid = p
    BY <2>1, <2>2, <2>3, IndiceDeEsta DEF EsSucia
  <2>5. p # Ninguno
    BY PaginasConstantesOK
  <2>6. i = j
    BY <2>1, <2>4, <2>5 DEF IInv, EntradasBien, Bien, EsSucia
  <2> QED BY <1>1, <1>2, <2>1, <2>3, <2>6 DEF Llega
<1>3. CASE ~Sucia(p, n)
  BY <1>1, <1>3 DEF Llega, Sucia, EsSucia
<1> QED BY <1>2, <1>3

\* A page whose dirty entry, or lack of one, and contents in memory stay.
LEMMA LlegaIgual ==
  ASSUME NEW p, NEW n, Llega(p, n), UNCHANGED <<config, desaloja>>,
         programa'[p][n] = programa[p][n], ultima'[p][n] = ultima[p][n],
         EnMemoria(p, n)' = EnMemoria(p, n),
         \A i \in DOMAIN cache' : EsSucia(i, p, n)' =>
           i \in DOMAIN cache /\ EsSucia(i, p, n) /\ cache'[i].contenido = cache[i].contenido,
         (\A i \in DOMAIN cache' : ~EsSucia(i, p, n)') =>
           \A i \in DOMAIN cache : ~EsSucia(i, p, n)
  PROVE  Llega(p, n)'
<1>1. PICK e1, e2 : e1 = EnMemoria(p, n) /\ e2 = EnMemoria(p, n)'
  OBVIOUS
<1>2. Llega(p, n)' <=>
        IF config'.ENTRADAS_CACHE = 0 THEN EnMemoria(p, n)' = programa'[p][n]
        ELSE ultima'[p][n] # -1 /\ (config'.REEMPLAZO_CACHE = "CLOCK" => ~desaloja') =>
               /\ \A i \in DOMAIN cache' : EsSucia(i, p, n)' =>
                    cache'[i].contenido[ultima'[p][n]] = programa'[p][n][ultima'[p][n]]
               /\ (\A i \in DOMAIN cache' : ~EsSucia(i, p, n)') /\ ultima'[p][n] = 0 =>
                    EnMemoria(p, n)'[0] = programa'[p][n][0]
  BY DEF Llega
<1> QED BY <1>2 DEF Llega

\* At first every page is zeroed in its frame and nothing was written.
LEMMA LlegaInit == ASSUME Init PROVE Llegan
<1>1. \A p \in Pids : \A n \in Pag(p) : EnMemoria(p, n) = Ceros \/ ~(tabla[p][n] \in Marcos)
  BY DEF Init, EnMemoria
<1>2. \A p \in Pids : \A n \in Pag(p) : tabla[p][n] \in Marcos
  <2>1. IInv
    BY InitIInv
  <2> QED BY <2>1 DEF Init, IInv, Residentes
<1>3. \A p \in Pids : \A n \in Pag(p) : programa[p][n] = Ceros /\ ultima[p][n] = -1
  BY DEF Init
<1> QED BY <1>1, <1>2, <1>3 DEF Llegan, Llega

\* Taking, giving back and unblocking a process move no page.
LEMMA LlegaSinMover ==
  ASSUME IInv, Llegan,
         UNCHANGED <<config, desaloja, cache, tabla, espacio, archivo, programa, ultima>>,
         \A p \in Pids : (estado'[p] = "EXIT" <=> estado[p] = "EXIT")
                         /\ (estado'[p] = "SUSP" <=> estado[p] = "SUSP")
  PROVE  Llegan'
<1> SUFFICES ASSUME NEW p \in Pids, estado'[p] # "EXIT", NEW n \in Pag(p) PROVE Llega(p, n)'
  BY DEF Llegan
<1>1. Llega(p, n)
  BY DEF Llegan
<1>2. EnMemoria(p, n)' = EnMemoria(p, n)
  BY DEF EnMemoria
<1>3. \A i : EsSucia(i, p, n)' = EsSucia(i, p, n)
  BY DEF EsSucia
<1> QED BY <1>1, <1>2, <1>3, LlegaIgual

\* The steps of the kernel that move no page keep every write.
LEMMA LlegaKernel ==
  ASSUME IInv, Llegan, NEW p \in Pids, Contexto(p) \/ check_interrupt(p) \/ Desbloquear(p)
  PROVE  Llegan'
<1>1. UNCHANGED <<config, desaloja, cache, tabla, espacio, archivo, programa, ultima>>
  BY DEF Contexto, check_interrupt, Desbloquear, SinTocarPaginas
<1>2. TiposCPU /\ TiposMemoria
  BY DEF IInv
<1>3. \A q \in Pids : (estado'[q] = "EXIT" <=> estado[q] = "EXIT")
                      /\ (estado'[q] = "SUSP" <=> estado[q] = "SUSP")
  <2>1. CASE Contexto(p)
    BY <1>2, <2>1 DEF Contexto, TiposMemoria
  <2>2. CASE check_interrupt(p)
    BY <1>2, <2>2 DEF check_interrupt, TiposMemoria, TiposCPU
  <2>3. CASE Desbloquear(p)
    BY <1>2, <2>3 DEF Desbloquear, TiposMemoria
  <2> QED BY <2>1, <2>2, <2>3
<1> QED BY <1>1, <1>3, LlegaSinMover

\* A suspension takes to the file what the frames hold.
LEMMA LlegaSuspender ==
  ASSUME IInv, Llegan, NEW q \in Pids, Suspender(q)
  PROVE  Llegan'
<1>1. UNCHANGED <<config, desaloja, cache, espacio, programa, ultima>>
      /\ estado[q] = "BLOCKED" /\ estado' = [estado EXCEPT ![q] = "SUSP"]
      /\ archivo' = [archivo EXCEPT ![q] = [n \in Pag(q) |-> espacio[tabla[q][n]]]]
      /\ tabla' = SinTabla(q)
  BY DEF Suspender, SinTocarPaginas
<1>2. TiposMemoria
  BY DEF IInv
<1> SUFFICES ASSUME NEW p \in Pids, estado'[p] # "EXIT", NEW n \in Pag(p) PROVE Llega(p, n)'
  BY DEF Llegan
<1>3. Llega(p, n)
  BY <1>1, <1>2 DEF Llegan, TiposMemoria
<1>4. EnMemoria(p, n)' = EnMemoria(p, n)
  <2>1. CASE p = q
    BY <1>1, <1>2, <2>1 DEF EnMemoria, TiposMemoria
  <2>2. CASE p # q
    BY <1>1, <1>2, <2>2 DEF EnMemoria, TiposMemoria, SinTabla
  <2> QED BY <2>1, <2>2
<1>5. \A i : EsSucia(i, p, n)' = EsSucia(i, p, n)
  BY <1>1 DEF EsSucia
<1> QED BY <1>1, <1>3, <1>4, <1>5, LlegaIgual

\* A return takes to the new frames what the file holds.
LEMMA LlegaDesuspender ==
  ASSUME IInv, Llegan, NEW q \in Pids, Desuspender(q)
  PROVE  Llegan'
<1>1. UNCHANGED <<config, desaloja, cache, archivo, programa, ultima>>
  BY DEF Desuspender, SinTocarPaginas
<1>2. TiposMemoria /\ Residentes
  BY DEF IInv
<1>3. /\ estado[q] = "SUSP" /\ estado' = [estado EXCEPT ![q] = "READY"]
      /\ tabla' = [tabla EXCEPT ![q] = tabla'[q]]
      /\ \A n \in Pag(q) : espacio'[tabla'[q][n]] = archivo[q][n]
      /\ \A m \in Marcos \ Libres : espacio'[m] = espacio[m]
  BY <1>2, DesuspenderTras
<1> SUFFICES ASSUME NEW p \in Pids, estado'[p] # "EXIT", NEW n \in Pag(p) PROVE Llega(p, n)'
  BY DEF Llegan
<1>4. Llega(p, n)
  BY <1>2, <1>3 DEF Llegan, TiposMemoria
<1>5. EnMemoria(p, n)' = EnMemoria(p, n)
  <2>1. CASE p = q
    <3>1. estado'[q] = "READY"
      BY <1>2, <1>3 DEF TiposMemoria
    <3> QED BY <1>3, <2>1, <3>1 DEF EnMemoria
  <2>2. CASE p # q
    <3>1. estado'[p] = estado[p] /\ tabla'[p] = tabla[p]
      BY <1>2, <1>3, <2>2 DEF TiposMemoria
    <3>2. CASE estado[p] = "SUSP"
      BY <1>1, <3>1, <3>2 DEF EnMemoria
    <3>3. CASE estado[p] # "SUSP"
      <4>1. estado[p] \in {"READY", "EXEC", "BLOCKED"}
        BY <1>2, <3>1, <3>3 DEF TiposMemoria, Estados
      <4>2. tabla[p][n] \in Marcos
        BY <1>2, <4>1 DEF Residentes
      <4>3. tabla[p][n] \notin Libres
        BY DEF Libres
      <4> QED BY <1>3, <3>1, <3>3, <4>2, <4>3 DEF EnMemoria
    <3> QED BY <3>2, <3>3
  <2> QED BY <2>1, <2>2
<1>6. \A i : EsSucia(i, p, n)' = EsSucia(i, p, n)
  BY <1>1 DEF EsSucia
<1> QED BY <1>1, <1>4, <1>5, <1>6, LlegaIgual

-----------------------------------------------------------------------------
(* The steps of the CPU.                                                     *)

\* An entry in use is of a page whose frame no other page has.
LEMMA DeQuienEs ==
  ASSUME IInv, NEW i \in DOMAIN cache, cache[i].pid # Ninguno
  PROVE  /\ cache[i].pid \in Pids /\ cache[i].nro_pagina \in Pag(cache[i].pid)
         /\ estado[cache[i].pid] \in {"READY", "EXEC"}
         /\ cache[i].marco = tabla[cache[i].pid][cache[i].nro_pagina]
         /\ cache[i].marco \in Marcos
         /\ \A p \in Pids : \A n \in Pag(p) : tabla[p][n] = cache[i].marco =>
              p = cache[i].pid /\ n = cache[i].nro_pagina
<1>1. /\ cache[i].pid \in Pids /\ cache[i].nro_pagina \in Pag(cache[i].pid)
      /\ estado[cache[i].pid] \in {"READY", "EXEC"}
      /\ cache[i].marco = tabla[cache[i].pid][cache[i].nro_pagina]
  BY DEF IInv, EntradasBien, Bien
<1>2. cache[i].marco \in Marcos
  BY <1>1 DEF IInv, Residentes
<1>3. cache[i].marco # SinMarco
  BY <1>2, MarcosEsta
<1> QED BY <1>1, <1>2, <1>3 DEF IInv, Residentes

\* A page in the cache is there once.
LEMMA UnaSola ==
  ASSUME IInv, NEW i \in DOMAIN cache, NEW j \in DOMAIN cache, cache[i].pid # Ninguno,
         cache[j].pid = cache[i].pid, cache[j].nro_pagina = cache[i].nro_pagina
  PROVE  i = j
BY DEF IInv, EntradasBien, Bien

\* Where the pages of a process that is not suspended are.
LEMMA EnSuMarco ==
  ASSUME IInv, NEW p \in Pids, estado[p] \notin {"EXIT", "SUSP"}, NEW n \in Pag(p)
  PROVE  /\ tabla[p][n] \in Marcos /\ EnMemoria(p, n) = espacio[tabla[p][n]]
         /\ \A q \in Pids : \A k \in Pag(q) : tabla[q][k] = tabla[p][n] => q = p /\ k = n
<1>1. tabla[p][n] \in Marcos
  BY DEF IInv, TiposMemoria, Estados, Residentes
<1>2. tabla[p][n] # SinMarco
  BY <1>1, MarcosEsta
<1> QED BY <1>1, <1>2 DEF IInv, Residentes, EnMemoria

\* desalojar_proceso: what was dirty is now in its frame.
LEMMA LlegaDesalojar ==
  ASSUME IInv, Llegan, pid \in Pids, NEW destino \in {"BLOCKED", "EXIT"},
         desalojar_proceso(destino)
  PROVE  Llegan'
<1>1. /\ UNCHANGED <<config, desaloja, archivo, programa, ultima>>
      /\ estado' = [estado EXCEPT ![pid] = destino]
      /\ tabla' = IF destino = "EXIT" THEN SinTabla(pid) ELSE tabla
  BY DEF desalojar_proceso, Ejecuta
<1>2. /\ \A m \in Marcos :
           \/ /\ \A i \in DOMAIN cache : cache[i].marco = m => ~cache[i].modificado
              /\ espacio'[m] = espacio[m]
           \/ \E i \in DOMAIN cache :
                /\ cache[i].modificado /\ cache[i].marco = m
                /\ espacio'[m] = ComoString(cache[i].contenido)
      /\ cache' = [i \in DOMAIN cache |-> CacheVacia]
  BY VaciarEsta DEF desalojar_proceso
<1>3. TiposMemoria /\ TiposCPU /\ EntradasBien
  BY DEF IInv
<1> SUFFICES ASSUME NEW p \in Pids, estado'[p] # "EXIT", NEW n \in Pag(p) PROVE Llega(p, n)'
  BY DEF Llegan
<1>4. estado[p] # "EXIT" /\ tabla'[p] = tabla[p] /\ (estado'[p] = "SUSP" <=> estado[p] = "SUSP")
  BY <1>1, <1>3 DEF TiposMemoria, SinTabla
<1>5. Llega(p, n)
  BY <1>4 DEF Llegan
<1>6. \A i \in DOMAIN cache' : ~EsSucia(i, p, n)'
  BY <1>2 DEF EsSucia, CacheVacia
<1>7. CASE estado[p] = "SUSP"
  <2>1. EnMemoria(p, n)' = EnMemoria(p, n)
    BY <1>1, <1>4, <1>7 DEF EnMemoria
  <2>2. \A i \in DOMAIN cache : ~EsSucia(i, p, n)
    <3>1. ASSUME NEW i \in DOMAIN cache, EsSucia(i, p, n) PROVE FALSE
      <4>1. cache[i].pid = p /\ p # Ninguno
        BY <3>1, PaginasConstantesOK DEF EsSucia
      <4> QED BY <1>7, <4>1, DeQuienEs
    <3> QED BY <3>1
  <2> QED BY <1>1, <1>5, <1>6, <2>1, <2>2, LlegaIgual
<1>8. CASE estado[p] # "SUSP"
  <2>1. /\ tabla[p][n] \in Marcos /\ EnMemoria(p, n) = espacio[tabla[p][n]]
        /\ \A q \in Pids : \A k \in Pag(q) : tabla[q][k] = tabla[p][n] => q = p /\ k = n
    BY <1>4, <1>8, EnSuMarco
  <2>2. EnMemoria(p, n)' = espacio'[tabla[p][n]]
    BY <1>4, <1>8 DEF EnMemoria
  <2>3. ASSUME NEW i \in DOMAIN cache, cache[i].modificado, cache[i].marco = tabla[p][n]
        PROVE  EsSucia(i, p, n)
    <3>1. cache[i].pid # Ninguno
      BY <2>3 DEF IInv, EntradasBien
    <3> QED BY <2>1, <2>3, <3>1, DeQuienEs DEF EsSucia
  <2>4. CASE \A i \in DOMAIN cache : ~EsSucia(i, p, n)
    <3>1. EnMemoria(p, n)' = EnMemoria(p, n)
      BY <1>2, <2>1, <2>2, <2>3, <2>4
    <3> QED BY <1>1, <1>5, <1>6, <2>4, <3>1, LlegaIgual
  <2>5. ASSUME NEW i \in DOMAIN cache, EsSucia(i, p, n) PROVE Llega(p, n)'
    <3>1. cache[i].pid = p /\ cache[i].nro_pagina = n /\ cache[i].modificado /\ p # Ninguno
      BY <2>5, PaginasConstantesOK DEF EsSucia
    <3>2. cache[i].marco = tabla[p][n]
      BY <3>1, DeQuienEs
    <3>3. PICK j \in DOMAIN cache :
            /\ cache[j].modificado /\ cache[j].marco = tabla[p][n]
            /\ espacio'[tabla[p][n]] = ComoString(cache[j].contenido)
      BY <1>2, <2>1, <3>1, <3>2
    <3>4. EsSucia(j, p, n)
      BY <2>3, <3>3
    <3>5. cache[j].contenido \in Contenido
      BY <1>3 DEF TiposCPU, EntradaCache
    <3>6. EnMemoria(p, n)'[0] = cache[j].contenido[0]
      BY <2>2, <3>3, <3>5, ComoStringEsta
    <3>7. config.ENTRADAS_CACHE # 0
      <4>1. DOMAIN cache = 1..config.ENTRADAS_CACHE
        BY <1>3 DEF TiposCPU
      <4> QED BY <2>5, <4>1
    <3>8. ASSUME ultima[p][n] # -1, config.REEMPLAZO_CACHE = "CLOCK" => ~desaloja,
                 ultima[p][n] = 0
          PROVE  EnMemoria(p, n)'[0] = programa[p][n][0]
      BY <1>5, <3>4, <3>6, <3>7, <3>8 DEF Llega
    <3>9. PICK e : e = EnMemoria(p, n)'
      OBVIOUS
    <3>10. Llega(p, n)' <=>
             IF config'.ENTRADAS_CACHE = 0 THEN EnMemoria(p, n)' = programa'[p][n]
             ELSE ultima'[p][n] # -1 /\ (config'.REEMPLAZO_CACHE = "CLOCK" => ~desaloja') =>
                    /\ \A k \in DOMAIN cache' : EsSucia(k, p, n)' =>
                         cache'[k].contenido[ultima'[p][n]] = programa'[p][n][ultima'[p][n]]
                    /\ (\A k \in DOMAIN cache' : ~EsSucia(k, p, n)') /\ ultima'[p][n] = 0 =>
                         EnMemoria(p, n)'[0] = programa'[p][n][0]
      BY DEF Llega
    <3> QED BY <1>1, <1>6, <3>7, <3>8, <3>10
  <2> QED BY <2>4, <2>5
<1> QED BY <1>7, <1>8

\* Loading a page in the cache: the pages that are not that one.
LEMMA LlegaOtra ==
  ASSUME IInv, Llegan, pid \in Pids, NEW n \in Pag(pid), NEW des, NEW nuevo, NEW modificado,
         NEW v \in DOMAIN cache, NEW w, Cambia(n, des, nuevo, modificado, Marco(n), v, w),
         UNCHANGED <<config, desaloja, archivo, estado, tabla, pid>>,
         NEW p \in Pids, estado[p] # "EXIT", NEW k \in Pag(p), ~(p = pid /\ k = n),
         programa'[p][k] = programa[p][k], ultima'[p][k] = ultima[p][k]
  PROVE  Llega(p, k)'
<1>1. Llega(p, k) /\ p # Ninguno
  BY PaginasConstantesOK DEF Llegan
<1>2. w.pid = pid /\ w.nro_pagina = n
      /\ (espacio' = espacio \/ (espacio' = EscribeEn(v) /\ cache[v].modificado))
      /\ (/\ cache[v].modificado /\ ~(cache[v].pid = pid /\ cache[v].nro_pagina = n)
          /\ config.REEMPLAZO_CACHE = "CLOCK" => cache[v].nro_pagina # n
          => espacio' = EscribeEn(v))
  BY DEF Cambia
<1>3. /\ DOMAIN cache' = DOMAIN cache
      /\ cache'[v].pid = pid /\ cache'[v].nro_pagina = n
      /\ \A i \in DOMAIN cache \ {v} :
           /\ cache'[i].pid = cache[i].pid /\ cache'[i].nro_pagina = cache[i].nro_pagina
           /\ cache'[i].contenido = cache[i].contenido
           /\ cache'[i].modificado = cache[i].modificado
  BY DEF Cambia, Pone, Misma
<1>4. \A i \in DOMAIN cache' : EsSucia(i, p, k)' =>
        i # v /\ EsSucia(i, p, k) /\ cache'[i].contenido = cache[i].contenido
  BY <1>3 DEF EsSucia
<1>5. \A i \in DOMAIN cache : i # v /\ EsSucia(i, p, k) => EsSucia(i, p, k)'
  BY <1>3 DEF EsSucia
<1>6. cache[v].modificado => cache[v].pid # Ninguno
  BY DEF IInv, EntradasBien
<1>7. cache[v].contenido \in Contenido
  BY DEF IInv, TiposCPU, EntradaCache
<1>8. DOMAIN espacio = Marcos
  BY DEF IInv, TiposMemoria
<1>9. CASE EsSucia(v, p, k)
  <2>1. cache[v].pid = p /\ cache[v].nro_pagina = k /\ cache[v].modificado
    BY <1>9 DEF EsSucia
  <2>2. \A i \in DOMAIN cache' : ~EsSucia(i, p, k)'
    BY <1>1, <1>3, <1>4, <2>1, UnaSola DEF EsSucia
  <2>3. config.ENTRADAS_CACHE # 0
    <3>1. DOMAIN cache = 1..config.ENTRADAS_CACHE
      BY DEF IInv, TiposCPU
    <3> QED BY <3>1
  <2>4. ASSUME config.REEMPLAZO_CACHE = "CLOCK" => ~desaloja, ultima[p][k] = 0
        PROVE  EnMemoria(p, k)'[0] = programa[p][k][0]
    <3>1. config.REEMPLAZO_CACHE = "CLOCK" => k # n
      <4>1. ~desaloja => cache[v].pid \in {pid, Ninguno}
        BY DEF IInv, EntradasBien
      <4> QED BY <1>1, <2>1, <2>4, <4>1
    <3>2. espacio' = EscribeEn(v)
      BY <1>2, <2>1, <3>1
    <3>3. estado[p] \in {"READY", "EXEC"} /\ cache[v].marco = tabla[p][k]
          /\ cache[v].marco \in Marcos
      BY <1>1, <2>1, DeQuienEs
    <3>4. espacio'[tabla[p][k]] = ComoString(cache[v].contenido)
      BY <1>8, <3>2, <3>3 DEF EscribeEn
    <3>5. EnMemoria(p, k)' = ComoString(cache[v].contenido)
      BY <3>3, <3>4 DEF EnMemoria
    <3>6. EnMemoria(p, k)'[0] = cache[v].contenido[0]
      BY <1>7, <3>5, ComoStringEsta
    <3> QED BY <1>1, <1>9, <2>3, <2>4, <3>6 DEF Llega
  <2>5. Llega(p, k)' <=>
          IF config'.ENTRADAS_CACHE = 0 THEN EnMemoria(p, k)' = programa'[p][k]
          ELSE ultima'[p][k] # -1 /\ (config'.REEMPLAZO_CACHE = "CLOCK" => ~desaloja') =>
                 /\ \A i \in DOMAIN cache' : EsSucia(i, p, k)' =>
                      cache'[i].contenido[ultima'[p][k]] = programa'[p][k][ultima'[p][k]]
                 /\ (\A i \in DOMAIN cache' : ~EsSucia(i, p, k)') /\ ultima'[p][k] = 0 =>
                      EnMemoria(p, k)'[0] = programa'[p][k][0]
    BY DEF Llega
  <2> QED BY <2>2, <2>3, <2>4, <2>5
<1>10. CASE ~EsSucia(v, p, k)
  <2>1. EnMemoria(p, k)' = EnMemoria(p, k)
    <3>1. CASE espacio' = espacio \/ estado[p] = "SUSP"
      BY <3>1 DEF EnMemoria
    <3>2. CASE espacio' = EscribeEn(v) /\ cache[v].modificado /\ estado[p] # "SUSP"
      <4>1. /\ tabla[p][k] \in Marcos
            /\ EnMemoria(p, k) = espacio[tabla[p][k]]
        BY <3>2, EnSuMarco
      <4>2. tabla[p][k] # cache[v].marco
        BY <1>6, <1>10, <3>2, DeQuienEs DEF EsSucia
      <4>3. espacio'[tabla[p][k]] = espacio[tabla[p][k]]
        BY <3>2, <4>2 DEF EscribeEn
      <4>4. EnMemoria(p, k)' = espacio'[tabla[p][k]]
        BY <3>2 DEF EnMemoria
      <4> QED BY <4>1, <4>3, <4>4
    <3> QED BY <1>2, <3>1, <3>2
  <2>2. (\A i \in DOMAIN cache' : ~EsSucia(i, p, k)') => \A i \in DOMAIN cache : ~EsSucia(i, p, k)
    BY <1>3, <1>5, <1>10
  <2>3. \A i \in DOMAIN cache' : EsSucia(i, p, k)' =>
          i \in DOMAIN cache /\ EsSucia(i, p, k) /\ cache'[i].contenido = cache[i].contenido
    BY <1>3, <1>4
  <2> QED BY <1>1, <2>1, <2>2, <2>3, LlegaIgual
<1> QED BY <1>9, <1>10

\* READ and WRITE with a cache.
LEMMA LlegaCarga ==
  ASSUME IInv, Llegan, pid \in Pids, NEW n \in Pag(pid), NEW des \in Celdas,
         config.ENTRADAS_CACHE > 0, NEW nuevo \in Contenido, NEW modificado \in BOOLEAN,
         actualizar_cache(n, des, nuevo, modificado, Marco(n)),
         UNCHANGED <<config, desaloja, archivo, estado, tabla, pid>>,
         \A p \in Pids : \A k \in Pag(p) : ~(p = pid /\ k = n) =>
           programa'[p][k] = programa[p][k] /\ ultima'[p][k] = ultima[p][k],
         \/ /\ modificado /\ ultima'[pid][n] = des
            /\ \A base \in Contenido : Copia(base, des, nuevo)[des] = programa'[pid][n][des]
         \/ /\ ~modificado /\ IndiceDe(cache, n, pid) = 0
            /\ programa'[pid][n] = programa[pid][n] /\ ultima'[pid][n] = ultima[pid][n]
  PROVE  Llegan'
<1>1. PICK v \in DOMAIN cache, w \in EntradaCache :
        Cambia(n, des, nuevo, modificado, Marco(n), v, w)
  BY CacheBien
<1>2. config.ENTRADAS_CACHE # 0 /\ config.ENTRADAS_CACHE \in Nat
  BY ConfigEsta DEF IInv
<1>3. estado[pid] = "EXEC" /\ pid # Ninguno
  BY PaginasConstantesOK DEF IInv, TiposMemoria
<1>4. /\ DOMAIN cache' = DOMAIN cache
      /\ cache'[v].pid = pid /\ cache'[v].nro_pagina = n /\ cache'[v].modificado = modificado
      /\ \E base \in Contenido : cache'[v].contenido = Copia(base, des, nuevo)
      /\ \A i \in DOMAIN cache \ {v} :
           /\ cache'[i].pid = cache[i].pid /\ cache'[i].nro_pagina = cache[i].nro_pagina
           /\ ~(cache[i].pid = pid /\ cache[i].nro_pagina = n)
      /\ (espacio' = espacio \/ (espacio' = EscribeEn(v) /\ cache[v].modificado))
  BY <1>1 DEF Cambia, Pone, Misma
<1>5. \A i \in DOMAIN cache' : EsSucia(i, pid, n)' => i = v /\ modificado
  <2> SUFFICES ASSUME NEW i \in DOMAIN cache', EsSucia(i, pid, n)' PROVE i = v /\ modificado
    OBVIOUS
  <2>1. i = v
    BY <1>4 DEF EsSucia
  <2>2. cache'[i].modificado
    BY DEF EsSucia
  <2> QED BY <1>4, <2>1, <2>2
<1>6. Llega(pid, n)
  BY <1>3 DEF Llegan
<1>7. Llega(pid, n)'
  <2>1. CASE /\ modificado /\ ultima'[pid][n] = des
             /\ \A base \in Contenido : Copia(base, des, nuevo)[des] = programa'[pid][n][des]
    <3>1. cache'[v].contenido[des] = programa'[pid][n][des]
      BY <1>4, <2>1
    <3>2. EsSucia(v, pid, n)'
      BY <1>3, <1>4, <2>1 DEF EsSucia
    <3> QED BY <1>2, <1>4, <1>5, <2>1, <3>1, <3>2 DEF Llega
  <2>2. CASE /\ ~modificado /\ IndiceDe(cache, n, pid) = 0
             /\ programa'[pid][n] = programa[pid][n] /\ ultima'[pid][n] = ultima[pid][n]
    <3>1. \A i \in DOMAIN cache : ~(cache[i].nro_pagina = n /\ cache[i].pid = pid)
      <4>1. DOMAIN cache = 1..config.ENTRADAS_CACHE
        BY DEF IInv, TiposCPU
      <4> QED BY <1>2, <2>2, <4>1, IndiceDeEsta
    <3>2. \A i \in DOMAIN cache : ~EsSucia(i, pid, n)
      BY <3>1 DEF EsSucia
    <3>3. EnMemoria(pid, n)' = EnMemoria(pid, n)
      <4>1. /\ tabla[pid][n] \in Marcos
            /\ EnMemoria(pid, n) = espacio[tabla[pid][n]]
        BY <1>3, EnSuMarco
      <4>2. EnMemoria(pid, n)' = espacio'[tabla[pid][n]]
        BY <1>3 DEF EnMemoria
      <4>3. CASE espacio' = espacio
        BY <4>1, <4>2, <4>3
      <4>4. CASE espacio' = EscribeEn(v) /\ cache[v].modificado
        <5>1. cache[v].pid # Ninguno
          BY <4>4 DEF IInv, EntradasBien
        <5>2. tabla[pid][n] # cache[v].marco
          BY <3>1, <5>1, DeQuienEs
        <5>3. espacio'[tabla[pid][n]] = espacio[tabla[pid][n]]
          BY <4>4, <5>2 DEF EscribeEn
        <5> QED BY <4>1, <4>2, <5>3
      <4> QED BY <1>4, <4>3, <4>4
    <3> QED BY <1>5, <1>6, <2>2, <3>2, <3>3, LlegaIgual
  <2> QED BY <2>1, <2>2
<1>8. ASSUME NEW p \in Pids, estado[p] # "EXIT", NEW k \in Pag(p), ~(p = pid /\ k = n)
      PROVE  Llega(p, k)'
  BY <1>1, <1>8, LlegaOtra
<1> QED BY <1>7, <1>8 DEF Llegan

\* WRITE.
LEMMA LlegaWrite ==
  ASSUME IInv, Llegan, pid \in Pids, NEW n \in Pag(pid), NEW des \in Celdas, NEW dato \in Datos,
         ejecutar_write(n, des, dato)
  PROVE  Llegan'
<1>1. /\ UNCHANGED <<config, desaloja, archivo, estado, tabla, pid>>
      /\ programa' = [programa EXCEPT ![pid][n][des] = dato]
      /\ ultima' = [ultima EXCEPT ![pid][n] = des]
  BY DEF ejecutar_write, Ejecuta
<1>2. TiposHistoria /\ TiposMemoria
  BY DEF IInv
<1>3. /\ \A p \in Pids : \A k \in Pag(p) : ~(p = pid /\ k = n) =>
           programa'[p][k] = programa[p][k] /\ ultima'[p][k] = ultima[p][k]
      /\ programa'[pid][n] = [programa[pid][n] EXCEPT ![des] = dato]
      /\ ultima'[pid][n] = des
  BY <1>1, <1>2 DEF TiposHistoria
<1>4. programa'[pid][n][des] = dato
  BY <1>2, <1>3 DEF TiposHistoria, Contenido
<1>5. CASE config.ENTRADAS_CACHE > 0
  <2>1. actualizar_cache(n, des, Texto(dato), TRUE, Marco(n))
    BY <1>5 DEF ejecutar_write
  <2>2. /\ Texto(dato) \in Contenido
        /\ \A base \in Contenido : Copia(base, des, Texto(dato))[des] = programa'[pid][n][des]
    BY <1>4, TextoEsta
  <2> QED BY <1>1, <1>3, <1>5, <2>1, <2>2, LlegaCarga
<1>6. CASE ~(config.ENTRADAS_CACHE > 0)
  <2>1. config.ENTRADAS_CACHE = 0
    BY <1>6, ConfigEsta DEF IInv
  <2>2. PICK m : m = tabla[pid][n]
    OBVIOUS
  <2>3. espacio' = [espacio EXCEPT ![m][des] = dato]
    BY <1>6, <2>2, MarcoEsta DEF ejecutar_write
  <2>4. estado[pid] = "EXEC"
    BY <1>2 DEF TiposMemoria
  <2>5. /\ m \in Marcos /\ EnMemoria(pid, n) = espacio[m]
        /\ \A q \in Pids : \A k \in Pag(q) : tabla[q][k] = m => q = pid /\ k = n
    BY <2>2, <2>4, EnSuMarco
  <2>6. espacio'[m] = [espacio[m] EXCEPT ![des] = dato]
        /\ \A x \in Marcos : x # m => espacio'[x] = espacio[x]
    BY <1>2, <2>3, <2>5 DEF TiposMemoria
  <2>7. ASSUME NEW p \in Pids, estado[p] # "EXIT", NEW k \in Pag(p)
        PROVE  EnMemoria(p, k)' = programa'[p][k]
    <3>1. EnMemoria(p, k) = programa[p][k]
      BY <2>1, <2>7 DEF Llegan, Llega
    <3>2. CASE p = pid /\ k = n
      <4>1. EnMemoria(p, k)' = espacio'[m]
        BY <1>1, <2>2, <2>4, <3>2 DEF EnMemoria
      <4> QED BY <1>3, <2>5, <2>6, <3>1, <3>2, <4>1
    <3>3. CASE ~(p = pid /\ k = n)
      <4>1. EnMemoria(p, k)' = EnMemoria(p, k)
        <5>1. CASE estado[p] = "SUSP"
          BY <1>1, <5>1 DEF EnMemoria
        <5>2. CASE estado[p] # "SUSP"
          <6>1. tabla[p][k] \in Marcos /\ tabla[p][k] # m /\ EnMemoria(p, k) = espacio[tabla[p][k]]
            BY <2>5, <2>7, <3>3, <5>2, EnSuMarco
          <6> QED BY <1>1, <2>6, <5>2, <6>1 DEF EnMemoria
        <5> QED BY <5>1, <5>2
      <4> QED BY <1>3, <3>1, <3>3, <4>1
    <3> QED BY <3>2, <3>3
  <2> QED BY <1>1, <2>1, <2>7 DEF Llegan, Llega
<1> QED BY <1>5, <1>6

\* READ.
LEMMA LlegaRead ==
  ASSUME IInv, Llegan, pid \in Pids, NEW n \in Pag(pid), NEW des \in Celdas,
         ejecutar_read(n, des)
  PROVE  Llegan'
<1>1. UNCHANGED <<config, desaloja, archivo, estado, tabla, pid, programa, ultima>>
  BY DEF ejecutar_read, Ejecuta
<1>2. \/ cache' = cache /\ espacio' = espacio
      \/ /\ config.ENTRADAS_CACHE > 0 /\ IndiceDe(cache, n, pid) = 0
         /\ actualizar_cache(n, des, espacio[Marco(n)], FALSE, Marco(n))
  BY DEF ejecutar_read
<1>3. CASE cache' = cache /\ espacio' = espacio
  BY <1>1, <1>3, LlegaSinMover
<1>4. CASE /\ config.ENTRADAS_CACHE > 0 /\ IndiceDe(cache, n, pid) = 0
           /\ actualizar_cache(n, des, espacio[Marco(n)], FALSE, Marco(n))
  <2>1. espacio[Marco(n)] \in Contenido
    BY MarcoEsta DEF IInv, TiposMemoria
  <2> QED BY <1>1, <1>4, <2>1, LlegaCarga
<1> QED BY <1>2, <1>3, <1>4

\* Every step keeps every write.
LEMMA LlegaNext == ASSUME IInv, Llegan, [Next]_vars PROVE Llegan'
<1>1. CASE Instruccion
  <2>1. pid \in Pids
    BY <1>1 DEF Instruccion, IInv, TiposCPU
  <2>2. ASSUME NEW n \in Pag(pid), NEW des \in Celdas, ejecutar_read(n, des) PROVE Llegan'
    BY <2>1, <2>2, LlegaRead
  <2>3. ASSUME NEW n \in Pag(pid), NEW des \in Celdas, NEW dato \in Datos,
               ejecutar_write(n, des, dato)
        PROVE  Llegan'
    BY <2>1, <2>3, LlegaWrite
  <2>4. ASSUME NEW destino \in {"BLOCKED", "EXIT"}, desalojar_proceso(destino) PROVE Llegan'
    BY <2>1, <2>4, LlegaDesalojar
  <2> QED BY <1>1, <2>2, <2>3, <2>4 DEF Instruccion
<1>2. ASSUME NEW p \in Pids, \/ Contexto(p) \/ check_interrupt(p) \/ Desbloquear(p)
                             \/ Suspender(p) \/ Desuspender(p)
      PROVE  Llegan'
  BY <1>2, LlegaKernel, LlegaSuspender, LlegaDesuspender
<1>3. CASE UNCHANGED vars
  BY <1>3, LlegaSinMover DEF vars
<1> QED BY <1>1, <1>2, <1>3 DEF Next

\* Without a cache the memory has what each program wrote; with one, what the last
\* WRITE to a page put there is in its dirty entry, or in the memory when the page
\* has none and the WRITE went to its start. It goes through replacements, blocks,
\* swaps and, but for CLOCK, interruptions.
THEOREM EscriturasLlegan == Spec => []UltimaEscrituraLlega
<1>1. Init => IInv /\ Llegan
  BY InitIInv, LlegaInit
<1>2. (IInv /\ Llegan) /\ [Next]_vars => (IInv /\ Llegan)'
  BY NextIInv, LlegaNext
<1>3. IInv /\ Llegan => UltimaEscrituraLlega
  BY LleganEs
<1> QED BY <1>1, <1>2, <1>3, PTL DEF Spec

-----------------------------------------------------------------------------
(* The TLB is a queue: its order is that of the times of its entries.        *)

Usadas(a) == {i \in DOMAIN a : a[i].pid # Ninguno}
Viejas(a, i) == {j \in Usadas(a) : a[j].tiempo > a[i].tiempo}
Clave(a, i) == <<a[i].pid, a[i].nro_pagina>>

EnLugar(a, k) == CHOOSE j \in Usadas(a) : Cardinality(Viejas(a, j)) = k - 1
ColaDe(a) == [k \in 1..Cardinality(Usadas(a)) |-> Clave(a, EnLugar(a, k))]

\* Two entries never have the same time, and none in use has time zero.
Ordenada(a) ==
  /\ \A i \in Usadas(a) : a[i].tiempo >= 1
  /\ \A i, j \in Usadas(a) : a[i].tiempo = a[j].tiempo => i = j

\* No page is in two entries.
Distintas(a) == \A i, j \in Usadas(a) : Clave(a, i) = Clave(a, j) => i = j

\* The entries in use, and the older ones of each, are finitely many.
LEMMA UsadasEsta ==
  ASSUME NEW E \in Nat, NEW a \in [1..E -> EntradaTLB]
  PROVE  /\ IsFiniteSet(Usadas(a)) /\ Usadas(a) \in SUBSET (1..E)
         /\ Cardinality(Usadas(a)) \in Nat
         /\ \A i : /\ Viejas(a, i) \in SUBSET Usadas(a) /\ IsFiniteSet(Viejas(a, i))
                   /\ Cardinality(Viejas(a, i)) \in Nat
         /\ \A i \in Usadas(a) : a[i].tiempo \in Nat /\ Clave(a, i) \in Pids \X Int
<1>1. Usadas(a) \in SUBSET (1..E)
  BY DEF Usadas
<1>2. IsFiniteSet(1..E)
  BY FS_Interval
<1>3. IsFiniteSet(Usadas(a)) /\ Cardinality(Usadas(a)) \in Nat
  BY <1>1, <1>2, FS_Subset, FS_CardinalityType
<1>4. ASSUME NEW i
      PROVE  /\ Viejas(a, i) \in SUBSET Usadas(a) /\ IsFiniteSet(Viejas(a, i))
             /\ Cardinality(Viejas(a, i)) \in Nat
  <2>1. Viejas(a, i) \in SUBSET Usadas(a)
    BY DEF Viejas
  <2> QED BY <1>3, <2>1, FS_Subset, FS_CardinalityType
<1>5. \A i \in Usadas(a) : a[i].tiempo \in Nat /\ Clave(a, i) \in Pids \X Int
  BY DEF Usadas, EntradaTLB, Clave
<1> QED BY <1>1, <1>3, <1>4, <1>5

\* Each place of the queue is that of one entry, the one with as many older
\* entries as places there are before it.
LEMMA ColaDeEsta ==
  ASSUME NEW E \in Nat, NEW a \in [1..E -> EntradaTLB], Ordenada(a)
  PROVE  /\ ColaDe(a) \in Seq(Pids \X Int)
         /\ Len(ColaDe(a)) = Cardinality(Usadas(a))
         /\ \A i \in Usadas(a) :
              /\ Cardinality(Viejas(a, i)) + 1 \in 1..Cardinality(Usadas(a))
              /\ ColaDe(a)[Cardinality(Viejas(a, i)) + 1] = Clave(a, i)
         /\ \A k \in 1..Cardinality(Usadas(a)) :
              \E i \in Usadas(a) : k = Cardinality(Viejas(a, i)) + 1
<1>1. PICK D : D = Usadas(a)
  OBVIOUS
<1>2. PICK N \in Nat : N = Cardinality(D)
  BY <1>1, UsadasEsta
<1>3. PICK H : H = [i \in D |-> Viejas(a, i)]
  OBVIOUS
<1>4. IsFiniteSet(D) /\ \A i \in D : a[i].tiempo \in Nat
  BY <1>1, UsadasEsta
<1>5. OrdenTotal(D, H)
  <2>1. \A i, j \in D : i \in H[j] <=> a[i].tiempo > a[j].tiempo
    BY <1>1, <1>3 DEF Viejas
  <2>2. \A i \in D : H[i] \in SUBSET D
    BY <1>1, <1>3 DEF Viejas
  <2>3. \A i \in D : i \notin H[i]
    BY <1>4, <2>1
  <2>4. \A i, j \in D : i # j => i \in H[j] \/ j \in H[i]
    BY <1>1, <1>4, <2>1 DEF Ordenada
  <2>5. \A i, j \in D : i \in H[j] => H[i] \subseteq H[j]
    BY <1>4, <2>1, <2>2
  <2> QED BY <2>2, <2>3, <2>4, <2>5 DEF OrdenTotal
<1>6. ASSUME NEW k \in 0..(N - 1) PROVE UnoSolo(D, H, k)
  BY <1>2, <1>4, <1>5, <1>6, Rangos
<1>7. \A i \in D : Cardinality(Viejas(a, i)) \in 0..(N - 1)
  <2> TAKE i \in D
  <2>1. Viejas(a, i) \in SUBSET D /\ i \notin Viejas(a, i)
    BY <1>1, <1>4 DEF Viejas
  <2>2. Cardinality(Viejas(a, i)) <= Cardinality(D)
        /\ Cardinality(D) # Cardinality(Viejas(a, i))
    BY <1>4, <2>1, FS_Subset
  <2>3. PICK x \in Nat : x = Cardinality(Viejas(a, i))
    BY UsadasEsta
  <2> QED BY <1>2, <2>2, <2>3
<1>8. ASSUME NEW k \in 1..N
      PROVE  \E i \in D : /\ Cardinality(Viejas(a, i)) = k - 1
                          /\ ColaDe(a)[k] = Clave(a, i)
  <2>1. PICK i \in D : /\ Cardinality(H[i]) = k - 1
                       /\ \A j \in D : Cardinality(H[j]) = k - 1 => j = i
    BY <1>2, <1>6 DEF UnoSolo
  <2>2. PICK c : c = EnLugar(a, k)
    OBVIOUS
  <2>3. c \in D /\ Cardinality(Viejas(a, c)) = k - 1
    BY <1>1, <1>3, <2>1, <2>2 DEF EnLugar
  <2>4. ColaDe(a)[k] = Clave(a, c)
    BY <1>1, <1>2, <2>2 DEF ColaDe
  <2> QED BY <2>3, <2>4
<1>9. ASSUME NEW i \in D PROVE ColaDe(a)[Cardinality(Viejas(a, i)) + 1] = Clave(a, i)
  <2>1. PICK k \in 0..(N - 1) : k = Cardinality(Viejas(a, i))
    BY <1>7
  <2>2. k + 1 \in 1..N /\ (k + 1) - 1 = k
    BY <2>1
  <2>3. PICK j \in D : Cardinality(Viejas(a, j)) = k /\ ColaDe(a)[k + 1] = Clave(a, j)
    BY <1>8, <2>2
  <2>4. UnoSolo(D, H, k)
    BY <1>6
  <2>5. j = i
    BY <1>3, <2>1, <2>3, <2>4 DEF UnoSolo
  <2> QED BY <2>1, <2>3, <2>5
<1>10. DOMAIN ColaDe(a) = 1..N /\ ColaDe(a) \in [1..N -> Pids \X Int]
  <2>1. \A k \in 1..N : ColaDe(a)[k] \in Pids \X Int
    BY <1>1, <1>8, UsadasEsta
  <2>2. DOMAIN ColaDe(a) = 1..N /\ ColaDe(a) = [k \in 1..N |-> ColaDe(a)[k]]
    BY <1>1, <1>2 DEF ColaDe
  <2> QED BY <2>1, <2>2
<1>11. ColaDe(a) \in Seq(Pids \X Int) /\ Len(ColaDe(a)) = N
  BY <1>10, SeqDef, LenProperties
<1>12. \A k \in 1..N : \E i \in D : k = Cardinality(Viejas(a, i)) + 1
  BY <1>7, <1>8
<1>13. \A i \in D : Cardinality(Viejas(a, i)) + 1 \in 1..N
  BY <1>2, <1>7
<1> QED BY <1>1, <1>2, <1>9, <1>11, <1>12, <1>13

\* There is no other such sequence.
LEMMA ColaUnica ==
  ASSUME NEW E \in Nat, NEW a \in [1..E -> EntradaTLB], Ordenada(a),
         NEW s \in Seq(Pids \X Int), Len(s) = Cardinality(Usadas(a)),
         \A i \in Usadas(a) : s[Cardinality(Viejas(a, i)) + 1] = Clave(a, i)
  PROVE  ColaDe(a) = s
<1>1. PICK N \in Nat : N = Cardinality(Usadas(a))
  BY UsadasEsta
<1>2. /\ ColaDe(a) \in Seq(Pids \X Int) /\ Len(ColaDe(a)) = N
      /\ \A i \in Usadas(a) : ColaDe(a)[Cardinality(Viejas(a, i)) + 1] = Clave(a, i)
      /\ \A k \in 1..N : \E i \in Usadas(a) : k = Cardinality(Viejas(a, i)) + 1
  BY <1>1, ColaDeEsta
<1>3. \A k \in 1..N : ColaDe(a)[k] = s[k]
  <2> TAKE k \in 1..N
  <2>1. PICK i \in Usadas(a) : k = Cardinality(Viejas(a, i)) + 1
    BY <1>2
  <2> QED BY <1>2, <2>1
<1> QED BY <1>1, <1>2, <1>3, SeqEqual

\* The entries in use, their keys and their order stay.
Queda(a, b) ==
  /\ Usadas(b) = Usadas(a)
  /\ \A i \in Usadas(a) : Clave(b, i) = Clave(a, i) /\ Viejas(b, i) = Viejas(a, i)

\* Two arrays with the same keys in the same order hold the same queue.
LEMMA ColaQueda ==
  ASSUME NEW E \in Nat, NEW a \in [1..E -> EntradaTLB], NEW b \in [1..E -> EntradaTLB],
         Ordenada(a), Ordenada(b), Queda(a, b)
  PROVE  ColaDe(b) = ColaDe(a)
<1>1. PICK s : s = ColaDe(a)
  OBVIOUS
<1>2. /\ s \in Seq(Pids \X Int) /\ Len(s) = Cardinality(Usadas(a))
      /\ \A i \in Usadas(a) : s[Cardinality(Viejas(a, i)) + 1] = Clave(a, i)
  BY <1>1, ColaDeEsta
<1>3. \A i \in Usadas(b) : s[Cardinality(Viejas(b, i)) + 1] = Clave(b, i)
  BY <1>2 DEF Queda
<1>4. Len(s) = Cardinality(Usadas(b))
  BY <1>2 DEF Queda
<1> QED BY <1>1, <1>2, <1>3, <1>4, ColaUnica

\* Entry v becomes the youngest, with key k; it may have been in use before.
AlFinal(a, b, v, k) ==
  /\ Usadas(b) = Usadas(a) \cup {v}
  /\ Clave(b, v) = k /\ Viejas(b, v) = Usadas(a) \ {v}
  /\ \A i \in Usadas(a) \ {v} :
       Clave(b, i) = Clave(a, i) /\ Viejas(b, i) = Viejas(a, i) \ {v}

\* An entry that comes into use newest of all goes to the end of the queue.
LEMMA ColaAgrega ==
  ASSUME NEW E \in Nat, NEW a \in [1..E -> EntradaTLB], NEW b \in [1..E -> EntradaTLB],
         Ordenada(a), Ordenada(b), NEW v, v \notin Usadas(a), NEW k \in Pids \X Int,
         AlFinal(a, b, v, k)
  PROVE  ColaDe(b) = Append(ColaDe(a), k)
<1>1. PICK s : s = ColaDe(a)
  OBVIOUS
<1>2. PICK N \in Nat : N = Cardinality(Usadas(a))
  BY UsadasEsta
<1>3. /\ s \in Seq(Pids \X Int) /\ Len(s) = N
      /\ \A i \in Usadas(a) : /\ Cardinality(Viejas(a, i)) + 1 \in 1..N
                              /\ s[Cardinality(Viejas(a, i)) + 1] = Clave(a, i)
  BY <1>1, <1>2, ColaDeEsta
<1>4. /\ Append(s, k) \in Seq(Pids \X Int) /\ Len(Append(s, k)) = N + 1
      /\ \A i \in 1..N : Append(s, k)[i] = s[i]
      /\ Append(s, k)[N + 1] = k
  BY <1>3, AppendProperties
<1>5. Cardinality(Usadas(b)) = N + 1
  BY <1>2, UsadasEsta, FS_AddElement DEF AlFinal
<1>6. ASSUME NEW i \in Usadas(b)
      PROVE  Append(s, k)[Cardinality(Viejas(b, i)) + 1] = Clave(b, i)
  <2>1. CASE i = v
    <3>1. Viejas(b, i) = Usadas(a)
      BY <2>1 DEF AlFinal
    <3> QED BY <1>2, <1>4, <2>1, <3>1 DEF AlFinal
  <2>2. CASE i # v
    <3>1. i \in Usadas(a) /\ Clave(b, i) = Clave(a, i)
      BY <2>2 DEF AlFinal
    <3>2. v \notin Viejas(a, i)
      BY DEF Viejas
    <3>3. Viejas(b, i) = Viejas(a, i)
      <4>1. Viejas(b, i) = Viejas(a, i) \ {v}
        BY <2>2, <3>1 DEF AlFinal
      <4> QED BY <3>2, <4>1
    <3>4. PICK r : r = Cardinality(Viejas(a, i)) + 1
      OBVIOUS
    <3>5. r \in 1..N /\ s[r] = Clave(a, i)
      BY <1>3, <3>1, <3>4
    <3> QED BY <1>4, <3>1, <3>3, <3>4, <3>5
  <2> QED BY <2>1, <2>2
<1>7. ColaDe(b) = Append(s, k)
  <2> PICK t : t = Append(s, k)
    OBVIOUS
  <2>1. /\ t \in Seq(Pids \X Int) /\ Len(t) = Cardinality(Usadas(b))
        /\ \A i \in Usadas(b) : t[Cardinality(Viejas(b, i)) + 1] = Clave(b, i)
    BY <1>4, <1>5, <1>6
  <2>2. ColaDe(b) = t
    BY <2>1, ColaUnica
  <2> QED BY <2>2
<1> QED BY <1>1, <1>7

\* An entry in use that becomes the newest leaves its place for the end of the queue.
LEMMA ColaMueve ==
  ASSUME NEW E \in Nat, NEW a \in [1..E -> EntradaTLB], NEW b \in [1..E -> EntradaTLB],
         Ordenada(a), Ordenada(b), NEW v \in Usadas(a), NEW k \in Pids \X Int,
         AlFinal(a, b, v, k)
  PROVE  ColaDe(b) = Append(RemoveAt(ColaDe(a), Cardinality(Viejas(a, v)) + 1), k)
<1>1. PICK s : s = ColaDe(a)
  OBVIOUS
<1>2. PICK N \in Nat : N = Cardinality(Usadas(a))
  BY UsadasEsta
<1>3. /\ s \in Seq(Pids \X Int) /\ Len(s) = N
      /\ \A i \in Usadas(a) : /\ Cardinality(Viejas(a, i)) + 1 \in 1..N
                              /\ s[Cardinality(Viejas(a, i)) + 1] = Clave(a, i)
  BY <1>1, <1>2, ColaDeEsta
<1>4. PICK p \in 1..N : p = Cardinality(Viejas(a, v)) + 1
  BY <1>3
<1>5. PICK q : q = RemoveAt(s, p)
  OBVIOUS
<1>6. /\ q \in Seq(Pids \X Int) /\ Len(q) = N - 1
      /\ \A j \in 1..(N - 1) : q[j] = IF j < p THEN s[j] ELSE s[j + 1]
  BY <1>3, <1>5, RemoveAtPropiedades
<1>7. PICK t : t = Append(q, k)
  OBVIOUS
<1>8. /\ t \in Seq(Pids \X Int) /\ Len(t) = N
      /\ \A i \in 1..(N - 1) : t[i] = q[i]
      /\ t[N] = k
  <2>1. /\ t \in Seq(Pids \X Int) /\ Len(t) = Len(q) + 1
        /\ \A i \in 1..Len(q) : t[i] = q[i]
        /\ t[Len(q) + 1] = k
    BY <1>6, <1>7, AppendProperties
  <2>2. (N - 1) + 1 = N
    OBVIOUS
  <2> QED BY <1>6, <2>1, <2>2
<1>9. Usadas(b) = Usadas(a)
  BY DEF AlFinal
<1>10. \A i \in Usadas(a) : a[i].tiempo \in Nat
  BY UsadasEsta
<1>11. ASSUME NEW i \in Usadas(b) PROVE t[Cardinality(Viejas(b, i)) + 1] = Clave(b, i)
  <2>1. CASE i = v
    <3>1. Viejas(b, i) = Usadas(a) \ {v}
      BY <2>1 DEF AlFinal
    <3>2. Cardinality(Viejas(b, i)) = N - 1
      <4>1. IsFiniteSet(Usadas(a)) /\ v \in Usadas(a)
        BY UsadasEsta
      <4>2. Cardinality(Usadas(a) \ {v}) = Cardinality(Usadas(a)) - 1
        BY <4>1, FS_RemoveElement
      <4> QED BY <1>2, <3>1, <4>2
    <3> QED BY <1>8, <2>1, <3>2 DEF AlFinal
  <2>2. CASE i # v
    <3>1. i \in Usadas(a) /\ Clave(b, i) = Clave(a, i) /\ Viejas(b, i) = Viejas(a, i) \ {v}
      BY <1>9, <2>2 DEF AlFinal
    <3>2. PICK x \in Nat : x = Cardinality(Viejas(a, i))
      BY UsadasEsta
    <3>3. x + 1 \in 1..N /\ s[x + 1] = Clave(a, i)
      BY <1>3, <3>1, <3>2
    <3>4. IsFiniteSet(Viejas(a, i)) /\ IsFiniteSet(Viejas(a, v))
      BY UsadasEsta
    <3>5. PICK y \in Nat : y = Cardinality(Viejas(a, v))
      BY UsadasEsta
    <3>6. CASE v \in Viejas(a, i)
      <4>1. Cardinality(Viejas(b, i)) = x - 1
        <5>1. Cardinality(Viejas(a, i) \ {v}) = Cardinality(Viejas(a, i)) - 1
          BY <3>4, <3>6, FS_RemoveElement
        <5> QED BY <3>1, <3>2, <5>1
      <4>2. Viejas(a, v) \in SUBSET Viejas(a, i) /\ v \notin Viejas(a, v)
        BY <1>10, <3>1, <3>6 DEF Viejas
      <4>3. Cardinality(Viejas(a, v)) <= Cardinality(Viejas(a, i))
            /\ Cardinality(Viejas(a, i)) # Cardinality(Viejas(a, v))
        BY <3>4, <3>6, <4>2, FS_Subset
      <4>4. y < x
        BY <3>2, <3>5, <4>3
      <4>5. x \in 1..(N - 1) /\ ~(x < p)
        BY <1>4, <3>3, <3>5, <4>4
      <4>6. t[x] = s[x + 1]
        BY <1>6, <1>8, <4>5
      <4>7. (x - 1) + 1 = x
        OBVIOUS
      <4> QED BY <3>1, <3>3, <4>1, <4>6, <4>7
    <3>7. CASE v \notin Viejas(a, i)
      <4>1. Viejas(b, i) = Viejas(a, i)
        BY <3>1, <3>7
      <4>2. a[i].tiempo > a[v].tiempo
        BY <1>10, <2>2, <3>1, <3>7 DEF Viejas, Ordenada
      <4>3. Viejas(a, i) \in SUBSET Viejas(a, v) /\ i \in Viejas(a, v) /\ i \notin Viejas(a, i)
        BY <1>10, <3>1, <4>2 DEF Viejas
      <4>4. Cardinality(Viejas(a, i)) <= Cardinality(Viejas(a, v))
            /\ Cardinality(Viejas(a, i)) # Cardinality(Viejas(a, v))
        BY <3>4, <4>3, FS_Subset
      <4>5. x < y
        BY <3>2, <3>5, <4>4
      <4>6. x + 1 \in 1..(N - 1) /\ x + 1 < p
        BY <1>4, <3>5, <4>5
      <4>7. t[x + 1] = s[x + 1]
        BY <1>6, <1>8, <4>6
      <4> QED BY <3>1, <3>2, <3>3, <4>1, <4>7
    <3> QED BY <3>6, <3>7
  <2> QED BY <2>1, <2>2
<1>12. ColaDe(b) = t
  <2>1. Len(t) = Cardinality(Usadas(b))
    BY <1>2, <1>8, <1>9
  <2> QED BY <1>8, <1>11, <2>1, ColaUnica
<1> QED BY <1>1, <1>4, <1>5, <1>7, <1>12

\* What an update of the TLB does to the entries and their times.
Efecto(t, b, v, x, n, p) ==
  /\ b[v].pid = p /\ b[v].nro_pagina = n /\ b[v].tiempo = x + 1
  /\ \A i \in DOMAIN t \ {v} :
       /\ b[i].pid = t[i].pid /\ b[i].nro_pagina = t[i].nro_pagina
       /\ i \in Usadas(t) => b[i].tiempo = t[i].tiempo + 1

\* What an update does to the entry it falls on and to the times of the others.
LEMMA EfectoTLB ==
  ASSUME NEW E \in Nat, NEW t \in [1..E -> EntradaTLB], E # 0, Ninguno \notin Pids,
         NEW n \in Int, NEW p \in Pids, NEW m \in Int,
         NEW b, b = actualizar_tlb(t, n, p, m)
  PROVE  /\ b \in [1..E -> EntradaTLB]
         /\ \E v \in 1..E, x \in Nat :
              /\ v = Lugar(t, n, p)
              /\ x = IF config.REEMPLAZO_TLB = "FIFO" /\ IndiceDe(t, n, p) # 0
                     THEN t[v].tiempo ELSE 0
              /\ Efecto(t, b, v, x, n, p)
<1>1. t # <<>>
  <2>1. 1 \in DOMAIN t
    OBVIOUS
  <2> QED BY <2>1
<1>2. PICK v \in 1..E, x \in Nat : Entra(t, b, v, x, n, p, m)
  BY <1>1, EntraEnTLB
<1>3. PICK u : u = [t EXCEPT ![v] = Traduccion(n, p, m, x)]
  OBVIOUS
<1>4. /\ u[v].pid = p /\ u[v].nro_pagina = n /\ u[v].tiempo = x
      /\ DOMAIN u = 1..E
      /\ \A i \in 1..E \ {v} : u[i] = t[i]
  BY <1>3 DEF Traduccion
<1>5. b = [i \in 1..E |-> IF u[i].pid = Ninguno THEN u[i] ELSE [u[i] EXCEPT !.tiempo = @ + 1]]
  BY <1>2, <1>3, <1>4 DEF Entra, Envejece
<1>6. b \in [1..E -> EntradaTLB]
  BY TLBTras
<1>7. u \in [1..E -> EntradaTLB]
  BY <1>3 DEF Traduccion, EntradaTLB
<1>8. ASSUME NEW i \in 1..E
      PROVE  /\ b[i].pid = u[i].pid /\ b[i].nro_pagina = u[i].nro_pagina
             /\ u[i].pid # Ninguno => b[i].tiempo = u[i].tiempo + 1
  <2>1. u[i] \in EntradaTLB
    BY <1>7
  <2>2. b[i] = IF u[i].pid = Ninguno THEN u[i] ELSE [u[i] EXCEPT !.tiempo = u[i].tiempo + 1]
    BY <1>5
  <2> QED BY <2>1, <2>2 DEF EntradaTLB
<1>9. Efecto(t, b, v, x, n, p)
  BY <1>4, <1>8 DEF Efecto, Usadas
<1> QED BY <1>2, <1>6, <1>9 DEF Entra

\* The search for a page finds it when its key is in the queue, and only then.
LEMMA EnLaCola ==
  ASSUME NEW E \in Nat, NEW t \in [1..E -> EntradaTLB], Ordenada(t), Ninguno \notin Pids,
         NEW n \in Int, NEW p \in Pids
  PROVE  <<p, n>> \in Range(ColaDe(t)) <=> IndiceDe(t, n, p) # 0
<1>1. DOMAIN t = 1..E
  OBVIOUS
<1>2. /\ IndiceDe(t, n, p) = 0 => \A i \in DOMAIN t : ~(t[i].nro_pagina = n /\ t[i].pid = p)
      /\ IndiceDe(t, n, p) # 0 =>
           /\ IndiceDe(t, n, p) \in DOMAIN t
           /\ t[IndiceDe(t, n, p)].nro_pagina = n /\ t[IndiceDe(t, n, p)].pid = p
  BY <1>1, IndiceDeEsta
<1>3. PICK N \in Nat : N = Cardinality(Usadas(t))
  BY UsadasEsta
<1>4. PICK s : s = ColaDe(t)
  OBVIOUS
<1>5. /\ s \in Seq(Pids \X Int) /\ Len(s) = N
      /\ \A i \in Usadas(t) : /\ Cardinality(Viejas(t, i)) + 1 \in 1..N
                              /\ s[Cardinality(Viejas(t, i)) + 1] = Clave(t, i)
      /\ \A k \in 1..N : \E i \in Usadas(t) : k = Cardinality(Viejas(t, i)) + 1
  BY <1>3, <1>4, ColaDeEsta
<1>6. DOMAIN s = 1..N
  BY <1>5, LenProperties
<1>7. ASSUME IndiceDe(t, n, p) # 0 PROVE <<p, n>> \in Range(s)
  <2>1. PICK i \in Usadas(t) : Clave(t, i) = <<p, n>>
    BY <1>2, <1>7 DEF Usadas, Clave
  <2> QED BY <1>5, <1>6, <2>1 DEF Range
<1>8. ASSUME <<p, n>> \in Range(s) PROVE IndiceDe(t, n, p) # 0
  <2>1. PICK k \in 1..N : s[k] = <<p, n>>
    BY <1>6, <1>8 DEF Range
  <2>2. PICK i \in Usadas(t) : Clave(t, i) = <<p, n>>
    BY <1>5, <2>1
  <2>3. i \in DOMAIN t /\ t[i].pid = p /\ t[i].nro_pagina = n
    BY <2>2 DEF Clave, Usadas
  <2> QED BY <1>2, <2>3
<1> QED BY <1>4, <1>7, <1>8

\* Entry v is the youngest of all, by one at least.
Joven(b, v, n, p) ==
  /\ v \in Usadas(b) /\ b[v].pid = p /\ b[v].nro_pagina = n
  /\ \A i \in Usadas(b) \ {v} : b[i].tiempo > b[v].tiempo

\* When the entries keep their order, the queue stays.
LEMMA EfectoQueda ==
  ASSUME NEW E \in Nat, NEW t \in [1..E -> EntradaTLB], NEW b \in [1..E -> EntradaTLB],
         Ordenada(t), Ninguno \notin Pids, NEW n \in Int, NEW p \in Pids,
         NEW v \in Usadas(t), NEW x \in Nat, Efecto(t, b, v, x, n, p),
         Clave(t, v) = <<p, n>>,
         x = t[v].tiempo \/ (x = 0 /\ Joven(t, v, n, p))
  PROVE  Ordenada(b) /\ ColaDe(b) = ColaDe(t)
<1>1. \A i \in Usadas(t) : t[i].tiempo \in Nat /\ t[i].tiempo >= 1
  BY UsadasEsta DEF Ordenada
<1>2. Usadas(b) = Usadas(t)
  BY DEF Usadas, Efecto
<1>3. \A i \in Usadas(t) : Clave(b, i) = Clave(t, i)
  BY DEF Usadas, Efecto, Clave
<1>4. \A i \in Usadas(t) \ {v} : b[i].tiempo = t[i].tiempo + 1
  BY DEF Usadas, Efecto
<1>5. b[v].tiempo = x + 1
  BY DEF Efecto
<1>6. \A i \in Usadas(t), j \in Usadas(t) : b[j].tiempo > b[i].tiempo <=> t[j].tiempo > t[i].tiempo
  <2> SUFFICES ASSUME NEW i \in Usadas(t), NEW j \in Usadas(t)
               PROVE  b[j].tiempo > b[i].tiempo <=> t[j].tiempo > t[i].tiempo
    OBVIOUS
  <2>a. PICK c \in Nat, d \in Nat : c = t[i].tiempo /\ d = t[j].tiempo
    BY <1>1
  <2>1. CASE x = t[v].tiempo
    <3>1. b[i].tiempo = c + 1 /\ b[j].tiempo = d + 1
      BY <1>4, <1>5, <2>a, <2>1
    <3>2. d + 1 > c + 1 <=> d > c
      OBVIOUS
    <3> QED BY <2>a, <3>1, <3>2
  <2>2. CASE x = 0 /\ Joven(t, v, n, p)
    <3>1. b[v].tiempo = 1
      BY <1>5, <2>2
    <3>2. CASE i = v /\ j = v
      BY <2>a, <3>1, <3>2
    <3>3. CASE i = v /\ j # v
      <4>1. b[j].tiempo = d + 1 /\ d > c /\ d >= 1
        BY <1>1, <1>4, <2>a, <2>2, <3>3 DEF Joven
      <4> QED BY <2>a, <3>1, <3>3, <4>1
    <3>4. CASE i # v /\ j = v
      <4>1. b[i].tiempo = c + 1 /\ c > d /\ c >= 1
        BY <1>1, <1>4, <2>a, <2>2, <3>4 DEF Joven
      <4> QED BY <2>a, <3>1, <3>4, <4>1
    <3>5. CASE i # v /\ j # v
      <4>1. b[i].tiempo = c + 1 /\ b[j].tiempo = d + 1
        BY <1>4, <2>a, <3>5
      <4>2. d + 1 > c + 1 <=> d > c
        OBVIOUS
      <4> QED BY <2>a, <4>1, <4>2
    <3> QED BY <3>2, <3>3, <3>4, <3>5
  <2> QED BY <2>1, <2>2
<1>7. \A i \in Usadas(t) : Viejas(b, i) = Viejas(t, i)
  BY <1>2, <1>6 DEF Viejas
<1>8. Ordenada(b)
  <2>1. \A i \in Usadas(b) : b[i].tiempo \in Nat
    BY UsadasEsta
  <2>2. \A i \in Usadas(b) : b[i].tiempo >= 1
    BY <1>1, <1>2, <1>4, <1>5
  <2>3. ASSUME NEW i \in Usadas(b), NEW j \in Usadas(b), b[i].tiempo = b[j].tiempo PROVE i = j
    <3>1. ~(t[j].tiempo > t[i].tiempo) /\ ~(t[i].tiempo > t[j].tiempo)
      BY <1>2, <1>6, <2>1, <2>3
    <3> QED BY <1>1, <1>2, <3>1 DEF Ordenada
  <2> QED BY <2>2, <2>3 DEF Ordenada
<1> QED BY <1>2, <1>3, <1>7, <1>8, ColaQueda DEF Queda

\* When it is reset, the entry goes behind the others.
LEMMA EfectoAlFinal ==
  ASSUME NEW E \in Nat, NEW t \in [1..E -> EntradaTLB], NEW b \in [1..E -> EntradaTLB],
         Ordenada(t), Ninguno \notin Pids, NEW n \in Int, NEW p \in Pids,
         NEW v \in 1..E, Efecto(t, b, v, 0, n, p)
  PROVE  Ordenada(b) /\ AlFinal(t, b, v, <<p, n>>) /\ Joven(b, v, n, p)
<1>1. \A i \in Usadas(t) : t[i].tiempo \in Nat /\ t[i].tiempo >= 1
  BY UsadasEsta DEF Ordenada
<1>2. Usadas(b) = Usadas(t) \cup {v}
  BY DEF Usadas, Efecto
<1>3. Clave(b, v) = <<p, n>> /\ \A i \in Usadas(t) \ {v} : Clave(b, i) = Clave(t, i)
  BY DEF Usadas, Efecto, Clave
<1>4. \A i \in Usadas(t) \ {v} : b[i].tiempo = t[i].tiempo + 1
  BY DEF Usadas, Efecto
<1>5. b[v].tiempo = 1
  BY DEF Efecto
<1>6. Viejas(b, v) = Usadas(t) \ {v}
  BY <1>1, <1>2, <1>4, <1>5 DEF Viejas
<1>7. ASSUME NEW i \in Usadas(t) \ {v} PROVE Viejas(b, i) = Viejas(t, i) \ {v}
  BY <1>1, <1>2, <1>4, <1>5 DEF Viejas
<1>8. Ordenada(b)
  <2>1. ASSUME NEW i \in Usadas(b) PROVE b[i].tiempo >= 1 /\ (i # v => b[i].tiempo > 1)
    BY <1>1, <1>2, <1>4, <1>5
  <2>2. ASSUME NEW i \in Usadas(b), NEW j \in Usadas(b), b[i].tiempo = b[j].tiempo PROVE i = j
    <3>1. CASE i = v \/ j = v
      BY <1>5, <2>1, <2>2, <3>1
    <3>2. CASE i # v /\ j # v
      <4>1. i \in Usadas(t) /\ j \in Usadas(t)
        BY <1>2, <3>2
      <4>2. PICK c \in Nat, d \in Nat : c = t[i].tiempo /\ d = t[j].tiempo
        BY <1>1, <4>1
      <4>3. c + 1 = d + 1
        BY <1>4, <2>2, <3>2, <4>1, <4>2
      <4> QED BY <4>1, <4>2, <4>3 DEF Ordenada
    <3> QED BY <3>1, <3>2
  <2> QED BY <2>1, <2>2 DEF Ordenada
<1>9. Joven(b, v, n, p)
  BY <1>1, <1>2, <1>4, <1>5 DEF Joven, Efecto
<1> QED BY <1>2, <1>3, <1>6, <1>7, <1>8, <1>9 DEF AlFinal

\* One update of the TLB, from t to b, is one use of the key in the queue.
UnUso(t, b, E, n, p) ==
  /\ Ordenada(b)
  /\ IndiceDe(t, n, p) # 0 =>
       ColaDe(b) = IF config.REEMPLAZO_TLB = "FIFO" THEN ColaDe(t)
                   ELSE Append(RemoveFirst(ColaDe(t), <<p, n>>), <<p, n>>)
  /\ IndiceDe(t, n, p) = 0 =>
       /\ ColaDe(b) = Append(IF Len(ColaDe(t)) < E THEN ColaDe(t) ELSE Tail(ColaDe(t)), <<p, n>>)
       /\ \E v \in 1..E : Joven(b, v, n, p)

\* The use of a page by the array is the use of its key by the queue, place by place.
LEMMA UsaUna ==
  ASSUME NEW E \in Nat, NEW t \in [1..E -> EntradaTLB], E # 0, Ninguno \notin Pids,
         Ordenada(t), Distintas(t),
         NEW n \in Int, NEW p \in Pids, NEW m \in Int,
         NEW b, b = actualizar_tlb(t, n, p, m)
  PROVE  UnUso(t, b, E, n, p)
<1>1. PICK v \in 1..E, x \in Nat :
        /\ v = Lugar(t, n, p)
        /\ x = IF config.REEMPLAZO_TLB = "FIFO" /\ IndiceDe(t, n, p) # 0
               THEN t[v].tiempo ELSE 0
        /\ Efecto(t, b, v, x, n, p)
  BY EfectoTLB
<1>2. b \in [1..E -> EntradaTLB]
  BY EfectoTLB
<1>3. PICK k \in Pids \X Int : k = <<p, n>>
  OBVIOUS
<1>4. PICK s : s = ColaDe(t)
  OBVIOUS
<1>5. PICK N \in Nat : N = Cardinality(Usadas(t))
  BY UsadasEsta
<1>6. /\ s \in Seq(Pids \X Int) /\ Len(s) = N
      /\ \A i \in Usadas(t) : /\ Cardinality(Viejas(t, i)) + 1 \in 1..N
                              /\ s[Cardinality(Viejas(t, i)) + 1] = Clave(t, i)
      /\ \A j \in 1..N : \E i \in Usadas(t) : j = Cardinality(Viejas(t, i)) + 1
  BY <1>4, <1>5, ColaDeEsta
<1>7. /\ IndiceDe(t, n, p) # 0 =>
           /\ IndiceDe(t, n, p) \in 1..E
           /\ t[IndiceDe(t, n, p)].nro_pagina = n /\ t[IndiceDe(t, n, p)].pid = p
  BY IndiceDeEsta
<1>8. CASE IndiceDe(t, n, p) # 0
  <2>1. v = IndiceDe(t, n, p)
    BY <1>1, <1>8 DEF Lugar
  <2>2. v \in Usadas(t) /\ Clave(t, v) = k
    BY <1>3, <1>7, <1>8, <2>1 DEF Usadas, Clave
  <2>3. CASE config.REEMPLAZO_TLB = "FIFO"
    <3>1. x = t[v].tiempo
      BY <1>1, <1>8, <2>3
    <3>2. Ordenada(b) /\ ColaDe(b) = ColaDe(t)
      BY <1>1, <1>2, <1>3, <2>2, <3>1, EfectoQueda
    <3> QED BY <1>8, <2>3, <3>2 DEF UnUso
  <2>4. CASE config.REEMPLAZO_TLB # "FIFO"
    <3>1. Efecto(t, b, v, 0, n, p)
      BY <1>1, <2>4
    <3>2. Ordenada(b) /\ AlFinal(t, b, v, k)
      BY <1>2, <1>3, <3>1, EfectoAlFinal
    <3>3. ColaDe(b) = Append(RemoveAt(s, Cardinality(Viejas(t, v)) + 1), k)
      <4>1. ColaDe(b) = Append(RemoveAt(ColaDe(t), Cardinality(Viejas(t, v)) + 1), k)
        <5>1. t \in [1..E -> EntradaTLB] /\ Ordenada(t) /\ v \in Usadas(t)
          BY <2>2
        <5> QED BY <1>2, <3>2, <5>1, ColaMueve
      <4> QED BY <1>4, <4>1
    <3>4. k \in Range(s)
      <4>1. DOMAIN s = 1..N
        BY <1>6, LenProperties
      <4> QED BY <1>6, <2>2, <4>1 DEF Range
    <3>5. PICK j \in 1..N : s[j] = k /\ RemoveFirst(s, k) = RemoveAt(s, j)
      BY <1>6, <3>4, RemoveFirstPresente
    <3>6. PICK i \in Usadas(t) : j = Cardinality(Viejas(t, i)) + 1
      BY <1>6
    <3>7. i = v
      BY <1>6, <2>2, <3>5, <3>6 DEF Distintas
    <3> QED BY <1>3, <1>4, <1>8, <2>4, <3>2, <3>3, <3>5, <3>6, <3>7 DEF UnUso
  <2> QED BY <2>3, <2>4
<1>9. CASE IndiceDe(t, n, p) = 0
  <2>1. x = 0
    BY <1>1, <1>9
  <2>2. Ordenada(b) /\ AlFinal(t, b, v, k) /\ Joven(b, v, n, p)
    BY <1>1, <1>2, <1>3, <2>1, EfectoAlFinal
  <2>3. /\ IndiceVacio(t) = 0 => \A i \in 1..E : t[i].pid # Ninguno
        /\ IndiceVacio(t) # 0 => IndiceVacio(t) \in 1..E /\ t[IndiceVacio(t)].pid = Ninguno
    BY IndiceVacioEsta
  <2>e. IsFiniteSet(1..E) /\ Cardinality(1..E) = E
    <3>1. 1 \in Int /\ E \in Int
      OBVIOUS
    <3>2. IsFiniteSet(1..E) /\ Cardinality(1..E) = IF 1 > E THEN 0 ELSE E - 1 + 1
      BY <3>1, FS_Interval, Zenon
    <3> QED BY <3>2
  <2>4. CASE IndiceVacio(t) # 0
    <3>1. v = IndiceVacio(t)
      BY <1>1, <1>9, <2>4 DEF Lugar
    <3>2. v \notin Usadas(t)
      BY <2>3, <2>4, <3>1 DEF Usadas
    <3>3. ColaDe(b) = Append(s, k)
      BY <1>2, <1>4, <2>2, <3>2, ColaAgrega
    <3>4. Len(s) < E
      <4>1. Usadas(t) \in SUBSET (1..E) /\ Usadas(t) # 1..E
        BY <3>2, UsadasEsta
      <4>2. Cardinality(Usadas(t)) <= Cardinality(1..E)
            /\ Cardinality(1..E) # Cardinality(Usadas(t))
        BY <2>e, <4>1, FS_Subset
      <4> QED BY <1>5, <1>6, <2>e, <4>2
    <3> QED BY <1>3, <1>4, <1>9, <2>2, <3>3, <3>4 DEF UnUso
  <2>5. CASE IndiceVacio(t) = 0
    <3>1. v = pagina_mas_antigua(t)
      BY <1>1, <1>9, <2>5 DEF Lugar
    <3>2. Usadas(t) = 1..E
      BY <2>3, <2>5 DEF Usadas
    <3>3. \A i \in 1..E : t[i].tiempo \in Int
      BY DEF EntradaTLB
    <3>4. \A i \in 1..E : t[i].tiempo <= t[v].tiempo
      BY <3>1, <3>3, pagina_mas_antigua_Esta
    <3>5. Viejas(t, v) = {}
      BY <3>2, <3>3, <3>4 DEF Viejas
    <3>6. Cardinality(Viejas(t, v)) + 1 = 1
      BY <3>5, FS_EmptySet
    <3>7. ColaDe(b) = Append(RemoveAt(s, 1), k)
      <4>1. v \in Usadas(t)
        BY <3>2
      <4>2. ColaDe(b) = Append(RemoveAt(ColaDe(t), Cardinality(Viejas(t, v)) + 1), k)
        BY <1>2, <2>2, <4>1, ColaMueve
      <4> QED BY <1>4, <3>6, <4>2
    <3>8. N = E
      BY <1>5, <2>e, <3>2
    <3>9. RemoveAt(s, 1) = Tail(s)
      <4>1. s # <<>> /\ 1 \in 1..Len(s)
        BY <1>6, <3>8
      <4>2. /\ RemoveAt(s, 1) \in Seq(Pids \X Int) /\ Len(RemoveAt(s, 1)) = Len(s) - 1
            /\ \A j \in 1..(Len(s) - 1) :
                 RemoveAt(s, 1)[j] = IF j < 1 THEN s[j] ELSE s[j + 1]
        BY <1>6, <4>1, RemoveAtPropiedades
      <4>3. /\ Tail(s) \in Seq(Pids \X Int) /\ Len(Tail(s)) = Len(s) - 1
            /\ \A j \in 1..Len(Tail(s)) : Tail(s)[j] = s[j + 1]
        BY <1>6, <4>1, HeadTailProperties
      <4>4. \A j \in 1..Len(RemoveAt(s, 1)) : RemoveAt(s, 1)[j] = Tail(s)[j]
        BY <1>6, <4>2, <4>3
      <4> QED BY <4>2, <4>3, <4>4, SeqEqual
    <3> QED BY <1>3, <1>4, <1>6, <1>9, <2>2, <3>7, <3>8, <3>9 DEF UnUso
  <2> QED BY <2>4, <2>5
<1> QED BY <1>8, <1>9

\* The second of two updates with the same page leaves the queue as it is.
LEMMA UsaOtraVez ==
  ASSUME NEW E \in Nat, NEW t \in [1..E -> EntradaTLB], E # 0, Ninguno \notin Pids,
         Ordenada(t), Distintas(t),
         NEW n \in Int, NEW p \in Pids, NEW m \in Int,
         NEW j \in 1..E, Joven(t, j, n, p),
         NEW b, b = actualizar_tlb(t, n, p, m)
  PROVE  Ordenada(b) /\ ColaDe(b) = ColaDe(t)
<1>1. PICK v \in 1..E, x \in Nat :
        /\ v = Lugar(t, n, p)
        /\ x = IF config.REEMPLAZO_TLB = "FIFO" /\ IndiceDe(t, n, p) # 0
               THEN t[v].tiempo ELSE 0
        /\ Efecto(t, b, v, x, n, p)
  BY EfectoTLB
<1>2. b \in [1..E -> EntradaTLB]
  BY EfectoTLB
<1>3. /\ IndiceDe(t, n, p) = 0 => \A i \in 1..E : ~(t[i].nro_pagina = n /\ t[i].pid = p)
      /\ IndiceDe(t, n, p) # 0 =>
           /\ IndiceDe(t, n, p) \in 1..E
           /\ t[IndiceDe(t, n, p)].nro_pagina = n /\ t[IndiceDe(t, n, p)].pid = p
  BY IndiceDeEsta
<1>4. IndiceDe(t, n, p) # 0 /\ v = IndiceDe(t, n, p)
  <2>1. IndiceDe(t, n, p) # 0
    BY <1>3 DEF Joven
  <2> QED BY <1>1, <2>1 DEF Lugar
<1>5. v \in Usadas(t) /\ Clave(t, v) = <<p, n>>
  BY <1>3, <1>4 DEF Usadas, Clave
<1>6. v = j
  BY <1>5 DEF Joven, Distintas, Clave
<1>7. x = t[v].tiempo \/ (x = 0 /\ Joven(t, v, n, p))
  BY <1>1, <1>6
<1> QED BY <1>1, <1>2, <1>5, <1>7, EfectoQueda

\* UsaTLB is one use of the page in the queue, although it may update the TLB
\* twice; it keeps the times in order.
LEMMA UsaTLBCola ==
  ASSUME IInv, Ordenada(tlb), pid \in Pids, NEW n \in Pag(pid), UsaTLB(n), tlb # <<>>
  PROVE  /\ Ordenada(tlb')
         /\ config.ENTRADAS_TLB > 0
         /\ ColaDe(tlb') = IF <<pid, n>> \in Range(ColaDe(tlb))
                           THEN IF config.REEMPLAZO_TLB = "FIFO" THEN ColaDe(tlb)
                                ELSE Append(RemoveFirst(ColaDe(tlb), <<pid, n>>), <<pid, n>>)
                           ELSE Append(IF Len(ColaDe(tlb)) < config.ENTRADAS_TLB THEN ColaDe(tlb)
                                       ELSE Tail(ColaDe(tlb)), <<pid, n>>)
<1>1. PICK E \in Nat : E = config.ENTRADAS_TLB
  BY ConfigEsta DEF IInv
<1>2. tlb \in [1..E -> EntradaTLB] /\ Bien(tlb, tabla, estado) /\ Ninguno \notin Pids
  BY <1>1, PaginasConstantesOK DEF IInv, TiposCPU, EntradasBien
<1>3. E # 0
  <2>1. SUFFICES ASSUME E = 0 PROVE FALSE
    OBVIOUS
  <2>2. DOMAIN tlb = {} /\ tlb = [i \in DOMAIN tlb |-> tlb[i]]
    BY <1>2, <2>1
  <2> QED BY <2>2
<1>4. \A a : Bien(a, tabla, estado) => Distintas(a)
  BY DEF Bien, Distintas, Usadas, Clave
<1>5. n \in Int
  BY PagEsta
<1>6. PICK m : m = Marco(n)
  OBVIOUS
<1>7. m = tabla[pid][n] /\ m \in Int
  BY <1>6, MarcoEsta
<1>8. PICK p \in Pids : p = pid
  OBVIOUS
<1>9. PICK t, b : t = TLBTrasVictima(n) /\ b = tlb'
  OBVIOUS
<1>10. b = actualizar_tlb(t, n, p, m)
  BY <1>6, <1>8, <1>9 DEF UsaTLB
<1>11. \/ t = tlb
       \/ t = actualizar_tlb(tlb, n, p, m) /\ IndiceDe(tlb, n, p) = 0
  BY <1>6, <1>8, <1>9 DEF TLBTrasVictima
<1>12. <<p, n>> \in Range(ColaDe(tlb)) <=> IndiceDe(tlb, n, p) # 0
  BY <1>2, <1>5, EnLaCola
<1>13. Distintas(tlb)
  BY <1>2, <1>4
<1>14. PICK u : u = actualizar_tlb(tlb, n, p, m)
  OBVIOUS
<1>s. UnUso(tlb, u, E, n, p)
  BY <1>2, <1>3, <1>5, <1>7, <1>13, <1>14, UsaUna
<1>15. /\ Ordenada(u)
       /\ IndiceDe(tlb, n, p) # 0 =>
            ColaDe(u) = IF config.REEMPLAZO_TLB = "FIFO" THEN ColaDe(tlb)
                        ELSE Append(RemoveFirst(ColaDe(tlb), <<p, n>>), <<p, n>>)
       /\ IndiceDe(tlb, n, p) = 0 =>
            /\ ColaDe(u) = Append(IF Len(ColaDe(tlb)) < E THEN ColaDe(tlb)
                                  ELSE Tail(ColaDe(tlb)), <<p, n>>)
            /\ \E v \in 1..E : Joven(u, v, n, p)
  BY <1>s DEF UnUso
<1>16. Ordenada(b) /\ ColaDe(b) = ColaDe(u)
  <2>1. CASE t = tlb
    BY <1>10, <1>14, <1>15, <2>1
  <2>2. CASE t = u /\ IndiceDe(tlb, n, p) = 0
    <3>1. PICK v \in 1..E : Joven(u, v, n, p)
      BY <1>15, <2>2
    <3>2. estado[p] \in {"READY", "EXEC"} /\ n \in Pag(p) /\ m = tabla[p][n]
      BY <1>7, <1>8 DEF IInv, TiposMemoria
    <3>3. u \in [1..E -> EntradaTLB] /\ Bien(u, tabla, estado)
      BY <1>2, <1>5, <1>7, <1>14, <3>2, TLBTras
    <3>4. Distintas(u) /\ b = actualizar_tlb(u, n, p, m)
      BY <1>4, <1>10, <2>2, <3>3
    <3>5. Ordenada(b) /\ ColaDe(b) = ColaDe(u)
      <4>1. Ordenada(u)
        BY <1>15
      <4> QED BY <1>2, <1>3, <1>5, <1>7, <3>1, <3>3, <3>4, <4>1, UsaOtraVez
    <3> QED BY <3>5
  <2> QED BY <1>11, <1>14, <2>1, <2>2
<1>17. ColaDe(b) = IF <<p, n>> \in Range(ColaDe(tlb))
                   THEN IF config.REEMPLAZO_TLB = "FIFO" THEN ColaDe(tlb)
                        ELSE Append(RemoveFirst(ColaDe(tlb), <<p, n>>), <<p, n>>)
                   ELSE Append(IF Len(ColaDe(tlb)) < E THEN ColaDe(tlb)
                               ELSE Tail(ColaDe(tlb)), <<p, n>>)
  <2>1. CASE IndiceDe(tlb, n, p) # 0
    BY <1>12, <1>15, <1>16, <2>1
  <2>2. CASE IndiceDe(tlb, n, p) = 0
    BY <1>12, <1>15, <1>16, <2>2
  <2> QED BY <2>1, <2>2
<1>18. E > 0
  BY <1>3
<1> QED BY <1>1, <1>8, <1>9, <1>16, <1>17, <1>18

\* The queue of the specification is that of the lemmas.
LEMMA ColaTLBEs == ColaTLB = ColaDe(tlb)
BY DEF ColaTLB, EnUso, MasViejas, ColaDe, EnLugar, Usadas, Viejas, Clave

\* The same in the next state.
LEMMA ColaTLBSigue == ColaTLB' = ColaDe(tlb')
<1>1. (ColaTLB = ColaDe(tlb))'
  BY ColaTLBEs, PTL
<1> QED BY <1>1

\* An array with no entry in use holds the empty queue.
LEMMA ColaVacia ==
  ASSUME NEW E \in Nat, NEW a, DOMAIN a = 1..E, \A i \in 1..E : a[i].pid = Ninguno
  PROVE  ColaDe(a) = <<>> /\ Ordenada(a)
<1>1. Usadas(a) = {}
  BY DEF Usadas
<1>2. Cardinality(Usadas(a)) = 0
  BY <1>1, FS_EmptySet
<1>3. ColaDe(a) = [k \in 1..0 |-> Clave(a, EnLugar(a, k))]
  BY <1>2 DEF ColaDe
<1>4. 1..0 = {}
  OBVIOUS
<1> QED BY <1>1, <1>3, <1>4 DEF Ordenada

\* The initial states of the TLB are those of an empty queue.
LEMMA ColaInicial == ASSUME Init PROVE Cola!Init /\ Ordenada(tlb)
<1>1. config.ENTRADAS_TLB \in Nat /\ config.REEMPLAZO_TLB \in {"FIFO", "LRU"}
  BY InitIInv, ConfigEsta DEF IInv
<1>2. DOMAIN tlb = 1..config.ENTRADAS_TLB /\ \A i \in 1..config.ENTRADAS_TLB : tlb[i].pid = Ninguno
  BY DEF Init, TLBVacia
<1>3. ColaDe(tlb) = <<>> /\ Ordenada(tlb)
  BY <1>1, <1>2, ColaVacia
<1>4. ColaTLB = <<>>
  BY <1>3, ColaTLBEs
<1>5. uso.clave = <<>> /\ uso.veces = 0
  BY DEF Init
<1> QED BY <1>1, <1>3, <1>4, <1>5 DEF Cola!Init

\* A step that leaves the TLB alone leaves the queue alone.
LEMMA ColaIgual ==
  ASSUME Ordenada(tlb), UNCHANGED <<config, tlb, uso>>
  PROVE  Ordenada(tlb') /\ UNCHANGED Cola!vars
<1>1. ColaTLB' = ColaTLB
  BY ColaTLBEs, ColaTLBSigue
<1> QED BY <1>1 DEF Cola!vars

\* READ and WRITE use the page, or leave the TLB alone.
LEMMA ColaUsa ==
  ASSUME IInv, Ordenada(tlb), pid \in Pids, NEW n \in Pag(pid), UsaTLB(n), config' = config
  PROVE  Ordenada(tlb') /\ [Cola!Next]_(Cola!vars)
<1>1. CASE tlb = <<>>
  <2>1. TLBTrasVictima(n) = <<>>
    BY <1>1 DEF TLBTrasVictima, actualizar_tlb
  <2>2. tlb' = tlb
    BY <1>1, <2>1 DEF UsaTLB, actualizar_tlb
  <2>3. uso' = uso
    BY <1>1 DEF UsaTLB
  <2> QED BY <2>2, <2>3, ColaIgual
<1>2. CASE tlb # <<>>
  <2> DEFINE P == {pid} \X Pag(pid)
             S == {{p} \X Pag(p) : p \in Pids}
  <2>a. <<pid, n>> \in P
    OBVIOUS
  <2>b. P \in S
    OBVIOUS
  <2>c. <<pid, n>> \in UNION S
    BY <2>a, <2>b
  <2>1. PICK k \in PaginasTodas : k = <<pid, n>>
    BY <2>c DEF PaginasTodas
  <2> HIDE DEF P, S
  <2>2. /\ Ordenada(tlb')
        /\ config.ENTRADAS_TLB > 0
        /\ ColaDe(tlb') = IF k \in Range(ColaDe(tlb))
                          THEN IF config.REEMPLAZO_TLB = "FIFO" THEN ColaDe(tlb)
                               ELSE Append(RemoveFirst(ColaDe(tlb), k), k)
                          ELSE Append(IF Len(ColaDe(tlb)) < config.ENTRADAS_TLB THEN ColaDe(tlb)
                                      ELSE Tail(ColaDe(tlb)), k)
    BY <1>2, <2>1, UsaTLBCola
  <2>3. uso'.clave = k /\ uso'.veces = uso.veces + 1
    BY <1>2, <2>1 DEF UsaTLB
  <2>4. ColaTLB = ColaDe(tlb) /\ ColaTLB' = ColaDe(tlb')
    BY ColaTLBEs, ColaTLBSigue
  <2>5. ColaTLB' = IF k \in Range(ColaTLB)
                   THEN IF config.REEMPLAZO_TLB = "FIFO" THEN ColaTLB
                        ELSE Append(RemoveFirst(ColaTLB, k), k)
                   ELSE Append(IF Len(ColaTLB) < config.ENTRADAS_TLB THEN ColaTLB
                               ELSE Tail(ColaTLB), k)
    BY <2>2, <2>4
  <2>6. Cola!Vuelve(k) = IF config.REEMPLAZO_TLB = "FIFO" THEN ColaTLB
                         ELSE Append(RemoveFirst(ColaTLB, k), k)
    BY DEF Cola!Vuelve, Cola!RemoveFirst, RemoveFirst, Cola!RemoveAt, RemoveAt,
           Cola!SelectInSeq, SelectInSeq, Cola!Min, Min
  <2>7. Cola!Entra(k) = Append(IF Len(ColaTLB) < config.ENTRADAS_TLB THEN ColaTLB
                               ELSE Tail(ColaTLB), k)
    BY DEF Cola!Entra
  <2>8. ColaTLB' = IF k \in Range(ColaTLB) THEN Cola!Vuelve(k) ELSE Cola!Entra(k)
    <3>1. CASE k \in Range(ColaTLB)
      BY <2>5, <2>6, <3>1
    <3>2. CASE k \notin Range(ColaTLB)
      BY <2>5, <2>7, <3>2
    <3> QED BY <3>1, <3>2
  <2>9. Cola!Usar(k)
    BY <2>2, <2>3, <2>8 DEF Cola!Usar, Cola!Range, Range
  <2> QED BY <2>2, <2>9 DEF Cola!Next
<1> QED BY <1>1, <1>2

\* Every step of a CPU keeps the times ordered and is a step of the queue.
LEMMA ColaPaso ==
  ASSUME IInv, Ordenada(tlb), [Next]_vars
  PROVE  Ordenada(tlb') /\ [Cola!Next]_(Cola!vars)
<1>1. CASE Instruccion
  <2>1. pid \in Pids
    BY <1>1 DEF Instruccion, IInv, TiposCPU
  <2>2. ASSUME NEW n \in Pag(pid), NEW des \in Celdas,
               ejecutar_read(n, des) \/ \E dato \in Datos : ejecutar_write(n, des, dato)
        PROVE  Ordenada(tlb') /\ [Cola!Next]_(Cola!vars)
    <3>1. config' = config /\ (UNCHANGED <<tlb, uso>> \/ UsaTLB(n))
      BY <2>2 DEF ejecutar_read, ejecutar_write, Ejecuta
    <3> QED BY <2>1, <3>1, ColaUsa, ColaIgual
  <2>3. ASSUME NEW destino \in {"BLOCKED", "EXIT"}, desalojar_proceso(destino)
        PROVE  Ordenada(tlb') /\ [Cola!Next]_(Cola!vars)
    <3>1. UNCHANGED <<config, uso>> /\ tlb' = [i \in DOMAIN tlb |-> TLBVacia]
      BY <2>3 DEF desalojar_proceso, Ejecuta, desalojar_proceso_tlb
    <3>2. PICK E \in Nat : DOMAIN tlb = 1..E
      BY ConfigEsta DEF IInv, TiposCPU
    <3>3. DOMAIN tlb' = 1..E /\ \A i \in 1..E : tlb'[i].pid = Ninguno
      BY <3>1, <3>2 DEF TLBVacia
    <3>4. ColaDe(tlb') = <<>> /\ Ordenada(tlb')
      BY <3>3, ColaVacia
    <3>5. ColaTLB' = <<>>
      BY <3>4, ColaTLBSigue
    <3>6. Cola!Vaciar
      BY <3>1, <3>5 DEF Cola!Vaciar
    <3> QED BY <3>1, <3>4, <3>6 DEF Cola!Next
  <2> QED BY <1>1, <2>2, <2>3 DEF Instruccion
<1>2. CASE \E p \in Pids : Contexto(p) \/ check_interrupt(p) \/ Desbloquear(p)
                           \/ Suspender(p) \/ Desuspender(p)
  <2>1. UNCHANGED <<config, tlb, uso>>
    BY <1>2 DEF Contexto, check_interrupt, Desbloquear, Suspender, Desuspender, SinTocarPaginas
  <2> QED BY <2>1, ColaIgual
<1>3. CASE UNCHANGED vars
  BY <1>3, ColaIgual DEF vars
<1> QED BY <1>1, <1>2, <1>3 DEF Next

\* The array of the TLB and its times, which grow at each update, implement the
\* queue that FIFO and LRU promise: the entry that leaves is always its head.
THEOREM TLBEsCola == Spec => ImplementaColaReemplazo
<1>1. Init => Cola!Init /\ Ordenada(tlb)
  BY ColaInicial
<1>2. IInv /\ Ordenada(tlb) /\ [Next]_vars => Ordenada(tlb)' /\ [Cola!Next]_(Cola!vars)
  BY ColaPaso
<1> QED BY <1>1, <1>2, SpecIInv, PTL DEF Spec, ImplementaColaReemplazo, Cola!Spec
=============================================================================
