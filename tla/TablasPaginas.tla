--------------------------- MODULE TablasPaginas ---------------------------
(***************************************************************************)
(* The page tables of a process as the memory builds them, a tree of       *)
(* CANTIDAD_NIVELES levels, and the routines that go through it: creation, *)
(* assignment of frames, REQUEST_FRAME with the indices a CPU computes,    *)
(* the lists of frames of a suspension and of a dump, and the search by    *)
(* logical page. Each one finds its way in the tree by its own arithmetic. *)
(*                                                                         *)
(* Memoria has the interleaving of the threads over one flat table; here a *)
(* request is one step, and other processes take and leave frames between. *)
(***************************************************************************)
EXTENDS Integers, SequencesExt, FiniteSetsExt

CONSTANTS
  Configuraciones,  \* pairs <<ENTRADAS_POR_TABLA, CANTIDAD_NIVELES>>
  framesMaximos,
  Nada,             \* NULL
  MaxPagina,        \* bound: highest page a program asks for
  MaxAjenos         \* bound: frames of other processes

ASSUME TablasConstantesOK ==
  /\ Configuraciones \subseteq (Nat \ {0}) \X (Nat \ {0})
  /\ framesMaximos \in Nat \ {0} /\ MaxPagina \in Nat /\ MaxAjenos \in Nat

VARIABLES
  conf,              \* member of Configuraciones, fixed
  estado,            \* where the process is: "nuevo", "listo", "susp"
  tabla_raiz, cantidad_paginas,
  bitmap,            \* frames marked
  ajenos,            \* of those, the ones of other processes
  salida             \* what the last request answered: frames, or page and frame

procVars == <<estado, tabla_raiz, cantidad_paginas>>
vars == <<conf, procVars, bitmap, ajenos, salida>>

ENTRADAS_POR_TABLA == conf[1]
CANTIDAD_NIVELES == conf[2]
Capacidad == ENTRADAS_POR_TABLA ^ CANTIDAD_NIVELES
Marcos == 0 .. framesMaximos - 1
SinMarco == -1
EsFinal(nivel) == nivel = CANTIDAD_NIVELES - 1

Menor(a, b) == IF a < b THEN a ELSE b

\* Mutant of Techo: one more when the division is exact.
Techo_de_mas(a, b) == a \div b + 1

Techo(a, b) == (a + b - 1) \div b
paginas_por_subtabla(nivel) == ENTRADAS_POR_TABLA ^ (CANTIDAD_NIVELES - nivel - 1)

\* Pages of n that belong to entry i of a table of that level.
Tramo(nivel, n, i) ==
  Menor(n - i * paginas_por_subtabla(nivel), paginas_por_subtabla(nivel))

-----------------------------------------------------------------------------
(* Routines of the memory. A table is [marcos : 0..k-1 -> frame] when final, *)
(* [sub : 0..k-1 -> table] when not; k is cantidad_entradas.                 *)

RECURSIVE crear_tablas_proceso(_, _)
crear_tablas_proceso(nivel, n) ==
  IF EsFinal(nivel)
  THEN [marcos |-> [i \in 0 .. Menor(n, ENTRADAS_POR_TABLA) - 1 |-> SinMarco]]
  ELSE [sub |-> [i \in 0 .. Techo(n, paginas_por_subtabla(nivel)) - 1 |->
                   crear_tablas_proceso(nivel + 1, Tramo(nivel, n, i))]]

\* asignar_marco_libre
PrimerLibre(marcados) ==
  IF Marcos \subseteq marcados THEN SinMarco ELSE Min(Marcos \ marcados)

\* Mutant of AsignarEntrada: the frame is not marked.
AsignarEntrada_sin_marcar(r, i) ==
  LET f == PrimerLibre(r.bitmap)
  IN IF ~r.ok \/ r.t.marcos[i] # SinMarco THEN r
     ELSE IF f = SinMarco THEN [r EXCEPT !.ok = FALSE]
     ELSE [r EXCEPT !.t.marcos[i] = f]

\* One step of asignar_marcos_a_tabla_rec, on entry i of a final table.
AsignarEntrada(r, i) ==
  LET f == PrimerLibre(r.bitmap)
  IN IF ~r.ok \/ r.t.marcos[i] # SinMarco THEN r
     ELSE IF f = SinMarco THEN [r EXCEPT !.ok = FALSE]
     ELSE [r EXCEPT !.t.marcos[i] = f, !.bitmap = @ \cup {f}]

\* Each entry in order, until one fails.
RECURSIVE asignar_marcos_a_tabla_rec(_, _, _, _)
asignar_marcos_a_tabla_rec(t, nivel, n, marcados) ==
  LET inicio == [t |-> t, bitmap |-> marcados, ok |-> TRUE]
      hijo(r, i) == asignar_marcos_a_tabla_rec(r.t.sub[i], nivel + 1,
                                               Tramo(nivel, n, i), r.bitmap)
      seguir(r, i) ==
        IF ~r.ok \/ Tramo(nivel, n, i) <= 0 THEN r
        ELSE LET h == hijo(r, i)
             IN [t |-> [r.t EXCEPT !.sub[i] = h.t], bitmap |-> h.bitmap, ok |-> h.ok]
  IN IF EsFinal(nivel)
     THEN FoldLeft(AsignarEntrada, inicio,
                   [i \in 1 .. Menor(n, ENTRADAS_POR_TABLA) |-> i - 1])
     ELSE FoldLeft(seguir, inicio, [i \in 1 .. Cardinality(DOMAIN t.sub) |-> i - 1])

\* Frames listed by the first n entries of a final table.
DeHoja(t, n) ==
  SelectSeq([i \in 1 .. n |-> t.marcos[i - 1]], LAMBDA f : f # SinMarco)

\* recolectar_marcos_suspender, the list it makes: up to ENTRADAS_POR_TABLA
\* entries of each table, those that hold pages of the process.
RECURSIVE recolectar_marcos_suspender(_, _, _)
recolectar_marcos_suspender(t, nivel, n) ==
  IF EsFinal(nivel) THEN DeHoja(t, n)
  ELSE FlattenSeq([i \in 1 .. Menor(ENTRADAS_POR_TABLA,
                                    Techo(n, paginas_por_subtabla(nivel))) |->
         recolectar_marcos_suspender(t.sub[i - 1], nivel + 1, Tramo(nivel, n, i - 1))])

RECURSIVE recolectar_marcos_para_dump(_, _, _)
recolectar_marcos_para_dump(t, nivel, n) ==
  IF EsFinal(nivel) THEN DeHoja(t, Menor(n, ENTRADAS_POR_TABLA))
  ELSE FlattenSeq([i \in 1 .. Techo(n, paginas_por_subtabla(nivel)) |->
         recolectar_marcos_para_dump(t.sub[i - 1], nivel + 1, Tramo(nivel, n, i - 1))])

\* The same table with no frames.
RECURSIVE SinMarcos(_)
SinMarcos(t) ==
  IF "marcos" \in DOMAIN t
  THEN [marcos |-> [i \in DOMAIN t.marcos |-> SinMarco]]
  ELSE [sub |-> [i \in DOMAIN t.sub |-> SinMarcos(t.sub[i])]]

\* The frame, or the table, at a path of indices.
Bajar(t, indices) ==
  FoldLeft(LAMBDA u, i : IF "sub" \in DOMAIN u THEN u.sub[i] ELSE u.marcos[i],
           t, indices)

\* obtener_marco_de_pagina: the digits of the page, lowest first, by repeated
\* division, and the way down with no check.
obtener_marco_de_pagina(t, pagina) ==
  LET resto[i \in 0 .. CANTIDAD_NIVELES] ==
        IF i = 0 THEN pagina ELSE resto[i - 1] \div ENTRADAS_POR_TABLA
  IN Bajar(t, [nivel \in 1 .. CANTIDAD_NIVELES |->
                 resto[CANTIDAD_NIVELES - nivel] % ENTRADAS_POR_TABLA])

-----------------------------------------------------------------------------
(* The CPU: the index of a page in the table of each level.                  *)

\* Mutant of entrada_nivel_X: the power is not lowered by one.
entrada_nivel_X_corrido(pagina) ==
  [i \in 1 .. CANTIDAD_NIVELES |->
     (pagina \div ENTRADAS_POR_TABLA ^ (CANTIDAD_NIVELES - i + 1)) % ENTRADAS_POR_TABLA]

entrada_nivel_X(pagina) ==
  [i \in 1 .. CANTIDAD_NIVELES |->
     (pagina \div ENTRADAS_POR_TABLA ^ (CANTIDAD_NIVELES - i)) % ENTRADAS_POR_TABLA]

\* Pages of the process that are left from the table reached at that level on.
Restantes(indices, nivel) ==
  cantidad_paginas
  - SumFunction([i \in 1 .. nivel |-> indices[i] * paginas_por_subtabla(i - 1)])

\* The checks of REQUEST_FRAME, level by level.
EnRango(indices) ==
  \A nivel \in 0 .. CANTIDAD_NIVELES - 1 :
    LET r == Restantes(indices, nivel)
        por == paginas_por_subtabla(nivel)
    IN indices[nivel + 1] < IF EsFinal(nivel) THEN Menor(r, ENTRADAS_POR_TABLA)
                            ELSE IF r <= por THEN 1 ELSE Techo(r, por)

\* The table with frame f at a path.
RECURSIVE Puesto(_, _, _)
Puesto(t, indices, f) ==
  IF Len(indices) = 1 THEN [t EXCEPT !.marcos[indices[1]] = f]
  ELSE [t EXCEPT !.sub[indices[1]] = Puesto(@, Tail(indices), f)]

-----------------------------------------------------------------------------
(* Requests.                                                                 *)

Asignacion(t, n) == asignar_marcos_a_tabla_rec(t, 0, n, bitmap)

\* CREAR_PROCESO. The count of bytes has said that it fits; when the frames run
\* out all the same the tables are destroyed and the frames stay marked.
Crear(n) ==
  /\ estado = "nuevo"
  /\ LET r == Asignacion(crear_tablas_proceso(0, n), n)
     IN /\ bitmap' = r.bitmap
        /\ IF r.ok THEN estado' = "listo" /\ tabla_raiz' = r.t /\ cantidad_paginas' = n
           ELSE UNCHANGED procVars
  /\ salida' = <<>>
  /\ UNCHANGED <<conf, ajenos>>

\* A frame for the page; a new one if it has none. Pages are told apart up to the
\* capacity of the tables.
REQUEST_FRAME(pagina) ==
  LET indices == entrada_nivel_X(pagina)
      libre == PrimerLibre(bitmap)
      Responde(f) == salida' = <<pagina % Capacidad, f>>
  IN /\ estado # "nuevo"
     /\ \/ /\ ~EnRango(indices)
           /\ Responde(SinMarco)
           /\ UNCHANGED <<tabla_raiz, bitmap>>
        \/ /\ EnRango(indices) /\ Bajar(tabla_raiz, indices) # SinMarco
           /\ Responde(Bajar(tabla_raiz, indices))
           /\ UNCHANGED <<tabla_raiz, bitmap>>
        \/ /\ EnRango(indices) /\ Bajar(tabla_raiz, indices) = SinMarco
           /\ Responde(libre)
           /\ IF libre = SinMarco THEN UNCHANGED <<tabla_raiz, bitmap>>
              ELSE /\ tabla_raiz' = Puesto(tabla_raiz, indices, libre)
                   /\ bitmap' = bitmap \cup {libre}
     /\ UNCHANGED <<conf, estado, cantidad_paginas, ajenos>>

SUSPENDER ==
  /\ estado = "listo"
  /\ estado' = "susp"
  /\ salida' = recolectar_marcos_suspender(tabla_raiz, 0, cantidad_paginas)
  /\ tabla_raiz' = SinMarcos(tabla_raiz)
  /\ bitmap' = bitmap \ Range(salida')
  /\ UNCHANGED <<conf, cantidad_paginas, ajenos>>

\* desuspender_proceso_de_swap; when it fails what it assigned stays.
DESUSPENDER ==
  /\ estado = "susp"
  /\ LET r == Asignacion(tabla_raiz, cantidad_paginas)
     IN /\ tabla_raiz' = r.t /\ bitmap' = r.bitmap
        /\ estado' = IF r.ok THEN "listo" ELSE "susp"
  /\ salida' = <<>>
  /\ UNCHANGED <<conf, cantidad_paginas, ajenos>>

MEMORY_DUMP ==
  /\ estado = "listo"
  /\ salida' = recolectar_marcos_para_dump(tabla_raiz, 0, cantidad_paginas)
  /\ UNCHANGED <<conf, procVars, bitmap, ajenos>>

liberar_espacio_en_memoria ==
  bitmap \ {obtener_marco_de_pagina(tabla_raiz, x) : x \in 0 .. cantidad_paginas - 1}

\* A process in swap gives no frame back.
FINALIZAR ==
  /\ estado # "nuevo"
  /\ bitmap' = IF estado = "susp" THEN bitmap ELSE liberar_espacio_en_memoria
  /\ estado' = "nuevo" /\ tabla_raiz' = Nada /\ cantidad_paginas' = 0
  /\ salida' = <<>>
  /\ UNCHANGED <<conf, ajenos>>

\* Other processes take a frame, or leave one of theirs.
Otro(f) ==
  /\ \/ f \in ajenos /\ ajenos' = ajenos \ {f} /\ bitmap' = bitmap \ {f}
     \/ /\ f \notin bitmap /\ Cardinality(ajenos) < MaxAjenos
        /\ ajenos' = ajenos \cup {f} /\ bitmap' = bitmap \cup {f}
  /\ salida' = <<>>
  /\ UNCHANGED <<conf, procVars>>

Init ==
  /\ conf \in Configuraciones
  /\ estado = "nuevo" /\ tabla_raiz = Nada /\ cantidad_paginas = 0
  /\ bitmap = {} /\ ajenos = {}
  /\ salida = <<>>

\* A process has no more pages than its tables tell apart.
Next ==
  \/ \E n \in 1 .. Menor(Capacidad, framesMaximos) : Crear(n)
  \/ \E x \in 0 .. MaxPagina : REQUEST_FRAME(x)
  \/ SUSPENDER \/ DESUSPENDER \/ MEMORY_DUMP \/ FINALIZAR
  \/ \E f \in Marcos : Otro(f)

Spec == Init /\ [][Next]_vars

-----------------------------------------------------------------------------
\* Cells of a table of that level, with their frames, in order.
RECURSIVE Celdas(_, _)
Celdas(t, nivel) ==
  IF EsFinal(nivel) THEN [i \in 1 .. Cardinality(DOMAIN t.marcos) |-> t.marcos[i - 1]]
  ELSE FlattenSeq([i \in 1 .. Cardinality(DOMAIN t.sub) |->
                     Celdas(t.sub[i - 1], nivel + 1)])

\* No table has more than ENTRADAS_POR_TABLA entries.
RECURSIVE TablaOK(_, _)
TablaOK(t, nivel) ==
  IF EsFinal(nivel)
  THEN /\ DOMAIN t.marcos \in {0 .. k - 1 : k \in 1 .. ENTRADAS_POR_TABLA}
       /\ Range(t.marcos) \subseteq Marcos \cup {SinMarco}
  ELSE /\ DOMAIN t.sub \in {0 .. k - 1 : k \in 1 .. ENTRADAS_POR_TABLA}
       /\ \A i \in DOMAIN t.sub : TablaOK(t.sub[i], nivel + 1)

\* Every variable has its type, no table is larger than ENTRADAS_POR_TABLA, all the
\* paths have CANTIDAD_NIVELES levels, and the cells are as many as the pages.
TablasTypeOK ==
  /\ conf \in Configuraciones
  /\ estado \in {"nuevo", "listo", "susp"}
  /\ cantidad_paginas \in 0 .. Capacidad
  /\ bitmap \subseteq Marcos /\ ajenos \subseteq bitmap
  /\ salida \in Seq(Nat \cup {SinMarco})
  /\ IF estado = "nuevo" THEN tabla_raiz = Nada
     ELSE TablaOK(tabla_raiz, 0) /\ Len(Celdas(tabla_raiz, 0)) = cantidad_paginas

\* No two cells of the tables have one frame, and the frame in a cell is marked and
\* of no other process; a process in memory has one for each page.
CeldasPropias ==
  estado # "nuevo" =>
    LET con == SelectSeq(Celdas(tabla_raiz, 0), LAMBDA f : f # SinMarco)
    IN /\ IsInjective(con)
       /\ Range(con) \subseteq bitmap \ ajenos
       /\ estado = "listo" => Len(con) = cantidad_paginas

\* The tree is an array of pages: whatever the routine and the arithmetic it goes
\* down with, it finds the same cell for a page, and lists are in page order.
Plana == INSTANCE TablaPlana WITH
  Capacidades <- {c[1] ^ c[2] : c \in Configuraciones},
  capacidad <- Capacidad,
  marcos <- IF estado = "nuevo" THEN <<>>
            ELSE [x \in 0 .. cantidad_paginas - 1 |->
                    obtener_marco_de_pagina(tabla_raiz, x)]

ImplementaTablaPlana == Plana!Spec
=============================================================================
