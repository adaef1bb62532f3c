----------------------------- MODULE TablaPlana -----------------------------
(***************************************************************************)
(* What the page tables of a process mean, with no levels: an array from   *)
(* its pages to frames. Frames are given lowest first, in the order of the *)
(* pages; lists of frames come in that order; a page out of the process    *)
(* has no frame. Other processes take and leave frames meanwhile.          *)
(***************************************************************************)
EXTENDS Integers, SequencesExt, FiniteSetsExt

CONSTANTS framesMaximos, Capacidades

VARIABLES
  capacidad,  \* pages the indices of an address can tell apart
  estado,     \* "nuevo", "listo", "susp"
  marcos,     \* page -> frame, or SinMarco
  bitmap,     \* frames marked
  ajenos,     \* of those, the ones of other processes
  salida      \* what the last request answered: frames, or page and frame

vars == <<capacidad, estado, marcos, bitmap, ajenos, salida>>

Marcos == 0 .. framesMaximos - 1
SinMarco == -1
SinRespuesta == <<>>
EnOrden(X) ==
  SelectSeq([i \in 1 .. Max({capacidad, framesMaximos}) |-> i - 1], LAMBDA x : x \in X)
Libres == EnOrden(Marcos \ bitmap)

Init ==
  /\ capacidad \in Capacidades
  /\ estado = "nuevo" /\ marcos = <<>> /\ bitmap = {} /\ ajenos = {}
  /\ salida = SinRespuesta

\* The pages of m with no frame, lowest first, get the free ones while they last.
Asignados(m) ==
  LET faltan == EnOrden({x \in DOMAIN m : m[x] = SinMarco})
      lugar(x) == CHOOSE i \in DOMAIN faltan : faltan[i] = x
  IN [x \in DOMAIN m |->
        IF m[x] # SinMarco THEN m[x]
        ELSE IF lugar(x) <= Len(Libres) THEN Libres[lugar(x)] ELSE SinMarco]

Tomados(m) == {m[x] : x \in DOMAIN m} \ {SinMarco}
Completa(m) == SinMarco \notin {m[x] : x \in DOMAIN m}
Lista(m) ==
  LET con == EnOrden({x \in DOMAIN m : m[x] # SinMarco})
  IN [i \in DOMAIN con |-> m[con[i]]]

\* A creation that fails keeps the frames it took, and nobody has them.
Crear(n) ==
  /\ estado = "nuevo"
  /\ LET m == Asignados([x \in 0 .. n - 1 |-> SinMarco])
     IN /\ bitmap' = bitmap \cup Tomados(m)
        /\ IF Completa(m) THEN estado' = "listo" /\ marcos' = m
           ELSE UNCHANGED <<estado, marcos>>
  /\ salida' = SinRespuesta /\ UNCHANGED ajenos

\* A page that has no frame gets the first free one, if there is any.
Pedir(x) ==
  /\ estado # "nuevo"
  /\ \/ /\ x \in DOMAIN marcos /\ marcos[x] = SinMarco /\ Libres # <<>>
        /\ salida' = <<x, Libres[1]>>
        /\ marcos' = [marcos EXCEPT ![x] = Libres[1]]
        /\ bitmap' = bitmap \cup {Libres[1]}
     \/ /\ x \notin DOMAIN marcos \/ marcos[x] # SinMarco \/ Libres = <<>>
        /\ salida' = <<x, IF x \in DOMAIN marcos THEN marcos[x] ELSE SinMarco>>
        /\ UNCHANGED <<marcos, bitmap>>
  /\ UNCHANGED <<estado, ajenos>>

Suspender ==
  /\ estado = "listo" /\ estado' = "susp"
  /\ salida' = Lista(marcos)
  /\ marcos' = [x \in DOMAIN marcos |-> SinMarco]
  /\ bitmap' = bitmap \ Tomados(marcos)
  /\ UNCHANGED ajenos

\* One that fails leaves the process suspended with the frames it took.
Desuspender ==
  /\ estado = "susp"
  /\ marcos' = Asignados(marcos)
  /\ bitmap' = bitmap \cup Tomados(marcos')
  /\ estado' = IF Completa(marcos') THEN "listo" ELSE "susp"
  /\ salida' = SinRespuesta /\ UNCHANGED ajenos

Volcar ==
  /\ estado = "listo"
  /\ salida' = Lista(marcos)
  /\ UNCHANGED <<estado, marcos, bitmap, ajenos>>

\* The frames a suspended process got meanwhile are not given back.
Finalizar ==
  /\ estado # "nuevo" /\ estado' = "nuevo"
  /\ bitmap' = IF estado = "listo" THEN bitmap \ Tomados(marcos) ELSE bitmap
  /\ marcos' = <<>>
  /\ salida' = SinRespuesta /\ UNCHANGED ajenos

Otro(f) ==
  /\ \/ f \in ajenos /\ ajenos' = ajenos \ {f} /\ bitmap' = bitmap \ {f}
     \/ f \notin bitmap /\ ajenos' = ajenos \cup {f} /\ bitmap' = bitmap \cup {f}
  /\ salida' = SinRespuesta /\ UNCHANGED <<estado, marcos>>

Next ==
  /\ \/ \E n \in 1 .. capacidad : Crear(n)
     \/ \E x \in 0 .. capacidad - 1 : Pedir(x)
     \/ Suspender \/ Desuspender \/ Volcar \/ Finalizar
     \/ \E f \in Marcos : Otro(f)
  /\ UNCHANGED capacidad

Spec == Init /\ [][Next]_vars
=============================================================================
