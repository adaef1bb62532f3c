------------------------------ MODULE MCTablas ------------------------------
(* Instances of TablasPaginas for TLC. *)
EXTENDS TablasPaginas

\* As in the .config files, from one level (swap.config) to three (cache.config,
\* estabilidad.config), with smaller tables.
DeUnoATresNiveles == {<<4, 1>>, <<3, 2>>, <<2, 3>>}
=============================================================================
