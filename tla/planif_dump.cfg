SPECIFICATION Spec
CONSTANTS
  c1 = c1
  c2 = c2
  d1 = d1
  MaxPid = 1
  MaxPc = 1
  CPUs = {c1}
  CpusAlInicio <- UnaCPU
  Ios = {d1}
  Nadie = Nadie
  Tamanio <- TamUniforme
  Capacidad = 1
  PMCP = FALSE
  Instrucciones = {"IO", "IO_INEXISTENTE", "DUMP", "INIT_PROC"}
  Carreras = {"dump"}
INVARIANTS
  BloqueadoConMotivo
CHECK_DEADLOCK FALSE
