SPECIFICATION Spec
CONSTANTS
  c1 = c1
  c2 = c2
  d1 = d1
  MaxPid = 3
  MaxPc = 1
  CPUs = {c1, c2}
  CpusAlInicio <- UnaCPU
  Ios = {d1}
  Nadie = Nadie
  Tamanio <- TamMixto
  Capacidad = 2
  PMCP = TRUE
  Instrucciones = {"IO", "IO_INEXISTENTE", "DUMP", "INIT_PROC"}
  Carreras = {"syscall", "dump", "timer", "falla_dump"}
INVARIANTS
  TypeOK
  UnSoloLugar
  UnaCpuPorProceso
  SalidaLiberaCpu
  PunteroVigente
PROPERTIES
  ImplementaCicloDeVida
CHECK_DEADLOCK FALSE
