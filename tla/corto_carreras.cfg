SPECIFICATION Spec
CONSTANTS
  c1 = c1
  c2 = c2
  Pids = {1, 2, 3}
  CpusConectadas <- DosCPU
  Nadie = Nadie
  Algoritmos = {"SRT"}
  Programa <- Cortos
  EstimacionInicial = 2
  Alfa = 3
  Rafagas = {1}
  Carreras = {"desalojo", "contexto", "bandera", "syscall"}
INVARIANTS
  TypeOK
  UnSoloLugar
  UnaConfirmacion
CHECK_DEADLOCK FALSE
