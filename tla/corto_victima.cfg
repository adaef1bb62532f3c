SPECIFICATION Spec
CONSTANTS
  c1 = c1
  c2 = c2
  Pids = {1, 2, 3}
  CpusConectadas <- DosCPU
  Nadie = Nadie
  Algoritmos = {"SRT"}
  Programa <- Programas
  EstimacionInicial = 2
  Alfa = 3
  Rafagas = {1, 3}
  Carreras = {}
INVARIANTS
  DesalojaAlMasLargo
CHECK_DEADLOCK FALSE
