SPECIFICATION FairSpec
CONSTANTS
  c1 = c1
  c2 = c2
  Pids = {1, 2, 3}
  CpusConectadas <- UnaCPU
  Nadie = Nadie
  Algoritmos = {"SJF", "SRT"}
  Programa <- Programas
  EstimacionInicial = 2
  Alfa = 3
  Rafagas = {1, 3}
  Carreras = {}
INVARIANTS
  AcuerdoConLaCpu
  ContinuaDondeIba
  BloqueadoMientrasIO
  KernelEnPie
  NadieMasCorto
PROPERTIES
  TodosSalen
CHECK_DEADLOCK FALSE
