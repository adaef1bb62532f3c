SPECIFICATION Spec
CONSTANTS
  p1 = p1
  p2 = p2
  Ninguno = Ninguno
  Cero = Cero
  Pids = {p1, p2}
  CantMarcos = 4
  CantPaginas <- TresYUna
  CantCeldas = 2
  A = A
  Datos = {A}
  Configuraciones <- Archivos
  MaxInstrucciones = 5
INVARIANTS
  PaginasTypeOK
  EntradasVigentes
  UltimaEscrituraLlega
PROPERTIES
  ImplementaColaReemplazo
CHECK_DEADLOCK FALSE
