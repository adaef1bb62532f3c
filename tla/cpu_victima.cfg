SPECIFICATION Spec
CONSTANTS
  p1 = p1
  p2 = p2
  Ninguno = Ninguno
  Cero = Cero
  Pids = {p1, p2}
  CantMarcos = 4
  CantPaginas <- TresYUna
  CantCeldas = 1
  A = A
  Datos = {A}
  Configuraciones <- SoloCache
  MaxInstrucciones = 5
PROPERTIES
  VictimaEnMemoria
CHECK_DEADLOCK FALSE
