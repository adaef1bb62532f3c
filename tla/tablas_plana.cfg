SPECIFICATION Spec
CONSTANTS
  Configuraciones <- DeUnoATresNiveles
  framesMaximos = 5
  Nada = Nada
  MaxPagina = 8
  MaxAjenos = 1
INVARIANTS
  TablasTypeOK
  CeldasPropias
PROPERTIES
  ImplementaTablaPlana
CHECK_DEADLOCK FALSE
