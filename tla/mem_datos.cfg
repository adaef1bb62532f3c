SPECIFICATION Spec
CONSTANTS
  c1 = c1
  c2 = c2
  p1 = p1
  p2 = p2
  p3 = p3
  p4 = p4
  Nadie = Nadie
  Pids = {p1, p2, p3, p4}
  CPUs = {c1, c2}
  Tamanio <- TamCuatro
  TAM_MEMORIA = 4
  TAM_PAGINA = 2
  ENTRADAS_POR_TABLA = 1
  Caches = {FALSE, TRUE}
  Basuras <- LimpioOSucio
  MaxSwap = 3
  MaxEntradas = 2
  MaxEscrituras = 1
SYMMETRY Simetria
CONSTRAINT DosConCache
INVARIANTS
  MemoriaTypeOK
  ContabilidadExacta
  DatosPreservados
  MarcosExclusivos
  MarcoRespondido
CHECK_DEADLOCK FALSE
