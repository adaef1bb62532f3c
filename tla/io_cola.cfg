SPECIFICATION FairSpec
CONSTANTS
  p1 = p1
  p2 = p2
  p3 = p3
  p4 = p4
  a1 = a1
  a2 = a2
  b1 = b1
  A = A
  B = B
  Pids = {p1, p2, p3}
  Dispositivos = {a1, a2, b1}
  Nombre <- DosYUno
  Nombres = {A, B}
  Nadie = Nadie
  Pedidos <- DosUnoUno
  Entornos <- ConYSinCaidas
INVARIANTS
  ColaTypeOK
  UnPedido
  AnotadoLoQueHace
  NadieEsperaPorUnoLibre
PROPERTIES
  QuitaLaSuya
  TodosVuelven
CHECK_DEADLOCK FALSE
