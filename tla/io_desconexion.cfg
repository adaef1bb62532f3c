SPECIFICATION Spec
CONSTANTS
  p1 = p1
  p2 = p2
  p3 = p3
  p4 = p4
  a1 = a1
  a2 = a2
  b1 = b1
  A = A
  B = B
  Pids = {p1, p2, p3, p4}
  Dispositivos = {a1}
  Nombre <- Uno
  Nombres = {A}
  Nadie = Nadie
  Pedidos <- UnoCadaUno
  Entornos <- CaeElUnico
INVARIANTS
  EsperaPorAlgoQueExiste
CHECK_DEADLOCK FALSE
