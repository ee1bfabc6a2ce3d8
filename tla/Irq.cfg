SPECIFICATION IrqSpec
CONSTANTS
  r1 = r1
  r2 = r2
  NoRes = NoRes
  Res <- TwoNodes
  Kind = {"kmalloc", "irq"}
  OneOff = {}
  Modes = {"direct", "server", "threaded"}
  ServerFirst = TRUE
  EarlyIrq = FALSE
  FreesIrq = {"direct"}
INVARIANTS HandlerHasNode 
PROPERTIES Served
