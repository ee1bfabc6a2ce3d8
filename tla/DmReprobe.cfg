SPECIFICATION Spec
CONSTANTS
  root = root
  bus = bus
  c1 = c1
  c2 = c2
  None = None
  Dev <- MCDev
  ParentOf <- MCParentOf
  Depth <- MCDepth
  AutoBufs <- MCAuto
  DrvFlags <- MCDrvFlags
  Pinctrl = {c2}
  Uses <- BusUses
  MayFail <- ProbeFaults
  ScanFails = FALSE
  Ops = {"bind", "unbind", "probe", "remove", "of_to_plat"}
  RemoveArgs <- Normal
  NestDepth = 8
INVARIANT ProbeHasPriv
