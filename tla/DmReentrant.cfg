SPECIFICATION Spec
CONSTANTS
  root = root
  bus = bus
  c1 = c1
  c2 = c2
  None = None
  Dev <- MCDev
  ParentOf <- MCParentOf
  Depth <- MCDepth
  AutoBufs <- MCAuto
  DrvFlags <- MCDrvFlags
  Pinctrl = {c1}
  Uses <- BusUses
  MayFail <- AllFaults
  ScanFails = FALSE
  Ops = {"bind", "unbind", "probe", "remove", "of_to_plat"}
  RemoveArgs <- AnyRemoval
  NestDepth = 8
INVARIANTS NoOrphan WholeBetweenCalls FramesLive ProbeOnce TreeInv
