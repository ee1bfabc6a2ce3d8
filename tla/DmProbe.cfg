SPECIFICATION Spec
CONSTANTS
  root = root
  bus = bus
  c1 = c1
  c2 = c2
  None = None
  Dev <- MCDev
  ParentOf <- MCParentOf
  Depth <- MCDepth
  AutoBufs <- MCAuto
  DrvFlags <- MCDrvFlags
  Pinctrl = {c1}
  Uses <- SiblingUses
  MayFail <- ProbeFaults
  ScanFails = FALSE
  Ops = {"bind", "probe", "remove", "of_to_plat"}
  RemoveArgs <- NormalOrVital
  NestDepth = 6
INVARIANTS ProbeHasPriv ActiveParent
PROPERTIES VitalStays
