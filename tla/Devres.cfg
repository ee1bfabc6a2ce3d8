SPECIFICATION Spec
CONSTANTS
  r1 = r1
  r2 = r2
  r3 = r3
  r4 = r4
  Res <- FourNodes
  Kind = {"kmalloc", "clk", "syscon"}
  OneOff = {"syscon"}
SYMMETRY NodeSymmetry
INVARIANTS ListExact BindFirst Detached OneOfAKind
