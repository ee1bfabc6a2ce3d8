---------------------- MODULE DriverModelActiveProofs -----------------------
(***************************************************************************)
(* What the activation invariant ActiveInv needs of the call stack, and that*)
(* binding and unbinding keep it.                                           *)
(***************************************************************************)
EXTENDS DriverModelTreeProofs

(* What the activation invariants look at, in the part about the stack and  *)
(* in the part about its innermost frame.                                   *)
StackPart(r) ==
  /\ AloneInv
  /\ \A i \in 1..Len(stack) : WorkInv(stack[i])
  /\ \A i, j \in 1..Len(stack) : i < j => OrderInv(r, stack[i], stack[j])
  /\ \A i \in 1..(Len(stack) - 1) : CallInv(stack[i], stack[i + 1])
BackPart == stack # <<>> => BackInv(Top)

LEMMA Parts ==
  ASSUME NEW r
  PROVE  ActiveInv(r) <=> DataInv /\ StackPart(r) /\ BackPart
BY Zenon DEF ActiveInv, StackPart, BackPart

(* Nothing that matters changes about a device.                             *)
Same(e) == /\ Active(e)' <=> Active(e)
           /\ "PLATDATA_VALID" \in flags'[e] <=> "PLATDATA_VALID" \in flags[e]
           /\ HasPriv(e)' <=> HasPriv(e)

(* The frames below the innermost one keep what they rely on.               *)
BelowOK ==
  \A i \in 1..(Len(stack) - 1), g \in Frame :
    g = stack[i] => WorkInv(g)' /\ ActKids(g.dev)' \subseteq ActKids(g.dev)

(* A frame whose device stays as it is, or one that waits for the function  *)
(* that changes it, and none of whose children is activated.                *)
LEMMA WorkKept ==
  ASSUME NEW f \in Frame, WorkInv(f),
         ActKids(f.dev)' \subseteq ActKids(f.dev),
         \/ Same(f.dev)
         \/ f.fn \notin Probing
         \/ f.fn = "probe" /\ f.pc = "of_to_plat" /\ (Active(f.dev)' <=> Active(f.dev))
         \/ f.fn = "probe" /\ f.pc = "fail_uclass"
  PROVE  WorkInv(f)'
<1>1. CASE f.fn = "probe"
  <2>1. CASE Same(f.dev)
    BY Zenon, <1>1, <2>1 DEF WorkInv, Same, Ready
  <2>2. CASE f.pc \in {"of_to_plat", "fail_uclass"}
    BY Zenon, <1>1, <2>2 DEF WorkInv, Same, Ready, ProbeHook, Probing
  <2> QED
    BY Zenon, <1>1, <2>1, <2>2 DEF Probing
<1>2. CASE f.fn = "of_to_plat"
  BY Zenon, <1>2 DEF WorkInv, Same, Probing
<1>3. CASE f.fn \notin {"probe", "of_to_plat"}
  BY Zenon, <1>3 DEF WorkInv
<1> QED
  BY Zenon, <1>1, <1>2, <1>3

LEMMA CallKept ==
  ASSUME NEW f \in Frame, NEW g \in Frame, CallInv(f, g),
         ActKids(f.dev)' \subseteq ActKids(f.dev)
  PROVE  CallInv(f, g)'
BY Zenon DEF CallInv

(* Which frames below the innermost one have its device.                    *)
LEMMA BelowDiffers ==
  ASSUME TreeInv, NEW r, StackPart(r), Orders(r), stack # <<>>,
         NEW i \in 1..(Len(stack) - 1)
  PROVE  /\ Top.fn \in Probing => stack[i].fn \in Probing
         /\ Top.fn = "probe" => r[Top.dev] < r[stack[i].dev]
         /\ Top.fn = "of_to_plat" =>
              \/ r[Top.dev] < r[stack[i].dev]
              \/ stack[i].fn = "probe" /\ stack[i].pc = "of_to_plat"
         /\ Top.fn = "bind" => stack[i].dev # Top.dev
         /\ Top.fn = "unbind" => stack[i].fn = "unbind"
         /\ Top.fn = "remove" /\ Top.pc # "entry" =>
              \/ stack[i].fn = "remove"
              \/ r[Top.dev] < r[stack[i].dev]
              \/ stack[i].fn = "probe" /\ stack[i].pc = "fail_uclass"
<1>1. /\ stack \in Seq(Frame) /\ Len(stack) \in Nat \ {0} /\ Top = stack[Len(stack)]
      /\ Top \in Frame /\ stack[i] \in Frame /\ i \in 1..Len(stack) /\ Len(stack) \in 1..Len(stack)
      /\ i < Len(stack)
  BY TopFrame DEF TreeInv, TypeOK, Top
<1>2. NestInv(stack[i], Top)
  BY Zenon, <1>1 DEF TreeInv, StackInv
<1>3. OrderInv(r, stack[i], Top)
  BY Zenon, <1>1 DEF StackPart
<1>4. stack[i].fn \in Fn
  BY Zenon, <1>1 DEF Frame
<1>5. Top.fn \in Probing => stack[i].fn \in Probing
  BY Zenon, <1>2, <1>4 DEF NestInv, Probing, Fn
<1>6. ASSUME Top.fn = "remove", Top.pc # "entry", stack[i].fn # "remove"
      PROVE  \/ r[Top.dev] < r[stack[i].dev]
             \/ stack[i].fn = "probe" /\ stack[i].pc = "fail_uclass"
  <2>1. 1 \in 1..Len(stack) /\ Len(stack) - 1 \in 1..Len(stack) /\ Len(stack) \in 2..Len(stack)
        /\ Len(stack) - 1 \in 1..(Len(stack) - 1)
    BY <1>1
  <2>2. stack[1].fn # "remove"
    <3>1. CASE i = 1
      BY Zenon, <1>6, <3>1
    <3>2. CASE i # 1
      BY <1>1, <1>6, <2>1, <3>2 DEF TreeInv, StackInv, NestInv
    <3> QED
      BY Zenon, <3>1, <3>2
  <2>3. stack[Len(stack) - 1].fn # "remove"
    BY Zenon, <1>1, <1>6, <2>1, <2>2 DEF StackPart, AloneInv
  <2>4. CallInv(stack[Len(stack) - 1], stack[(Len(stack) - 1) + 1])
    BY Zenon, <2>1 DEF StackPart
  <2>5. /\ stack[Len(stack) - 1].fn = "probe" /\ stack[Len(stack) - 1].pc = "fail_uclass"
        /\ stack[Len(stack) - 1].dev = Top.dev
    BY <1>1, <1>6, <2>3, <2>4 DEF CallInv
  <2>6. CASE i = Len(stack) - 1
    BY Zenon, <2>5, <2>6
  <2>7. CASE i # Len(stack) - 1
    <3>1. OrderInv(r, stack[i], stack[Len(stack) - 1]) /\ NestInv(stack[i], stack[Len(stack) - 1])
      BY <1>1, <2>1, <2>7 DEF StackPart, TreeInv, StackInv
    <3> QED
      BY Zenon, <1>4, <2>5, <3>1 DEF OrderInv, NestInv, Probing, Fn
  <2> QED
    BY Zenon, <2>6, <2>7
<1> QED
  BY Zenon, <1>2, <1>3, <1>5, <1>6 DEF NestInv, OrderInv, Probing

(* Nothing changes for any device.                                          *)
LEMMA BelowSame ==
  ASSUME TypeOK, NEW r, StackPart(r), \A e \in Dev : Same(e)
  PROVE  BelowOK
<1> SUFFICES ASSUME NEW i \in 1..(Len(stack) - 1), NEW g \in Frame, g = stack[i]
             PROVE  WorkInv(g)' /\ ActKids(g.dev)' \subseteq ActKids(g.dev)
  BY Zenon DEF BelowOK
<1>1. Len(stack) \in Nat /\ i \in 1..Len(stack)
  BY DEF TypeOK
<1>2. g.dev \in Dev /\ WorkInv(g)
  BY Zenon, <1>1 DEF StackPart, Frame
<1>3. ActKids(g.dev)' \subseteq ActKids(g.dev)
  BY Zenon DEF ActKids, Same
<1> QED
  BY Zenon, <1>2, <1>3, WorkKept

(* The device of the innermost frame changes.  It is not activated, unless  *)
(* it is being probed.                                                      *)
LEMMA BelowKept ==
  ASSUME TreeInv, NEW r, StackPart(r), Orders(r), stack # <<>>, NEW d \in Dev, d = Top.dev,
         \A e \in Dev \ {d} : Same(e),
         Top.fn = "probe" \/ (Active(d)' => Active(d)),
         Top.fn = "of_to_plat" => (Active(d)' <=> Active(d)),
         Top.fn = "remove" => Top.pc # "entry"
  PROVE  BelowOK
<1> SUFFICES ASSUME NEW i \in 1..(Len(stack) - 1), NEW g \in Frame, g = stack[i]
             PROVE  WorkInv(g)' /\ ActKids(g.dev)' \subseteq ActKids(g.dev)
  BY Zenon DEF BelowOK
<1>1. Len(stack) \in Nat /\ i \in 1..Len(stack) /\ Top \in Frame
  BY TopFrame DEF TreeInv, TypeOK
<1>2. g.dev \in Dev /\ WorkInv(g) /\ Top.fn \in Fn /\ g.fn \in Fn
  BY Zenon, <1>1 DEF StackPart, Frame
<1>3. /\ r[d] < r[g.dev] => g.dev # d
      /\ r[d] < r[g.dev] => ParentOf[d] # g.dev
  <2>1. r[d] \in Nat /\ r[g.dev] \in Nat
    BY Zenon, <1>2 DEF Orders
  <2>2. ParentOf[d] = g.dev => r[g.dev] < r[d]
    BY Zenon, <1>2, DevAssumption DEF Orders
  <2> QED
    BY <2>1, <2>2
<1>4. ActKids(g.dev)' \subseteq ActKids(g.dev)
  <2>1. CASE Active(d)' => Active(d)
    BY Zenon, <2>1 DEF ActKids, Same
  <2>2. CASE Top.fn = "probe"
    <3>1. ParentOf[d] # g.dev
      BY Zenon, <1>3, <2>2, BelowDiffers
    <3> QED
      BY Zenon, <3>1 DEF ActKids, Same
  <2> QED
    BY Zenon, <2>1, <2>2
<1>5. \/ Same(g.dev) \/ g.fn \notin Probing
      \/ g.fn = "probe" /\ g.pc = "of_to_plat" /\ (Active(g.dev)' <=> Active(g.dev))
      \/ g.fn = "probe" /\ g.pc = "fail_uclass"
  <2>1. CASE g.dev # d
    BY Zenon, <1>2, <2>1
  <2>2. CASE g.dev = d /\ Top.fn = "of_to_plat"
    BY Zenon, <1>3, <2>2, BelowDiffers
  <2>3. CASE g.dev = d /\ Top.fn # "of_to_plat"
    BY Zenon, <1>2, <1>3, <2>3, BelowDiffers DEF Fn, Probing
  <2> QED
    BY Zenon, <2>1, <2>2, <2>3
<1> QED
  BY Zenon, <1>2, <1>4, <1>5, WorkKept

-----------------------------------------------------------------------------
(* How the stack's part survives a change of the stack *)

(* The innermost frame moves on within its function.                        *)
LEMMA ActMoves ==
  ASSUME TypeOK, NEW r, StackPart(r), BelowOK, stack # <<>>, NEW f \in Frame,
         stack' = WithTop(f), f.fn = Top.fn, f.dev = Top.dev, WorkInv(f)',
         f.fn = "remove" /\ f.pc # "entry" =>
           \/ Top.pc # "entry" \/ Len(stack) = 1 \/ stack[1].fn = "remove"
           \/ stack[Len(stack) - 1].fn # "remove"
  PROVE  StackPart(r)' /\ Top' = f /\ stack' # <<>>
<1>1. stack \in Seq(Frame) /\ Len(stack) \in Nat \ {0} /\ Top \in Frame /\ Top = stack[Len(stack)]
  BY Zenon, TopFrame DEF TypeOK, Top
<1>2. /\ Len(stack') = Len(stack)
      /\ \A i \in 1..Len(stack) : stack'[i] = IF i = Len(stack) THEN f ELSE stack[i]
  BY Zenon, <1>1, WithTopFrame
<1>3. \A i \in 1..Len(stack) : stack'[i].fn = stack[i].fn /\ stack'[i].dev = stack[i].dev
  BY Zenon, <1>1, <1>2
<1>4. AloneInv'
  <2> SUFFICES ASSUME NEW i \in 2..Len(stack), stack'[i].fn = "remove", stack'[i].pc # "entry"
               PROVE  stack'[1].fn = "remove" \/ stack'[i - 1].fn # "remove"
    BY Zenon, <1>2 DEF AloneInv
  <2>1. stack'[1].fn = stack[1].fn /\ stack'[i - 1].fn = stack[i - 1].fn
    BY <1>1, <1>3
  <2>2. CASE i # Len(stack) \/ Top.pc # "entry"
    BY SMTT(30), <1>1, <1>2, <1>3, <2>1, <2>2 DEF StackPart, AloneInv
  <2>3. CASE i = Len(stack) /\ Top.pc = "entry"
    BY <1>1, <1>2, <2>1, <2>3
  <2> QED
    BY Zenon, <2>2, <2>3
<1>5. (\A i \in 1..Len(stack) : WorkInv(stack[i]))'
  <2> SUFFICES ASSUME NEW i \in 1..Len(stack) PROVE WorkInv(stack[i])'
    BY Zenon, <1>2
  <2>1. CASE i = Len(stack)
    <3>1. PICK g \in Frame : g = f
      BY Zenon
    <3>2. stack'[i] = g /\ WorkInv(g)'
      BY Zenon, <1>1, <1>2, <2>1, <3>1
    <3> QED
      BY Zenon, <3>2 DEF WorkInv
  <2>2. CASE i # Len(stack)
    <3>1. PICK g \in Frame : g = stack[i]
      BY <1>1
    <3>2. WorkInv(g)' /\ stack'[i] = g
      BY <1>1, <1>2, <2>2, <3>1 DEF BelowOK
    <3> QED
      BY Zenon, <3>2 DEF WorkInv
  <2> QED
    BY Zenon, <2>1, <2>2
<1>6. (\A i, j \in 1..Len(stack) : i < j => OrderInv(r, stack[i], stack[j]))'
  BY <1>1, <1>2, <1>3 DEF StackPart, OrderInv
<1>7. (\A i \in 1..(Len(stack) - 1) : CallInv(stack[i], stack[i + 1]))'
  <2> SUFFICES ASSUME NEW i \in 1..(Len(stack) - 1)
               PROVE  CallInv(stack[i], stack[i + 1])'
    BY Zenon, <1>2
  <2>1. PICK g \in Frame, h \in Frame : g = stack[i] /\ h = stack[i + 1]
    BY <1>1
  <2>2. CallInv(g, h) /\ ActKids(g.dev)' \subseteq ActKids(g.dev)
    BY Zenon, <2>1 DEF StackPart, BelowOK
  <2>3. CallInv(g, h)'
    BY Zenon, <2>2, CallKept
  <2>4. stack'[i] = g /\ stack'[i + 1].fn = h.fn /\ stack'[i + 1].dev = h.dev
    BY <1>1, <1>2, <1>3, <2>1
  <2> QED
    BY Zenon, <2>3, <2>4 DEF CallInv
<1> QED
  BY <1>1, <1>2, <1>4, <1>5, <1>6, <1>7 DEF StackPart, Top

(* The innermost call returns.  What its caller may rely on: the plat is    *)
(* read, the parent active, the child not active.                           *)
LEMMA ActPops ==
  ASSUME TreeInv, NEW r, StackPart(r), BelowOK, stack # <<>>, stack' = Popped,
         NEW d \in Dev, d = Top.dev,
         ret' = "OK" => /\ Top.fn = "of_to_plat" => Ready(d)'
                        /\ Top.fn = "probe" => Active(d)'
                        /\ Top.fn = "remove" => ~Active(d)'
  PROVE  StackPart(r)' /\ BackPart'
<1>1. stack \in Seq(Frame) /\ Len(stack) \in Nat \ {0} /\ Top \in Frame /\ Top = stack[Len(stack)]
  BY Zenon, TopFrame DEF TreeInv, TypeOK, Top
<1>2. /\ Len(stack') = Len(stack) - 1
      /\ \A i \in 1..(Len(stack) - 1) : stack'[i] = stack[i]
      /\ stack' \in Seq(Frame)
  BY Zenon, <1>1, PopFrame
<1>3. AloneInv'
  BY SMTT(30), <1>1, <1>2 DEF StackPart, AloneInv
<1>4. (\A i \in 1..Len(stack) : WorkInv(stack[i]))'
  <2> SUFFICES ASSUME NEW i \in 1..(Len(stack) - 1) PROVE WorkInv(stack[i])'
    BY Zenon, <1>2
  <2>1. PICK g \in Frame : g = stack[i]
    BY <1>1
  <2>2. WorkInv(g)' /\ stack'[i] = g
    BY Zenon, <1>2, <2>1 DEF BelowOK
  <2> QED
    BY Zenon, <2>2 DEF WorkInv
<1>5. (\A i, j \in 1..Len(stack) : i < j => OrderInv(r, stack[i], stack[j]))'
  BY <1>1, <1>2 DEF StackPart, OrderInv
<1>6. (\A i \in 1..(Len(stack) - 1) : CallInv(stack[i], stack[i + 1]))'
  <2> SUFFICES ASSUME NEW i \in 1..(Len(stack) - 2)
               PROVE  CallInv(stack[i], stack[i + 1])'
    BY <1>1, <1>2
  <2>1. PICK g \in Frame, h \in Frame : g = stack[i] /\ h = stack[i + 1]
    BY <1>1
  <2>5. i \in 1..(Len(stack) - 1)
    BY <1>1
  <2>2. CallInv(g, h) /\ ActKids(g.dev)' \subseteq ActKids(g.dev)
    BY Zenon, <2>1, <2>5 DEF StackPart, BelowOK
  <2>3. CallInv(g, h)'
    BY Zenon, <2>2, CallKept
  <2>4. stack'[i] = g /\ stack'[i + 1] = h
    BY <1>1, <1>2, <2>1
  <2> QED
    BY Zenon, <2>3, <2>4 DEF CallInv
<1>7. BackPart'
  <2> SUFFICES ASSUME stack' # <<>> PROVE BackInv(Top)'
    BY Zenon DEF BackPart
  <2>1. Len(stack) - 1 \in 1..(Len(stack) - 1) /\ (Len(stack) - 1) + 1 = Len(stack)
        /\ Len(stack) - 1 \in 1..Len(stack) /\ Len(stack) - 1 < Len(stack)
    BY <1>1, <1>2
  <2>2. PICK g \in Frame : g = stack[Len(stack) - 1]
    BY <1>1, <2>1
  <2>3. Top' = g
    BY Zenon, <1>2, <2>1, <2>2 DEF Top
  <2>4. CallInv(g, Top) /\ NestInv(g, Top) /\ ActKids(g.dev)' \subseteq ActKids(g.dev)
    <3>1. CallInv(stack[Len(stack) - 1], stack[(Len(stack) - 1) + 1])
      BY Zenon, <2>1 DEF StackPart
    <3>2. NestInv(stack[Len(stack) - 1], stack[Len(stack)])
      BY SMTT(30), <1>1, <2>1 DEF TreeInv, StackInv
    <3>3. ActKids(g.dev)' \subseteq ActKids(g.dev)
      BY Zenon, <2>1, <2>2 DEF BelowOK
    <3> QED
      BY Zenon, <1>1, <2>1, <2>2, <3>1, <3>2, <3>3
  <2>5. BackInv(g)'
    <3>1. CASE g.fn = "probe"
      BY Zenon, <2>4, <3>1 DEF BackInv, CallInv
    <3>2. CASE g.fn = "remove"
      <4>1. /\ Top.fn = "remove" /\ g.pc = "child"
            /\ g.res = "OK" => ActKids(g.dev) \subseteq g.todo \cup {d}
        BY Zenon, <2>4, <3>2 DEF CallInv, NestInv
      <4>2. ret' = "OK" => d \notin ActKids(g.dev)'
        BY Zenon, <4>1 DEF ActKids
      <4> QED
        BY Zenon, <2>4, <3>2, <4>1, <4>2 DEF BackInv
    <3>3. CASE g.fn \notin {"probe", "remove"}
      BY Zenon, <3>3 DEF BackInv
    <3> QED
      BY Zenon, <3>1, <3>2, <3>3
  <2> QED
    BY Zenon, <2>3, <2>5 DEF BackInv
<1> QED
  BY Zenon, <1>3, <1>4, <1>5, <1>6, <1>7 DEF StackPart

(* The innermost frame calls a core function; nothing changes otherwise.    *)
LEMMA ActPushes ==
  ASSUME TypeOK, NEW r, StackPart(r), \A e \in Dev : Same(e), stack # <<>>,
         NEW f \in Frame, NEW g \in Frame, stack' = Append(WithTop(f), g),
         f.fn = Top.fn, f.dev = Top.dev, WorkInv(f)', f.fn = "remove" => Top.pc # "entry",
         g.pc = "entry", WorkInv(g)', CallInv(f, g)', OrderInv(r, f, g),
         \A i \in 1..(Len(stack) - 1) : OrderInv(r, stack[i], g)
  PROVE  StackPart(r)' /\ BackPart'
<1>1. stack \in Seq(Frame) /\ Len(stack) \in Nat \ {0} /\ Top \in Frame /\ Top = stack[Len(stack)]
  BY Zenon, TopFrame DEF TypeOK, Top
<1>2. /\ Len(stack') = Len(stack) + 1 /\ stack'[Len(stack) + 1] = g /\ stack'[Len(stack)] = f
      /\ \A i \in 1..(Len(stack) - 1) : stack'[i] = stack[i]
      /\ stack' \in Seq(Frame)
  <2>1. /\ WithTop(f) \in Seq(Frame) /\ Len(WithTop(f)) = Len(stack)
        /\ \A i \in 1..Len(stack) : WithTop(f)[i] = IF i = Len(stack) THEN f ELSE stack[i]
    BY Zenon, <1>1, WithTopFrame
  <2>2. /\ Append(WithTop(f), g) \in Seq(Frame)
        /\ Len(Append(WithTop(f), g)) = Len(stack) + 1
        /\ Append(WithTop(f), g)[Len(stack) + 1] = g
        /\ \A i \in 1..Len(stack) : Append(WithTop(f), g)[i] = WithTop(f)[i]
    BY <2>1, PushFrame
  <2> QED
    BY <1>1, <2>1, <2>2
<1>3. \A i \in 1..Len(stack) : stack'[i].fn = stack[i].fn /\ stack'[i].dev = stack[i].dev
  BY SMTT(30), <1>1, <1>2
<1>4. AloneInv'
  <2> SUFFICES ASSUME NEW i \in 2..(Len(stack) + 1), stack'[i].fn = "remove",
                      stack'[i].pc # "entry"
               PROVE  stack'[1].fn = "remove" \/ stack'[i - 1].fn # "remove"
    BY Zenon, <1>2 DEF AloneInv
  <2>1. i \in 2..Len(stack) /\ i - 1 \in 1..Len(stack) /\ 1 \in 1..Len(stack)
    BY <1>1, <1>2
  <2>2. stack[i].fn = "remove" /\ stack[i].pc # "entry"
    BY SMTT(30), <1>1, <1>2, <1>3, <2>1
  <2> QED
    BY Zenon, <1>3, <2>1, <2>2 DEF StackPart, AloneInv
<1>5. BelowOK
  BY Zenon, BelowSame
<1>6. (\A i \in 1..Len(stack) : WorkInv(stack[i]))'
  <2> SUFFICES ASSUME NEW i \in 1..(Len(stack) + 1) PROVE WorkInv(stack[i])'
    BY Zenon, <1>2
  <2>1. CASE i = Len(stack) + 1
    BY ZenonT(30), <1>2, <2>1 DEF WorkInv
  <2>2. CASE i = Len(stack)
    BY SMTT(30), <1>2, <2>2 DEF WorkInv
  <2>3. CASE i \in 1..(Len(stack) - 1)
    <3>1. PICK h \in Frame : h = stack[i]
      BY <1>1, <2>3
    <3>2. WorkInv(h)' /\ stack'[i] = h
      BY Zenon, <1>2, <1>5, <2>3, <3>1 DEF BelowOK
    <3> QED
      BY Zenon, <3>2 DEF WorkInv
  <2>4. i = Len(stack) + 1 \/ i = Len(stack) \/ i \in 1..(Len(stack) - 1)
    BY <1>1
  <2> QED
    BY Zenon, <2>1, <2>2, <2>3, <2>4
<1>7. (\A i, j \in 1..Len(stack) : i < j => OrderInv(r, stack[i], stack[j]))'
  <2> SUFFICES ASSUME NEW i \in 1..(Len(stack) + 1), NEW j \in 1..(Len(stack) + 1), i < j
               PROVE  OrderInv(r, stack'[i], stack'[j])
    BY <1>2 DEF OrderInv
  <2>1. CASE j = Len(stack) + 1
    BY SMTT(30), <1>1, <1>2, <2>1
  <2>2. CASE j # Len(stack) + 1
    <3>1. i \in 1..(Len(stack) - 1) /\ i \in 1..Len(stack) /\ j \in 1..Len(stack)
      BY <1>1, <2>2
    <3>2. OrderInv(r, stack[i], stack[j]) /\ stack'[i] = stack[i]
      BY Zenon, <1>2, <3>1 DEF StackPart
    <3> QED
      BY Zenon, <1>3, <3>1, <3>2 DEF OrderInv
  <2> QED
    BY Zenon, <2>1, <2>2
<1>8. (\A i \in 1..(Len(stack) - 1) : CallInv(stack[i], stack[i + 1]))'
  <2> SUFFICES ASSUME NEW i \in 1..Len(stack)
               PROVE  CallInv(stack[i], stack[i + 1])'
    BY <1>1, <1>2
  <2>1. CASE i = Len(stack)
    BY <1>2, <2>1 DEF CallInv
  <2>2. CASE i # Len(stack)
    <3>1. i \in 1..(Len(stack) - 1) /\ i + 1 \in 1..Len(stack)
      BY <1>1, <2>2
    <3>2. PICK h \in Frame, k \in Frame : h = stack[i] /\ k = stack[i + 1]
      BY <1>1, <3>1
    <3>3. CallInv(h, k) /\ ActKids(h.dev)' \subseteq ActKids(h.dev)
      BY Zenon, <1>5, <3>1, <3>2 DEF StackPart, BelowOK
    <3>4. CallInv(h, k)'
      BY Zenon, <3>3, CallKept
    <3>5. stack'[i] = h /\ stack'[i + 1].fn = k.fn /\ stack'[i + 1].dev = k.dev
      BY Zenon, <1>2, <1>3, <3>1, <3>2
    <3> QED
      BY SMTT(30), <3>4, <3>5 DEF CallInv
  <2> QED
    BY Zenon, <2>1, <2>2
<1>9. BackPart'
  <2>1. Top' = g
    BY Zenon, <1>2 DEF Top
  <2> QED
    BY Zenon, <2>1 DEF BackPart, BackInv
<1> QED
  BY Zenon, <1>4, <1>6, <1>7, <1>8, <1>9 DEF StackPart

-----------------------------------------------------------------------------
(* device_bind_common() and device_unbind() *)

LEMMA DataKept ==
  ASSUME DataInv, \A e \in Dev : Same(e), mem' = mem, ret' # "REJECTED"
  PROVE  DataInv'
<1>1. \A d \in Dev : ParentOf[d] # None => ParentOf[d] \in Dev
  BY Zenon, DevAssumption
<1> QED
  BY Zenon, <1>1 DEF DataInv, Same

LEMMA NothingChanges ==
  ASSUME UNCHANGED <<flags, buf>>
  PROVE  \A e \in Dev : Same(e)
BY Zenon DEF Same, Active, HasPriv

(* Bind and unbind frames have nothing to do with activation.               *)
LEMMA CalmControl ==
  ASSUME TreeInv, NEW r, ActiveInv(r), stack # <<>>, Top.fn \in {"bind", "unbind"},
         \A e \in Dev : Same(e), mem' = mem,
         \/ \E pc \in Pc : Goto(pc)
         \/ \E x \in {"OK", "ERR", Top.res} : Return(x)
         \/ \E k \in SUBSET Dev : WalkStart(k)
         \/ \E x \in {ret, Top.res} : WalkNote(x)
         \/ Top.fn = "unbind" /\ WalkCall("unbind")
         \/ Top.fn = "bind" /\ \E c \in Dev : HookCall("bind", c)
  PROVE  ActiveInv(r)'
<1>0. /\ TypeOK /\ StackPart(r) /\ BackPart /\ DataInv /\ Top \in Frame /\ stack \in Seq(Frame)
      /\ Top.res # "REJECTED" /\ ret # "REJECTED" /\ Top.res \in Ret /\ ret \in Ret /\ Top.dev \in Dev
  <2>1. TypeOK /\ StackPart(r) /\ BackPart /\ DataInv
    BY Zenon, Parts DEF TreeInv
  <2>2. Top \in Frame /\ stack \in Seq(Frame) /\ Len(stack) \in Nat \ {0}
    BY Zenon, <2>1, TopFrame DEF TypeOK
  <2>3. WorkInv(Top)
    BY SMTT(30), <2>1, <2>2 DEF StackPart, Top
  <2> QED
    BY Zenon, <2>1, <2>2, <2>3 DEF WorkInv, DataInv, Frame, TypeOK
<1>1. BelowOK
  BY Zenon, <1>0, BelowSame
<1>2. ASSUME NEW f \in Frame, stack' = WithTop(f), f.fn = Top.fn, f.dev = Top.dev,
             f.res # "REJECTED", ret' = ret
      PROVE  ActiveInv(r)'
  <2>1. WorkInv(f)'
    BY Zenon, <1>2 DEF WorkInv
  <2>2. StackPart(r)' /\ Top' = f
    BY Zenon, <1>0, <1>1, <1>2, <2>1, ActMoves
  <2>3. BackPart'
    BY Zenon, <1>2, <2>2 DEF BackPart, BackInv
  <2>4. DataInv'
    BY Zenon, <1>0, <1>2, DataKept
  <2> QED
    BY Zenon, <2>2, <2>3, <2>4, Parts DEF ActiveInv, StackPart, BackPart
<1>3. ASSUME NEW pc \in Pc, Goto(pc) PROVE ActiveInv(r)'
  BY ZenonT(30), <1>0, <1>2, <1>3, FrameFields DEF Goto
<1>4. ASSUME NEW k \in SUBSET Dev, WalkStart(k) PROVE ActiveInv(r)'
  BY <1>0, <1>2, <1>4, WalkStarts
<1>5. ASSUME NEW x \in {ret, Top.res}, WalkNote(x) PROVE ActiveInv(r)'
  BY <1>0, <1>2, <1>5, WalkNotes
<1>6. ASSUME NEW x \in {"OK", "ERR", Top.res}, Return(x) PROVE ActiveInv(r)'
  <2>1. PICK d \in Dev : d = Top.dev
    BY Zenon, <1>0
  <2>2. StackPart(r)' /\ BackPart'
    BY Zenon, <1>0, <1>1, <1>6, <2>1, ActPops DEF Return
  <2>3. DataInv'
    BY Zenon, <1>0, <1>6, DataKept DEF Return
  <2> QED
    BY Zenon, <2>2, <2>3 DEF ActiveInv, StackPart, BackPart
<1>7. ASSUME NEW f \in Frame, NEW g \in Frame, stack' = Append(WithTop(f), g), ret' = ret,
             f.fn = Top.fn, f.dev = Top.dev, f.res # "REJECTED", g.fn = Top.fn,
             g.pc = "entry", g.res = "OK"
      PROVE  ActiveInv(r)'
  <2>1. WorkInv(f)' /\ WorkInv(g)' /\ CallInv(f, g)' /\ OrderInv(r, f, g)
        /\ \A i \in 1..(Len(stack) - 1) : OrderInv(r, stack[i], g)
    BY Zenon, <1>7 DEF WorkInv, CallInv, OrderInv, Probing
  <2>2. StackPart(r)' /\ BackPart'
    BY Zenon, <1>0, <1>7, <2>1, ActPushes
  <2>3. DataInv'
    BY Zenon, <1>0, <1>7, DataKept
  <2> QED
    BY Zenon, <2>2, <2>3 DEF ActiveInv, StackPart, BackPart
<1>8. CASE Top.fn = "unbind" /\ WalkCall("unbind")
  <2>1. PICK f \in Frame, g \in Frame :
          /\ stack' = Append(WithTop(f), g) /\ ret' = ret
          /\ f.fn = Top.fn /\ f.dev = Top.dev /\ f.res = Top.res
          /\ g.fn = "unbind" /\ g.pc = "entry" /\ g.res = "OK"
    BY <1>0, <1>8, WalkCalls DEF Fn
  <2> QED
    BY Zenon, <1>0, <1>7, <1>8, <2>1
<1>9. ASSUME Top.fn = "bind", NEW c \in Dev, HookCall("bind", c) PROVE ActiveInv(r)'
  <2> DEFINE g == NewFrame("bind", c, {})
  <2>1. g \in Frame /\ g.fn = "bind" /\ g.pc = "entry" /\ g.res = "OK"
    BY <1>0, FrameFields DEF Fn
  <2>2. stack' = Append(WithTop(Top), g) /\ ret' = ret
    BY Zenon, <1>0, <1>9, SameTop DEF HookCall
  <2> HIDE DEF g
  <2>3. PICK f \in Frame : f = Top
    BY Zenon, <1>0
  <2> QED
    BY Zenon, <1>0, <1>7, <1>9, <2>1, <2>2, <2>3
<1> QED
  BY Zenon, <1>3, <1>4, <1>5, <1>6, <1>8, <1>9

(* A device is bound or unbound: it is not active, and neither is any       *)
(* device below it.                                                         *)
LEMMA FlagsCleared ==
  ASSUME TreeInv, NEW r, ActiveInv(r), Orders(r), stack # <<>>, NEW d \in Dev, d = Top.dev,
         Top.fn \in {"bind", "unbind"},
         flags' = [flags EXCEPT ![d] = {}],
         \A e \in Dev \ {d} : buf'[e] = buf[e],
         mem' = mem \cup {d} \/ mem' = mem \ {d},
         Kids(d) = {}, ret' # "REJECTED"
  PROVE  BelowOK /\ DataInv'
<1>1. TypeOK /\ StackPart(r) /\ DataInv
  BY Zenon, Parts DEF TreeInv
<1>2. \A e \in Dev \ {d} : Same(e)
  BY Zenon, <1>1 DEF Same, Active, HasPriv, TypeOK
<1>3. ~Active(d)' /\ "PLATDATA_VALID" \notin flags'[d]
  BY Zenon, <1>1 DEF Active, TypeOK
<1>4. BelowOK
  BY Zenon, <1>1, <1>2, <1>3, BelowKept
<1>5. ActKids(d) = {}
  BY Zenon, <1>1 DEF ActKids, DataInv, Kids
<1>6. DataInv'
  <2>1. \A e \in Dev : "PLATDATA_VALID" \in flags'[e] => HasPriv(e)'
    BY Zenon, <1>1, <1>2, <1>3 DEF DataInv, Same
  <2>2. \A e \in Dev : e \notin mem' => ~Active(e)'
    BY Zenon, <1>1, <1>2, <1>3 DEF DataInv, Same
  <2>3. ASSUME NEW e \in Dev, Active(e)', ParentOf[e] # None PROVE Active(ParentOf[e])'
    <3>1. e # d /\ Active(e)
      BY Zenon, <1>2, <1>3, <2>3 DEF Same
    <3>2. ParentOf[e] \in Dev /\ ParentOf[e] # d
      BY Zenon, <1>5, <2>3, <3>1, DevAssumption DEF ActKids
    <3> QED
      BY Zenon, <1>1, <1>2, <2>3, <3>1, <3>2 DEF DataInv, Same
  <2> QED
    BY Zenon, <2>1, <2>2, <2>3 DEF DataInv
<1> QED
  BY Zenon, <1>4, <1>6

LEMMA BindEntryKeepsActive ==
  ASSUME TreeInv, NEW r, ActiveInv(r), Orders(r), BindEntry
  PROVE  ActiveInv(r)'
<1>1. stack # <<>> /\ Top.fn = "bind" /\ Top.pc = "entry"
  BY Zenon DEF BindEntry, Running
<1>2. TypeOK /\ StackPart(r) /\ BackPart /\ DataInv /\ Top.dev \in Dev
  BY Zenon, <1>1, Parts, DataTypes DEF TreeInv
<1>3. CASE Return("ERR") /\ UNCHANGED <<mem, flags, buf>>
  BY Zenon, <1>1, <1>3, NothingChanges, CalmControl
<1>4. CASE /\ mem' = mem \cup {Top.dev} /\ flags' = [flags EXCEPT ![Top.dev] = {}]
           /\ buf' = [buf EXCEPT ![Top.dev] = {}] /\ Goto("plat")
  <2>1. PICK d \in Dev : d = Top.dev
    BY Zenon, <1>2
  <2>2. d \notin mem
    BY Zenon, <1>1, <2>1 DEF TreeInv, TopInv, BindInv
  <2>3. Kids(d) = {}
    BY SMTT(30), <2>2, DevAssumption DEF Kids, TreeInv, NoOrphan, TypeOK
  <2>4. ret' = ret /\ ret # "REJECTED" /\ \A e \in Dev \ {d} : buf'[e] = buf[e]
    BY Zenon, <1>2, <1>4, <2>1 DEF Goto, DataInv, TypeOK
  <2>5. BelowOK /\ DataInv'
    BY Zenon, <1>1, <1>4, <2>1, <2>3, <2>4, FlagsCleared
  <2>6. PICK f \in Frame : /\ stack' = WithTop(f) /\ f.fn = Top.fn /\ f.dev = Top.dev
                           /\ f.res = Top.res
    BY <1>1, <1>2, <1>4, FrameFields DEF Goto, Pc
  <2>7. Top.res # "REJECTED"
    BY SMTT(30), <1>1, <1>2, TopFrame DEF StackPart, WorkInv, Top, TypeOK
  <2>8. StackPart(r)' /\ Top' = f
    BY Zenon, <1>1, <1>2, <2>5, <2>6, <2>7, ActMoves DEF WorkInv
  <2>9. BackPart'
    BY Zenon, <1>1, <2>6, <2>8 DEF BackPart, BackInv
  <2> QED
    BY Zenon, <2>5, <2>8, <2>9 DEF ActiveInv, StackPart, BackPart
<1> QED
  BY Zenon, <1>3, <1>4 DEF BindEntry

(* The structure is freed, by the last error label or by device_unbind().   *)
LEMMA FreeKeepsActive ==
  ASSUME TreeInv, NEW r, ActiveInv(r), Orders(r),
         BindFailAlloc1 \/ (UnbindLast /\ mem' # mem)
  PROVE  ActiveInv(r)'
<1>1. stack # <<>> /\ Top.fn \in {"bind", "unbind"}
  BY Zenon DEF BindFailAlloc1, UnbindLast, Running
<1>2. TypeOK /\ StackPart(r) /\ BackPart /\ DataInv /\ Top.dev \in Dev
  BY Zenon, <1>1, Parts, DataTypes DEF TreeInv
<1>3. PICK d \in Dev : d = Top.dev
  BY Zenon, <1>2
<1>4. Kids(d) = {}
  <2>1. CASE BindFailAlloc1
    BY Zenon, <1>3, <2>1 DEF BindFailAlloc1, Running, TreeInv, TopInv, BindInv, NoKidsPc, OffList
  <2>2. CASE UnbindLast
    BY Zenon, <1>3, <2>2 DEF UnbindLast, Running, TreeInv, TopInv, UnbindInv
  <2> QED
    BY Zenon, <2>1, <2>2
<1>5. /\ flags' = [flags EXCEPT ![d] = {}] /\ buf' = buf /\ mem' = mem \ {d}
      /\ stack' = Popped /\ ret' # "REJECTED"
  BY Zenon, <1>3 DEF BindFailAlloc1, UnbindLast, Return, treeVars
<1>6. BelowOK /\ DataInv'
  BY Zenon, <1>1, <1>3, <1>4, <1>5, FlagsCleared
<1>7. StackPart(r)' /\ BackPart'
  BY Zenon, <1>1, <1>2, <1>3, <1>5, <1>6, ActPops
<1> QED
  BY Zenon, <1>6, <1>7 DEF ActiveInv, StackPart, BackPart

(* All other steps of the two functions.                                    *)
LEMMA BufPlats ==
  ASSUME TypeOK, NEW d \in Dev, UNCHANGED flags,
         \/ buf' = buf
         \/ \E b \in Plats : buf' = [buf EXCEPT ![d] = @ \cup {b}]
         \/ \E b \in Plats : buf' = [buf EXCEPT ![d] = @ \ {b}]
         \/ buf' = [buf EXCEPT ![d] = @ \ Plats]
  PROVE  \A e \in Dev : Same(e)
<1>1. Plats \cap Privs = {}
  BY Zenon DEF Plats, Privs
<1>2. \A e \in Dev : buf'[e] \cap Privs = buf[e] \cap Privs
  BY <1>1 DEF TypeOK
<1>3. \A e \in Dev : HasPriv(e)' <=> HasPriv(e)
  BY Zenon, <1>2 DEF HasPriv
<1> QED
  BY Zenon, <1>3 DEF Same, Active

LEMMA BindKeepsActive ==
  ASSUME TreeInv, NEW r, ActiveInv(r), Orders(r), BindStep, ~HookBinds
  PROVE  ActiveInv(r)'
<1>1. CASE BindEntry
  BY Zenon, <1>1, BindEntryKeepsActive
<1>2. CASE BindFailAlloc1
  BY Zenon, <1>2, FreeKeepsActive
<1>3. CASE ~BindEntry /\ ~BindFailAlloc1
  <2>1. stack # <<>> /\ Top.fn = "bind" /\ mem' = mem
    BY ZenonT(30), <1>3 DEF BindStep, Running, BindPlat, BindUclassPlat, BindParentPlat, BindAlloc,
         BindLink, BindHookOk, BindHookFail, BindFailUnbind, BindFailUclass, BindFailUnlink,
         BindFailAlloc3, BindFailAlloc2, BindFailFree, treeVars
  <2>2. TypeOK /\ Top.dev \in Dev
    BY Zenon, <2>1, DataTypes DEF TreeInv
  <2>3. CASE BindHookOk
    <3>1. flags' = flags \/ Set(Top.dev, "BOUND")
      BY Zenon, <2>3 DEF BindHookOk
    <3>2. buf' = buf
      BY Zenon, <2>3 DEF BindHookOk
    <3>3. \A e \in Dev : Same(e)
      BY <2>2, <3>1, <3>2 DEF Set, Same, Active, HasPriv, TypeOK
    <3>4. (\E pc \in Pc : Goto(pc)) \/ Return("OK")
      <4>1. \A h \in BindHook \ {"post_bind"} : BindSucc[h] \in Pc
        BY DEF BindSucc, BindHook, Pc
      <4> QED
        BY Zenon, <2>3, <4>1 DEF BindHookOk
    <3> QED
      BY Zenon, <2>1, <3>3, <3>4, CalmControl
  <2>4. CASE ~BindHookOk
    <3>1. /\ flags' = flags
          /\ \/ buf' = buf
             \/ \E b \in Plats : buf' = [buf EXCEPT ![Top.dev] = @ \cup {b}]
             \/ \E b \in Plats : buf' = [buf EXCEPT ![Top.dev] = @ \ {b}]
      BY ZenonT(30), <1>3, <2>4 DEF BindStep, BindPlat, BindUclassPlat, BindParentPlat, BindAlloc,
         BindLink, BindHookFail, BindFailUnbind, BindFailUclass, BindFailUnlink,
         BindFailAlloc3, BindFailAlloc2, BindFailFree, Plats
    <3>2. \E pc \in Pc : Goto(pc)
      <4>1. \A h \in BindHook : BindFail[h] \in Pc
        BY DEF BindFail, BindHook, Pc
      <4>2. /\ "uclass_plat" \in Pc /\ "parent_plat" \in Pc /\ "link" \in Pc
            /\ "fail_alloc1" \in Pc /\ "fail_alloc2" \in Pc /\ "fail_alloc3" \in Pc
            /\ "uc_child_post_bind" \in Pc /\ "fail_bind" \in Pc /\ "fail_uclass_bind" \in Pc
        BY Zenon DEF Pc, BindHook
      <4> QED
        BY Zenon, <1>3, <2>4, <4>1, <4>2
        DEF BindStep, BindPlat, BindUclassPlat, BindParentPlat, BindAlloc,
            BindLink, BindHookFail, BindFailUnbind, BindFailUclass, BindFailUnlink,
            BindFailAlloc3, BindFailAlloc2, BindFailFree
    <3>3. \A e \in Dev : Same(e)
      BY Zenon, <2>2, <3>1, BufPlats
    <3> QED
      BY Zenon, <2>1, <3>2, <3>3, CalmControl
  <2> QED
    BY Zenon, <2>3, <2>4
<1> QED
  BY Zenon, <1>1, <1>2, <1>3

LEMMA UnbindKeepsActive ==
  ASSUME TreeInv, NEW r, ActiveInv(r), Orders(r), UnbindStep
  PROVE  ActiveInv(r)'
<1>1. CASE UnbindLast /\ mem' # mem
  BY Zenon, <1>1, FreeKeepsActive
<1>2. CASE ~UnbindLast \/ mem' = mem
  <2>1. stack # <<>> /\ Top.fn = "unbind" /\ mem' = mem
    BY ZenonT(30), <1>2 DEF UnbindStep, Running, UnbindEntry, UnbindHook, UnbindChild, UnbindChildDone,
         UnbindChildren, UnbindLast, treeVars
  <2>2. TypeOK /\ Top.dev \in Dev /\ Top.dev \in mem
    BY SMTT(30), <2>1, DataTypes, TopFrame DEF TreeInv, FramesLive, Top, TypeOK
  <2>3. flags' = flags /\ (buf' = buf \/ buf' = [buf EXCEPT ![Top.dev] = @ \ Plats])
    BY Zenon, <1>2, <2>1, <2>2 DEF UnbindStep, UnbindEntry, UnbindHook, UnbindChild, UnbindChildDone,
         UnbindChildren, UnbindLast, treeVars
  <2>4. \/ \E pc \in Pc : Goto(pc)
        \/ \E x \in {"OK", "ERR", Top.res} : Return(x)
        \/ \E k \in SUBSET Dev : WalkStart(k)
        \/ \E x \in {ret, Top.res} : WalkNote(x)
        \/ Top.fn = "unbind" /\ WalkCall("unbind")
    <3>1. "unbind" \in Pc /\ "pre_unbind" \in Pc /\ Children(Top.dev) \in SUBSET Dev
      BY Zenon, <2>1, <2>2, DataTypes DEF Pc
    <3> QED
      BY ZenonT(30), <2>1, <3>1 DEF UnbindStep, UnbindEntry, UnbindHook, UnbindChild, UnbindChildDone,
         UnbindChildren, UnbindLast
  <2>5. \A e \in Dev : Same(e)
    BY Zenon, <2>2, <2>3, BufPlats
  <2> QED
    BY Zenon, <2>1, <2>4, <2>5, CalmControl
<1> QED
  BY Zenon, <1>1, <1>2

-----------------------------------------------------------------------------
(* Steps that only touch the stack, and steps that free private data *)

LEMMA TopFacts ==
  ASSUME TreeInv, NEW r, ActiveInv(r), stack # <<>>
  PROVE  /\ TypeOK /\ StackPart(r) /\ BackPart /\ DataInv
         /\ stack \in Seq(Frame) /\ Len(stack) \in Nat \ {0}
         /\ Top \in Frame /\ Top.dev \in Dev /\ WorkInv(Top) /\ BackInv(Top)
         /\ ret \in Ret \ {"REJECTED"} /\ Top.res \in Ret \ {"REJECTED"}
<1>1. TypeOK /\ StackPart(r) /\ BackPart /\ DataInv
  BY Zenon, Parts DEF TreeInv
<1>2. Top \in Frame /\ stack \in Seq(Frame) /\ Len(stack) \in Nat \ {0}
  BY Zenon, <1>1, TopFrame DEF TypeOK
<1>3. WorkInv(Top)
  BY <1>1, <1>2 DEF StackPart, Top
<1> QED
  BY Zenon, <1>1, <1>2, <1>3 DEF WorkInv, DataInv, Frame, TypeOK, BackPart

LEMMA CalmPop ==
  ASSUME TreeInv, NEW r, ActiveInv(r), stack # <<>>, UNCHANGED <<mem, flags, buf>>,
         NEW x \in Ret \ {"REJECTED"}, Return(x),
         x = "OK" => /\ Top.fn = "of_to_plat" => Ready(Top.dev)
                     /\ Top.fn = "probe" => Active(Top.dev)
                     /\ Top.fn = "remove" => ~Active(Top.dev)
  PROVE  ActiveInv(r)'
<1>1. TypeOK /\ StackPart(r) /\ DataInv /\ Top.dev \in Dev
  BY Zenon, TopFacts
<1>2. (\A e \in Dev : Same(e)) /\ BelowOK
  BY Zenon, <1>1, NothingChanges, BelowSame
<1>3. PICK d \in Dev : d = Top.dev
  BY Zenon, <1>1
<1>4. (Ready(d)' <=> Ready(d)) /\ (Active(d)' <=> Active(d))
  BY Zenon DEF Ready, Active, HasPriv
<1>5. StackPart(r)' /\ BackPart'
  BY Zenon, <1>1, <1>2, <1>3, <1>4, ActPops DEF Return
<1>6. DataInv'
  BY Zenon, <1>1, <1>2, DataKept DEF Return
<1> QED
  BY Zenon, <1>5, <1>6 DEF ActiveInv, StackPart, BackPart

LEMMA CalmMove ==
  ASSUME TreeInv, NEW r, ActiveInv(r), stack # <<>>, UNCHANGED <<mem, flags, buf, ret>>,
         NEW f \in Frame, stack' = WithTop(f), f.fn = Top.fn, f.dev = Top.dev,
         WorkInv(f), BackInv(f),
         f.fn = "remove" /\ f.pc # "entry" =>
           \/ Top.pc # "entry" \/ Len(stack) = 1 \/ stack[1].fn = "remove"
           \/ stack[Len(stack) - 1].fn # "remove"
  PROVE  ActiveInv(r)'
<1>1. TypeOK /\ StackPart(r) /\ DataInv /\ Top.dev \in Dev
  BY Zenon, TopFacts
<1>2. (\A e \in Dev : Same(e)) /\ BelowOK
  BY Zenon, <1>1, NothingChanges, BelowSame
<1>3. WorkInv(f)' /\ BackInv(f)'
  BY SMTT(30) DEF WorkInv, BackInv, Ready, Active, HasPriv, ActKids
<1>4. StackPart(r)' /\ Top' = f
  BY Zenon, <1>1, <1>2, <1>3, ActMoves
<1>5. BackPart'
  BY Zenon, <1>3, <1>4 DEF BackPart, BackInv
<1>6. DataInv'
  BY ZenonT(30), <1>1, <1>2, DataKept DEF DataInv
<1> QED
  BY Zenon, <1>4, <1>5, <1>6 DEF ActiveInv, StackPart, BackPart

LEMMA CalmPush ==
  ASSUME TreeInv, NEW r, ActiveInv(r), stack # <<>>, UNCHANGED <<mem, flags, buf, ret>>,
         NEW f \in Frame, NEW g \in Frame, stack' = Append(WithTop(f), g),
         f.fn = Top.fn, f.dev = Top.dev, f.fn = "remove" => Top.pc # "entry",
         g.pc = "entry", WorkInv(f), WorkInv(g), CallInv(f, g), OrderInv(r, f, g),
         \A i \in 1..(Len(stack) - 1) : OrderInv(r, stack[i], g)
  PROVE  ActiveInv(r)'
<1>1. TypeOK /\ StackPart(r) /\ DataInv /\ Top.dev \in Dev
  BY Zenon, TopFacts
<1>2. \A e \in Dev : Same(e)
  BY Zenon, NothingChanges
<1>3. WorkInv(f)' /\ WorkInv(g)' /\ CallInv(f, g)'
  BY ZenonT(30) DEF WorkInv, CallInv, Ready, Active, HasPriv, ActKids
<1>4. StackPart(r)' /\ BackPart'
  BY ZenonT(30), <1>1, <1>2, <1>3, ActPushes
<1>6. DataInv'
  BY Zenon, <1>1, <1>2, DataKept DEF DataInv
<1> QED
  BY Zenon, <1>4, <1>6 DEF ActiveInv, StackPart, BackPart

(* A probing frame calls a function for a device that comes earlier, or for *)
(* its own.                                                                 *)
LEMMA OrderBelow ==
  ASSUME TreeInv, NEW r, StackPart(r), Orders(r), stack # <<>>, Top.fn \in Probing,
         NEW g \in Frame,
         r[g.dev] < r[Top.dev] \/ (g.dev = Top.dev /\ Top.fn = "probe")
  PROVE  \A i \in 1..(Len(stack) - 1) : OrderInv(r, stack[i], g)
<1> SUFFICES ASSUME NEW i \in 1..(Len(stack) - 1) PROVE OrderInv(r, stack[i], g)
  BY Zenon
<1>1. Top \in Frame /\ stack[i] \in Frame /\ Len(stack) \in Nat \ {0}
  BY SMTT(30), TopFrame DEF TreeInv, TypeOK
<1>2. r[g.dev] \in Nat /\ r[Top.dev] \in Nat /\ r[stack[i].dev] \in Nat
  BY Zenon, <1>1 DEF Orders, Frame
<1>3. CASE Top.fn = "probe"
  <2>1. r[Top.dev] < r[stack[i].dev]
    BY Zenon, <1>3, BelowDiffers
  <2> QED
    BY SMTT(30), <1>2, <2>1 DEF OrderInv
<1>4. CASE Top.fn = "of_to_plat"
  <2>1. r[g.dev] < r[Top.dev]
    BY Zenon, <1>4
  <2>2. OrderInv(r, stack[i], Top)
    BY SMTT(30), <1>1 DEF StackPart, Top
  <2> QED
    BY <1>2, <1>4, <2>1, <2>2 DEF OrderInv, Probing
<1> QED
  BY Zenon, <1>3, <1>4 DEF Probing

(* device_free(), with DM_FLAG_ACTIVATED cleared or not, and the return.    *)
LEMMA FreePop ==
  ASSUME TreeInv, NEW r, ActiveInv(r), Orders(r), stack # <<>>, mem' = mem,
         NEW d \in Dev, d = Top.dev, NEW S,
         flags' = [flags EXCEPT ![d] = @ \ S], "PLATDATA_VALID" \in S,
         buf' = [buf EXCEPT ![d] = @ \ (AutoBufs[d] \cap Privs)],
         "ACTIVATED" \in S => Top.fn \in {"probe", "remove"} /\ ActKids(d) = {},
         Top.fn = "remove" => Top.pc # "entry",
         NEW x \in Ret \ {"REJECTED"}, Return(x),
         x = "OK" => Top.fn = "remove" /\ "ACTIVATED" \in S
  PROVE  ActiveInv(r)'
<1>1. TypeOK /\ StackPart(r) /\ DataInv
  BY Zenon, TopFacts
<1>2. \A e \in Dev \ {d} : Same(e)
  BY Zenon, <1>1 DEF Same, Active, HasPriv, TypeOK
<1>3. /\ Active(d)' <=> Active(d) /\ "ACTIVATED" \notin S
      /\ "PLATDATA_VALID" \notin flags'[d]
  BY Zenon, <1>1 DEF Active, TypeOK
<1>4. BelowOK
  BY Zenon, <1>1, <1>2, <1>3, BelowKept
<1>5. StackPart(r)' /\ BackPart'
  BY ZenonT(30), <1>1, <1>3, <1>4, ActPops DEF Return
<1>6. DataInv'
  <2>1. \A e \in Dev : "PLATDATA_VALID" \in flags'[e] => HasPriv(e)'
    BY Zenon, <1>1, <1>2, <1>3 DEF DataInv, Same
  <2>2. \A e \in Dev : e \notin mem' => ~Active(e)'
    BY Zenon, <1>1, <1>2, <1>3 DEF DataInv, Same
  <2>3. ASSUME NEW e \in Dev, Active(e)', ParentOf[e] # None PROVE Active(ParentOf[e])'
    <3>1. Active(e) /\ ParentOf[e] \in Dev /\ Active(ParentOf[e])
      BY ZenonT(30), <1>1, <1>2, <1>3, <2>3, DevAssumption DEF Same, DataInv
    <3>2. CASE ParentOf[e] = d
      BY Zenon, <1>3, <3>1, <3>2 DEF ActKids
    <3>3. CASE ParentOf[e] # d
      BY Zenon, <1>2, <3>1, <3>3 DEF Same
    <3> QED
      BY Zenon, <3>2, <3>3
  <2> QED
    BY Zenon, <2>1, <2>2, <2>3 DEF DataInv, Return
<1> QED
  BY Zenon, <1>5, <1>6 DEF ActiveInv, StackPart, BackPart

(* A hook of device_probe() binds a child.                                  *)
LEMMA HookBindsKeepsActive ==
  ASSUME TreeInv, NEW r, ActiveInv(r), HookBinds
  PROVE  ActiveInv(r)'
<1>1. stack # <<>> /\ UNCHANGED <<mem, flags, buf>>
  BY Zenon DEF HookBinds, Running, treeVars
<1>2. PICK c \in Dev : HookCall("bind", c)
  BY Zenon DEF HookBinds
<1>3. TypeOK /\ Top \in Frame /\ stack \in Seq(Frame) /\ WorkInv(Top)
  BY Zenon, <1>1, TopFacts
<1>4. CASE Top.fn = "bind"
  BY Zenon, <1>1, <1>2, <1>4, NothingChanges, CalmControl
<1>5. CASE Top.fn # "bind"
  <2>1. Top.fn = "probe" /\ Top.pc = "probe"
    BY Zenon, <1>5 DEF HookBinds, Running
  <2> DEFINE g == NewFrame("bind", c, {})
  <2>2. g \in Frame /\ g.fn = "bind" /\ g.pc = "entry" /\ g.res = "OK"
    BY <1>1, <1>3, FrameFields DEF Fn
  <2>3. stack' = Append(WithTop(Top), g) /\ ret' = ret
    BY Zenon, <1>1, <1>2, <1>3, SameTop DEF HookCall
  <2> HIDE DEF g
  <2>4. WorkInv(g) /\ CallInv(Top, g) /\ OrderInv(r, Top, g)
        /\ \A i \in 1..(Len(stack) - 1) : OrderInv(r, stack[i], g)
    BY Zenon, <2>1, <2>2 DEF WorkInv, CallInv, OrderInv, Probing
  <2>5. PICK f \in Frame : f = Top
    BY Zenon, <1>3
  <2> QED
    BY Zenon, <1>1, <1>3, <2>1, <2>2, <2>3, <2>4, <2>5, CalmPush
<1> QED
  BY Zenon, <1>4, <1>5
=============================================================================
