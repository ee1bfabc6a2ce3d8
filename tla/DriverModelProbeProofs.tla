----------------------- MODULE DriverModelProbeProofs -----------------------
(***************************************************************************)
(* Proofs about activation: for every device tree whose devices do not      *)
(* depend on each other in a circle, and removals that reject no driver,    *)
(* ActiveInv is inductive beside TreeInv.                                   *)
(***************************************************************************)
EXTENDS DriverModelActiveProofs, WellFoundedInduction

-----------------------------------------------------------------------------
(* device_of_to_plat() and device_probe() *)

LEMMA CallFields ==
  ASSUME TypeOK, stack # <<>>, NEW pc \in Pc, NEW fn \in Fn, NEW e \in Dev,
         NEW rf \in SUBSET RemoveFlag, CallFrom(At(pc), NewFrame(fn, e, rf))
  PROVE  \E f \in Frame, g \in Frame :
           /\ stack' = Append(WithTop(f), g) /\ ret' = ret
           /\ f.fn = Top.fn /\ f.dev = Top.dev /\ f.pc = pc /\ f.res = Top.res
           /\ f.todo = Top.todo /\ f.rf = Top.rf
           /\ g.fn = fn /\ g.dev = e /\ g.pc = "entry" /\ g.res = "OK" /\ g.rf = rf
           /\ g.todo = {}
<1> DEFINE f == At(pc)
           g == NewFrame(fn, e, rf)
<1>1. /\ f \in Frame /\ f.fn = Top.fn /\ f.dev = Top.dev /\ f.pc = pc /\ f.res = Top.res
      /\ f.todo = Top.todo /\ f.rf = Top.rf
  BY Zenon, FrameFields
<1>2. /\ g \in Frame /\ g.fn = fn /\ g.dev = e /\ g.pc = "entry" /\ g.res = "OK" /\ g.rf = rf
      /\ g.todo = {}
  BY FrameFields
<1>3. stack' = Append(WithTop(f), g) /\ ret' = ret
  BY Zenon DEF CallFrom
<1> HIDE DEF f, g
<1> QED
  BY Zenon, <1>1, <1>2, <1>3

(* A jump to a label at which only the frame's own invariant matters.       *)
LEMMA CalmGoto ==
  ASSUME TreeInv, NEW r, ActiveInv(r), stack # <<>>, UNCHANGED <<mem, flags, buf>>,
         NEW pc \in Pc, Goto(pc),
         Top.fn = "remove" => Top.pc # "entry",
         \A f \in Frame :
           /\ f.fn = Top.fn /\ f.dev = Top.dev /\ f.pc = pc /\ f.res = Top.res
           /\ f.rf = Top.rf /\ f.todo = Top.todo
           => WorkInv(f) /\ BackInv(f)
  PROVE  ActiveInv(r)'
<1>1. TypeOK
  BY Zenon, TopFacts
<1>2. PICK f \in Frame : /\ stack' = WithTop(f) /\ f.fn = Top.fn /\ f.dev = Top.dev
                         /\ f.pc = pc /\ f.res = Top.res /\ f.rf = Top.rf /\ f.todo = Top.todo
  BY <1>1, FrameFields DEF Goto
<1> QED
  BY Zenon, <1>2, CalmMove DEF Goto

LEMMA OfToPlatEntryActive ==
  ASSUME TreeInv, NEW r, ActiveInv(r), Orders(r), OfToPlatEntry
  PROVE  ActiveInv(r)'
<1>1. /\ stack # <<>> /\ Top.fn = "of_to_plat" /\ Top.pc = "entry"
      /\ UNCHANGED <<mem, flags, buf>>
  BY Zenon DEF OfToPlatEntry, Running, treeVars
<1>2. /\ TypeOK /\ StackPart(r) /\ DataInv /\ Top \in Frame /\ Top.dev \in Dev /\ WorkInv(Top)
      /\ Top.res \in Ret \ {"REJECTED"}
  BY Zenon, <1>1, TopFacts
<1>3. CASE "PLATDATA_VALID" \in flags[Top.dev] /\ Return("OK")
  BY Zenon, <1>1, <1>2, <1>3, CalmPop DEF Ready, DataInv, Ret
<1>4. CASE ParentOf[Top.dev] # None /\ Call("of_to_plat", ParentOf[Top.dev], "parent")
  <2>1. PICK e \in Dev : e = ParentOf[Top.dev]
    BY Zenon, <1>2, <1>4, DevAssumption
  <2>2. CallFrom(At("parent"), NewFrame("of_to_plat", e, {}))
        /\ "parent" \in Pc /\ "of_to_plat" \in Fn /\ {} \in SUBSET RemoveFlag
    BY Zenon, <1>4, <2>1 DEF Call, Pc, Fn
  <2>3. PICK f \in Frame, g \in Frame :
           /\ stack' = Append(WithTop(f), g) /\ ret' = ret
           /\ f.fn = Top.fn /\ f.dev = Top.dev /\ f.pc = "parent" /\ f.res = Top.res
           /\ g.fn = "of_to_plat" /\ g.dev = e /\ g.pc = "entry" /\ g.res = "OK"
    BY SMTT(30), <1>1, <1>2, <2>2, CallFields
  <2>4. r[g.dev] < r[Top.dev]
    BY Zenon, <1>2, <1>4, <2>1, <2>3 DEF Orders
  <2>5. \A i \in 1..(Len(stack) - 1) : OrderInv(r, stack[i], g)
    BY Zenon, <1>1, <1>2, <2>4, OrderBelow DEF Probing
  <2>6. WorkInv(f) /\ WorkInv(g) /\ CallInv(f, g) /\ OrderInv(r, f, g)
    BY Zenon, <1>1, <1>2, <2>3, <2>4 DEF WorkInv, CallInv, OrderInv
  <2> QED
    BY Zenon, <1>1, <2>3, <2>5, <2>6, CalmPush
<1>5. CASE Goto("alloc_priv")
  BY Zenon, <1>1, <1>2, <1>5, CalmGoto DEF WorkInv, BackInv, Pc
<1> QED
  BY Zenon, <1>3, <1>4, <1>5 DEF OfToPlatEntry

LEMMA FailsActive ==
  ASSUME TreeInv, NEW r, ActiveInv(r), Orders(r), stack # <<>>, Top.fn = "of_to_plat",
         mem' = mem, NEW x \in Ret \ {"OK", "REJECTED"}, Fails(x)
  PROVE  ActiveInv(r)'
<1>1. PICK d \in Dev : d = Top.dev
  BY Zenon, TopFacts
<1>2. /\ flags' = [flags EXCEPT ![d] = @ \ {"PLATDATA_VALID"}]
      /\ buf' = [buf EXCEPT ![d] = @ \ (AutoBufs[d] \cap Privs)] /\ Return(x)
  BY Zenon, <1>1 DEF Fails, DeviceFree
<1> QED
  BY Zenon, <1>1, <1>2, FreePop

LEMMA OfToPlatParentActive ==
  ASSUME TreeInv, NEW r, ActiveInv(r), Orders(r), OfToPlatParent
  PROVE  ActiveInv(r)'
<1>1. stack # <<>> /\ Top.fn = "of_to_plat" /\ Top.pc = "parent" /\ mem' = mem
  BY Zenon DEF OfToPlatParent, Running, treeVars
<1>2. /\ TypeOK /\ DataInv /\ Top.dev \in Dev /\ Top.res \in Ret \ {"REJECTED"}
      /\ ret \in Ret \ {"REJECTED"}
  BY Zenon, <1>1, TopFacts
<1>3. CASE ret # "OK" /\ Fails(ret)
  <2>1. PICK x \in Ret \ {"OK", "REJECTED"} : x = ret
    BY Zenon, <1>2, <1>3
  <2> QED
    BY Zenon, <1>1, <1>3, <2>1, FailsActive
<1>4. CASE "PLATDATA_VALID" \in flags[Top.dev] /\ Return("OK") /\ UNCHANGED <<flags, buf>>
  BY Zenon, <1>1, <1>2, <1>4, CalmPop DEF Ready, DataInv, Ret
<1>5. CASE Goto("alloc_priv") /\ UNCHANGED <<flags, buf>>
  BY Zenon, <1>1, <1>2, <1>5, CalmGoto DEF WorkInv, BackInv, Pc
<1> QED
  BY Zenon, <1>3, <1>4, <1>5 DEF OfToPlatParent

(* The plat or the private data of a device become available.               *)
LEMMA GainData ==
  ASSUME TreeInv, NEW r, ActiveInv(r), Orders(r), stack # <<>>, Top.fn = "of_to_plat",
         mem' = mem, ret' # "REJECTED", NEW d \in Dev, d = Top.dev,
         \A e \in Dev \ {d} : Same(e), Active(d)' <=> Active(d), HasPriv(d)'
  PROVE  BelowOK /\ DataInv'
<1>1. TypeOK /\ StackPart(r) /\ DataInv
  BY Zenon, TopFacts
<1>2. BelowOK
  BY Zenon, <1>1, BelowKept
<1>3. \A e \in Dev : ParentOf[e] # None => ParentOf[e] \in Dev
  BY Zenon, DevAssumption
<1>4. \A e \in Dev : Active(e)' <=> Active(e)
  BY Zenon DEF Same
<1>5. DataInv'
  BY Zenon, <1>1, <1>3, <1>4 DEF DataInv, Same
<1> QED
  BY Zenon, <1>2, <1>5

LEMMA OfToPlatAllocActive ==
  ASSUME TreeInv, NEW r, ActiveInv(r), Orders(r), OfToPlatAlloc
  PROVE  ActiveInv(r)'
<1>1. stack # <<>> /\ Top.fn = "of_to_plat" /\ Top.pc = "alloc_priv" /\ mem' = mem
  BY Zenon DEF OfToPlatAlloc, Running, treeVars
<1>2. /\ TypeOK /\ StackPart(r) /\ DataInv /\ Top.dev \in Dev /\ Top.res \in Ret \ {"REJECTED"}
      /\ ret \in Ret \ {"REJECTED"}
  BY Zenon, <1>1, TopFacts
<1>3. CASE Fails("ERR")
  BY Zenon, <1>1, <1>3, FailsActive DEF Ret
<1>4. CASE /\ buf' = [buf EXCEPT ![Top.dev] = @ \cup (AutoBufs[Top.dev] \cap Privs)]
           /\ Goto("of_to_plat") /\ UNCHANGED flags
  <2>1. PICK d \in Dev : d = Top.dev
    BY Zenon, <1>2
  <2>2. (\A e \in Dev \ {d} : Same(e)) /\ (Active(d)' <=> Active(d)) /\ HasPriv(d)'
    BY Zenon, <1>2, <1>4, <2>1 DEF Same, Active, HasPriv, TypeOK
  <2>3. BelowOK /\ DataInv'
    BY Zenon, <1>1, <1>2, <1>4, <2>1, <2>2, GainData DEF Goto
  <2>4. PICK f \in Frame : /\ stack' = WithTop(f) /\ f.fn = Top.fn /\ f.dev = d
                           /\ f.pc = "of_to_plat" /\ f.res = Top.res
    BY SMTT(30), <1>1, <1>2, <1>4, <2>1, FrameFields DEF Goto, Pc
  <2>5. WorkInv(f)' /\ BackInv(f)'
    BY Zenon, <1>1, <1>2, <2>2, <2>4 DEF WorkInv, BackInv
  <2>6. StackPart(r)' /\ Top' = f
    BY Zenon, <1>1, <1>2, <2>1, <2>3, <2>4, <2>5, ActMoves
  <2>7. BackPart'
    BY Zenon, <2>5, <2>6 DEF BackPart, BackInv
  <2> QED
    BY Zenon, <2>3, <2>6, <2>7 DEF ActiveInv, StackPart, BackPart
<1> QED
  BY Zenon, <1>3, <1>4 DEF OfToPlatAlloc

LEMMA OfToPlatHookActive ==
  ASSUME TreeInv, NEW r, ActiveInv(r), Orders(r), OfToPlatHook
  PROVE  ActiveInv(r)'
<1>1. stack # <<>> /\ Top.fn = "of_to_plat" /\ Top.pc = "of_to_plat" /\ mem' = mem
  BY Zenon DEF OfToPlatHook, Running, treeVars
<1>2. TypeOK /\ StackPart(r) /\ DataInv /\ Top.dev \in Dev /\ WorkInv(Top)
  BY Zenon, <1>1, TopFacts
<1>3. CASE Fails("ERR")
  BY Zenon, <1>1, <1>3, FailsActive DEF Ret
<1>4. CASE Set(Top.dev, "PLATDATA_VALID") /\ Return("OK") /\ UNCHANGED buf
  <2>1. PICK d \in Dev : d = Top.dev
    BY Zenon, <1>2
  <2>2. /\ \A e \in Dev \ {d} : Same(e)
        /\ Active(d)' <=> Active(d)
        /\ HasPriv(d)'
        /\ "PLATDATA_VALID" \in flags'[d]
    BY Zenon, <1>1, <1>2, <1>4, <2>1 DEF Set, Same, Active, HasPriv, TypeOK, WorkInv
  <2>3. BelowOK /\ DataInv'
    BY Zenon, <1>1, <1>2, <1>4, <2>1, <2>2, GainData DEF Return
  <2>4. Ready(d)'
    BY Zenon, <2>2 DEF Ready
  <2>5. StackPart(r)' /\ BackPart'
    BY Zenon, <1>1, <1>2, <1>4, <2>1, <2>3, <2>4, ActPops DEF Return
  <2> QED
    BY Zenon, <2>3, <2>5 DEF ActiveInv, StackPart, BackPart
<1> QED
  BY Zenon, <1>3, <1>4 DEF OfToPlatHook

LEMMA ProbeFailsActive ==
  ASSUME TreeInv, NEW r, ActiveInv(r), Orders(r), stack # <<>>, Top.fn = "probe",
         Top.pc # "entry", mem' = mem, NEW x \in Ret \ {"OK", "REJECTED"}, ProbeFails(x)
  PROVE  ActiveInv(r)'
<1>1. PICK d \in Dev : d = Top.dev
  BY Zenon, TopFacts
<1> DEFINE S == {"PLATDATA_VALID", "ACTIVATED"}
<1>2. /\ flags' = [flags EXCEPT ![d] = @ \ S] /\ "PLATDATA_VALID" \in S
      /\ buf' = [buf EXCEPT ![d] = @ \ (AutoBufs[d] \cap Privs)] /\ Return(x)
  BY Zenon, <1>1 DEF ProbeFails, DeactivateAndFree
<1>3. ActKids(d) = {}
  BY Zenon, <1>1, TopFacts DEF WorkInv
<1> HIDE DEF S
<1> QED
  BY Zenon, <1>1, <1>2, <1>3, FreePop

(* DM_FLAG_ACTIVATED is set, and the first hook called.                     *)
LEMMA ActivateActive ==
  ASSUME TreeInv, NEW r, ActiveInv(r), Orders(r), stack # <<>>, Top.fn = "probe",
         mem' = mem, Ready(Top.dev), ActKids(Top.dev) = {},
         ParentOf[Top.dev] # None => Active(ParentOf[Top.dev]),
         Activate(Top.dev)
  PROVE  ActiveInv(r)'
<1>1. /\ TypeOK /\ StackPart(r) /\ DataInv /\ Top.dev \in Dev /\ Top.res \in Ret \ {"REJECTED"}
      /\ ret \in Ret \ {"REJECTED"}
  BY Zenon, TopFacts
<1>2. Top.dev \in mem
  BY SMTT(30), <1>1, TopFrame DEF TreeInv, FramesLive, Top, TypeOK
<1>3. PICK d \in Dev : d = Top.dev
  BY Zenon, <1>1
<1>4. flags' = [flags EXCEPT ![d] = @ \cup {"ACTIVATED"}] /\ buf' = buf /\ ret' = ret
  BY Zenon, <1>3 DEF Activate, Set, Goto
<1>5. \A e \in Dev \ {d} : Same(e)
  BY Zenon, <1>1, <1>4 DEF Same, Active, HasPriv, TypeOK
<1>6. Active(d)' /\ Ready(d)'
  BY Zenon, <1>1, <1>3, <1>4 DEF Active, Ready, HasPriv, TypeOK
<1>7. BelowOK
  BY Zenon, <1>1, <1>3, <1>5, BelowKept
<1>8. \A e \in Dev : ParentOf[e] # None => ParentOf[e] \in Dev /\ ParentOf[e] # e
  BY SMTT(30), DevAssumption
<1>9. DataInv'
  <2>1. \A e \in Dev : "PLATDATA_VALID" \in flags'[e] => HasPriv(e)'
    BY Zenon, <1>1, <1>5, <1>6 DEF DataInv, Same, Ready
  <2>2. \A e \in Dev : e \notin mem' => ~Active(e)'
    BY Zenon, <1>1, <1>2, <1>3, <1>5 DEF DataInv, Same
  <2>3. ASSUME NEW e \in Dev, Active(e)', ParentOf[e] # None PROVE Active(ParentOf[e])'
    <3>1. Active(ParentOf[e])
      BY Zenon, <1>1, <1>3, <1>5, <2>3 DEF DataInv, Same
    <3> QED
      BY Zenon, <1>5, <1>6, <1>8, <2>3, <3>1 DEF Same
  <2> QED
    BY Zenon, <1>1, <1>4, <2>1, <2>2, <2>3 DEF DataInv
<1>10. ActKids(d)' = {}
  BY SMTT(30), <1>3, <1>5, <1>8, DevAssumption DEF ActKids, Same
<1>11. PICK pc \in ProbeHook : Goto(pc)
  BY Zenon DEF Activate, ProbeHook
<1>12. PICK f \in Frame : /\ stack' = WithTop(f) /\ f.fn = Top.fn /\ f.dev = d
                          /\ f.pc = pc /\ f.res = Top.res
  BY SMTT(30), <1>1, <1>3, <1>11, FrameFields DEF Goto, Pc
<1>13. WorkInv(f)' /\ BackInv(f)'
  BY Zenon, <1>1, <1>6, <1>10, <1>12 DEF WorkInv, BackInv, ProbeHook
<1>14. StackPart(r)' /\ Top' = f
  BY Zenon, <1>1, <1>3, <1>7, <1>12, <1>13, ActMoves
<1>15. BackPart'
  BY Zenon, <1>13, <1>14 DEF BackPart, BackInv
<1> QED
  BY Zenon, <1>9, <1>14, <1>15 DEF ActiveInv, StackPart, BackPart

LEMMA ProbeEntryActive ==
  ASSUME TreeInv, NEW r, ActiveInv(r), Orders(r), ProbeEntry
  PROVE  ActiveInv(r)'
<1>1. stack # <<>> /\ Top.fn = "probe" /\ Top.pc = "entry" /\ UNCHANGED <<mem, flags, buf>>
  BY Zenon DEF ProbeEntry, Running, treeVars
<1>2. TypeOK /\ StackPart(r) /\ DataInv /\ Top.dev \in Dev /\ Top.res \in Ret \ {"REJECTED"}
  BY Zenon, <1>1, TopFacts
<1>3. CASE "ACTIVATED" \in flags[Top.dev] /\ Return("OK")
  BY Zenon, <1>1, <1>3, CalmPop DEF Active, Ret
<1>4. CASE "ACTIVATED" \notin flags[Top.dev] /\ Call("of_to_plat", Top.dev, "of_to_plat")
  <2>1. CallFrom(At("of_to_plat"), NewFrame("of_to_plat", Top.dev, {}))
        /\ "of_to_plat" \in Pc /\ "of_to_plat" \in Fn /\ {} \in SUBSET RemoveFlag
    BY Zenon, <1>4 DEF Call, Pc, Fn
  <2>2. PICK f \in Frame, g \in Frame :
           /\ stack' = Append(WithTop(f), g) /\ ret' = ret
           /\ f.fn = Top.fn /\ f.dev = Top.dev /\ f.pc = "of_to_plat" /\ f.res = Top.res
           /\ g.fn = "of_to_plat" /\ g.dev = Top.dev /\ g.pc = "entry" /\ g.res = "OK"
    BY SMTT(30), <1>1, <1>2, <2>1, CallFields
  <2>3. \A i \in 1..(Len(stack) - 1) : OrderInv(r, stack[i], g)
    BY Zenon, <1>1, <1>2, <2>2, OrderBelow DEF Probing
  <2>4. ~Active(Top.dev) /\ ActKids(Top.dev) = {}
    BY SMTT(30), <1>2, <1>4, DevAssumption DEF Active, ActKids, DataInv
  <2>5. WorkInv(f) /\ WorkInv(g) /\ CallInv(f, g) /\ OrderInv(r, f, g)
    BY Zenon, <1>1, <1>2, <2>2, <2>4 DEF WorkInv, CallInv, OrderInv, ProbeHook
  <2> QED
    BY Zenon, <1>1, <2>2, <2>3, <2>5, CalmPush
<1> QED
  BY Zenon, <1>3, <1>4 DEF ProbeEntry

LEMMA ProbeOfToPlatActive ==
  ASSUME TreeInv, NEW r, ActiveInv(r), Orders(r), ProbeOfToPlat
  PROVE  ActiveInv(r)'
<1>1. stack # <<>> /\ Top.fn = "probe" /\ Top.pc = "of_to_plat" /\ mem' = mem
  BY Zenon DEF ProbeOfToPlat, Running, treeVars
<1>2. /\ TypeOK /\ StackPart(r) /\ DataInv /\ Top.dev \in Dev /\ Top.res \in Ret \ {"REJECTED"}
      /\ ret \in Ret \ {"REJECTED"} /\ WorkInv(Top) /\ BackInv(Top)
  BY Zenon, <1>1, TopFacts
<1>3. ~Active(Top.dev) /\ ActKids(Top.dev) = {} /\ (ret = "OK" => Ready(Top.dev))
  BY Zenon, <1>1, <1>2 DEF WorkInv, BackInv
<1>4. CASE ret # "OK" /\ ProbeFails(ret)
  <2>1. PICK x \in Ret \ {"OK", "REJECTED"} : x = ret
    BY Zenon, <1>2, <1>4
  <2> QED
    BY Zenon, <1>1, <1>4, <2>1, ProbeFailsActive
<1>5. CASE /\ ret = "OK" /\ ParentOf[Top.dev] # None
           /\ Call("probe", ParentOf[Top.dev], "parent") /\ UNCHANGED <<flags, buf>>
  <2>1. PICK e \in Dev : e = ParentOf[Top.dev]
    BY Zenon, <1>2, <1>5, DevAssumption
  <2>2. CallFrom(At("parent"), NewFrame("probe", e, {}))
        /\ "parent" \in Pc /\ "probe" \in Fn /\ {} \in SUBSET RemoveFlag
    BY Zenon, <1>5, <2>1 DEF Call, Pc, Fn
  <2>3. PICK f \in Frame, g \in Frame :
           /\ stack' = Append(WithTop(f), g) /\ ret' = ret
           /\ f.fn = Top.fn /\ f.dev = Top.dev /\ f.pc = "parent" /\ f.res = Top.res
           /\ g.fn = "probe" /\ g.dev = e /\ g.pc = "entry" /\ g.res = "OK"
    BY SMTT(30), <1>1, <1>2, <2>2, CallFields
  <2>4. r[g.dev] < r[Top.dev]
    BY Zenon, <1>2, <1>5, <2>1, <2>3 DEF Orders
  <2>5. \A i \in 1..(Len(stack) - 1) : OrderInv(r, stack[i], g)
    BY Zenon, <1>1, <1>2, <2>4, OrderBelow DEF Probing
  <2>6. WorkInv(f) /\ WorkInv(g) /\ CallInv(f, g) /\ OrderInv(r, f, g)
    BY Zenon, <1>1, <1>2, <1>3, <1>5, <2>1, <2>3, <2>4 DEF WorkInv, CallInv, OrderInv, ProbeHook
  <2> QED
    BY Zenon, <1>1, <1>5, <2>3, <2>5, <2>6, CalmPush
<1>6. CASE ret = "OK" /\ ParentOf[Top.dev] = None /\ Activate(Top.dev)
  BY Zenon, <1>1, <1>3, <1>6, ActivateActive
<1> QED
  BY Zenon, <1>4, <1>5, <1>6 DEF ProbeOfToPlat

LEMMA ProbeParentActive ==
  ASSUME TreeInv, NEW r, ActiveInv(r), Orders(r), ProbeParent
  PROVE  ActiveInv(r)'
<1>1. stack # <<>> /\ Top.fn = "probe" /\ Top.pc = "parent" /\ mem' = mem
  BY Zenon DEF ProbeParent, Running, treeVars
<1>2. /\ TypeOK /\ StackPart(r) /\ DataInv /\ Top.dev \in Dev /\ Top.res \in Ret \ {"REJECTED"}
      /\ ret \in Ret \ {"REJECTED"} /\ WorkInv(Top) /\ BackInv(Top)
  BY SMTT(30), <1>1, TopFacts
<1>3. /\ ActKids(Top.dev) = {} /\ Ready(Top.dev)
      /\ ret = "OK" => Active(ParentOf[Top.dev])
  BY Zenon, <1>1, <1>2 DEF WorkInv, BackInv
<1>4. CASE ret # "OK" /\ ProbeFails(ret)
  <2>1. PICK x \in Ret \ {"OK", "REJECTED"} : x = ret
    BY Zenon, <1>2, <1>4
  <2> QED
    BY Zenon, <1>1, <1>4, <2>1, ProbeFailsActive
<1>5. CASE "ACTIVATED" \in flags[Top.dev] /\ Return("OK") /\ UNCHANGED <<flags, buf>>
  BY Zenon, <1>1, <1>5, CalmPop DEF Active, Ret
<1>6. CASE ret = "OK" /\ Activate(Top.dev)
  BY Zenon, <1>1, <1>3, <1>6, ActivateActive
<1> QED
  BY Zenon, <1>4, <1>5, <1>6 DEF ProbeParent

LEMMA ProbeHookOkActive ==
  ASSUME TreeInv, NEW r, ActiveInv(r), Orders(r), ProbeHookOk
  PROVE  ActiveInv(r)'
<1>1. /\ stack # <<>> /\ Top.fn = "probe" /\ Top.pc \in ProbeHook
      /\ UNCHANGED <<mem, flags, buf>>
  BY Zenon DEF ProbeHookOk, Running, treeVars
<1>2. TypeOK /\ Top.dev \in Dev /\ Top.res \in Ret \ {"REJECTED"} /\ WorkInv(Top)
  BY Zenon, <1>1, TopFacts
<1>3. Ready(Top.dev) /\ Active(Top.dev) /\ ActKids(Top.dev) = {}
  BY Zenon, <1>1, <1>2 DEF WorkInv, ProbeHook
<1>4. CASE Return("OK")
  BY Zenon, <1>1, <1>3, <1>4, CalmPop DEF Ret
<1>5. ASSUME NEW pc \in ProbeHook, Goto(pc) PROVE ActiveInv(r)'
  <2>1. pc \in Pc
    BY Zenon DEF Pc
  <2>2. \A f \in Frame :
           /\ f.fn = Top.fn /\ f.dev = Top.dev /\ f.pc = pc /\ f.res = Top.res
           /\ f.rf = Top.rf /\ f.todo = Top.todo
           => WorkInv(f) /\ BackInv(f)
    BY SMTT(30), <1>1, <1>2, <1>3 DEF WorkInv, BackInv, ProbeHook
  <2> QED
    BY Zenon, <1>1, <1>5, <2>1, <2>2, CalmGoto
<1>6. Return("OK") \/ \E pc \in ProbeHook : Goto(pc)
  <2>1. \A h \in DOMAIN ProbeSucc : ProbeSucc[h] \in ProbeHook
    BY DEF ProbeSucc, ProbeHook
  <2>2. "own_pinctrl" \in ProbeHook
    BY Zenon DEF ProbeHook
  <2> QED
    BY Zenon, <2>1, <2>2 DEF ProbeHookOk
<1> QED
  BY <1>4, <1>5, <1>6

LEMMA ProbeHookFailActive ==
  ASSUME TreeInv, NEW r, ActiveInv(r), Orders(r), ProbeHookFail
  PROVE  ActiveInv(r)'
<1>1. /\ stack # <<>> /\ Top.fn = "probe" /\ Top.pc \in ProbeHook /\ Top.pc # "entry"
      /\ mem' = mem
  BY Zenon DEF ProbeHookFail, Running, treeVars, ProbeHook
<1>2. TypeOK /\ Top.dev \in Dev /\ Top.res \in Ret \ {"REJECTED"} /\ WorkInv(Top)
  BY Zenon, <1>1, TopFacts
<1>3. CASE ProbeFails("ERR")
  BY Zenon, <1>1, <1>3, ProbeFailsActive DEF Ret
<1>4. CASE /\ CallFrom(At("fail_uclass"), NewFrame("remove", Top.dev, {"NORMAL"}))
           /\ UNCHANGED <<flags, buf>>
  <2>1. "fail_uclass" \in Pc /\ "remove" \in Fn /\ {"NORMAL"} \in SUBSET RemoveFlag
    BY Zenon DEF Pc, Fn, RemoveFlag
  <2>7. PICK e \in Dev, rf \in SUBSET RemoveFlag :
          /\ e = Top.dev /\ rf = {"NORMAL"}
          /\ CallFrom(At("fail_uclass"), NewFrame("remove", e, rf))
    BY Zenon, <1>2, <1>4, <2>1
  <2>2. PICK f \in Frame, g \in Frame :
           /\ stack' = Append(WithTop(f), g) /\ ret' = ret
           /\ f.fn = Top.fn /\ f.dev = Top.dev /\ f.pc = "fail_uclass" /\ f.res = Top.res
           /\ g.fn = "remove" /\ g.dev = Top.dev /\ g.pc = "entry" /\ g.res = "OK"
           /\ g.rf = {"NORMAL"} /\ g.todo = {}
    <3>2. CallFrom(At("fail_uclass"), NewFrame("remove", e, rf)) /\ TypeOK /\ stack # <<>>
      BY SMTT(30), <1>1, <1>2, <2>7
    <3>1. PICK f \in Frame, g \in Frame :
             /\ stack' = Append(WithTop(f), g) /\ ret' = ret
             /\ f.fn = Top.fn /\ f.dev = Top.dev /\ f.pc = "fail_uclass" /\ f.res = Top.res
             /\ g.fn = "remove" /\ g.dev = e /\ g.pc = "entry" /\ g.res = "OK"
             /\ g.rf = rf /\ g.todo = {}
      BY SMTT(30), <2>1, <3>2, CallFields
    <3> QED
      BY <2>7, <3>1
  <2>3. WorkInv(f)
    BY Zenon, <1>1, <1>2, <2>2 DEF WorkInv, ProbeHook
  <2>4. WorkInv(g)
    BY Zenon, <2>2 DEF WorkInv, Gentle
  <2>5. CallInv(f, g)
    BY Zenon, <1>1, <2>2 DEF CallInv
  <2>6. OrderInv(r, f, g) /\ \A i \in 1..(Len(stack) - 1) : OrderInv(r, stack[i], g)
    BY Zenon, <2>2 DEF OrderInv, Probing
  <2> QED
    BY Zenon, <1>1, <1>4, <2>2, <2>3, <2>4, <2>5, <2>6, CalmPush
<1> QED
  BY Zenon, <1>3, <1>4 DEF ProbeHookFail

LEMMA HookProbesActive ==
  ASSUME TreeInv, NEW r, ActiveInv(r), Orders(r), HookProbes
  PROVE  ActiveInv(r)'
<1>1. /\ stack # <<>> /\ UNCHANGED <<mem, flags, buf>>
      /\ \/ Top.fn = "of_to_plat" /\ Top.pc = "of_to_plat"
         \/ Top.fn = "probe" /\ Top.pc \in ProbeHook
  BY Zenon DEF HookProbes, Running, treeVars
<1>2. TypeOK /\ StackPart(r) /\ Top \in Frame /\ Top.dev \in Dev /\ WorkInv(Top)
      /\ stack \in Seq(Frame)
  BY Zenon, <1>1, TopFacts
<1>3. PICK e \in Dev : e \in Uses[Top.dev] /\ HookCall("probe", e)
  BY Zenon, <1>2, DevAssumption DEF HookProbes
<1> DEFINE g == NewFrame("probe", e, {})
<1>4. g \in Frame /\ g.fn = "probe" /\ g.dev = e /\ g.pc = "entry" /\ g.res = "OK"
  BY SMTT(30), <1>1, <1>2, FrameFields DEF Fn
<1>5. stack' = Append(WithTop(Top), g) /\ ret' = ret
  BY Zenon, <1>1, <1>2, <1>3, SameTop DEF HookCall
<1> HIDE DEF g
<1>6. r[g.dev] < r[Top.dev]
  BY Zenon, <1>2, <1>3, <1>4 DEF Orders
<1>7. \A i \in 1..(Len(stack) - 1) : OrderInv(r, stack[i], g)
  BY Zenon, <1>1, <1>2, <1>4, <1>6, OrderBelow DEF Probing
<1>8. WorkInv(g) /\ CallInv(Top, g) /\ OrderInv(r, Top, g)
  BY Zenon, <1>1, <1>4, <1>6 DEF WorkInv, CallInv, OrderInv, ProbeHook
<1>9. PICK f \in Frame : f = Top
  BY Zenon, <1>2
<1> QED
  BY Zenon, <1>1, <1>2, <1>4, <1>5, <1>7, <1>8, <1>9, CalmPush

LEMMA ProbeKeepsActive ==
  ASSUME TreeInv, NEW r, ActiveInv(r), Orders(r), ProbeStep
  PROVE  ActiveInv(r)'
<1>1. CASE ProbeFailUclass
  <2>1. stack # <<>> /\ Top.fn = "probe" /\ Top.pc = "fail_uclass" /\ mem' = mem
    BY Zenon, <1>1 DEF ProbeFailUclass, Running, treeVars
  <2> QED
    BY Zenon, <1>1, <2>1, ProbeFailsActive DEF ProbeFailUclass, Ret
<1> QED
  BY Zenon, <1>1, OfToPlatEntryActive, OfToPlatParentActive, OfToPlatAllocActive, OfToPlatHookActive,
     ProbeEntryActive, ProbeOfToPlatActive, ProbeParentActive, ProbeHookOkActive,
     ProbeHookFailActive, HookProbesActive DEF ProbeStep

-----------------------------------------------------------------------------
(* device_remove() *)

(* A removal that starts is the one of a failed probe, or belongs to a      *)
(* removal from outside: a failed device has no active children.            *)
LEMMA RemoveAlone ==
  ASSUME TreeInv, NEW r, ActiveInv(r), stack # <<>>, Top.fn = "remove", Active(Top.dev)
  PROVE  \/ Len(stack) = 1 \/ stack[1].fn = "remove" \/ stack[Len(stack) - 1].fn # "remove"
<1> SUFFICES ASSUME Len(stack) # 1, stack[1].fn # "remove", stack[Len(stack) - 1].fn = "remove"
             PROVE  FALSE
  BY Zenon
<1>1. /\ StackPart(r) /\ stack \in Seq(Frame) /\ Len(stack) \in Nat \ {0} /\ Top.dev \in Dev
      /\ Top = stack[Len(stack)]
  BY Zenon, TopFacts DEF Top
<1>2. Len(stack) - 1 # 1
  BY Zenon
<1>3. /\ Len(stack) - 1 \in 2..Len(stack) /\ Len(stack) - 1 \in 1..(Len(stack) - 1)
      /\ Len(stack) - 2 \in 1..(Len(stack) - 1) /\ Len(stack) - 2 \in 1..Len(stack)
      /\ (Len(stack) - 1) + 1 = Len(stack) /\ (Len(stack) - 2) + 1 = Len(stack) - 1
      /\ (Len(stack) - 1) - 1 = Len(stack) - 2
  BY <1>1, <1>2
<1>4. CallInv(stack[Len(stack) - 1], stack[(Len(stack) - 1) + 1])
  BY Zenon, <1>3 DEF StackPart, ActiveInv
<1>5. stack[Len(stack) - 1].pc = "child" /\ ParentOf[Top.dev] = stack[Len(stack) - 1].dev
  BY Zenon, <1>1, <1>3, <1>4 DEF CallInv
<1>6. stack[(Len(stack) - 1) - 1].fn # "remove"
  BY Zenon, <1>1, <1>3, <1>5 DEF StackPart, AloneInv
<1>7. CallInv(stack[Len(stack) - 2], stack[(Len(stack) - 2) + 1])
  BY Zenon, <1>3 DEF StackPart, ActiveInv
<1>8. /\ stack[Len(stack) - 2].fn = "probe" /\ stack[Len(stack) - 2].pc = "fail_uclass"
      /\ stack[Len(stack) - 2].dev = stack[Len(stack) - 1].dev
  BY Zenon, <1>3, <1>6, <1>7 DEF CallInv
<1>9. ActKids(stack[Len(stack) - 2].dev) = {}
  BY Zenon, <1>1, <1>3, <1>8 DEF StackPart, WorkInv
<1> QED
  BY Zenon, <1>1, <1>5, <1>8, <1>9 DEF ActKids

LEMMA RemoveEntryActive ==
  ASSUME TreeInv, NEW r, ActiveInv(r), RemoveEntry
  PROVE  ActiveInv(r)'
<1>1. stack # <<>> /\ Top.fn = "remove" /\ Top.pc = "entry" /\ UNCHANGED <<mem, flags, buf>>
  BY Zenon DEF RemoveEntry, Running, treeVars
<1>2. TypeOK /\ DataInv /\ Top.dev \in Dev /\ Top.res \in Ret \ {"REJECTED"} /\ WorkInv(Top)
  BY Zenon, <1>1, TopFacts
<1>3. CASE "ACTIVATED" \notin flags[Top.dev] /\ Return("OK")
  BY Zenon, <1>1, <1>3, CalmPop DEF Active, Ret
<1>4. CASE "ACTIVATED" \in flags[Top.dev] /\ WalkStart(Children(Top.dev))
  <2>1. Children(Top.dev) \in SUBSET Dev /\ \A c \in Children(Top.dev) : ParentOf[c] = Top.dev
    BY Zenon, <1>2 DEF Children, TypeOK
  <2>2. PICK f \in Frame :
          /\ stack' = WithTop(f) /\ ret' = ret
          /\ f.fn = Top.fn /\ f.dev = Top.dev /\ f.pc = "children"
          /\ f.todo = Children(Top.dev) /\ f.res = Top.res /\ f.rf = Top.rf
    BY SMTT(30), <1>1, <1>2, <1>4, <2>1, WalkStarts
  <2>3. ActKids(Top.dev) \subseteq Children(Top.dev)
    <3> SUFFICES ASSUME NEW c \in Dev, ParentOf[c] = Top.dev, Active(c) PROVE c \in Children(Top.dev)
      BY Zenon DEF ActKids
    <3>1. c \in mem /\ ParentOf[c] # None
      BY Zenon, <1>2, DevAssumption DEF DataInv
    <3> QED
      BY Zenon, <1>1, <3>1 DEF TreeInv, LinkInv, Children
  <2>4. WorkInv(f) /\ BackInv(f)
    BY Zenon, <1>1, <1>2, <2>1, <2>2, <2>3 DEF WorkInv, BackInv
  <2>5. Active(Top.dev)
    BY SMTT(30), <1>4 DEF Active
  <2> QED
    BY Zenon, <1>1, <2>2, <2>4, <2>5, RemoveAlone, CalmMove
<1> QED
  BY Zenon, <1>3, <1>4 DEF RemoveEntry

LEMMA RemoveChildActive ==
  ASSUME TreeInv, NEW r, ActiveInv(r), RemoveChild
  PROVE  ActiveInv(r)'
<1>1. stack # <<>> /\ Top.fn = "remove" /\ Top.pc = "children" /\ UNCHANGED <<mem, flags, buf>>
  BY Zenon DEF RemoveChild, Running, treeVars
<1>2. TypeOK /\ Top.dev \in Dev /\ Top.res \in Ret \ {"REJECTED"} /\ WorkInv(Top) /\ BackInv(Top)
  BY Zenon, <1>1, TopFacts
<1>3. PICK c \in Top.todo, f \in Frame, g \in Frame :
           /\ stack' = Append(WithTop(f), g) /\ ret' = ret
           /\ f.fn = Top.fn /\ f.dev = Top.dev /\ f.pc = "child"
           /\ f.todo = Top.todo \ {c} /\ f.res = Top.res /\ f.rf = Top.rf
           /\ g.fn = "remove" /\ g.dev = c /\ g.pc = "entry" /\ g.todo = {}
           /\ g.res = "OK" /\ g.rf = Top.rf
  BY Zenon, <1>1, <1>2, WalkCalls DEF RemoveChild, Fn
<1>4. WorkInv(f) /\ WorkInv(g)
  BY Zenon, <1>1, <1>2, <1>3 DEF WorkInv
<1>5. CallInv(f, g)
  <2>1. ParentOf[c] = Top.dev
    BY Zenon, <1>1, <1>2 DEF WorkInv
  <2>2. Top.res = "OK" => ActKids(Top.dev) \subseteq Top.todo
    BY Zenon, <1>1, <1>2 DEF BackInv
  <2> QED
    BY SMTT(30), <1>1, <1>3, <2>1, <2>2 DEF CallInv
<1>6. OrderInv(r, f, g) /\ \A i \in 1..(Len(stack) - 1) : OrderInv(r, stack[i], g)
  BY Zenon, <1>3 DEF OrderInv, Probing
<1> QED
  BY Zenon, <1>1, <1>3, <1>4, <1>5, <1>6, CalmPush

LEMMA RemoveChildDoneActive ==
  ASSUME TreeInv, NEW r, ActiveInv(r), RemoveChildDone
  PROVE  ActiveInv(r)'
<1>1. stack # <<>> /\ Top.fn = "remove" /\ Top.pc = "child" /\ UNCHANGED <<mem, flags, buf>>
  BY Zenon DEF RemoveChildDone, Running, treeVars
<1>2. /\ TypeOK /\ Top.dev \in Dev /\ Top.res \in Ret \ {"REJECTED"} /\ WorkInv(Top)
      /\ BackInv(Top) /\ ret \in Ret \ {"REJECTED"}
  BY Zenon, <1>1, TopFacts
<1>3. CASE Return("ERR")
  BY Zenon, <1>1, <1>3, CalmPop DEF Ret
<1>4. CASE ret # "ERR" /\ WalkNote(IF ret = "DEFER" THEN ret ELSE Top.res)
  <2>1. PICK x \in Ret \ {"REJECTED"} :
          WalkNote(x) /\ (x = "OK" => ret = "OK" /\ Top.res = "OK")
    <3>1. CASE ret = "DEFER"
      BY Zenon, <1>2, <1>4, <3>1
    <3>2. CASE ret # "DEFER"
      BY Zenon, <1>2, <1>4, <3>2 DEF Ret
    <3> QED
      BY Zenon, <3>1, <3>2
  <2>2. PICK f \in Frame :
          /\ stack' = WithTop(f) /\ ret' = ret
          /\ f.fn = Top.fn /\ f.dev = Top.dev /\ f.pc = "children"
          /\ f.todo = Top.todo /\ f.res = x /\ f.rf = Top.rf
    <3>1. x \in Ret /\ WalkNote(x) /\ TypeOK /\ stack # <<>>
      BY Zenon, <1>1, <1>2, <2>1
    <3> QED
      BY Zenon, <3>1, WalkNotes
  <2>3. WorkInv(f)
    BY ZenonT(30), <1>1, <1>2, <2>1, <2>2 DEF WorkInv
  <2>4. BackInv(f)
    <3>1. f.res = "OK" => ActKids(Top.dev) \subseteq Top.todo
      BY Zenon, <1>1, <1>2, <2>1, <2>2 DEF BackInv
    <3> QED
      BY Zenon, <1>1, <2>2, <3>1 DEF BackInv
  <2> QED
    BY Zenon, <1>1, <2>2, <2>3, <2>4, CalmMove
<1> QED
  BY Zenon, <1>3, <1>4 DEF RemoveChildDone

LEMMA RemoveChildrenActive ==
  ASSUME TreeInv, NEW r, ActiveInv(r), RemoveChildren
  PROVE  ActiveInv(r)'
<1>1. /\ stack # <<>> /\ Top.fn = "remove" /\ Top.pc = "children" /\ Top.todo = {}
      /\ UNCHANGED <<mem, flags, buf>>
  BY Zenon DEF RemoveChildren, Running, treeVars
<1>2. TypeOK /\ Top.dev \in Dev /\ Top.res \in Ret \ {"REJECTED"} /\ WorkInv(Top) /\ BackInv(Top)
  BY Zenon, <1>1, TopFacts
<1>3. ASSUME NEW x \in Ret \ {"OK", "REJECTED"}, Return(x) PROVE ActiveInv(r)'
  BY Zenon, <1>1, <1>3, CalmPop
<1>4. CASE Top.res # "OK" /\ Return(Top.res)
  BY Zenon, <1>2, <1>3, <1>4
<1>5. CASE Top.res = "OK" /\ FlagsRemove(Top.rf, DrvFlags[Top.dev]) # "OK"
           /\ Return(FlagsRemove(Top.rf, DrvFlags[Top.dev]))
  <2>1. Gentle(Top.rf)
    BY Zenon, <1>1, <1>2 DEF WorkInv
  <2>2. FlagsRemove(Top.rf, DrvFlags[Top.dev]) \in Ret \ {"OK", "REJECTED"}
    BY Zenon, <1>5, <2>1 DEF FlagsRemove, Gentle, Ret
  <2> QED
    BY Zenon, <1>3, <1>5, <2>2
<1>6. CASE /\ Top.res = "OK" /\ FlagsRemove(Top.rf, DrvFlags[Top.dev]) = "OK"
           /\ Goto("pre_remove")
  <2>1. ActKids(Top.dev) = {} /\ Gentle(Top.rf)
    BY Zenon, <1>1, <1>2, <1>6 DEF BackInv, WorkInv
  <2>2. \A f \in Frame :
           /\ f.fn = Top.fn /\ f.dev = Top.dev /\ f.pc = "pre_remove" /\ f.res = Top.res
           /\ f.rf = Top.rf /\ f.todo = Top.todo
           => WorkInv(f) /\ BackInv(f)
    BY Zenon, <1>1, <1>2, <1>6, <2>1 DEF WorkInv, BackInv
  <2> QED
    BY Zenon, <1>1, <1>6, <2>2, CalmGoto DEF Pc
<1> QED
  BY Zenon, <1>4, <1>5, <1>6 DEF RemoveChildren

LEMMA RemoveHookActive ==
  ASSUME TreeInv, NEW r, ActiveInv(r), RemoveHook
  PROVE  ActiveInv(r)'
<1>1. /\ stack # <<>> /\ Top.fn = "remove" /\ Top.pc \in {"pre_remove", "remove"}
      /\ UNCHANGED <<mem, flags, buf>>
  BY Zenon DEF RemoveHook, Running, treeVars
<1>2. TypeOK /\ Top.dev \in Dev /\ Top.res \in Ret \ {"REJECTED"} /\ WorkInv(Top)
  BY Zenon, <1>1, TopFacts
<1>3. CASE Return("ERR")
  BY Zenon, <1>1, <1>3, CalmPop DEF Ret
<1>4. ASSUME NEW pc \in {"remove", "child_post_remove"}, Goto(pc) PROVE ActiveInv(r)'
  <2>1. pc \in Pc
    BY Zenon DEF Pc
  <2>2. \A f \in Frame :
           /\ f.fn = Top.fn /\ f.dev = Top.dev /\ f.pc = pc /\ f.res = Top.res
           /\ f.rf = Top.rf /\ f.todo = Top.todo
           => WorkInv(f) /\ BackInv(f)
    BY Zenon, <1>1, <1>2 DEF WorkInv, BackInv
  <2> QED
    BY Zenon, <1>1, <1>4, <2>1, <2>2, CalmGoto
<1> QED
  BY Zenon, <1>3, <1>4 DEF RemoveHook

LEMMA RemoveLastActive ==
  ASSUME TreeInv, NEW r, ActiveInv(r), Orders(r), RemoveLast
  PROVE  ActiveInv(r)'
<1>1. /\ stack # <<>> /\ Top.fn = "remove" /\ Top.pc = "child_post_remove" /\ mem' = mem
  BY Zenon DEF RemoveLast, Running, treeVars
<1>2. Top.dev \in Dev /\ WorkInv(Top)
  BY Zenon, <1>1, TopFacts
<1>3. PICK d \in Dev : d = Top.dev
  BY Zenon, <1>2
<1> DEFINE S == {"PLATDATA_VALID", "ACTIVATED"}
<1>4. /\ flags' = [flags EXCEPT ![d] = @ \ S] /\ "PLATDATA_VALID" \in S /\ "ACTIVATED" \in S
      /\ buf' = [buf EXCEPT ![d] = @ \ (AutoBufs[d] \cap Privs)]
      /\ Return("OK") /\ "OK" \in Ret \ {"REJECTED"}
  BY Zenon, <1>3 DEF RemoveLast, DeactivateAndFree, Ret
<1>5. ActKids(d) = {}
  BY Zenon, <1>1, <1>2, <1>3 DEF WorkInv
<1> HIDE DEF S
<1> QED
  BY Zenon, <1>1, <1>3, <1>4, <1>5, FreePop

-----------------------------------------------------------------------------
(* A call from outside the core *)

LEMMA StartKeepsActive ==
  ASSUME TreeInv, NEW r, ActiveInv(r), NEW fn \in Fn, NEW d \in Dev,
         NEW rf \in SUBSET RemoveFlag, Start(fn, d, rf), fn = "remove" => Gentle(rf)
  PROVE  ActiveInv(r)'
<1> DEFINE g == NewFrame(fn, d, rf)
<1>1. g.fn = fn /\ g.pc = "entry" /\ g.res = "OK" /\ g.rf = rf /\ g.todo = {} /\ g.dev = d
  BY Zenon DEF NewFrame
<1>2. stack' = <<g>> /\ UNCHANGED <<mem, flags, buf, ret>>
  BY Zenon DEF Start, treeVars
<1> HIDE DEF g
<1>3. Len(stack') = 1 /\ stack'[1] = g
  BY Zenon, <1>2
<1>4. \A e \in Dev : Same(e)
  BY Zenon, <1>2, NothingChanges
<1>5. DataInv'
  BY Zenon, <1>2, <1>4, DataKept DEF ActiveInv, DataInv
<1>6. WorkInv(g)' /\ BackInv(g)'
  BY ZenonT(30), <1>1 DEF WorkInv, BackInv, ProbeHook
<1>7. (\A i \in 1..Len(stack) : WorkInv(stack[i]))'
  BY SMTT(30), <1>3, <1>6 DEF WorkInv
<1>8. (stack # <<>> => BackInv(Top))'
  BY Zenon, <1>3, <1>6 DEF BackInv, Top
<1>9. AloneInv'
  BY <1>3 DEF AloneInv
<1> QED
  BY SMTT(30), <1>3, <1>5, <1>7, <1>8, <1>9 DEF ActiveInv

-----------------------------------------------------------------------------
(* The theorems *)

(* What is assumed of the drivers: hooks behave as for TreeInv, r orders    *)
(* the devices so that each one only depends on earlier ones, and devices   *)
(* are removed with flags that reject no driver.                            *)
Sound(r) == HooksBehave /\ Orders(r) /\ \A rf \in RemoveArgs : Gentle(rf)

(* No step of the core, whoever called it, breaks ActiveInv.                *)
LEMMA NextKeepsActive ==
  ASSUME NEW r, Sound(r), TreeInv, ActiveInv(r), [Next]_vars
  PROVE  ActiveInv(r)'
<1> USE DEF Sound
<1>1. ASSUME NEW d \in Dev, StartBind(d) \/ StartUnbind(d) \/ StartOfToPlat(d) \/ StartProbe(d)
      PROVE  ActiveInv(r)'
  <2>1. \E fn \in Fn \ {"remove"} : Start(fn, d, {})
    BY Zenon, <1>1 DEF StartBind, StartUnbind, StartOfToPlat, StartProbe, Fn
  <2>2. PICK fn \in Fn : fn # "remove" /\ Start(fn, d, {})
    BY Zenon, <2>1
  <2>3. {} \in SUBSET RemoveFlag
    BY Zenon
  <2> QED
    BY Zenon, <2>2, <2>3, StartKeepsActive
<1>2. ASSUME NEW d \in Dev, StartRemove(d) PROVE ActiveInv(r)'
  <2>1. PICK rf \in RemoveArgs : Start("remove", d, rf)
    BY Zenon, <1>2 DEF StartRemove
  <2>2. rf \in SUBSET RemoveFlag /\ Gentle(rf) /\ "remove" \in Fn
    BY Zenon, EnvAssumption DEF Fn
  <2> QED
    BY Zenon, <2>1, <2>2, StartKeepsActive
<1>3. CASE BindStep
  BY Zenon, <1>3, BindKeepsActive, HookBindsKeepsActive
<1>4. CASE UnbindStep
  BY Zenon, <1>4, UnbindKeepsActive
<1>5. CASE ProbeStep
  BY Zenon, <1>5, ProbeKeepsActive
<1>6. CASE RemoveStep
  BY Zenon, <1>6, RemoveEntryActive, RemoveChildActive, RemoveChildDoneActive, RemoveChildrenActive,
     RemoveHookActive, RemoveLastActive DEF RemoveStep
<1>7. CASE UNCHANGED vars
  <2>1. UNCHANGED <<mem, flags, buf, stack, ret>>
    BY Zenon, <1>7 DEF vars
  <2>2. \A f \in Frame : (WorkInv(f)' <=> WorkInv(f)) /\ (BackInv(f)' <=> BackInv(f))
    BY SMTT(30), <2>1 DEF WorkInv, BackInv, Ready, Active, HasPriv, ActKids
  <2>3. \A f, g \in Frame : CallInv(f, g)' <=> CallInv(f, g)
    BY <2>1 DEF CallInv, Active, ActKids
  <2>4. DataInv'
    BY Zenon, <2>1, NothingChanges, DataKept DEF ActiveInv, DataInv
  <2>5. AloneInv'
    BY Zenon, <2>1 DEF ActiveInv, AloneInv
  <2>6. (\A i, j \in 1..Len(stack) : i < j => OrderInv(r, stack[i], stack[j]))'
    BY Zenon, <2>1 DEF ActiveInv, OrderInv
  <2>7. (\A i \in 1..Len(stack) : WorkInv(stack[i]))'
    <3> SUFFICES ASSUME NEW i \in 1..Len(stack) PROVE WorkInv(stack[i])'
      BY Zenon, <2>1
    <3>1. PICK f \in Frame : f = stack[i]
      BY DEF TreeInv, TypeOK
    <3>2. WorkInv(f)'
      BY Zenon, <2>2, <3>1 DEF ActiveInv
    <3> QED
      BY Zenon, <2>1, <3>1, <3>2 DEF WorkInv
  <2>8. (\A i \in 1..(Len(stack) - 1) : CallInv(stack[i], stack[i + 1]))'
    <3> SUFFICES ASSUME NEW i \in 1..(Len(stack) - 1) PROVE CallInv(stack[i], stack[i + 1])'
      BY Zenon, <2>1
    <3>1. PICK f \in Frame, g \in Frame : f = stack[i] /\ g = stack[i + 1]
      BY SMTT(30) DEF TreeInv, TypeOK
    <3>2. CallInv(f, g)'
      BY Zenon, <2>3, <3>1 DEF ActiveInv
    <3> QED
      BY Zenon, <2>1, <3>1, <3>2 DEF CallInv
  <2>9. (stack # <<>> => BackInv(Top))'
    <3> SUFFICES ASSUME stack # <<>> PROVE BackInv(Top)'
      BY Zenon, <2>1
    <3>1. PICK f \in Frame : f = Top
      BY Zenon, TopFrame DEF TreeInv, TypeOK
    <3>2. BackInv(f)'
      BY Zenon, <2>2, <3>1 DEF ActiveInv
    <3> QED
      BY Zenon, <2>1, <3>1, <3>2 DEF BackInv, Top
  <2> QED
    BY Zenon, <2>4, <2>5, <2>6, <2>7, <2>8, <2>9 DEF ActiveInv
<1> QED
  BY Zenon, <1>1, <1>2, <1>3, <1>4, <1>5, <1>6, <1>7 DEF Next

(* ActiveInv is an invariant of the driver model, for every device tree,    *)
(* every acyclic use of devices by the hooks of others and every nesting of *)
(* calls.                                                                   *)
THEOREM ActivationStays ==
  ASSUME NEW CONSTANT r, Sound(r)
  PROVE  Spec => []ActiveInv(r)
<1>1. Init => ActiveInv(r)
  BY DEF Init, ActiveInv, DataInv, AloneInv, Active
<1>2. Spec => []TreeInv
  BY Zenon, TreeStays DEF Sound
<1>3. TreeInv /\ ActiveInv(r) /\ [Next]_vars => ActiveInv(r)'
  BY Zenon, NextKeepsActive
<1> QED
  BY <1>1, <1>2, <1>3, PTL DEF Spec

(* A probe hook finds the plat of its device read and every private buffer  *)
(* the core promised allocated, even when a hook before it probed, and in   *)
(* failing removed, other devices.                                          *)
THEOREM ProbesHavePriv ==
  ASSUME NEW CONSTANT r, Sound(r)
  PROVE  Spec => []ProbeHasPriv
<1>1. ActiveInv(r) => ProbeHasPriv
  BY Zenon DEF ActiveInv, WorkInv, Ready, HasPriv, ProbeHasPriv
<1> QED
  BY <1>1, ActivationStays, PTL

(* A device that is active has an active parent in every state, in the      *)
(* middle of a probe or of a removal too.                                   *)
THEOREM ParentsActive ==
  ASSUME NEW CONSTANT r, Sound(r)
  PROVE  Spec => []ActiveParent
<1>1. TreeInv /\ ActiveInv(r) => ActiveParent
  BY Zenon DEF TreeInv, TypeOK, ActiveInv, DataInv, ActiveParent
<1>2. Spec => []TreeInv
  BY Zenon, TreeStays DEF Sound
<1> QED
  BY <1>1, <1>2, ActivationStays, PTL

(* device_probe() is never inside the hooks of one device twice.            *)
THEOREM ProbesOnce ==
  ASSUME NEW CONSTANT r, Sound(r)
  PROVE  Spec => []ProbeOnce
<1>1. TreeInv /\ ActiveInv(r) => ProbeOnce
  <2> SUFFICES ASSUME TreeInv, ActiveInv(r), NEW i \in 1..Len(stack), NEW j \in 1..Len(stack),
                      stack[i].fn = "probe", stack[i].pc \in ProbeHook,
                      stack[j].fn = "probe", stack[j].pc \in ProbeHook,
                      stack[i].dev = stack[j].dev, i # j
               PROVE  FALSE
    BY Zenon DEF ProbeOnce
  <2>5. stack[i] \in Frame /\ stack[j] \in Frame
    BY SMTT(30) DEF TreeInv, TypeOK
  <2>1. stack[i].dev \in Dev /\ stack[j].dev \in Dev
    BY Zenon, <2>5 DEF Frame
  <2>2. r[stack[i].dev] \in Nat
    BY Zenon, <2>1 DEF Sound, Orders
  <2>3. CASE i < j
    BY SMTT(30), <2>2, <2>3 DEF ActiveInv, OrderInv, Probing
  <2>4. CASE j < i
    BY SMTT(30), <2>2, <2>4 DEF ActiveInv, OrderInv, Probing
  <2> QED
    BY SMTT(30), <2>1, <2>3, <2>4
<1>2. Spec => []TreeInv
  BY Zenon, TreeStays DEF Sound
<1> QED
  BY <1>1, <1>2, ActivationStays, PTL

-----------------------------------------------------------------------------
(* Removals that spare vital devices *)

(* A set of natural numbers has a least element.                            *)
LEMMA LeastNat ==
  ASSUME NEW T, T \subseteq Nat, T # {}
  PROVE  \E n \in T : \A m \in T : n <= m
<1> DEFINE R == OpToRel(<, Nat)
<1>1. IsWellFoundedOn(R, Nat)
  BY Zenon, NatLessThanWellFounded
<1>2. \A m, n \in Nat : m < n => <<m, n>> \in R
  BY Zenon DEF OpToRel
<1> HIDE DEF R
<1>3. PICK n \in T : \A m \in T : ~(<<m, n>> \in R)
  BY Zenon, <1>1, WFMin
<1>4. n \in Nat /\ \A m \in T : m \in Nat /\ ~(m < n)
  BY Zenon, <1>2, <1>3
<1> QED
  BY <1>3, <1>4

(* The way up from a device.                                                *)
WayUp(d, a, n, s) ==
  /\ s \in [0..n -> Dev] /\ s[0] = d /\ s[n] = a
  /\ \A i \in 0..(n - 1) : ParentOf[s[i]] # None /\ s[i + 1] = ParentOf[s[i]]
Above == [d \in Dev |-> {a \in Dev : \E n \in Nat : \E s \in [0..n -> Dev] : WayUp(d, a, n, s)}]

(* The equation of AncestorOrSelf has a solution, so it holds.              *)
LEMMA AncestorsUnfold ==
  \A d \in Dev : AncestorOrSelf[d] =
    IF ParentOf[d] = None THEN {d} ELSE {d} \cup AncestorOrSelf[ParentOf[d]]
<1> DEFINE Up(f) == [d \in Dev |-> IF ParentOf[d] = None THEN {d} ELSE {d} \cup f[ParentOf[d]]]
<1>1. ASSUME NEW d \in Dev
      PROVE  Above[d] = IF ParentOf[d] = None THEN {d} ELSE {d} \cup Above[ParentOf[d]]
  <2>1. d \in Above[d]
    <3> DEFINE s == [i \in 0..0 |-> d]
    <3>1. WayUp(d, d, 0, s) /\ s \in [0..0 -> Dev]
      BY DEF WayUp
    <3> QED
      BY Zenon, <3>1 DEF Above
  <2>2. ASSUME ParentOf[d] # None, NEW a \in Above[ParentOf[d]]
        PROVE  a \in Above[d]
    <3>1. ParentOf[d] \in Dev /\ a \in Dev
      BY Zenon, <2>2, DevAssumption DEF Above
    <3>2. PICK n \in Nat : \E s \in [0..n -> Dev] : WayUp(ParentOf[d], a, n, s)
      BY Zenon, <2>2, <3>1 DEF Above
    <3>3. PICK s \in [0..n -> Dev] : WayUp(ParentOf[d], a, n, s)
      BY Zenon, <3>2
    <3> DEFINE t == [i \in 0..(n + 1) |-> IF i = 0 THEN d ELSE s[i - 1]]
    <3>4. t \in [0..(n + 1) -> Dev] /\ t[0] = d /\ t[n + 1] = a
      BY SMTT(30), <3>3 DEF WayUp
    <3>5. \A i \in 0..n : ParentOf[t[i]] # None /\ t[i + 1] = ParentOf[t[i]]
      <4> SUFFICES ASSUME NEW i \in 0..n PROVE ParentOf[t[i]] # None /\ t[i + 1] = ParentOf[t[i]]
        BY Zenon
      <4>1. CASE i = 0
        <5>1. t[0] = d /\ t[1] = s[0] /\ t[0 + 1] = t[1]
          OBVIOUS
        <5>2. s[0] = ParentOf[d]
          BY Zenon, <3>3 DEF WayUp
        <5> QED
          BY Zenon, <2>2, <4>1, <5>1, <5>2
      <4>2. CASE i # 0
        <5>1. i - 1 \in 0..(n - 1) /\ t[i] = s[i - 1] /\ t[i + 1] = s[i]
          BY <4>2
        <5> QED
          BY <3>3, <5>1 DEF WayUp
      <4> QED
        BY Zenon, <4>1, <4>2
    <3>6. n + 1 \in Nat /\ (n + 1) - 1 = n
      OBVIOUS
    <3> HIDE DEF t
    <3>7. WayUp(d, a, n + 1, t)
      BY Zenon, <3>4, <3>5, <3>6 DEF WayUp
    <3> QED
      BY ZenonT(30), <3>1, <3>4, <3>6, <3>7 DEF Above
  <2>3. ASSUME NEW a \in Above[d], a # d
        PROVE  ParentOf[d] # None /\ a \in Above[ParentOf[d]]
    <3>1. PICK n \in Nat : \E s \in [0..n -> Dev] : WayUp(d, a, n, s)
      BY Zenon, <2>3 DEF Above
    <3>2. PICK s \in [0..n -> Dev] : WayUp(d, a, n, s)
      BY Zenon, <3>1
    <3>3. n # 0 /\ 0 \in 0..(n - 1) /\ n - 1 \in Nat
      BY SMTT(30), <2>3, <3>2 DEF WayUp
    <3>4. ParentOf[d] # None /\ s[1] = ParentOf[d] /\ ParentOf[d] \in Dev /\ a \in Dev
      BY SMTT(30), <2>3, <3>2, <3>3, DevAssumption DEF WayUp, Above
    <3> DEFINE t == [i \in 0..(n - 1) |-> s[i + 1]]
    <3>5. t \in [0..(n - 1) -> Dev] /\ t[0] = ParentOf[d] /\ t[n - 1] = a
      BY SMTT(30), <3>2, <3>3, <3>4 DEF WayUp
    <3>6. \A i \in 0..((n - 1) - 1) : ParentOf[t[i]] # None /\ t[i + 1] = ParentOf[t[i]]
      BY SMTT(30), <3>2, <3>3 DEF WayUp
    <3> HIDE DEF t
    <3>7. WayUp(ParentOf[d], a, n - 1, t)
      BY Zenon, <3>5, <3>6 DEF WayUp
    <3> QED
      BY Zenon, <3>3, <3>4, <3>5, <3>7 DEF Above
  <2> QED
    BY Zenon, <2>1, <2>2, <2>3
<1>2. Above = Up(Above)
  BY Zenon, <1>1 DEF Above
<1>3. AncestorOrSelf = CHOOSE f : f = Up(f)
  BY Zenon DEF AncestorOrSelf
<1>4. AncestorOrSelf = Up(AncestorOrSelf)
  BY Zenon, <1>2, <1>3
<1> QED
  BY Zenon, <1>4

(* Above an active device all are active, so a device without active        *)
(* children is above none.                                                  *)
LEMMA NoneActiveBelow ==
  ASSUME DataInv, NEW d \in Dev, ActKids(d) = {}, NEW v \in Dev, Active(v), v # d
  PROVE  d \notin AncestorOrSelf[v]
<1> DEFINE Bad(u) == Active(u) /\ u # d /\ d \in AncestorOrSelf[u]
           T == {n \in Nat : \E u \in Dev : Depth[u] = n /\ Bad(u)}
<1> SUFFICES ASSUME d \in AncestorOrSelf[v]
             PROVE  FALSE
  BY Zenon
<1>1. \A u \in Dev : Depth[u] \in Nat
  BY Zenon, DevAssumption
<1>2. T \subseteq Nat /\ T # {}
  BY Zenon, <1>1
<1>3. PICK n \in T : \A m \in T : n <= m
  BY Zenon, <1>2, LeastNat
<1>4. PICK u \in Dev : Depth[u] = n /\ Bad(u)
  BY Zenon, <1>3
<1>5. ParentOf[u] # None /\ d \in AncestorOrSelf[ParentOf[u]]
  BY Zenon, <1>4, AncestorsUnfold
<1>6. ParentOf[u] \in Dev /\ Depth[ParentOf[u]] < Depth[u]
  BY Zenon, <1>5, DevAssumption
<1>7. Active(ParentOf[u])
  BY Zenon, <1>4, <1>5 DEF DataInv
<1>8. ParentOf[u] # d
  BY Zenon, <1>4 DEF ActKids
<1>9. Depth[ParentOf[u]] \in T
  BY Zenon, <1>1, <1>5, <1>6, <1>7, <1>8
<1>10. n <= Depth[ParentOf[u]]
  BY Zenon, <1>3, <1>9
<1> QED
  BY SMTT(30), <1>1, <1>4, <1>6, <1>10

(* A shutdown that removes what is not vital first takes away no vital      *)
(* device and nothing above an active one: device_remove() sees what        *)
(* flags_remove() said of every device below before it goes on.             *)
THEOREM VitalsKept ==
  ASSUME NEW CONSTANT r, Sound(r)
  PROVE  Spec => VitalStays
<1> DEFINE Spared == \A d, v \in Dev :
                       /\ RemoveLast /\ Top.dev = d /\ Top.rf = {"VITAL"}
                       /\ "VITAL" \in DrvFlags[v] /\ Active(v)
                       => d \notin AncestorOrSelf[v]
<1>1. TreeInv /\ ActiveInv(r) => Spared
  <2> SUFFICES ASSUME TreeInv, ActiveInv(r), NEW d \in Dev, NEW v \in Dev,
                      RemoveLast, Top.dev = d, Top.rf = {"VITAL"},
                      "VITAL" \in DrvFlags[v], Active(v)
               PROVE  d \notin AncestorOrSelf[v]
    BY Zenon
  <2>1. stack # <<>> /\ Top.fn = "remove" /\ Top.pc = "child_post_remove"
    BY Zenon DEF RemoveLast, Running
  <2>2. WorkInv(Top)
    BY Zenon, <2>1, TopFacts
  <2>3. ActKids(d) = {} /\ FlagsRemove({"VITAL"}, DrvFlags[d]) = "OK"
    BY Zenon, <2>1, <2>2 DEF WorkInv
  <2>4. d # v
    BY Zenon, <2>3 DEF FlagsRemove
  <2> QED
    BY Zenon, <2>3, <2>4, NoneActiveBelow DEF ActiveInv
<1>2. Spec => []TreeInv
  BY Zenon, TreeStays DEF Sound
<1>3. TreeInv /\ ActiveInv(r) /\ [Next]_vars => [Spared]_vars
  BY Zenon, <1>1
<1> QED
  BY <1>2, <1>3, ActivationStays, PTL DEF Spec, VitalStays
=============================================================================
