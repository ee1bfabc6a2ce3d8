----------------------- MODULE DriverModelTreeProofs ------------------------
(***************************************************************************)
(* Proofs that the device tree stays a tree, that no call works on freed    *)
(* memory and that devices are whole between calls: TreeInv, and WholeInv   *)
(* beside it, are inductive when no bind hook fails after it has bound      *)
(* children and no uclass pre_unbind() refuses.                             *)
(***************************************************************************)
EXTENDS DriverModelProofs

(* The two assumptions about hooks.                                         *)
HooksBehave == ~ScanFails /\ "pre_unbind" \notin MayFail

-----------------------------------------------------------------------------
(* device_bind_common() *)

(* It moves on to another label.                                            *)
LEMMA BindMoves ==
  ASSUME TreeInv, stack # <<>>, Top.fn = "bind", NEW pc \in Pc, Goto(pc),
         mem' = mem \/ mem' = mem \cup {Top.dev}, Top.dev \in mem'
  PROVE  /\ StackInv' /\ FramesLive'
         /\ stack' # <<>> /\ Top'.fn = "bind" /\ Top'.dev = Top.dev /\ Top'.pc = pc
<1>1. /\ stack \in Seq(Frame) /\ Len(stack) \in Nat \ {0} /\ Top \in Frame
      /\ TypeOK /\ StackInv /\ FramesLive
  BY Zenon, TopFrame DEF TypeOK, TreeInv
<1>2. At(pc) \in Frame /\ At(pc).pc = pc /\ At(pc).fn = "bind" /\ At(pc).dev = Top.dev
  BY Zenon, <1>1, FrameFields
<1>3. /\ StackInv' /\ Len(stack') = Len(stack) /\ Top' = At(pc)
      /\ \A i \in 1..(Len(stack) - 1) : stack'[i] = stack[i]
  BY Zenon, <1>1, <1>2, StackMoves DEF Goto
<1>4. stack'[Len(stack)] = At(pc)
  BY Zenon, <1>3 DEF Top
<1>5. FramesLive'
  BY <1>1, <1>2, <1>3, <1>4 DEF FramesLive
<1>6. stack' # <<>>
  BY Zenon, <1>1, <1>3
<1> QED
  BY Zenon, <1>2, <1>3, <1>5, <1>6

(* It returns, with or without its device.                                  *)
LEMMA BindReturns ==
  ASSUME TreeInv, stack # <<>>, Top.fn = "bind", stack' = Popped,
         mem' = mem \/ mem' = mem \ {Top.dev}
  PROVE  /\ StackInv' /\ FramesLive' /\ TopInv'
<1>1. /\ stack \in Seq(Frame) /\ Len(stack) \in Nat \ {0} /\ Top \in Frame
      /\ TypeOK /\ StackInv /\ FramesLive
  BY Zenon, TopFrame DEF TypeOK, TreeInv
<1>2. /\ StackInv' /\ FramesLive' /\ Len(stack') = Len(stack) - 1
      /\ \A i \in 1..(Len(stack) - 1) : stack'[i] = stack[i]
  BY Zenon, <1>1, StackPops
<1>3. ASSUME stack' # <<>>
      PROVE  /\ Top'.fn # "unbind"
             /\ Top'.fn = "bind" => Top'.pc \in {"bind", "post_bind"}
  <2>1. stack' \in Seq(Frame)
    BY Zenon, <1>1, PopFrame
  <2>2. Len(stack) - 1 \in 1..(Len(stack) - 1)
    BY <1>1, <1>2, <1>3, <2>1
  <2>3. Top' = stack[Len(stack) - 1]
    BY Zenon, <1>2, <2>2 DEF Top
  <2>4. NestInv(stack[Len(stack) - 1], Top) /\ WaitInv(stack[Len(stack) - 1], Top)
    BY <1>1, <2>2 DEF StackInv, Top
  <2> QED
    BY Zenon, <2>3, <2>4 DEF NestInv, WaitInv
<1>4. TopInv'
  BY Zenon, <1>3 DEF TopInv, BindInv, NoKidsPc, OffList
<1> QED
  BY Zenon, <1>2, <1>4

(* device_bind_common() keeps TreeInv: its entry.                           *)
LEMMA BindEntryKeepsTree ==
  ASSUME TreeInv, BindEntry
  PROVE  TreeInv'
<1>1. stack # <<>> /\ Top.fn = "bind" /\ Top.pc = "entry" /\ BindInv(Top)
  BY Zenon DEF BindEntry, Running, TreeInv, TopInv
<1>2. TypeOK /\ TypeOK' /\ Top.dev \in Dev
  BY Zenon, <1>1, BindTypes, DataTypes DEF TreeInv, BindStep
<1>3. Top.dev \notin mem /\ (ParentOf[Top.dev] # None => ParentOf[Top.dev] \in mem)
  BY Zenon, <1>1 DEF BindInv
<1>4. \A c \in mem : ParentOf[c] = None \/ c \in linked
  BY Zenon, <1>1 DEF TreeInv, LinkInv, OffList
<1>5. CASE mem' = mem /\ flags' = flags /\ buf' = buf /\ Return("ERR")
  <2>1. StackInv' /\ FramesLive' /\ TopInv'
    BY Zenon, <1>1, <1>5, BindReturns DEF Return
  <2>2. NoOrphan' /\ FreedIsGone' /\ LinkInv'
    BY Zenon, <1>4, <1>5 DEF BindEntry, TreeInv, NoOrphan, FreedIsGone, LinkInv
  <2> QED
    BY Zenon, <1>2, <2>1, <2>2 DEF TreeInv
<1>6. CASE mem' = mem \cup {Top.dev} /\ buf' = [buf EXCEPT ![Top.dev] = {}] /\ Goto("plat")
  <2>1. "plat" \in Pc
    BY Zenon DEF Pc
  <2>2. /\ StackInv' /\ FramesLive' /\ stack' # <<>> /\ Top'.fn = "bind"
        /\ Top'.dev = Top.dev /\ Top'.pc = "plat"
    BY Zenon, <1>1, <1>6, <2>1, BindMoves
  <2>3. linked' = linked /\ listed' = listed
    BY Zenon DEF BindEntry
  <2>4. NoOrphan'
    BY Zenon, <1>3, <1>6 DEF TreeInv, NoOrphan
  <2>5. FreedIsGone'
    BY Zenon, <1>2, <1>6, <2>3 DEF TreeInv, FreedIsGone, TypeOK
  <2>6. LinkInv'
    BY Zenon, <1>4, <1>6, <2>2, <2>3 DEF LinkInv, OffList
  <2>7. \A c \in mem : ParentOf[c] # Top.dev
    BY Zenon, <1>2, <1>3, DevAssumption DEF TreeInv, NoOrphan
  <2>8. ParentOf[Top.dev] # Top.dev
    BY <1>2, DevAssumption
  <2>9. (Kids(Top.dev) = {})'
    BY Zenon, <1>6, <2>2, <2>7, <2>8 DEF Kids
  <2>10. Top.dev \notin linked \cup listed
    BY Zenon, <1>2, <1>3 DEF TreeInv, FreedIsGone
  <2>11. BindInv(Top)'
    BY Zenon, <1>2, <1>6, <2>2, <2>3, <2>9, <2>10 DEF BindInv, NoKidsPc, OffList, TypeOK
  <2>12. TopInv'
    BY Zenon, <2>2, <2>11 DEF TopInv
  <2> QED
    BY Zenon, <1>2, <2>2, <2>4, <2>5, <2>6, <2>12 DEF TreeInv
<1> QED
  BY Zenon, <1>5, <1>6 DEF BindEntry

(* A step from label to label that touches its own device only keeps        *)
(* TreeInv when what BindInv and LinkInv say of the next label holds.       *)
LEMMA BindGotoKeepsTree ==
  ASSUME TreeInv, TypeOK', stack # <<>>, Top.fn = "bind", Top.pc # "entry",
         NEW pc \in Pc, Goto(pc), pc # "entry", mem' = mem,
         linked' \subseteq linked \cup {Top.dev}, linked \ {Top.dev} \subseteq linked',
         listed' \subseteq listed \cup {Top.dev},
         \A e \in Dev \ {Top.dev} : buf'[e] = buf[e],
         pc \in NoKidsPc => Kids(Top.dev) = {},
         pc \in OffList => /\ Top.dev \notin linked' \cup listed'
                          /\ buf'[Top.dev] \cap Plats \subseteq PlatsAt[pc],
         pc = "fail_uclass_bind" => Top.dev \notin listed',
         pc \notin OffList => ParentOf[Top.dev] = None \/ Top.dev \in linked'
  PROVE  TreeInv'
<1>1. TypeOK /\ Top \in Frame /\ Len(stack) \in Nat \ {0} /\ FramesLive
  BY Zenon, TopFrame DEF TreeInv, TypeOK
<1>2. Top.dev \in mem
  BY <1>1 DEF FramesLive, Top
<1>3. /\ StackInv' /\ FramesLive' /\ stack' # <<>> /\ Top'.fn = "bind"
      /\ Top'.dev = Top.dev /\ Top'.pc = pc
  BY Zenon, <1>2, BindMoves
<1>4. NoOrphan'
  BY Zenon DEF TreeInv, NoOrphan
<1>5. FreedIsGone'
  BY Zenon, <1>2 DEF TreeInv, FreedIsGone
<1>6. LinkInv'
  BY Zenon, <1>3 DEF TreeInv, LinkInv
<1>7. (Kids(Top.dev))' = Kids(Top.dev)
  BY Zenon, <1>3 DEF Kids
<1>8. BindInv(Top)'
  BY Zenon, <1>3, <1>7 DEF BindInv
<1>9. TopInv'
  BY Zenon, <1>3, <1>8 DEF TopInv
<1> QED
  BY Zenon, <1>3, <1>4, <1>5, <1>6, <1>9 DEF TreeInv

(* The allocation of the plats and the linking into both lists.             *)
LEMMA BindForwardKeepsTree ==
  ASSUME TreeInv, BindPlat \/ BindUclassPlat \/ BindParentPlat \/ BindLink
  PROVE  TreeInv'
<1>1. stack # <<>> /\ Top.fn = "bind" /\ Top.pc \in {"plat", "uclass_plat", "parent_plat", "link"}
  BY Zenon DEF BindPlat, BindUclassPlat, BindParentPlat, BindAlloc, BindLink, Running
<1>2. TypeOK /\ TypeOK' /\ Top.dev \in Dev
  BY Zenon, <1>1, BindTypes, DataTypes DEF TreeInv, BindStep
<1>3. /\ Top.pc \in OffList /\ Kids(Top.dev) = {} /\ Top.dev \notin linked \cup listed
      /\ buf[Top.dev] \cap Plats \subseteq PlatsAt[Top.pc]
  BY Zenon, <1>1 DEF TreeInv, TopInv, BindInv, NoKidsPc, OffList
<1>4. ASSUME NEW b \in Plats, NEW next \in Pc, NEW fail \in Pc,
             BindAlloc(b, next, fail), next \in OffList, fail \in OffList,
             PlatsAt[b] \cup {b} \subseteq PlatsAt[next], PlatsAt[b] \subseteq PlatsAt[fail]
      PROVE  TreeInv'
  <2>1. Top.pc = b /\ UNCHANGED treeVars
    BY Zenon, <1>4 DEF BindAlloc, Running
  <2>2. PICK pc \in {next, fail} :
          /\ Goto(pc)
          /\ buf' = buf \/ (pc = next /\ buf' = [buf EXCEPT ![Top.dev] = @ \cup {b}])
    BY Zenon, <1>4 DEF BindAlloc
  <2>3. pc \in Pc /\ pc \in OffList /\ pc # "entry" /\ pc # "fail_uclass_bind"
    BY Zenon, <1>4, <2>2 DEF OffList
  <2>4. buf'[Top.dev] \cap Plats \subseteq PlatsAt[pc]
    BY <1>2, <1>3, <1>4, <2>1, <2>2 DEF TypeOK
  <2>5. \A e \in Dev \ {Top.dev} : buf'[e] = buf[e]
    BY Zenon, <1>2, <2>2 DEF TypeOK
  <2> QED
    BY Zenon, <1>1, <1>2, <1>3, <2>1, <2>2, <2>3, <2>4, <2>5, BindGotoKeepsTree DEF treeVars
<1>5. CASE BindPlat
  <2>1. /\ "plat" \in Plats /\ "uclass_plat" \in Pc /\ "fail_alloc1" \in Pc
        /\ "uclass_plat" \in OffList /\ "fail_alloc1" \in OffList
    BY Zenon DEF Plats, Pc, OffList
  <2>2. PlatsAt["plat"] = {} /\ PlatsAt["uclass_plat"] = {"plat"} /\ PlatsAt["fail_alloc1"] = {}
    BY Zenon DEF PlatsAt
  <2> QED
    BY Zenon, <1>4, <1>5, <2>1, <2>2 DEF BindPlat
<1>6. CASE BindUclassPlat
  <2>1. /\ "uclass_plat" \in Plats /\ "parent_plat" \in Pc /\ "fail_alloc2" \in Pc
        /\ "parent_plat" \in OffList /\ "fail_alloc2" \in OffList
    BY Zenon DEF Plats, Pc, OffList
  <2>2. /\ PlatsAt["uclass_plat"] = {"plat"} /\ PlatsAt["parent_plat"] = {"plat", "uclass_plat"}
        /\ PlatsAt["fail_alloc2"] = {"plat"}
    BY Zenon DEF PlatsAt
  <2> QED
    BY Zenon, <1>4, <1>6, <2>1, <2>2 DEF BindUclassPlat
<1>7. CASE BindParentPlat
  <2>1. /\ "parent_plat" \in Plats /\ "link" \in Pc /\ "fail_alloc3" \in Pc
        /\ "link" \in OffList /\ "fail_alloc3" \in OffList
    BY Zenon DEF Plats, Pc, OffList
  <2>2. /\ PlatsAt["parent_plat"] = {"plat", "uclass_plat"} /\ PlatsAt["link"] = Plats
        /\ PlatsAt["fail_alloc3"] = {"plat", "uclass_plat"}
    BY Zenon DEF PlatsAt
  <2> QED
    BY Zenon, <1>4, <1>7, <2>1, <2>2 DEF BindParentPlat, Plats
<1>8. CASE BindLink
  <2>1. /\ "uc_child_post_bind" \in Pc /\ "uc_child_post_bind" \notin OffList
    BY Zenon DEF Pc, BindHook, OffList
  <2> QED
    BY Zenon, <1>1, <1>2, <1>3, <1>8, <2>1, BindGotoKeepsTree DEF BindLink
<1> QED
  BY Zenon, <1>5, <1>6, <1>7, <1>8

(* The bind hooks: they succeed, fail without children, or bind a child.    *)
LEMMA BindHooksKeepTree ==
  ASSUME TreeInv, HooksBehave, BindHookOk \/ BindHookFail
  PROVE  TreeInv'
<1>1. stack # <<>> /\ Top.fn = "bind" /\ Top.pc \in BindHook
  BY Zenon DEF BindHookOk, BindHookFail, Running
<1>2. TypeOK /\ TypeOK' /\ Top.dev \in Dev
  BY Zenon, <1>1, BindTypes, DataTypes DEF TreeInv, BindStep
<1>3. Top.pc \notin OffList /\ Top.pc # "entry"
  BY Zenon, <1>1 DEF BindHook, OffList
<1>4. \A c \in mem : ParentOf[c] = None \/ c \in linked
  BY Zenon, <1>3 DEF TreeInv, LinkInv
<1>5. Top.dev \in mem
  <2>1. Len(stack) \in Nat \ {0}
    BY Zenon, <1>1, <1>2, TopFrame DEF TypeOK
  <2> QED
    BY <1>3, <2>1 DEF TreeInv, FramesLive, Top
<1>6. CASE BindHookOk
  <2>1. CASE Top.pc # "post_bind"
    <3>1. Goto(BindSucc[Top.pc]) /\ UNCHANGED <<mem, linked, listed, buf>>
      BY Zenon, <1>6, <2>1 DEF BindHookOk, Running, treeVars
    <3>2. BindSucc[Top.pc] \in {"bind", "child_post_bind", "post_bind"}
      BY <1>1, <2>1 DEF BindSucc, BindHook
    <3>3. /\ BindSucc[Top.pc] \in Pc /\ BindSucc[Top.pc] \notin NoKidsPc
          /\ BindSucc[Top.pc] \notin OffList /\ BindSucc[Top.pc] # "entry"
          /\ BindSucc[Top.pc] # "fail_uclass_bind"
      BY Zenon, <3>2 DEF Pc, BindHook, NoKidsPc, OffList
    <3> QED
      BY Zenon, <1>1, <1>2, <1>3, <1>4, <1>5, <3>1, <3>3, BindGotoKeepsTree
  <2>2. CASE Top.pc = "post_bind"
    <3>1. Return("OK") /\ UNCHANGED <<mem, linked, listed, buf>>
      BY Zenon, <1>6, <2>2 DEF BindHookOk, Running, treeVars
    <3>2. StackInv' /\ FramesLive' /\ TopInv'
      BY Zenon, <1>1, <3>1, BindReturns DEF Return
    <3>3. NoOrphan' /\ FreedIsGone' /\ LinkInv'
      BY Zenon, <1>4, <3>1 DEF TreeInv, NoOrphan, FreedIsGone, LinkInv
    <3> QED
      BY Zenon, <1>2, <3>2, <3>3 DEF TreeInv
  <2> QED
    BY Zenon, <2>1, <2>2
<1>7. CASE BindHookFail
  <2>1. /\ Goto(BindFail[Top.pc]) /\ Children(Top.dev) = {}
        /\ listed' = IF Top.pc = "uc_child_post_bind" THEN listed \ {Top.dev} ELSE listed
        /\ UNCHANGED <<mem, linked, buf>>
    BY Zenon, <1>7 DEF BindHookFail, Running, HooksBehave
  <2>2. Kids(Top.dev) = {}
    BY Zenon, <1>2, <1>4, <2>1, DevAssumption DEF Kids, Children
  <2>3. /\ BindFail[Top.pc] \in {"fail_uclass_bind", "fail_bind", "fail_child_post_bind"}
        /\ BindFail[Top.pc] = "fail_uclass_bind" => Top.pc = "uc_child_post_bind"
    BY <1>1 DEF BindFail, BindHook
  <2>4. /\ BindFail[Top.pc] \in Pc /\ BindFail[Top.pc] \notin OffList
        /\ BindFail[Top.pc] # "entry"
    BY Zenon, <2>3 DEF Pc, OffList
  <2> QED
    BY Zenon, <1>1, <1>2, <1>3, <1>4, <1>5, <2>1, <2>2, <2>3, <2>4, BindGotoKeepsTree
<1> QED
  BY Zenon, <1>6, <1>7

(* A hook binds a node below its own device.                                *)
LEMMA HookBindsKeepsTree ==
  ASSUME TreeInv, HookBinds
  PROVE  TreeInv'
<1>1. /\ stack # <<>> /\ Top.fn \in {"bind", "probe"}
      /\ Top.fn = "bind" => Top.pc \in {"bind", "post_bind"}
  BY Zenon DEF HookBinds, Running
<1>2. /\ stack \in Seq(Frame) /\ Len(stack) \in Nat \ {0} /\ Top \in Frame
      /\ TypeOK /\ TypeOK' /\ StackInv /\ FramesLive
  BY Zenon, <1>1, TopFrame, BindTypes DEF TypeOK, TreeInv, BindStep
<1>3. PICK c \in Dev \ mem : ParentOf[c] = Top.dev /\ HookCall("bind", c)
  BY Zenon DEF HookBinds
<1>4. UNCHANGED <<mem, linked, listed, buf>>
  BY Zenon DEF HookBinds, treeVars
<1> DEFINE g == NewFrame("bind", c, {})
<1>5. g \in Frame /\ g.fn = "bind" /\ g.dev = c /\ g.pc = "entry" /\ g.todo = {}
  <2>1. "bind" \in Fn
    BY Zenon DEF Fn
  <2> QED
    BY <1>1, <1>2, <2>1, FrameFields
<1>6. stack' = Append(WithTop(Top), g)
  BY Zenon, <1>1, <1>2, <1>3, SameTop DEF HookCall
<1> HIDE DEF g
<1>7. /\ StackInv' /\ FramesLive' /\ Len(stack') = Len(stack) + 1 /\ Top' = g
  BY Zenon, <1>1, <1>2, <1>3, <1>4, <1>5, <1>6, StackPushes
<1>8. Top.dev \in mem /\ (Top.fn = "bind" => Top.pc \notin OffList)
  BY <1>1, <1>2 DEF FramesLive, Top, OffList
<1>9. NoOrphan' /\ FreedIsGone' /\ LinkInv'
  BY Zenon, <1>4, <1>8 DEF TreeInv, NoOrphan, FreedIsGone, LinkInv
<1>10. BindInv(Top)'
  BY Zenon, <1>3, <1>4, <1>5, <1>7, <1>8 DEF BindInv, NoKidsPc, OffList
<1>11. TopInv'
  BY Zenon, <1>5, <1>7, <1>10 DEF TopInv
<1> QED
  BY Zenon, <1>2, <1>7, <1>9, <1>11 DEF TreeInv

(* The error labels: by the last one the device is on no list and without   *)
(* plats or children, and may be freed.                                     *)
LEMMA BindFailKeepsTree ==
  ASSUME TreeInv, HooksBehave,
         \/ BindFailUnbind \/ BindFailUclass \/ BindFailUnlink
         \/ BindFailAlloc3 \/ BindFailAlloc2 \/ BindFailAlloc1
  PROVE  TreeInv'
<1>1. /\ stack # <<>> /\ Top.fn = "bind"
      /\ Top.pc \in {"fail_child_post_bind", "fail_bind", "fail_uclass_bind",
                     "fail_alloc3", "fail_alloc2", "fail_alloc1"}
  BY Zenon DEF BindFailUnbind, BindFailUclass, BindFailUnlink, BindFailAlloc3,
         BindFailAlloc2, BindFailFree, BindFailAlloc1, Running
<1>2. TypeOK /\ TypeOK' /\ Top.dev \in Dev
  BY Zenon, <1>1, BindTypes, DataTypes DEF TreeInv, BindStep
<1>3. BindInv(Top) /\ Kids(Top.dev) = {}
  BY Zenon, <1>1 DEF TreeInv, TopInv, BindInv, NoKidsPc, OffList
<1>4. Top.pc \notin OffList => ParentOf[Top.dev] = None \/ Top.dev \in linked
  <2>1. Len(stack) \in Nat \ {0}
    BY Zenon, <1>1, <1>2, TopFrame DEF TypeOK
  <2>2. Top.dev \in mem
    BY <1>1, <2>1 DEF TreeInv, FramesLive, Top
  <2> QED
    BY Zenon, <2>2 DEF TreeInv, LinkInv
<1>5. CASE BindFailUnbind
  <2>1. Goto("fail_bind") /\ UNCHANGED <<mem, linked, listed, buf>>
        /\ Top.pc = "fail_child_post_bind"
    BY Zenon, <1>5 DEF BindFailUnbind, treeVars, Running
  <2>2. "fail_bind" \in Pc /\ "fail_bind" \notin OffList /\ Top.pc \notin OffList
    BY Zenon, <2>1 DEF Pc, OffList
  <2> QED
    BY Zenon, <1>1, <1>2, <1>3, <1>4, <2>1, <2>2, BindGotoKeepsTree
<1>6. CASE BindFailUclass
  <2>1. /\ Goto("fail_uclass_bind") /\ UNCHANGED <<mem, linked, buf>>
        /\ listed' = listed \ {Top.dev} /\ Top.pc = "fail_bind"
    BY Zenon, <1>6 DEF BindFailUclass, Running, HooksBehave
  <2>2. "fail_uclass_bind" \in Pc /\ "fail_uclass_bind" \notin OffList /\ Top.pc \notin OffList
    BY Zenon, <2>1 DEF Pc, OffList
  <2> QED
    BY Zenon, <1>1, <1>2, <1>3, <1>4, <2>1, <2>2, BindGotoKeepsTree
<1>7. CASE BindFailUnlink
  <2>1. /\ Goto("fail_alloc3") /\ UNCHANGED <<mem, listed>> /\ linked' = linked \ {Top.dev}
        /\ buf' = [buf EXCEPT ![Top.dev] = @ \ {"parent_plat"}] /\ Top.pc = "fail_uclass_bind"
    BY Zenon, <1>7 DEF BindFailUnlink, Running
  <2>2. "fail_alloc3" \in Pc /\ "fail_alloc3" \in OffList
    BY Zenon DEF Pc, OffList
  <2>3. buf'[Top.dev] \cap Plats \subseteq PlatsAt["fail_alloc3"]
    BY Zenon, <1>2, <2>1 DEF PlatsAt, Plats, TypeOK
  <2>4. \A e \in Dev \ {Top.dev} : buf'[e] = buf[e]
    BY Zenon, <1>2, <2>1 DEF TypeOK
  <2>5. Top.dev \notin linked' \cup listed'
    BY Zenon, <1>3, <2>1 DEF BindInv
  <2> QED
    BY Zenon, <1>1, <1>2, <1>3, <2>1, <2>2, <2>3, <2>4, <2>5, BindGotoKeepsTree
<1>8. CASE BindFailAlloc3 \/ BindFailAlloc2
  <2>1. PICK pc \in {"fail_alloc2", "fail_alloc1"}, b \in Plats :
          /\ Goto(pc) /\ UNCHANGED <<mem, linked, listed>>
          /\ buf' = [buf EXCEPT ![Top.dev] = @ \ {b}]
          /\ \/ pc = "fail_alloc2" /\ b = "uclass_plat" /\ Top.pc = "fail_alloc3"
             \/ pc = "fail_alloc1" /\ b = "plat" /\ Top.pc = "fail_alloc2"
    BY Zenon, <1>8 DEF BindFailAlloc3, BindFailAlloc2, BindFailFree, treeVars, Running, Plats
  <2>2. pc \in Pc /\ pc \in OffList /\ Top.pc \in OffList
    BY Zenon, <2>1 DEF Pc, OffList
  <2>3. PlatsAt[Top.pc] \ {b} = PlatsAt[pc]
    BY SMTT(30), <2>1 DEF PlatsAt
  <2>4. buf'[Top.dev] \cap Plats \subseteq PlatsAt[pc]
    BY Zenon, <1>2, <1>3, <2>1, <2>2, <2>3 DEF BindInv, TypeOK
  <2>5. \A e \in Dev \ {Top.dev} : buf'[e] = buf[e]
    BY Zenon, <1>2, <2>1 DEF TypeOK
  <2>6. Top.dev \notin linked' \cup listed'
    BY Zenon, <1>3, <2>1, <2>2 DEF BindInv
  <2> QED
    BY Zenon, <1>1, <1>2, <1>3, <2>1, <2>2, <2>4, <2>5, <2>6, BindGotoKeepsTree
<1>9. CASE BindFailAlloc1
  <2>1. /\ stack' = Popped /\ UNCHANGED <<linked, listed, buf>> /\ mem' = mem \ {Top.dev}
        /\ Top.pc = "fail_alloc1" /\ Top.pc \in OffList
    BY Zenon, <1>9 DEF BindFailAlloc1, Return, Running, OffList
  <2>2. StackInv' /\ FramesLive' /\ TopInv'
    BY Zenon, <1>1, <2>1, BindReturns
  <2>3. NoOrphan'
    BY Zenon, <1>3, <2>1 DEF TreeInv, NoOrphan, Kids
  <2>4. PlatsAt["fail_alloc1"] = {}
    BY Zenon DEF PlatsAt
  <2>5. FreedIsGone'
    BY Zenon, <1>3, <2>1, <2>4 DEF TreeInv, FreedIsGone, BindInv
  <2>6. LinkInv'
    BY Zenon, <2>1 DEF TreeInv, LinkInv
  <2> QED
    BY Zenon, <1>2, <2>2, <2>3, <2>5, <2>6 DEF TreeInv
<1> QED
  BY Zenon, <1>5, <1>6, <1>7, <1>8, <1>9

-----------------------------------------------------------------------------
(* device_unbind() *)

(* It moves on within itself.                                               *)
LEMMA UnbindMoves ==
  ASSUME TreeInv, TypeOK', stack # <<>>, Top.fn = "unbind", NEW f \in Frame,
         stack' = WithTop(f), f.fn = "unbind", f.dev = Top.dev,
         f.todo \subseteq mem, \A c \in f.todo : ParentOf[c] = f.dev,
         UNCHANGED <<mem, linked, listed>>,
         \A e \in Dev : buf'[e] \subseteq buf[e],
         f.pc \in {"children", "child"} /\ f.res = "OK" => Kids(f.dev) \subseteq f.todo,
         f.pc = "pre_unbind" => Kids(f.dev) = {} /\ buf'[f.dev] \cap Plats = {}
  PROVE  TreeInv'
<1>1. /\ stack \in Seq(Frame) /\ Len(stack) \in Nat \ {0} /\ Top \in Frame
      /\ TypeOK /\ StackInv /\ FramesLive
  BY Zenon, TopFrame DEF TypeOK, TreeInv
<1>2. /\ StackInv' /\ Len(stack') = Len(stack) /\ Top' = f
      /\ \A i \in 1..(Len(stack) - 1) : stack'[i] = stack[i]
  BY Zenon, <1>1, StackMoves
<1>3. stack'[Len(stack)] = f /\ stack' # <<>>
  BY Zenon, <1>1, <1>2 DEF Top
<1>4. Top.dev \in mem
  BY <1>1 DEF FramesLive, Top
<1>5. FramesLive'
  <2> SUFFICES ASSUME NEW i \in 1..Len(stack)
               PROVE  \/ stack'[i].dev \in mem
                      \/ stack'[i].fn = "bind" /\ stack'[i].pc = "entry"
    BY Zenon, <1>2 DEF FramesLive
  <2>1. CASE i = Len(stack)
    BY Zenon, <1>3, <1>4, <2>1
  <2>2. CASE i # Len(stack)
    <3>1. i \in 1..(Len(stack) - 1)
      BY <1>1, <2>2
    <3>2. stack'[i] = stack[i]
      BY Zenon, <1>2, <3>1
    <3> QED
      BY Zenon, <1>1, <3>2 DEF FramesLive
  <2> QED
    BY Zenon, <2>1, <2>2
<1>6. NoOrphan' /\ FreedIsGone'
  BY Zenon DEF TreeInv, NoOrphan, FreedIsGone
<1>7. LinkInv'
  BY Zenon DEF TreeInv, LinkInv
<1>8. Kids(f.dev)' = Kids(f.dev)
  BY Zenon DEF Kids
<1>9. UnbindInv(Top)'
  BY Zenon, <1>2, <1>8 DEF UnbindInv
<1>10. TopInv'
  BY Zenon, <1>2, <1>9 DEF TopInv
<1> QED
  BY Zenon, <1>2, <1>5, <1>6, <1>7, <1>10 DEF TreeInv

(* It returns to the unbind of the parent, or to its caller; the device is  *)
(* freed exactly when it returns 0.                                         *)
LEMMA UnbindReturns ==
  ASSUME TreeInv, TypeOK', stack # <<>>, Top.fn = "unbind", stack' = Popped,
         UNCHANGED buf,
         \/ ret' # "OK" /\ UNCHANGED <<mem, linked, listed>>
         \/ /\ mem' = mem \ {Top.dev} /\ linked' = linked \ {Top.dev}
            /\ listed' = listed \ {Top.dev} /\ Kids(Top.dev) = {}
            /\ buf[Top.dev] \cap Plats = {}
  PROVE  TreeInv'
<1>1. /\ stack \in Seq(Frame) /\ Len(stack) \in Nat \ {0} /\ Top \in Frame
      /\ TypeOK /\ StackInv /\ FramesLive
  BY Zenon, TopFrame DEF TypeOK, TreeInv
<1>2. /\ StackInv' /\ FramesLive' /\ Len(stack') = Len(stack) - 1
      /\ \A i \in 1..(Len(stack) - 1) : stack'[i] = stack[i]
  BY Zenon, <1>1, StackPops
<1>3. NoOrphan' /\ FreedIsGone'
  BY Zenon DEF TreeInv, NoOrphan, FreedIsGone, Kids
<1>4. LinkInv'
  BY Zenon DEF TreeInv, LinkInv
<1>5. ASSUME stack' # <<>>
      PROVE  Top'.fn = "unbind" /\ UnbindInv(Top)'
  <2>1. stack' \in Seq(Frame)
    BY Zenon, <1>1, PopFrame
  <2>2. Len(stack) - 1 \in 1..(Len(stack) - 1)
    BY <1>1, <1>2, <1>5, <2>1
  <2> DEFINE f == stack[Len(stack) - 1]
  <2>3. Top' = f
    BY Zenon, <1>2, <2>2 DEF Top
  <2>4. NestInv(f, Top) /\ WaitInv(f, Top)
    BY <1>1, <2>2 DEF StackInv, Top
  <2>5. f.fn = "unbind" /\ f.pc = "child"
    BY Zenon, <2>4 DEF NestInv, WaitInv
  <2>6. f.res = "OK" => Kids(f.dev) \subseteq f.todo \cup {Top.dev}
    BY Zenon, <2>4, <2>5 DEF WaitInv
  <2>7. f.res = "OK" /\ ret' = "OK" => {c \in mem' : ParentOf[c] = f.dev} \subseteq f.todo
    BY Zenon, <2>6 DEF Kids
  <2> HIDE DEF f
  <2>8. UnbindInv(Top)'
    BY Zenon, <2>3, <2>5, <2>7 DEF UnbindInv, Kids
  <2> QED
    BY Zenon, <2>3, <2>5, <2>8
<1>6. TopInv'
  BY Zenon, <1>5 DEF TopInv
<1> QED
  BY Zenon, <1>2, <1>3, <1>4, <1>6 DEF TreeInv

(* device_unbind() keeps TreeInv: a device is only freed when all its       *)
(* children are gone.                                                       *)
LEMMA UnbindKeepsTree ==
  ASSUME TreeInv, HooksBehave, UnbindStep
  PROVE  TreeInv'
<1>1. stack # <<>> /\ Top.fn = "unbind"
  BY Zenon DEF UnbindStep, UnbindEntry, UnbindHook, UnbindChild, UnbindChildDone,
         UnbindChildren, UnbindLast, Running
<1>2. /\ stack \in Seq(Frame) /\ Len(stack) \in Nat \ {0} /\ Top \in Frame
      /\ TypeOK /\ TypeOK' /\ StackInv /\ FramesLive
  BY Zenon, <1>1, TopFrame, BindTypes DEF TypeOK, TreeInv
<1>3. FrameInv(Top) /\ UnbindInv(Top)
  BY <1>1, <1>2 DEF TreeInv, TopInv, StackInv, Top
<1>4. /\ Top.todo \subseteq mem /\ \A c \in Top.todo : ParentOf[c] = Top.dev
      /\ Top.dev \in Dev /\ Top.dev \in mem /\ Top.res \in Ret /\ Top.todo \subseteq Dev
  BY <1>1, <1>2, <1>3 DEF FrameInv, FramesLive, Top, Frame
<1>5. \A c \in mem : ParentOf[c] = None \/ c \in linked
  BY Zenon, <1>1 DEF TreeInv, LinkInv
<1>6. Kids(Top.dev) \subseteq Children(Top.dev) /\ Children(Top.dev) \subseteq mem
  BY Zenon, <1>4, <1>5, DevAssumption DEF Kids, Children, TreeInv, FreedIsGone, TypeOK
<1>7. CASE UnbindEntry
  <2>1. UNCHANGED <<mem, linked, listed, buf>>
    BY Zenon, <1>7 DEF UnbindEntry, treeVars
  <2>2. CASE Return("ERR")
    BY Zenon, <1>1, <1>2, <2>1, <2>2, UnbindReturns DEF Return
  <2>3. CASE Goto("unbind")
    <3>1. "unbind" \in Pc
      BY Zenon DEF Pc
    <3>2. /\ At("unbind") \in Frame /\ At("unbind").pc = "unbind" /\ At("unbind").fn = "unbind"
          /\ At("unbind").dev = Top.dev /\ At("unbind").todo = Top.todo
      BY <1>1, <1>2, <3>1, FrameFields
    <3> QED
      BY Zenon, <1>1, <1>2, <1>4, <2>1, <2>3, <3>2, UnbindMoves DEF Goto
  <2> QED
    BY Zenon, <1>7, <2>2, <2>3 DEF UnbindEntry
<1>8. CASE UnbindHook
  <2>1. UNCHANGED <<mem, linked, listed, buf>>
    BY Zenon, <1>8 DEF UnbindHook, treeVars
  <2>2. CASE Return("ERR")
    BY Zenon, <1>1, <1>2, <2>1, <2>2, UnbindReturns DEF Return
  <2>3. CASE WalkStart(Children(Top.dev))
    <3>1. Children(Top.dev) \in SUBSET Dev
      BY Zenon, <1>2 DEF Children, TypeOK
    <3>2. PICK f \in Frame : /\ stack' = WithTop(f) /\ ret' = ret
                             /\ f.fn = Top.fn /\ f.dev = Top.dev
                             /\ f.pc = "children" /\ f.todo = Children(Top.dev)
                             /\ f.res = Top.res
      BY <1>1, <1>2, <2>3, <3>1, WalkStarts
    <3>3. \A c \in Children(Top.dev) : ParentOf[c] = Top.dev
      BY Zenon DEF Children
    <3> QED
      BY Zenon, <1>1, <1>2, <1>6, <2>1, <3>2, <3>3, UnbindMoves
  <2> QED
    BY Zenon, <1>8, <2>2, <2>3 DEF UnbindHook
<1>9. CASE UnbindChild
  <2>1. UNCHANGED <<mem, linked, listed, buf>> /\ WalkCall("unbind") /\ Top.pc = "children"
    BY Zenon, <1>9 DEF UnbindChild, treeVars, Running
  <2>2. "unbind" \in Fn
    BY Zenon DEF Fn
  <2>3. PICK c \in Top.todo, f \in Frame, g \in Frame :
          /\ stack' = Append(WithTop(f), g) /\ ret' = ret
          /\ f.fn = Top.fn /\ f.dev = Top.dev /\ f.pc = "child"
          /\ f.todo = Top.todo \ {c} /\ f.res = Top.res /\ f.rf = Top.rf
          /\ g.fn = "unbind" /\ g.dev = c /\ g.pc = "entry" /\ g.todo = {}
          /\ g.res = "OK" /\ g.rf = Top.rf
    BY Zenon, <1>1, <1>2, <2>1, <2>2, WalkCalls
  <2>4. Top.res = "OK" => Kids(Top.dev) \subseteq Top.todo
    BY Zenon, <1>3, <2>1 DEF UnbindInv
  <2>5. /\ StackInv' /\ FramesLive' /\ Len(stack') = Len(stack) + 1 /\ Top' = g
    BY SMTT(30), <1>1, <1>2, <1>4, <2>1, <2>3, <2>4, StackPushes
  <2>6. NoOrphan' /\ FreedIsGone' /\ LinkInv'
    BY Zenon, <1>5, <2>1 DEF TreeInv, NoOrphan, FreedIsGone, LinkInv
  <2>7. TopInv'
    BY Zenon, <2>3, <2>5 DEF TopInv, UnbindInv
  <2> QED
    BY Zenon, <1>2, <2>5, <2>6, <2>7 DEF TreeInv
<1>10. CASE UnbindChildDone
  <2> DEFINE r == IF Top.res = "OK" THEN ret ELSE Top.res
  <2>1. UNCHANGED <<mem, linked, listed, buf>> /\ WalkNote(r) /\ Top.pc = "child"
    BY Zenon, <1>10 DEF UnbindChildDone, treeVars, Running
  <2>2. r \in Ret
    BY Zenon, <1>2, <1>4 DEF TypeOK
  <2>3. r = "OK" => Top.res = "OK" /\ ret = "OK"
    BY Zenon
  <2> HIDE DEF r
  <2>4. PICK f \in Frame : /\ stack' = WithTop(f) /\ ret' = ret
                           /\ f.fn = Top.fn /\ f.dev = Top.dev
                           /\ f.pc = "children" /\ f.todo = Top.todo /\ f.res = r
    BY <1>1, <1>2, <2>1, <2>2, WalkNotes
  <2>5. f.res = "OK" => Kids(f.dev) \subseteq f.todo
    BY Zenon, <1>3, <2>1, <2>3, <2>4 DEF UnbindInv
  <2> QED
    BY Zenon, <1>1, <1>2, <1>4, <2>1, <2>4, <2>5, UnbindMoves
<1>11. CASE UnbindChildren
  <2>1. UNCHANGED <<mem, linked, listed>> /\ Top.pc = "children" /\ Top.todo = {}
    BY Zenon, <1>11 DEF UnbindChildren, treeVars, Running
  <2>2. CASE Top.res # "OK" /\ Return(Top.res) /\ UNCHANGED buf
    BY Zenon, <1>1, <1>2, <2>1, <2>2, UnbindReturns DEF Return
  <2>3. CASE /\ Top.res = "OK" /\ buf' = [buf EXCEPT ![Top.dev] = @ \ Plats]
             /\ Goto("pre_unbind")
    <3>1. "pre_unbind" \in Pc
      BY Zenon DEF Pc
    <3>2. /\ At("pre_unbind") \in Frame /\ At("pre_unbind").pc = "pre_unbind"
          /\ At("pre_unbind").fn = "unbind" /\ At("pre_unbind").dev = Top.dev
          /\ At("pre_unbind").todo = Top.todo
      BY <1>1, <1>2, <3>1, FrameFields
    <3>3. Kids(Top.dev) = {}
      BY Zenon, <1>3, <2>1, <2>3 DEF UnbindInv
    <3>4. buf'[Top.dev] \cap Plats = {} /\ \A e \in Dev : buf'[e] \subseteq buf[e]
      BY Zenon, <1>2, <1>4, <2>3 DEF TypeOK
    <3> QED
      BY Zenon, <1>1, <1>2, <1>4, <2>1, <2>3, <3>2, <3>3, <3>4, UnbindMoves DEF Goto
  <2> QED
    BY Zenon, <1>11, <2>2, <2>3 DEF UnbindChildren
<1>12. CASE UnbindLast
  <2>1. /\ stack' = Popped /\ UNCHANGED buf /\ Top.pc = "pre_unbind"
        /\ mem' = mem \ {Top.dev} /\ linked' = linked \ {Top.dev}
        /\ listed' = listed \ {Top.dev}
    BY Zenon, <1>12 DEF UnbindLast, Running, Return, HooksBehave
  <2>2. Kids(Top.dev) = {} /\ buf[Top.dev] \cap Plats = {}
    BY Zenon, <1>3, <2>1 DEF UnbindInv
  <2> QED
    BY Zenon, <1>1, <1>2, <2>1, <2>2, UnbindReturns
<1> QED
  BY Zenon, <1>7, <1>8, <1>9, <1>10, <1>11, <1>12 DEF UnbindStep

-----------------------------------------------------------------------------
(* A call from outside the core starts on an empty stack.                   *)
LEMMA StartKeepsTree ==
  ASSUME TreeInv, NEW d \in Dev,
         StartBind(d) \/ StartUnbind(d) \/ StartOfToPlat(d) \/ StartProbe(d) \/ StartRemove(d)
  PROVE  TreeInv'
<1>1. PICK fn \in Fn, rf \in SUBSET RemoveFlag :
        /\ Start(fn, d, rf)
        /\ fn = "bind" => d \notin mem /\ (ParentOf[d] # None => ParentOf[d] \in mem)
        /\ fn # "bind" => d \in listed
  BY SMTT(30), EnvAssumption DEF StartBind, StartUnbind, StartOfToPlat, StartProbe, StartRemove, Fn
<1>2. TypeOK /\ TypeOK'
  BY Zenon, <1>1, StartTypes DEF TreeInv
<1> DEFINE g == NewFrame(fn, d, rf)
<1>3. g.fn = fn /\ g.dev = d /\ g.pc = "entry" /\ g.todo = {}
  BY Zenon DEF NewFrame
<1>4. stack' = <<g>> /\ stack = <<>> /\ UNCHANGED <<mem, linked, listed, buf>>
  BY Zenon, <1>1 DEF Start, treeVars
<1> HIDE DEF g
<1>5. Len(stack') = 1 /\ stack'[1] = g /\ Top' = g
  BY Zenon, <1>4 DEF Top
<1>6. listed \subseteq mem
  BY Zenon, <1>2 DEF TreeInv, FreedIsGone, TypeOK
<1>7. StackInv'
  BY SMTT(30), <1>3, <1>5 DEF StackInv, FrameInv
<1>8. FramesLive'
  <2>1. g.dev \in mem' \/ (g.fn = "bind" /\ g.pc = "entry")
    BY ZenonT(30), <1>1, <1>3, <1>4, <1>6
  <2> QED
    BY SMTT(30), <1>5, <2>1 DEF FramesLive
<1>9. NoOrphan' /\ FreedIsGone' /\ LinkInv'
  BY ZenonT(30), <1>4 DEF TreeInv, NoOrphan, FreedIsGone, LinkInv
<1>10. TopInv'
  BY Zenon, <1>1, <1>3, <1>4, <1>5 DEF TopInv, BindInv, UnbindInv, NoKidsPc, OffList
<1> QED
  BY Zenon, <1>2, <1>7, <1>8, <1>9, <1>10 DEF TreeInv

(* TreeInv is an invariant of the driver model, for every device tree and   *)
(* every re-entrant use of it, when hooks behave.                           *)
THEOREM TreeStays ==
  ASSUME HooksBehave
  PROVE  Spec => []TreeInv
<1>1. Init => TreeInv
  <2> SUFFICES ASSUME Init PROVE TreeInv
    BY Zenon
  <2>1. mem = {} /\ linked = {} /\ listed = {} /\ stack = <<>> /\ Len(stack) = 0
        /\ buf = [d \in Dev |-> {}]
    BY Zenon DEF Init
  <2>2. TypeOK
    BY DEF Init, TypeOK, Ret
  <2>3. NoOrphan /\ LinkInv
    BY Zenon, <2>1 DEF NoOrphan, LinkInv
  <2>4. FreedIsGone
    BY Zenon, <2>1 DEF FreedIsGone
  <2>5. FramesLive
    BY <2>1 DEF FramesLive
  <2>6. StackInv
    BY <2>1 DEF StackInv
  <2>7. TopInv
    BY Zenon, <2>1 DEF TopInv
  <2> QED
    BY Zenon, <2>2, <2>3, <2>4, <2>5, <2>6, <2>7 DEF TreeInv
<1>2. ASSUME TreeInv, [Next]_vars
      PROVE  TreeInv'
  <2>1. CASE \E d \in Dev : \/ StartBind(d) \/ StartUnbind(d) \/ StartOfToPlat(d)
                            \/ StartProbe(d) \/ StartRemove(d)
    BY Zenon, <1>2, <2>1, StartKeepsTree
  <2>2. CASE BindStep
    BY Zenon, <1>2, <2>2, BindEntryKeepsTree, BindForwardKeepsTree, BindHooksKeepTree,
       HookBindsKeepsTree, BindFailKeepsTree DEF BindStep
  <2>3. CASE UnbindStep
    BY Zenon, <1>2, <2>3, UnbindKeepsTree
  <2>4. CASE ProbeStep \/ RemoveStep
    BY Zenon, <1>2, <2>4, QuietKeepsTree
  <2>5. CASE UNCHANGED vars
    <3>1. (TypeOK /\ NoOrphan /\ FreedIsGone /\ FramesLive /\ LinkInv)'
      BY Zenon, <1>2, <2>5 DEF vars, TreeInv, TypeOK, NoOrphan, FreedIsGone, FramesLive,
                        LinkInv, Top
    <3>2. StackInv'
      <4>1. stack' = stack /\ mem' = mem /\ StackInv
        BY Zenon, <1>2, <2>5 DEF vars, TreeInv
      <4>2. (\A i \in 1..Len(stack) : FrameInv(stack[i]))'
        BY Zenon, <4>1 DEF StackInv, FrameInv
      <4>3. (\A i, j \in 1..Len(stack) : i < j => NestInv(stack[i], stack[j]))'
        BY <4>1 DEF StackInv, NestInv
      <4>4. (\A i \in 1..(Len(stack) - 1) : WaitInv(stack[i], stack[i + 1]))'
        BY SMTT(30), <4>1 DEF StackInv, WaitInv, Kids
      <4> QED
        BY Zenon, <4>2, <4>3, <4>4 DEF StackInv
    <3>3. TopInv'
      BY Zenon, <1>2, <2>5 DEF vars, TreeInv, TopInv, BindInv, UnbindInv, Kids, Top
    <3> QED
      BY Zenon, <3>1, <3>2, <3>3 DEF TreeInv
  <2> QED
    BY Zenon, <1>2, <2>1, <2>2, <2>3, <2>4, <2>5 DEF Next
<1> QED
  BY <1>1, <1>2, PTL DEF Spec

(* The parent of a device is never freed before the device.                 *)
THEOREM NoOrphanStays ==
  ASSUME HooksBehave
  PROVE  Spec => []NoOrphan
<1>1. TreeInv => NoOrphan
  BY Zenon DEF TreeInv
<1> QED
  BY <1>1, TreeStays, PTL

(* No call in progress works on a freed device.                             *)
THEOREM FramesLiveStays ==
  ASSUME HooksBehave
  PROVE  Spec => []FramesLive
<1>1. TreeInv => FramesLive
  BY Zenon DEF TreeInv
<1> QED
  BY <1>1, TreeStays, PTL

(* A freed device is on no list and has no plat buffer.                     *)
THEOREM FreedIsGoneStays ==
  ASSUME HooksBehave
  PROVE  Spec => []FreedIsGone
<1>1. TreeInv => FreedIsGone
  BY Zenon DEF TreeInv
<1> QED
  BY <1>1, TreeStays, PTL

-----------------------------------------------------------------------------
(* Devices are whole between calls *)

(* What the stack's three moves do to the devices being bound.              *)
LEMMA MoveBinds ==
  ASSUME TypeOK, stack # <<>>, NEW f \in Frame, stack' = WithTop(f),
         f.fn = Top.fn, f.dev = Top.dev
  PROVE  stack' # <<>> /\ Top' = f /\ \A d \in Dev : InBind(d) => InBind(d)'
<1>1. stack \in Seq(Frame) /\ Len(stack) \in Nat \ {0} /\ Top = stack[Len(stack)]
  BY Zenon, TopFrame DEF TypeOK, Top
<1>2. /\ Len(stack') = Len(stack)
      /\ \A i \in 1..Len(stack) : stack'[i] = IF i = Len(stack) THEN f ELSE stack[i]
  BY Zenon, <1>1, WithTopFrame
<1>3. \A i \in 1..Len(stack) : stack'[i].fn = stack[i].fn /\ stack'[i].dev = stack[i].dev
  BY Zenon, <1>1, <1>2
<1> QED
  BY <1>1, <1>2, <1>3 DEF InBind, Top

LEMMA PushBinds ==
  ASSUME TypeOK, stack # <<>>, NEW f \in Frame, NEW g \in Frame,
         stack' = Append(WithTop(f), g), f.fn = Top.fn, f.dev = Top.dev
  PROVE  Top' = g /\ \A d \in Dev : InBind(d) => InBind(d)'
<1>1. stack \in Seq(Frame) /\ Len(stack) \in Nat \ {0} /\ Top = stack[Len(stack)]
  BY Zenon, TopFrame DEF TypeOK, Top
<1>2. /\ Len(stack') = Len(stack) + 1 /\ stack'[Len(stack) + 1] = g /\ stack'[Len(stack)] = f
      /\ \A i \in 1..(Len(stack) - 1) : stack'[i] = stack[i]
  BY <1>1, WithTopFrame, PushFrame
<1>3. \A i \in 1..Len(stack) :
        i \in 1..Len(stack') /\ stack'[i].fn = stack[i].fn /\ stack'[i].dev = stack[i].dev
  BY <1>1, <1>2
<1> QED
  BY Zenon, <1>1, <1>2, <1>3 DEF InBind, Top

LEMMA PopBinds ==
  ASSUME TreeInv, stack # <<>>, stack' = Popped
  PROVE  /\ \A d \in Dev : InBind(d) => InBind(d)' \/ (Top.fn = "bind" /\ Top.dev = d)
         /\ stack' # <<>> /\ Top'.fn = "bind" => Top'.pc \in {"bind", "post_bind"}
<1>1. stack \in Seq(Frame) /\ Len(stack) \in Nat \ {0} /\ Top = stack[Len(stack)]
  BY Zenon, TopFrame DEF TreeInv, TypeOK, Top
<1>2. /\ Len(stack') = Len(stack) - 1 /\ stack' \in Seq(Frame)
      /\ \A i \in 1..(Len(stack) - 1) : stack'[i] = stack[i]
  BY Zenon, <1>1, PopFrame
<1>3. \A d \in Dev : InBind(d) => InBind(d)' \/ (Top.fn = "bind" /\ Top.dev = d)
  <2> SUFFICES ASSUME NEW i \in 1..Len(stack), stack[i].fn = "bind", i # Len(stack)
               PROVE  i \in 1..Len(stack') /\ stack'[i] = stack[i]
    BY Zenon, <1>1 DEF InBind
  <2> QED
    BY <1>1, <1>2
<1>4. ASSUME stack' # <<>>, Top'.fn = "bind" PROVE Top'.pc \in {"bind", "post_bind"}
  <2>1. Len(stack) - 1 \in 1..(Len(stack) - 1)
    BY <1>1, <1>2, <1>4
  <2>2. Top' = stack[Len(stack) - 1]
    BY Zenon, <1>2, <2>1 DEF Top
  <2>3. WaitInv(stack[Len(stack) - 1], stack[(Len(stack) - 1) + 1])
    BY Zenon, <2>1 DEF TreeInv, StackInv
  <2> QED
    BY Zenon, <1>4, <2>2, <2>3 DEF WaitInv
<1> QED
  BY Zenon, <1>3, <1>4

(* A call returns and leaves every device on its lists.                     *)
LEMMA PopWhole ==
  ASSUME TreeInv, WholeInv, stack # <<>>, stack' = Popped, mem' \subseteq mem,
         \A e \in mem' : Shelved(e)',
         \A e \in mem' : "BOUND" \in flags[e] => "BOUND" \in flags'[e],
         Top.fn = "bind" => Top.dev \notin mem' \/ "BOUND" \in flags'[Top.dev]
  PROVE  WholeInv'
<1>1. mem \subseteq Dev
  BY Zenon DEF TreeInv, TypeOK
<1>2. \A d \in mem' : "BOUND" \in flags'[d] \/ InBind(d)'
  BY Zenon, <1>1, PopBinds DEF WholeInv
<1>3. stack' # <<>> /\ Top'.fn = "bind" => Top'.pc \notin Forward
  BY Zenon, PopBinds DEF Forward
<1> QED
  BY Zenon, <1>2, <1>3 DEF WholeInv

(* A call is made in a hook or during a walk.                               *)
LEMMA PushWhole ==
  ASSUME TypeOK, WholeInv, stack # <<>>, UNCHANGED <<mem, linked, listed, flags, buf>>,
         NEW f \in Frame, NEW g \in Frame, stack' = Append(WithTop(f), g),
         f.fn = Top.fn, f.dev = Top.dev, g.pc = "entry",
         Top.fn = "bind" => Top.pc \in BindHook,
         Top.fn = "unbind" => Top.pc # "pre_unbind"
  PROVE  WholeInv'
<1>1. mem \subseteq Dev
  BY Zenon DEF TypeOK
<1>2. \A d \in mem : Shelved(d)
  BY Zenon DEF WholeInv, InPieces
<1>3. \A d \in mem' : Shelved(d)'
  BY Zenon, <1>2 DEF Shelved
<1>4. \A d \in mem' : "BOUND" \in flags'[d] \/ InBind(d)'
  BY Zenon, <1>1, PushBinds DEF WholeInv
<1>5. Top'.pc \notin Forward
  BY Zenon, PushBinds DEF Forward
<1> QED
  BY Zenon, <1>3, <1>4, <1>5 DEF WholeInv

(* device_bind_common() goes on to another label, device_unbind() too.      *)
LEMMA MoveWhole ==
  ASSUME TypeOK, WholeInv, stack # <<>>, NEW d \in Dev, d = Top.dev,
         NEW f \in Frame, stack' = WithTop(f), f.fn = Top.fn, f.dev = d,
         UNCHANGED <<mem, flags>>, \A e \in Dev \ {d} : buf'[e] = buf[e],
         linked \ {d} \subseteq linked', listed \ {d} \subseteq listed',
         \/ Shelved(d)'
         \/ f.fn = "bind" /\ f.pc \notin BindHook
         \/ f.fn = "unbind" /\ f.pc = "pre_unbind",
         f.fn = "bind" /\ f.pc \in Forward => AutoBufs[d] \cap PlatsAt[f.pc] \subseteq buf'[d]
  PROVE  WholeInv'
<1>1. mem \subseteq Dev
  BY Zenon DEF TypeOK
<1>2. stack' # <<>> /\ Top' = f /\ \A e \in Dev : InBind(e) => InBind(e)'
  BY Zenon, MoveBinds
<1>3. \A e \in mem' : "BOUND" \in flags'[e] \/ InBind(e)'
  BY Zenon, <1>1, <1>2 DEF WholeInv
<1>4. ASSUME NEW e \in mem' PROVE Shelved(e)' \/ InPieces(e)'
  <2>1. CASE e = d
    BY ZenonT(30), <1>2, <2>1 DEF InPieces
  <2>2. CASE e # d
    <3>1. Shelved(e) /\ e \in Dev
      BY Zenon, <1>1, <2>2 DEF WholeInv, InPieces
    <3> QED
      BY Zenon, <2>2, <3>1 DEF Shelved
  <2> QED
    BY Zenon, <2>1, <2>2
<1> QED
  BY Zenon, <1>2, <1>3, <1>4 DEF WholeInv

(* Probing and removing leave DM_FLAG_BOUND alone.                          *)
LEMMA QuietFlags ==
  ASSUME TypeOK, stack # <<>>, ProbeStep \/ RemoveStep
  PROVE  \A e \in Dev : "BOUND" \in flags[e] => "BOUND" \in flags'[e]
<1>1. Top.dev \in Dev
  BY Zenon, DataTypes
<1>2. \/ flags' = flags \/ DeviceFree(Top.dev) \/ DeactivateAndFree(Top.dev)
      \/ Set(Top.dev, "ACTIVATED") \/ Set(Top.dev, "PLATDATA_VALID")
  <2>1. CASE OfToPlatEntry \/ OfToPlatParent \/ OfToPlatHook
    BY Zenon, <2>1 DEF OfToPlatEntry, OfToPlatParent, OfToPlatHook, Fails
  <2>2. CASE OfToPlatAlloc
    BY Zenon, <2>2 DEF OfToPlatAlloc, Fails
  <2>3. CASE ProbeEntry \/ ProbeOfToPlat \/ ProbeParent
    BY Zenon, <2>3 DEF ProbeEntry, ProbeOfToPlat, ProbeParent, ProbeFails, Activate
  <2>4. CASE ProbeHookOk \/ ProbeHookFail \/ ProbeFailUclass \/ HookProbes
    BY Zenon, <2>4 DEF ProbeHookOk, ProbeHookFail, ProbeFailUclass, HookProbes, ProbeFails
  <2>5. CASE RemoveStep
    BY Zenon, <2>5 DEF RemoveStep, RemoveEntry, RemoveChild, RemoveChildDone,
                RemoveChildren, RemoveHook, RemoveLast
  <2> QED
    BY Zenon, <2>1, <2>2, <2>3, <2>4, <2>5 DEF ProbeStep
<1> QED
  BY <1>1, <1>2 DEF TypeOK, DeviceFree, DeactivateAndFree, Set

LEMMA QuietKeepsWhole ==
  ASSUME TreeInv, WholeInv, ProbeStep \/ RemoveStep
  PROVE  WholeInv'
<1>1. /\ stack # <<>> /\ Top.fn \in Quiet /\ (stack' # <<>> => Top'.fn \in Quiet)
      /\ BelowStays
  BY Zenon, QuietMoves
<1>2. TypeOK /\ mem \subseteq Dev /\ stack \in Seq(Frame) /\ Len(stack) \in Nat \ {0}
      /\ Top.fn # "bind" /\ Top.fn # "unbind"
  BY Zenon, <1>1, TopFrame DEF TreeInv, TypeOK, Quiet
<1>3. /\ mem' = mem /\ linked' = linked /\ listed' = listed
      /\ \A e \in Dev : buf'[e] \cap Plats = buf[e] \cap Plats
      /\ \A e \in Dev : "BOUND" \in flags[e] => "BOUND" \in flags'[e]
  BY Zenon, <1>1, <1>2, QuietData, QuietFlags DEF treeVars
<1>4. \A d \in Dev : InBind(d) => InBind(d)'
  <2> SUFFICES ASSUME NEW i \in 1..Len(stack), stack[i].fn = "bind"
               PROVE  i \in 1..Len(stack') /\ stack'[i] = stack[i]
    BY Zenon DEF InBind
  <2>1. i # Len(stack)
    BY Zenon, <1>2 DEF Top
  <2>2. i \in 1..(Len(stack) - 1)
    BY <1>2, <2>1
  <2> QED
    BY Zenon, <1>1, <2>2 DEF BelowStays
<1>5. \A d \in mem' : Shelved(d)'
  <2>1. \A d \in mem : Shelved(d)
    BY Zenon, <1>2 DEF WholeInv, InPieces
  <2> QED
    BY Zenon, <1>2, <1>3, <2>1 DEF Shelved
<1>6. \A d \in mem' : "BOUND" \in flags'[d] \/ InBind(d)'
  BY Zenon, <1>2, <1>3, <1>4 DEF WholeInv
<1> QED
  BY Zenon, <1>1, <1>5, <1>6 DEF WholeInv, Quiet

(* device_bind_common() goes on to a label at which the device may be in    *)
(* pieces.                                                                  *)
LEMMA BindGotoPieces ==
  ASSUME TypeOK, WholeInv, stack # <<>>, Top.fn = "bind",
         NEW pc \in Pc \ BindHook, Goto(pc), UNCHANGED <<mem, flags>>,
         \A e \in Dev \ {Top.dev} : buf'[e] = buf[e],
         linked \ {Top.dev} \subseteq linked', listed \ {Top.dev} \subseteq listed',
         pc \in Forward => AutoBufs[Top.dev] \cap PlatsAt[pc] \subseteq buf'[Top.dev]
  PROVE  WholeInv'
<1>1. PICK d \in Dev : d = Top.dev
  BY Zenon, DataTypes
<1>2. PICK f \in Frame : stack' = WithTop(f) /\ f.fn = Top.fn /\ f.dev = d /\ f.pc = pc
  BY <1>1, FrameFields DEF Goto
<1> QED
  BY Zenon, <1>1, <1>2, MoveWhole

LEMMA BindEntryWhole ==
  ASSUME TreeInv, WholeInv, BindEntry
  PROVE  WholeInv'
<1>1. stack # <<>> /\ Top.fn = "bind" /\ Top.pc = "entry" /\ UNCHANGED <<linked, listed>>
  BY Zenon DEF BindEntry, Running
<1>2. TypeOK /\ Top.dev \in Dev /\ mem \subseteq Dev
  BY Zenon, <1>1, DataTypes DEF TreeInv, TypeOK
<1>3. Top.dev \notin mem
  BY Zenon, <1>1 DEF TreeInv, TopInv, BindInv
<1>4. \A e \in mem : Shelved(e)
  BY Zenon, <1>3 DEF WholeInv, InPieces
<1>5. CASE Return("ERR") /\ UNCHANGED <<mem, flags, buf>>
  <2>1. \A e \in mem' : Shelved(e)'
    BY Zenon, <1>1, <1>4, <1>5 DEF Shelved
  <2> QED
    BY Zenon, <1>1, <1>3, <1>5, <2>1, PopWhole DEF Return
<1>6. CASE /\ mem' = mem \cup {Top.dev} /\ flags' = [flags EXCEPT ![Top.dev] = {}]
           /\ buf' = [buf EXCEPT ![Top.dev] = {}] /\ Goto("plat")
  <2>1. PICK d \in Dev : d = Top.dev
    BY Zenon, <1>2
  <2>2. "plat" \in Pc /\ "plat" \notin BindHook
    BY Zenon DEF Pc, BindHook
  <2>3. PICK f \in Frame : stack' = WithTop(f) /\ f.fn = Top.fn /\ f.dev = d /\ f.pc = "plat"
    BY SMTT(30), <1>1, <1>2, <1>6, <2>1, <2>2, FrameFields DEF Goto
  <2>4. stack' # <<>> /\ Top' = f /\ \A e \in Dev : InBind(e) => InBind(e)'
    BY Zenon, <1>1, <1>2, <2>1, <2>3, MoveBinds
  <2>5. InBind(d)
    <3>1. Len(stack) \in 1..Len(stack)
      BY <1>1, <1>2, TopFrame DEF TypeOK
    <3> QED
      BY Zenon, <1>1, <2>1, <3>1 DEF InBind, Top
  <2>6. \A e \in mem' : "BOUND" \in flags'[e] \/ InBind(e)'
    BY Zenon, <1>2, <1>6, <2>1, <2>4, <2>5 DEF WholeInv, TypeOK
  <2>7. \A e \in mem' : Shelved(e)' \/ InPieces(e)'
    <3>1. \A e \in mem : e # d => Shelved(e)'
      BY Zenon, <1>1, <1>2, <1>4, <1>6, <2>1 DEF Shelved, TypeOK
    <3>2. InPieces(d)'
      BY Zenon, <1>1, <2>2, <2>3, <2>4 DEF InPieces
    <3> QED
      BY Zenon, <1>6, <2>1, <3>1, <3>2
  <2>8. PlatsAt["plat"] = {}
    BY Zenon DEF PlatsAt
  <2> QED
    BY Zenon, <2>3, <2>4, <2>6, <2>7, <2>8 DEF WholeInv
<1> QED
  BY Zenon, <1>5, <1>6 DEF BindEntry

LEMMA BindAllocWhole ==
  ASSUME TreeInv, WholeInv, BindPlat \/ BindUclassPlat \/ BindParentPlat
  PROVE  WholeInv'
<1>1. stack # <<>> /\ Top.fn = "bind" /\ Top.pc \in Forward
  BY Zenon DEF BindPlat, BindUclassPlat, BindParentPlat, BindAlloc, Running, Forward
<1>2. TypeOK /\ Top.dev \in Dev
  BY Zenon, <1>1, DataTypes DEF TreeInv
<1>3. AutoBufs[Top.dev] \cap PlatsAt[Top.pc] \subseteq buf[Top.dev]
  BY Zenon, <1>1 DEF WholeInv
<1>4. ASSUME NEW b \in Plats, NEW next \in Pc \ BindHook, NEW fail \in (Pc \ BindHook) \ Forward,
             BindAlloc(b, next, fail), PlatsAt[next] \subseteq PlatsAt[b] \cup {b}
      PROVE  WholeInv'
  <2>1. Top.pc = b /\ UNCHANGED <<mem, linked, listed, flags>>
    BY Zenon, <1>4 DEF BindAlloc, Running, treeVars
  <2>2. CASE Goto(fail) /\ UNCHANGED buf
    BY Zenon, <1>1, <1>2, <1>4, <2>1, <2>2, BindGotoPieces
  <2>3. CASE b \notin AutoBufs[Top.dev] /\ Goto(next) /\ UNCHANGED buf
    <3>1. AutoBufs[Top.dev] \cap PlatsAt[next] \subseteq buf'[Top.dev]
      BY Zenon, <1>3, <1>4, <2>1, <2>3
    <3> QED
      BY Zenon, <1>1, <1>2, <1>4, <2>1, <2>3, <3>1, BindGotoPieces
  <2>4. CASE buf' = [buf EXCEPT ![Top.dev] = @ \cup {b}] /\ Goto(next)
    <3>1. AutoBufs[Top.dev] \cap PlatsAt[next] \subseteq buf'[Top.dev]
      BY Zenon, <1>2, <1>3, <1>4, <2>1, <2>4 DEF TypeOK
    <3>2. \A e \in Dev \ {Top.dev} : buf'[e] = buf[e]
      BY Zenon, <1>2, <2>4 DEF TypeOK
    <3> QED
      BY Zenon, <1>1, <1>2, <1>4, <2>1, <2>4, <3>1, <3>2, BindGotoPieces
  <2> QED
    BY Zenon, <1>4, <2>2, <2>3, <2>4 DEF BindAlloc
<1>5. /\ "plat" \in Plats /\ "uclass_plat" \in Plats /\ "parent_plat" \in Plats
      /\ "uclass_plat" \in Pc \ BindHook /\ "parent_plat" \in Pc \ BindHook
      /\ "link" \in Pc \ BindHook
      /\ "fail_alloc1" \in (Pc \ BindHook) \ Forward
      /\ "fail_alloc2" \in (Pc \ BindHook) \ Forward
      /\ "fail_alloc3" \in (Pc \ BindHook) \ Forward
  BY Zenon DEF Plats, Pc, BindHook, Forward
<1>6. /\ PlatsAt["plat"] = {} /\ PlatsAt["uclass_plat"] = {"plat"}
      /\ PlatsAt["parent_plat"] = {"plat", "uclass_plat"} /\ PlatsAt["link"] = Plats
      /\ Plats = {"plat", "uclass_plat", "parent_plat"}
  BY Zenon DEF PlatsAt, Plats
<1>7. CASE BindPlat
  BY Zenon, <1>4, <1>5, <1>6, <1>7 DEF BindPlat
<1>8. CASE BindUclassPlat
  BY Zenon, <1>4, <1>5, <1>6, <1>8 DEF BindUclassPlat
<1>9. CASE BindParentPlat
  BY Zenon, <1>4, <1>5, <1>6, <1>9 DEF BindParentPlat
<1> QED
  BY Zenon, <1>7, <1>8, <1>9

LEMMA BindLinkWhole ==
  ASSUME TreeInv, WholeInv, BindLink
  PROVE  WholeInv'
<1>1. /\ stack # <<>> /\ Top.fn = "bind" /\ Top.pc = "link" /\ Goto("uc_child_post_bind")
      /\ UNCHANGED <<mem, flags, buf>>
      /\ linked' = IF ParentOf[Top.dev] = None THEN linked ELSE linked \cup {Top.dev}
      /\ listed' = listed \cup {Top.dev}
  BY Zenon DEF BindLink, Running
<1>2. TypeOK
  BY Zenon DEF TreeInv
<1>3. PICK d \in Dev : d = Top.dev
  BY Zenon, <1>1, <1>2, DataTypes
<1>4. PlatsAt["link"] = Plats /\ "link" \in Forward
  BY Zenon DEF PlatsAt, Forward
<1>5. AutoBufs[d] \cap Plats \subseteq buf[d]
  BY ZenonT(30), <1>1, <1>3, <1>4 DEF WholeInv
<1>6. Shelved(d)'
  BY Zenon, <1>1, <1>3, <1>5 DEF Shelved
<1>7. "uc_child_post_bind" \in Pc /\ "uc_child_post_bind" \notin Forward
  BY Zenon DEF Pc, BindHook, Forward
<1>8. PICK f \in Frame : /\ stack' = WithTop(f) /\ f.fn = Top.fn /\ f.dev = d
                         /\ f.pc = "uc_child_post_bind"
  BY SMTT(30), <1>1, <1>2, <1>3, <1>7, FrameFields DEF Goto
<1> QED
  BY Zenon, <1>1, <1>2, <1>3, <1>6, <1>7, <1>8, MoveWhole

LEMMA BindHooksWhole ==
  ASSUME TreeInv, WholeInv, BindHookOk \/ BindHookFail
  PROVE  WholeInv'
<1>1. stack # <<>> /\ Top.fn = "bind" /\ Top.pc \in BindHook /\ UNCHANGED <<mem, linked, buf>>
  BY Zenon DEF BindHookOk, BindHookFail, Running, treeVars
<1>2. TypeOK /\ mem \subseteq Dev
  BY Zenon DEF TreeInv, TypeOK
<1>3. PICK d \in Dev : d = Top.dev
  BY Zenon, <1>1, <1>2, DataTypes
<1>4. \A e \in mem : Shelved(e)
  BY Zenon, <1>1 DEF WholeInv, InPieces
<1>5. d \in mem
  <2>1. Len(stack) \in 1..Len(stack)
    BY SMTT(30), <1>1, <1>2, TopFrame DEF TypeOK
  <2> QED
    BY Zenon, <1>1, <1>3, <2>1 DEF TreeInv, FramesLive, Top, BindHook
<1>6. CASE BindHookFail
  <2>1. Goto(BindFail[Top.pc]) /\ listed \ {Top.dev} \subseteq listed' /\ flags' = flags
    BY Zenon, <1>6 DEF BindHookFail, Running
  <2>2. BindFail[Top.pc] \in Pc \ BindHook /\ BindFail[Top.pc] \notin Forward
    BY SMTT(30), <1>1 DEF BindFail, BindHook, Pc, Forward
  <2> QED
    BY Zenon, <1>1, <1>2, <2>1, <2>2, BindGotoPieces
<1>7. CASE BindHookOk /\ Top.pc # "post_bind"
  <2>1. Goto(BindSucc[Top.pc]) /\ listed' = listed /\ flags' = flags
    BY Zenon, <1>7 DEF BindHookOk, Running, treeVars
  <2>2. BindSucc[Top.pc] \in Pc /\ BindSucc[Top.pc] \notin Forward
    BY SMTT(30), <1>1, <1>7 DEF BindSucc, BindHook, Pc, Forward
  <2>3. PICK f \in Frame : /\ stack' = WithTop(f) /\ f.fn = Top.fn /\ f.dev = d
                           /\ f.pc = BindSucc[Top.pc]
    BY SMTT(30), <1>1, <1>2, <1>3, <2>1, <2>2, FrameFields DEF Goto
  <2>4. Shelved(d)'
    BY Zenon, <1>1, <1>4, <1>5, <2>1 DEF Shelved
  <2> QED
    BY Zenon, <1>1, <1>2, <1>3, <2>1, <2>2, <2>3, <2>4, MoveWhole
<1>8. CASE BindHookOk /\ Top.pc = "post_bind"
  <2>1. Return("OK") /\ listed' = listed /\ flags' = [flags EXCEPT ![d] = @ \cup {"BOUND"}]
    BY Zenon, <1>3, <1>8 DEF BindHookOk, Running, treeVars, Set
  <2>2. \A e \in mem' : Shelved(e)'
    BY Zenon, <1>1, <1>4, <2>1 DEF Shelved
  <2>3. /\ \A e \in mem' : "BOUND" \in flags[e] => "BOUND" \in flags'[e]
        /\ "BOUND" \in flags'[Top.dev]
    BY Zenon, <1>1, <1>2, <1>3, <2>1 DEF TypeOK
  <2> QED
    BY Zenon, <1>1, <2>1, <2>2, <2>3, PopWhole DEF Return
<1> QED
  BY Zenon, <1>6, <1>7, <1>8

(* A hook binds a device below its own.                                     *)
LEMMA HookBindsWhole ==
  ASSUME TreeInv, WholeInv, HookBinds
  PROVE  WholeInv'
<1>1. /\ stack # <<>> /\ UNCHANGED <<mem, linked, listed, flags, buf>>
      /\ Top.fn = "bind" => Top.pc \in BindHook
      /\ Top.fn # "unbind"
  BY Zenon DEF HookBinds, Running, treeVars, BindHook
<1>2. PICK c \in Dev : HookCall("bind", c)
  BY Zenon DEF HookBinds
<1>3. TypeOK /\ Top \in Frame /\ stack \in Seq(Frame)
  BY Zenon, <1>1, TopFrame DEF TreeInv, TypeOK
<1> DEFINE g == NewFrame("bind", c, {})
<1>4. g \in Frame /\ g.pc = "entry"
  BY <1>1, <1>3, FrameFields DEF Fn
<1>5. stack' = Append(WithTop(Top), g)
  BY Zenon, <1>1, <1>2, <1>3, SameTop DEF HookCall
<1> HIDE DEF g
<1>6. PICK f \in Frame : f = Top
  BY Zenon, <1>3
<1> QED
  BY Zenon, <1>1, <1>3, <1>4, <1>5, <1>6, PushWhole

(* The error labels of device_bind_common().                                *)
LEMMA BindFailWhole ==
  ASSUME TreeInv, WholeInv,
         \/ BindFailUnbind \/ BindFailUclass \/ BindFailUnlink
         \/ BindFailAlloc3 \/ BindFailAlloc2 \/ BindFailAlloc1
  PROVE  WholeInv'
<1>1. stack # <<>> /\ Top.fn = "bind"
  BY Zenon DEF BindFailUnbind, BindFailUclass, BindFailUnlink, BindFailAlloc3, BindFailAlloc2,
         BindFailFree, BindFailAlloc1, Running
<1>2. TypeOK /\ Top.dev \in Dev /\ mem \subseteq Dev
  BY Zenon, <1>1, DataTypes DEF TreeInv, TypeOK
<1>3. CASE BindFailAlloc1
  <2>1. /\ stack' = Popped /\ mem' = mem \ {Top.dev} /\ UNCHANGED <<linked, listed, buf>>
        /\ flags' = [flags EXCEPT ![Top.dev] = {}]
    BY Zenon, <1>3 DEF BindFailAlloc1, Return
  <2>2. \A e \in mem' : Shelved(e)'
    BY Zenon, <2>1 DEF WholeInv, InPieces, Shelved
  <2>3. \A e \in mem' : "BOUND" \in flags[e] => "BOUND" \in flags'[e]
    BY Zenon, <1>2, <2>1 DEF TypeOK
  <2> QED
    BY Zenon, <1>1, <2>1, <2>2, <2>3, PopWhole
<1>4. CASE ~BindFailAlloc1
  <2>1. PICK pc \in {"fail_bind", "fail_uclass_bind", "fail_alloc3", "fail_alloc2", "fail_alloc1"} :
          Goto(pc)
    BY Zenon, <1>4 DEF BindFailUnbind, BindFailUclass, BindFailUnlink, BindFailAlloc3, BindFailAlloc2,
                BindFailFree
  <2>2. pc \in Pc \ BindHook /\ pc \notin Forward
    BY Zenon DEF Pc, BindHook, Forward
  <2>3. /\ UNCHANGED <<mem, flags>>
        /\ linked \ {Top.dev} \subseteq linked' /\ listed \ {Top.dev} \subseteq listed'
    BY Zenon, <1>4 DEF BindFailUnbind, BindFailUclass, BindFailUnlink, BindFailAlloc3, BindFailAlloc2,
                BindFailFree, treeVars
  <2>4. \A e \in Dev \ {Top.dev} : buf'[e] = buf[e]
    BY Zenon, <1>2, <1>4 DEF BindFailUnbind, BindFailUclass, BindFailUnlink, BindFailAlloc3,
                      BindFailAlloc2, BindFailFree, TypeOK
  <2> QED
    BY Zenon, <1>1, <1>2, <2>1, <2>2, <2>3, <2>4, BindGotoPieces
<1> QED
  BY Zenon, <1>3, <1>4

(* device_unbind()                                                          *)
LEMMA UnbindKeepsWhole ==
  ASSUME TreeInv, WholeInv, HooksBehave, UnbindStep
  PROVE  WholeInv'
<1>1. stack # <<>> /\ Top.fn = "unbind"
  BY Zenon DEF UnbindStep, UnbindEntry, UnbindHook, UnbindChild, UnbindChildDone,
         UnbindChildren, UnbindLast, Running
<1>2. TypeOK /\ mem \subseteq Dev
  BY Zenon DEF TreeInv, TypeOK
<1>3. PICK d \in Dev : d = Top.dev
  BY Zenon, <1>1, <1>2, DataTypes
<1>4. d \in mem
  <2>1. Len(stack) \in 1..Len(stack)
    BY <1>1, <1>2, TopFrame DEF TypeOK
  <2> QED
    BY Zenon, <1>1, <1>3, <2>1 DEF TreeInv, FramesLive, Top
<1>5. CASE UnbindLast
  <2>1. /\ stack' = Popped /\ mem' = mem \ {d} /\ linked' = linked \ {d}
        /\ listed' = listed \ {d} /\ flags' = [flags EXCEPT ![d] = {}] /\ buf' = buf
    BY Zenon, <1>3, <1>5 DEF UnbindLast, Return, HooksBehave
  <2>2. \A e \in mem' : Shelved(e)'
    BY Zenon, <1>3, <2>1 DEF WholeInv, InPieces, Shelved
  <2>3. \A e \in mem' : "BOUND" \in flags[e] => "BOUND" \in flags'[e]
    BY Zenon, <1>2, <2>1 DEF TypeOK
  <2> QED
    BY Zenon, <1>1, <2>1, <2>2, <2>3, PopWhole
<1>6. CASE ~UnbindLast
  <2>1. /\ UNCHANGED <<mem, linked, listed, flags>>
        /\ Top.pc # "pre_unbind"
        /\ buf' # buf => UnbindChildren /\ Goto("pre_unbind")
    BY ZenonT(30), <1>6 DEF UnbindStep, UnbindEntry, UnbindHook, UnbindChild, UnbindChildDone,
                UnbindChildren, Running, treeVars
  <2>2. \A e \in mem : Shelved(e)
    BY ZenonT(30), <1>1, <2>1 DEF WholeInv, InPieces
  <2>3. buf' = buf => \A e \in mem : Shelved(e)'
    BY ZenonT(30), <2>1, <2>2 DEF Shelved
  <2>4. ASSUME NEW f \in Frame, stack' = WithTop(f), f.fn = Top.fn, f.dev = d, buf' = buf
        PROVE  WholeInv'
    BY ZenonT(30), <1>1, <1>2, <1>3, <1>4, <2>1, <2>3, <2>4, MoveWhole
  <2>5. CASE buf' = buf /\ stack' = Popped
    BY ZenonT(30), <1>1, <2>1, <2>3, <2>5, PopWhole
  <2>6. CASE UnbindEntry /\ Goto("unbind")
    <3>1. "unbind" \in Pc /\ buf' = buf
      BY Zenon, <2>6 DEF Pc, UnbindEntry
    <3> QED
      BY Zenon, <1>1, <1>2, <1>3, <2>4, <2>6, <3>1, FrameFields DEF Goto
  <2>7. CASE UnbindHook /\ WalkStart(Children(Top.dev))
    <3>1. Children(Top.dev) \in SUBSET Dev /\ buf' = buf
      BY Zenon, <1>2, <2>7 DEF Children, TypeOK, UnbindHook
    <3>2. PICK f \in Frame : /\ stack' = WithTop(f) /\ ret' = ret
                             /\ f.fn = Top.fn /\ f.dev = Top.dev
                             /\ f.pc = "children" /\ f.todo = Children(Top.dev)
                             /\ f.res = Top.res /\ f.rf = Top.rf
      BY Zenon, <1>1, <1>2, <2>7, <3>1, WalkStarts
    <3> QED
      BY Zenon, <1>3, <2>4, <3>1, <3>2
  <2>8. CASE UnbindChild
    <3>1. WalkCall("unbind") /\ "unbind" \in Fn /\ buf' = buf
      BY Zenon, <2>8 DEF UnbindChild, Fn
    <3>2. PICK c \in Top.todo, f \in Frame, g \in Frame :
            /\ stack' = Append(WithTop(f), g) /\ ret' = ret
            /\ f.fn = Top.fn /\ f.dev = Top.dev /\ f.pc = "child"
            /\ f.todo = Top.todo \ {c} /\ f.res = Top.res /\ f.rf = Top.rf
            /\ g.fn = "unbind" /\ g.dev = c /\ g.pc = "entry" /\ g.todo = {}
            /\ g.res = "OK" /\ g.rf = Top.rf
      BY Zenon, <1>1, <1>2, <3>1, WalkCalls
    <3> QED
      BY Zenon, <1>1, <1>2, <2>1, <3>1, <3>2, PushWhole
  <2>9. CASE UnbindChildDone
    <3> DEFINE r == IF Top.res = "OK" THEN ret ELSE Top.res
    <3>1. WalkNote(r) /\ buf' = buf
      BY Zenon, <2>9 DEF UnbindChildDone
    <3>2. r \in Ret
      BY Zenon, <1>1, <1>2, TopFrame DEF TypeOK, Frame
    <3> HIDE DEF r
    <3>3. PICK f \in Frame : /\ stack' = WithTop(f) /\ ret' = ret
                             /\ f.fn = Top.fn /\ f.dev = Top.dev
                             /\ f.pc = "children" /\ f.todo = Top.todo /\ f.res = r
                             /\ f.rf = Top.rf
      BY Zenon, <1>1, <1>2, <3>1, <3>2, WalkNotes
    <3> QED
      BY Zenon, <1>3, <2>4, <3>1, <3>3
  <2>10. CASE UnbindChildren /\ Goto("pre_unbind") /\ buf' = [buf EXCEPT ![Top.dev] = @ \ Plats]
    <3>1. "pre_unbind" \in Pc /\ \A e \in Dev \ {d} : buf'[e] = buf[e]
      BY Zenon, <1>2, <1>3, <2>10 DEF Pc, TypeOK
    <3>2. PICK f \in Frame : stack' = WithTop(f) /\ f.fn = Top.fn /\ f.dev = d /\ f.pc = "pre_unbind"
      BY SMTT(30), <1>1, <1>2, <1>3, <2>10, <3>1, FrameFields DEF Goto
    <3> QED
      BY Zenon, <1>1, <1>2, <1>3, <2>1, <3>1, <3>2, MoveWhole
  <2> QED
    BY Zenon, <1>6, <2>5, <2>6, <2>7, <2>8, <2>9, <2>10
    DEF UnbindStep, UnbindEntry, UnbindHook, UnbindChildren, Return
<1> QED
  BY Zenon, <1>5, <1>6

(* A call starts between calls, when every device is whole.                 *)
LEMMA StartKeepsWhole ==
  ASSUME TreeInv, WholeInv, NEW fn, NEW d \in Dev, NEW rf, Start(fn, d, rf)
  PROVE  WholeInv'
<1> DEFINE g == NewFrame(fn, d, rf)
<1>1. g.pc = "entry"
  BY Zenon DEF NewFrame
<1>2. stack' = <<g>> /\ stack = <<>> /\ UNCHANGED <<mem, linked, listed, flags, buf>>
  BY Zenon DEF Start, treeVars
<1> HIDE DEF g
<1>3. Len(stack') = 1 /\ stack'[1] = g /\ Top' = g /\ Len(stack) = 0
  BY Zenon, <1>2 DEF Top
<1>4. \A e \in mem : "BOUND" \in flags[e] /\ Shelved(e)
  BY SMTT(30), <1>2, <1>3 DEF WholeInv, InBind, InPieces
<1>5. \A e \in mem' : "BOUND" \in flags'[e] /\ Shelved(e)'
  BY Zenon, <1>2, <1>4 DEF Shelved
<1> QED
  BY Zenon, <1>1, <1>3, <1>5 DEF WholeInv, Forward

(* WholeInv is an invariant of the driver model, for every device tree, any *)
(* failure of an allocation or of a hook and every nesting of calls, as     *)
(* long as hooks behave as for TreeInv: uclasses agree to an unbinding, and *)
(* a hook that has bound children does not fail.                            *)
THEOREM WholeStays ==
  ASSUME HooksBehave
  PROVE  Spec => []WholeInv
<1>1. Init => WholeInv
  BY Zenon DEF Init, WholeInv
<1>2. Spec => []TreeInv
  BY Zenon, TreeStays
<1>3. TreeInv /\ WholeInv /\ [Next]_vars => WholeInv'
  <2> SUFFICES ASSUME TreeInv, WholeInv, [Next]_vars
               PROVE  WholeInv'
    BY Zenon
  <2>1. ASSUME NEW d \in Dev, \/ StartBind(d) \/ StartUnbind(d) \/ StartOfToPlat(d)
                              \/ StartProbe(d) \/ StartRemove(d)
        PROVE  WholeInv'
    <3>1. PICK fn, rf : Start(fn, d, rf)
      BY Zenon, <2>1 DEF StartBind, StartUnbind, StartOfToPlat, StartProbe, StartRemove
    <3> QED
      BY Zenon, <3>1, StartKeepsWhole
  <2>2. CASE BindStep
    BY Zenon, <2>2, BindEntryWhole, BindAllocWhole, BindLinkWhole, BindHooksWhole, HookBindsWhole,
       BindFailWhole DEF BindStep
  <2>3. CASE UnbindStep
    BY Zenon, <2>3, UnbindKeepsWhole
  <2>4. CASE ProbeStep \/ RemoveStep
    BY Zenon, <2>4, QuietKeepsWhole
  <2>5. CASE UNCHANGED vars
    BY <2>5 DEF vars, WholeInv, InBind, Shelved, InPieces, Top
  <2> QED
    BY Zenon, <2>1, <2>2, <2>3, <2>4, <2>5 DEF Next
<1> QED
  BY <1>1, <1>2, <1>3, PTL DEF Spec

(* Between calls every device is bound, on both lists and has its plats:    *)
(* neither the error labels of device_bind_common() nor the error returns   *)
(* of device_unbind() leave a device half made or half taken apart.         *)
THEOREM WholeBetween ==
  ASSUME HooksBehave
  PROVE  Spec => []WholeBetweenCalls
<1>1. TreeInv /\ WholeInv => WholeBetweenCalls
  <2> SUFFICES ASSUME TreeInv, WholeInv, stack = <<>>, NEW d \in mem
               PROVE  "BOUND" \in flags[d] /\ Shelved(d)
    BY Zenon DEF WholeBetweenCalls, Shelved
  <2>1. Len(stack) = 0
    BY Zenon
  <2> QED
    BY <2>1 DEF WholeInv, InBind, InPieces
<1>2. Spec => []TreeInv
  BY Zenon, TreeStays
<1> QED
  BY <1>1, <1>2, WholeStays, PTL
=============================================================================
