------------------------- MODULE DriverModelProofs --------------------------
(***************************************************************************)
(* Proofs about the driver model, for every device tree, every set of       *)
(* drivers and every depth of re-entrant calls: its types, its call stack,  *)
(* and that probing and removing leave the device tree as it is.            *)
(***************************************************************************)
EXTENDS DriverModel, TLAPS

-----------------------------------------------------------------------------
(* The call stack *)

(* The innermost frame of a non-empty stack is a frame.                     *)
LEMMA TopFrame ==
  ASSUME stack \in Seq(Frame), stack # <<>>
  PROVE  Len(stack) \in Nat \ {0} /\ Top \in Frame
BY DEF Top

(* Replacing the innermost frame changes nothing else.                      *)
LEMMA WithTopFrame ==
  ASSUME stack \in Seq(Frame), stack # <<>>, NEW f \in Frame
  PROVE  /\ WithTop(f) \in Seq(Frame)
         /\ Len(WithTop(f)) = Len(stack)
         /\ \A i \in 1..Len(stack) :
              WithTop(f)[i] = IF i = Len(stack) THEN f ELSE stack[i]
BY DEF WithTop

(* Pushing a frame keeps those below it.                                    *)
LEMMA PushFrame ==
  ASSUME NEW s \in Seq(Frame), NEW f \in Frame
  PROVE  /\ Append(s, f) \in Seq(Frame)
         /\ Len(Append(s, f)) = Len(s) + 1
         /\ Append(s, f)[Len(s) + 1] = f
         /\ \A i \in 1..Len(s) : Append(s, f)[i] = s[i]
OBVIOUS

(* Popping the innermost frame keeps those below it.                        *)
LEMMA PopFrame ==
  ASSUME stack \in Seq(Frame), stack # <<>>
  PROVE  /\ Popped \in Seq(Frame)
         /\ Len(Popped) = Len(stack) - 1
         /\ \A i \in 1..(Len(stack) - 1) : Popped[i] = stack[i]
BY SMTT(30) DEF Popped

(* Frames built by calls, by jumps and by the walk over the children.       *)
LEMMA FrameTypes ==
  ASSUME stack \in Seq(Frame), stack # <<>>
  PROVE  /\ \A pc \in Pc : At(pc) \in Frame
         /\ \A pc \in Pc, k \in SUBSET Dev : [At(pc) EXCEPT !.todo = k] \in Frame
         /\ \A pc \in Pc, r \in Ret : [At(pc) EXCEPT !.res = r] \in Frame
         /\ \A fn \in Fn, d \in Dev, rf \in SUBSET RemoveFlag :
              NewFrame(fn, d, rf) \in Frame
<1>1. Top \in Frame
  BY Zenon, TopFrame
<1>2. "OK" \in Ret /\ "entry" \in Pc
  BY Zenon DEF Ret, Pc
<1> QED
  BY Zenon, <1>1, <1>2 DEF At, NewFrame, Frame

(* Every way the model has of moving on leaves a well-formed stack.         *)
LEMMA ControlTypes ==
  ASSUME TypeOK, stack # <<>>
  PROVE  /\ \A pc \in Pc : Goto(pc) => stack' \in Seq(Frame) /\ ret' \in Ret
         /\ \A r \in Ret : Return(r) => stack' \in Seq(Frame) /\ ret' \in Ret
         /\ \A fn \in Fn, d \in Dev, pc \in Pc :
              Call(fn, d, pc) => stack' \in Seq(Frame) /\ ret' \in Ret
         /\ \A fn \in Fn, d \in Dev, rf \in SUBSET RemoveFlag, pc \in Pc :
              CallFrom(At(pc), NewFrame(fn, d, rf)) =>
                stack' \in Seq(Frame) /\ ret' \in Ret
         /\ \A fn \in Fn, d \in Dev :
              HookCall(fn, d) => stack' \in Seq(Frame) /\ ret' \in Ret
         /\ \A k \in SUBSET Dev :
              WalkStart(k) => stack' \in Seq(Frame) /\ ret' \in Ret
         /\ \A fn \in Fn : WalkCall(fn) => stack' \in Seq(Frame) /\ ret' \in Ret
         /\ \A r \in Ret : WalkNote(r) => stack' \in Seq(Frame) /\ ret' \in Ret
<1>1. stack \in Seq(Frame) /\ ret \in Ret
  BY Zenon DEF TypeOK
<1>2. "children" \in Pc /\ "child" \in Pc /\ {} \in SUBSET RemoveFlag
  BY Zenon DEF Pc
<1>3. \A f \in Frame : WithTop(f) \in Seq(Frame)
  BY Zenon, <1>1, WithTopFrame
<1>4. \A f, g \in Frame : Append(WithTop(f), g) \in Seq(Frame)
  BY Zenon, <1>3, PushFrame
<1>5. ASSUME NEW pc \in Pc, Goto(pc)
      PROVE  stack' \in Seq(Frame) /\ ret' \in Ret
  BY Zenon, <1>1, <1>3, <1>5, FrameTypes DEF Goto
<1>6. ASSUME NEW r \in Ret, Return(r)
      PROVE  stack' \in Seq(Frame) /\ ret' \in Ret
  BY Zenon, <1>1, <1>6, PopFrame DEF Return
<1>7. ASSUME NEW fn \in Fn, NEW d \in Dev, NEW rf \in SUBSET RemoveFlag,
             NEW pc \in Pc, CallFrom(At(pc), NewFrame(fn, d, rf))
      PROVE  stack' \in Seq(Frame) /\ ret' \in Ret
  BY Zenon, <1>1, <1>4, <1>7, FrameTypes DEF CallFrom
<1>8. ASSUME NEW fn \in Fn, NEW d \in Dev, NEW pc \in Pc, Call(fn, d, pc)
      PROVE  stack' \in Seq(Frame) /\ ret' \in Ret
  BY Zenon, <1>2, <1>7, <1>8 DEF Call
<1>9. ASSUME NEW fn \in Fn, NEW d \in Dev, HookCall(fn, d)
      PROVE  stack' \in Seq(Frame) /\ ret' \in Ret
  BY Zenon, <1>1, <1>2, <1>9, FrameTypes, PushFrame DEF HookCall
<1>10. ASSUME NEW k \in SUBSET Dev, WalkStart(k)
       PROVE  stack' \in Seq(Frame) /\ ret' \in Ret
  BY Zenon, <1>1, <1>2, <1>3, <1>10, FrameTypes DEF WalkStart
<1>11. ASSUME NEW fn \in Fn, WalkCall(fn)
       PROVE  stack' \in Seq(Frame) /\ ret' \in Ret
  <2>1. Top \in Frame
    BY Zenon, <1>1, TopFrame
  <2>2. PICK c \in Top.todo :
          CallFrom([At("child") EXCEPT !.todo = @ \ {c}], NewFrame(fn, c, Top.rf))
    BY Zenon, <1>11 DEF WalkCall
  <2>3. Top.todo \ {c} \in SUBSET Dev /\ c \in Dev /\ Top.rf \in SUBSET RemoveFlag
    BY Zenon, <2>1 DEF Frame
  <2>4. At("child").todo = Top.todo
    BY Zenon, <2>1 DEF At, Frame
  <2>5. [At("child") EXCEPT !.todo = @ \ {c}] = [At("child") EXCEPT !.todo = Top.todo \ {c}]
    BY Zenon, <2>4
  <2>6. [At("child") EXCEPT !.todo = @ \ {c}] \in Frame
    BY Zenon, <1>1, <1>2, <2>3, <2>5, FrameTypes
  <2>7. NewFrame(fn, c, Top.rf) \in Frame
    BY Zenon, <1>1, <2>3, FrameTypes
  <2> QED
    BY Zenon, <1>1, <1>4, <2>2, <2>6, <2>7 DEF CallFrom
<1>12. ASSUME NEW r \in Ret, WalkNote(r)
       PROVE  stack' \in Seq(Frame) /\ ret' \in Ret
  BY Zenon, <1>1, <1>2, <1>3, <1>12, FrameTypes DEF WalkNote
<1> QED
  BY Zenon, <1>5, <1>6, <1>7, <1>8, <1>9, <1>10, <1>11, <1>12

(* The fields of the innermost frame, and the tree update helpers, are      *)
(* well typed.                                                              *)
LEMMA DataTypes ==
  ASSUME TypeOK, stack # <<>>
  PROVE  /\ Top.dev \in Dev /\ Top.todo \subseteq Dev /\ Top.res \in Ret
         /\ Top.rf \in SUBSET RemoveFlag
         /\ \A d \in Dev : Children(d) \in SUBSET Dev
         /\ \A d \in Dev, f \in Flag : Set(d, f) => flags' \in [Dev -> SUBSET Flag]
         /\ \A d \in Dev : DeviceFree(d) \/ DeactivateAndFree(d) =>
              /\ flags' \in [Dev -> SUBSET Flag]
              /\ buf' \in [Dev -> SUBSET (Plats \cup Privs)]
<1>1. Top \in Frame
  BY Zenon, TopFrame DEF TypeOK
<1>2. Top.dev \in Dev /\ Top.todo \subseteq Dev /\ Top.res \in Ret
      /\ Top.rf \in SUBSET RemoveFlag
  BY Zenon, <1>1 DEF Frame
<1>3. \A d \in Dev : Children(d) \in SUBSET Dev
  BY Zenon DEF Children, TypeOK
<1>4. \A d \in Dev, f \in Flag : Set(d, f) => flags' \in [Dev -> SUBSET Flag]
  BY DEF Set, TypeOK
<1>5. \A d \in Dev : DeviceFree(d) \/ DeactivateAndFree(d) =>
         /\ flags' \in [Dev -> SUBSET Flag]
         /\ buf' \in [Dev -> SUBSET (Plats \cup Privs)]
  BY DEF DeviceFree, DeactivateAndFree, TypeOK
<1> QED
  BY Zenon, <1>2, <1>3, <1>4, <1>5

(* Every step of device_bind_common() and device_unbind() is well typed.    *)
LEMMA BindTypes ==
  ASSUME TypeOK, BindStep \/ UnbindStep
  PROVE  TypeOK'
<1>1. stack # <<>>
  BY Zenon DEF BindStep, UnbindStep, Running, BindEntry, BindPlat, BindUclassPlat,
         BindParentPlat, BindAlloc, BindLink, BindHookOk, BindHookFail, HookBinds,
         BindFailUnbind, BindFailUclass, BindFailUnlink, BindFailAlloc3,
         BindFailAlloc2, BindFailFree, BindFailAlloc1, UnbindEntry, UnbindHook,
         UnbindChild, UnbindChildDone, UnbindChildren, UnbindLast
<1>2. /\ \A pc \in Pc : Goto(pc) => stack' \in Seq(Frame) /\ ret' \in Ret
      /\ \A r \in Ret : Return(r) => stack' \in Seq(Frame) /\ ret' \in Ret
  BY Zenon, <1>1, ControlTypes
<1>3. Top.dev \in Dev /\ Top.res \in Ret /\ "OK" \in Ret /\ "ERR" \in Ret
  BY Zenon, <1>1, DataTypes DEF Ret
<1>4. CASE BindEntry
  <2>1. "plat" \in Pc
    BY Zenon DEF Pc
  <2>2. stack' \in Seq(Frame) /\ ret' \in Ret
    BY Zenon, <1>2, <1>3, <1>4, <2>1 DEF BindEntry
  <2> QED
    BY Zenon, <1>3, <1>4, <2>2 DEF BindEntry, TypeOK
<1>5. ASSUME NEW b \in Plats, NEW next \in Pc, NEW fail \in Pc,
             BindAlloc(b, next, fail)
      PROVE  TypeOK'
  <2>1. stack' \in Seq(Frame) /\ ret' \in Ret
    BY Zenon, <1>2, <1>5 DEF BindAlloc
  <2>2. buf' = buf \/ buf' = [buf EXCEPT ![Top.dev] = @ \cup {b}]
    BY Zenon, <1>5 DEF BindAlloc
  <2>3. buf' \in [Dev -> SUBSET (Plats \cup Privs)]
    BY <1>3, <2>2 DEF TypeOK
  <2> QED
    BY Zenon, <1>5, <2>1, <2>3 DEF BindAlloc, TypeOK, treeVars
<1>6. CASE BindPlat \/ BindUclassPlat \/ BindParentPlat
  BY Zenon, <1>5, <1>6 DEF BindPlat, BindUclassPlat, BindParentPlat, Pc, Plats
<1>7. CASE BindLink
  <2>1. "uc_child_post_bind" \in Pc
    BY Zenon DEF Pc, BindHook
  <2>2. stack' \in Seq(Frame) /\ ret' \in Ret
    BY Zenon, <1>2, <1>7, <2>1 DEF BindLink
  <2> QED
    BY Zenon, <1>3, <1>7, <2>2 DEF BindLink, TypeOK
<1>8. CASE BindHookOk
  <2>1. PICK h \in BindHook :
          \/ h # "post_bind" /\ Goto(BindSucc[h]) /\ UNCHANGED flags
          \/ h = "post_bind" /\ Set(Top.dev, "BOUND") /\ Return("OK")
    BY Zenon, <1>8 DEF BindHookOk
  <2>2. h # "post_bind" => BindSucc[h] \in Pc
    BY DEF BindSucc, BindHook, Pc
  <2>3. "BOUND" \in Flag
    BY Zenon DEF Flag
  <2>4. stack' \in Seq(Frame) /\ ret' \in Ret
    BY Zenon, <1>2, <1>3, <2>1, <2>2
  <2>5. flags' \in [Dev -> SUBSET Flag]
    BY Zenon, <1>1, <1>3, <2>1, <2>3, DataTypes DEF TypeOK
  <2> QED
    BY Zenon, <1>8, <2>4, <2>5 DEF BindHookOk, TypeOK, treeVars
<1>9. CASE BindHookFail
  <2>1. PICK h \in BindHook : Goto(BindFail[h])
    BY Zenon, <1>9 DEF BindHookFail
  <2>2. BindFail[h] \in Pc
    BY DEF BindFail, BindHook, Pc
  <2>3. stack' \in Seq(Frame) /\ ret' \in Ret
    BY Zenon, <1>2, <2>1, <2>2
  <2>4. listed' \subseteq Dev
    BY Zenon, <1>9 DEF BindHookFail, TypeOK
  <2> QED
    BY Zenon, <1>9, <2>3, <2>4 DEF BindHookFail, TypeOK
<1>10. CASE HookBinds
  <2>1. "bind" \in Fn
    BY Zenon DEF Fn
  <2>2. stack' \in Seq(Frame) /\ ret' \in Ret
    BY Zenon, <1>1, <1>10, <2>1, ControlTypes DEF HookBinds
  <2> QED
    BY Zenon, <1>10, <2>2 DEF HookBinds, TypeOK, treeVars
<1>11. CASE BindFailUnbind \/ BindFailUclass \/ BindFailUnlink
  <2>1. "fail_bind" \in Pc /\ "fail_uclass_bind" \in Pc /\ "fail_alloc3" \in Pc
    BY Zenon DEF Pc
  <2>2. stack' \in Seq(Frame) /\ ret' \in Ret
    BY Zenon, <1>2, <1>11, <2>1 DEF BindFailUnbind, BindFailUclass, BindFailUnlink
  <2>3. CASE BindFailUnbind
    BY Zenon, <2>2, <2>3 DEF BindFailUnbind, TypeOK, treeVars
  <2>4. CASE BindFailUclass
    BY Zenon, <2>2, <2>4 DEF BindFailUclass, TypeOK
  <2>5. CASE BindFailUnlink
    BY Zenon, <1>3, <2>2, <2>5 DEF BindFailUnlink, TypeOK
  <2> QED
    BY Zenon, <1>11, <2>3, <2>4, <2>5
<1>12. CASE BindFailAlloc3 \/ BindFailAlloc2
  <2>1. "fail_alloc2" \in Pc /\ "fail_alloc1" \in Pc
    BY Zenon DEF Pc
  <2>2. stack' \in Seq(Frame) /\ ret' \in Ret
    BY Zenon, <1>2, <1>12, <2>1 DEF BindFailAlloc3, BindFailAlloc2, BindFailFree
  <2>3. PICK b \in {"plat", "uclass_plat"} : buf' = [buf EXCEPT ![Top.dev] = @ \ {b}]
    BY Zenon, <1>12 DEF BindFailAlloc3, BindFailAlloc2, BindFailFree
  <2>4. buf' \in [Dev -> SUBSET (Plats \cup Privs)]
    BY Zenon, <1>3, <2>3 DEF TypeOK
  <2> QED
    BY Zenon, <1>12, <2>2, <2>4
    DEF BindFailAlloc3, BindFailAlloc2, BindFailFree, TypeOK, treeVars
<1>13. CASE BindFailAlloc1
  BY Zenon, <1>2, <1>3, <1>13 DEF BindFailAlloc1, TypeOK
<1>14. CASE UnbindEntry \/ UnbindHook \/ UnbindChild \/ UnbindChildDone
  <2>1. "unbind" \in Pc /\ "unbind" \in Fn /\ ret \in Ret
    BY Zenon DEF Pc, Fn, TypeOK
  <2>2. Children(Top.dev) \in SUBSET Dev
    BY Zenon, <1>1, <1>3, DataTypes
  <2>3. stack' \in Seq(Frame) /\ ret' \in Ret
    BY Zenon, <1>1, <1>3, <1>14, <2>1, <2>2, ControlTypes
    DEF UnbindEntry, UnbindHook, UnbindChild, UnbindChildDone
  <2> QED
    BY Zenon, <1>14, <2>3
    DEF UnbindEntry, UnbindHook, UnbindChild, UnbindChildDone, TypeOK, treeVars
<1>15. CASE UnbindChildren
  <2>1. "pre_unbind" \in Pc
    BY Zenon DEF Pc
  <2>2. stack' \in Seq(Frame) /\ ret' \in Ret
    BY Zenon, <1>2, <1>3, <1>15, <2>1 DEF UnbindChildren
  <2>3. buf' = buf \/ buf' = [buf EXCEPT ![Top.dev] = @ \ Plats]
    BY Zenon, <1>15 DEF UnbindChildren
  <2>4. buf' \in [Dev -> SUBSET (Plats \cup Privs)]
    BY <1>3, <2>3 DEF TypeOK
  <2> QED
    BY Zenon, <1>15, <2>2, <2>4 DEF UnbindChildren, TypeOK, treeVars
<1>16. CASE UnbindLast
  <2>1. stack' \in Seq(Frame) /\ ret' \in Ret
    BY Zenon, <1>2, <1>3, <1>16 DEF UnbindLast
  <2> QED
    BY Zenon, <1>3, <1>16, <2>1 DEF UnbindLast, TypeOK, treeVars
<1> QED
  BY Zenon, <1>4, <1>6, <1>7, <1>8, <1>9, <1>10, <1>11, <1>12, <1>13, <1>14, <1>15, <1>16
  DEF BindStep, UnbindStep

(* Every step of device_of_to_plat(), device_probe() and device_remove() is *)
(* well typed.                                                              *)
LEMMA ProbeTypes ==
  ASSUME TypeOK, ProbeStep \/ RemoveStep
  PROVE  TypeOK'
<1>1. stack # <<>>
  BY Zenon DEF ProbeStep, RemoveStep, Running, OfToPlatEntry, OfToPlatParent,
         OfToPlatAlloc, OfToPlatHook, ProbeEntry, ProbeOfToPlat, ProbeParent,
         ProbeHookOk, ProbeHookFail, ProbeFailUclass, HookProbes, RemoveEntry,
         RemoveChild, RemoveChildDone, RemoveChildren, RemoveHook, RemoveLast
<1>2. Ret = {"OK", "ERR", "DEFER", "REJECTED"} /\ ret \in Ret /\ Top.res \in Ret
  BY Zenon, <1>1, DataTypes DEF Ret, TypeOK
<1>3. "of_to_plat" \in Fn /\ "probe" \in Fn /\ "remove" \in Fn
  BY Zenon DEF Fn
<1>4. "NORMAL" \in RemoveFlag /\ "ACTIVATED" \in Flag /\ "PLATDATA_VALID" \in Flag
  BY Zenon DEF RemoveFlag, Flag
<1>5. /\ "parent" \in Pc /\ "alloc_priv" \in Pc /\ "of_to_plat" \in Pc
      /\ "pinctrl" \in Pc /\ "pre_probe" \in Pc /\ "own_pinctrl" \in Pc
      /\ "fail_uclass" \in Pc /\ "pre_remove" \in Pc /\ "remove" \in Pc
      /\ "child_post_remove" \in Pc
  BY Zenon DEF Pc, ProbeHook
<1>6. Top.dev \in Dev /\ (ParentOf[Top.dev] # None => ParentOf[Top.dev] \in Dev)
  BY Zenon, <1>1, DataTypes, DevAssumption
<1> DEFINE Control == stack' \in Seq(Frame) /\ ret' \in Ret
           Data == /\ flags' \in [Dev -> SUBSET Flag]
                   /\ buf' \in [Dev -> SUBSET (Plats \cup Privs)]
                   /\ UNCHANGED treeVars
<1>7. Control /\ Data => TypeOK'
  BY Zenon DEF TypeOK, treeVars
<1>8. /\ \A pc \in Pc : Goto(pc) => Control
      /\ \A r \in Ret : Return(r) => Control
      /\ \A fn \in Fn, d \in Dev, pc \in Pc : Call(fn, d, pc) => Control
  BY Zenon, <1>1, ControlTypes
<1>9. /\ UNCHANGED <<treeVars, flags, buf>> => Data
      /\ Set(Top.dev, "ACTIVATED") /\ UNCHANGED <<treeVars, buf>> => Data
      /\ Set(Top.dev, "PLATDATA_VALID") /\ UNCHANGED <<treeVars, buf>> => Data
      /\ DeviceFree(Top.dev) /\ UNCHANGED treeVars => Data
      /\ DeactivateAndFree(Top.dev) /\ UNCHANGED treeVars => Data
  BY Zenon, <1>1, <1>4, <1>6, DataTypes DEF TypeOK
<1> HIDE DEF Control, Data
<1>10. CASE OfToPlatEntry
  BY Zenon, <1>2, <1>3, <1>5, <1>6, <1>7, <1>8, <1>9, <1>10 DEF OfToPlatEntry
<1>11. CASE OfToPlatParent \/ OfToPlatHook
  BY Zenon, <1>2, <1>5, <1>7, <1>8, <1>9, <1>11 DEF OfToPlatParent, OfToPlatHook, Fails
<1>12. CASE OfToPlatAlloc
  <2>1. CASE Fails("ERR")
    BY Zenon, <1>2, <1>7, <1>8, <1>9, <1>12, <2>1 DEF OfToPlatAlloc, Fails
  <2>2. CASE /\ buf' = [buf EXCEPT ![Top.dev] = @ \cup (AutoBufs[Top.dev] \cap Privs)]
             /\ Goto("of_to_plat") /\ UNCHANGED flags
    <3>1. Data
      BY Zenon, <1>6, <1>12, <2>2 DEF Data, OfToPlatAlloc, TypeOK
    <3> QED
      BY Zenon, <1>5, <1>7, <1>8, <2>2, <3>1
  <2> QED
    BY Zenon, <1>12, <2>1, <2>2 DEF OfToPlatAlloc
<1>13. CASE ProbeEntry
  BY Zenon, <1>2, <1>3, <1>5, <1>6, <1>7, <1>8, <1>9, <1>13 DEF ProbeEntry
<1>14. CASE ProbeOfToPlat \/ ProbeParent
  <2>1. Control
    BY Zenon, <1>2, <1>3, <1>5, <1>6, <1>8, <1>14 DEF ProbeOfToPlat, ProbeParent, ProbeFails, Activate
  <2>2. Data
    BY Zenon, <1>9, <1>14 DEF ProbeOfToPlat, ProbeParent, ProbeFails, Activate
  <2> QED
    BY Zenon, <1>7, <2>1, <2>2
<1>15. CASE ProbeHookOk
  <2>1. \A h \in DOMAIN ProbeSucc : ProbeSucc[h] \in Pc
    BY DEF ProbeSucc, ProbeHook, Pc
  <2>2. Control
    BY Zenon, <1>2, <1>5, <1>8, <1>15, <2>1 DEF ProbeHookOk
  <2> QED
    BY Zenon, <1>7, <1>9, <1>15, <2>2 DEF ProbeHookOk
<1>16. CASE ProbeHookFail \/ ProbeFailUclass
  <2>1. \/ Return("ERR") /\ DeactivateAndFree(Top.dev)
        \/ /\ CallFrom(At("fail_uclass"), NewFrame("remove", Top.dev, {"NORMAL"}))
           /\ UNCHANGED <<flags, buf>>
    BY Zenon, <1>16 DEF ProbeHookFail, ProbeFailUclass, ProbeFails
  <2>2. {"NORMAL"} \in SUBSET RemoveFlag /\ UNCHANGED treeVars
    BY Zenon, <1>4, <1>16 DEF ProbeHookFail, ProbeFailUclass
  <2>3. Control
    BY Zenon, <1>1, <1>2, <1>3, <1>5, <1>6, <2>1, <2>2, ControlTypes DEF Control
  <2> QED
    BY Zenon, <1>7, <1>9, <2>1, <2>2, <2>3
<1>17. CASE HookProbes
  <2>1. PICK e \in listed : HookCall("probe", e)
    BY Zenon, <1>17 DEF HookProbes
  <2>2. Control
    BY Zenon, <1>1, <1>3, <2>1, ControlTypes DEF Control, TypeOK
  <2> QED
    BY Zenon, <1>7, <1>9, <1>17, <2>2 DEF HookProbes
<1>18. CASE RemoveEntry \/ RemoveChild \/ RemoveChildDone
  <2>1. Children(Top.dev) \in SUBSET Dev
    BY Zenon, <1>1, <1>6, DataTypes
  <2>2. Control
    BY Zenon, <1>1, <1>2, <1>3, <1>18, <2>1, ControlTypes
    DEF RemoveEntry, RemoveChild, RemoveChildDone, Control
  <2> QED
    BY Zenon, <1>7, <1>9, <1>18, <2>2 DEF RemoveEntry, RemoveChild, RemoveChildDone
<1>19. CASE RemoveChildren
  <2>1. FlagsRemove(Top.rf, DrvFlags[Top.dev]) \in Ret
    BY Zenon, <1>2 DEF FlagsRemove
  <2>2. Control
    BY Zenon, <1>2, <1>5, <1>8, <1>19, <2>1 DEF RemoveChildren
  <2> QED
    BY Zenon, <1>7, <1>9, <1>19, <2>2 DEF RemoveChildren
<1>20. CASE RemoveHook \/ RemoveLast
  <2>1. Control
    BY Zenon, <1>2, <1>5, <1>8, <1>20 DEF RemoveHook, RemoveLast
  <2> QED
    BY Zenon, <1>7, <1>9, <1>20, <2>1 DEF RemoveHook, RemoveLast
<1> QED
  BY Zenon, <1>10, <1>11, <1>12, <1>13, <1>14, <1>15, <1>16, <1>17, <1>18, <1>19, <1>20
  DEF ProbeStep, RemoveStep

(* A call from outside the core pushes one frame on an empty stack.         *)
LEMMA StartTypes ==
  ASSUME TypeOK, NEW fn \in Fn, NEW d \in Dev, NEW rf \in SUBSET RemoveFlag,
         Start(fn, d, rf)
  PROVE  TypeOK'
<1>1. NewFrame(fn, d, rf) \in Frame
  BY Zenon DEF NewFrame, Frame, Pc, Ret
<1> QED
  BY <1>1 DEF Start, TypeOK, treeVars

(* Every step of the driver model, and no step at all, keep the types.      *)
LEMMA NextTypes ==
  ASSUME TypeOK, [Next]_vars
  PROVE  TypeOK'
<1>1. CASE \E d \in Dev : \/ StartBind(d) \/ StartUnbind(d) \/ StartOfToPlat(d)
                          \/ StartProbe(d) \/ StartRemove(d)
  <2>1. PICK d \in Dev, fn \in Fn, rf \in SUBSET RemoveFlag : Start(fn, d, rf)
    BY Zenon, <1>1, EnvAssumption
    DEF StartBind, StartUnbind, StartOfToPlat, StartProbe, StartRemove, Fn
  <2> QED
    BY Zenon, <2>1, StartTypes
<1>2. CASE BindStep \/ UnbindStep \/ ProbeStep \/ RemoveStep
  BY Zenon, <1>2, BindTypes, ProbeTypes
<1>3. CASE UNCHANGED vars
  BY Zenon, <1>3 DEF vars, TypeOK
<1> QED
  BY Zenon, <1>1, <1>2, <1>3 DEF Next

(* The state of the core stays well typed: in particular the stack only     *)
(* ever holds frames of the five core functions at one of their labels.     *)
THEOREM TypesStay == Spec => []TypeOK
<1>1. Init => TypeOK
  BY DEF Init, TypeOK, Ret
<1>2. TypeOK /\ [Next]_vars => TypeOK'
  BY Zenon, NextTypes
<1> QED
  BY <1>1, <1>2, PTL DEF Spec

-----------------------------------------------------------------------------
(* How the stack invariant survives a change of the stack *)

(* The innermost frame moves on within its function.                        *)
LEMMA StackMoves ==
  ASSUME TypeOK, StackInv, stack # <<>>, NEW f \in Frame,
         f.fn = Top.fn, f.dev = Top.dev,
         stack' = WithTop(f),
         mem' = mem \/ (Top.fn = "bind" /\ mem \subseteq mem'),
         f.fn \in {"remove", "unbind"} => f.todo \subseteq mem',
         f.fn = "unbind" => \A c \in f.todo : ParentOf[c] = f.dev
  PROVE  /\ StackInv'
         /\ Len(stack') = Len(stack) /\ Top' = f
         /\ \A i \in 1..(Len(stack) - 1) : stack'[i] = stack[i]
<1>1. stack \in Seq(Frame) /\ Len(stack) \in Nat \ {0} /\ Top \in Frame
  BY Zenon, TopFrame DEF TypeOK
<1>2. /\ Len(stack') = Len(stack)
      /\ \A i \in 1..Len(stack) : stack'[i] = IF i = Len(stack) THEN f ELSE stack[i]
  BY Zenon, <1>1, WithTopFrame
<1>3. \A i \in 1..Len(stack) : stack'[i].fn = stack[i].fn /\ stack'[i].dev = stack[i].dev
  BY Zenon, <1>1, <1>2 DEF Top
<1>4. \A i \in 1..(Len(stack) - 1) : Top.fn = "bind" => stack[i].fn \notin {"remove", "unbind"}
  BY <1>1 DEF StackInv, NestInv, Top
<1>5. (\A i \in 1..Len(stack) : FrameInv(stack[i]))'
  BY <1>1, <1>2, <1>4 DEF StackInv, FrameInv
<1>6. (\A i, j \in 1..Len(stack) : i < j => NestInv(stack[i], stack[j]))'
  BY <1>1, <1>2, <1>3 DEF StackInv, NestInv
<1>7. (\A i \in 1..(Len(stack) - 1) : WaitInv(stack[i], stack[i + 1]))'
  <2> SUFFICES ASSUME NEW i \in 1..(Len(stack) - 1)
               PROVE  WaitInv(stack[i], stack[i + 1])'
    BY Zenon, <1>1, <1>2
  <2>1. WaitInv(stack[i], stack[i + 1])
    BY Zenon DEF StackInv
  <2>2. stack'[i] = stack[i] /\ stack'[i + 1].dev = stack[i + 1].dev
    BY <1>1, <1>2, <1>3
  <2>3. stack[i].fn = "unbind" => mem' = mem
    BY Zenon, <1>4
  <2> QED
    BY Zenon, <2>1, <2>2, <2>3 DEF WaitInv, Kids
<1> QED
  BY <1>1, <1>2, <1>5, <1>6, <1>7 DEF StackInv, Top

(* The innermost call returns; a bind or an unbind may free its device.     *)
LEMMA StackPops ==
  ASSUME TypeOK, StackInv, FramesLive, stack # <<>>,
         stack' = Popped,
         mem' = mem \/ (Top.fn \in {"bind", "unbind"} /\ mem' = mem \ {Top.dev})
  PROVE  /\ StackInv' /\ FramesLive'
         /\ Len(stack') = Len(stack) - 1
         /\ \A i \in 1..(Len(stack) - 1) : stack'[i] = stack[i]
<1>1. stack \in Seq(Frame) /\ Len(stack) \in Nat \ {0} /\ Top \in Frame
  BY Zenon, TopFrame DEF TypeOK
<1>2. /\ Len(stack') = Len(stack) - 1
      /\ \A i \in 1..(Len(stack) - 1) : stack'[i] = stack[i]
  BY Zenon, <1>1, PopFrame
<1>3. \A i \in 1..(Len(stack) - 1) : stack[i] \in Frame /\ NestInv(stack[i], Top)
  BY <1>1 DEF StackInv, Top
<1>4. \A i \in 1..(Len(stack) - 1) : Top.fn \in {"bind", "unbind"} => stack[i].dev # Top.dev
  BY <1>1, <1>3, DevAssumption DEF NestInv, Frame
<1>5. \A i \in 1..(Len(stack) - 1) : Top.fn = "unbind" => Top.dev \notin stack[i].todo
  <2> SUFFICES ASSUME NEW i \in 1..(Len(stack) - 1), Top.fn = "unbind"
               PROVE  Top.dev \notin stack[i].todo
    BY Zenon
  <2> DEFINE n == Len(stack) - 1
  <2>1. n \in 1..(Len(stack) - 1) /\ i \in 1..Len(stack) /\ n \in 1..Len(stack)
    BY <1>1
  <2>2. stack[i].fn = "unbind" /\ stack[n].fn = "unbind"
    BY Zenon, <1>3, <2>1 DEF NestInv
  <2>3. WaitInv(stack[n], Top)
    BY <1>1, <2>1 DEF StackInv, Top
  <2>4. CASE i = n
    BY Zenon, <2>2, <2>3, <2>4 DEF WaitInv
  <2>5. CASE i # n
    <3>1. NestInv(stack[i], stack[n])
      BY <1>1, <2>1, <2>5 DEF StackInv
    <3>2. stack[i].dev # stack[n].dev
      BY <1>3, <2>1, <2>2, <3>1, DevAssumption DEF NestInv, Frame
    <3>3. ParentOf[Top.dev] = stack[n].dev
      BY Zenon, <2>2, <2>3 DEF WaitInv
    <3>4. \A c \in stack[i].todo : ParentOf[c] = stack[i].dev
      BY Zenon, <2>1, <2>2 DEF StackInv, FrameInv
    <3> QED
      BY Zenon, <3>2, <3>3, <3>4
  <2> QED
    BY Zenon, <2>4, <2>5
<1>6. (\A i \in 1..Len(stack) : FrameInv(stack[i]))'
  <2> SUFFICES ASSUME NEW i \in 1..(Len(stack) - 1)
               PROVE  FrameInv(stack[i])'
    BY Zenon, <1>1, <1>2
  <2>1. FrameInv(stack[i])
    BY <1>1 DEF StackInv
  <2>2. stack[i].fn \in {"remove", "unbind"} => mem' = mem \/ Top.fn = "unbind"
    BY Zenon, <1>3 DEF NestInv
  <2> QED
    BY Zenon, <1>2, <1>5, <2>1, <2>2 DEF FrameInv
<1>7. (\A i, j \in 1..Len(stack) : i < j => NestInv(stack[i], stack[j]))'
  BY <1>1, <1>2 DEF StackInv, NestInv
<1>8. (\A i \in 1..(Len(stack) - 1) : WaitInv(stack[i], stack[i + 1]))'
  <2> SUFFICES ASSUME NEW i \in 1..(Len(stack) - 2)
               PROVE  WaitInv(stack[i], stack[i + 1])'
    BY <1>1, <1>2
  <2>1. WaitInv(stack[i], stack[i + 1])
    BY <1>1 DEF StackInv
  <2>2. stack'[i] = stack[i] /\ stack'[i + 1] = stack[i + 1] /\ mem' \subseteq mem
    BY <1>1, <1>2
  <2> QED
    BY Zenon, <2>1, <2>2 DEF WaitInv, Kids
<1>9. FramesLive'
  BY <1>1, <1>2, <1>4 DEF FramesLive
<1> QED
  BY Zenon, <1>2, <1>6, <1>7, <1>8, <1>9 DEF StackInv

(* The innermost frame calls a core function.                               *)
LEMMA StackPushes ==
  ASSUME TypeOK, StackInv, FramesLive, stack # <<>>,
         NEW f \in Frame, NEW g \in Frame,
         f.fn = Top.fn, f.dev = Top.dev, f.todo \subseteq Top.todo,
         stack' = Append(WithTop(f), g), mem' = mem, g.todo = {},
         Top.fn = "bind" => Top.pc # "entry",
         f.fn = "unbind" <=> g.fn = "unbind",
         f.fn = "remove" => g.fn = "remove",
         f.fn = "bind" => g.fn = "bind" /\ f.pc \in {"bind", "post_bind"},
         f.fn \in {"bind", "unbind"} => ParentOf[g.dev] = f.dev,
         f.fn = "unbind" =>
           /\ f.pc = "child" /\ g.dev \notin f.todo
           /\ f.res = "OK" => Kids(f.dev) \subseteq f.todo \cup {g.dev},
         g.fn = "bind" => g.pc = "entry" /\ g.dev \notin mem,
         g.fn # "bind" => g.dev \in mem
  PROVE  /\ StackInv' /\ FramesLive'
         /\ Len(stack') = Len(stack) + 1 /\ Top' = g
         /\ \A i \in 1..(Len(stack) - 1) : stack'[i] = stack[i]
<1>1. stack \in Seq(Frame) /\ Len(stack) \in Nat \ {0} /\ Top \in Frame
  BY Zenon, TopFrame DEF TypeOK
<1>2. /\ Len(stack') = Len(stack) + 1
      /\ stack'[Len(stack) + 1] = g
      /\ stack'[Len(stack)] = f
      /\ \A i \in 1..(Len(stack) - 1) : stack'[i] = stack[i]
  BY SMTT(30), <1>1, WithTopFrame, PushFrame
<1>3. Top.dev \in mem
  BY <1>1 DEF FramesLive, Top
<1>4. \A i \in 1..(Len(stack) - 1) :
        /\ stack[i] \in Frame
        /\ NestInv(stack[i], Top)
        /\ stack[i].dev \in mem
  <2> SUFFICES ASSUME NEW i \in 1..(Len(stack) - 1)
               PROVE  /\ stack[i] \in Frame
                      /\ NestInv(stack[i], Top)
                      /\ stack[i].dev \in mem
    BY Zenon
  <2>1. WaitInv(stack[i], stack[i + 1])
    BY Zenon DEF StackInv
  <2>2. stack[i].dev \in mem
    BY <1>1, <2>1 DEF WaitInv, FramesLive
  <2> QED
    BY <1>1, <2>2 DEF StackInv, Top
<1>5. Depth[g.dev] \in Nat /\ (f.fn \in {"bind", "unbind"} => Depth[f.dev] < Depth[g.dev])
  BY DevAssumption DEF Frame
<1>6. NestInv(f, g)
  BY Zenon, <1>3, <1>5 DEF NestInv
<1>7. \A i \in 1..(Len(stack) - 1) : NestInv(stack[i], g)
  <2> SUFFICES ASSUME NEW i \in 1..(Len(stack) - 1)
               PROVE  NestInv(stack[i], g)
    BY Zenon
  <2>1. NestInv(stack[i], Top) /\ stack[i].dev \in mem
    BY Zenon, <1>4
  <2>2. stack[i].dev \in Dev /\ Top.dev \in Dev /\ g.dev \in Dev
    BY Zenon, <1>1, <1>4 DEF Frame
  <2>3. Depth[stack[i].dev] \in Nat /\ Depth[Top.dev] \in Nat /\ Depth[g.dev] \in Nat
    BY Zenon, <2>2, DevAssumption
  <2>4. stack[i].fn \in {"bind", "unbind"} => f.fn = stack[i].fn
    BY Zenon, <2>1 DEF NestInv
  <2>5. stack[i].fn \in {"bind", "unbind"} => Depth[stack[i].dev] < Depth[g.dev]
    BY <1>5, <2>1, <2>3, <2>4 DEF NestInv
  <2> QED
    BY Zenon, <2>1, <2>4, <2>5 DEF NestInv
<1>8. (\A i \in 1..Len(stack) : FrameInv(stack[i]))'
  <2>1. FrameInv(Top)
    BY <1>1 DEF StackInv, Top
  <2> QED
    BY <1>1, <1>2, <2>1 DEF StackInv, FrameInv
<1>9. (\A i, j \in 1..Len(stack) : i < j => NestInv(stack[i], stack[j]))'
  <2> SUFFICES ASSUME NEW i \in 1..(Len(stack) + 1), NEW j \in 1..(Len(stack) + 1), i < j
               PROVE  NestInv(stack[i], stack[j])'
    BY Zenon, <1>2
  <2>1. CASE j = Len(stack) + 1
    <3>1. NestInv(stack'[i], stack'[j])
      BY <1>1, <1>2, <1>6, <1>7, <2>1
    <3> QED
      BY Zenon, <3>1 DEF NestInv
  <2>2. CASE j # Len(stack) + 1
    <3>1. NestInv(stack[i], stack[j]) /\ i \in 1..(Len(stack) - 1)
      BY <1>1, <2>2 DEF StackInv
    <3>2. stack'[i] = stack[i] /\ stack'[j].fn = stack[j].fn /\ stack'[j].dev = stack[j].dev
      <4>1. stack'[i] = stack[i]
        BY Zenon, <1>2, <3>1
      <4>2. CASE j = Len(stack)
        <5>1. stack'[j] = f /\ stack[j] = Top
          BY Zenon, <1>2, <4>2 DEF Top
        <5> QED
          BY Zenon, <4>1, <5>1
      <4>3. CASE j # Len(stack)
        <5>1. j \in 1..(Len(stack) - 1)
          BY <1>1, <2>2, <4>3
        <5> QED
          BY Zenon, <1>2, <4>1, <5>1
      <4> QED
        BY Zenon, <4>2, <4>3
    <3> QED
      BY <3>1, <3>2 DEF NestInv
  <2> QED
    BY Zenon, <2>1, <2>2
<1>10. (\A i \in 1..(Len(stack) - 1) : WaitInv(stack[i], stack[i + 1]))'
  <2> SUFFICES ASSUME NEW i \in 1..Len(stack)
               PROVE  WaitInv(stack[i], stack[i + 1])'
    BY <1>1, <1>2
  <2>1. CASE i = Len(stack)
    BY <1>1, <1>2, <2>1 DEF WaitInv, Kids
  <2>2. CASE i # Len(stack)
    <3>1. WaitInv(stack[i], stack[i + 1]) /\ i \in 1..(Len(stack) - 1)
      BY <1>1, <2>2 DEF StackInv
    <3>2. stack'[i] = stack[i] /\ stack'[i + 1].dev = stack[i + 1].dev
      BY SMTT(30), <1>1, <1>2, <3>1 DEF Top
    <3> QED
      BY <3>1, <3>2 DEF WaitInv, Kids
  <2> QED
    BY Zenon, <2>1, <2>2
<1>11. FramesLive'
  BY SMTT(30), <1>1, <1>2, <1>3, <1>4 DEF FramesLive
<1> QED
  BY Zenon, <1>1, <1>2, <1>8, <1>9, <1>10, <1>11 DEF StackInv, Top

(* The fields of the frames that jumps and calls build.                     *)
LEMMA FrameFields ==
  ASSUME TypeOK, stack # <<>>
  PROVE  /\ \A pc \in Pc :
              /\ At(pc) \in Frame /\ At(pc).pc = pc /\ At(pc).fn = Top.fn
              /\ At(pc).dev = Top.dev /\ At(pc).todo = Top.todo
              /\ At(pc).res = Top.res /\ At(pc).rf = Top.rf
         /\ \A fn \in Fn, d \in Dev, rf \in SUBSET RemoveFlag :
              /\ NewFrame(fn, d, rf) \in Frame /\ NewFrame(fn, d, rf).pc = "entry"
              /\ NewFrame(fn, d, rf).fn = fn /\ NewFrame(fn, d, rf).dev = d
              /\ NewFrame(fn, d, rf).todo = {} /\ NewFrame(fn, d, rf).res = "OK"
              /\ NewFrame(fn, d, rf).rf = rf
<1>1. Top \in Frame
  BY Zenon, TopFrame DEF TypeOK
<1>2. stack \in Seq(Frame)
  BY Zenon DEF TypeOK
<1> QED
  BY Zenon, <1>1, <1>2, FrameTypes DEF At, NewFrame, Frame

(* The walk over the children starts.                                       *)
LEMMA WalkStarts ==
  ASSUME TypeOK, stack # <<>>, NEW k \in SUBSET Dev, WalkStart(k)
  PROVE  \E f \in Frame : /\ stack' = WithTop(f) /\ ret' = ret
                          /\ f.fn = Top.fn /\ f.dev = Top.dev
                          /\ f.pc = "children" /\ f.todo = k /\ f.res = Top.res /\ f.rf = Top.rf
<1> DEFINE f == [At("children") EXCEPT !.todo = k]
<1>1. Top \in Frame /\ "children" \in Pc
  BY Zenon, TopFrame DEF TypeOK, Pc
<1>2. /\ f \in Frame /\ f.fn = Top.fn /\ f.dev = Top.dev
      /\ f.pc = "children" /\ f.todo = k /\ f.res = Top.res /\ f.rf = Top.rf
  BY Zenon, <1>1 DEF At, Frame
<1>3. stack' = WithTop(f) /\ ret' = ret
  BY Zenon DEF WalkStart
<1> HIDE DEF f
<1> QED
  BY Zenon, <1>2, <1>3

(* The walk notes what a child returned.                                    *)
LEMMA WalkNotes ==
  ASSUME TypeOK, stack # <<>>, NEW r \in Ret, WalkNote(r)
  PROVE  \E f \in Frame : /\ stack' = WithTop(f) /\ ret' = ret
                          /\ f.fn = Top.fn /\ f.dev = Top.dev
                          /\ f.pc = "children" /\ f.todo = Top.todo /\ f.res = r /\ f.rf = Top.rf
<1> DEFINE f == [At("children") EXCEPT !.res = r]
<1>1. Top \in Frame /\ "children" \in Pc
  BY Zenon, TopFrame DEF TypeOK, Pc
<1>2. /\ f \in Frame /\ f.fn = Top.fn /\ f.dev = Top.dev
      /\ f.pc = "children" /\ f.todo = Top.todo /\ f.res = r /\ f.rf = Top.rf
  BY Zenon, <1>1 DEF At, Frame
<1>3. stack' = WithTop(f) /\ ret' = ret
  BY Zenon DEF WalkNote
<1> HIDE DEF f
<1> QED
  BY Zenon, <1>2, <1>3

(* The walk takes up one of the children that are left.                     *)
LEMMA WalkCalls ==
  ASSUME TypeOK, stack # <<>>, NEW fn \in Fn, WalkCall(fn)
  PROVE  \E c \in Top.todo, f \in Frame, g \in Frame :
           /\ stack' = Append(WithTop(f), g) /\ ret' = ret
           /\ f.fn = Top.fn /\ f.dev = Top.dev /\ f.pc = "child"
           /\ f.todo = Top.todo \ {c} /\ f.res = Top.res /\ f.rf = Top.rf
           /\ g.fn = fn /\ g.dev = c /\ g.pc = "entry" /\ g.todo = {}
           /\ g.res = "OK" /\ g.rf = Top.rf
<1>1. Top \in Frame /\ "child" \in Pc
  BY Zenon, TopFrame DEF TypeOK, Pc
<1>2. PICK c \in Top.todo :
        /\ stack' = Append(WithTop([At("child") EXCEPT !.todo = @ \ {c}]),
                           NewFrame(fn, c, Top.rf))
        /\ ret' = ret
  BY Zenon DEF WalkCall, CallFrom
<1> DEFINE f == [At("child") EXCEPT !.todo = @ \ {c}]
           g == NewFrame(fn, c, Top.rf)
<1>3. /\ f \in Frame /\ f.fn = Top.fn /\ f.dev = Top.dev /\ f.pc = "child"
      /\ f.todo = Top.todo \ {c} /\ f.res = Top.res /\ f.rf = Top.rf
  BY Zenon, <1>1 DEF At, Frame
<1>4. g \in Frame /\ g.fn = fn /\ g.dev = c /\ g.pc = "entry" /\ g.todo = {}
           /\ g.res = "OK" /\ g.rf = Top.rf
  BY Zenon, <1>1 DEF NewFrame, Frame, Pc, Ret
<1>5. stack' = Append(WithTop(f), g) /\ ret' = ret
  BY Zenon, <1>2
<1> HIDE DEF f, g
<1> QED
  BY Zenon, <1>3, <1>4, <1>5

(* Replacing the innermost frame by itself changes nothing.                 *)
LEMMA SameTop ==
  ASSUME stack \in Seq(Frame), stack # <<>>
  PROVE  WithTop(Top) = stack
BY DEF WithTop, Top

-----------------------------------------------------------------------------
(* device_of_to_plat(), device_probe() and device_remove() *)

Quiet == {"of_to_plat", "probe", "remove"}

(* The frames below the innermost one stay.                                 *)
BelowStays ==
  \A i \in 1..(Len(stack) - 1) : i \in 1..Len(stack') /\ stack'[i] = stack[i]

(* Whatever such a function does next, the stack invariant holds and        *)
(* another such function, or nothing, is then innermost.                    *)
LEMMA QuietControl ==
  ASSUME TreeInv, stack # <<>>, Top.fn \in Quiet, mem' = mem,
         \/ \E pc \in Pc : Goto(pc)
         \/ \E r \in Ret : Return(r)
         \/ /\ Top.fn # "remove"
            /\ \E fn \in {"of_to_plat", "probe"}, d \in mem, pc \in Pc : Call(fn, d, pc)
         \/ \E pc \in Pc, rf \in SUBSET RemoveFlag :
              CallFrom(At(pc), NewFrame("remove", Top.dev, rf))
         \/ Top.fn # "remove" /\ \E e \in mem : HookCall("probe", e)
         \/ Top.fn = "remove" /\ WalkStart(Children(Top.dev))
         \/ Top.fn = "remove" /\ WalkCall("remove")
         \/ Top.fn = "remove" /\ \E r \in Ret : WalkNote(r)
  PROVE  StackInv' /\ FramesLive' /\ (stack' # <<>> => Top'.fn \in Quiet) /\ BelowStays
<1>1. /\ stack \in Seq(Frame) /\ Len(stack) \in Nat \ {0} /\ Top \in Frame
      /\ TypeOK /\ StackInv /\ FramesLive
  BY Zenon, TopFrame DEF TypeOK, TreeInv
<1>2. Top.fn \notin {"bind", "unbind"} /\ Top.fn \in Fn
  BY Zenon DEF Quiet, Fn
<1>3. Top.dev \in mem /\ FrameInv(Top) /\ mem \subseteq Dev
  BY SMTT(30), <1>1, <1>2 DEF FramesLive, Top, StackInv, TypeOK
<1>4. ASSUME NEW f \in Frame, stack' = WithTop(f), f.fn = Top.fn, f.dev = Top.dev,
             Top.fn = "remove" => f.todo \subseteq mem
      PROVE  StackInv' /\ FramesLive' /\ (stack' # <<>> => Top'.fn \in Quiet) /\ BelowStays
  <2>1. /\ StackInv' /\ Len(stack') = Len(stack) /\ Top' = f
        /\ \A i \in 1..(Len(stack) - 1) : stack'[i] = stack[i]
    BY ZenonT(30), <1>1, <1>2, <1>4, StackMoves
  <2>2. FramesLive'
    BY SMTT(30), <1>1, <1>3, <1>4, <2>1 DEF FramesLive, Top
  <2>3. BelowStays
    BY <1>1, <2>1 DEF BelowStays
  <2> QED
    BY Zenon, <1>4, <2>1, <2>2, <2>3
<1>5. ASSUME NEW f \in Frame, NEW g \in Frame, stack' = Append(WithTop(f), g),
             f.fn = Top.fn, f.dev = Top.dev, f.todo \subseteq Top.todo, g.todo = {},
             g.fn \in Quiet, Top.fn = "remove" => g.fn = "remove", g.dev \in mem
      PROVE  StackInv' /\ FramesLive' /\ (stack' # <<>> => Top'.fn \in Quiet) /\ BelowStays
  <2>1. g.fn \notin {"bind", "unbind"}
    BY Zenon, <1>5 DEF Quiet
  <2>2. /\ StackInv' /\ FramesLive' /\ Len(stack') = Len(stack) + 1 /\ Top' = g
        /\ \A i \in 1..(Len(stack) - 1) : stack'[i] = stack[i]
    BY Zenon, <1>1, <1>2, <1>5, <2>1, StackPushes
  <2>3. BelowStays
    BY SMTT(30), <1>1, <2>2 DEF BelowStays
  <2> QED
    BY Zenon, <1>5, <2>2, <2>3
<1>6. CASE \E pc \in Pc : Goto(pc)
  <2>1. PICK pc \in Pc : stack' = WithTop(At(pc))
    BY Zenon, <1>6 DEF Goto
  <2> QED
    BY Zenon, <1>1, <1>3, <1>4, <2>1, FrameFields DEF FrameInv
<1>7. CASE \E r \in Ret : Return(r)
  <2>1. stack' = Popped
    BY Zenon, <1>7 DEF Return
  <2>2. /\ StackInv' /\ FramesLive' /\ Len(stack') = Len(stack) - 1
        /\ \A i \in 1..(Len(stack) - 1) : stack'[i] = stack[i]
    BY Zenon, <1>1, <2>1, StackPops
  <2>3. ASSUME stack' # <<>> PROVE Top'.fn \in Quiet
    <3>1. TypeOK'  => Len(stack') # 0
      BY <2>3 DEF TypeOK
    <3>2. stack' \in Seq(Frame)
      BY Zenon, <1>1, <2>1, PopFrame
    <3>3. Len(stack) - 1 \in 1..(Len(stack) - 1)
      BY <1>1, <2>2, <2>3, <3>2
    <3>4. Top' = stack[Len(stack) - 1]
      BY Zenon, <2>2, <3>3 DEF Top
    <3>5. NestInv(stack[Len(stack) - 1], Top) /\ stack[Len(stack) - 1] \in Frame
      BY <1>1, <3>3 DEF StackInv, Top
    <3> QED
      BY Zenon, <1>2, <3>4, <3>5 DEF NestInv, Frame, Fn, Quiet
  <2>4. BelowStays
    BY Zenon, <1>1, <2>2 DEF BelowStays
  <2> QED
    BY Zenon, <2>2, <2>3, <2>4
<1>8. ASSUME NEW f \in Frame, NEW fn \in {"of_to_plat", "probe", "remove"}, NEW d \in mem,
             NEW rf \in SUBSET RemoveFlag, stack' = Append(WithTop(f), NewFrame(fn, d, rf)),
             f.fn = Top.fn, f.dev = Top.dev, f.todo = Top.todo,
             Top.fn = "remove" => fn = "remove"
      PROVE  StackInv' /\ FramesLive' /\ (stack' # <<>> => Top'.fn \in Quiet) /\ BelowStays
  <2> DEFINE g == NewFrame(fn, d, rf)
  <2>1. fn \in Fn /\ fn \in Quiet /\ d \in Dev
    BY Zenon, <1>3 DEF Fn, Quiet
  <2>2. g \in Frame /\ g.fn = fn /\ g.dev = d /\ g.todo = {}
    BY SMTT(30), <1>1, <2>1, FrameFields
  <2> HIDE DEF g
  <2> QED
    BY Zenon, <1>5, <1>8, <2>1, <2>2 DEF g
<1>9. CASE \/ /\ Top.fn # "remove"
              /\ \E fn \in {"of_to_plat", "probe"}, d \in mem, pc \in Pc : Call(fn, d, pc)
           \/ \E pc \in Pc, rf \in SUBSET RemoveFlag :
                CallFrom(At(pc), NewFrame("remove", Top.dev, rf))
  <2>1. PICK pc \in Pc, rf \in SUBSET RemoveFlag, d \in mem,
             fn \in {"of_to_plat", "probe", "remove"} :
          /\ stack' = Append(WithTop(At(pc)), NewFrame(fn, d, rf))
          /\ Top.fn = "remove" => fn = "remove"
    BY Zenon, <1>3, <1>9 DEF Call, CallFrom
  <2>2. /\ At(pc) \in Frame /\ At(pc).fn = Top.fn /\ At(pc).dev = Top.dev
        /\ At(pc).todo = Top.todo
    BY Zenon, <1>1, FrameFields
  <2> QED
    BY Zenon, <1>8, <2>1, <2>2
<1>10. CASE Top.fn # "remove" /\ \E e \in mem : HookCall("probe", e)
  <2>1. PICK e \in mem : stack' = Append(WithTop(Top), NewFrame("probe", e, {}))
    BY Zenon, <1>1, <1>10, SameTop DEF HookCall
  <2> QED
    BY <1>1, <1>8, <1>10, <2>1
<1>11. CASE Top.fn = "remove" /\ WalkStart(Children(Top.dev))
  <2>1. Children(Top.dev) \in SUBSET Dev /\ Children(Top.dev) \subseteq mem
    BY Zenon DEF Children, TreeInv, FreedIsGone, TypeOK
  <2> QED
    BY SMTT(30), <1>1, <1>4, <1>11, <2>1, WalkStarts
<1>12. CASE Top.fn = "remove" /\ WalkCall("remove")
  <2>1. "remove" \in Fn /\ "remove" \in Quiet
    BY Zenon DEF Fn, Quiet
  <2>2. Top.todo \subseteq mem
    BY Zenon, <1>3, <1>12 DEF FrameInv
  <2>3. PICK c \in Top.todo, f \in Frame, g \in Frame :
          /\ stack' = Append(WithTop(f), g) /\ ret' = ret
          /\ f.fn = Top.fn /\ f.dev = Top.dev /\ f.pc = "child"
          /\ f.todo = Top.todo \ {c} /\ f.res = Top.res /\ f.rf = Top.rf
          /\ g.fn = "remove" /\ g.dev = c /\ g.pc = "entry" /\ g.todo = {}
          /\ g.res = "OK" /\ g.rf = Top.rf
    BY ZenonT(30), <1>1, <1>12, <2>1, WalkCalls
  <2> QED
    BY Zenon, <1>5, <2>1, <2>2, <2>3
<1>13. CASE Top.fn = "remove" /\ \E r \in Ret : WalkNote(r)
  BY Zenon, <1>1, <1>3, <1>4, <1>13, WalkNotes DEF FrameInv
<1> QED
  BY Zenon, <1>6, <1>7, <1>9, <1>10, <1>11, <1>12, <1>13

(* These functions leave the tree, the lists and the plat buffers alone.    *)
LEMMA QuietData ==
  ASSUME TypeOK, stack # <<>>, ProbeStep \/ RemoveStep
  PROVE  /\ UNCHANGED treeVars
         /\ \A e \in Dev : buf'[e] \cap Plats = buf[e] \cap Plats
<1>1. Top.dev \in Dev
  BY Zenon, DataTypes
<1>2. Plats \cap Privs = {}
  BY Zenon DEF Plats, Privs
<1>3. UNCHANGED treeVars
  BY ZenonT(30) DEF ProbeStep, RemoveStep, OfToPlatEntry, OfToPlatParent, OfToPlatAlloc,
         OfToPlatHook, ProbeEntry, ProbeOfToPlat, ProbeParent, ProbeHookOk,
         ProbeHookFail, ProbeFailUclass, HookProbes, RemoveEntry, RemoveChild,
         RemoveChildDone, RemoveChildren, RemoveHook, RemoveLast
<1>4. \/ buf' = buf \/ DeviceFree(Top.dev) \/ DeactivateAndFree(Top.dev)
      \/ buf' = [buf EXCEPT ![Top.dev] = @ \cup (AutoBufs[Top.dev] \cap Privs)]
  <2>1. CASE OfToPlatEntry \/ OfToPlatParent \/ OfToPlatHook
    BY Zenon, <2>1 DEF OfToPlatEntry, OfToPlatParent, OfToPlatHook, Fails
  <2>5. CASE OfToPlatAlloc
    BY Zenon, <2>5 DEF OfToPlatAlloc, Fails
  <2>2. CASE ProbeEntry \/ ProbeOfToPlat \/ ProbeParent
    BY Zenon, <2>2 DEF ProbeEntry, ProbeOfToPlat, ProbeParent, ProbeFails, Activate
  <2>3. CASE ProbeHookOk \/ ProbeHookFail \/ ProbeFailUclass \/ HookProbes
    BY Zenon, <2>3 DEF ProbeHookOk, ProbeHookFail, ProbeFailUclass, HookProbes, ProbeFails
  <2>4. CASE RemoveStep
    BY Zenon, <2>4 DEF RemoveStep, RemoveEntry, RemoveChild, RemoveChildDone,
                RemoveChildren, RemoveHook, RemoveLast
  <2> QED
    BY Zenon, <2>1, <2>2, <2>3, <2>4, <2>5 DEF ProbeStep
<1>5. \A e \in Dev : buf'[e] \cap Plats = buf[e] \cap Plats
  BY <1>1, <1>2, <1>4 DEF TypeOK, DeviceFree, DeactivateAndFree
<1> QED
  BY Zenon, <1>3, <1>5

(* Every step of these functions is one of the moves of QuietControl.       *)
LEMMA QuietMoves ==
  ASSUME TreeInv, ProbeStep \/ RemoveStep
  PROVE  /\ stack # <<>> /\ Top.fn \in Quiet
         /\ StackInv' /\ FramesLive' /\ (stack' # <<>> => Top'.fn \in Quiet)
         /\ BelowStays
<1> USE DevAssumption
<1>1. stack # <<>> /\ Top.fn \in Quiet
  BY Zenon DEF ProbeStep, RemoveStep, Running, OfToPlatEntry, OfToPlatParent,
         OfToPlatAlloc, OfToPlatHook, ProbeEntry, ProbeOfToPlat, ProbeParent,
         ProbeHookOk, ProbeHookFail, ProbeFailUclass, HookProbes, RemoveEntry,
         RemoveChild, RemoveChildDone, RemoveChildren, RemoveHook, RemoveLast, Quiet
<1>2. TypeOK /\ StackInv /\ FramesLive /\ NoOrphan /\ FreedIsGone /\ Top \in Frame
      /\ Len(stack) \in Nat \ {0}
  BY Zenon, <1>1, TopFrame DEF TreeInv, TypeOK
<1>3. mem' = mem
  BY Zenon, <1>1, <1>2, QuietData DEF treeVars
<1>4. Top.dev \in mem /\ (ParentOf[Top.dev] # None => ParentOf[Top.dev] \in mem)
  BY <1>1, <1>2 DEF FramesLive, NoOrphan, Top, Quiet
<1>5. Ret = {"OK", "ERR", "DEFER", "REJECTED"} /\ ret \in Ret /\ Top.res \in Ret
  BY Zenon, <1>2 DEF Ret, TypeOK, Frame
<1>6. /\ "parent" \in Pc /\ "alloc_priv" \in Pc /\ "of_to_plat" \in Pc
      /\ "pinctrl" \in Pc /\ "pre_probe" \in Pc /\ "own_pinctrl" \in Pc
      /\ "fail_uclass" \in Pc /\ "pre_remove" \in Pc /\ "remove" \in Pc
      /\ "child_post_remove" \in Pc /\ "entry" \in Pc
      /\ \A h \in DOMAIN ProbeSucc : ProbeSucc[h] \in Pc
  BY DEF Pc, ProbeHook, ProbeSucc
<1> DEFINE Moves ==
         \/ \E pc \in Pc : Goto(pc)
         \/ \E r \in Ret : Return(r)
         \/ /\ Top.fn # "remove"
            /\ \E fn \in {"of_to_plat", "probe"}, d \in mem, pc \in Pc : Call(fn, d, pc)
         \/ \E pc \in Pc, rf \in SUBSET RemoveFlag :
              CallFrom(At(pc), NewFrame("remove", Top.dev, rf))
         \/ Top.fn # "remove" /\ \E e \in mem : HookCall("probe", e)
         \/ Top.fn = "remove" /\ WalkStart(Children(Top.dev))
         \/ Top.fn = "remove" /\ WalkCall("remove")
         \/ Top.fn = "remove" /\ \E r \in Ret : WalkNote(r)
<1>7. CASE OfToPlatEntry \/ OfToPlatParent \/ OfToPlatAlloc \/ OfToPlatHook
  <2>1. Moves
    BY ZenonT(30), <1>4, <1>5, <1>6, <1>7
    DEF OfToPlatEntry, OfToPlatParent, OfToPlatAlloc, OfToPlatHook, Fails, Running
  <2> QED
    BY Zenon, <1>1, <1>3, <2>1, QuietControl
<1>8. CASE ProbeEntry \/ ProbeOfToPlat \/ ProbeParent \/ ProbeHookOk
  <2>1. Moves
    BY Zenon, <1>4, <1>5, <1>6, <1>8
    DEF ProbeEntry, ProbeOfToPlat, ProbeParent, ProbeHookOk, ProbeFails, Activate, Running
  <2> QED
    BY Zenon, <1>1, <1>3, <2>1, QuietControl
<1>9. CASE ProbeHookFail \/ ProbeFailUclass \/ HookProbes
  <2>1. {"NORMAL"} \in SUBSET RemoveFlag /\ listed \subseteq mem
    BY Zenon, <1>2 DEF RemoveFlag, FreedIsGone, TypeOK
  <2>2. Moves
    BY Zenon, <1>4, <1>5, <1>6, <1>9, <2>1
    DEF ProbeHookFail, ProbeFailUclass, HookProbes, ProbeFails, Running
  <2> QED
    BY Zenon, <1>1, <1>3, <2>2, QuietControl
<1>10. CASE RemoveStep
  <2>1. FlagsRemove(Top.rf, DrvFlags[Top.dev]) \in Ret
    BY Zenon, <1>5 DEF FlagsRemove
  <2>2. Moves
    BY Zenon, <1>4, <1>5, <1>6, <1>10, <2>1
    DEF RemoveStep, RemoveEntry, RemoveChild, RemoveChildDone, RemoveChildren,
        RemoveHook, RemoveLast, Running
  <2> QED
    BY Zenon, <1>1, <1>3, <2>2, QuietControl
<1> QED
  BY Zenon, <1>1, <1>7, <1>8, <1>9, <1>10 DEF ProbeStep

(* device_of_to_plat(), device_probe() and device_remove() keep TreeInv.    *)
LEMMA QuietKeepsTree ==
  ASSUME TreeInv, ProbeStep \/ RemoveStep
  PROVE  TreeInv'
<1>1. /\ stack # <<>> /\ Top.fn \in Quiet /\ StackInv' /\ FramesLive'
      /\ (stack' # <<>> => Top'.fn \in Quiet)
  BY Zenon, QuietMoves
<1>2. TypeOK /\ TypeOK'
  BY Zenon, ProbeTypes DEF TreeInv
<1>3. /\ mem' = mem /\ linked' = linked /\ listed' = listed
      /\ \A e \in Dev : buf'[e] \cap Plats = buf[e] \cap Plats
  BY Zenon, <1>1, <1>2, QuietData DEF treeVars
<1>4. NoOrphan' /\ FreedIsGone'
  BY Zenon, <1>3 DEF TreeInv, NoOrphan, FreedIsGone
<1>5. TopInv'
  BY Zenon, <1>1 DEF TopInv, Quiet
<1>6. LinkInv'
  BY Zenon, <1>1, <1>3 DEF LinkInv, TreeInv, Quiet
<1> QED
  BY Zenon, <1>1, <1>2, <1>4, <1>5, <1>6 DEF TreeInv
=============================================================================
