------------------------------- MODULE DmProbe ------------------------------
(***************************************************************************)
(* device_of_to_plat(), device_probe() and device_remove().                *)
(***************************************************************************)
EXTENDS DmCore

(* Returns the error r of a function that goes through label "fail".        *)
Fails(r) == Return(r) /\ DeviceFree(Top.dev)

-----------------------------------------------------------------------------
(* device_of_to_plat() *)

OfToPlatEntry ==
  /\ Running("of_to_plat", "entry")
  /\ LET d == Top.dev IN
       \/ "PLATDATA_VALID" \in flags[d] /\ Return("OK")
       \/ /\ "PLATDATA_VALID" \notin flags[d] /\ ParentOf[d] # None
          /\ Call("of_to_plat", ParentOf[d], "parent")
       \/ /\ "PLATDATA_VALID" \notin flags[d] /\ ParentOf[d] = None
          /\ Goto("alloc_priv")
  /\ UNCHANGED <<treeVars, flags, buf>>

(* Back from the parent; the flag is tested again.                          *)
OfToPlatParent ==
  /\ Running("of_to_plat", "parent")
  /\ \/ ret # "OK" /\ Fails(ret)
     \/ /\ ret = "OK"
        /\ \/ "PLATDATA_VALID" \in flags[Top.dev] /\ Return("OK")
           \/ "PLATDATA_VALID" \notin flags[Top.dev] /\ Goto("alloc_priv")
        /\ UNCHANGED <<flags, buf>>
  /\ UNCHANGED treeVars

(* device_alloc_priv(): on -ENOMEM device_free() takes back what it got.    *)
OfToPlatAlloc ==
  /\ Running("of_to_plat", "alloc_priv")
  /\ \/ /\ buf' = [buf EXCEPT ![Top.dev] = @ \cup (AutoBufs[Top.dev] \cap Privs)]
        /\ Goto("of_to_plat")
        /\ UNCHANGED flags
     \/ "enomem" \in MayFail /\ Fails("ERR")
  /\ UNCHANGED treeVars

OfToPlatHook ==
  /\ Running("of_to_plat", "of_to_plat")
  /\ \/ Set(Top.dev, "PLATDATA_VALID") /\ Return("OK") /\ UNCHANGED buf
     \/ "of_to_plat" \in MayFail /\ Fails("ERR")
  /\ UNCHANGED treeVars

-----------------------------------------------------------------------------
(* device_probe() *)

(* Label "fail": the device is inactive and its private data are freed.     *)
ProbeFails(r) == Return(r) /\ DeactivateAndFree(Top.dev)

ProbeEntry ==
  /\ Running("probe", "entry")
  /\ \/ "ACTIVATED" \in flags[Top.dev] /\ Return("OK")
     \/ /\ "ACTIVATED" \notin flags[Top.dev]
        /\ Call("of_to_plat", Top.dev, "of_to_plat")
  /\ UNCHANGED <<treeVars, flags, buf>>

(* Variant: DM_FLAG_ACTIVATED is not set when the hooks start.              *)
Activate_Late(d) ==
  /\ Goto(IF d \in Pinctrl \/ ParentOf[d] = None THEN "pre_probe" ELSE "pinctrl")
  /\ UNCHANGED <<flags, buf>>

(* dev_or_flags(dev, DM_FLAG_ACTIVATED), before any hook is called.  The    *)
(* pin state of a pinctrl device is selected last, of the others first.     *)
Activate(d) ==
  /\ Set(d, "ACTIVATED")
  /\ Goto(IF d \in Pinctrl \/ ParentOf[d] = None THEN "pre_probe" ELSE "pinctrl")
  /\ UNCHANGED buf

ProbeOfToPlat ==
  /\ Running("probe", "of_to_plat")
  /\ \/ ret # "OK" /\ ProbeFails(ret)
     \/ /\ ret = "OK" /\ ParentOf[Top.dev] # None
        /\ Call("probe", ParentOf[Top.dev], "parent")
        /\ UNCHANGED <<flags, buf>>
     \/ ret = "OK" /\ ParentOf[Top.dev] = None /\ Activate(Top.dev)
  /\ UNCHANGED treeVars

(* Back from the parent's probe; DM_FLAG_ACTIVATED is tested again.         *)
ProbeParent ==
  /\ Running("probe", "parent")
  /\ \/ ret # "OK" /\ ProbeFails(ret)
     \/ /\ ret = "OK" /\ "ACTIVATED" \in flags[Top.dev]
        /\ Return("OK") /\ UNCHANGED <<flags, buf>>
     \/ ret = "OK" /\ "ACTIVATED" \notin flags[Top.dev] /\ Activate(Top.dev)
  /\ UNCHANGED treeVars

ProbeSucc == [pinctrl |-> "pre_probe", pre_probe |-> "uc_child_pre_probe",
              uc_child_pre_probe |-> "child_pre_probe",
              child_pre_probe |-> "clk_set_defaults",
              clk_set_defaults |-> "probe", probe |-> "uc_child_post_probe",
              uc_child_post_probe |-> "post_probe"]

(* A probe hook returns 0; after the last one device_probe() returns 0.     *)
ProbeHookOk ==
  /\ \E h \in ProbeHook :
       /\ Running("probe", h)
       /\ \/ h \in DOMAIN ProbeSucc /\ Goto(ProbeSucc[h])
          \/ h = "post_probe" /\ Top.dev \in Pinctrl /\ Goto("own_pinctrl")
          \/ h = "post_probe" /\ Top.dev \notin Pinctrl /\ Return("OK")
          \/ h = "own_pinctrl" /\ Return("OK")
  /\ UNCHANGED <<treeVars, flags, buf>>

(* A hook fails.  The result of pinctrl_select_state() is ignored; a        *)
(* failure of uclass_post_probe_device() removes the device first.          *)
ProbeHookFail ==
  /\ stack # <<>>
  /\ \E h \in (ProbeHook \cap Failing(Top.dev)) \ {"pinctrl", "own_pinctrl"} :
       /\ Running("probe", h)
       /\ \/ h \notin {"uc_child_post_probe", "post_probe"} /\ ProbeFails("ERR")
          \/ /\ h \in {"uc_child_post_probe", "post_probe"}
             /\ CallFrom(At("fail_uclass"), NewFrame("remove", Top.dev, {"NORMAL"}))
             /\ UNCHANGED <<flags, buf>>
  /\ UNCHANGED treeVars

(* Label "fail_uclass": device_remove() has returned, its result is only    *)
(* warned about.                                                            *)
ProbeFailUclass ==
  /\ Running("probe", "fail_uclass")
  /\ ProbeFails("ERR")
  /\ UNCHANGED treeVars

(* While a hook runs it may probe a device it depends on.  A hook of        *)
(* of_to_plat() never probes at or below the device being read: the flag    *)
(* that would end that recursion is only set afterwards.                    *)
AncestorOrSelf[d \in Dev] ==
  IF ParentOf[d] = None THEN {d} ELSE {d} \cup AncestorOrSelf[ParentOf[d]]

HookProbes ==
  /\ \/ Running("of_to_plat", "of_to_plat")
     \/ \E h \in ProbeHook : Running("probe", h)
  /\ \E e \in Uses[Top.dev] \cap listed :
       /\ \A i \in 1..Len(stack) :
            stack[i].fn = "of_to_plat" => stack[i].dev \notin AncestorOrSelf[e]
       /\ HookCall("probe", e)
  /\ UNCHANGED <<treeVars, flags, buf>>

-----------------------------------------------------------------------------
(* device_remove() *)

(* flags_remove(): does a driver take part in a removal?                    *)
FlagsRemove(rf, drv) ==
  IF "NORMAL" \in rf THEN "OK"
  ELSE IF "VITAL" \in rf /\ "VITAL" \in drv THEN "DEFER"
  ELSE IF rf \cap {"ACTIVE_DMA", "OS_PREPARE"} # {} /\ rf \cap drv = {}
       THEN "REJECTED"
  ELSE "OK"

RemoveEntry ==
  /\ Running("remove", "entry")
  /\ \/ "ACTIVATED" \notin flags[Top.dev] /\ Return("OK")
     \/ /\ "ACTIVATED" \in flags[Top.dev]
        /\ WalkStart(Children(Top.dev))
  /\ UNCHANGED <<treeVars, flags, buf>>

(* device_chld_remove(): -EPROBE_DEFER is kept, -EKEYREJECTED is ignored,   *)
(* any other error ends the walk and the removal.                           *)
RemoveChild ==
  /\ Running("remove", "children")
  /\ WalkCall("remove")
  /\ UNCHANGED <<treeVars, flags, buf>>

(* Variants: every error of a child is ignored, as -EKEYREJECTED is; or     *)
(* -EPROBE_DEFER is.                                                        *)
RemoveChildDone_IgnoresErrors ==
  /\ Running("remove", "child")
  /\ WalkNote(IF ret = "DEFER" THEN ret ELSE Top.res)
  /\ UNCHANGED <<treeVars, flags, buf>>
RemoveChildDone_ForgetsDefer ==
  /\ Running("remove", "child")
  /\ \/ ret = "ERR" /\ Return("ERR")
     \/ ret # "ERR" /\ WalkNote(Top.res)
  /\ UNCHANGED <<treeVars, flags, buf>>

RemoveChildDone ==
  /\ Running("remove", "child")
  /\ \/ ret = "ERR" /\ Return("ERR")
     \/ ret # "ERR" /\ WalkNote(IF ret = "DEFER" THEN ret ELSE Top.res)
  /\ UNCHANGED <<treeVars, flags, buf>>

RemoveChildren ==
  /\ Running("remove", "children")
  /\ Top.todo = {}
  /\ LET r == FlagsRemove(Top.rf, DrvFlags[Top.dev]) IN
       \/ Top.res # "OK" /\ Return(Top.res)
       \/ Top.res = "OK" /\ r # "OK" /\ Return(r)
       \/ Top.res = "OK" /\ r = "OK" /\ Goto("pre_remove")
  /\ UNCHANGED <<treeVars, flags, buf>>

(* uclass pre_remove(), then drv->remove(); each may refuse.                *)
RemoveHook ==
  /\ \E h \in {"pre_remove", "remove"} :
       /\ Running("remove", h)
       /\ \/ Goto(IF h = "pre_remove" THEN "remove" ELSE "child_post_remove")
          \/ h \in MayFail /\ Return("ERR")
  /\ UNCHANGED <<treeVars, flags, buf>>

(* The parent's child_post_remove() is only warned about; the device is     *)
(* freed and marked inactive.                                               *)
RemoveLast ==
  /\ Running("remove", "child_post_remove")
  /\ DeactivateAndFree(Top.dev)
  /\ Return("OK")
  /\ UNCHANGED treeVars

ProbeStep ==
  \/ OfToPlatEntry \/ OfToPlatParent \/ OfToPlatAlloc \/ OfToPlatHook
  \/ ProbeEntry \/ ProbeOfToPlat \/ ProbeParent \/ ProbeHookOk \/ ProbeHookFail
  \/ ProbeFailUclass \/ HookProbes

RemoveStep ==
  \/ RemoveEntry \/ RemoveChild \/ RemoveChildDone \/ RemoveChildren
  \/ RemoveHook \/ RemoveLast
=============================================================================
