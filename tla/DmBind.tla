------------------------------- MODULE DmBind -------------------------------
(***************************************************************************)
(* device_bind_common() and device_unbind().                               *)
(***************************************************************************)
EXTENDS DmCore

BindSucc == [uc_child_post_bind |-> "bind", bind |-> "child_post_bind",
             child_post_bind |-> "post_bind"]
BindFail == [uc_child_post_bind |-> "fail_uclass_bind", bind |-> "fail_bind",
             child_post_bind |-> "fail_child_post_bind",
             post_bind |-> "fail_child_post_bind"]

(* Entry: uclass_get(), then the udevice is allocated.                      *)
BindEntry ==
  /\ Running("bind", "entry")
  /\ LET d == Top.dev IN
       \/ /\ {"uclass_get", "enomem"} \cap MayFail # {}
          /\ Return("ERR")
          /\ UNCHANGED <<mem, flags, buf>>
       \/ /\ mem' = mem \cup {d}
          /\ flags' = [flags EXCEPT ![d] = {}]
          /\ buf' = [buf EXCEPT ![d] = {}]
          /\ Goto("plat")
  /\ UNCHANGED <<linked, listed>>

(* Variant: a failed allocation goes unnoticed.                             *)
BindAlloc_Unchecked(b, next, fail) ==
  /\ Running("bind", b)
  /\ \/ b \in AutoBufs[Top.dev] /\ buf' = [buf EXCEPT ![Top.dev] = @ \cup {b}]
     \/ (b \in AutoBufs[Top.dev] => "enomem" \in MayFail) /\ UNCHANGED buf
  /\ Goto(next)
  /\ UNCHANGED <<treeVars, flags>>

(* The three plat buffers, each with its own error label.                   *)
BindAlloc(b, next, fail) ==
  /\ Running("bind", b)
  /\ LET d == Top.dev IN
       \/ b \notin AutoBufs[d] /\ Goto(next) /\ UNCHANGED buf
       \/ /\ b \in AutoBufs[d]
          /\ buf' = [buf EXCEPT ![d] = @ \cup {b}]
          /\ Goto(next)
       \/ b \in AutoBufs[d] /\ "enomem" \in MayFail /\ Goto(fail) /\ UNCHANGED buf
  /\ UNCHANGED <<treeVars, flags>>

BindPlat == BindAlloc("plat", "uclass_plat", "fail_alloc1")
BindUclassPlat == BindAlloc("uclass_plat", "parent_plat", "fail_alloc2")
BindParentPlat == BindAlloc("parent_plat", "link", "fail_alloc3")

(* The device goes on its parent's list, if it has a parent, and            *)
(* uclass_bind_device() puts it on the uclass list.                         *)
BindLink ==
  /\ Running("bind", "link")
  /\ linked' = IF ParentOf[Top.dev] = None THEN linked ELSE linked \cup {Top.dev}
  /\ listed' = listed \cup {Top.dev}
  /\ Goto("uc_child_post_bind")
  /\ UNCHANGED <<mem, flags, buf>>

(* A bind hook returns 0; after the last one the device is BOUND.           *)
BindHookOk ==
  /\ \E h \in BindHook :
       /\ Running("bind", h)
       /\ \/ h # "post_bind" /\ Goto(BindSucc[h]) /\ UNCHANGED flags
          \/ h = "post_bind" /\ Set(Top.dev, "BOUND") /\ Return("OK")
  /\ UNCHANGED <<treeVars, buf>>

(* A bind hook fails.  A uclass child_post_bind that fails takes the device *)
(* off the uclass list again before the error label is reached.             *)
BindHookFail ==
  /\ stack # <<>>
  /\ \E h \in BindHook \cap Failing(Top.dev) :
       /\ Running("bind", h)
       /\ ScanFails \/ Children(Top.dev) = {}
       /\ Goto(BindFail[h])
       /\ listed' = IF h = "uc_child_post_bind" THEN listed \ {Top.dev} ELSE listed
  /\ UNCHANGED <<mem, linked, flags, buf>>

(* A bind hook or a probe() binds nodes below its device, as                *)
(* dm_scan_fdt_dev() does in the post_bind() of a bus.                      *)
HookBinds ==
  /\ \/ \E h \in {"bind", "post_bind"} : Running("bind", h)
     \/ Running("probe", "probe")
  /\ \E c \in Dev \ mem : ParentOf[c] = Top.dev /\ HookCall("bind", c)
  /\ UNCHANGED <<treeVars, flags, buf>>

-----------------------------------------------------------------------------
(* The error labels of device_bind_common(), each falling into the next.    *)

(* fail_child_post_bind: drv->unbind(), whose result is only warned about.  *)
BindFailUnbind ==
  /\ Running("bind", "fail_child_post_bind")
  /\ Goto("fail_bind")
  /\ UNCHANGED <<treeVars, flags, buf>>

(* fail_bind: uclass_unbind_device(); when pre_unbind() refuses, the device *)
(* stays on the uclass list and the error path goes on.                     *)
BindFailUclass ==
  /\ Running("bind", "fail_bind")
  /\ \/ listed' = listed \ {Top.dev}
     \/ "pre_unbind" \in MayFail /\ UNCHANGED listed
  /\ Goto("fail_uclass_bind")
  /\ UNCHANGED <<mem, linked, flags, buf>>

BindFailUnlink ==
  /\ Running("bind", "fail_uclass_bind")
  /\ linked' = linked \ {Top.dev}
  /\ buf' = [buf EXCEPT ![Top.dev] = @ \ {"parent_plat"}]
  /\ Goto("fail_alloc3")
  /\ UNCHANGED <<mem, listed, flags>>

BindFailFree(label, b, next) ==
  /\ Running("bind", label)
  /\ buf' = [buf EXCEPT ![Top.dev] = @ \ {b}]
  /\ Goto(next)
  /\ UNCHANGED <<treeVars, flags>>

BindFailAlloc3 == BindFailFree("fail_alloc3", "uclass_plat", "fail_alloc2")
BindFailAlloc2 == BindFailFree("fail_alloc2", "plat", "fail_alloc1")

(* fail_alloc1: the structure itself is freed and the error is returned.    *)
BindFailAlloc1 ==
  /\ Running("bind", "fail_alloc1")
  /\ mem' = mem \ {Top.dev}
  /\ flags' = [flags EXCEPT ![Top.dev] = {}]
  /\ Return("ERR")
  /\ UNCHANGED <<linked, listed, buf>>

-----------------------------------------------------------------------------
(* device_unbind() *)

UnbindEntry ==
  /\ Running("unbind", "entry")
  /\ \/ /\ "ACTIVATED" \in flags[Top.dev] \/ "BOUND" \notin flags[Top.dev]
        /\ Return("ERR")
     \/ /\ "ACTIVATED" \notin flags[Top.dev] /\ "BOUND" \in flags[Top.dev]
        /\ Goto("unbind")
  /\ UNCHANGED <<treeVars, flags, buf>>

(* drv->unbind(); when it agrees, device_chld_unbind() starts its walk.     *)
UnbindHook ==
  /\ Running("unbind", "unbind")
  /\ \/ WalkStart(Children(Top.dev))
     \/ "unbind" \in MayFail /\ Return("ERR")
  /\ UNCHANGED <<treeVars, flags, buf>>

(* device_chld_unbind(): one child after the other, whatever they return.   *)
UnbindChild ==
  /\ Running("unbind", "children")
  /\ WalkCall("unbind")
  /\ UNCHANGED <<treeVars, flags, buf>>

(* Variant: the result of the last child counts, not the first error.       *)
UnbindChildDone_LastResult ==
  /\ Running("unbind", "child")
  /\ WalkNote(ret)
  /\ UNCHANGED <<treeVars, flags, buf>>

UnbindChildDone ==
  /\ Running("unbind", "child")
  /\ WalkNote(IF Top.res = "OK" THEN ret ELSE Top.res)
  /\ UNCHANGED <<treeVars, flags, buf>>

(* The walk is over: the first error is returned, else the plats are freed. *)
UnbindChildren ==
  /\ Running("unbind", "children")
  /\ Top.todo = {}
  /\ \/ Top.res # "OK" /\ Return(Top.res) /\ UNCHANGED buf
     \/ /\ Top.res = "OK"
        /\ buf' = [buf EXCEPT ![Top.dev] = @ \ Plats]
        /\ Goto("pre_unbind")
  /\ UNCHANGED <<treeVars, flags>>

(* Variant: the device is freed while its parent's list still has it.       *)
UnbindLast_StaysLinked ==
  /\ Running("unbind", "pre_unbind")
  /\ mem' = mem \ {Top.dev}
  /\ listed' = listed \ {Top.dev}
  /\ flags' = [flags EXCEPT ![Top.dev] = {}]
  /\ Return("OK")
  /\ UNCHANGED <<linked, buf>>

(* uclass_unbind_device(); then the device leaves its parent and is freed.  *)
UnbindLast ==
  /\ Running("unbind", "pre_unbind")
  /\ LET d == Top.dev IN
       \/ /\ mem' = mem \ {d}
          /\ linked' = linked \ {d}
          /\ listed' = listed \ {d}
          /\ flags' = [flags EXCEPT ![d] = {}]
          /\ Return("OK")
       \/ "pre_unbind" \in MayFail /\ Return("ERR") /\ UNCHANGED <<treeVars, flags>>
  /\ UNCHANGED buf

BindStep ==
  \/ BindEntry \/ BindPlat \/ BindUclassPlat \/ BindParentPlat \/ BindLink
  \/ BindHookOk \/ BindHookFail \/ HookBinds
  \/ BindFailUnbind \/ BindFailUclass \/ BindFailUnlink
  \/ BindFailAlloc3 \/ BindFailAlloc2 \/ BindFailAlloc1

UnbindStep ==
  \/ UnbindEntry \/ UnbindHook \/ UnbindChild \/ UnbindChildDone
  \/ UnbindChildren \/ UnbindLast
=============================================================================
