----------------------------- MODULE DriverModel ----------------------------
(***************************************************************************)
(* The driver-model core as a whole: what dm_init(), dm_scan(),             *)
(* dm_devices_probe(), dm_uninit(), the uclass look-ups and drivers outside *)
(* any hook ask of it, one call at a time.                                  *)
(***************************************************************************)
EXTENDS DmBind, DmProbe

Active(d) == "ACTIVATED" \in flags[d]

Start(fn, d, rf) ==
  /\ fn \in Ops
  /\ stack = <<>>
  /\ stack' = <<NewFrame(fn, d, rf)>>
  /\ UNCHANGED <<treeVars, flags, buf, ret>>

(* A node is bound when it has no device and its parent device is bound.    *)
StartBind(d) ==
  /\ d \notin mem
  /\ ParentOf[d] # None => ParentOf[d] \in mem /\ "BOUND" \in flags[ParentOf[d]]
  /\ Start("bind", d, {})

(* A device is found through its uclass list.                               *)
StartUnbind(d) == d \in listed /\ Start("unbind", d, {})
StartOfToPlat(d) == d \in listed /\ Start("of_to_plat", d, {})
StartProbe(d) == d \in listed /\ Start("probe", d, {})
StartRemove(d) == d \in listed /\ \E rf \in RemoveArgs : Start("remove", d, rf)

Next ==
  \/ \E d \in Dev : \/ StartBind(d) \/ StartUnbind(d) \/ StartOfToPlat(d)
                    \/ StartProbe(d) \/ StartRemove(d)
  \/ BindStep \/ UnbindStep \/ ProbeStep \/ RemoveStep

Spec == Init /\ [][Next]_vars

-----------------------------------------------------------------------------
(* Structure *)

(* A device outlives its children: dev->parent never points to a udevice    *)
(* that device_unbind() or a failed device_bind_common() has freed.         *)
NoOrphan ==
  \A d \in mem : ParentOf[d] # None => ParentOf[d] \in mem

(* No call in progress works on a freed udevice, however the hooks of other *)
(* devices re-enter the core.                                               *)
FramesLive ==
  \A i \in 1..Len(stack) :
    stack[i].dev \in mem \/ (stack[i].fn = "bind" /\ stack[i].pc = "entry")

(* What device_unbind() or the error labels of device_bind_common() have    *)
(* freed is on no list and owns no plat buffer any more.                    *)
FreedIsGone ==
  \A d \in Dev \ mem : d \notin linked \cup listed /\ buf[d] \cap Plats = {}

(* Between calls every device is bound, on both lists and has its plats:    *)
(* no call stops half-way.                                                  *)
WholeBetweenCalls ==
  stack = <<>> =>
    \A d \in mem : /\ "BOUND" \in flags[d]
                   /\ d \in listed
                   /\ ParentOf[d] # None => d \in linked
                   /\ AutoBufs[d] \cap Plats \subseteq buf[d]

-----------------------------------------------------------------------------
(* Activation *)

(* A probe hook finds the plat read and every private buffer allocated.     *)
ProbeHasPriv ==
  \A i \in 1..Len(stack) :
    (stack[i].fn = "probe" /\ stack[i].pc \in ProbeHook) =>
      /\ "PLATDATA_VALID" \in flags[stack[i].dev]
      /\ AutoBufs[stack[i].dev] \cap Privs \subseteq buf[stack[i].dev]

(* The hooks of a device are never entered a second time while the first    *)
(* probe of the device is still under way.  That holds where devices depend *)
(* on each other in no circle, and in some circles; not in those where a    *)
(* hook probes an inactive device above its own, since the removal that     *)
(* follows a failed post_probe() there takes the device being probed along. *)
ProbeOnce ==
  \A i, j \in 1..Len(stack) :
    (/\ stack[i].fn = "probe" /\ stack[i].pc \in ProbeHook
     /\ stack[j].fn = "probe" /\ stack[j].pc \in ProbeHook
     /\ stack[i].dev = stack[j].dev) => i = j

(* An active device has an active parent: device_probe() activates the      *)
(* parent first, device_remove() de-activates it last.                      *)
ActiveParent ==
  \A d \in mem : Active(d) /\ ParentOf[d] # None => Active(ParentOf[d])

(* Removing the devices that are not vital never takes away a vital device, *)
(* nor a device above an active vital one.                                  *)
VitalStays ==
  [][\A d, v \in Dev :
       /\ RemoveLast /\ Top.dev = d /\ Top.rf = {"VITAL"}
       /\ "VITAL" \in DrvFlags[v] /\ Active(v)
       => d \notin AncestorOrSelf[v]]_vars

-----------------------------------------------------------------------------
(* The inductive invariant behind NoOrphan, FramesLive and FreedIsGone.     *)

Kids(d) == {c \in mem : ParentOf[c] = d}

(* Labels of device_bind_common() where the device is on no list, and where *)
(* it cannot have children yet, or any more.                                *)
OffList == {"plat", "uclass_plat", "parent_plat", "link",
            "fail_alloc3", "fail_alloc2", "fail_alloc1"}
NoKidsPc == OffList \cup {"uc_child_post_bind", "fail_child_post_bind",
                          "fail_bind", "fail_uclass_bind"}

(* Plat buffers the device may have while it is on no list.                 *)
PlatsAt == [plat |-> {}, uclass_plat |-> {"plat"},
            parent_plat |-> {"plat", "uclass_plat"}, link |-> Plats,
            fail_alloc3 |-> {"plat", "uclass_plat"}, fail_alloc2 |-> {"plat"},
            fail_alloc1 |-> {}]

(* A frame on its own: the devices it still has to walk over are alive.     *)
FrameInv(f) ==
  /\ f.fn \in {"remove", "unbind"} => f.todo \subseteq mem
  /\ f.fn = "unbind" => \A c \in f.todo : ParentOf[c] = f.dev

(* A frame f and one called, directly or not, from it: device_unbind() and  *)
(* device_remove() only call themselves, device_bind_common() only binds    *)
(* below its own device, and nothing is bound that a caller works on.       *)
NestInv(f, g) ==
  /\ f.fn = "unbind" <=> g.fn = "unbind"
  /\ f.fn = "remove" => g.fn = "remove"
  /\ f.fn = "bind" => g.fn = "bind"
  /\ g.fn = "bind" => f.dev # g.dev
  /\ f.fn \in {"bind", "unbind"} => Depth[f.dev] < Depth[g.dev]

(* A frame that waits for the frame g it called.                            *)
WaitInv(f, g) ==
  /\ f.fn = "bind" => f.pc \in {"bind", "post_bind"}
  /\ f.fn = "unbind" => /\ f.pc = "child"
                        /\ ParentOf[g.dev] = f.dev /\ g.dev \notin f.todo
                        /\ f.res = "OK" => Kids(f.dev) \subseteq f.todo \cup {g.dev}

StackInv ==
  /\ \A i \in 1..Len(stack) : FrameInv(stack[i])
  /\ \A i, j \in 1..Len(stack) : i < j => NestInv(stack[i], stack[j])
  /\ \A i \in 1..(Len(stack) - 1) : WaitInv(stack[i], stack[i + 1])

(* The innermost frame.                                                     *)
BindInv(f) ==
  /\ f.pc = "entry" => /\ f.dev \notin mem
                       /\ ParentOf[f.dev] # None => ParentOf[f.dev] \in mem
  /\ f.pc \in NoKidsPc => Kids(f.dev) = {}
  /\ f.pc \in OffList => /\ f.dev \notin linked \cup listed
                         /\ buf[f.dev] \cap Plats \subseteq PlatsAt[f.pc]
  /\ f.pc = "fail_uclass_bind" => f.dev \notin listed

UnbindInv(f) ==
  /\ f.pc = "children" /\ f.res = "OK" => Kids(f.dev) \subseteq f.todo
  /\ f.pc = "child" /\ f.res = "OK" /\ ret = "OK" => Kids(f.dev) \subseteq f.todo
  /\ f.pc = "pre_unbind" => Kids(f.dev) = {} /\ buf[f.dev] \cap Plats = {}

TopInv ==
  stack # <<>> => /\ Top.fn = "bind" => BindInv(Top)
                  /\ Top.fn = "unbind" => UnbindInv(Top)

(* Every device is on its parent's list, unless it is being bound.          *)
LinkInv ==
  \A c \in mem : \/ ParentOf[c] = None \/ c \in linked
                 \/ stack # <<>> /\ Top.fn = "bind" /\ Top.dev = c /\ Top.pc \in OffList

(* The devices form a tree of live structures: nothing device_unbind() or a *)
(* failed device_bind_common() freed is reachable from a list, a parent     *)
(* pointer or a call in progress, and every call in progress still has to   *)
(* visit all the children it is responsible for.                            *)
TreeInv ==
  TypeOK /\ NoOrphan /\ FreedIsGone /\ FramesLive /\ StackInv /\ TopInv /\ LinkInv

-----------------------------------------------------------------------------
(* The inductive invariant behind WholeBetweenCalls.                        *)

InBind(d) == \E i \in 1..Len(stack) : stack[i].fn = "bind" /\ stack[i].dev = d

(* The device is on its lists and has its plats.                            *)
Shelved(d) == /\ d \in listed
              /\ ParentOf[d] # None => d \in linked
              /\ AutoBufs[d] \cap Plats \subseteq buf[d]

(* The innermost call is putting the device together or taking it apart.    *)
InPieces(d) ==
  /\ stack # <<>> /\ Top.dev = d
  /\ \/ Top.fn = "bind" /\ Top.pc \notin BindHook
     \/ Top.fn = "unbind" /\ Top.pc = "pre_unbind"

(* The labels of device_bind_common() up to the linking.                    *)
Forward == {"plat", "uclass_plat", "parent_plat", "link"}

(* A device is whole, or the innermost call is about to change that; it is  *)
(* not marked BOUND only while it is being bound.                           *)
WholeInv ==
  /\ \A d \in mem : "BOUND" \in flags[d] \/ InBind(d)
  /\ \A d \in mem : Shelved(d) \/ InPieces(d)
  /\ stack # <<>> /\ Top.fn = "bind" /\ Top.pc \in Forward =>
       AutoBufs[Top.dev] \cap PlatsAt[Top.pc] \subseteq buf[Top.dev]

-----------------------------------------------------------------------------
(* The inductive invariant behind ProbeHasPriv, ProbeOnce, ActiveParent and *)
(* VitalStays.                                                              *)

ActKids(d) == {c \in Dev : ParentOf[c] = d /\ Active(c)}
HasPriv(d) == AutoBufs[d] \cap Privs \subseteq buf[d]
Ready(d) == "PLATDATA_VALID" \in flags[d] /\ HasPriv(d)

(* flags_remove() rejects no driver when it is called with these flags.     *)
Gentle(rf) == "NORMAL" \in rf \/ rf \cap {"ACTIVE_DMA", "OS_PREPARE"} = {}

(* r is an order of the devices in which parents, and the devices a hook    *)
(* probes, come first.                                                      *)
Orders(r) ==
  /\ r \in [Dev -> Nat]
  /\ \A d \in Dev : /\ ParentOf[d] # None => r[ParentOf[d]] < r[d]
                    /\ \A e \in Uses[d] : r[e] < r[d]

Probing == {"of_to_plat", "probe"}

(* A frame on its own.                                                      *)
WorkInv(f) ==
  /\ f.res # "REJECTED"
  /\ f.fn = "probe" =>
       /\ f.pc \in ProbeHook \cup {"parent"} => Ready(f.dev)
       /\ f.pc \in ProbeHook => Active(f.dev)
       /\ f.pc \in {"of_to_plat", "parent"} => ~Active(f.dev)
       /\ f.pc # "entry" => ActKids(f.dev) = {}
       /\ f.pc = "parent" => ParentOf[f.dev] # None
  /\ f.fn = "of_to_plat" /\ f.pc = "of_to_plat" => HasPriv(f.dev)
  /\ f.fn = "remove" =>
       /\ Gentle(f.rf)
       /\ \A c \in f.todo : ParentOf[c] = f.dev
       /\ f.pc \in {"pre_remove", "remove", "child_post_remove"} =>
            ActKids(f.dev) = {} /\ FlagsRemove(f.rf, DrvFlags[f.dev]) = "OK"

(* A frame f and one called, directly or not, from it: probing goes down in *)
(* the order.                                                               *)
OrderInv(r, f, g) ==
  f.fn \in Probing /\ g.fn \in Probing =>
    \/ r[g.dev] < r[f.dev]
    \/ f.fn = "probe" /\ f.pc = "of_to_plat" /\ g.fn = "of_to_plat" /\ g.dev = f.dev

(* A frame f that waits for the frame g it called.                          *)
CallInv(f, g) ==
  /\ f.fn = "probe" =>
       /\ f.pc # "entry"
       /\ f.pc = "of_to_plat" => g.fn = "of_to_plat" /\ g.dev = f.dev
       /\ f.pc = "parent" => g.fn = "probe" /\ g.dev = ParentOf[f.dev]
       /\ f.pc = "fail_uclass" => g.fn = "remove" /\ g.dev = f.dev
  /\ g.fn = "remove" /\ f.fn # "remove" => f.fn = "probe" /\ f.pc = "fail_uclass"
  /\ f.fn = "remove" =>
       /\ f.pc = "child" /\ ParentOf[g.dev] = f.dev
       /\ f.res = "OK" => ActKids(f.dev) \subseteq f.todo \cup {g.dev}

(* The innermost frame, back from a call or in its walk.                    *)
BackInv(f) ==
  /\ f.fn = "probe" /\ ret = "OK" =>
       /\ f.pc = "of_to_plat" => Ready(f.dev)
       /\ f.pc = "parent" => Active(ParentOf[f.dev])
  /\ f.fn = "remove" /\ f.res = "OK" /\ (f.pc = "children" \/ (f.pc = "child" /\ ret = "OK"))
       => ActKids(f.dev) \subseteq f.todo

(* A device that failed to probe is removed without its children: none of   *)
(* them is active.                                                          *)
AloneInv ==
  \A i \in 2..Len(stack) :
    stack[i].fn = "remove" /\ stack[i].pc # "entry" =>
      stack[1].fn = "remove" \/ stack[i - 1].fn # "remove"

DataInv ==
  /\ \A d \in Dev : "PLATDATA_VALID" \in flags[d] => HasPriv(d)
  /\ \A d \in Dev \ mem : ~Active(d)
  /\ \A d \in Dev : Active(d) /\ ParentOf[d] # None => Active(ParentOf[d])
  /\ ret # "REJECTED"

ActiveInv(r) ==
  /\ DataInv /\ AloneInv
  /\ \A i \in 1..Len(stack) : WorkInv(stack[i])
  /\ \A i, j \in 1..Len(stack) : i < j => OrderInv(r, stack[i], stack[j])
  /\ \A i \in 1..(Len(stack) - 1) : CallInv(stack[i], stack[i + 1])
  /\ stack # <<>> => BackInv(Top)
=============================================================================
