------------------------------- MODULE DmCore -------------------------------
(***************************************************************************)
(* State shared by the driver-model modules: the udevice structures, the   *)
(* two lists a device is linked on, its flags and buffers, and the call     *)
(* stack of the single task that runs driver-model code.                    *)
(*                                                                          *)
(* A driver-model function runs from one callback to the next without       *)
(* anything else happening, so one action covers one such stretch.  A       *)
(* callback (a driver or uclass hook) is a point where the frame on top of  *)
(* the stack waits: the hook may return 0, return an error, or call back    *)
(* into the core, which pushes a frame.  A hook a driver does not provide   *)
(* is a hook that returns 0 at once.                                        *)
(***************************************************************************)
EXTENDS Integers, Sequences

CONSTANTS
  Dev,        \* the device-tree nodes that have a driver
  None,       \* the NULL parent of the root device
  ParentOf,   \* parent node of each node
  Depth,      \* how far below the root a node is
  AutoBufs,   \* buffers the core allocates for a device (the ..._auto sizes)
  DrvFlags,   \* drv->flags of the driver matched with a node
  Pinctrl,    \* the devices of UCLASS_PINCTRL
  Uses,       \* devices the hooks of a device look up and probe
  MayFail,    \* callbacks and allocations that may report an error
  ScanFails,  \* may a bind hook fail after it has bound children?
  Ops,        \* core functions that are called from outside the core
  RemoveArgs, \* values of the flags argument of device_remove
  NestDepth   \* stack depth up to which hooks call back into the core

Plats == {"plat", "uclass_plat", "parent_plat"}
Privs == {"priv", "uclass_priv", "parent_priv"}

(* The bits of DM_REMOVE_NON_VITAL and DM_FLAG_VITAL are the same bit, as   *)
(* are those of DM_REMOVE_ACTIVE_DMA / DM_FLAG_ACTIVE_DMA and of the two    *)
(* OS_PREPARE flags: one name stands for each bit.                          *)
DrvFlag == {"ACTIVE_DMA", "OS_PREPARE", "VITAL"}
RemoveFlag == DrvFlag \cup {"NORMAL"}

Flag == {"BOUND", "ACTIVATED", "PLATDATA_VALID"}

BindHook == {"uc_child_post_bind", "bind", "child_post_bind", "post_bind"}
ProbeHook == {"pinctrl", "pre_probe", "uc_child_pre_probe", "child_pre_probe",
              "clk_set_defaults", "probe", "uc_child_post_probe", "post_probe",
              "own_pinctrl"}
(* Hooks of the parent's driver or uclass, which the root does not have.    *)
ParentHook == {"uc_child_post_bind", "child_post_bind", "uc_child_pre_probe",
               "child_pre_probe", "uc_child_post_probe"}
Fault == BindHook \cup ProbeHook \cup
         {"uclass_get", "enomem", "of_to_plat", "pre_remove", "remove",
          "unbind", "pre_unbind"}

ASSUME DevAssumption ==
  /\ None \notin Dev
  /\ ParentOf \in [Dev -> Dev \cup {None}]
  /\ Depth \in [Dev -> Nat]
  /\ \A d \in Dev : ParentOf[d] # None => Depth[ParentOf[d]] < Depth[d]
  /\ AutoBufs \in [Dev -> SUBSET (Plats \cup Privs)]
  /\ \A d \in Dev : ParentOf[d] = None =>
       AutoBufs[d] \cap {"parent_plat", "parent_priv"} = {}
  /\ DrvFlags \in [Dev -> SUBSET DrvFlag]
  /\ Pinctrl \subseteq Dev
  /\ Uses \in [Dev -> SUBSET Dev]

ASSUME EnvAssumption ==
  /\ MayFail \subseteq Fault
  /\ ScanFails \in BOOLEAN
  /\ RemoveArgs \subseteq SUBSET RemoveFlag
  /\ NestDepth \in Nat

VARIABLES
  mem,     \* devices whose struct udevice is allocated
  linked,  \* devices on the child_head list of their parent
  listed,  \* devices on the dev_head list of their uclass
  flags,   \* dev->flags_
  buf,     \* buffers that belong to a device
  stack,   \* call stack of the core, innermost call last
  ret      \* value returned by the call that returned last

treeVars == <<mem, linked, listed>>
vars == <<mem, linked, listed, flags, buf, stack, ret>>

Fn == {"bind", "unbind", "of_to_plat", "probe", "remove"}
Ret == {"OK", "ERR", "DEFER", "REJECTED"}   \* -EPROBE_DEFER, -EKEYREJECTED
Pc == BindHook \cup ProbeHook \cup
      {"entry", "plat", "uclass_plat", "parent_plat", "link",
       "fail_child_post_bind", "fail_bind", "fail_uclass_bind",
       "fail_alloc3", "fail_alloc2", "fail_alloc1",
       "alloc_priv", "of_to_plat", "parent", "fail_uclass",
       "children", "child", "pre_remove", "remove", "child_post_remove",
       "unbind", "pre_unbind"}

Frame == [fn: Fn, dev: Dev, pc: Pc, rf: SUBSET RemoveFlag,
          todo: SUBSET Dev, res: Ret]

(* One type invariant for the whole core.                                   *)
TypeOK ==
  /\ mem \subseteq Dev
  /\ linked \subseteq Dev
  /\ listed \subseteq Dev
  /\ flags \in [Dev -> SUBSET Flag]
  /\ buf \in [Dev -> SUBSET (Plats \cup Privs)]
  /\ stack \in Seq(Frame)
  /\ ret \in Ret

-----------------------------------------------------------------------------
(* Calls and returns *)

Top == stack[Len(stack)]
Running(fn, pc) == stack # <<>> /\ Top.fn = fn /\ Top.pc = pc

NewFrame(fn, d, rf) ==
  [fn |-> fn, dev |-> d, pc |-> "entry", rf |-> rf, todo |-> {}, res |-> "OK"]

(* The stack with another frame on top, with one more, with one less.       *)
WithTop(f) == [stack EXCEPT ![Len(stack)] = f]
At(pc) == [Top EXCEPT !.pc = pc]
Popped == SubSeq(stack, 1, Len(stack) - 1)

Goto(pc) == stack' = WithTop(At(pc)) /\ UNCHANGED ret
CallFrom(f, g) == stack' = Append(WithTop(f), g) /\ UNCHANGED ret
Call(fn, d, pc) == CallFrom(At(pc), NewFrame(fn, d, {}))
Return(r) == stack' = Popped /\ ret' = r

(* The walk over the children of a device: it starts, takes up a child, and *)
(* notes what came back.  The order of the list is left open.               *)
WalkStart(kids) ==
  stack' = WithTop([At("children") EXCEPT !.todo = kids]) /\ UNCHANGED ret
WalkCall(fn) ==
  \E c \in Top.todo :
    CallFrom([At("child") EXCEPT !.todo = @ \ {c}], NewFrame(fn, c, Top.rf))
WalkNote(r) ==
  stack' = WithTop([At("children") EXCEPT !.res = r]) /\ UNCHANGED ret

(* A hook's own call into the core: the frame keeps waiting for the hook.   *)
HookCall(fn, d) ==
  /\ Len(stack) < NestDepth
  /\ stack' = Append(stack, NewFrame(fn, d, {}))
  /\ UNCHANGED ret

-----------------------------------------------------------------------------
Children(d) == {c \in linked : ParentOf[c] = d}
Failing(d) == MayFail \ (IF ParentOf[d] = None THEN ParentHook ELSE {})
Set(d, f) == flags' = [flags EXCEPT ![d] = @ \cup {f}]

(* device_free(): the private buffers go, the plat is no longer valid.      *)
DeviceFree(d) ==
  /\ buf' = [buf EXCEPT ![d] = @ \ (AutoBufs[d] \cap Privs)]
  /\ flags' = [flags EXCEPT ![d] = @ \ {"PLATDATA_VALID"}]

(* Variant: DM_FLAG_PLATDATA_VALID survives the loss of the private data.   *)
DeactivateAndFree_KeepsValid(d) ==
  /\ buf' = [buf EXCEPT ![d] = @ \ (AutoBufs[d] \cap Privs)]
  /\ flags' = [flags EXCEPT ![d] = @ \ {"ACTIVATED"}]

(* device_free() where DM_FLAG_ACTIVATED is cleared next to it.             *)
DeactivateAndFree(d) ==
  /\ buf' = [buf EXCEPT ![d] = @ \ (AutoBufs[d] \cap Privs)]
  /\ flags' = [flags EXCEPT ![d] = @ \ {"PLATDATA_VALID", "ACTIVATED"}]

Init ==
  /\ mem = {} /\ linked = {} /\ listed = {}
  /\ flags = [d \in Dev |-> {}]
  /\ buf = [d \in Dev |-> {}]
  /\ stack = <<>>
  /\ ret = "OK"
=============================================================================
