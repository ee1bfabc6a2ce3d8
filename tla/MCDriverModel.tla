--------------------------- MODULE MCDriverModel ----------------------------
(***************************************************************************)
(* Instances of the driver model: a root, a bus below it, and two devices   *)
(* c1 and c2 on the bus.                                                    *)
(***************************************************************************)
EXTENDS DriverModel, TLC

CONSTANTS root, bus, c1, c2

MCDev == {root, bus, c1, c2}
MCParentOf == (root :> None) @@ (bus :> root) @@ (c1 :> bus) @@ (c2 :> bus)

MCDepth == (root :> 0) @@ (bus :> 1) @@ (c1 :> 2) @@ (c2 :> 2)

(* c1 has every kind of buffer, the bus and c2 the usual ones.              *)
MCAuto == (root :> {}) @@ (bus :> {"uclass_plat", "priv"})
          @@ (c1 :> Plats \cup Privs) @@ (c2 :> {"plat", "priv"})

(* c1 is vital (a clock), c2 has DMA to stop.                               *)
MCDrvFlags == (root :> {}) @@ (bus :> {})
              @@ (c1 :> {"VITAL"}) @@ (c2 :> {"ACTIVE_DMA"})

(* Dependencies between devices: none; c2 needs its sibling c1; or the bus  *)
(* itself probes c1 in one of its hooks, as a bus that needs a device       *)
(* behind it does.                                                          *)
NoUses == [d \in MCDev |-> {}]
SiblingUses == [NoUses EXCEPT ![c2] = {c1}]
BusUses == [NoUses EXCEPT ![bus] = {c1}, ![c1] = {c2}, ![c2] = {c1}]

Normal == {{"NORMAL"}}
NormalOrVital == {{"NORMAL"}, {"VITAL"}}
AnyRemoval == {{"NORMAL"}, {"VITAL"}, {"ACTIVE_DMA"}, {"VITAL", "ACTIVE_DMA"}}

NoFault == {}
BindFaults == {"uclass_get", "enomem", "unbind"} \cup BindHook
AllFaults == Fault \ {"pre_unbind"}
ProbeFaults == {"enomem", "of_to_plat", "pre_remove", "remove"} \cup ProbeHook
=============================================================================
