------------------------------- MODULE Devres -------------------------------
(***************************************************************************)
(* Managed resources of one device (drivers/core/devres.c) along the life   *)
(* the driver core gives the device: bind, of_to_plat, probe, remove,       *)
(* unbind.                                                                  *)
(*                                                                          *)
(* A resource is a node that devres_alloc() takes from the heap and         *)
(* devres_add() puts on the tail of dev->devres_head, marked with the phase *)
(* the device was in.  devres_release_probe() and devres_release_all() walk *)
(* that list from its tail.  One pass of the walk is one step, since it     *)
(* calls the release function of a driver.                                  *)
(***************************************************************************)
EXTENDS Lists

CONSTANTS
  Res,        \* the nodes the heap has room for
  Kind,       \* the release functions in use
  OneOff      \* the kinds that are obtained once, through devres_get()

(* devm_kmalloc_release() does nothing, so a node of this kind is given     *)
(* back by devres_destroy(); the other kinds hold a clock, a GPIO or a      *)
(* reset line and are given back by devres_release().                       *)
ASSUME KindAssumption == "kmalloc" \in Kind /\ OneOff \subseteq Kind

VARIABLES
  heap,     \* state of each node: on the heap, held by the caller of
            \* devres_alloc(), on the device's list, or forgotten
  release,  \* dr->release
  phase,    \* dr->phase
  born,     \* history: the core function that ran when the node was added
  head,     \* dev->devres_head, oldest first
  flags,    \* DM_FLAG_BOUND and DM_FLAG_PLATDATA_VALID of the device
  life,     \* the core function the device is in, or the state it rests in
  priv      \* is dev->priv_ allocated?

devresVars == <<heap, release, phase, born, head>>
lifeVars == <<flags, life, priv>>
vars == <<heap, release, phase, born, head, flags, life, priv>>

BIND == 0
OFDATA == 1
PROBE == 2
Phase == {BIND, OFDATA, PROBE}

(* Where code of the device's driver runs: in its hooks, and while it is    *)
(* active.  A driver takes no new resource while it is being unbound.       *)
Acquiring == {"bind", "of_to_plat", "probe", "active", "remove"}
Hooked == Acquiring \cup {"unbind"}
Life == Hooked \cup {"none", "bound", "plat", "release_probe", "release_all"}

TypeOK ==
  /\ heap \in [Res -> {"free", "held", "listed", "lost"}]
  /\ release \in [Res -> Kind]
  /\ phase \in [Res -> Phase]
  /\ born \in [Res -> Acquiring]
  /\ head \in Seq(Res)
  /\ flags \subseteq {"BOUND", "PLATDATA_VALID"}
  /\ life \in Life
  /\ priv \in BOOLEAN

Init ==
  /\ heap = [r \in Res |-> "free"]
  /\ release = [r \in Res |-> "kmalloc"]
  /\ phase = [r \in Res |-> BIND]
  /\ born = [r \in Res |-> "bind"]
  /\ head = <<>>
  /\ flags = {}
  /\ life = "none"
  /\ priv = FALSE

-----------------------------------------------------------------------------
(* The resource list *)

(* Variant: the phase taken from PLATDATA_VALID alone.                      *)
PhaseNow_PlatOnly == IF "PLATDATA_VALID" \in flags THEN PROBE ELSE BIND

PhaseNow ==
  IF "PLATDATA_VALID" \in flags THEN PROBE
  ELSE IF "BOUND" \in flags THEN OFDATA ELSE BIND

(* Variant: list_add() for list_add_tail().                                 *)
Add_AtHead(r, k) ==
  /\ heap' = [heap EXCEPT ![r] = "listed"]
  /\ release' = [release EXCEPT ![r] = k]
  /\ phase' = [phase EXCEPT ![r] = PhaseNow]
  /\ born' = [born EXCEPT ![r] = life]
  /\ head' = <<r>> \o head

(* devres_add() of a node from devres_alloc().                              *)
Add(r, k) ==
  /\ heap' = [heap EXCEPT ![r] = "listed"]
  /\ release' = [release EXCEPT ![r] = k]
  /\ phase' = [phase EXCEPT ![r] = PhaseNow]
  /\ born' = [born EXCEPT ![r] = life]
  /\ head' = Append(head, r)

(* devres_free() and kfree(): what the node held is gone with it.           *)
Drop(r) ==
  /\ heap' = [heap EXCEPT ![r] = "free"]
  /\ release' = [release EXCEPT ![r] = "kmalloc"]
  /\ phase' = [phase EXCEPT ![r] = BIND]
  /\ born' = [born EXCEPT ![r] = "bind"]

(* devm_kmalloc(), devm_clk_get(), devm_gpiod_get_index() and the reset and *)
(* regmap functions of that shape: a node, then what it stands for, then    *)
(* the list.  Where that second step fails the node is not given back.      *)
DevmGet(r, k) ==
  /\ life \in Acquiring
  /\ heap[r] = "free"
  /\ Add(r, k)
  /\ UNCHANGED lifeVars

DevmGetFails(r, k) ==
  /\ life \in Acquiring
  /\ k # "kmalloc"
  /\ heap[r] = "free"
  /\ heap' = [heap EXCEPT ![r] = "lost"]
  /\ UNCHANGED <<release, phase, born, head, lifeVars>>

(* Variant: only the newest node is looked at.                              *)
Found_Newest(k) == head # <<>> /\ release[Last(head)] = k

(* devres_find() without a match function.                                  *)
Found(k) == \E i \in DOMAIN head : release[head[i]] = k

(* devres_get(): where a node of that kind is found the new one goes back   *)
(* to the heap, otherwise it is added.                                      *)

DevresGet(r, k) ==
  /\ life \in Acquiring
  /\ heap[r] = "free"
  /\ ~Found(k)
  /\ Add(r, k)
  /\ UNCHANGED lifeVars

(* Variant: the node is freed where it is on the list.                      *)
DevmPut_KeepsLink(i) ==
  /\ life \in Hooked
  /\ Drop(head[i])
  /\ UNCHANGED <<head, lifeVars>>

(* devm_kfree(), devm_clk_put(), devm_gpiod_put(): devres_destroy() or      *)
(* devres_release() of the node the driver names.                           *)
DevmPut(i) ==
  /\ life \in Hooked
  /\ head' = RemoveAt(head, i)
  /\ Drop(head[i])
  /\ UNCHANGED lifeVars

(* The next node release_nodes() takes; it stops at the first node of the   *)
(* bind phase when only the later phases are to go.                         *)
Walkable ==
  \/ life = "release_all" /\ head # <<>>
  \/ life = "release_probe" /\ head # <<>> /\ phase[Last(head)] # BIND

ReleaseNode ==
  /\ Walkable
  /\ Drop(Last(head))
  /\ head' = Front(head)
  /\ UNCHANGED lifeVars

ReleaseEnd ==
  /\ life \in {"release_probe", "release_all"}
  /\ ~Walkable
  /\ life' = (IF life = "release_probe" THEN "bound" ELSE "none")
  /\ UNCHANGED <<flags, priv, devresVars>>

-----------------------------------------------------------------------------
(* The life of the device *)

Moves(from, to) ==
  /\ life = from
  /\ life' = to
  /\ UNCHANGED devresVars

(* device_bind_common() starts from a cleared structure; the hooks run      *)
(* before DM_FLAG_BOUND is set.                                             *)
BindStart == Moves("none", "bind") /\ flags' = {} /\ priv' = FALSE
BindDone ==
  /\ Moves("bind", "bound")
  /\ flags' = flags \cup {"BOUND"}
  /\ UNCHANGED priv
BindFails == Moves("bind", "release_all") /\ UNCHANGED <<flags, priv>>

(* device_of_to_plat(), called for the device itself or for a child of it.  *)
OfToPlatStart == Moves("bound", "of_to_plat") /\ priv' = TRUE /\ UNCHANGED flags
OfToPlatDone ==
  /\ Moves("of_to_plat", "plat")
  /\ flags' = flags \cup {"PLATDATA_VALID"}
  /\ UNCHANGED priv

ProbeStart == Moves("plat", "probe") /\ UNCHANGED <<flags, priv>>
ProbeDone == Moves("probe", "active") /\ UNCHANGED <<flags, priv>>
RemoveStart == Moves("active", "remove") /\ UNCHANGED <<flags, priv>>
RemoveFails == Moves("remove", "active") /\ UNCHANGED <<flags, priv>>

(* device_free(), reached when of_to_plat() or probe() fails, when the      *)
(* parent of a device with valid data cannot be probed, and at the end of   *)
(* device_remove().  The buffers go first, the resources last.              *)
DeviceFree ==
  /\ \E from \in {"of_to_plat", "plat", "probe", "remove"} :
       Moves(from, "release_probe")
  /\ priv' = FALSE
  /\ flags' = flags \ {"PLATDATA_VALID"}

(* device_unbind() of a device that is not active; its data may be valid.   *)
UnbindStart ==
  /\ \E from \in {"bound", "plat"} : Moves(from, "unbind")
  /\ UNCHANGED <<flags, priv>>
UnbindFails ==
  /\ Moves("unbind", IF "PLATDATA_VALID" \in flags THEN "plat" ELSE "bound")
  /\ UNCHANGED <<flags, priv>>
UnbindDone == Moves("unbind", "release_all") /\ UNCHANGED <<flags, priv>>

LifeStep ==
  \/ BindStart \/ BindDone \/ BindFails
  \/ OfToPlatStart \/ OfToPlatDone
  \/ ProbeStart \/ ProbeDone
  \/ RemoveStart \/ RemoveFails \/ DeviceFree
  \/ UnbindStart \/ UnbindFails \/ UnbindDone

ListStep ==
  \/ \E r \in Res, k \in Kind \ OneOff : DevmGet(r, k) \/ DevmGetFails(r, k)
  \/ \E r \in Res, k \in OneOff : DevresGet(r, k)
  \/ \E i \in DOMAIN head : DevmPut(i)

Next == LifeStep \/ ListStep \/ ReleaseNode \/ ReleaseEnd

Spec == Init /\ [][Next]_vars

-----------------------------------------------------------------------------
(* Properties *)

(* The list and the heap agree: what is on devres_head is allocated and is  *)
(* there once, and nothing that was freed is still linked.  The safe walk   *)
(* of release_nodes(), which unlinks and frees as it goes, rests on it.     *)
ListExact ==
  /\ \A i, j \in DOMAIN head : head[i] = head[j] => i = j
  /\ \A r \in Res : heap[r] = "listed" <=> \E i \in DOMAIN head : head[i] = r

(* No node of the bind phase comes after one of a later phase.              *)
(* release_nodes() breaks off at the first node of the bind phase it meets  *)
(* from the tail; only with this order does that leave nothing behind.      *)
BindFirst ==
  \A i, j \in DOMAIN head :
    i < j /\ phase[head[j]] = BIND => phase[head[i]] = BIND

(* What devres_add() promises ("On driver detach, the associated release    *)
(* function will be invoked"): a device that is bound and nothing more      *)
(* holds only what its bind() took, and one that is unbound holds nothing.  *)
Detached ==
  /\ life = "bound" => \A i \in DOMAIN head : born[head[i]] = "bind"
  /\ life = "none" => head = <<>>

(* devres_get() keeps one node per kind however often it is called and      *)
(* whatever other nodes are added in between.                               *)
OneOfAKind ==
  \A i, j \in DOMAIN head :
    release[head[i]] = release[head[j]] /\ release[head[i]] \in OneOff => i = j

-----------------------------------------------------------------------------
(* The inductive invariant behind these properties *)

AllBind == \A i \in DOMAIN head : phase[head[i]] = BIND

(* The flags follow the life of the device.                                 *)
FlagsFit ==
  /\ life = "bind" => flags = {}
  /\ life \in {"bound", "of_to_plat", "release_probe"} => flags = {"BOUND"}
  /\ life \in {"plat", "probe", "active", "remove"} =>
       flags = {"BOUND", "PLATDATA_VALID"}
  /\ life = "unbind" => "BOUND" \in flags

(* A node has the bind phase if and only if it was added by bind(), and     *)
(* only such nodes are on the list until of_to_plat() runs.                 *)
PhaseFit ==
  /\ \A i \in DOMAIN head : phase[head[i]] = BIND <=> born[head[i]] = "bind"
  /\ life \in {"bind", "bound"} => AllBind
  /\ life = "unbind" /\ "PLATDATA_VALID" \notin flags => AllBind
  /\ life = "none" => head = <<>>

DevresInv ==
  TypeOK /\ ListExact /\ BindFirst /\ OneOfAKind /\ FlagsFit /\ PhaseFit
=============================================================================
