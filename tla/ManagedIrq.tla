----------------------------- MODULE ManagedIrq -----------------------------
(***************************************************************************)
(* Managed interrupts (drivers/core/interrupt.c): the task that probes and  *)
(* removes a device, the interrupt service routine, and the interrupt       *)
(* server task, on one processor.                                           *)
(*                                                                          *)
(* devm_request_threaded_irq() installs one of three things in the vector   *)
(* table: the driver's handler ("direct"), the submission of the node's     *)
(* server request ("server"), or a wrapper that does both ("threaded").     *)
(* The node is a managed resource of the device, so this module extends     *)
(* Devres; the life of the device and the walks over its list are there.    *)
(*                                                                          *)
(* Interrupts are level triggered.  An asserted line preempts every task;   *)
(* the submission disables the vector, provided the request knows it, and   *)
(* the server enables it again when the handler has run.                    *)
(***************************************************************************)
EXTENDS Devres

CONSTANTS
  NoRes,        \* no node
  Modes,        \* the ways drivers request the interrupt
  ServerFirst,  \* does the server preempt the task that removes the device?
  EarlyIrq,     \* may the line be asserted before the device was ever set up?
  FreesIrq      \* the modes whose drivers call devm_free_irq()

ASSUME IrqAssumption ==
  /\ NoRes \notin Res
  /\ "irq" \in Kind
  /\ Modes \subseteq {"direct", "server", "threaded"}
  /\ FreesIrq \subseteq Modes
  /\ {ServerFirst, EarlyIrq} \subseteq BOOLEAN

VARIABLES
  call,   \* what is left to do in devm_request_threaded_irq()
  mode,   \* how the interrupt of a node was requested
  known,  \* nodes whose req.entry.vector is set
  vec,    \* the node whose handler is in the vector table
  on,     \* is the vector enabled?
  line,   \* does the device assert its interrupt?
  hw,     \* is the device set up so that it may?
  queue,  \* requests submitted to the server
  run     \* the request whose handler the server is in

irqVars == <<call, mode, known, vec, on, line, hw, queue, run>>
tableVars == <<vec, on>>
serverVars == <<queue, run>>
allVars == <<vars, irqVars>>

IrqTypeOK ==
  /\ TypeOK
  /\ call \in {"none", "install", "fields"}
  /\ mode \in [Res -> {"direct", "server", "threaded"}]
  /\ known \subseteq Res
  /\ vec \in Res \cup {NoRes}
  /\ run \in Res \cup {NoRes}
  /\ queue \subseteq Res
  /\ {on, line, hw} \subseteq BOOLEAN

IrqInit ==
  /\ Init
  /\ call = "none"
  /\ mode = [r \in Res |-> "direct"]
  /\ known = {}
  /\ vec = NoRes
  /\ on = FALSE
  /\ line \in (IF EarlyIrq THEN BOOLEAN ELSE {FALSE})
  /\ hw = FALSE
  /\ queue = {}
  /\ run = NoRes

-----------------------------------------------------------------------------
(* The processor *)

IrqPending == line /\ on /\ vec # NoRes
TaskRuns == ~IrqPending /\ (ServerFirst => queue = {} /\ run = NoRes)
Idle == TaskRuns /\ call = "none"

(* Device and driver: the device is switched on once it is active and its   *)
(* interrupt was granted (omap_i2c_bus_speed() after omap_i2c_probe()), and *)
(* remove() switches it off, which also takes the line down.                *)
SwitchOn ==
  /\ Idle /\ life = "active" /\ ~hw
  /\ \E i \in DOMAIN head : release[head[i]] = "irq"
  /\ hw' = TRUE
  /\ UNCHANGED <<vars, call, mode, known, tableVars, line, serverVars>>

SwitchOff ==
  /\ Idle /\ life = "remove" /\ hw
  /\ hw' = FALSE /\ line' = FALSE
  /\ UNCHANGED <<vars, call, mode, known, tableVars, serverVars>>

RaiseLine ==
  /\ hw /\ ~line
  /\ line' = TRUE
  /\ UNCHANGED <<vars, call, mode, known, tableVars, hw, serverVars>>

-----------------------------------------------------------------------------
(* devm_request_threaded_irq() and devm_free_irq() *)

(* A handler that outlives its node keeps the node's name, so the new node  *)
(* takes another one.                                                       *)
RequestStart(r, m) ==
  /\ Idle /\ life = "probe"
  /\ heap[r] = "free" /\ r # vec
  /\ heap' = [heap EXCEPT ![r] = "held"]
  /\ mode' = [mode EXCEPT ![r] = m]
  /\ known' = known \ {r}
  /\ call' = "install"
  /\ UNCHANGED <<release, phase, born, head, lifeVars, tableVars, line, hw,
                 serverVars>>

Held == CHOOSE r \in Res : heap[r] = "held"

(* rtems_interrupt_handler_install() enables the vector; it fails where     *)
(* another handler has the vector for itself.                               *)
Install ==
  /\ TaskRuns /\ call = "install" /\ vec = NoRes
  /\ vec' = Held
  /\ on' = TRUE
  /\ call' = "fields"
  /\ UNCHANGED <<vars, mode, known, line, hw, serverVars>>

InstallFails ==
  /\ TaskRuns /\ call = "install"
  /\ Drop(Held)
  /\ call' = "none"
  /\ UNCHANGED <<head, lifeVars, mode, known, tableVars, line, hw, serverVars>>

(* Variant: the request never learns its vector.                            *)
SetFields_NoVector ==
  /\ TaskRuns /\ call = "fields"
  /\ Add(Held, "irq")
  /\ call' = "none"
  /\ UNCHANGED <<known, lifeVars, mode, tableVars, line, hw, serverVars>>

(* The fields of the node are set after the handler is in the table, then   *)
(* devres_add().                                                            *)
SetFields ==
  /\ TaskRuns /\ call = "fields"
  /\ known' = known \cup {Held}
  /\ Add(Held, "irq")
  /\ call' = "none"
  /\ UNCHANGED <<lifeVars, mode, tableVars, line, hw, serverVars>>

(* devm_free_irq() destroys the node: its release function, which would     *)
(* take the handler out of the table, is not called.                        *)
DevmFreeIrq ==
  /\ Idle
  /\ \E i \in DOMAIN head :
       /\ release[head[i]] = "irq" /\ mode[head[i]] \in FreesIrq
       /\ DevmPut(i)
  /\ UNCHANGED irqVars

(* Variant: a release function that does nothing.                           *)
IrqRelease_Noop ==
  /\ TaskRuns
  /\ ReleaseNode
  /\ UNCHANGED irqVars

(* release_nodes() with devm_irq_release(): the handler leaves the table    *)
(* before the node is freed.                                                *)
IrqRelease ==
  /\ TaskRuns
  /\ ReleaseNode
  /\ vec' = (IF vec = Last(head) THEN NoRes ELSE vec)
  /\ on' = (IF vec = Last(head) THEN FALSE ELSE on)
  /\ UNCHANGED <<call, mode, known, line, hw, serverVars>>

(* Variant: a remove() hook that leaves the device on.                      *)
Core_LeavesOn ==
  /\ Idle
  /\ LifeStep \/ ReleaseEnd
  /\ UNCHANGED irqVars

(* The driver core goes on only between calls, and leaves the remove() hook *)
(* only once that has switched the device off.                              *)
Core ==
  /\ Idle
  /\ LifeStep \/ ReleaseEnd
  /\ life = "remove" => ~hw
  /\ UNCHANGED irqVars

-----------------------------------------------------------------------------
(* Interrupt service and the interrupt server *)

(* The driver's own handler quiets the device.                              *)
IsrDirect ==
  /\ IrqPending /\ mode[vec] = "direct"
  /\ line' = FALSE
  /\ UNCHANGED <<vars, call, mode, known, tableVars, hw, serverVars>>

(* rtems_interrupt_server_request_submit() *)
IsrSubmit ==
  /\ IrqPending /\ mode[vec] = "server"
  /\ queue' = queue \cup {vec}
  /\ on' = (vec \notin known)
  /\ UNCHANGED <<vars, call, mode, known, vec, line, hw, run>>

(* threaded_irq_wrappwer() calls dr->handler, which is uninitialised at     *)
(* first and then threaded_irq_wrappwer() itself: it does not come back.    *)
IsrWrapper ==
  /\ IrqPending /\ mode[vec] = "threaded"
  /\ UNCHANGED allVars

ServerTake ==
  /\ ~IrqPending /\ run = NoRes
  /\ \E r \in queue : run' = r /\ queue' = queue \ {r}
  /\ UNCHANGED <<vars, call, mode, known, tableVars, line, hw>>

(* thread_fn() quiets the device; then the server enables the vector.       *)
ServerRun ==
  /\ ~IrqPending /\ run # NoRes
  /\ line' = FALSE
  /\ on' = (on \/ run \in known)
  /\ run' = NoRes
  /\ UNCHANGED <<vars, call, mode, known, vec, hw, queue>>

-----------------------------------------------------------------------------
Request ==
  \/ \E r \in Res, m \in Modes : RequestStart(r, m)
  \/ Install \/ InstallFails \/ SetFields
Serve == IsrDirect \/ IsrSubmit \/ IsrWrapper \/ ServerTake \/ ServerRun

IrqNext ==
  \/ SwitchOn \/ SwitchOff \/ RaiseLine
  \/ Request \/ DevmFreeIrq \/ IrqRelease \/ Core
  \/ Serve

(* The processor does not stop: an interrupt is taken, the server runs when *)
(* it has work, and the request, once begun, goes on when the task is on.   *)
IrqSpec ==
  /\ IrqInit /\ [][IrqNext]_allVars
  /\ WF_allVars(Serve)
  /\ WF_allVars(Install \/ InstallFails \/ SetFields)

(* A handler in the vector table that works on its node has one: the node   *)
(* was not freed before devm_irq_release() took the handler out.            *)
HandlerHasNode ==
  vec # NoRes /\ mode[vec] # "direct" => heap[vec] \in {"held", "listed"}

(* Neither an interrupt nor the server runs driver code for a device whose  *)
(* private data device_free() has released, or on a freed request.  The     *)
(* data go before the handler does, so this rests on remove() having        *)
(* switched the device off and on the server being done by then.            *)
WorkHasData ==
  /\ \A r \in queue \cup ({run} \ {NoRes}) :
       priv /\ heap[r] \in {"held", "listed"}
  /\ IrqPending => priv

(* Whatever the device asserts is served, again and again: the vector is    *)
(* never left disabled and no interrupt keeps the server from running.  The *)
(* wrapper of the threaded mode, which calls itself, serves nothing.        *)
Served == line /\ ~(vec # NoRes /\ mode[vec] = "threaded") ~> ~line

(* "reset ASAP, clearing any IRQs" (i2c-omap.c): requesting the interrupt   *)
(* comes back, because nothing asserted earlier is still pending.           *)
RequestReturns == call # "none" ~> call = "none"

-----------------------------------------------------------------------------
(* The inductive invariants behind HandlerHasNode and WorkHasData *)

NodeTypes ==
  /\ heap \in [Res -> {"free", "held", "listed", "lost"}]
  /\ mode \in [Res -> {"direct", "server", "threaded"}]
  /\ head \in Seq(Res)
  /\ vec \in Res \cup {NoRes}

(* During a request the caller holds one node, which has no handler in the  *)
(* table before it is installed; the device is being probed meanwhile.      *)
RequestInv ==
  /\ call \in {"none", "install", "fields"}
  /\ call = "none" => \A r \in Res : heap[r] # "held"
  /\ call # "none" =>
       /\ life = "probe"
       /\ \E r \in Res : heap[r] = "held"
       /\ \A q, r \in Res : heap[q] = "held" /\ heap[r] = "held" => q = r
  /\ call = "install" => \A r \in Res : heap[r] = "held" => r # vec

HandlerInv == NodeTypes /\ RequestInv /\ HandlerHasNode

(* The device is on only while it is active or being removed, when its      *)
(* private data are there, and no interrupt is pending without them.        *)
PowerInv ==
  /\ IrqPending => priv
  /\ hw => life \in {"active", "remove"}
  /\ life \in {"of_to_plat", "plat", "probe", "active", "remove"} => priv
  /\ "PLATDATA_VALID" \in flags => priv

ServerInv ==
  /\ queue \subseteq Res
  /\ run \in Res \cup {NoRes}
  /\ \A r \in queue \cup ({run} \ {NoRes}) :
       priv /\ heap[r] \in {"held", "listed"}
=============================================================================
