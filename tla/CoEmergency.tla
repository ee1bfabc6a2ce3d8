---------------------------- MODULE CoEmergency -----------------------------
(***************************************************************************)
(* The emergency producer of lib/canopen/src/301/CO_Emergency.c as         *)
(* operators on a record: bits are the error status bits, reg the groups   *)
(* in the error register, queue the ring of messages that wait to be sent, *)
(* full is bufFull (0; 1: the ring is full; 2: a message was dropped), inh *)
(* the inhibit timer and can the driver's errors as last seen.             *)
(***************************************************************************)
EXTENDS Integers, Sequences

CONSTANTS
    EmSlots,      \* CO_EM_INTERNAL_BUFFER_SIZE
    Inhibit,      \* the inhibit time, in ticks
    CanErrors,    \* the errors of the driver, in the order they are looked at
    GroupOf       \* the group of the error register that a bit belongs to

HbAlarms == {"hbTimeout", "hbReset"}
Bits == DOMAIN GroupOf

\* The bits of the heartbeat consumer and of the ring are not the driver's.
ASSUME EmAssumption ==
    /\ EmSlots \in Nat \ {0} /\ Inhibit \in Nat
    /\ HbAlarms \cup {"emFull"} \subseteq Bits
    /\ CanErrors \in Seq(Bits \ (HbAlarms \cup {"emFull"})) /\ CanErrors # << >>

EmInit == [bits |-> {}, reg |-> {}, queue |-> << >>, full |-> 0, inh |-> 0, can |-> {}]

\* The ring takes a message, or remembers that it had no room for it.
Enqueue(em, m) ==
    IF em.full # 0 THEN [em EXCEPT !.full = 2]
    ELSE [em EXCEPT !.queue = Append(@, m),
                    !.full  = IF Len(em.queue) + 1 = EmSlots THEN 1 ELSE 0]

ErrorReport(em, b) ==
    IF b \in em.bits THEN em
    ELSE Enqueue([em EXCEPT !.bits = @ \cup {b}], [bit |-> b, on |-> TRUE])

ErrorReset(em, b) ==
    IF b \notin em.bits THEN em
    ELSE Enqueue([em EXCEPT !.bits = @ \ {b}], [bit |-> b, on |-> FALSE])

\* An error of the driver that has changed is reported or reset.
Follow(em, b, can) ==
    IF (b \in can) = (b \in em.can) THEN em
    ELSE IF b \in can THEN ErrorReport(em, b) ELSE ErrorReset(em, b)

ErrorRegister(bits) == {GroupOf[b] : b \in bits} \ {"none"}

\* The rest of CO_EM_process up to the message that it sends: the register is
\* computed from the bits, then at most one message leaves the ring.
EmReady(em, dt) == [em EXCEPT !.reg = ErrorRegister(em.bits),
                              !.inh = IF @ < Inhibit THEN @ + dt ELSE @]
EmSends(e, isOp) == isOp /\ e.queue # << >> /\ e.inh >= Inhibit
\* Variant: the sender forgets that a message was dropped.
EmSent_Silent(e) ==
    ErrorReset([e EXCEPT !.queue = Tail(@), !.full = 0, !.inh = 0], "emFull")

EmSent(e) ==
    LET rest == [e EXCEPT !.queue = Tail(@), !.full = 0, !.inh = 0]
    IN  IF e.full = 2 THEN ErrorReport(rest, "emFull") ELSE ErrorReset(rest, "emFull")
=============================================================================
