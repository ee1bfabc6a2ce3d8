------------------------------- MODULE CoNode -------------------------------
(***************************************************************************)
(* One call of CO_process of a CANopen node, for the parts that run the    *)
(* node's state: the emergency producer, the NMT state machine with its    *)
(* heartbeat, and the heartbeat consumer.  The CAN receive callbacks of    *)
(* NMT commands and of heartbeats interrupt it anywhere, so the call is    *)
(* cut into steps (loc.pc) wherever it reads what a callback writes or     *)
(* writes what a callback writes.                                          *)
(***************************************************************************)
EXTENDS CoEmergency, FiniteSets

CONSTANTS
    Entries,     \* number of entries of the consumer, ODL_consumerHeartbeatTime_arrayLength
    Nodes,       \* identifiers of remote nodes
    Remote,      \* the states that remote nodes announce
    HbTime,      \* the producer's heartbeat time, in ticks; 0: none
    FirstHb,     \* time from the boot-up message to the first heartbeat
    ConsTime,    \* the consumer's time
    Commands,    \* the NMT commands that are received
    Configs,     \* [startup : BOOLEAN, eb : errorBehavior[], used : entries in use at
                 \* the start, max : bound on the events]
    MaxDue       \* ticks between two calls, at most

ASSUME NodeAssumption ==
    /\ {Entries, MaxDue} \subseteq Nat \ {0} /\ HbTime \in Nat \ {0} /\ ConsTime \in Nat \ {0}
    /\ FirstHb \in 0 .. HbTime
    /\ Configs \subseteq [startup: BOOLEAN, eb: [0 .. 5 -> Nat], used: Nat, max: Nat]

VARIABLES
    nmt,     \* CO_NMT_t: operatingState, operatingStatePrev, HBproducerTimer, resetCommand
    em,      \* the emergency producer
    hb,      \* monitoredNodes[]
    odTime,  \* the consumer's entries in the object dictionary (1016)
    cons,    \* CO_HBconsumer_t: allMonitoredActive, ...Operational, NMTisPreOrOperationalPrev
    loc,     \* where CO_process is, and its local variables
    due,     \* time since it was called last
    can,     \* the errors of the CAN driver
    conf,    \* the settings in the object dictionary
    heard,   \* what a listener makes of the emergency messages: the bits that are
             \* set, and whether it was ever told that messages were dropped
    told,    \* the state that the last heartbeat told, "none" before the first
    events   \* commands, driver errors, remote resets and settings so far

vars == <<nmt, em, hb, odTime, cons, loc, due, can, conf, heard, told, events>>

Idx == 1 .. Entries
Capped(t, max) == IF t <= max THEN t ELSE max
Used(e) == e.node # 0 /\ e.time # 0

\* CO_HBconsumer_initEntry: the entry after a configuration that is accepted.
\* The timer counts from the message that makes the entry active; otherwise its
\* value is not used, and 0 here.
Entry(e) == [node |-> e.node, time |-> IF Used(e) THEN e.time ELSE 0,
             nmt |-> "unknown", new |-> FALSE, timer |-> 0,
             st |-> IF Used(e) THEN "unknown" ELSE "unconf"]

NmtInit == [st |-> "init", prev |-> "init", timer |-> 0, reset |-> "no"]
ConsInit == [active |-> FALSE, op |-> FALSE, prevOp |-> FALSE]
HeardInit == [bits |-> {}, warned |-> FALSE]
LocInit == [pc |-> "idle", i |-> 1, isOp |-> FALSE, dt |-> 0, diff |-> 0,
            active |-> TRUE, op |-> TRUE, ret |-> "no"]

Init ==
    /\ nmt = NmtInit /\ em = EmInit /\ cons = ConsInit /\ loc = LocInit
    /\ conf \in Configs
    /\ odTime = [i \in Idx |-> [node |-> i, time |-> IF i <= conf.used THEN ConsTime ELSE 0]]
    /\ hb = [i \in Idx |-> Entry(odTime[i])]
    /\ due = 0 /\ can = {}
    /\ heard = HeardInit /\ told = "none" /\ events = 0

Event(n) == events' = events + n /\ events' <= conf.max

----------------------------------------------------------------------------
(* What happens around the call.                                           *)

Tick ==
    /\ loc.pc = "idle" /\ due < MaxDue
    /\ due' = due + 1
    /\ UNCHANGED <<nmt, em, hb, odTime, cons, loc, can, conf, heard, told, events>>

DriverError(c) ==
    /\ loc.pc = "idle"
    /\ can' = IF c \in can THEN can \ {c} ELSE can \cup {c}
    /\ UNCHANGED <<nmt, em, hb, odTime, cons, loc, due, conf, heard, told>>
    /\ Event(1)

\* Variant: the error register does not keep the node from starting.
Command_Unguarded(cmd) ==
    [nmt EXCEPT !.st    = IF cmd \in {"op", "stop", "pre"} THEN cmd ELSE @,
                !.reset = IF cmd = "reset" THEN cmd ELSE @]

Command(cmd) ==
    [nmt EXCEPT !.st    = IF cmd \in {"stop", "pre"} \/ (cmd = "op" /\ em.reg = {})
                          THEN cmd ELSE @,
                !.reset = IF cmd = "reset" THEN cmd ELSE @]

\* The callbacks come at any time.  Only where the call reads or writes what
\* they write does the step matter at which they come: at the other steps they
\* do what they would do at the next of these.
NmtSteps == {"idle", "em", "nmtTest", "nmtSend", "nmtBoot", "nmtPrev", "nmtError", "nmtLeave"}
HbSteps  == {"idle", "hbForget", "hbForget2", "hbRead", "hbClear", "hbTimer"}

\* CO_NMT_receive
NmtReceive(cmd) ==
    /\ loc.pc \in NmtSteps
    /\ nmt' = Command(cmd)
    /\ UNCHANGED <<em, hb, odTime, cons, loc, due, can, conf, heard, told>>
    /\ Event(1)

\* CO_NMT_sendCommand of the application, to all nodes including its own.
NmtSendCommand(cmd) ==
    /\ loc.pc = "idle"
    /\ nmt' = Command(cmd)
    /\ UNCHANGED <<em, hb, odTime, cons, loc, due, can, conf, heard, told>>
    /\ Event(1)

\* CO_HBcons_receive.  What it writes to an entry that is not used any more, but
\* whose receive filter stays, is not read until the entry is set anew.
HbReceive(i, s) ==
    /\ loc.pc \in HbSteps /\ hb[i].st # "unconf"
    /\ hb' = [hb EXCEPT ![i].nmt = s, ![i].new = TRUE]
    /\ UNCHANGED <<nmt, em, odTime, cons, loc, due, can, conf, heard, told>>
    /\ Event(IF s = "init" THEN 1 ELSE 0)

\* Variant: the check for another entry of the same node is forgotten.
Accepts_Any(i, e) == TRUE

Accepts(i, e) == Used(e) => \A j \in Idx \ {i} : odTime[j].time = 0 \/ odTime[j].node # e.node

\* CO_ODF_1016: the SDO server writes an entry of the consumer.
Reconfigure(i, e) ==
    /\ loc.pc = "idle" /\ Accepts(i, e)
    /\ hb' = [hb EXCEPT ![i] = Entry(e)]
    /\ odTime' = [odTime EXCEPT ![i] = e]
    /\ UNCHANGED <<nmt, em, cons, loc, due, can, conf, heard, told>>
    /\ Event(1)

----------------------------------------------------------------------------
(* CO_process.                                                             *)

At(pc)   == loc.pc = pc
Go(pc)   == loc' = [loc EXCEPT !.pc = pc]
IsOp     == nmt.st \in {"pre", "op"}

Begin ==
    /\ At("idle") /\ loc.ret = "no"
    /\ loc' = [LocInit EXCEPT !.pc = "emCan", !.isOp = IsOp, !.dt = due]
    /\ due' = 0
    /\ UNCHANGED <<nmt, em, hb, odTime, cons, can, conf, heard, told, events>>

\* CO_process has returned a reset command: the application sets up the
\* communication anew.
Reinit ==
    /\ At("idle") /\ loc.ret # "no"
    /\ nmt' = NmtInit /\ em' = EmInit /\ cons' = ConsInit /\ loc' = LocInit
    /\ hb' = [i \in Idx |-> Entry(odTime[i])]
    /\ due' = 0 /\ heard' = HeardInit /\ told' = "none"
    /\ UNCHANGED <<odTime, can, conf, events>>

Apply(bits, m) == IF m.on THEN bits \cup {m.bit} ELSE bits \ {m.bit}

\* CO_EM_process looks at the driver's errors one after the other ...
EmFollow ==
    /\ At("emCan")
    /\ LET e    == Follow(em, CanErrors[loc.i], can)
           last == loc.i = Len(CanErrors)
       IN  /\ em' = IF last THEN [e EXCEPT !.can = can] ELSE e
           /\ loc' = [loc EXCEPT !.pc = IF last THEN "em" ELSE @,
                                 !.i = IF last THEN 1 ELSE @ + 1]
    /\ UNCHANGED <<nmt, hb, odTime, cons, due, can, conf, heard, told, events>>

\* ... then makes up the error register and sends a message.
EmProcess ==
    /\ At("em")
    /\ LET e == EmReady(em, loc.dt)
           m == Head(e.queue)
       IN  IF EmSends(e, loc.isOp)
           THEN /\ em' = EmSent(e)
                /\ heard' = [bits   |-> Apply(heard.bits, m),
                             warned |-> heard.warned \/ m.bit = "emFull"]
           ELSE em' = e /\ UNCHANGED heard
    /\ Go("nmtTest")
    /\ UNCHANGED <<nmt, hb, odTime, cons, due, can, conf, told, events>>

\* Variant: only a changed state is announced.
NmtTest_OnChange ==
    /\ At("nmtTest")
    /\ LET send == nmt.st = "init" \/ nmt.st # nmt.prev
       IN  /\ nmt' = nmt
           /\ Go(IF send THEN "nmtSend" ELSE "nmtPrev")
    /\ UNCHANGED <<em, hb, odTime, cons, due, can, conf, heard, told, events>>

\* CO_NMT_process decides whether to send a heartbeat ...
NmtTest ==
    /\ At("nmtTest")
    /\ LET t    == Capped(nmt.timer + loc.dt, HbTime)
           send == nmt.st = "init" \/ t >= HbTime \/ nmt.st # nmt.prev
       IN  /\ nmt' = [nmt EXCEPT !.timer = IF send THEN 0 ELSE t]
           /\ Go(IF send THEN "nmtSend" ELSE "nmtPrev")
    /\ UNCHANGED <<em, hb, odTime, cons, due, can, conf, heard, told, events>>

\* ... sends the state it finds then, the boot-up message if it is "init" ...
NmtSend ==
    /\ At("nmtSend")
    /\ told' = nmt.st
    /\ nmt' = [nmt EXCEPT !.timer = IF nmt.st = "init" THEN HbTime - FirstHb ELSE @]
    /\ Go(IF nmt.st = "init" THEN "nmtBoot" ELSE "nmtPrev")
    /\ UNCHANGED <<em, hb, odTime, cons, due, can, conf, heard, events>>

\* ... and leaves "init", whatever a callback has put there.
NmtBoot ==
    /\ At("nmtBoot")
    /\ nmt' = [nmt EXCEPT !.st = IF conf.startup THEN "op" ELSE "pre"]
    /\ Go("nmtPrev")
    /\ UNCHANGED <<em, hb, odTime, cons, due, can, conf, heard, told, events>>

NmtPrev ==
    /\ At("nmtPrev")
    /\ nmt' = [nmt EXCEPT !.prev = nmt.st]
    /\ Go("nmtError")
    /\ UNCHANGED <<em, hb, odTime, cons, due, can, conf, heard, told, events>>

\* The state that the errors ask for, by errorBehavior[]: 0 is pre-operational,
\* 1 no change, 2 stopped.
Behave(b, s) == CASE b = 0 -> "pre" [] b = 2 -> "stop" [] OTHER -> s
Passive == em.bits \cap {"txPassive", "rxPassive"} # {}
Asked ==
    LET eb == conf.eb
        r  == em.reg \cup (IF Passive /\ eb[2] \in {0, 2} THEN {"comm"} ELSE {})
        serious == em.bits \cap {"busOff", "hbTimeout", "hbReset"} # {}
        s1 == IF "comm" \in r
              THEN IF eb[1] = 1 /\ serious THEN Behave(eb[0], "op") ELSE Behave(eb[1], "op")
              ELSE "op"
        s2 == IF "generic" \in r THEN Behave(eb[3], s1) ELSE s1
        s3 == IF "profile" \in r THEN Behave(eb[4], s2) ELSE s2
    IN  IF "manufacturer" \in r THEN Behave(eb[5], s3) ELSE s3

NmtError ==
    /\ At("nmtError")
    /\ IF nmt.st = "op" /\ Asked # "op"
       THEN Go("nmtLeave")
       ELSE loc' = [loc EXCEPT !.pc = "hb", !.ret = nmt.reset]
    /\ UNCHANGED <<nmt, em, hb, odTime, cons, due, can, conf, heard, told, events>>

NmtLeave ==
    /\ At("nmtLeave")
    /\ nmt' = [nmt EXCEPT !.st = Asked, !.timer = HbTime]
    /\ loc' = [loc EXCEPT !.pc = "hb", !.ret = nmt.reset]
    /\ UNCHANGED <<em, hb, odTime, cons, due, can, conf, heard, told, events>>

----------------------------------------------------------------------------
(* CO_HBconsumer_process.  It works with the isOp of the beginning of the  *)
(* call.                                                                   *)

Working == hb[loc.i].st # "unconf"

\* On to the next entry, or to the end.
NextEntry(pc, active, op) ==
    loc' = [loc EXCEPT !.pc = IF loc.i < Entries THEN pc ELSE "hbEnd",
                       !.i = IF loc.i < Entries THEN @ + 1 ELSE @,
                       !.active = @ /\ active, !.op = @ /\ op]

\* The entries are looked at only in the second call in a row that finds the
\* node (pre-)operational; a change clears them.
HbBegin ==
    /\ At("hb")
    /\ loc' = [loc EXCEPT !.i = 1, !.diff = loc.dt,
                          !.pc = CASE loc.isOp /\ cons.prevOp -> "hbRead"
                                   [] loc.isOp # cons.prevOp  -> "hbForget"
                                   [] OTHER                   -> "hbEnd"]
    /\ UNCHANGED <<nmt, em, hb, odTime, cons, due, can, conf, heard, told, events>>

\* The state is cleared before the flag: a heartbeat in between leaves its state.
HbForget ==
    /\ At("hbForget")
    /\ hb' = [hb EXCEPT ![loc.i].nmt = "unknown"]
    /\ Go("hbForget2")
    /\ UNCHANGED <<nmt, em, odTime, cons, due, can, conf, heard, told, events>>

HbForget2 ==
    /\ At("hbForget2")
    /\ hb' = [hb EXCEPT ![loc.i].new = FALSE,
                        ![loc.i].st = IF @ = "unconf" THEN @ ELSE "unknown",
                        ![loc.i].timer = 0]
    /\ NextEntry("hbForget", FALSE, FALSE)
    /\ UNCHANGED <<nmt, em, odTime, cons, due, can, conf, heard, told, events>>

\* A new message: a boot-up message tells that the remote node was reset.
HbRead ==
    /\ At("hbRead") /\ Working /\ hb[loc.i].new
    /\ IF hb[loc.i].nmt = "init"
       THEN /\ hb' = [hb EXCEPT ![loc.i].st = "unknown", ![loc.i].timer = 0]
            /\ em' = IF hb[loc.i].st = "active" THEN ErrorReport(em, "hbReset") ELSE em
            /\ loc' = [loc EXCEPT !.pc = "hbClear", !.diff = loc.dt]
       ELSE /\ hb' = [hb EXCEPT ![loc.i].st = "active", ![loc.i].timer = 0]
            /\ loc' = [loc EXCEPT !.pc = "hbClear", !.diff = 0]
            /\ UNCHANGED em
    /\ UNCHANGED <<nmt, odTime, cons, due, can, conf, heard, told, events>>

\* The flag is cleared after the state was read: a message in between is lost.
HbClear ==
    /\ At("hbClear")
    /\ hb' = [hb EXCEPT ![loc.i].new = FALSE]
    /\ Go("hbTimer")
    /\ UNCHANGED <<nmt, em, odTime, cons, due, can, conf, heard, told, events>>

HbNone ==
    /\ At("hbRead") /\ Working /\ ~hb[loc.i].new
    /\ loc' = [loc EXCEPT !.pc = "hbTimer", !.diff = loc.dt]
    /\ UNCHANGED <<nmt, em, hb, odTime, cons, due, can, conf, heard, told, events>>

HbSkip ==
    /\ At("hbRead") /\ ~Working
    /\ NextEntry("hbRead", TRUE, TRUE)
    /\ UNCHANGED <<nmt, em, hb, odTime, cons, due, can, conf, heard, told, events>>

\* Variant: the timer is set where it should be advanced.
Advanced_Set(t) == Capped(loc.diff, ConsTime)

Advanced(t) == Capped(t + loc.diff, ConsTime)

HbTimer ==
    /\ At("hbTimer")
    /\ LET n    == hb[loc.i]
           t    == Advanced(n.timer)
           late == n.st = "active" /\ t >= ConsTime
           n1   == CASE late -> [n EXCEPT !.timer = 0, !.nmt = "unknown", !.st = "timeout"]
                     [] n.st = "active" /\ ~late -> [n EXCEPT !.timer = t]
                     [] OTHER -> n
       IN  /\ hb' = [hb EXCEPT ![loc.i] = n1]
           /\ em' = IF late THEN ErrorReport(em, "hbTimeout") ELSE em
           /\ NextEntry("hbRead", n1.st = "active", n1.nmt = "op")
    /\ UNCHANGED <<nmt, odTime, cons, due, can, conf, heard, told, events>>

\* Variant: only one of the two alarms is reset.
AllBack_One(e) == ErrorReset(e, "hbTimeout")

AllBack(e) == ErrorReset(ErrorReset(e, "hbTimeout"), "hbReset")

\* The two alarms, which all entries share, are reset when all are active.
HbEnd ==
    /\ At("hbEnd")
    /\ em' = IF ~cons.active /\ loc.active THEN AllBack(em) ELSE em
    /\ cons' = [active |-> loc.active, op |-> loc.op, prevOp |-> loc.isOp]
    /\ Go("idle")
    /\ UNCHANGED <<nmt, hb, odTime, due, can, conf, heard, told, events>>

----------------------------------------------------------------------------
Process ==
    \/ Begin \/ Reinit \/ EmFollow \/ EmProcess
    \/ NmtTest \/ NmtSend \/ NmtBoot \/ NmtPrev \/ NmtError \/ NmtLeave
    \/ HbBegin \/ HbForget \/ HbForget2 \/ HbRead \/ HbClear \/ HbNone \/ HbSkip
    \/ HbTimer \/ HbEnd

Next ==
    \/ Process \/ Tick
    \/ \E c \in {CanErrors[k] : k \in DOMAIN CanErrors} : DriverError(c)
    \/ \E cmd \in Commands : NmtReceive(cmd) \/ NmtSendCommand(cmd)
    \/ \E i \in Idx, s \in Remote : HbReceive(i, s)
    \/ \E i \in Idx, n \in Nodes \cup {0}, t \in {0, ConsTime} :
         Reconfigure(i, [node |-> n, time |-> t])

\* CO_process is called again and again, and time passes between the calls.
Spec == Init /\ [][Next]_vars /\ WF_vars(Process) /\ SF_vars(Tick)

----------------------------------------------------------------------------
(* Properties.                                                             *)

NmtStates == {"init", "pre", "op", "stop"}
HbStates == {"unconf", "unknown", "active", "timeout"}
HbPart == {"hb", "hbForget", "hbForget2", "hbRead", "hbClear", "hbTimer", "hbEnd"}
Ids == Nodes \cup Idx \cup {0}

NmtType == [st: NmtStates, prev: NmtStates, timer: 0 .. HbTime, reset: {"no", "reset"}]
HbEntry == [node: Ids, time: {0, ConsTime}, nmt: Remote \cup {"unknown"}, new: BOOLEAN,
            timer: 0 .. ConsTime, st: HbStates]
LocType == [pc: NmtSteps \cup HbPart \cup {"emCan"}, i: Nat, isOp: BOOLEAN, dt: Nat,
            diff: Nat, active: BOOLEAN, op: BOOLEAN, ret: {"no", "reset"}]
HeardType == [bits: SUBSET Bits, warned: BOOLEAN]

EmMessage == [bit: Bits, on: BOOLEAN]
EmType == [bits: SUBSET Bits, reg: SUBSET {GroupOf[b] : b \in Bits},
           queue: Seq(EmMessage), full: 0 .. 2, inh: Nat, can: SUBSET Bits]

\* The ring of messages is marked full exactly when it is.
EmOK(e) ==
    e \in EmType /\ Len(e.queue) <= EmSlots /\ (e.full # 0 <=> Len(e.queue) = EmSlots)

\* Type correctness of the node.
NodeTypeOK ==
    /\ nmt \in NmtType /\ EmOK(em)
    /\ hb \in [Idx -> HbEntry] /\ odTime \in [Idx -> [node: Ids, time: {0, ConsTime}]]
    /\ cons \in [active: BOOLEAN, op: BOOLEAN, prevOp: BOOLEAN]
    /\ loc \in LocType
    /\ loc.i \in (IF loc.pc = "emCan" THEN DOMAIN CanErrors ELSE Idx)
    /\ due \in 0 .. MaxDue /\ can \subseteq Bits /\ conf \in Configs
    /\ heard \in HeardType
    /\ events \in 0 .. conf.max

\* CO_NMT_process does not leave a node operational with a communication error
\* that errorBehavior[1] wants to be answered, and no command that arrives in
\* the meantime can bring it back.
ErrorLeavesOperational ==
    (loc.pc \in HbSteps /\ "comm" \in em.reg /\ conf.eb[1] = 0) => nmt.st # "op"

\* The entries share the two alarms of CO_HBconsumer_process: while one entry has
\* timed out the alarm is set, whatever the other entries do, and while an alarm
\* is set the consumer does not say that all nodes are active.
AlarmsTell ==
    loc.pc = "idle" =>
        /\ (\E i \in Idx : hb[i].st = "timeout") => "hbTimeout" \in em.bits
        /\ em.bits \cap HbAlarms # {} => ~cons.active

\* No two entries watch the same node (CO_HBconsumer_initEntry: "there must not
\* be more entries with same index").
OneEntryPerNode ==
    \A i, j \in Idx : (i # j /\ hb[i].st # "unconf" /\ hb[j].st # "unconf")
                         => hb[i].node # hb[j].node

\* The bits after the messages of a queue: the last one about a bit counts.
About(queue, b) == {k \in DOMAIN queue : queue[k].bit = b}
After(bits, queue) ==
    {b \in Bits : IF About(queue, b) = {} THEN b \in bits
                  ELSE \E k \in About(queue, b) :
                          queue[k].on /\ \A j \in About(queue, b) : j <= k}

\* Who listens to the emergency messages, and hears those that wait as well,
\* knows the error bits of the node, or is told that messages were dropped.
ListenerKnows ==
    \/ After(heard.bits, em.queue) = em.bits
    \/ heard.warned \/ em.full = 2 \/ About(em.queue, "emFull") # {}

\* CO_NMT_process does not leave the network with an old state of the node: the
\* state that the last heartbeat told is again and again the one the node is in.
StateAnnounced == []<>(told = nmt.st)

\* An active node that falls silent is found out: no entry of the consumer stays
\* active for ever without a message.
SilenceDetected == \A i \in Idx : []<>~(hb[i].st = "active" /\ ~hb[i].new)

\* CO_HBconsumer.h says of allMonitoredActive: "True, if all monitored nodes are
\* active or no node is monitored."
AllActive ==
    (loc.pc = "idle" /\ cons.active) => \A i \in Idx : hb[i].st \in {"active", "unconf"}

----------------------------------------------------------------------------
(* The inductive invariants behind the properties.                         *)

\* The entries are those of the object dictionary, which are in use once.
EntriesInv ==
    /\ \A i \in Idx : /\ hb[i].node = odTime[i].node
                      /\ hb[i].st = "unconf" <=> ~Used(odTime[i])
    /\ \A i, j \in Idx : i # j /\ Used(odTime[i]) /\ Used(odTime[j])
                            => odTime[i].node # odTime[j].node

\* From the end of CO_NMT_process to the next look at the errors.
StateInv ==
    (loc.pc \in HbPart \cup {"idle"} /\ "comm" \in em.reg /\ conf.eb[1] = 0) => nmt.st # "op"

NoTimeout(S) == \A i \in S : hb[i].st # "timeout"

\* What CO_HBconsumer_process knows on its way through the entries.
AlarmInv ==
    /\ \A i \in Idx : hb[i].st = "timeout" => "hbTimeout" \in em.bits
    /\ loc.pc = "idle" /\ cons.active => loc.active
    /\ (/\ cons.active /\ loc.active
        /\ loc.pc \in {"hbClear", "hbTimer"} => hb[loc.i].st = "active")
       => em.bits \cap HbAlarms = {}
    /\ loc.pc \in {"hbRead", "hbClear", "hbTimer"} => cons.prevOp /\ loc.isOp
    /\ ~cons.prevOp => NoTimeout(Idx)
    /\ loc.pc \in {"hbForget", "hbForget2"} => NoTimeout(1 .. loc.i - 1)
    /\ loc.pc \in {"hbRead", "hbClear", "hbTimer"} /\ loc.active => NoTimeout(1 .. loc.i - 1)
    /\ loc.pc = "hbEnd" /\ (loc.active \/ ~loc.isOp) => NoTimeout(Idx)

\* A listener is told of dropped messages before the bit can be set.
Warned(e, h) == h.warned \/ About(e.queue, "emFull") # {}
Informed(e, h) ==
    /\ After(h.bits, e.queue) = e.bits \/ Warned(e, h) \/ e.full = 2
    /\ "emFull" \in e.bits => Warned(e, h)
ListenInv == Informed(em, heard)
=============================================================================
