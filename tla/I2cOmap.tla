------------------------------ MODULE I2cOmap -------------------------------
(***************************************************************************)
(* Transfers of the OMAP I2C driver (drivers/i2c/i2c-omap.c): the task that *)
(* calls dm_i2c_xfer() and holds the lock of the bus, omap_i2c_isr() in the *)
(* interrupt server task, the completion between the two                    *)
(* (include/linux/completion.h), and the controller.                        *)
(*                                                                          *)
(* The controller is modelled as the driver uses it: a message is started,  *)
(* bytes pass through a FIFO, status bits ask for service, and at any time  *)
(* the slave may refuse, arbitration may be lost or nothing more may        *)
(* happen.  Bytes are counted, not named.                                   *)
(***************************************************************************)
EXTENDS Integers, Sequences, FiniteSets

CONSTANTS
  Task,       \* tasks that use the bus
  NoTask,     \* nobody holds the lock
  Transfers,  \* the lists of messages a task may transfer
  Fifo,       \* omap->fifo_size; 0 where the controller has no FIFO
  WorkLimit,  \* rounds omap_i2c_xfer_data() makes at most (100 in the code)
  BadStart    \* omap->b_hw: start and stop are not written together

(* struct i2c_msg: the direction, the length (an unsigned int) and two of   *)
(* the flags.                                                               *)
Message == [rd: BOOLEAN, len: Nat, ignoreNak: BOOLEAN, stop: BOOLEAN]

U8 == 256
U16 == 65536

(* fifo_size is a u8; a transfer has at least one message.                  *)
ASSUME I2cAssumption ==
  /\ NoTask \notin Task
  /\ \A ms \in Transfers : ms \in Seq(Message) /\ ms # <<>>
  /\ Fifo \in 0 .. U8 - 1 /\ WorkLimit \in Nat
  /\ BadStart \in BOOLEAN

VARIABLES
  owner,    \* holder of i2c->lock
  pc,       \* where the owner is in omap_i2c_xfer()
  todo,     \* messages left, the current one first
  result,   \* what omap_i2c_xfer() is about to return, while pc is "end"
  event,    \* tasks with a pending transient event
  holder,   \* cmd_complete.holder
  receiver, threshold, bufLen, cmdErr,   \* fields of omap
  hw,       \* the message in the controller: running, direction, bytes left,
            \* bytes in the FIFO
  stat,     \* the status register
  srv,      \* the interrupt server: idle, request queued, about to read the
            \* status, status read
  seen,     \* stat in omap_i2c_xfer_data()
  work,     \* count in omap_i2c_xfer_data()
  clean,    \* history: when the current message was set up nothing of an
            \* earlier one was left, and its completion is not a premature one
  given     \* history: a wait was given up, or a completion premature

taskVars == <<owner, pc, todo, result>>
omapVars == <<receiver, threshold, bufLen, cmdErr, holder>>
srvVars == <<srv, seen, work>>
history == <<clean, given>>
vars == <<owner, pc, todo, result, event, holder, receiver, threshold, bufLen,
          cmdErr, hw, stat, srv, seen, work, clean, given>>

Error == {"NACK", "AL"}
Data == {"RRDY", "RDR", "XRDY", "XDR"}
Stat == Error \cup Data \cup {"ARDY"}
Result == {"OK", "ETIMEDOUT", "EAGAIN", "EREMOTEIO"}

TypeOK ==
  /\ owner \in Task \cup {NoTask} /\ todo \in Seq(Message)
  /\ pc \in {"idle", "bus", "prepare", "start", "started", "wait", "check",
             "reset", "end"}
  /\ result \in Result
  /\ event \subseteq Task /\ holder \in Task
  /\ receiver \in BOOLEAN /\ threshold \in Nat
  /\ bufLen \in Int /\ cmdErr \subseteq Error
  /\ hw \in [on: BOOLEAN, rd: BOOLEAN, left: Nat, fifo: Nat]
  /\ stat \subseteq Stat
  /\ srv \in {"idle", "queued", "look", "act"}
  /\ seen \subseteq Stat /\ work \in 0..WorkLimit
  /\ clean \in BOOLEAN /\ given \in BOOLEAN

NoMsg == [on |-> FALSE, rd |-> FALSE, left |-> 0, fifo |-> 0]

Init ==
  /\ owner = NoTask /\ pc = "idle" /\ todo = <<>> /\ result = "OK"
  /\ event = {} /\ holder \in Task
  /\ receiver = FALSE /\ threshold = 0 /\ bufLen = 0 /\ cmdErr = {}
  /\ hw = NoMsg /\ stat = {}
  /\ srv = "idle" /\ seen = {} /\ work = 0
  /\ clean = TRUE /\ given = FALSE

-----------------------------------------------------------------------------
(* The transfer, in the task that holds the lock *)

At(p) == pc = p
Goto(p) == pc' = p /\ UNCHANGED <<owner, todo, result>>
End(r) == pc' = "end" /\ result' = r /\ UNCHANGED <<owner, todo>>

(* dm_i2c_xfer() takes the lock and calls omap_i2c_xfer().                  *)
Lock(t, ms) ==
  /\ At("idle")
  /\ owner' = t /\ pc' = "bus" /\ todo' = ms
  /\ UNCHANGED <<result, event, omapVars, hw, stat, srvVars, history>>

Unlock ==
  /\ pc' = "idle" /\ owner' = NoTask /\ todo' = <<>> /\ result' = "OK"

(* omap_i2c_wait_for_bb_valid() and omap_i2c_wait_for_bb(): the bus becomes *)
(* free or looks free after the timeout, or it is given up.                 *)
BusFree ==
  /\ At("bus") /\ Goto("prepare")
  /\ UNCHANGED <<event, omapVars, hw, stat, srvVars, history>>

BusStuck ==
  /\ At("bus") /\ Unlock
  /\ UNCHANGED <<event, omapVars, hw, stat, srvVars, history>>

(* omap_i2c_resize_fifo(): clamp(size, 1, omap->fifo_size), left alone      *)
(* where there is no FIFO.  The size is handed over as a u8.                *)
Threshold(len) ==
  LET size == len % U8 IN
  IF Fifo = 0 THEN threshold
  ELSE IF size < 1 THEN 1 ELSE IF size > Fifo THEN Fifo ELSE size

NothingLeft == owner \notin event /\ stat = {} /\ srv = "idle" /\ ~hw.on

(* Variant: reinit_completion() is forgotten.                               *)
Prepare_OldHolder ==
  /\ At("prepare") /\ Goto("start")
  /\ receiver' = Head(todo).rd
  /\ threshold' = Threshold(Head(todo).len)
  /\ bufLen' = Head(todo).len
  /\ hw' = [hw EXCEPT !.fifo = 0]
  /\ cmdErr' = {}
  /\ clean' = NothingLeft
  /\ UNCHANGED <<event, holder, stat, srvVars, given>>

(* omap_i2c_xfer_msg() up to the start condition.  reinit_completion()      *)
(* names the holder and nothing more: a pending event stays pending.        *)
Prepare ==
  /\ At("prepare") /\ Goto("start")
  /\ receiver' = Head(todo).rd
  /\ threshold' = Threshold(Head(todo).len)
  /\ bufLen' = Head(todo).len
  /\ hw' = [hw EXCEPT !.fifo = 0]
  /\ holder' = owner
  /\ cmdErr' = {}
  /\ clean' = NothingLeft
  /\ UNCHANGED <<event, stat, srvVars, given>>

Stop == Len(todo) = 1 \/ Head(todo).stop

(* The count register has 16 bits.                                          *)
Count(len) == len % U16

(* The write to I2C_CON with STT; on some hardware the stop condition of    *)
(* the last message has to wait until the start is through.                 *)
Start ==
  /\ At("start")
  /\ Goto(IF BadStart /\ Stop THEN "started" ELSE "wait")
  /\ hw' = [on |-> TRUE, rd |-> Head(todo).rd, left |-> Count(Head(todo).len),
            fifo |-> 0]
  /\ UNCHANGED <<event, omapVars, stat, srvVars, history>>

Started ==
  /\ At("started") /\ Goto("wait")
  /\ UNCHANGED <<event, omapVars, hw, stat, srvVars, history>>

(* The start condition never finishes: omap_i2c_xfer_msg() returns and      *)
(* leaves the controller as it is.                                          *)
StartTimeout ==
  /\ At("started") /\ End("ETIMEDOUT")
  /\ given' = TRUE
  /\ UNCHANGED <<event, omapVars, hw, stat, srvVars, clean>>

(* wait_for_completion_timeout(): the event arrives; it arrives so late     *)
(* that no tick of the timeout is left, which reads as 0; it does not       *)
(* arrive in time.                                                          *)
WaitDone ==
  /\ At("wait") /\ owner \in event
  /\ event' = event \ {owner}
  /\ Goto("check")
  /\ UNCHANGED <<omapVars, hw, stat, srvVars, history>>

WaitLastTick ==
  /\ At("wait") /\ owner \in event
  /\ event' = event \ {owner}
  /\ Goto("reset")
  /\ given' = TRUE
  /\ UNCHANGED <<omapVars, hw, stat, srvVars, clean>>

(* Variant: the wait is taken up again after the timeout.                   *)
WaitTimeout_Again ==
  /\ At("wait") /\ owner \notin event
  /\ UNCHANGED vars

WaitTimeout ==
  /\ At("wait") /\ owner \notin event
  /\ Goto("reset")
  /\ given' = TRUE
  /\ UNCHANGED <<event, omapVars, hw, stat, srvVars, clean>>

(* Variant: the controller is not reset after a timeout.                    *)
Reset_Omitted ==
  /\ At("reset") /\ End("ETIMEDOUT")
  /\ UNCHANGED <<event, omapVars, hw, stat, srvVars, history>>

(* omap_i2c_reset(), which may time out before the status is cleared, and   *)
(* __omap_i2c_init(), which disables and enables the controller.            *)
Reset ==
  /\ At("reset") /\ End("ETIMEDOUT")
  /\ hw' = NoMsg /\ stat' \in {{}, stat}
  /\ UNCHANGED <<event, omapVars, srvVars, history>>

(* The end of omap_i2c_xfer_msg(), and the loop over the messages.          *)
Ignored == cmdErr = {"NACK"} /\ Head(todo).ignoreNak

CheckOk ==
  /\ At("check") /\ (cmdErr = {} \/ Ignored)
  /\ todo' = Tail(todo)
  /\ pc' = (IF Len(todo) = 1 THEN "end" ELSE "prepare")
  /\ UNCHANGED <<owner, result, event, omapVars, hw, stat, srvVars, history>>

CheckLost ==
  /\ At("check") /\ "AL" \in cmdErr /\ End("EAGAIN")
  /\ UNCHANGED <<event, omapVars, hw, stat, srvVars, history>>

CheckNack ==
  /\ At("check") /\ cmdErr = {"NACK"} /\ ~Ignored /\ End("EREMOTEIO")
  /\ hw' = [hw EXCEPT !.on = FALSE]
  /\ UNCHANGED <<event, omapVars, stat, srvVars, history>>

(* The last omap_i2c_wait_for_bb(), whose result is not looked at, and the  *)
(* unlock.                                                                  *)
Finish ==
  /\ At("end") /\ Unlock
  /\ UNCHANGED <<event, omapVars, hw, stat, srvVars, history>>

TaskStep ==
  \/ \E t \in Task, ms \in Transfers : Lock(t, ms)
  \/ BusFree \/ BusStuck \/ Prepare \/ Start \/ Started \/ StartTimeout
  \/ WaitDone \/ WaitLastTick \/ WaitTimeout \/ Reset
  \/ CheckOk \/ CheckLost \/ CheckNack \/ Finish

-----------------------------------------------------------------------------
(* The controller *)

Level == IF threshold = 0 THEN 1 ELSE threshold
Unloaded == hw.left - hw.fifo

(* A byte passes between the bus and the FIFO.                              *)
HwByte ==
  /\ hw.on
  /\ \/ /\ hw.rd /\ hw.left > 0
        /\ hw' = [hw EXCEPT !.left = @ - 1, !.fifo = @ + 1]
     \/ /\ ~hw.rd /\ hw.fifo > 0
        /\ hw' = [hw EXCEPT !.left = @ - 1, !.fifo = @ - 1]
  /\ UNCHANGED <<taskVars, event, omapVars, stat, srvVars, history>>

Raised(b) ==
  /\ hw.on /\ b \notin stat
  /\ \/ b = "RRDY" /\ hw.rd /\ hw.fifo >= Level
     \/ b = "RDR" /\ Fifo > 0 /\ hw.rd /\ hw.left = 0 /\ hw.fifo \in 1 .. Level - 1
     \/ b = "XRDY" /\ ~hw.rd /\ hw.fifo = 0 /\ Unloaded >= Level
     \/ b = "XDR" /\ Fifo > 0 /\ ~hw.rd /\ hw.fifo = 0 /\ Unloaded \in 1 .. Level - 1
     \/ b = "ARDY" /\ hw.left = 0 /\ hw.fifo = 0
     \/ b \in Error

(* A status bit is set; a message that is through, refused or lost is over. *)
HwStat(b) ==
  /\ Raised(b)
  /\ stat' = stat \cup {b}
  /\ hw' = [hw EXCEPT !.on = (b \in Data)]
  /\ UNCHANGED <<taskVars, event, omapVars, srvVars, history>>

-----------------------------------------------------------------------------
(* The interrupt: omap_i2c_isr() and omap_i2c_xfer_data() in the server.    *)
(* The vector is disabled from the interrupt until the handler returns.     *)

Submit ==
  /\ srv = "idle" /\ stat # {}
  /\ srv' = "queued"
  /\ UNCHANGED <<taskVars, event, omapVars, hw, stat, seen, work, history>>

(* omap_i2c_isr() looks whether there is anything to do.                    *)
Isr ==
  /\ srv = "queued"
  /\ srv' = (IF stat = {} THEN "idle" ELSE "look")
  /\ work' = 0
  /\ UNCHANGED <<taskVars, event, omapVars, hw, stat, seen, history>>

(* The head of the loop: the status is read and the bits of the other       *)
(* direction are ignored.                                                   *)
Ignore == IF receiver THEN {"XRDY", "XDR"} ELSE {"RRDY", "RDR"}

Look ==
  /\ srv = "look"
  /\ seen' = stat \ Ignore
  /\ srv' = (IF seen' = {} THEN "idle" ELSE "act")
  /\ UNCHANGED <<taskVars, event, omapVars, hw, stat, work, history>>

(* The handler returns anything but -EAGAIN: omap_i2c_complete_cmd().       *)
Complete(err) ==
  /\ cmdErr' = cmdErr \cup err
  /\ event' = event \cup {holder}
  /\ srv' = "idle" /\ seen' = {} /\ work' = 0
  /\ UNCHANGED <<taskVars, hw, receiver, threshold, bufLen, holder>>

TooMuchWork ==
  /\ srv = "act" /\ work = WorkLimit
  /\ Complete({})
  /\ clean' = FALSE /\ given' = TRUE
  /\ UNCHANGED stat

Over == seen \cap (Error \cup {"ARDY"}) # {}

(* Variant: the error bits are not handed on.                               *)
MessageOver_NoError ==
  /\ srv = "act" /\ work < WorkLimit /\ Over
  /\ Complete({})
  /\ stat' = stat \ (seen \cup Data \cup {"ARDY"})
  /\ UNCHANGED history

(* Variant: the data bits are not acknowledged at the end of a message.     *)
MessageOver_KeepsData ==
  /\ srv = "act" /\ work < WorkLimit /\ Over
  /\ Complete(seen \cap Error)
  /\ stat' = stat \ (Error \cup {"ARDY"})
  /\ UNCHANGED history

(* Refused, lost or through: all data bits are acknowledged with it.        *)
MessageOver ==
  /\ srv = "act" /\ work < WorkLimit /\ Over
  /\ Complete(seen \cap Error)
  /\ stat' = stat \ (seen \cup Data \cup {"ARDY"})
  /\ UNCHANGED history

(* The bit that is served in this round, and how many bytes it stands for.  *)
Drain == {"RDR", "XDR"}
Served == CHOOSE b \in seen : b \in Drain \/ seen \cap Drain = {}

(* Variant: the threshold also when the FIFO is drained.                    *)
NumBytes_Threshold(b) == Level

(* num_bytes is a u8.                                                       *)
NumBytes(b) == IF b \in Drain THEN bufLen % U8 ELSE Level

Least(m, n) == IF m < n THEN m ELSE n

(* omap_i2c_receive_data() and omap_i2c_transmit_data(), then the           *)
(* acknowledgement and the next round.                                      *)
Move ==
  /\ srv = "act" /\ work < WorkLimit /\ ~Over
  /\ LET n == NumBytes(Served) IN
     /\ bufLen' = bufLen - n
     /\ hw' = [hw EXCEPT !.fifo = IF receiver THEN @ - Least(@, n)
                                  ELSE Least(hw.left, @ + n)]
  /\ stat' = stat \ {Served}
  /\ srv' = "look" /\ seen' = {} /\ work' = work + 1
  /\ UNCHANGED <<taskVars, event, receiver, threshold, cmdErr, holder, history>>

Controller == HwByte \/ \E b \in Stat : HwStat(b)
Server == Submit \/ Isr \/ Look \/ TooMuchWork \/ MessageOver \/ Move

Next == TaskStep \/ Controller \/ Server

(* The transfer goes on whenever it can and the server runs; the controller *)
(* and the slave promise nothing.                                           *)
Transfer == TaskStep /\ pc # "idle"
Spec == Init /\ [][Next]_vars /\ WF_vars(Transfer) /\ WF_vars(Server)

-----------------------------------------------------------------------------
(* Properties *)

Success == pc = "check" /\ cmdErr = {}

(* A message that was started when nothing of an earlier one was left       *)
(* (no event pending, no status bit, the server idle) and that              *)
(* omap_i2c_xfer_msg() is about to report as done has moved all its bytes,  *)
(* and the controller is through with it.                                   *)
DoneWhenClean == Success /\ clean => bufLen = 0 /\ ~hw.on /\ hw.left = 0

(* As long as no wait was given up and the handler never stopped for too    *)
(* much work, every message is started with nothing of an earlier one left: *)
(* acknowledging all data bits at the end of a message, and completing it   *)
(* once, is enough.                                                         *)
CleanUnlessGivenUp == pc = "wait" /\ ~given => clean

(* Under the same condition only the task that holds the lock is ever sent  *)
(* an event: the completion of the bus is addressed anew by                 *)
(* reinit_completion() for every message.                                   *)
OnlyOwnerWoken == ~given => event \subseteq {owner}

(* The handler never moves more bytes than the buffer of a cleanly started  *)
(* message has.                                                             *)
InBuffer == clean => bufLen >= 0

(* When dm_i2c_xfer() has returned, no message is left running in the       *)
(* controller (one that could still ask the handler to move bytes to or     *)
(* from a buffer the caller has given up): a wait that is given up ends     *)
(* with the reset.                                                          *)
QuietWhenIdle == pc = "idle" /\ clean => ~hw.on

(* dm_i2c_xfer() returns, whatever the controller and the slave do.         *)
TransferEnds == pc # "idle" ~> pc = "idle"

(* A message that is reported as done has moved all its bytes, whatever     *)
(* happened to earlier ones: reinit_completion() makes the completion fit   *)
(* for reuse.                                                               *)
SuccessMeansDone == Success => bufLen = 0 /\ ~hw.on

-----------------------------------------------------------------------------
(* The inductive invariants behind these properties *)

(* Nothing of a message is left in the controller or in the server.         *)
Settled == stat = {} /\ srv = "idle" /\ ~hw.on

(* The bits that end a message.                                             *)
Final == Error \cup {"ARDY"}

Between == {"idle", "bus", "prepare", "end"}
Running == {"started", "wait"}

(* What the program counter, the completion and the two history flags say   *)
(* of the controller and of the server.  A clean message that runs is over  *)
(* in the controller before the handler sees a final bit, no bit can be set *)
(* after that, and the handler acknowledges all it saw.                     *)
OrderInv ==
  /\ pc # "idle" => owner \in Task
  /\ pc \notin {"idle", "bus", "end"} => todo # <<>>
  /\ pc \notin Between => holder = owner
  /\ pc = "bus" => todo # <<>>
  /\ srv = "act" <=> seen # {}
  /\ ~hw.rd => hw.fifo <= hw.left
  /\ pc = "started" => BadStart
  /\ pc = "reset" => given
  /\ ~given =>
       /\ clean /\ event \subseteq {owner}
       /\ pc \notin Running => event = {}
       /\ pc \in Between => Settled
  /\ clean =>
       /\ pc = "start" => Settled /\ owner \notin event
       /\ pc = "check" => Settled
       /\ pc \in Between /\ ~BadStart => ~hw.on
       /\ pc \in Running =>
            /\ seen \subseteq stat
            /\ stat \cap Final # {} => ~hw.on
            /\ seen \cap Final # {} => stat \subseteq seen \cup Data
            /\ owner \in event => Settled

(* No message is longer than the count register can say.                    *)
FitsCount == \A ms \in Transfers : \A k \in DOMAIN ms : ms[k].len < U16

(* The bytes of the buffer that the controller does not know of.            *)
Excess == bufLen - (IF hw.rd THEN hw.left + hw.fifo ELSE hw.left - hw.fifo)

(* Apart from those, the bytes the handler still has to move are the ones   *)
(* on the bus side and in the FIFO, and the bits that are set fit the FIFO. *)
Account ==
  /\ receiver = hw.rd /\ seen \subseteq stat
  /\ Excess \in Nat /\ Excess % U16 = 0 /\ (FitsCount => Excess = 0)
  /\ "RRDY" \in stat => hw.rd /\ hw.fifo >= Level
  /\ "RDR" \in stat => hw.rd /\ hw.left = 0 /\ hw.fifo \in 1 .. Level - 1
  /\ "XRDY" \in stat => ~hw.rd /\ hw.fifo = 0 /\ Unloaded >= Level
  /\ "XDR" \in stat => ~hw.rd /\ hw.fifo = 0 /\ Unloaded \in 1 .. Level - 1
  /\ "ARDY" \in stat => hw.left = 0 /\ hw.fifo = 0

(* What remains of it after a reset, which takes the message out of the     *)
(* controller under the hands of the handler: one request at most is left,  *)
(* and the buffer has room for it.                                          *)
AskedBits == (stat \cup seen) \cap Data
Asked ==
  /\ \A a, b \in AskedBits : a = b
  /\ AskedBits \subseteq Drain \/ bufLen >= Level

Through == pc = "check" \/ (pc \in Running /\ owner \in event)

BooksInv ==
  /\ threshold <= Fifo
  /\ FitsCount => \A k \in DOMAIN todo : todo[k].len < U16
  /\ clean =>
       /\ bufLen >= 0 /\ Asked
       /\ pc = "start" => receiver = Head(todo).rd /\ bufLen = Head(todo).len
       /\ hw.on \/ pc \in Running \cup {"check"} => Account
       /\ pc \in Running \cup {"start"} /\ owner \notin event => cmdErr = {}
       /\ Through /\ cmdErr = {} => hw.left = 0 /\ hw.fifo = 0
=============================================================================
