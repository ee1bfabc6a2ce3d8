------------------------------ MODULE LssSlave ------------------------------
(***************************************************************************)
(* The LSS slave of CANopenNode (305/CO_LSSslave.c): one record per slave  *)
(* and one operator per routine.  CO_LSSslave_receive() is the callback of *)
(* the CAN driver, CO_LSSslave_process() is called from CO_process() in    *)
(* the main task; the flag sendResponse hands a request from the first to  *)
(* the second, and while it is set the callback drops every frame.         *)
(*                                                                         *)
(* A frame of the master is a record [cs, val, bit, sub, next]; a frame of *)
(* a slave is a record [cs, val].  The 32 bits of a part of an LSS address *)
(* are Bits bits here.                                                     *)
(***************************************************************************)
EXTENDS Naturals, Sequences, FiniteSets

CONSTANTS Bits,        \* width of one part of an LSS address (32 in the code)
          Unassigned   \* CO_LSS_NODE_ID_ASSIGNMENT

Parts == 0..3          \* vendor, product, revision, serial number
Confirm == 128         \* CO_LSS_FASTSCAN_CONFIRM
ToWaiting == 0         \* modes of the global switch
ToConfiguration == 1
PartValues == 0..(2 ^ Bits - 1)
Addresses == [Parts -> PartValues]
NoAddress == [p \in Parts |-> 0]

Frame(cs, val, bit, sub, next) ==
  [cs |-> cs, val |-> val, bit |-> bit, sub |-> sub, next |-> next]
Plain(cs, val) == Frame(cs, val, 0, 0, 0)
SelectCs == [p \in Parts |-> <<"vendor", "product", "revision", "serial">>[p + 1]]

(* CO_LSSslave_init(): what the node identifier in use is read from the    *)
(* application's pendingNodeID.                                            *)
LSSslave_init(nodeId, persistent) ==
  [state |-> "waiting", select |-> NoAddress, pos |-> 0,
   active |-> nodeId, pending |-> nodeId, stored |-> persistent,
   service |-> Plain("none", 0), rsp |-> "clear"]

(* fastscan is only active on unconfigured nodes                           *)
Unconfigured(s) == s.pending = Unassigned /\ s.active = Unassigned

(* (lssAddress.addr[lssSub] & mask) == (idNumber & mask)                   *)
MaskedEqual(addr, m) == addr[m.sub] \div 2 ^ m.bit = m.val \div 2 ^ m.bit

FastscanAcks(s, addr, m) ==
  /\ s.rsp = "clear" /\ s.state = "waiting" /\ m.cs = "fastscan"
  /\ Unconfigured(s)
  /\ m.bit = Confirm \/ (s.pos = m.sub /\ MaskedEqual(addr, m))

(* A frame is left to CO_LSSslave_process().                               *)
Requested(s, m) == [s EXCEPT !.service = m, !.rsp = "set"]

ReceiveGlobal(s, m) ==
  IF m.val = ToConfiguration THEN [s EXCEPT !.state = "config"]
  ELSE LET w == [s EXCEPT !.state = "waiting", !.select = NoAddress]
       IN IF s.state = "config" /\ s.active = Unassigned /\ s.pending # Unassigned
          THEN Requested(w, m) ELSE w

ReceiveSelect(s, addr, m) ==
  LET sel == [s EXCEPT !.select[m.sub] = m.val]
  IN IF m.cs = "serial" /\ sel.select = addr
     THEN Requested([sel EXCEPT !.state = "config"], m) ELSE sel

(* A plausible mistake: one that does not take part moves on all the same. *)
ReceiveFastscan_Any(s, addr, m) ==
  IF ~Unconfigured(s) THEN s
  ELSE IF m.bit = Confirm THEN [s EXCEPT !.pos = 0]
  ELSE [s EXCEPT !.pos = m.next,
                 !.state = IF m.bit = 0 /\ m.next < m.sub THEN "config" ELSE @]

ReceiveFastscan(s, addr, m) ==
  IF ~FastscanAcks(s, addr, m) THEN s
  ELSE IF m.bit = Confirm THEN [s EXCEPT !.pos = 0]
  ELSE [s EXCEPT !.pos = m.next,
                 !.state = IF m.bit = 0 /\ m.next < m.sub THEN "config" ELSE @]

(* CO_LSSslave_receive()                                                   *)
LSSslave_receive(s, addr, m) ==
  IF s.rsp # "clear" THEN s
  ELSE IF m.cs = "glob" THEN ReceiveGlobal(s, m)
  ELSE IF s.state = "config" THEN Requested(s, m)
  ELSE IF m.cs = "fastscan" THEN ReceiveFastscan(s, addr, m)
  ELSE IF m.cs \in {"vendor", "product", "revision", "serial"}
       THEN ReceiveSelect(s, addr, m)
  ELSE s

(* CO_LSSslave_process() up to CO_CANsend(): what the request changes ...  *)
LSSslave_process(s, canStore) ==
  LET d == [s EXCEPT !.rsp = "sent"]
  IN CASE s.service.cs = "node" -> [d EXCEPT !.pending = s.service.val]
       [] s.service.cs = "store" /\ canStore -> [d EXCEPT !.stored = s.pending]
       [] OTHER -> d

(* ... and the frames it answers with.                                     *)
Answer(s, addr, canStore) ==
  LET cs == s.service.cs IN
  CASE cs = "serial" -> <<[cs |-> "selected", val |-> 0]>>
    [] cs = "node" -> <<[cs |-> "node", val |-> 0]>>
    [] cs = "store" -> <<[cs |-> "store", val |-> IF canStore THEN 0 ELSE 1]>>
    [] cs = "ask" -> <<[cs |-> "ask", val |-> addr[s.service.sub]]>>
    [] cs = "asknode" -> <<[cs |-> "asknode", val |-> s.active]>>
    [] cs = "fastscan" -> <<[cs |-> "ident", val |-> 0]>>
    [] OTHER -> <<>>

(* resetCommunication of CO_LSSslave_process(): the node identifier was    *)
(* unconfigured before and is configured now.                              *)
ResetsCommunication(s) == s.rsp = "set" /\ s.service.cs = "glob"
=============================================================================
