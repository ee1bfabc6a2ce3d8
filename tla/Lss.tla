-------------------------------- MODULE Lss --------------------------------
(***************************************************************************)
(* LSS on one CAN bus: the gateway's LSS commands (309/CO_gateway_ascii.c) *)
(* drive the LSS master, which assigns node identifiers to several LSS     *)
(* slaves.  The bus is external: frames of the master reach all slaves at  *)
(* once (bus), frames of the slaves the master (answers).  Faults, each    *)
(* taken from one budget: a frame is lost, the timeout elapses although an *)
(* answer is still to come, a slave loses its power.                       *)
(***************************************************************************)
EXTENDS LssMaster

CONSTANTS
  Slaves,        \* the slaves on the bus
  AddrOf,        \* their LSS addresses, all different
  FirstIds,      \* their node identifiers at power-up
  CanStore,      \* the slaves with a callback that stores
  LastId,        \* the largest node identifier (127)
  Commands,      \* what the operator types: records with op, nid, store, fsc, to, ask
  MaxCommands,   \* how often
  Careful,       \* TRUE if the operator observes CarefulCommand
  Prompt,        \* TRUE if a slave clears sendResponse before its answer is answered
  FaultKinds,    \* subset of {"request", "answer", "slow", "power"}
  MaxFaults

ASSUME LssAssumption ==
  /\ Bits \in Nat \ {0} /\ LastId \in Nat \ {0} /\ Unassigned \in Nat
  /\ Unassigned > LastId
  /\ AddrOf \in [Slaves -> Addresses] /\ \A s, t \in Slaves : AddrOf[s] = AddrOf[t] => s = t
  /\ FirstIds \in [Slaves -> 1..LastId \cup {Unassigned}]
  /\ MaxCommands \in Nat /\ MaxFaults \in Nat
  /\ Careful \in BOOLEAN /\ Prompt \in BOOLEAN

VARIABLES sl, bus, answers, m, gw, typed, tried, faults
vars == <<sl, bus, answers, m, gw, typed, tried, faults>>

NoScan == [scan |-> [p \in Parts |-> "scan"], match |-> NoAddress, found |-> NoAddress]

Init ==
  /\ sl = [s \in Slaves |-> LSSslave_init(FirstIds[s], FirstIds[s])]
  /\ bus = <<>>
  /\ answers = <<>>
  /\ m = LSSmaster_init
  /\ gw = [state |-> "idle", sub |-> 0, nid |-> 0, count |-> 0, store |-> FALSE,
           fsc |-> NoScan, to |-> NoAddress, ask |-> Plain("ask", 0),
           report |-> "none"]
  /\ typed = 0
  /\ tried = 0
  /\ faults = 0

Send(out) == bus' = bus \o out

---------------------------------------------------------------------------
(* The operator types a command; it is parsed and CO_GTWA_process() goes   *)
(* on with its state.  lss_switch_glob 0 is carried out at once.           *)

(* What an operator who follows the interface's remarks observes: nothing  *)
(* is selected any more after a failure before the next attempt, one       *)
(* selection at a time, and node identifiers above those in use and above  *)
(* the last one that lss_allnodes has tried to assign (tried).             *)
CarefulCommand(c) ==
  /\ gw.report \in {"timeout", "noack", "failed", "rejected", "invalid"} => c.op = "deselect"
  /\ c.op \in {"select", "all"} => m.state = "waiting"
  /\ c.op = "allnodes" =>
       /\ tried < c.nid
       /\ \A s \in Slaves : sl[s].pending # Unassigned => sl[s].pending < c.nid

Command(c) ==
  /\ gw.state = "idle" /\ typed < MaxCommands
  /\ Careful => CarefulCommand(c)
  /\ typed' = typed + 1
  /\ UNCHANGED <<sl, answers, tried, faults>>
  /\ IF c.op = "deselect"
     THEN /\ m' = switchStateDeselect(m).m
          /\ Send(switchStateDeselect(m).out)
          /\ gw' = [gw EXCEPT !.report = "ok"]
     ELSE /\ UNCHANGED <<m, bus>>
          /\ gw' = [gw EXCEPT
               !.state = c.op, !.report = "none", !.sub = 0, !.count = 0,
               !.nid = c.nid, !.store = c.store, !.fsc = c.fsc, !.to = c.to,
               !.ask = c.ask]

(* One pass of the state machine works on w: gateway, master and frames.   *)
After(w, c) == [w EXCEPT !.m = c.m, !.out = @ \o c.out]
Ended(w, report) == [w EXCEPT !.gw.state = "idle", !.gw.report = report]

(* The commands of a single service end with its first final answer.       *)
Single(w, c) ==
  IF c.ret = "wait" THEN After(w, c)
  ELSE Ended(After(w, c), c.ret)

(* lss_allnodes: the four sub-steps, each entered in the same pass as the  *)
(* one before it ended.                                                    *)
SubScan(w, expired) ==
  IF w.gw.sub # 0 THEN w
  ELSE LET c == IdentifyFastscan(w.m, w.gw.fsc, expired)
           v == [After(w, c) EXCEPT !.gw.fsc.found = FoundAfter(w.m, w.gw.fsc, expired)]
       IN CASE c.ret = "wait" -> v
            [] c.ret = "noack" -> Ended(v, "all")
            [] c.ret = "finished" -> [v EXCEPT !.gw.sub = 1]
            [] OTHER -> Ended(v, c.ret)

SubSetNode(w, expired) ==
  IF w.gw.sub # 1 THEN w
  ELSE LET c == configureNodeId(w.m, w.gw.nid, expired)
           v == After(w, c)
       IN CASE c.ret = "wait" -> v
            [] c.ret = "ok" -> [v EXCEPT !.gw.sub = IF w.gw.store THEN 2 ELSE 3]
            [] OTHER -> Ended(v, c.ret)

SubStore(w, expired) ==
  IF w.gw.sub # 2 THEN w
  ELSE LET c == configureStore(w.m, expired)
           v == After(w, c)
       IN CASE c.ret = "wait" -> v
            [] c.ret = "ok" -> [v EXCEPT !.gw.sub = 3]
            [] OTHER -> Ended(v, c.ret)

(* A plausible mistake: the next node gets the same identifier.            *)
SubDeselect_Same(w) ==
  IF w.gw.sub < 3 THEN w
  ELSE LET v == [After(w, switchStateDeselect(w.m)) EXCEPT !.gw.count = @ + 1]
       IN [v EXCEPT !.gw.sub = 0]

SubDeselect(w) ==
  IF w.gw.sub < 3 THEN w
  ELSE LET v == [After(w, switchStateDeselect(w.m)) EXCEPT !.gw.count = @ + 1]
       IN IF w.gw.nid < LastId
          THEN [v EXCEPT !.gw.nid = @ + 1, !.gw.sub = 0]
          ELSE Ended(v, "full")

Pass(w, expired) ==
  CASE w.gw.state = "allnodes" ->
         SubDeselect(SubStore(SubSetNode(SubScan(w, expired), expired), expired))
    [] w.gw.state = "fastscan" ->
         [Single(w, IdentifyFastscan(w.m, w.gw.fsc, expired))
            EXCEPT !.gw.fsc.found = FoundAfter(w.m, w.gw.fsc, expired)]
    [] w.gw.state = "select" -> Single(w, switchStateSelect(w.m, w.gw.to, expired))
    [] w.gw.state = "all" -> Single(w, switchStateSelectAll(w.m))
    [] w.gw.state = "set" -> Single(w, configureNodeId(w.m, w.gw.nid, expired))
    [] w.gw.state = "store" -> Single(w, configureStore(w.m, expired))
    [] w.gw.state = "inquire" -> Single(w, Inquire(w.m, w.gw.ask, expired))

Do(expired) ==
  \E w \in {Pass([gw |-> gw, m |-> m, out |-> <<>>], expired)} :
    /\ gw' = w.gw
    /\ m' = w.m
    /\ Send(w.out)
    /\ tried' = IF w.gw.state = "allnodes" /\ w.gw.sub \in {1, 2} THEN w.gw.nid ELSE tried

(* Nothing is under way: no frame on the bus, no request in a slave.       *)
Settled == /\ bus = <<>> /\ answers = <<>>
           /\ \A s \in Slaves : sl[s].rsp = "clear"

(* A call of CO_GTWA_process() in which the timeout does not elapse, one   *)
(* in which it does after all answers, and one in which it does too early. *)
Process == /\ gw.state # "idle" /\ Do(FALSE)
           /\ UNCHANGED <<sl, answers, typed, faults>>

Timeout == /\ gw.state # "idle" /\ Settled /\ Do(TRUE)
           /\ UNCHANGED <<sl, answers, typed, faults>>

Fault(kind) == kind \in FaultKinds /\ faults < MaxFaults /\ faults' = faults + 1

EarlyTimeout == /\ Fault("slow") /\ gw.state # "idle" /\ ~Settled /\ Do(TRUE)
                /\ UNCHANGED <<sl, answers, typed>>

---------------------------------------------------------------------------
(* The bus and the slaves.                                                 *)

MasterReceive ==
  /\ answers # <<>>
  /\ m' = LSSmaster_receive(m, Head(answers))
  /\ answers' = Tail(answers)
  /\ UNCHANGED <<sl, bus, gw, typed, tried, faults>>

(* A frame of the master reaches all slaves but those that miss it.  With  *)
(* CO_CONFIG_LSS_SLAVE_FASTSCAN_DIRECT_RESPOND the callback itself         *)
(* acknowledges a fastscan; equal frames of several slaves are one on the  *)
(* bus.                                                                    *)
Deliver(missed) ==
  /\ bus # <<>>
  /\ Prompt => \A s \in Slaves : sl[s].rsp # "sent"
  /\ LET f == Head(bus) IN
     /\ sl' = [s \in Slaves |-> IF s \in missed THEN sl[s]
                                ELSE LSSslave_receive(sl[s], AddrOf[s], f)]
     /\ answers' = IF \E s \in Slaves \ missed : FastscanAcks(sl[s], AddrOf[s], f)
                   THEN Append(answers, [cs |-> "ident", val |-> 0]) ELSE answers
  /\ bus' = Tail(bus)
  /\ UNCHANGED <<m, gw, typed, tried>>

SlaveReceive == Deliver({}) /\ UNCHANGED faults

LoseRequest(s) == Deliver({s}) /\ Fault("request")

(* CO_process() of a slave up to the answer; a request to reset starts the *)
(* communication again with the pending node identifier.                   *)
SlaveProcess(s) ==
  /\ sl[s].rsp = "set"
  /\ IF ResetsCommunication(sl[s])
     THEN /\ sl' = [sl EXCEPT ![s] = LSSslave_init(@.pending, @.stored)]
          /\ UNCHANGED answers
     ELSE /\ sl' = [sl EXCEPT ![s] = LSSslave_process(@, s \in CanStore)]
          /\ answers' = answers \o Answer(sl[s], AddrOf[s], s \in CanStore)
  /\ UNCHANGED <<bus, m, gw, typed, tried, faults>>

(* CO_FLAG_CLEAR(sendResponse), after the answer has gone out              *)
SlaveClear(s) ==
  /\ sl[s].rsp = "sent"
  /\ sl' = [sl EXCEPT ![s].rsp = "clear", ![s].service = Plain("none", 0)]
  /\ UNCHANGED <<bus, answers, m, gw, typed, tried, faults>>

LoseAnswer ==
  /\ answers # <<>> /\ Fault("answer")
  /\ answers' = Tail(answers)
  /\ UNCHANGED <<sl, bus, m, gw, typed, tried>>

(* A slave loses its power and starts with the identifier it has stored.   *)
PowerCycle(s) ==
  /\ Fault("power")
  /\ sl' = [sl EXCEPT ![s] = LSSslave_init(@.stored, @.stored)]
  /\ UNCHANGED <<bus, answers, m, gw, typed, tried>>

Working == \/ Process
           \/ Timeout
           \/ MasterReceive
           \/ SlaveReceive
           \/ \E s \in Slaves : SlaveProcess(s) \/ SlaveClear(s)

Next == \/ Working
        \/ \E c \in Commands : Command(c)
        \/ EarlyTimeout
        \/ LoseAnswer
        \/ \E s \in Slaves : LoseRequest(s) \/ PowerCycle(s)

(* The main tasks run, the bus delivers, and time passes.                  *)
Fairness == WF_vars(Process \/ Timeout) /\ WF_vars(MasterReceive)
            /\ WF_vars(SlaveReceive \/ \E s \in Slaves : SlaveProcess(s) \/ SlaveClear(s))

Spec == Init /\ [][Next]_vars /\ Fairness

---------------------------------------------------------------------------
(* Properties.                                                             *)

Ids == 1..LastId \cup {Unassigned}

(* Types: the position of every slave's fastscan is a part of the address, *)
(* its node identifiers are in range, and the bit the master asks for is   *)
(* one of the address, or the confirmation.                                *)
LssTypeOK ==
  /\ \A s \in Slaves :
       /\ sl[s].state \in {"waiting", "config"} /\ sl[s].rsp \in {"clear", "set", "sent"}
       /\ sl[s].pos \in Parts /\ sl[s].select \in Addresses
       /\ sl[s].active \in Ids /\ sl[s].pending \in Ids /\ sl[s].stored \in Ids
  /\ m.state \in {"waiting", "selective", "global"}
  /\ m.sub \in Parts /\ m.id \in PartValues /\ m.bit \in 0..(Bits - 1) \cup {Confirm}
  /\ gw.nid \in {0} \cup Ids /\ gw.fsc.found \in Addresses /\ gw.sub \in 0..3
  /\ typed \in 0..MaxCommands /\ tried \in 0..LastId /\ faults \in 0..MaxFaults

Selected == {s \in Slaves : sl[s].state = "config"}

(* "fastscan finished, one node is now in LSS configuration mode": while   *)
(* the master holds a selection, exactly one slave is in the configuration *)
(* state, and after a scan it is the one whose address was found.  Only a  *)
(* lost frame or a slave without power makes the master wrong.             *)
OneSelected ==
  faults = 0 /\ m.state = "selective" /\ m.command # "switch" =>
    \E s \in Slaves :
      /\ Selected = {s}
      /\ gw.state = "allnodes" /\ gw.sub > 0 =>
           \A p \in Parts : gw.fsc.scan[p] # "skip" => gw.fsc.found[p] = AddrOf[s][p]

(* No two slaves are ever given the same node identifier, not even when a  *)
(* frame is lost on the way or a slave loses its power.                    *)
UniqueIds ==
  \A s, t \in Slaves :
    s # t /\ sl[s].pending = sl[t].pending => sl[s].pending = Unassigned

Matches(fsc, addr) == \A p \in Parts : fsc.scan[p] = "match" => fsc.match[p] = addr[p]

(* "All nodes that match the given criteria are assigned a node ID": when  *)
(* lss_allnodes reports the end of its search, no matching slave is left   *)
(* unconfigured, and what it assigned has been stored if asked for.        *)
AllAssigned ==
  faults = 0 /\ gw.report = "all" =>
    /\ \A s \in Slaves : Matches(gw.fsc, AddrOf[s]) => ~Unconfigured(sl[s])
    /\ gw.store => gw.count <= Cardinality({s \in Slaves : sl[s].stored # Unassigned})

(* Every command of the operator comes to an end, whatever the bus loses:  *)
(* the polled state machines of master and gateway never wait for ever.    *)
CommandEnds == []<>(gw.state = "idle")
=============================================================================
