----------------------------- MODULE LssMaster -----------------------------
(***************************************************************************)
(* The LSS master of CANopenNode (305/CO_LSSmaster.c).  Each routine of    *)
(* its interface is polled: a call starts a request when none is running   *)
(* and afterwards looks for the answer or the timeout.  An operator takes  *)
(* the master record m, the arguments, and whether the timeout elapses in  *)
(* this call, and returns a call record: the new master, the frames sent,  *)
(* the returned code and the value handed out.                             *)
(***************************************************************************)
EXTENDS LssSlave

LSSmaster_init ==
  [state |-> "waiting", command |-> "waiting", new |-> FALSE,
   data |-> [cs |-> "none", val |-> 0],
   fs |-> "check", sub |-> 0, bit |-> 0, id |-> 0]

Call(m, out, ret, val) == [m |-> m, out |-> out, ret |-> ret, val |-> val]

(* CO_LSSmaster_receive(): one message is kept, and only during a command. *)
LSSmaster_receive(m, r) ==
  IF m.new \/ m.command = "waiting" THEN m ELSE [m EXCEPT !.new = TRUE, !.data = r]

(* A read of CANrxData and the flag cleared after it.                      *)
Taken(m) == [m EXCEPT !.new = FALSE, !.data = [cs |-> "none", val |-> 0]]

(* command = WAITING, as every routine ends                                *)
Idle(m) == [m EXCEPT !.command = "waiting"]

(* The wait of the confirmed services: the expected answer, otherwise the  *)
(* timeout, otherwise another call.                                        *)
CheckWait(m, cs, expired) ==
  IF m.new /\ m.data.cs = cs THEN Call(Idle(Taken(m)), <<>>, "ok", m.data.val)
  ELSE IF expired THEN Call(Idle(Taken(m)), <<>>, "timeout", 0)
  ELSE Call(Taken(m), <<>>, "wait", 0)

InvalidState(m) == Call(m, <<>>, "invalid", 0)

switchStateSelect(m, addr, expired) ==
  IF m.state = "waiting" /\ m.command = "waiting"
  THEN Call([Taken(m) EXCEPT !.state = "selective", !.command = "switch"],
            [i \in 1..4 |-> Frame(SelectCs[i - 1], addr[i - 1], 0, i - 1, 0)],
            "wait", 0)
  ELSE LET c == IF m.command = "switch" THEN CheckWait(m, "selected", expired)
                                        ELSE InvalidState(m)
       IN IF c.ret \in {"timeout", "invalid"}
          THEN [c EXCEPT !.m = [Idle(c.m) EXCEPT !.state = "waiting"]] ELSE c

(* ... of no address: all nodes, without a confirmation.  It too goes back *)
(* to waiting when another selection is active.                            *)
switchStateSelectAll(m) ==
  IF m.state = "waiting" /\ m.command = "waiting"
  THEN Call([Taken(m) EXCEPT !.state = "global"],
            <<Plain("glob", ToConfiguration)>>, "ok", 0)
  ELSE Call([Idle(m) EXCEPT !.state = "waiting"], <<>>, "invalid", 0)

switchStateDeselect(m) ==
  Call([Idle(Taken(m)) EXCEPT !.state = "waiting"],
       <<Plain("glob", ToWaiting)>>, "ok", 0)

(* The common shape of the configuration and inquiry services; a rejected  *)
(* argument is a code of its own.                                          *)
Service(m, cs, frame, may, expired) ==
  IF may /\ m.command = "waiting"
  THEN Call([Taken(m) EXCEPT !.command = cs], <<frame>>, "wait", 0)
  ELSE IF m.command = cs THEN CheckWait(m, cs, expired)
  ELSE InvalidState(m)

Rejectable(c) == IF c.ret = "ok" /\ c.val # 0 THEN [c EXCEPT !.ret = "rejected"] ELSE c

configureNodeId(m, nodeId, expired) ==
  Rejectable(Service(m, "node", Plain("node", nodeId),
                     m.state = "selective"
                       \/ (m.state = "global" /\ nodeId = Unassigned), expired))

configureStore(m, expired) ==
  Rejectable(Service(m, "store", Plain("store", 0), m.state = "selective", expired))

(* CO_LSSmaster_Inquire(); "ask" stands for the four parts of the address. *)
Inquire(m, frame, expired) ==
  LET c == Service(m, frame.cs, frame, m.state # "waiting", expired)
  IN IF c.ret = "invalid" THEN [c EXCEPT !.m = Idle(c.m)] ELSE c

---------------------------------------------------------------------------
(* Fastscan.  fsc is the caller's structure: scan, match and found.        *)

FsSendMsg(m, next) ==
  Call(Taken(m), <<Frame("fastscan", m.id, m.bit, m.sub, next)>>, "wait", 0)

Heard(m) == m.new /\ m.data.cs = "ident"

FsScanInitiate(m, fsc, sub) ==
  LET n == [m EXCEPT !.fs = "scan", !.sub = sub, !.id = 0]
  IN IF fsc.scan[sub] = "match" THEN Call(n, <<>>, "wait", 0)
     ELSE FsSendMsg([n EXCEPT !.bit = Bits - 1], sub)

FsSearchNext(m, fsc) ==
  LET left == {p \in Parts : p > m.sub /\ fsc.scan[p] # "skip"}
  IN IF left = {} THEN 0 ELSE CHOOSE p \in left : \A q \in left : p <= q

FsVerifyInitiate(m, fsc) ==
  FsSendMsg([m EXCEPT !.fs = "verify", !.bit = 0,
                      !.id = IF fsc.scan[m.sub] = "match" THEN fsc.match[m.sub] ELSE @],
            FsSearchNext(m, fsc))

(* Plausible mistake: a missing answer is not taken for a one.             *)
FsBit_Zero(m) == m

(* No answer: the assumed bit is wrong, and set in the number.             *)
FsBit(m) == IF m.new \/ (m.id \div 2 ^ m.bit) % 2 = 1 THEN m
            ELSE [m EXCEPT !.id = @ + 2 ^ m.bit]

(* A plausible mistake: the same bit is asked for again.                   *)
FsNextBit_Stuck(m) == m

FsNextBit(m) == [m EXCEPT !.bit = @ - 1]

FsScanWait(m, fsc, expired) ==
  IF fsc.scan[m.sub] = "match" THEN FsVerifyInitiate(m, fsc)
  ELSE IF ~expired THEN Call(m, <<>>, "wait", 0)
  ELSE IF m.new /\ ~Heard(m) THEN Call(Taken(m), <<>>, "failed", 0)
  ELSE IF m.bit = 0 THEN FsVerifyInitiate(Taken(FsBit(m)), fsc)
  ELSE FsSendMsg(FsNextBit(FsBit(m)), m.sub)

FsVerifyWait(m, fsc, expired) ==
  IF ~expired THEN Call(m, <<>>, "wait", 0)
  ELSE IF ~Heard(m) THEN Call(Taken(m), <<>>, IF m.new THEN "failed" ELSE "noack", 0)
  ELSE IF FsSearchNext(m, fsc) = 0
       THEN Call([Taken(m) EXCEPT !.state = "selective"], <<>>, "finished", 0)
  ELSE FsScanInitiate(Taken(m), fsc, FsSearchNext(m, fsc))

FsCheckWait(m, fsc, expired) ==
  IF ~expired THEN Call(m, <<>>, "wait", 0)
  ELSE IF ~Heard(m) THEN Call(Taken(m), <<>>, "noack", 0)
  ELSE FsScanInitiate(Taken(m), fsc, 0)

(* CO_LSSmaster_IdentifyFastscan().  The fields id, bit and sub are        *)
(* rewritten before the confirmation message's are read.                   *)
IdentifyFastscan(m, fsc, expired) ==
  IF fsc.scan[0] = "skip" \/ Cardinality({p \in Parts : fsc.scan[p] = "skip"}) > 2
  THEN Call(m, <<>>, "illegal", 0)
  ELSE IF m.state # "waiting" \/ m.command \notin {"waiting", "fastscan"}
  THEN InvalidState(m)
  ELSE IF m.command = "waiting"
  THEN FsSendMsg([m EXCEPT !.command = "fastscan", !.fs = "check",
                           !.id = 0, !.bit = Confirm, !.sub = 0], 0)
  ELSE LET c == CASE m.fs = "check" -> FsCheckWait(m, fsc, expired)
                  [] m.fs = "scan" -> FsScanWait(m, fsc, expired)
                  [] m.fs = "verify" -> FsVerifyWait(m, fsc, expired)
       IN IF c.ret = "wait" THEN c ELSE [c EXCEPT !.m = Idle(c.m)]

(* fastscan->found after the call: cleared when the scan starts, and each  *)
(* part set when its verification ends.                                    *)
FoundAfter(m, fsc, expired) ==
  CASE m.command # "fastscan" \/ ~expired -> fsc.found
    [] m.fs = "check" -> IF Heard(m) THEN NoAddress ELSE fsc.found
    [] m.fs = "verify" -> [fsc.found EXCEPT ![m.sub] = IF Heard(m) THEN m.id ELSE 0]
    [] OTHER -> fsc.found
=============================================================================
