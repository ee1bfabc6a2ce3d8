------------------------------- MODULE MCLss -------------------------------
(* Instances of Lss: three slaves, two of one vendor and product, parts of *)
(* two bits.                                                               *)
EXTENDS Lss

Part(a, b, c, d) == [p \in Parts |-> <<a, b, c, d>>[p + 1]]

MCAddrOf == [s \in Slaves |-> CASE s = "a" -> Part(1, 2, 0, 3)
                                [] s = "b" -> Part(1, 2, 3, 1)
                                [] s = "c" -> Part(2, 0, 0, 1)]
MCFirstIds == [s \in Slaves |-> IF s = "c" THEN 1 ELSE Unassigned]

(* The scan of an unknown network, and the example of CO_LSSmaster.h.      *)
FullScan == NoScan
SerialScan == [NoScan EXCEPT !.scan = Part("match", "match", "skip", "scan"),
                             !.match = Part(1, 2, 0, 0)]

Typed(op) == [op |-> op, nid |-> Unassigned, store |-> FALSE, fsc |-> NoScan,
              to |-> NoAddress, ask |-> Plain("none", 0)]
AllNodes(nid, store, fsc) ==
  [Typed("allnodes") EXCEPT !.nid = nid, !.store = store, !.fsc = fsc]

MCCommands ==
  {AllNodes(2, TRUE, FullScan), AllNodes(2, FALSE, SerialScan), AllNodes(4, FALSE, FullScan),
   Typed("deselect"), Typed("all"), Typed("fastscan"), Typed("set"), Typed("store"),
   [Typed("select") EXCEPT !.to = Part(1, 2, 3, 1)],
   [Typed("inquire") EXCEPT !.ask = Frame("ask", 0, 0, 3, 0)],
   [Typed("inquire") EXCEPT !.ask = Plain("asknode", 0)]}
=============================================================================
