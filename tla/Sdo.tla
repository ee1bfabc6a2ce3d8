-------------------------------- MODULE Sdo ---------------------------------
(***************************************************************************)
(* An SDO client and a server on a CAN bus that may lose or repeat frames. *)
(* The receive callbacks run when a frame arrives, also between the two    *)
(* steps of CO_SDO_process: it first reads the flag of the oldest receive  *)
(* slot (SrvEnter), and works with what it read (SrvRun).                  *)
(***************************************************************************)
EXTENDS SdoClient, FiniteSets

CONSTANTS
    Payloads,    \* the data that the application downloads
    Requests,    \* the objects it asks for, also ones that do not exist
    Blocks,      \* whether it asks for block transfers: a set of BOOLEANs
    Kinds,       \* subset of {"down", "up"}
    OdStart,     \* the dictionary at the start
    MaxTransfers,\* transfers between two restarts
    MaxFaults,   \* faults in a transfer
    FaultKinds   \* subset of {"lose", "repeat", "early", "busy", "nmt", "race"}

VARIABLES cli, srv, seen, c2s, s2c, od, app, nmt, faults

vars == <<cli, srv, seen, c2s, s2c, od, app, nmt, faults>>

AppInit == [kind |-> "down", o |-> CliInit.o, data |-> << >>, exact |-> TRUE,
            got |-> << >>, n |-> 0]

SdoInit ==
    /\ cli = CliInit /\ srv = SrvInit /\ seen = "out"
    /\ c2s = << >> /\ s2c = << >>
    /\ od = OdStart
    /\ app = AppInit
    /\ nmt = TRUE /\ faults = 0

Fault(kind, n) ==
    /\ n > 0 => kind \in FaultKinds /\ faults + n <= MaxFaults
    /\ faults' = faults + n

\* CO_CANsend: a buffer that is still marked full is unmarked and the new frame
\* dropped; a driver that answers -EBUSY leaves the buffer marked, and nobody
\* sends its frame later.  (full, chan) become (full', chan').
CANsend(full, chan, out, fullNext, chanNext) ==
    \/ /\ out = << >>
       /\ fullNext = full /\ chanNext = chan /\ Fault("busy", 0)
    \/ /\ out # << >> /\ full
       /\ fullNext = FALSE /\ chanNext = chan /\ Fault("busy", 0)
    \/ /\ out # << >> /\ ~full
       /\ fullNext = FALSE /\ chanNext = chan \o out /\ Fault("busy", 0)
    \/ /\ out # << >> /\ ~full
       /\ fullNext = TRUE /\ chanNext = chan /\ Fault("busy", 1)

Settled == c2s = << >> /\ s2c = << >> /\ srv.rxq = << >> /\ seen = "out"

\* The application starts a transfer when the frames of the last one are gone.
StartDownload(o, d, sized, block) ==
    /\ cli.state = "idle" /\ Settled /\ app.n < MaxTransfers
    /\ "down" \in Kinds
    /\ cli' = CliDownloadInitiate(cli, o, d, IF sized THEN Len(d) ELSE 0, block)
    /\ app' = [kind |-> "down", o |-> o, data |-> d, got |-> << >>,
               exact |-> sized \/ Len(d) > ExpLen, n |-> app.n + 1]
    /\ faults' = 0
    /\ UNCHANGED <<srv, seen, c2s, s2c, od, nmt>>

StartUpload(o, block) ==
    /\ cli.state = "idle" /\ Settled /\ app.n < MaxTransfers
    /\ "up" \in Kinds
    /\ cli' = CliUploadInitiate(cli, o, block)
    /\ app' = [kind |-> "up", o |-> o, data |-> << >>, exact |-> TRUE, got |-> << >>,
               n |-> app.n + 1]
    /\ faults' = 0
    /\ UNCHANGED <<srv, seen, c2s, s2c, od, nmt>>

----------------------------------------------------------------------------
Streaming == srv.state = "upBlkSub" /\ srv.seq # srv.blk /\ ~srv.eot

\* Nobody has anything to do but wait: only now does a timer of this length
\* run out on a bus that is not overloaded.
Silent ==
    /\ c2s = << >> /\ s2c = << >> /\ cli.new = NoMsg /\ seen = "out"
    /\ srv.full \/ (srv.rxq = << >> /\ ~Streaming)
    /\ \/ cli.full
       \/ cli.state \in {"idle", "dlInitRsp", "dlSegRsp", "dlBlkInitRsp", "dlBlkSubRsp",
                         "dlBlkEndRsp", "upInitRsp", "upSegRsp", "upBlkInitRsp",
                         "upBlkSub", "upBlkEnd"}

\* A call of the client that is not late.
CliStep ==
    /\ cli.state # "idle"
    /\ \E c \in {CliProcess(cli, "no")} :
           /\ c # cli
           /\ \E full \in BOOLEAN :
                /\ CANsend(cli.full, c2s, c.out, full, c2s')
                /\ cli' = [c EXCEPT !.full = full, !.out = << >>]
    /\ UNCHANGED <<srv, seen, s2c, od, app, nmt>>

\* A call that finds a timer run out; an early one is a fault of the timing.
\* So is one of a client that waits for the application to read its data.
CliTimeout(tmo) ==
    /\ cli.state # "idle" /\ cli.new = NoMsg
    /\ tmo = "half" => cli.state = "upBlkSub"
    /\ tmo = "whole" => cli.state # "upBlkSub" \/ "early" \in FaultKinds
    /\ \E c \in {CliProcess(cli, tmo)} :
           /\ c # cli
           /\ \E full \in BOOLEAN :
                /\ cli' = [c EXCEPT !.full = full, !.out = << >>]
                /\ IF Silent THEN CANsend(cli.full, c2s, c.out, full, c2s')
                   ELSE /\ Fault("early", 1)
                        /\ full = FALSE
                        /\ c2s' = IF cli.full THEN c2s ELSE c2s \o c.out
    /\ UNCHANGED <<srv, seen, s2c, od, app, nmt>>

\* The application reads the fifo when it is told that it is full.
AppRead ==
    /\ cli.ret = "bufferFull" /\ FifoOccupied(cli.fifo) > 0
    /\ app' = [app EXCEPT !.got = @ \o FifoContent(cli.fifo)]
    /\ cli' = [cli EXCEPT !.fifo = FifoRead(@, FifoSize)]
    /\ UNCHANGED <<srv, seen, c2s, s2c, od, nmt, faults>>

\* CO_SDOclientClose, for a client that cannot transmit any more.
AppClose ==
    /\ cli.ret = "busy" /\ cli.state # "idle"
    /\ cli' = [cli EXCEPT !.state = "idle"]
    /\ UNCHANGED <<srv, seen, c2s, s2c, od, app, nmt, faults>>

----------------------------------------------------------------------------
\* A call that has nothing to do, or cannot transmit, changes nothing but the
\* timer.  It matters only while the server waits for the end of a sub-block:
\* what arrives during the call is freed unread.
SrvEnter ==
    /\ seen = "out" /\ (srv.full => ~nmt)
    /\ \/ (srv.rxq # << >> \/ Streaming \/ (~nmt /\ srv.state # "idle")) /\ Fault("race", 0)
       \/ srv.rxq = << >> /\ srv.state = "upBlkSub" /\ ~Streaming /\ Fault("race", 1)
    /\ seen' = IF srv.rxq # << >> THEN "new" ELSE "nothing"
    /\ UNCHANGED <<cli, srv, c2s, s2c, od, app, nmt>>

SrvRun ==
    /\ seen # "out"
    /\ seen' = "out"
    /\ \E r \in {SrvProcess(srv, od, seen = "new", FALSE, nmt)} :
           \E full \in BOOLEAN :
             /\ CANsend(srv.full, s2c, r.out, full, s2c')
             /\ srv' = [r.s EXCEPT !.full = full]
             /\ od' = r.od
    /\ UNCHANGED <<cli, c2s, app, nmt>>

SrvTimeout ==
    /\ seen = "out" /\ nmt
    /\ srv.state # "idle" \/ srv.rxq # << >>
    /\ srv.rxq = << >> \/ srv.full \/ srv.state = "upBlkSub"
    /\ \E r \in {SrvProcess(srv, od, srv.rxq # << >>, TRUE, nmt)} :
           \E full \in BOOLEAN :
             /\ srv' = [r.s EXCEPT !.full = full]
             /\ od' = r.od
             /\ IF Silent THEN CANsend(srv.full, s2c, r.out, full, s2c')
                ELSE /\ Fault("early", 1)
                     /\ full = FALSE
                     /\ s2c' = IF srv.full THEN s2c ELSE s2c \o r.out
    /\ UNCHANGED <<cli, seen, c2s, app, nmt>>

----------------------------------------------------------------------------
DeliverToServer ==
    /\ c2s # << >>
    /\ c2s' = Tail(c2s)
    /\ srv' = SrvReceive(srv, Head(c2s))
    /\ UNCHANGED <<cli, seen, s2c, od, app, nmt, faults>>

DeliverToClient ==
    /\ s2c # << >>
    /\ s2c' = Tail(s2c)
    /\ cli' = CliReceive(cli, Head(s2c))
    /\ UNCHANGED <<srv, seen, c2s, od, app, nmt, faults>>

Lose ==
    /\ Fault("lose", 1)
    /\ \/ c2s # << >> /\ c2s' = Tail(c2s) /\ UNCHANGED s2c
       \/ s2c # << >> /\ s2c' = Tail(s2c) /\ UNCHANGED c2s
    /\ UNCHANGED <<cli, srv, seen, od, app, nmt>>

\* Only a block segment is repeated: the duplicates that the receive functions
\* look for.
Repeat ==
    /\ Fault("repeat", 1)
    /\ \/ /\ c2s # << >> /\ Head(c2s).t = "seg"
          /\ c2s' = << Head(c2s) >> \o c2s /\ UNCHANGED s2c
       \/ /\ s2c # << >> /\ Head(s2c).t = "seg"
          /\ s2c' = << Head(s2c) >> \o s2c /\ UNCHANGED c2s
    /\ UNCHANGED <<cli, srv, seen, od, app, nmt>>

\* The NMT master stops the server's node and starts it again.
NmtStop ==
    /\ nmt /\ Fault("nmt", 1) /\ nmt' = FALSE
    /\ UNCHANGED <<cli, srv, seen, c2s, s2c, od, app>>

NmtStart ==
    /\ ~nmt /\ nmt' = TRUE
    /\ UNCHANGED <<cli, srv, seen, c2s, s2c, od, app, faults>>

\* Both nodes restart: CO_SDO_init and CO_SDOclient_init.
Restart ==
    /\ cli.state = "idle" /\ Settled /\ app.n = MaxTransfers
    /\ cli' = CliInit /\ srv' = SrvInit /\ app' = AppInit
    /\ od' = OdStart /\ nmt' = TRUE /\ faults' = 0
    /\ UNCHANGED <<seen, c2s, s2c>>

----------------------------------------------------------------------------
SdoNext ==
    \/ \E o \in Requests, d \in Payloads, sized, block \in BOOLEAN :
         block \in Blocks /\ StartDownload(o, d, sized, block)
    \/ \E o \in Requests, block \in Blocks : StartUpload(o, block)
    \/ CliStep \/ (\E tmo \in {"half", "whole"} : CliTimeout(tmo)) \/ AppRead \/ AppClose
    \/ SrvEnter \/ SrvRun \/ SrvTimeout
    \/ DeliverToServer \/ DeliverToClient \/ Lose \/ Repeat \/ NmtStop \/ NmtStart
    \/ Restart

\* Somebody works as long as anybody can: a processing loop runs, a frame that is
\* not lost arrives, the application reads its data, a stopped node is started
\* again, and a timer runs out when nothing else is left to wait for.
Progress ==
    \/ DeliverToServer \/ DeliverToClient \/ SrvEnter \/ SrvRun \/ CliStep
    \/ AppRead \/ NmtStart
    \/ Silent /\ (SrvTimeout \/ CliTimeout("whole") \/ CliTimeout("half"))

SdoSpec == SdoInit /\ [][SdoNext]_vars /\ WF_vars(Progress)

----------------------------------------------------------------------------
(* Properties.                                                             *)

Byte == {0} \cup UNION {{p[i] : i \in DOMAIN p} : p \in Payloads}
            \cup UNION {{OdStart[o][i] : i \in DOMAIN OdStart[o]} : o \in DOMAIN OdStart}

\* Type correctness; the queue of the server and the fifo of the client stay
\* within their arrays (CO_SDOserver.h: CANrxData, CO_SDOclient.h: buf).
SdoTypeOK ==
    /\ cli.fifo \in FifoRecords(Byte)
    /\ srv.buf \in [1 .. BufSize -> Byte]
    /\ Len(srv.rxq) <= RxSlots
    /\ srv.bo \in 0 .. BufSize /\ srv.len \in 0 .. BufSize
    /\ seen \in {"out", "new", "nothing"} /\ nmt \in BOOLEAN
    /\ faults \in 0 .. MaxFaults
    /\ \A o \in DOMAIN od : od[o] \in Seq(Byte)

\* The implementation of the abstract transfer: see SdoTransfer.
Transfer == INSTANCE SdoTransfer WITH
    Objects <- DOMAIN ObjLen,
    Domains <- {o \in DOMAIN ObjLen : IsDomain(o)},
    status  <- IF cli.state # "idle" THEN "busy" ELSE IF cli.ret = "ok" THEN "ok" ELSE "failed",
    req     <- [kind |-> app.kind, o |-> app.o, data |-> app.data, exact |-> app.exact],
    got     <- app.got \o (IF app.kind = "up" THEN FifoContent(cli.fifo) ELSE << >>)

TransferSpec == Transfer!TransferSpec

\* The segments of a sub-block always fit in the fifo of the client: the
\* comment in CO_SDOclient_receive relies on it, and sizeTran is counted
\* without looking at what CO_fifo_write returns.
UploadFits ==
    (cli.state = "upBlkSub" /\ ~cli.finished) =>
        (cli.blk - cli.seq) * SegLen <= FifoSpace(cli.fifo)

\* DOWNLOAD_BL_END subtracts the unused bytes of the last segment from an
\* unsigned offset: there must be a last segment.
BlockEndHasSegment ==
    (srv.state = "dlBlkEnd" /\ seen = "new" /\ Head(srv.rxq).t = "dlBlkEnd") =>
        srv.bo >= Head(srv.rxq).noData

\* Every download, and every upload that is not in blocks, ends: with success,
\* with an abort of either side, or stuck behind a transmit buffer that is
\* marked full and that nothing unmarks.
Blockwise == cli.state \in {"upBlkSub", "upBlkCrsp"}
TransferEnds == []<>(cli.state = "idle" \/ cli.full \/ Blockwise)

\* The same for block uploads (CO_SDOclient.h: "Timeout time for SDO
\* communication in milliseconds").
BlockUploadEnds == (cli.state # "idle") ~> (cli.state = "idle")

\* "NOT all segments transferred successfully. Re-transmit data after erroneous
\* segment.": what the server of a block download has collected is a prefix of
\* what the client sends.
BlockPrefix ==
    (srv.state = "dlBlkSub" /\ app.kind = "down" /\ cli.state # "idle"
       /\ srv.o = app.o /\ cli.state # "dlBlkInit") =>
        LET d == srv.crc \o SubSeq(srv.buf, 1, srv.bo)
        IN  \A i \in 1 .. Len(d) : d[i] = IF i <= Len(app.data) THEN app.data[i] ELSE 0
=============================================================================
