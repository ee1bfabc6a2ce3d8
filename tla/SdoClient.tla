----------------------------- MODULE SdoClient ------------------------------
(***************************************************************************)
(* The SDO client of lib/canopen/src/301/CO_SDOclient.c as functions of    *)
(* its record c: CliReceive is the CAN receive callback, CliProcess one    *)
(* call of CO_SDOclientDownload or CO_SDOclientUpload (the state says      *)
(* which).  c.ret is what the last call returned and c.out the frame it    *)
(* handed to CO_CANsend, if any.                                           *)
(***************************************************************************)
EXTENDS SdoServer, CoFifo

CONSTANT Pst    \* CO_CONFIG_SDO_CLI_PST: shorter data are not sent in blocks

NoMsg == [t |-> "none"]

CliInit == [state |-> "idle", new |-> NoMsg, full |-> FALSE, ret |-> "ok",
            out |-> << >>, fifo |-> FifoInit(0),
            o |-> CHOOSE o \in DOMAIN ObjLen : TRUE, sizeInd |-> 0,
            sizeTran |-> 0, finished |-> FALSE, tog |-> 0, blk |-> 0, seq |-> 0,
            crc |-> << >>, noData |-> 0, lastSeg |-> << >>]

\* CO_SDOclientDownloadInitiate followed by CO_SDOclientDownloadBufWrite with
\* all the data, and CO_SDOclientUploadInitiate.
CliDownloadInitiate(c, o, d, sizeInd, block) ==
    [c EXCEPT !.o = o, !.sizeInd = sizeInd, !.sizeTran = 0, !.finished = FALSE,
              !.fifo = FifoWrite(FifoReset(@), d), !.new = NoMsg, !.ret = "waiting",
              !.state = IF block /\ (sizeInd = 0 \/ sizeInd > Pst)
                        THEN "dlBlkInit" ELSE "dlInit"]

CliUploadInitiate(c, o, block) ==
    [c EXCEPT !.o = o, !.sizeInd = 0, !.sizeTran = 0, !.finished = FALSE,
              !.fifo = FifoReset(@), !.new = NoMsg, !.ret = "waiting",
              !.state = IF block THEN "upBlkInit" ELSE "upInit"]

\* CO_SDOclient_receive.  While a sub-block is uploaded the segments go
\* straight to the fifo, the last one to a buffer of its own.
CliReceive(c, m) ==
    LET n     == SeqNo(m)
        next  == n = c.seq + 1
        taken == IF m.last THEN [c EXCEPT !.seq = n, !.lastSeg = m.data, !.finished = TRUE]
                 ELSE [c EXCEPT !.seq = n, !.fifo = FifoWrite(@, m.data),
                                !.sizeTran = @ + SegLen,
                                !.crc = @ \o SubSeq(m.data, 1, FifoWriteCount(c.fifo, m.data))]
    IN  IF c.state = "idle" \/ c.new # NoMsg THEN c
        ELSE IF c.state # "upBlkSub" THEN [c EXCEPT !.new = m]
        ELSE IF n > c.blk THEN [c EXCEPT !.state = "upBlkCrsp"]
        ELSE IF next
        THEN [taken EXCEPT !.state = IF m.last \/ n = c.blk THEN "upBlkCrsp" ELSE @]
        ELSE IF n = c.seq \/ c.seq = 0 THEN c
        ELSE [c EXCEPT !.state = "upBlkCrsp"]

----------------------------------------------------------------------------
(* The received command, by the state that it is received in.              *)

CliAbort(c)     == [c EXCEPT !.state = "abort"]
CliEnd(c, ret)  == [c EXCEPT !.state = "idle", !.ret = ret]

GotDownloadRsp(c, m) ==
    IF m.t # "dlRsp" \/ m.o # c.o THEN CliAbort(c)
    ELSE IF c.finished THEN CliEnd(c, "ok")
    ELSE [c EXCEPT !.tog = 0, !.state = "dlSeg"]

GotSegmentRsp(c, m) ==
    IF m.t # "dlSegRsp" \/ m.tog # c.tog THEN CliAbort(c)
    ELSE IF c.finished THEN CliEnd([c EXCEPT !.tog = 1 - @], "ok")
    ELSE [c EXCEPT !.tog = 1 - @, !.state = "dlSeg"]

GotBlkRsp(c, m) ==
    IF m.t # "dlBlkRsp" \/ m.o # c.o THEN CliAbort(c)
    ELSE [c EXCEPT !.crc = << >>, !.seq = 0, !.fifo = FifoAltBegin(@, 0),
                   !.blk = IF m.blk \in 1 .. MaxBlk THEN m.blk ELSE MaxBlk,
                   !.state = "dlBlkSub"]

\* What the server did not get is sent again: the alternate pointer goes back
\* to the first byte it misses.
GotBlkAck(c, m) ==
    LET again == m.ack < c.seq
        f     == IF again THEN FifoAltBegin(c.fifo, m.ack * SegLen) ELSE c.fifo
        c1    == [c EXCEPT !.fifo = FifoAltFinish(f), !.crc = @ \o FifoAltDone(f),
                           !.finished = @ /\ ~again]
    IN  IF m.t # "dlBlkAck" THEN CliAbort(c)
        ELSE IF m.ack > c.seq THEN CliAbort(c)
        ELSE IF c1.finished THEN [c1 EXCEPT !.state = "dlBlkEnd"]
        ELSE [c1 EXCEPT !.blk = m.blk, !.seq = 0, !.fifo = FifoAltBegin(@, 0),
                        !.state = "dlBlkSub"]

GotBlkFin(c, m) == IF m.t # "dlBlkFin" THEN CliAbort(c) ELSE CliEnd(c, "ok")

GotUploadRsp(c, m) ==
    IF m.t # "upRsp" \/ m.o # c.o THEN CliAbort(c)
    ELSE IF m.exp
    THEN CliEnd([c EXCEPT !.fifo = FifoWrite(@, m.data), !.sizeTran = Len(m.data)], "ok")
    ELSE [c EXCEPT !.sizeInd = IF m.size > 0 THEN m.size ELSE @, !.tog = 0, !.state = "upSeg"]

GotUploadSegment(c, m) ==
    LET n  == FifoWriteCount(c.fifo, m.data)
        c1 == [c EXCEPT !.tog = 1 - @, !.fifo = FifoWrite(@, m.data), !.sizeTran = @ + n]
        tooLong  == c1.sizeInd > 0 /\ c1.sizeTran > c1.sizeInd
        tooShort == c1.sizeInd > 0 /\ c1.sizeTran < c1.sizeInd
    IN  IF m.t # "upSegRsp" \/ m.tog # c.tog THEN CliAbort(c)
        ELSE IF n # Len(m.data) \/ tooLong THEN CliAbort(c1)
        ELSE IF ~m.last THEN [c1 EXCEPT !.state = "upSeg"]
        ELSE IF tooShort THEN CliAbort(c1)
        ELSE CliEnd(c1, "ok")

\* The server answers a block request with an ordinary upload when the object
\* is short.
GotUploadBlkRsp(c, m) ==
    IF m.t = "upRsp" THEN GotUploadRsp(c, m)
    ELSE IF m.t # "upBlkRsp" \/ m.o # c.o THEN CliAbort(c)
    ELSE [c EXCEPT !.sizeInd = IF m.size > 0 THEN m.size ELSE @, !.state = "upBlkInit2"]

\* The last segment is stored only now, when the number of its bytes is known.
GotUploadFin(c, m) ==
    LET d  == SubSeq(c.lastSeg, 1, SegLen - m.noData)
        c1 == [c EXCEPT !.fifo = FifoWrite(@, d), !.sizeTran = @ + Len(d),
                        !.crc = @ \o SubSeq(d, 1, FifoWriteCount(c.fifo, d))]
    IN  IF m.t # "upBlkFin" THEN CliAbort(c)
        ELSE IF (c1.sizeInd > 0 /\ c1.sizeTran # c1.sizeInd) \/ c1.crc # m.crc
        THEN CliAbort(c1)
        ELSE [c1 EXCEPT !.state = "upBlkFinal"]

\* The flag is cleared after the command was looked at; an abort of the server
\* ends the transfer in every state.
CliReceived(c) ==
    LET m  == c.new
        c1 == IF m.t = "abort" THEN CliEnd(c, "serverAbort")
              ELSE CASE c.state = "dlInitRsp"    -> GotDownloadRsp(c, m)
                     [] c.state = "dlSegRsp"     -> GotSegmentRsp(c, m)
                     [] c.state = "dlBlkInitRsp" -> GotBlkRsp(c, m)
                     [] c.state \in {"dlBlkSub", "dlBlkSubRsp"} -> GotBlkAck(c, m)
                     [] c.state = "dlBlkEndRsp"  -> GotBlkFin(c, m)
                     [] c.state = "upInitRsp"    -> GotUploadRsp(c, m)
                     [] c.state = "upSegRsp"     -> GotUploadSegment(c, m)
                     [] c.state = "upBlkInitRsp" -> GotUploadBlkRsp(c, m)
                     [] c.state = "upBlkSub"     -> c
                     [] c.state = "upBlkEnd"     -> GotUploadFin(c, m)
                     [] OTHER                    -> CliAbort(c)
    IN  [c1 EXCEPT !.new = NoMsg]

----------------------------------------------------------------------------
(* The transmit part of a call, by state.                                  *)

CliSend(c, st, m) == [c EXCEPT !.state = st, !.out = << m >>]

SendDownloadInit(c) ==
    LET n   == FifoOccupied(c.fifo)
        exp == IF c.sizeInd = 0 THEN n <= ExpLen ELSE c.sizeInd <= ExpLen
    IN  IF ~exp
        THEN CliSend(c, "dlInitRsp", [t |-> "dlInit", o |-> c.o, exp |-> FALSE,
                                      size |-> c.sizeInd, data |-> << >>])
        ELSE IF n = 0 \/ (c.sizeInd > 0 /\ c.sizeInd # n)
        THEN CliEnd(c, "clientAbort")
        ELSE CliSend([c EXCEPT !.fifo = FifoRead(@, n), !.sizeTran = n, !.finished = TRUE],
                     "dlInitRsp", [t |-> "dlInit", o |-> c.o, exp |-> TRUE,
                                   size |-> c.sizeInd, data |-> FifoReadData(c.fifo, n)])

SendDownloadSegment(c) ==
    LET d    == FifoReadData(c.fifo, SegLen)
        c1   == [c EXCEPT !.fifo = FifoRead(@, SegLen), !.sizeTran = @ + Len(d)]
        end  == FifoOccupied(c1.fifo) = 0
        long  == c.sizeInd > 0 /\ c1.sizeTran > c.sizeInd
        short == c.sizeInd > 0 /\ c1.sizeTran < c.sizeInd
    IN  IF long THEN CliAbort([c1 EXCEPT !.sizeTran = c.sizeTran])
        ELSE IF end /\ short THEN CliAbort(c1)
        ELSE CliSend([c1 EXCEPT !.finished = @ \/ end], "dlSegRsp",
                     [t |-> "dlSeg", tog |-> c.tog, last |-> end, data |-> d])

\* The bytes stay in the fifo until the server has confirmed them; sizeTran
\* counts those that are sent again once more.
SendBlockSegment(c) ==
    LET d    == FifoAltReadData(c.fifo, SegLen)
        c1   == [c EXCEPT !.fifo = FifoAltRead(@, SegLen), !.sizeTran = @ + Len(d),
                          !.seq = @ + 1, !.noData = SegLen - Len(d)]
        end  == FifoAltOccupied(c1.fifo) = 0
        long  == c.sizeInd > 0 /\ c1.sizeTran > c.sizeInd
        short == c.sizeInd > 0 /\ c1.sizeTran < c.sizeInd
    IN  IF long THEN CliAbort([c1 EXCEPT !.sizeTran = c.sizeTran])
        ELSE IF end /\ short THEN CliAbort(c1)
        ELSE CliSend([c1 EXCEPT !.finished = @ \/ end],
                     IF end \/ c1.seq >= c.blk THEN "dlBlkSubRsp" ELSE "dlBlkSub",
                     [t |-> "seg", seq |-> c1.seq, last |-> end, data |-> Pad(d, SegLen)])

SendUploadBlkInit(c) ==
    LET n == Lesser(FifoSpace(c.fifo) \div SegLen, MaxBlk)
    IN  IF n = 0 THEN CliAbort(c)
        ELSE CliSend([c EXCEPT !.blk = n], "upBlkInitRsp",
                     [t |-> "upBlkInit", o |-> c.o, blk |-> n, pst |-> Pst])

\* Variant: the next sub-block is asked for without looking at the room for it.
SendUploadAck_Greedy(c) ==
    LET ack(b) == [t |-> "upBlkAck", ack |-> c.seq, blk |-> b]
    IN  IF c.finished THEN CliSend(c, "upBlkEnd", ack(c.blk))
        ELSE CliSend([c EXCEPT !.blk = MaxBlk, !.seq = 0, !.new = NoMsg], "upBlkSub", ack(MaxBlk))

\* The confirmation of a sub-block.  The next one is asked for when there is
\* room for a whole one, or when the alternate pointer finds the fifo empty.
SendUploadAck(c) ==
    LET n   == FifoSpace(c.fifo) \div SegLen
        blk == Lesser(n, MaxBlk)
        ack(b) == [t |-> "upBlkAck", ack |-> c.seq, blk |-> b]
    IN  IF c.finished THEN CliSend(c, "upBlkEnd", ack(c.blk))
        ELSE IF c.sizeInd > 0 /\ c.sizeTran > c.sizeInd THEN CliAbort(c)
        ELSE IF n < MaxBlk /\ FifoAltOccupied(c.fifo) > 0
        THEN [c EXCEPT !.ret = "bufferFull"]
        ELSE CliSend([c EXCEPT !.blk = blk, !.seq = 0, !.new = NoMsg], "upBlkSub", ack(blk))

CliTransmit(c) ==
    CASE c.state = "dlInit"    -> SendDownloadInit(c)
      [] c.state = "dlSeg"     -> SendDownloadSegment(c)
      [] c.state = "dlBlkInit" -> CliSend(c, "dlBlkInitRsp",
                                   [t |-> "dlBlkInit", o |-> c.o, size |-> c.sizeInd])
      [] c.state = "dlBlkSub"  -> SendBlockSegment(c)
      [] c.state = "dlBlkEnd"  -> CliSend(c, "dlBlkEndRsp",
                                   [t |-> "dlBlkEnd", noData |-> c.noData, crc |-> c.crc])
      [] c.state = "upInit"    -> CliSend(c, "upInitRsp", [t |-> "upInit", o |-> c.o])
      [] c.state = "upSeg"     -> IF FifoSpace(c.fifo) < SegLen
                                  THEN [c EXCEPT !.ret = "bufferFull"]
                                  ELSE CliSend(c, "upSegRsp", [t |-> "upSegReq", tog |-> c.tog])
      [] c.state = "upBlkInit"  -> SendUploadBlkInit(c)
      [] c.state = "upBlkInit2" -> CliSend([c EXCEPT !.seq = 0, !.crc = << >>, !.new = NoMsg],
                                           "upBlkSub", [t |-> "upBlkStart"])
      [] c.state = "upBlkCrsp"  -> SendUploadAck(c)
      [] c.state = "upBlkFinal" -> CliEnd([c EXCEPT !.out = << [t |-> "upBlkEnd"] >>], "ok")
      [] OTHER                  -> c

\* One call.  "tmo" says which timer has run out: the whole timeout, or the
\* half of it that is allowed for a segment of a sub-block.
CliProcess(c, tmo) ==
    LET c0 == [c EXCEPT !.ret = "waiting", !.out = << >>]
        c1 == IF c.new # NoMsg THEN CliReceived(c0) ELSE c0
        c2 == CASE tmo = "whole" -> CliAbort(c1)
                [] tmo = "half"  -> [c1 EXCEPT !.state = "upBlkCrsp", !.new = NoMsg]
                [] tmo = "no"    -> c1
        c3 == CliTransmit(c2)
    IN  IF c1.ret # "waiting" THEN c1
        ELSE IF c.full THEN [c2 EXCEPT !.ret = "busy"]
        ELSE IF c3.ret = "waiting" /\ c3.state = "abort"
        THEN CliEnd([c3 EXCEPT !.out = << [t |-> "abort"] >>], "clientAbort")
        ELSE c3
=============================================================================
