----------------------------- MODULE SdoServer ------------------------------
(***************************************************************************)
(* The SDO server of lib/canopen/src/301/CO_SDOserver.c as functions of    *)
(* its record s and of the object dictionary od: SrvReceive is the CAN     *)
(* receive callback, SrvProcess one call of CO_SDO_process.  The frame     *)
(* layout is abstracted to one record per command; a block segment carries *)
(* SegLen bytes (7 in the frame), an expedited frame up to ExpLen (4).     *)
(* The checksum is ideal: it is the sequence of the bytes it covers.       *)
(*                                                                         *)
(* An outcome is a record: the server after the call, the dictionary after *)
(* it, and the frame handed to CO_CANsend, if any.                         *)
(***************************************************************************)
EXTENDS Integers, Sequences

CONSTANTS
    SegLen,      \* data bytes of a segment
    ExpLen,      \* data bytes of an expedited frame
    BufSize,     \* CO_CONFIG_SDO_BUFFER_SIZE
    MaxBlk,      \* segments of a sub-block at most (127)
    RxSlots,     \* CO_SDO_RX_DATA_SIZE
    ObjLen,      \* length of each object of the dictionary, 0 for a domain
    Writeable,   \* the objects with CO_ODA_WRITEABLE
    NoSeq        \* stands for the sequence number read from any other command

ASSUME SdoSizes ==
    /\ {SegLen, ExpLen, BufSize, MaxBlk, RxSlots} \subseteq Nat \ {0}
    /\ ExpLen <= BufSize
    /\ Writeable \subseteq DOMAIN ObjLen
    /\ NoSeq > MaxBlk + 1

Lesser(a, b) == IF a <= b THEN a ELSE b
Pad(d, n) == [i \in 1 .. n |-> IF i <= Len(d) THEN d[i] ELSE 0]

IsDomain(o)    == ObjLen[o] = 0
\* CO_OD_getLength
OdLength(o)    == IF IsDomain(o) THEN BufSize ELSE ObjLen[o]

\* The low seven bits of the first byte, which the receive functions take for
\* a sequence number whatever the command is, and its top bit.
SeqNo(m) == CASE m.t = "seg"   -> m.seq
              [] m.t = "abort" -> 0
              [] OTHER         -> NoSeq
TopBit(m) == \/ m.t = "seg" /\ m.last
             \/ m.t \in {"dlBlkInit", "dlBlkEnd", "upBlkInit", "upBlkStart",
                         "upBlkAck", "upBlkEnd"}

SrvInit == [state |-> "idle", rxq |-> << >>, full |-> FALSE,
            buf |-> [i \in 1 .. BufSize |-> 0], bo |-> 0,
            seq |-> 0, blk |-> 0, crc |-> << >>, tsub |-> FALSE,
            eot |-> FALSE, lastLen |-> 0,
            o |-> CHOOSE o \in DOMAIN ObjLen : TRUE, len |-> 0, off |-> 0,
            first |-> TRUE, last |-> TRUE, total |-> 0]

\* Store the bytes d in the data buffer after its first "at" bytes.
PutBuf(s, at, d) ==
    [s EXCEPT !.buf = [i \in 1 .. BufSize |->
                         IF i - at \in 1 .. Len(d) THEN d[i - at] ELSE @[i]]]

----------------------------------------------------------------------------
\* CO_SDO_receive.  A command is queued; while a sub-block is downloaded the
\* segments go straight to the data buffer, and only the one that ends the
\* sub-block, or breaks it, is queued.
SrvReceive(s, m) ==
    LET queued(st) == [s EXCEPT !.rxq = Append(@, m), !.state = st, !.tsub = FALSE]
        stored     == [PutBuf(s, s.bo, m.data) EXCEPT
                          !.seq = @ + 1, !.bo = @ + SegLen, !.tsub = FALSE]
    IN  CASE Len(s.rxq) = RxSlots -> s
          [] Len(s.rxq) < RxSlots /\ s.state # "dlBlkSub" ->
               [s EXCEPT !.rxq = Append(@, m)]
          [] OTHER ->
               IF SeqNo(m) = s.seq + 1
               THEN IF BufSize - s.bo >= SegLen
                    THEN IF TopBit(m) \/ s.seq + 1 >= s.blk
                         THEN [stored EXCEPT !.state = "dlBlkResp",
                                             !.rxq = Append(@, m)]
                         ELSE stored
                    ELSE queued("dlBlkResp2")
               ELSE IF SeqNo(m) = s.seq \/ s.seq = 0
                    THEN [s EXCEPT !.tsub = FALSE]
                    ELSE queued("dlBlkResp2")

----------------------------------------------------------------------------
\* CO_SDO_process_done frees the oldest receive slot, if it is taken now.
Done(s) == [s EXCEPT !.rxq = IF @ = << >> THEN @ ELSE Tail(@)]

Outcome(s, od, out) == [s |-> s, od |-> od, out |-> out]
Reply(s, od, m)     == Outcome(Done(s), od, << m >>)

\* CO_SDO_abort
AbortXfer(s, od) ==
    Outcome([s EXCEPT !.state = "idle", !.rxq = << >>], od, << [t |-> "abort"] >>)

\* CO_SDO_initTransfer
InitTransfer(s, o) ==
    [s EXCEPT !.o = o, !.len = OdLength(o), !.off = 0, !.first = TRUE,
              !.last = TRUE, !.total = ObjLen[o]]

\* CO_SDO_writeOD: a variable takes exactly its length at once; a domain's
\* function (the application's) starts anew at the first call of a transfer
\* and appends at the next ones.
WriteAllowed(s, n) == s.o \in Writeable /\ (IsDomain(s.o) \/ s.len = n)
WriteOD(s, n) == [s EXCEPT !.len = n, !.off = @ + n, !.first = FALSE]
Written(s, od, n) ==
    LET d == SubSeq(s.buf, 1, n)
    IN  [od EXCEPT ![s.o] = IF IsDomain(s.o) /\ ~s.first THEN @ \o d ELSE d]

\* CO_SDO_readOD into the buffer after its first "at" bytes.  A domain's
\* function delivers what is left, up to len bytes, and says whether it was
\* the last part; it must deliver something.
ReadLen(s, od) == IF IsDomain(s.o) THEN Lesser(s.len, Len(od[s.o]) - s.off) ELSE s.len
ReadChunk(s, od) == SubSeq(od[s.o], s.off + 1, s.off + ReadLen(s, od))
ReadOD(s, od, at) ==
    [PutBuf(s, at, ReadChunk(s, od)) EXCEPT
       !.len = ReadLen(s, od), !.off = @ + ReadLen(s, od), !.first = FALSE,
       !.last = (IsDomain(s.o) => s.off + ReadLen(s, od) = Len(od[s.o]))]

----------------------------------------------------------------------------
(* The cases of the state machine, one operator each.                      *)

DownloadInitiate(s, od, m) ==
    LET n == IF m.size > 0 THEN Len(m.data) ELSE s.len
        b == PutBuf(s, 0, Pad(m.data, ExpLen))
    IN  IF m.exp
        THEN IF WriteAllowed(b, n)
             THEN Reply([WriteOD(b, n) EXCEPT !.state = "idle"], Written(b, od, n),
                        [t |-> "dlRsp", o |-> m.o])
             ELSE AbortXfer(b, od)
        ELSE IF m.size > 0 /\ m.size # s.len /\ ~IsDomain(s.o)
             THEN AbortXfer(s, od)
             ELSE Reply([s EXCEPT !.bo = 0, !.seq = 0, !.state = "dlSeg",
                                  !.total = IF m.size > 0 THEN m.size ELSE @],
                        od, [t |-> "dlRsp", o |-> m.o])

\* A full buffer is flushed to the domain before the segment is copied.
DownloadSegmented(s, od, m) ==
    LET flush == s.bo + Len(m.data) > s.len
        s1  == IF flush THEN [WriteOD([s EXCEPT !.last = FALSE], s.bo)
                                EXCEPT !.len = BufSize, !.bo = 0] ELSE s
        od1 == IF flush THEN Written(s, od, s.bo) ELSE od
        s2  == [PutBuf(s1, s1.bo, m.data) EXCEPT !.bo = @ + Len(m.data)]
        s3  == [s2 EXCEPT !.seq = 1 - @]
        rsp == [t |-> "dlSegRsp", tog |-> s.seq]
    IN  IF m.t # "dlSeg" THEN AbortXfer(s, od)
        ELSE IF m.tog # s.seq \/ (flush /\ ~IsDomain(s.o)) THEN AbortXfer(s, od)
        ELSE IF ~m.last THEN Reply(s3, od1, rsp)
        ELSE IF ~WriteAllowed(s2, s2.bo) THEN AbortXfer(s2, od1)
        ELSE Reply([WriteOD(s3, s2.bo) EXCEPT !.state = "idle", !.last = TRUE],
                   Written(s2, od1, s2.bo), rsp)

DownloadBlkInitiate(s, od, m) ==
    LET blk == Lesser(BufSize \div SegLen, MaxBlk)
    IN  IF m.size > 0 /\ m.size # s.len /\ ~IsDomain(s.o)
        THEN AbortXfer(s, od)
        ELSE Reply([s EXCEPT !.blk = blk, !.crc = << >>, !.bo = 0, !.seq = 0,
                             !.tsub = FALSE, !.state = "dlBlkSub",
                             !.total = IF m.size > 0 THEN m.size ELSE @],
                   od, [t |-> "dlBlkRsp", o |-> m.o, blk |-> blk])

\* Variant: a domain is flushed after the last sub-block too, before the size of
\* the last segment is known.
DownloadBlkResp_FlushLast(s, od, last, broken) ==
    IF last /\ IsDomain(s.o)
    THEN Reply([s EXCEPT !.crc = @ \o SubSeq(s.buf, 1, s.bo), !.bo = 0, !.seq = 0,
                         !.state = "dlBlkEnd"], Written(s, od, s.bo),
               [t |-> "dlBlkAck", ack |-> s.seq, blk |-> s.blk])
    ELSE Reply([s EXCEPT !.seq = 0, !.state = IF last THEN "dlBlkEnd" ELSE "dlBlkSub"], od,
               [t |-> "dlBlkAck", ack |-> s.seq, blk |-> s.blk])

\* Variant: the slot stays taken.
SubBlockCommand_Kept(s, od) == Outcome(s, od, << >>)

\* A frame that was queued before the sub-block began is dropped.
SubBlockCommand(s, od) == Outcome(Done(s), od, << >>)

\* The sub-block confirmation.  "broken" is the variant that is entered after
\* a gap, a full buffer or a timeout: it leaves the sequence as it is.
DownloadBlkResp(s, od, last, broken) ==
    LET flush == IsDomain(s.o) /\ s.bo # 0 /\ ~last
        s1 == [s EXCEPT !.seq = IF broken THEN @ ELSE 0]
        s2 == IF flush THEN [WriteOD([s1 EXCEPT !.last = FALSE], s.bo) EXCEPT
                               !.crc = @ \o SubSeq(s.buf, 1, s.bo),
                               !.len = BufSize, !.bo = 0] ELSE s1
        od2 == IF flush THEN Written(s, od, s.bo) ELSE od
        blk == Lesser((BufSize - s2.bo) \div SegLen, MaxBlk)
        s3 == [s2 EXCEPT !.blk = blk, !.state = IF last THEN "dlBlkEnd" ELSE "dlBlkSub"]
    IN  IF ~last /\ s2.bo >= BufSize
        THEN AbortXfer(s2, od2)
        ELSE Reply(s3, od2, [t |-> "dlBlkAck", ack |-> s.seq, blk |-> blk])

\* Variant: the checksum is not compared.
DownloadBlkEnd_NoCrc(s, od, m) ==
    LET n == s.bo - m.noData
    IN  IF m.t # "dlBlkEnd" THEN AbortXfer(s, od)
        ELSE IF ~WriteAllowed(s, n) THEN AbortXfer(s, od)
        ELSE Reply([WriteOD(s, n) EXCEPT !.state = "idle", !.last = TRUE],
                   Written(s, od, n), [t |-> "dlBlkFin"])

DownloadBlkEnd(s, od, m) ==
    LET n   == s.bo - m.noData
        s1  == [s EXCEPT !.bo = n, !.crc = @ \o SubSeq(s.buf, 1, n)]
    IN  IF m.t # "dlBlkEnd" THEN AbortXfer(s, od)
        ELSE IF s1.crc # m.crc \/ ~WriteAllowed(s1, n) THEN AbortXfer(s1, od)
        ELSE Reply([WriteOD(s1, n) EXCEPT !.state = "idle", !.last = TRUE],
                   Written(s1, od, n), [t |-> "dlBlkFin"])

UploadInitiate(s, od, m) ==
    IF s.len <= ExpLen
    THEN Reply([s EXCEPT !.state = "idle"], od,
               [t |-> "upRsp", o |-> m.o, exp |-> TRUE, size |-> s.len,
                data |-> SubSeq(s.buf, 1, s.len)])
    ELSE Reply([s EXCEPT !.bo = 0, !.seq = 0, !.state = "upSeg"], od,
               [t |-> "upRsp", o |-> m.o, exp |-> FALSE, size |-> s.total,
                data |-> << >>])

\* Move the bytes after the first k to the front, then read more behind them.
Refill(s, od, k) ==
    LET rest == s.len - k
        s1   == PutBuf(s, 0, SubSeq(s.buf, k + 1, s.len))
        s2   == ReadOD([s1 EXCEPT !.len = OdLength(s.o) - rest], od, rest)
    IN  [s2 EXCEPT !.len = @ + rest]

UploadSegmented(s, od, m) ==
    LET refill == IsDomain(s.o) /\ s.len - s.bo < SegLen /\ ~s.last
        s1  == IF refill THEN [Refill(s, od, s.bo) EXCEPT !.bo = 0] ELSE s
        n   == Lesser(s1.len - s1.bo, SegLen)
        end == s1.bo + n = s1.len /\ s1.last
    IN  IF m.t # "upSegReq" THEN AbortXfer(s, od)
        ELSE IF m.tog # s.seq THEN AbortXfer(s, od)
        ELSE Reply([s1 EXCEPT !.bo = @ + n, !.seq = 1 - @,
                              !.state = IF end THEN "idle" ELSE @], od,
                   [t |-> "upSegRsp", tog |-> s.seq, last |-> end,
                    data |-> SubSeq(s1.buf, s1.bo + 1, s1.bo + n)])

UploadBlkInitiate(s, od, m) ==
    IF m.blk \notin 1 .. MaxBlk \/ (m.blk * SegLen > s.len /\ ~s.last)
    THEN AbortXfer([s EXCEPT !.blk = m.blk], od)
    ELSE Reply([s EXCEPT !.crc = SubSeq(s.buf, 1, s.len), !.blk = m.blk,
                         !.state = "upBlkInit2"], od,
               [t |-> "upBlkRsp", o |-> m.o, size |-> s.total])

\* One segment of the sub-block, unless all are sent.
SendSegment(s, od) ==
    LET n   == Lesser(s.len - s.bo, SegLen)
        end == s.bo + n = s.len /\ s.last
    IN  IF s.seq = s.blk \/ s.eot
        THEN Outcome(Done(s), od, << >>)
        ELSE Reply([s EXCEPT !.bo = @ + n, !.seq = @ + 1, !.eot = end,
                             !.lastLen = IF end THEN n ELSE @,
                             !.blk = IF end THEN s.seq + 1 ELSE @], od,
                   [t |-> "seg", seq |-> s.seq + 1, last |-> end,
                    data |-> Pad(SubSeq(s.buf, s.bo + 1, s.bo + n), SegLen)])

UploadBlkStart(s, od, m) ==
    IF m.t # "upBlkStart" THEN AbortXfer(s, od)
    ELSE SendSegment([Done(s) EXCEPT !.bo = 0, !.seq = 0, !.eot = FALSE,
                                     !.state = "upBlkSub"], od)

\* The client's confirmation: the acknowledged bytes leave the buffer, a
\* domain refills it, and the next sub-block starts at once.
UploadBlkAck(s, od, m) ==
    LET k    == m.ack * SegLen
        kept == s.len - k
        s1   == [PutBuf(s, 0, SubSeq(s.buf, k + 1, s.len)) EXCEPT !.len = kept, !.blk = m.blk]
        more == IsDomain(s.o) /\ kept < m.blk * SegLen /\ ~s.last
        s2   == IF more THEN [Refill(s, od, k) EXCEPT !.blk = m.blk,
                                !.crc = @ \o ReadChunk([s EXCEPT !.len = OdLength(s.o) - kept], od)]
                ELSE s1
    IN  IF m.t # "upBlkAck" THEN AbortXfer(s, od)
        ELSE IF m.ack > s.seq THEN AbortXfer(s, od)
        ELSE IF s.eot /\ m.ack = s.blk
        THEN Reply([s EXCEPT !.state = "upBlkEnd"], od,
                   [t |-> "upBlkFin", noData |-> SegLen - s.lastLen, crc |-> s.crc])
        ELSE IF m.blk * SegLen > s2.len /\ ~s2.last
        THEN AbortXfer(s2, od)
        ELSE SendSegment([s2 EXCEPT !.bo = 0, !.seq = 0, !.eot = FALSE], od)

UploadBlkEnd(s, od, m) ==
    IF m.t # "upBlkEnd" THEN AbortXfer(s, od)
    ELSE Outcome([Done(s) EXCEPT !.state = "idle"], od, << >>)

----------------------------------------------------------------------------
\* A command that reaches the idle server: a new transfer or an abort.
NewTransfer(s, od, m) ==
    IF m.t \notin {"dlInit", "dlBlkInit", "upInit", "upBlkInit"} THEN AbortXfer(s, od)
    ELSE IF m.o \notin DOMAIN ObjLen THEN AbortXfer(s, od)
    ELSE LET s1 == InitTransfer(s, m.o)
             s2 == ReadOD(s1, od, 0)
         IN  CASE m.t \in {"dlInit", "dlBlkInit"} /\ m.o \notin Writeable -> AbortXfer(s1, od)
               [] m.t = "dlInit" /\ m.o \in Writeable    -> DownloadInitiate(s1, od, m)
               [] m.t = "dlBlkInit" /\ m.o \in Writeable -> DownloadBlkInitiate(s1, od, m)
               [] m.t \in {"upInit", "upBlkInit"} ->
                    IF s2.len = 0 THEN AbortXfer(s2, od)
                    ELSE IF m.t = "upBlkInit" /\ s2.len > m.pst
                    THEN UploadBlkInitiate(s2, od, m)
                    ELSE UploadInitiate(s2, od, m)

\* The rest of CO_SDO_process after isNew was read: "isNew" is what was read,
\* "tmo" whether the timer has run out.  The oldest slot is freed at the end
\* when it is taken THEN, even when isNew was false.
SrvProcess(s, od, isNew, tmo, nmtOk) ==
    LET m    == Head(s.rxq)
        work == ~s.full /\ (isNew \/ s.state = "upBlkSub")
    IN  IF ~nmtOk THEN Outcome([Done(s) EXCEPT !.state = "idle"], od, << >>)
        ELSE IF work /\ isNew /\ m.t = "abort"
        THEN Outcome([Done(s) EXCEPT !.state = "idle"], od, << >>)
        ELSE IF tmo
        THEN IF s.state = "dlBlkSub" /\ ~s.tsub /\ ~s.full
             THEN DownloadBlkResp([s EXCEPT !.tsub = TRUE], od, FALSE, TRUE)
             ELSE AbortXfer(s, od)
        ELSE IF ~work THEN Outcome(s, od, << >>)
        ELSE CASE s.state = "idle"       -> NewTransfer(s, od, m)
               [] s.state = "dlSeg"      -> DownloadSegmented(s, od, m)
               [] s.state = "dlBlkSub"   -> SubBlockCommand(s, od)
               [] s.state \in {"dlBlkResp", "dlBlkResp2"} ->
                    DownloadBlkResp(s, od, TopBit(m), s.state = "dlBlkResp2")
               [] s.state = "dlBlkEnd"   -> DownloadBlkEnd(s, od, m)
               [] s.state = "upSeg"      -> UploadSegmented(s, od, m)
               [] s.state = "upBlkInit2" -> UploadBlkStart(s, od, m)
               [] s.state = "upBlkSub"   -> IF isNew THEN UploadBlkAck(s, od, m)
                                                     ELSE SendSegment(s, od)
               [] s.state = "upBlkEnd"   -> UploadBlkEnd(s, od, m)
=============================================================================
