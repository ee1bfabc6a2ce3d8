------------------------------- MODULE CoFifo -------------------------------
(***************************************************************************)
(* The circular byte buffer of lib/canopen/src/301/CO_fifo.c as operators  *)
(* on a record: buf is the array, rp, wp and arp are readPtr, writePtr and *)
(* altReadPtr.  One slot always stays free, so that rp = wp means empty.   *)
(* The byte-by-byte loops of the code are written in closed form: the      *)
(* number of bytes they move, and the slots they touch.                    *)
(***************************************************************************)
EXTENDS Integers, Sequences

CONSTANT FifoSize    \* bufSize

ASSUME FifoSizeAssumption == FifoSize \in Nat /\ FifoSize >= 2

Slots == 0 .. FifoSize - 1

FifoRecords(Byte) ==
    [buf : [Slots -> Byte], rp : Slots, wp : Slots, arp : Slots]

Least(a, b) == IF a <= b THEN a ELSE b

FifoInit(blank) == [buf |-> [i \in Slots |-> blank], rp |-> 0, wp |-> 0, arp |-> 0]

\* CO_fifo_reset leaves the alternate pointer where it was.
FifoReset(f) == [f EXCEPT !.rp = 0, !.wp = 0]

FifoOccupied(f)    == (f.wp - f.rp) % FifoSize
FifoSpace(f)       == (f.rp - f.wp - 1) % FifoSize
FifoAltOccupied(f) == (f.wp - f.arp) % FifoSize

\* The n bytes found from pointer p on.
FifoBytes(f, p, n) == [k \in 1 .. n |-> f.buf[(p + k - 1) % FifoSize]]

\* Everything that is waiting to be read.
FifoContent(f) == FifoBytes(f, f.rp, FifoOccupied(f))

\* The number of bytes of s that CO_fifo_write stores before it finds the
\* buffer full, and the buffer it leaves.
FifoWriteCount(f, s) == Least(Len(s), FifoSpace(f))

FifoWrite(f, s) ==
    LET n == FifoWriteCount(f, s)
    IN  [f EXCEPT
           !.buf = [i \in Slots |->
                      LET k == (i - f.wp) % FifoSize
                      IN  IF k < n THEN s[k + 1] ELSE f.buf[i]],
           !.wp = (f.wp + n) % FifoSize]

FifoReadData(f, count) == FifoBytes(f, f.rp, Least(count, FifoOccupied(f)))

FifoRead(f, count) ==
    [f EXCEPT !.rp = (f.rp + Least(count, FifoOccupied(f))) % FifoSize]

FifoAltBegin(f, offset) ==
    [f EXCEPT !.arp = (f.rp + Least(offset, FifoOccupied(f))) % FifoSize]

FifoAltReadData(f, count) == FifoBytes(f, f.arp, Least(count, FifoAltOccupied(f)))

FifoAltRead(f, count) ==
    [f EXCEPT !.arp = (f.arp + Least(count, FifoAltOccupied(f))) % FifoSize]

\* CO_fifo_altFinish gives up the bytes up to the alternate pointer; the bytes
\* it passes over are the ones that it adds to the checksum.
FifoAltDone(f)   == FifoBytes(f, f.rp, (f.arp - f.rp) % FifoSize)
FifoAltFinish(f) == [f EXCEPT !.rp = f.arp]
=============================================================================
