----------------------------- MODULE MCI2cOmap ------------------------------
(* Instances of I2cOmap: one or two tasks, messages of up to three bytes.   *)
EXTENDS I2cOmap

CONSTANTS t1, t2

OneTask == {t1}
TwoTasks == {t1, t2}

Msg(r, n) == [rd |-> r, len |-> n, ignoreNak |-> FALSE, stop |-> FALSE]

(* A write and a read without a stop in between, as dm_i2c_read() makes     *)
(* them, both longer than the threshold; the probe with an empty message;   *)
(* and a write that ignores a refusal.                                      *)
WriteRead == <<Msg(FALSE, 3), Msg(TRUE, 3)>>
EmptyProbe == <<Msg(FALSE, 0)>>
NoAck == <<[Msg(FALSE, 1) EXCEPT !.ignoreNak = TRUE]>>

LongTransfers == {WriteRead}
ShortTransfers == {NoAck, EmptyProbe}
=============================================================================
