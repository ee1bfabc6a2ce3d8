--------------------------- MODULE I2cOmapProofs ----------------------------
(***************************************************************************)
(* Proofs of the safety properties of I2cOmap, for every set of tasks,      *)
(* every set of transfers, every FIFO size and every limit on the rounds of *)
(* the handler.                                                             *)
(***************************************************************************)
EXTENDS I2cOmap, TLAPS

(* The two word sizes, kept apart from their values: only the lemmas on     *)
(* arithmetic expand them.                                                  *)
LEMMA Sizes == Fifo \in Nat /\ Fifo < U8 /\ U8 \in Nat /\ WorkLimit \in Nat
  BY SMT, I2cAssumption DEF U8

LEMMA TypeInit == Init => TypeOK /\ OrderInv
<1> SUFFICES ASSUME Init PROVE TypeOK /\ OrderInv
  BY Zenon
<1>0. <<>> \in Seq(Message)
  OBVIOUS
<1>1. TypeOK
  <2>1. hw \in [on: BOOLEAN, rd: BOOLEAN, left: Nat, fifo: Nat]
    BY Zenon DEF Init, NoMsg
  <2>2. clean \in BOOLEAN /\ given \in BOOLEAN /\ receiver \in BOOLEAN
    BY Zenon DEF Init
  <2>3. work \in 0..WorkLimit /\ bufLen \in Int /\ threshold \in Nat
    BY Sizes DEF Init
  <2> QED
    BY Zenon, <1>0, <2>1, <2>2, <2>3 DEF Init, TypeOK, Result
<1>2. OrderInv
  BY DEF Init, OrderInv, NoMsg, Between, Running, Settled
<1> QED
  BY Zenon, <1>1, <1>2

LEMMA ModFacts ==
  ASSUME NEW n \in Nat
  PROVE  /\ n % U8 \in Nat /\ n % U8 <= n
         /\ n % U16 \in Nat
<1>1. n % U8 \in Nat
  BY SMT DEF U8
<1>2. n % U8 <= n
  BY SMT DEF U8
<1>3. n % U16 \in Nat
  BY SMT DEF U16
<1> QED
  BY Zenon, <1>1, <1>2, <1>3

LEMMA HeadMessage ==
  ASSUME TypeOK, todo # <<>>
  PROVE  /\ Head(todo) \in Message /\ Head(todo).rd \in BOOLEAN
         /\ Head(todo).len \in Nat
         /\ Tail(todo) \in Seq(Message)
<1>1. Head(todo) \in Message /\ Tail(todo) \in Seq(Message)
  BY DEF TypeOK
<1> QED
  BY Zenon, <1>1 DEF Message

LEMMA ThresholdFits ==
  ASSUME TypeOK, NEW n \in Nat
  PROVE  Threshold(n) \in Nat /\ (threshold <= Fifo => Threshold(n) <= Fifo)
<1>1. n % U8 \in Nat
  BY Zenon, ModFacts
<1>2. threshold \in Nat /\ Fifo \in Nat
  BY Zenon, Sizes DEF TypeOK
<1> QED
  BY <1>1, <1>2 DEF Threshold

LEMMA ServedBit ==
  ASSUME TypeOK, OrderInv, srv = "act", ~Over
  PROVE  /\ Served \in seen /\ seen \subseteq Data
         /\ Served \in Drain \/ seen \cap Drain = {}
<1>1. seen # {} /\ seen \subseteq Data
  BY Zenon DEF TypeOK, OrderInv, Over, Stat
<1>2. \E b \in seen : b \in Drain \/ seen \cap Drain = {}
  BY Zenon, <1>1
<1> QED
  BY Zenon, <1>1, <1>2 DEF Served

LEMMA BytesMoved ==
  ASSUME TypeOK, NEW b
  PROVE  NumBytes(b) \in Nat /\ Level \in Nat \ {0}
<1>1. bufLen % U8 \in Nat
  BY SMT DEF TypeOK, U8
<1> QED
  BY <1>1 DEF NumBytes, Level, TypeOK

(* The FIFO after a round of the handler.                                   *)
LEMMA MoveFifo ==
  ASSUME TypeOK, OrderInv, Move
  PROVE  LET n == NumBytes(Served) IN
         /\ hw' \in [on: BOOLEAN, rd: BOOLEAN, left: Nat, fifo: Nat]
         /\ hw'.on = hw.on /\ hw'.rd = hw.rd /\ hw'.left = hw.left
         /\ receiver => hw'.fifo = hw.fifo - Least(hw.fifo, n)
         /\ ~receiver => hw'.fifo = Least(hw.left, hw.fifo + n)
         /\ ~hw'.rd => hw'.fifo <= hw'.left
<1> DEFINE n == NumBytes(Served)
<1>1. n \in Nat
  BY Zenon, BytesMoved
<1>2. hw' = [hw EXCEPT !.fifo = IF receiver THEN @ - Least(@, n)
                                ELSE Least(hw.left, @ + n)]
  BY Zenon DEF Move
<1> HIDE DEF n
<1>3. hw \in [on: BOOLEAN, rd: BOOLEAN, left: Nat, fifo: Nat]
      /\ (~hw.rd => hw.fifo <= hw.left) /\ receiver \in BOOLEAN
  BY Zenon DEF TypeOK, OrderInv
<1>4. CASE receiver
  BY <1>1, <1>2, <1>3, <1>4 DEF Least, n
<1>5. CASE ~receiver
  BY <1>1, <1>2, <1>3, <1>5 DEF Least, n
<1> QED
  BY Zenon, <1>4, <1>5

(* The FIFO after a byte on the bus.                                        *)
LEMMA ByteFifo ==
  ASSUME TypeOK, OrderInv, HwByte
  PROVE  /\ hw' \in [on: BOOLEAN, rd: BOOLEAN, left: Nat, fifo: Nat]
         /\ hw.on /\ hw'.on /\ hw'.rd = hw.rd /\ hw.left > 0 /\ hw'.left = hw.left - 1
         /\ hw.rd => hw'.fifo = hw.fifo + 1
         /\ ~hw.rd => hw.fifo > 0 /\ hw'.fifo = hw.fifo - 1
         /\ ~hw'.rd => hw'.fifo <= hw'.left
<1>1. hw \in [on: BOOLEAN, rd: BOOLEAN, left: Nat, fifo: Nat]
      /\ (~hw.rd => hw.fifo <= hw.left)
  BY Zenon DEF TypeOK, OrderInv
<1>2. CASE hw.rd
  <2>1. hw.on /\ hw.left > 0 /\ hw' = [hw EXCEPT !.left = @ - 1, !.fifo = @ + 1]
    BY Zenon, <1>2 DEF HwByte
  <2>2. hw' \in [on: BOOLEAN, rd: BOOLEAN, left: Nat, fifo: Nat]
    <3>1. hw.left - 1 \in Nat /\ hw.fifo + 1 \in Nat
      BY <1>1, <1>2, <2>1
    <3>2. \A l, f \in Nat : [hw EXCEPT !.left = l, !.fifo = f]
                              \in [on: BOOLEAN, rd: BOOLEAN, left: Nat, fifo: Nat]
      BY Zenon, <1>1
    <3> QED
      BY Zenon, <2>1, <3>1, <3>2
  <2>3. hw'.left = hw.left - 1 /\ hw'.fifo = hw.fifo + 1 /\ hw'.on = hw.on /\ hw'.rd = hw.rd
    BY Zenon, <1>1, <2>1
  <2> QED
    BY Zenon, <1>1, <1>2, <2>1, <2>2, <2>3
<1>3. CASE ~hw.rd
  <2>1. hw.on /\ hw.fifo > 0 /\ hw' = [hw EXCEPT !.left = @ - 1, !.fifo = @ - 1]
    BY Zenon, <1>3 DEF HwByte
  <2>2. hw' \in [on: BOOLEAN, rd: BOOLEAN, left: Nat, fifo: Nat]
    <3>1. hw.left - 1 \in Nat /\ hw.fifo - 1 \in Nat
      BY <1>1, <1>3, <2>1
    <3>2. \A l, f \in Nat : [hw EXCEPT !.left = l, !.fifo = f]
                              \in [on: BOOLEAN, rd: BOOLEAN, left: Nat, fifo: Nat]
      BY Zenon, <1>1
    <3> QED
      BY Zenon, <2>1, <3>1, <3>2
  <2>3. hw'.left = hw.left - 1 /\ hw'.fifo = hw.fifo - 1 /\ hw'.on = hw.on /\ hw'.rd = hw.rd
    BY Zenon, <1>1, <2>1
  <2> QED
    BY <1>1, <1>3, <2>1, <2>2, <2>3
<1> QED
  BY Zenon, <1>2, <1>3

LEMMA TypeTask ==
  ASSUME TypeOK, OrderInv, TaskStep
  PROVE  TypeOK'
<1> USE DEF omapVars, srvVars, history
<1>1. ASSUME NEW t \in Task, NEW ms \in Transfers, Lock(t, ms)
      PROVE  TypeOK'
  <2>1. ms \in Seq(Message)
    BY Zenon, I2cAssumption
  <2> QED
    BY Zenon, <1>1, <2>1 DEF Lock, TypeOK
<1>2. CASE BusFree
  BY <1>2 DEF BusFree, Goto, TypeOK
<1>3. CASE BusStuck
  BY <1>3 DEF BusStuck, Unlock, TypeOK, Result
<1>4. CASE Prepare
  <2>1. todo # <<>> /\ owner \in Task
    BY Zenon, <1>4 DEF Prepare, At, OrderInv
  <2>2. hw' \in [on: BOOLEAN, rd: BOOLEAN, left: Nat, fifo: Nat]
    BY Zenon, <1>4 DEF Prepare, TypeOK
  <2>3. Threshold(Head(todo).len) \in Nat
    BY Zenon, <2>1, HeadMessage, ThresholdFits, SMTT(30)
  <2> QED
    BY <1>4, <2>1, <2>2, <2>3, HeadMessage DEF Prepare, Goto, TypeOK, NothingLeft
<1>5. CASE Start
  <2>1. todo # <<>>
    BY Zenon, <1>5 DEF Start, At, OrderInv
  <2>2. Count(Head(todo).len) \in Nat
    BY Zenon, <2>1, HeadMessage, ModFacts DEF Count
  <2>3. hw' \in [on: BOOLEAN, rd: BOOLEAN, left: Nat, fifo: Nat]
    BY Zenon, <1>5, <2>1, <2>2, HeadMessage DEF Start
  <2> QED
    BY Zenon, <1>5, <2>3 DEF Start, Goto, TypeOK
<1>6. CASE Started
  BY <1>6 DEF Started, Goto, TypeOK
<1>7. CASE StartTimeout
  BY Zenon, <1>7 DEF StartTimeout, End, TypeOK, Result
<1>8. CASE WaitDone
  BY <1>8 DEF WaitDone, Goto, TypeOK
<1>9. CASE WaitLastTick
  BY Zenon, <1>9 DEF WaitLastTick, Goto, TypeOK
<1>10. CASE WaitTimeout
  BY Zenon, <1>10 DEF WaitTimeout, Goto, TypeOK
<1>11. CASE Reset
  BY Zenon, <1>11 DEF Reset, End, TypeOK, Result, NoMsg
<1>12. CASE CheckOk
  <2>1. todo # <<>>
    BY Zenon, <1>12 DEF CheckOk, At, OrderInv
  <2> QED
    BY <1>12, <2>1, HeadMessage DEF CheckOk, TypeOK
<1>13. CASE CheckLost
  BY <1>13 DEF CheckLost, End, TypeOK, Result
<1>14. CASE CheckNack
  BY Zenon, <1>14 DEF CheckNack, End, TypeOK, Result
<1>15. CASE Finish
  BY <1>15 DEF Finish, Unlock, TypeOK, Result
<1> QED
  BY Zenon, <1>1, <1>2, <1>3, <1>4, <1>5, <1>6, <1>7, <1>8, <1>9, <1>10, <1>11, <1>12,
     <1>13, <1>14, <1>15 DEF TaskStep

LEMMA TypeOther ==
  ASSUME TypeOK, OrderInv, Controller \/ Server
  PROVE  TypeOK'
<1> USE DEF taskVars, omapVars, srvVars, history
<1>1. CASE HwByte
  BY <1>1, ByteFifo DEF HwByte, TypeOK
<1>2. ASSUME NEW b \in Stat, HwStat(b)
      PROVE  TypeOK'
  <2>1. (b \in Data) \in BOOLEAN
    OBVIOUS
  <2>2. hw' \in [on: BOOLEAN, rd: BOOLEAN, left: Nat, fifo: Nat]
    BY Zenon, <1>2, <2>1 DEF HwStat, TypeOK
  <2> QED
    BY <1>2, <2>2 DEF HwStat, TypeOK
<1>3. CASE Submit
  BY <1>3 DEF Submit, TypeOK
<1>4. CASE Isr
  BY <1>4, Sizes DEF Isr, TypeOK
<1>5. CASE Look
  <2>1. srv' \in {"idle", "queued", "look", "act"} /\ seen' \subseteq Stat
    BY Zenon, <1>5 DEF Look, TypeOK
  <2> QED
    BY <1>5, <2>1 DEF Look, TypeOK
<1>6. CASE TooMuchWork
  <2>1. clean' \in BOOLEAN /\ given' \in BOOLEAN
    BY Zenon, <1>6, Zenon DEF TooMuchWork
  <2> QED
    BY <1>6, <2>1, Sizes DEF TooMuchWork, Complete, TypeOK
<1>7. CASE MessageOver
  BY <1>7, Sizes DEF MessageOver, Complete, TypeOK
<1>8. CASE Move
  <2>1. bufLen' \in Int
    BY <1>8, BytesMoved DEF Move, TypeOK
  <2>2. work' \in 0..WorkLimit
    BY <1>8, Sizes DEF Move, TypeOK
  <2> QED
    BY <1>8, <2>1, <2>2, MoveFifo DEF Move, TypeOK
<1> QED
  BY Zenon, <1>1, <1>2, <1>3, <1>4, <1>5, <1>6, <1>7, <1>8 DEF Controller, Server

(* The sequence of the messages' events: OrderInv is inductive.             *)
LEMMA OrderTask ==
  ASSUME TypeOK, OrderInv, TaskStep
  PROVE  OrderInv'
<1> USE DEF omapVars, srvVars, history, At, Between, Running, Settled
<1>1. ASSUME NEW t \in Task, NEW ms \in Transfers, Lock(t, ms)
      PROVE  OrderInv'
  <2>1. ms # <<>>
    BY Zenon, I2cAssumption
  <2> QED
    BY Zenon, <1>1, <2>1 DEF Lock, TypeOK, OrderInv
<1>2. CASE BusFree
  BY Zenon, <1>2 DEF BusFree, Goto, TypeOK, OrderInv
<1>3. CASE BusStuck
  BY Zenon, <1>3 DEF BusStuck, Unlock, TypeOK, OrderInv
<1>4. CASE Prepare
  <2>1. hw'.on = hw.on /\ hw'.rd = hw.rd /\ hw'.left = hw.left /\ hw'.fifo = 0
    BY Zenon, <1>4 DEF Prepare, TypeOK
  <2>2. clean' <=> owner \notin event /\ stat = {} /\ srv = "idle" /\ ~hw.on
    BY Zenon, <1>4, Zenon DEF Prepare, NothingLeft
  <2> QED
    BY <1>4, <2>1, <2>2 DEF Prepare, Goto, TypeOK, OrderInv
<1>5. CASE Start
  <2>1. pc' \in Running /\ (pc' = "started" => BadStart)
    BY Zenon, <1>5, I2cAssumption DEF Start, Goto
  <2>2. todo # <<>>
    BY Zenon, <1>5 DEF Start, OrderInv
  <2>3. Count(Head(todo).len) \in Nat /\ hw'.fifo = 0 /\ hw'.left = Count(Head(todo).len)
    BY Zenon, <1>5, <2>2, HeadMessage, ModFacts DEF Start, Count
  <2> QED
    BY <1>5, <2>1, <2>3 DEF Start, Goto, TypeOK, OrderInv
<1>6. CASE Started
  BY Zenon, <1>6 DEF Started, Goto, TypeOK, OrderInv
<1>7. CASE StartTimeout
  BY Zenon, <1>7 DEF StartTimeout, End, TypeOK, OrderInv
<1>8. CASE WaitDone
  BY Zenon, <1>8 DEF WaitDone, Goto, TypeOK, OrderInv
<1>9. CASE WaitLastTick
  BY Zenon, <1>9 DEF WaitLastTick, Goto, TypeOK, OrderInv
<1>10. CASE WaitTimeout
  BY Zenon, <1>10 DEF WaitTimeout, Goto, TypeOK, OrderInv
<1>11. CASE Reset
  BY <1>11 DEF Reset, End, TypeOK, OrderInv, NoMsg
<1>12. CASE CheckOk
  <2>1. todo # <<>>
    BY Zenon, <1>12 DEF CheckOk, OrderInv
  <2>2. Len(todo) # 1 => Tail(todo) # <<>>
    <3>1. todo \in Seq(Message) /\ Len(todo) \in Nat \ {0}
      BY <2>1 DEF TypeOK
    <3>2. Len(Tail(todo)) = Len(todo) - 1
      BY <2>1, <3>1
    <3>3. ASSUME NEW s \in Seq(Message), Len(s) > 0
          PROVE  s # <<>>
      BY <3>3
    <3>4. Tail(todo) \in Seq(Message)
      BY Zenon, <2>1, HeadMessage
    <3>5. Len(todo) # 1 => Len(Tail(todo)) > 0
      BY <3>1, <3>2
    <3> QED
      BY Zenon, <3>3, <3>4, <3>5
  <2> QED
    BY Zenon, <1>12, <2>2 DEF CheckOk, TypeOK, OrderInv
<1>13. CASE CheckLost
  BY Zenon, <1>13 DEF CheckLost, End, TypeOK, OrderInv
<1>14. CASE CheckNack
  BY Zenon, <1>14 DEF CheckNack, End, TypeOK, OrderInv
<1>15. CASE Finish
  BY Zenon, <1>15 DEF Finish, Unlock, TypeOK, OrderInv
<1> QED
  BY Zenon, <1>1, <1>2, <1>3, <1>4, <1>5, <1>6, <1>7, <1>8, <1>9, <1>10, <1>11, <1>12,
     <1>13, <1>14, <1>15 DEF TaskStep

LEMMA OrderOther ==
  ASSUME TypeOK, OrderInv, Controller \/ Server
  PROVE  OrderInv'
<1> USE DEF taskVars, omapVars, srvVars, history, Between, Running, Settled
<1>1. CASE HwByte
  BY <1>1, ByteFifo DEF HwByte, TypeOK, OrderInv
<1>2. ASSUME NEW b \in Stat, HwStat(b)
      PROVE  OrderInv'
  BY <1>2, ZenonT(60) DEF HwStat, Raised, TypeOK, OrderInv, Final, Stat, Data, Error
<1>3. CASE Submit
  BY <1>3 DEF Submit, TypeOK, OrderInv
<1>4. CASE Isr
  BY <1>4 DEF Isr, TypeOK, OrderInv
<1>5. CASE Look
  BY <1>5 DEF Look, TypeOK, OrderInv, Ignore, Data, Final
<1>6. CASE TooMuchWork
  BY Zenon, <1>6 DEF TooMuchWork, Complete, TypeOK, OrderInv
<1>7. CASE MessageOver
  BY <1>7 DEF MessageOver, Complete, TypeOK, OrderInv, Over, Final
<1>8. CASE Move
  BY <1>8, MoveFifo DEF Move, TypeOK, OrderInv
<1> QED
  BY Zenon, <1>1, <1>2, <1>3, <1>4, <1>5, <1>6, <1>7, <1>8 DEF Controller, Server

LEMMA Stutter ==
  ASSUME TypeOK, OrderInv, UNCHANGED vars
  PROVE  TypeOK' /\ OrderInv'
<1>1. TypeOK'
  BY DEF TypeOK, vars
<1>2. OrderInv'
  BY DEF OrderInv, vars, Settled
<1> QED
  BY Zenon, <1>1, <1>2

(* Task, interrupt handler and controller stay in step: what each of them   *)
(* may be doing follows from where the others are, through every wait of    *)
(* omap_i2c_xfer_msg() and every reset.                                     *)
THEOREM OrderInvariant == Spec => [](TypeOK /\ OrderInv)
<1>1. TypeOK /\ OrderInv /\ [Next]_vars => (TypeOK /\ OrderInv)'
  BY Zenon, TypeTask, TypeOther, OrderTask, OrderOther, Stutter DEF Next
<1> QED
  BY TypeInit, <1>1, PTL DEF Spec

(* Every message is started with nothing of an earlier one left, neither a  *)
(* pending completion nor a running controller, until a wait of             *)
(* omap_i2c_xfer_msg() is given up or the handler stops for too much work.  *)
THEOREM CleanStart == Spec => []CleanUnlessGivenUp
<1>1. OrderInv => CleanUnlessGivenUp
  BY Zenon DEF OrderInv, CleanUnlessGivenUp
<1> QED
  BY OrderInvariant, <1>1, PTL

(* omap_i2c_complete_cmd() sends its event to the task that holds the lock  *)
(* of the bus, until a wait is given up or the handler stops early.         *)
THEOREM WakesOwner == Spec => []OnlyOwnerWoken
<1>1. OrderInv => OnlyOwnerWoken
  BY Zenon DEF OrderInv, OnlyOwnerWoken
<1> QED
  BY OrderInvariant, <1>1, PTL

(* When dm_i2c_xfer() has returned, no cleanly started message still runs   *)
(* in the controller, where start and stop are written together.            *)
THEOREM QuietAfterTransfer ==
  ASSUME BadStart = FALSE
  PROVE  Spec => []QuietWhenIdle
<1>1. OrderInv => QuietWhenIdle
  BY Zenon DEF OrderInv, QuietWhenIdle, Between
<1> QED
  BY OrderInvariant, <1>1, PTL

-----------------------------------------------------------------------------
(* The accounts of a message *)

(* The arithmetic of the u8 in the handler: what the controller does not    *)
(* know of is a multiple of 65536, so num_bytes is what the FIFO holds or   *)
(* misses.                                                                  *)
LEMMA ByteCount ==
  ASSUME NEW f \in Nat, f < U8, NEW e \in Nat, e % U16 = 0
  PROVE  (f + e) % U8 = f
  BY SMT DEF U8, U16

LEMMA CountRest ==
  ASSUME NEW n \in Nat
  PROVE  /\ n - Count(n) \in Nat /\ (n - Count(n)) % U16 = 0
         /\ n < U16 => n - Count(n) = 0
  BY SMT DEF Count, U16

LEMMA AccountAsks == TypeOK /\ OrderInv /\ Account => bufLen >= 0 /\ Asked
<1> SUFFICES ASSUME TypeOK, OrderInv, Account PROVE bufLen >= 0 /\ Asked
  BY Zenon
<1>0. Level \in Nat \ {0}
  BY Zenon, BytesMoved
<1>1. bufLen >= 0
  BY DEF Account, TypeOK, OrderInv, Excess
<1>2. AskedBits = stat \cap Data
  BY Zenon DEF AskedBits, Account
<1>3. \A a, b \in AskedBits : a = b
  BY <1>0, <1>2 DEF Account, Data, TypeOK, Unloaded
<1>4. AskedBits \subseteq Drain \/ bufLen >= Level
  BY <1>0, <1>2 DEF Account, Data, Drain, TypeOK, Unloaded, Excess
<1> QED
  BY Zenon, <1>1, <1>3, <1>4 DEF Asked

LEMMA MoveAccount ==
  ASSUME TypeOK, OrderInv, Account, threshold <= Fifo, Move
  PROVE  Account'
<1> DEFINE n == NumBytes(Served)
<1>a. n = NumBytes(Served)
  BY Zenon
<1> HIDE DEF n
<1>0. Level \in Nat \ {0} /\ Level <= U8
  BY Sizes DEF Level, TypeOK
<1>1. Served \in stat \cap Data
  BY Zenon, ServedBit DEF Account, Move
<1>2. /\ bufLen' = bufLen - n /\ receiver' = receiver
      /\ stat' = stat \ {Served} /\ seen' = {}
  BY Zenon, <1>a DEF Move
<1>3. /\ hw' \in [on: BOOLEAN, rd: BOOLEAN, left: Nat, fifo: Nat]
      /\ hw'.rd = hw.rd /\ hw'.left = hw.left
      /\ hw.rd => hw'.fifo = hw.fifo - Least(hw.fifo, n)
      /\ ~hw.rd => hw'.fifo = Least(hw.left, hw.fifo + n)
  BY Zenon, <1>a, MoveFifo DEF Account
<1>4. \A b \in Data \cup {"ARDY"} : b \notin stat'
  BY <1>0, <1>1, <1>2 DEF Account, Data, TypeOK, Unloaded
<1>5. /\ hw \in [on: BOOLEAN, rd: BOOLEAN, left: Nat, fifo: Nat] /\ bufLen \in Int
      /\ Excess \in Nat /\ U8 \in Nat
  BY Zenon, Sizes DEF Account, TypeOK
<1>6. Excess % U16 = 0
  BY Zenon DEF Account
<1>7. Excess' = Excess
  <2>1. CASE Served = "RRDY"
    <3>1. n = Level /\ hw.rd /\ hw.fifo >= Level
      BY Zenon, <1>a, <1>1, <2>1 DEF NumBytes, Drain, Account
    <3> QED
      BY <1>0, <1>2, <1>3, <1>5, <3>1 DEF Excess, Least
  <2>2. CASE Served = "RDR"
    <3>1. hw.rd /\ hw.left = 0 /\ hw.fifo \in 1 .. Level - 1
      BY Zenon, <1>1, <2>2 DEF Account
    <3>2. bufLen = hw.fifo + Excess /\ hw.fifo < U8
      BY <1>0, <1>5, <3>1 DEF Excess
    <3>3. n = bufLen % U8
      BY Zenon, <1>a, <2>2 DEF NumBytes, Drain
    <3>4. (hw.fifo + Excess) % U8 = hw.fifo
      <4> DEFINE f == hw.fifo
                 e == Excess
      <4>1. f \in Nat /\ f < U8 /\ e \in Nat /\ e % U16 = 0
        BY Zenon, <1>5, <1>6, <3>2
      <4> HIDE DEF f, e
      <4>2. (f + e) % U8 = f
        BY Zenon, <4>1, ByteCount
      <4> QED
        BY Zenon, <4>2 DEF f, e
    <3>5. n = hw.fifo
      BY Zenon, <3>2, <3>3, <3>4
    <3> QED
      BY <1>2, <1>3, <1>5, <3>1, <3>5 DEF Excess, Least
  <2>3. CASE Served = "XRDY"
    <3>1. n = Level /\ ~hw.rd /\ hw.fifo = 0 /\ hw.left >= Level
      BY <1>a, <1>1, <1>5, <2>3 DEF NumBytes, Drain, Account, Unloaded
    <3>2. hw'.fifo = Level /\ ~hw'.rd
      BY <1>0, <1>3, <1>5, <3>1 DEF Least
    <3>3. Excess' = bufLen' - (hw'.left - hw'.fifo) /\ Excess = bufLen - (hw.left - hw.fifo)
      BY Zenon, <3>1, <3>2 DEF Excess
    <3> QED
      BY <1>0, <1>2, <1>3, <1>5, <3>1, <3>2, <3>3
  <2>4. CASE Served = "XDR"
    <3>1. ~hw.rd /\ hw.fifo = 0 /\ hw.left \in 1 .. Level - 1
      BY <1>0, <1>1, <1>5, <2>4 DEF Account, Unloaded
    <3>0. Excess = bufLen - (hw.left - hw.fifo)
      BY Zenon, <3>1 DEF Excess
    <3>2. bufLen = hw.left + Excess /\ hw.left < U8
      BY <1>0, <1>5, <3>0, <3>1
    <3>3. n = bufLen % U8
      BY Zenon, <1>a, <2>4 DEF NumBytes, Drain
    <3>4. (hw.left + Excess) % U8 = hw.left
      <4> DEFINE f == hw.left
                 e == Excess
      <4>1. f \in Nat /\ f < U8 /\ e \in Nat /\ e % U16 = 0
        BY Zenon, <1>5, <1>6, <3>2
      <4> HIDE DEF f, e
      <4>2. (f + e) % U8 = f
        BY Zenon, <4>1, ByteCount
      <4> QED
        BY Zenon, <4>2 DEF f, e
    <3>5. n = hw.left
      BY Zenon, <3>2, <3>3, <3>4
    <3> QED
      <4>1. hw'.fifo = hw.left /\ ~hw'.rd
        BY <1>3, <1>5, <3>1, <3>5 DEF Least
      <4>2. Excess' = bufLen' - (hw'.left - hw'.fifo)
        BY Zenon, <4>1 DEF Excess
      <4> QED
        BY <1>2, <1>3, <1>5, <3>1, <3>0, <3>5, <4>1, <4>2
  <2> QED
    BY Zenon, <1>1, <2>1, <2>2, <2>3, <2>4 DEF Data
<1> QED
  BY Zenon, <1>2, <1>3, <1>4, <1>7 DEF Account, Data

(* The steps of the controller that keep the accounts.                      *)
LEMMA ByteAccount ==
  ASSUME TypeOK, OrderInv, Account, HwByte
  PROVE  Account'
<1>0. hw \in [on: BOOLEAN, rd: BOOLEAN, left: Nat, fifo: Nat] /\ bufLen \in Int
  BY Zenon DEF TypeOK
<1>1. Level' = Level /\ Level \in Nat \ {0} /\ UNCHANGED <<receiver, seen, stat, bufLen>>
  BY Zenon, BytesMoved DEF HwByte, omapVars, srvVars, Level
<1>2. Excess' = Excess
  BY <1>0, <1>1, ByteFifo DEF Excess
<1>3. CASE hw.rd
  <2>1. "RDR" \notin stat /\ "XRDY" \notin stat /\ "XDR" \notin stat /\ "ARDY" \notin stat
    BY <1>0, <1>3, ByteFifo DEF Account
  <2>2. "RRDY" \in stat => hw'.fifo >= Level
    BY <1>0, <1>1, <1>3, ByteFifo DEF Account
  <2>3. hw'.rd = hw.rd
    BY Zenon, ByteFifo
  <2> QED
    BY Zenon, <1>1, <1>2, <1>3, <2>1, <2>2, <2>3 DEF Account
<1>4. CASE ~hw.rd
  BY <1>0, <1>1, <1>2, <1>4, ByteFifo DEF Account, Unloaded
<1> QED
  BY Zenon, <1>3, <1>4

LEMMA StatAccount ==
  ASSUME TypeOK, OrderInv, Account, NEW b \in Stat, HwStat(b)
  PROVE  Account'
<1>0. hw \in [on: BOOLEAN, rd: BOOLEAN, left: Nat, fifo: Nat] /\ bufLen \in Int
  BY Zenon DEF TypeOK
<1>1. /\ hw'.rd = hw.rd /\ hw'.left = hw.left /\ hw'.fifo = hw.fifo
      /\ stat' = stat \cup {b}
  BY Zenon, <1>0 DEF HwStat
<1>2. Level' = Level /\ UNCHANGED <<receiver, seen, bufLen>>
  BY Zenon DEF HwStat, omapVars, srvVars, Level
<1>3. Excess' = Excess /\ Unloaded' = Unloaded
  BY Zenon, <1>1, <1>2 DEF Excess, Unloaded
<1>4. Raised(b)
  BY Zenon DEF HwStat
<1>5. "RRDY" \in stat' => hw.rd /\ hw.fifo >= Level
  BY Zenon, <1>1, <1>4 DEF Account, Raised, Error
<1>6. "RDR" \in stat' => hw.rd /\ hw.left = 0 /\ hw.fifo \in 1 .. Level - 1
  BY Zenon, <1>1, <1>4 DEF Account, Raised, Error
<1>7. "XRDY" \in stat' => ~hw.rd /\ hw.fifo = 0 /\ Unloaded >= Level
  BY Zenon, <1>1, <1>4 DEF Account, Raised, Error
<1>8. "XDR" \in stat' => ~hw.rd /\ hw.fifo = 0 /\ Unloaded \in 1 .. Level - 1
  BY Zenon, <1>1, <1>4 DEF Account, Raised, Error
<1>9. "ARDY" \in stat' => hw.left = 0 /\ hw.fifo = 0
  BY Zenon, <1>1, <1>4 DEF Account, Raised, Error
<1>10. receiver' = hw'.rd /\ seen' \subseteq stat'
  BY Zenon, <1>1, <1>2 DEF Account
<1>11. Excess' \in Nat /\ Excess' % U16 = 0 /\ (FitsCount => Excess' = 0)
  BY Zenon, <1>3 DEF Account
<1> QED
  BY Zenon, <1>1, <1>2, <1>3, <1>5, <1>6, <1>7, <1>8, <1>9, <1>10, <1>11 DEF Account

LEMMA BooksInit == Init => BooksInv
<1> SUFFICES ASSUME Init PROVE BooksInv
  BY Zenon
<1>1. threshold <= Fifo
  BY Sizes DEF Init
<1>2. DOMAIN todo = {}
  BY DEF Init
<1> QED
  BY <1>1, <1>2 DEF Init, BooksInv, NoMsg, Asked, AskedBits, Running, Through

LEMMA BooksTask ==
  ASSUME TypeOK, OrderInv, BooksInv, TaskStep
  PROVE  BooksInv'
<1> USE DEF omapVars, srvVars, history, At, Running
<1>1. ASSUME NEW t \in Task, NEW ms \in Transfers, Lock(t, ms)
      PROVE  BooksInv'
  BY <1>1 DEF Lock, BooksInv, FitsCount, Asked, AskedBits, Level, Account, Through, Excess, Unloaded
<1>2. CASE BusFree
  BY <1>2 DEF BusFree, Goto, BooksInv, Asked, AskedBits, Level, Account, Through, Excess, Unloaded
<1>3. CASE BusStuck
  BY <1>3 DEF BusStuck, Unlock, BooksInv, Asked, AskedBits, Level, Account, Through, Excess, Unloaded
<1>4. CASE Prepare
  <2>1. todo # <<>>
    BY Zenon, <1>4 DEF Prepare, OrderInv
  <2>2. threshold' <= Fifo
    BY Zenon, <1>4, <2>1, HeadMessage, ThresholdFits DEF Prepare, BooksInv
  <2>3. clean' <=> owner \notin event /\ stat = {} /\ srv = "idle" /\ ~hw.on
    BY Zenon, <1>4, Zenon DEF Prepare, NothingLeft
  <2>4. hw'.on = hw.on
    BY Zenon, <1>4 DEF Prepare, TypeOK
  <2>5. clean' => AskedBits' = {}
    BY Zenon, <1>4, <2>3 DEF Prepare, OrderInv, AskedBits
  <2> QED
    BY <1>4, <2>1, <2>2, <2>3, <2>4, <2>5, HeadMessage
    DEF Prepare, Goto, BooksInv, Asked, Through
<1>5. CASE Start
  <2>1. todo # <<>> /\ todo' = todo
    BY Zenon, <1>5 DEF Start, Goto, OrderInv
  <2>2. pc' \in Running /\ UNCHANGED <<owner, event, threshold, clean, cmdErr>>
    BY Zenon, <1>5, I2cAssumption DEF Start, Goto
  <2>3. FitsCount => Head(todo).len < U16
    BY <2>1, HeadMessage DEF BooksInv, TypeOK
  <2>4. ASSUME clean PROVE Account' /\ owner \notin event /\ cmdErr = {}
    <3>1. /\ receiver = Head(todo).rd /\ bufLen = Head(todo).len /\ cmdErr = {}
          /\ stat = {} /\ srv = "idle" /\ seen = {} /\ owner \notin event
      BY Zenon, <1>5, <2>4 DEF Start, BooksInv, OrderInv, Settled
    <3>2. /\ hw'.rd = Head(todo).rd /\ hw'.left = Count(Head(todo).len)
          /\ hw'.fifo = 0 /\ UNCHANGED <<receiver, bufLen, stat, seen>>
      BY Zenon, <1>5 DEF Start
    <3>3. Head(todo).len \in Nat /\ Count(Head(todo).len) \in Nat
      BY Zenon, <2>1, HeadMessage, ModFacts DEF Count
    <3>4. Excess' = Head(todo).len - Count(Head(todo).len)
      BY <3>1, <3>2, <3>3 DEF Excess
    <3>5. Excess' \in Nat /\ Excess' % U16 = 0 /\ (FitsCount => Excess' = 0)
      BY Zenon, <2>3, <3>3, <3>4, CountRest
    <3> QED
      BY Zenon, <3>1, <3>2, <3>5 DEF Account
  <2>5. ASSUME clean PROVE bufLen' >= 0 /\ Asked'
    <3>1. stat' = {} /\ seen' = {} /\ bufLen' = bufLen /\ bufLen >= 0
      BY Zenon, <1>5, <2>5 DEF Start, BooksInv, OrderInv, Settled
    <3> QED
      BY Zenon, <3>1 DEF Asked, AskedBits
  <2> QED
    BY Zenon, <2>1, <2>2, <2>4, <2>5 DEF BooksInv, Through
<1>6. CASE Started
  BY <1>6 DEF Started, Goto, BooksInv, Asked, AskedBits, Level, Account, Through, Excess, Unloaded
<1>7. CASE StartTimeout
  BY <1>7 DEF StartTimeout, End, BooksInv, Asked, AskedBits, Level, Account, Through, Excess, Unloaded
<1>8. CASE WaitDone
  BY <1>8 DEF WaitDone, Goto, BooksInv, Asked, AskedBits, Level, Account, Through, Excess, Unloaded
<1>9. CASE WaitLastTick
  BY <1>9 DEF WaitLastTick, Goto, BooksInv, Asked, AskedBits, Level, Account, Through, Excess, Unloaded
<1>10. CASE WaitTimeout
  BY <1>10 DEF WaitTimeout, Goto, BooksInv, Asked, AskedBits, Level, Account, Through, Excess, Unloaded
<1>11. CASE Reset
  BY Zenon, <1>11 DEF Reset, End, BooksInv, Asked, AskedBits, Level, NoMsg, Through
<1>12. CASE CheckOk
  <2>1. todo # <<>>
    BY Zenon, <1>12 DEF CheckOk, OrderInv
  <2>2. todo' = Tail(todo) /\ pc' \in {"end", "prepare"}
    BY Zenon, <1>12 DEF CheckOk
  <2>3. \A k \in DOMAIN todo' : k + 1 \in DOMAIN todo /\ todo'[k] = todo[k + 1]
    BY <2>1, <2>2 DEF TypeOK
  <2>4. FitsCount => \A k \in DOMAIN todo' : todo'[k].len < U16
    BY Zenon, <2>3 DEF BooksInv
  <2> QED
    BY <1>12, <2>2, <2>4
    DEF CheckOk, BooksInv, Asked, AskedBits, Level, Account, Through, Excess, Unloaded
<1>13. CASE CheckLost
  BY <1>13 DEF CheckLost, End, BooksInv, Asked, AskedBits, Level, Account, Through, Excess, Unloaded
<1>14. CASE CheckNack
  BY Zenon, <1>14 DEF CheckNack, End, BooksInv, Asked, AskedBits, Level, Through, TypeOK
<1>15. CASE Finish
  BY <1>15 DEF Finish, Unlock, BooksInv, Asked, AskedBits, Level, Account, Through, Excess, Unloaded
<1> QED
  BY Zenon, <1>1, <1>2, <1>3, <1>4, <1>5, <1>6, <1>7, <1>8, <1>9, <1>10, <1>11, <1>12,
     <1>13, <1>14, <1>15 DEF TaskStep

LEMMA BooksOther ==
  ASSUME TypeOK, OrderInv, BooksInv, Controller \/ Server
  PROVE  BooksInv'
<1> USE DEF taskVars, omapVars, srvVars, history, Running
<1>0. TypeOK' /\ OrderInv'
  BY Zenon, TypeOther, OrderOther
<1>00. Account' => bufLen' >= 0 /\ Asked'
  <2>1. (TypeOK /\ OrderInv /\ Account => bufLen >= 0 /\ Asked)'
    BY AccountAsks, PTL
  <2> QED
    BY Zenon, <1>0, <2>1
<1>1. CASE HwByte
  <2>1. clean => Account /\ Account'
    BY Zenon, <1>1, ByteAccount DEF HwByte, BooksInv
  <2>2. clean => bufLen' >= 0 /\ Asked'
    BY Zenon, <1>00, <2>1
  <2>3. ASSUME clean, Through, cmdErr = {} PROVE FALSE
    BY <1>1, <2>3, ByteFifo DEF BooksInv, TypeOK
  <2>4. UNCHANGED <<threshold, todo, clean, pc, owner, event, cmdErr, receiver, bufLen>>
    BY Zenon, <1>1 DEF HwByte
  <2>5. Through' = Through
    BY Zenon, <2>4 DEF Through
  <2> QED
    BY Zenon, <2>1, <2>2, <2>3, <2>4, <2>5 DEF BooksInv
<1>2. ASSUME NEW b \in Stat, HwStat(b)
      PROVE  BooksInv'
  <2>1. clean => Account /\ Account'
    BY Zenon, <1>2, StatAccount DEF HwStat, Raised, BooksInv
  <2>2. clean => bufLen' >= 0 /\ Asked'
    BY Zenon, <1>00, <2>1
  <2>3. hw'.left = hw.left /\ hw'.fifo = hw.fifo
    BY Zenon, <1>2 DEF HwStat, TypeOK
  <2>4. UNCHANGED <<threshold, todo, clean, pc, owner, event, cmdErr, receiver, bufLen>>
    BY Zenon, <1>2 DEF HwStat
  <2>5. Through' = Through
    BY Zenon, <2>4 DEF Through
  <2> QED
    BY Zenon, <2>1, <2>2, <2>3, <2>4, <2>5 DEF BooksInv
<1>3. CASE Submit
  BY <1>3 DEF Submit, BooksInv, Asked, AskedBits, Level, Account, Through, Excess, Unloaded
<1>4. CASE Isr
  BY <1>4 DEF Isr, BooksInv, Asked, AskedBits, Level, Account, Through, Excess, Unloaded
<1>5. CASE Look
  BY <1>5 DEF Look, BooksInv, Asked, AskedBits, Level, Account, Through, Excess, Unloaded
<1>6. CASE TooMuchWork
  BY Zenon, <1>6 DEF TooMuchWork, Complete, BooksInv
<1>7. CASE MessageOver
  <2>1. ASSUME clean, Account PROVE Account'
    BY Zenon, <1>7, <2>1 DEF MessageOver, Complete, Account, Level, Excess, Unloaded
  <2>2. clean => Asked'
    BY Zenon, <1>7 DEF MessageOver, Complete, BooksInv, Asked, AskedBits, Level
  <2>3. ASSUME clean, Through', cmdErr' = {} PROVE hw.left = 0 /\ hw.fifo = 0
    <3>1. seen \cap Error = {} /\ "ARDY" \in seen
      BY Zenon, <1>7, <2>3 DEF MessageOver, Complete, Over
    <3>2. pc \in Running
      BY Zenon, <1>7, <2>3 DEF MessageOver, Complete, Through, OrderInv, Settled
    <3> QED
      BY Zenon, <2>3, <3>1, <3>2 DEF BooksInv, Account
  <2>4. UNCHANGED <<threshold, todo, clean, pc, owner, hw, receiver, bufLen>>
    BY Zenon, <1>7 DEF MessageOver, Complete
  <2>5. ASSUME clean, pc \in Running \cup {"start"}, owner \notin event'
        PROVE  FALSE
    <3>1. event' = event \cup {holder} /\ srv = "act"
      BY Zenon, <1>7 DEF MessageOver, Complete
    <3> QED
      BY Zenon, <2>5, <3>1 DEF OrderInv, Between
  <2> QED
    BY Zenon, <2>1, <2>2, <2>3, <2>4, <2>5 DEF BooksInv
<1>8. CASE Move
  <2>1. ASSUME clean, hw.on \/ pc \in Running \cup {"check"}
        PROVE  Account' /\ bufLen' >= 0 /\ Asked'
    <3>1. Account /\ Account'
      BY Zenon, <1>8, <2>1, MoveAccount DEF BooksInv
    <3> QED
      BY Zenon, <1>00, <3>1
  <2>2. ASSUME clean PROVE bufLen' >= 0 /\ Asked'
    <3>1. Served \in AskedBits /\ AskedBits' \subseteq AskedBits \ {Served}
      BY Zenon, <1>8, ServedBit DEF Move, AskedBits
    <3>2. AskedBits' = {}
      BY Zenon, <2>2, <3>1 DEF BooksInv, Asked
    <3>3. bufLen' = bufLen - NumBytes(Served) /\ bufLen \in Nat
      BY <1>8, <2>2 DEF Move, BooksInv, TypeOK
    <3>4. NumBytes(Served) \in Nat /\ NumBytes(Served) <= bufLen
      <4>1. CASE Served \in Drain
        BY Zenon, <3>3, <4>1, ModFacts DEF NumBytes
      <4>2. CASE Served \notin Drain
        BY Zenon, <2>2, <3>1, <4>2, BytesMoved DEF NumBytes, BooksInv, Asked
      <4> QED
        BY Zenon, <4>1, <4>2
    <3> QED
      BY <3>2, <3>3, <3>4 DEF Asked
  <2>3. ASSUME clean PROVE ~Through
    BY Zenon, <1>8, <2>3 DEF Move, OrderInv, Through, Settled
  <2>4. UNCHANGED <<threshold, todo, clean, pc, owner, event, cmdErr, receiver>>
    BY Zenon, <1>8 DEF Move
  <2>5. hw'.on = hw.on /\ Through' = Through
    BY Zenon, <1>8, <2>4, MoveFifo DEF Through
  <2>6. clean => pc # "start"
    BY Zenon, <1>8 DEF Move, OrderInv, Settled
  <2> QED
    BY Zenon, <2>1, <2>2, <2>3, <2>4, <2>5, <2>6 DEF BooksInv
<1> QED
  BY Zenon, <1>1, <1>2, <1>3, <1>4, <1>5, <1>6, <1>7, <1>8 DEF Controller, Server

(* The bytes the handler has still to move and those the controller still   *)
(* asks for agree, at every point of omap_i2c_xfer_data().                  *)
THEOREM BooksInvariant == Spec => []BooksInv
<1>1. BooksInv /\ UNCHANGED vars => BooksInv'
  BY DEF BooksInv, vars, Asked, AskedBits, Level, Account, Through, Excess, Unloaded
<1>2. TypeOK /\ OrderInv /\ BooksInv /\ [Next]_vars => BooksInv'
  BY Zenon, <1>1, BooksTask, BooksOther DEF Next
<1> QED
  BY OrderInvariant, BooksInit, <1>2, PTL DEF Spec

(* The handler stays inside the buffer of a cleanly started message: every  *)
(* request of the controller, including one that it serves after a reset,   *)
(* stands for bytes that the buffer still has.                              *)
THEOREM StaysInBuffer == Spec => []InBuffer
<1>1. BooksInv => InBuffer
  BY Zenon DEF BooksInv, InBuffer
<1> QED
  BY BooksInvariant, <1>1, PTL

(* A cleanly started message that omap_i2c_xfer_msg() reports as done has   *)
(* moved all its bytes, provided that its length fits the count register.   *)
THEOREM DoneMeansMoved ==
  ASSUME FitsCount
  PROVE  Spec => []DoneWhenClean
<1>1. TypeOK /\ OrderInv /\ BooksInv => DoneWhenClean
  <2> SUFFICES ASSUME TypeOK, OrderInv, BooksInv, pc = "check", cmdErr = {}, clean
               PROVE  bufLen = 0 /\ ~hw.on /\ hw.left = 0
    BY Zenon DEF DoneWhenClean, Success
  <2>1. ~hw.on
    BY Zenon DEF OrderInv, Settled
  <2>2. hw.left = 0 /\ hw.fifo = 0 /\ Excess = 0
    BY Zenon DEF BooksInv, Through, Account
  <2> QED
    BY <2>1, <2>2 DEF Excess, TypeOK
<1> QED
  BY OrderInvariant, BooksInvariant, <1>1, PTL
=============================================================================
