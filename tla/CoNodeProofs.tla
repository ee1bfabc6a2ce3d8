---------------------------- MODULE CoNodeProofs ----------------------------
(***************************************************************************)
(* Proofs of the safety properties of CoNode, for any number of consumer   *)
(* entries, any size of the ring of emergency messages, all settings and   *)
(* any number of events.                                                   *)
(***************************************************************************)
EXTENDS CoNode, TLAPS

----------------------------------------------------------------------------
(* The emergency producer.                                                 *)

LEMMA EnqueueFacts ==
    ASSUME NEW e, EmOK(e), NEW m \in EmMessage
    PROVE  LET r == Enqueue(e, m) IN
           /\ EmOK(r)
           /\ r.bits = e.bits /\ r.reg = e.reg /\ r.can = e.can
           /\ e.full = 0 => r.queue = Append(e.queue, m) /\ r.full # 2
           /\ e.full # 0 => r.queue = e.queue /\ r.full = 2
<1> DEFINE r == Enqueue(e, m)
<1>0. EmSlots \in Nat \ {0}
  BY Zenon, EmAssumption
<1>1. CASE e.full # 0
  <2>1. r = [e EXCEPT !.full = 2]
    BY Zenon, <1>1 DEF Enqueue
  <2> QED
    BY <1>1, <2>1 DEF EmOK, EmType
<1>2. CASE e.full = 0
  <2> DEFINE f == IF Len(e.queue) + 1 = EmSlots THEN 1 ELSE 0
             q == Append(e.queue, m)
  <2>1. r = [e EXCEPT !.queue = q, !.full = f]
    BY Zenon, <1>2 DEF Enqueue
  <2>2. e.queue \in Seq(EmMessage) /\ e \in EmType /\ Len(e.queue) <= EmSlots
        /\ Len(e.queue) # EmSlots
    BY Zenon, <1>2 DEF EmOK, EmType
  <2>3. q \in Seq(EmMessage) /\ Len(q) = Len(e.queue) + 1 /\ Len(e.queue) \in Nat
    BY <2>2
  <2>4. f \in 0 .. 2 /\ f # 2 /\ (f # 0 <=> Len(q) = EmSlots) /\ Len(q) <= EmSlots
    BY <1>0, <2>2, <2>3
  <2> HIDE DEF f, q
  <2>5. r \in EmType /\ r.queue = q /\ r.full = f /\ r.bits = e.bits /\ r.reg = e.reg
        /\ r.can = e.can
    BY Zenon, <2>1, <2>2, <2>3, <2>4 DEF EmType
  <2> QED
    BY Zenon, <1>2, <2>3, <2>4, <2>5 DEF EmOK, q
<1> QED
  BY Zenon, <1>1, <1>2

LEMMA ReportFacts ==
    ASSUME NEW e, EmOK(e), NEW b \in Bits
    PROVE  LET r == ErrorReport(e, b) IN
           /\ EmOK(r) /\ r.bits = e.bits \cup {b} /\ r.reg = e.reg
<1> DEFINE m == [bit |-> b, on |-> TRUE]
           d == [e EXCEPT !.bits = @ \cup {b}]
<1>1. CASE b \in e.bits
  BY Zenon, <1>1 DEF ErrorReport, EmOK, EmType
<1>2. CASE b \notin e.bits
  <2>1. ErrorReport(e, b) = Enqueue(d, m)
    BY Zenon, <1>2 DEF ErrorReport
  <2>2. m \in EmMessage
    BY Zenon DEF EmMessage
  <2>3. EmOK(d) /\ d.bits = e.bits \cup {b} /\ d.reg = e.reg
    BY Zenon DEF EmOK, EmType
  <2> HIDE DEF d, m
  <2> QED
    BY <2>1, <2>2, <2>3, EnqueueFacts
<1> QED
  BY Zenon, <1>1, <1>2

LEMMA ResetFacts ==
    ASSUME NEW e, EmOK(e), NEW b \in Bits
    PROVE  LET r == ErrorReset(e, b) IN
           /\ EmOK(r) /\ r.bits = e.bits \ {b} /\ r.reg = e.reg
<1> DEFINE m == [bit |-> b, on |-> FALSE]
           d == [e EXCEPT !.bits = @ \ {b}]
<1>1. CASE b \notin e.bits
  BY Zenon, <1>1 DEF ErrorReset, EmOK, EmType
<1>2. CASE b \in e.bits
  <2>1. ErrorReset(e, b) = Enqueue(d, m)
    BY Zenon, <1>2 DEF ErrorReset
  <2>2. m \in EmMessage
    BY Zenon DEF EmMessage
  <2>3. EmOK(d) /\ d.bits = e.bits \ {b} /\ d.reg = e.reg
    BY Zenon DEF EmOK, EmType
  <2> HIDE DEF d, m
  <2> QED
    BY <2>1, <2>2, <2>3, EnqueueFacts
<1> QED
  BY Zenon, <1>1, <1>2

\* What a listener makes of one more message at the end of the queue ...
LEMMA AfterAppend ==
    ASSUME NEW q \in Seq(EmMessage), NEW m \in EmMessage, NEW bits \in SUBSET Bits
    PROVE  After(bits, Append(q, m)) = Apply(After(bits, q), m)
<1> DEFINE p == Append(q, m)
           n == Len(q) + 1
<1>1. /\ DOMAIN q = 1 .. Len(q) /\ Len(q) \in Nat /\ DOMAIN p = 1 .. n /\ p[n] = m
      /\ \A k \in DOMAIN q : p[k] = q[k]
  OBVIOUS
<1> HIDE DEF p
<1>2. ASSUME NEW b \in Bits, b # m.bit
      PROVE  b \in After(bits, p) <=> b \in After(bits, q)
  <2>1. About(p, b) = About(q, b)
    BY <1>1, <1>2 DEF About
  <2>2. \A k \in About(q, b) : p[k] = q[k]
    BY Zenon, <1>1 DEF About
  <2> QED
    BY Zenon, <2>1, <2>2 DEF After
<1>3. ASSUME m.bit \in Bits
      PROVE  m.bit \in After(bits, p) <=> m.on
  <2>1. n \in About(p, m.bit) /\ \A j \in About(p, m.bit) : j <= n /\ j \in Nat
    BY <1>1 DEF About
  <2>2. \A k \in About(p, m.bit) : (\A j \in About(p, m.bit) : j <= k) => k = n
    BY <1>1, <2>1
  <2> QED
    BY Zenon, <1>1, <1>3, <2>1, <2>2 DEF After
<1>4. m.bit \in Bits /\ m.on \in BOOLEAN
  BY Zenon DEF EmMessage
<1>5. After(bits, p) \subseteq Bits /\ After(bits, q) \subseteq Bits
  BY Zenon DEF After
<1>6. CASE m.on
  <2>1. After(bits, p) = After(bits, q) \cup {m.bit}
    BY Zenon, <1>2, <1>3, <1>4, <1>5, <1>6
  <2> QED
    BY Zenon, <1>6, <2>1 DEF Apply, p
<1>7. CASE ~m.on
  <2>1. After(bits, p) = After(bits, q) \ {m.bit}
    BY Zenon, <1>2, <1>3, <1>4, <1>5, <1>7
  <2> QED
    BY Zenon, <1>7, <2>1 DEF Apply, p
<1> QED
  BY Zenon, <1>6, <1>7

\* ... and of the first one.
LEMMA AfterTail ==
    ASSUME NEW q \in Seq(EmMessage), q # << >>, NEW bits \in SUBSET Bits
    PROVE  After(Apply(bits, Head(q)), Tail(q)) = After(bits, q)
<1> DEFINE p == Tail(q)
           m == Head(q)
<1>1. /\ DOMAIN q = 1 .. Len(q) /\ Len(q) \in Nat \ {0} /\ DOMAIN p = 1 .. Len(q) - 1
      /\ m = q[1] /\ m \in EmMessage
      /\ \A k \in DOMAIN p : p[k] = q[k + 1]
  OBVIOUS
<1> HIDE DEF p, m
<1>2. ASSUME NEW b \in Bits
      PROVE  b \in After(Apply(bits, m), p) <=> b \in After(bits, q)
  <2>1. \A k \in About(p, b) : k + 1 \in About(q, b) /\ p[k] = q[k + 1] /\ k \in Nat \ {0}
    BY <1>1 DEF About
  <2>2. \A k \in About(q, b) : k # 1 => k - 1 \in About(p, b) /\ p[k - 1] = q[k]
    BY <1>1 DEF About
  <2>3. 1 \in About(q, b) <=> m.bit = b
    BY <1>1 DEF About
  <2>4. \A k \in About(q, b) : k \in Nat \ {0}
    BY <1>1 DEF About
  <2>5. CASE About(p, b) = {}
    <3>1. CASE m.bit = b
      <4>1. About(q, b) = {1}
        BY Zenon, <2>2, <2>3, <2>4, <2>5, <3>1
      <4> QED
        BY <1>1, <2>5, <3>1, <4>1 DEF After, Apply, EmMessage
    <3>2. CASE m.bit # b
      <4>1. About(q, b) = {}
        BY Zenon, <2>2, <2>3, <2>4, <2>5, <3>2
      <4> QED
        BY Zenon, <1>1, <2>5, <3>2, <4>1 DEF After, Apply, EmMessage
    <3> QED
      BY Zenon, <3>1, <3>2
  <2>6. CASE About(p, b) # {}
    <3>1. About(q, b) # {}
      BY Zenon, <2>1, <2>6
    <3>2. ASSUME NEW k \in About(p, b), p[k].on, \A j \in About(p, b) : j <= k
          PROVE  b \in After(bits, q)
      <4>1. k + 1 \in About(q, b) /\ q[k + 1].on
        BY Zenon, <2>1, <3>2
      <4>2. \A j \in About(q, b) : j <= k + 1
        BY <2>1, <2>2, <2>4, <3>2
      <4> QED
        BY Zenon, <4>1, <4>2 DEF After
    <3>3. ASSUME NEW k \in About(q, b), q[k].on, \A j \in About(q, b) : j <= k
          PROVE  b \in After(Apply(bits, m), p)
      <4>1. k # 1
        BY <2>1, <2>6, <3>3
      <4>2. k - 1 \in About(p, b) /\ p[k - 1].on
        BY Zenon, <2>2, <3>3, <4>1
      <4>3. \A j \in About(p, b) : j <= k - 1
        BY <2>1, <2>4, <3>3
      <4> QED
        BY Zenon, <4>2, <4>3 DEF After
    <3> QED
      BY Zenon, <2>6, <3>1, <3>2, <3>3 DEF After
  <2> QED
    BY Zenon, <2>5, <2>6
<1>3. After(Apply(bits, m), p) \subseteq Bits /\ After(bits, q) \subseteq Bits
  BY Zenon DEF After
<1> QED
  BY Zenon, <1>2, <1>3 DEF p, m

\* A report or a reset keeps the listener informed; of "emFull" itself when there
\* is room for the message.
LEMMA EnqueueInforms ==
    ASSUME NEW e, EmOK(e), NEW h \in HeardType, Informed(e, h),
           NEW m \in EmMessage, NEW d, EmOK(d),
           d.queue = e.queue /\ d.full = e.full /\ d.bits = Apply(e.bits, m),
           m.bit = "emFull" => e.full = 0
    PROVE  Informed(Enqueue(d, m), h)
<1> DEFINE r == Enqueue(d, m)
<1>1. r.bits = d.bits /\ (d.full = 0 => r.queue = Append(d.queue, m) /\ r.full # 2)
      /\ (d.full # 0 => r.queue = d.queue /\ r.full = 2)
  BY Zenon, EnqueueFacts
<1> HIDE DEF r
<1>2. e.queue \in Seq(EmMessage) /\ h.bits \in SUBSET Bits
  BY Zenon DEF EmOK, EmType, HeardType
<1>3. CASE e.full = 0
  <2>1. r.queue = Append(e.queue, m) /\ r.bits = Apply(e.bits, m) /\ r.full # 2
    BY Zenon, <1>1, <1>3
  <2>2. After(h.bits, r.queue) = Apply(After(h.bits, e.queue), m)
    BY Zenon, <1>2, <2>1, AfterAppend
  <2>3. Warned(e, h) => Warned(r, h)
    BY <1>2, <2>1 DEF Warned, About
  <2>4. m.bit = "emFull" => Warned(r, h)
    BY <1>2, <2>1 DEF Warned, About
  <2>5. "emFull" \in r.bits => "emFull" \in e.bits \/ m.bit = "emFull"
    BY Zenon, <2>1 DEF Apply
  <2>6. After(h.bits, r.queue) = r.bits \/ Warned(r, h)
    BY <1>3, <2>1, <2>2, <2>3 DEF Informed
  <2> QED
    BY Zenon, <2>3, <2>4, <2>5, <2>6 DEF Informed, r
<1>4. CASE e.full # 0
  <2>1. r.queue = e.queue /\ r.bits = Apply(e.bits, m) /\ r.full = 2
    BY Zenon, <1>1, <1>4
  <2>2. Warned(r, h) = Warned(e, h)
    BY Zenon, <2>1 DEF Warned
  <2>3. "emFull" \in r.bits => "emFull" \in e.bits
    BY Zenon, <1>4, <2>1 DEF Apply
  <2> QED
    BY Zenon, <2>1, <2>2, <2>3 DEF Informed, r
<1> QED
  BY Zenon, <1>3, <1>4

LEMMA ReportInforms ==
    ASSUME NEW e, EmOK(e), NEW h \in HeardType, Informed(e, h),
           NEW b \in Bits, b = "emFull" => e.full = 0
    PROVE  Informed(ErrorReport(e, b), h)
<1> DEFINE m == [bit |-> b, on |-> TRUE]
           d == [e EXCEPT !.bits = @ \cup {b}]
<1>1. CASE b \in e.bits
  BY Zenon, <1>1 DEF ErrorReport
<1>2. CASE b \notin e.bits
  <2>1. ErrorReport(e, b) = Enqueue(d, m)
    BY Zenon, <1>2 DEF ErrorReport
  <2>2. m \in EmMessage /\ m.bit = b /\ m.on
    BY Zenon DEF EmMessage
  <2>3. EmOK(d) /\ d.queue = e.queue /\ d.full = e.full /\ d.bits = e.bits \cup {b}
    BY Zenon DEF EmOK, EmType
  <2>4. d.bits = Apply(e.bits, m)
    BY Zenon, <2>2, <2>3 DEF Apply
  <2> HIDE DEF d, m
  <2> QED
    BY <2>1, <2>2, <2>3, <2>4, EnqueueInforms
<1> QED
  BY Zenon, <1>1, <1>2

LEMMA ResetInforms ==
    ASSUME NEW e, EmOK(e), NEW h \in HeardType, Informed(e, h),
           NEW b \in Bits, b = "emFull" => e.full = 0
    PROVE  Informed(ErrorReset(e, b), h)
<1> DEFINE m == [bit |-> b, on |-> FALSE]
           d == [e EXCEPT !.bits = @ \ {b}]
<1>1. CASE b \notin e.bits
  BY Zenon, <1>1 DEF ErrorReset
<1>2. CASE b \in e.bits
  <2>1. ErrorReset(e, b) = Enqueue(d, m)
    BY Zenon, <1>2 DEF ErrorReset
  <2>2. m \in EmMessage /\ m.bit = b /\ ~m.on
    BY Zenon DEF EmMessage
  <2>3. EmOK(d) /\ d.queue = e.queue /\ d.full = e.full /\ d.bits = e.bits \ {b}
    BY Zenon DEF EmOK, EmType
  <2>4. d.bits = Apply(e.bits, m)
    BY Zenon, <2>2, <2>3 DEF Apply
  <2> HIDE DEF d, m
  <2> QED
    BY <2>1, <2>2, <2>3, <2>4, EnqueueInforms
<1> QED
  BY Zenon, <1>1, <1>2

\* CO_EM_process: a driver's error, and the message that is sent.
LEMMA FollowFacts ==
    ASSUME NEW e, EmOK(e), NEW b \in Bits, NEW c
    PROVE  LET r == Follow(e, b, c) IN
           /\ EmOK(r) /\ r.reg = e.reg /\ r.bits \ {b} = e.bits \ {b}
           /\ \A h \in HeardType :
                 b # "emFull" /\ Informed(e, h) => Informed(r, h)
<1>1. CASE Follow(e, b, c) = e
  BY Zenon, <1>1 DEF EmOK, EmType
<1>2. CASE Follow(e, b, c) = ErrorReport(e, b)
  BY <1>2, ReportFacts, ReportInforms
<1>3. CASE Follow(e, b, c) = ErrorReset(e, b)
  BY SMTT(30), <1>3, ResetFacts, ResetInforms
<1> QED
  BY Zenon, <1>1, <1>2, <1>3 DEF Follow

LEMMA ReadyFacts ==
    ASSUME NEW e, EmOK(e), NEW dt \in Nat
    PROVE  LET r == EmReady(e, dt) IN
           EmOK(r) /\ r.bits = e.bits /\ r.queue = e.queue /\ r.full = e.full
<1> DEFINE g == ErrorRegister(e.bits)
           t == IF e.inh < Inhibit THEN e.inh + dt ELSE e.inh
<1>1. EmReady(e, dt) = [e EXCEPT !.reg = g, !.inh = t]
  BY Zenon DEF EmReady
<1>2. e \in EmType /\ e.bits \subseteq Bits /\ e.inh \in Nat
  BY Zenon DEF EmOK, EmType
<1>3. g \in SUBSET {GroupOf[b] : b \in Bits}
  BY Zenon, <1>2 DEF ErrorRegister
<1>4. t \in Nat
  BY <1>2, EmAssumption
<1> HIDE DEF g, t
<1>5. \A x \in SUBSET {GroupOf[b] : b \in Bits}, y \in Nat :
         LET r == [e EXCEPT !.reg = x, !.inh = y]
         IN  r \in EmType /\ r.bits = e.bits /\ r.queue = e.queue /\ r.full = e.full
  BY Zenon, <1>2 DEF EmType
<1> QED
  BY Zenon, <1>1, <1>3, <1>4, <1>5 DEF EmOK

Rest(e) == [e EXCEPT !.queue = Tail(@), !.full = 0, !.inh = 0]

LEMMA RestFacts ==
    ASSUME NEW e, EmOK(e), e.queue # << >>
    PROVE  /\ EmOK(Rest(e)) /\ Rest(e).bits = e.bits /\ Rest(e).full = 0
           /\ Rest(e).queue = Tail(e.queue)
           /\ e.queue \in Seq(EmMessage) /\ Head(e.queue) \in EmMessage
           /\ EmSent(e) = IF e.full = 2 THEN ErrorReport(Rest(e), "emFull")
                                        ELSE ErrorReset(Rest(e), "emFull")
<1>0. EmSlots \in Nat \ {0}
  BY Zenon, EmAssumption
<1>1. e.queue \in Seq(EmMessage) /\ Head(e.queue) \in EmMessage
      /\ Tail(e.queue) \in Seq(EmMessage) /\ Len(Tail(e.queue)) = Len(e.queue) - 1
      /\ Len(e.queue) \in Nat /\ Len(e.queue) <= EmSlots
  BY DEF EmOK, EmType
<1>2. ASSUME NEW t \in Seq(EmMessage)
      PROVE  LET d == [e EXCEPT !.queue = t, !.full = 0, !.inh = 0]
             IN  d \in EmType /\ d.bits = e.bits /\ d.queue = t /\ d.full = 0
  <2> DEFINE a == [e EXCEPT !.queue = t]
             b == [a EXCEPT !.full = 0]
             d == [b EXCEPT !.inh = 0]
  <2>1. a \in EmType /\ a.bits = e.bits /\ a.queue = t
    BY Zenon DEF EmOK, EmType
  <2> HIDE DEF a
  <2>2. b \in EmType /\ b.bits = e.bits /\ b.queue = t /\ b.full = 0
    BY <2>1 DEF EmType
  <2> HIDE DEF b
  <2>3. d \in EmType /\ d.bits = e.bits /\ d.queue = t /\ d.full = 0
    BY Zenon, <2>2 DEF EmType
  <2> QED
    BY Zenon, <2>3 DEF a, b
<1>3. Rest(e) = [e EXCEPT !.queue = Tail(e.queue), !.full = 0, !.inh = 0]
  BY Zenon DEF Rest
<1>4. Rest(e) \in EmType /\ Rest(e).bits = e.bits /\ Rest(e).queue = Tail(e.queue)
      /\ Rest(e).full = 0
  BY Zenon, <1>1, <1>2, <1>3
<1>5. EmOK(Rest(e))
  BY <1>0, <1>1, <1>4 DEF EmOK
<1> QED
  BY Zenon, <1>1, <1>4, <1>5 DEF EmSent, Rest

LEMMA SentFacts ==
    ASSUME NEW e, EmOK(e), e.queue # << >>
    PROVE  LET r == EmSent(e) IN
           EmOK(r) /\ r.reg = Rest(e).reg /\ r.bits \ {"emFull"} = e.bits \ {"emFull"}
<1>0. "emFull" \in Bits
  BY Zenon, EmAssumption
<1>1. EmSent(e) = ErrorReport(Rest(e), "emFull") \/ EmSent(e) = ErrorReset(Rest(e), "emFull")
  BY Zenon, RestFacts
<1> QED
  BY <1>0, <1>1, RestFacts, ReportFacts, ResetFacts

LEMMA SentInforms ==
    ASSUME NEW e, EmOK(e), NEW h \in HeardType, Informed(e, h),
           e.queue # << >>
    PROVE  LET m == Head(e.queue)
               g == [bits |-> Apply(h.bits, m), warned |-> h.warned \/ m.bit = "emFull"]
           IN  g \in HeardType /\ Informed(EmSent(e), g)
<1> DEFINE m == Head(e.queue)
           g == [bits |-> Apply(h.bits, m), warned |-> h.warned \/ m.bit = "emFull"]
           d == Rest(e)
<1>0. "emFull" \in Bits
  BY Zenon, EmAssumption
<1>1. m \in EmMessage /\ e.queue \in Seq(EmMessage) /\ EmOK(d) /\ d.bits = e.bits
      /\ d.full = 0 /\ d.queue = Tail(e.queue)
  BY Zenon, RestFacts
<1>2. g \in HeardType
  <2>1. Apply(h.bits, m) \subseteq Bits
    BY Zenon, <1>1 DEF Apply, EmMessage, HeardType
  <2>2. (h.warned \/ m.bit = "emFull") \in BOOLEAN
    BY Zenon
  <2> QED
    BY Zenon, <2>1, <2>2 DEF HeardType
<1>3. g.bits = Apply(h.bits, m) /\ (g.warned <=> h.warned \/ m.bit = "emFull")
  BY Zenon
<1> HIDE DEF d, g
<1>4. m = e.queue[1]
  BY <1>1
<1> HIDE DEF m
<1>5. After(g.bits, d.queue) = After(h.bits, e.queue)
  BY Zenon, <1>1, <1>3, AfterTail DEF m, HeardType
<1>6. Warned(e, h) => Warned(d, g)
  <2>1. ASSUME NEW k \in About(e.queue, "emFull") PROVE Warned(d, g)
    <3>1. CASE k = 1
      BY Zenon, <1>3, <1>4, <3>1 DEF Warned, About
    <3>2. CASE k # 1
      <4>1. k - 1 \in DOMAIN Tail(e.queue) /\ Tail(e.queue)[k - 1] = e.queue[k]
        BY <1>1, <3>2 DEF About
      <4> QED
        BY Zenon, <1>1, <4>1 DEF Warned, About
    <3> QED
      BY Zenon, <3>1, <3>2
  <2> QED
    BY Zenon, <1>3, <2>1 DEF Warned
<1>7. CASE e.full = 2
  <2> DEFINE r == ErrorReport(d, "emFull")
  <2>1. EmSent(e) = r
    BY Zenon, <1>7, RestFacts DEF d
  <2>2. Warned(r, g)
    <3>1. CASE "emFull" \in d.bits
      BY Zenon, <1>1, <1>6, <3>1 DEF ErrorReport, Informed
    <3>2. CASE "emFull" \notin d.bits
      <4> DEFINE a == [bit |-> "emFull", on |-> TRUE]
                 c == [d EXCEPT !.bits = @ \cup {"emFull"}]
      <4>1. EmOK(c) /\ c.full = 0 /\ c.queue = d.queue
        BY Zenon, <1>0, <1>1 DEF EmOK, EmType
      <4>2. a \in EmMessage /\ a.bit = "emFull"
        BY Zenon, <1>0 DEF EmMessage
      <4>3. r = Enqueue(c, a)
        BY Zenon, <3>2 DEF ErrorReport
      <4> HIDE DEF a, c, r
      <4>4. r.queue = Append(c.queue, a)
        BY Zenon, <4>1, <4>2, <4>3, EnqueueFacts
      <4>5. c.queue \in Seq(EmMessage)
        BY Zenon, <4>1 DEF EmOK, EmType
      <4>6. Len(c.queue) + 1 \in About(r.queue, "emFull")
        BY <4>2, <4>4, <4>5 DEF About
      <4> QED
        BY Zenon, <4>6 DEF Warned
    <3> QED
      BY Zenon, <3>1, <3>2
  <2> HIDE DEF r
  <2>3. Informed(r, g)
    BY Zenon, <2>2 DEF Informed
  <2> QED
    BY Zenon, <1>2, <2>1, <2>3 DEF g, m
<1>8. CASE e.full # 2
  <2>1. Informed(d, g)
    BY Zenon, <1>1, <1>5, <1>6, <1>8 DEF Informed
  <2>2. EmSent(e) = ErrorReset(d, "emFull")
    BY Zenon, <1>8, RestFacts DEF d
  <2>3. Informed(ErrorReset(d, "emFull"), g)
    BY Zenon, <1>0, <1>1, <1>2, <2>1, ResetInforms
  <2> QED
    BY Zenon, <1>2, <2>2, <2>3 DEF g, m
<1> QED
  BY Zenon, <1>7, <1>8

----------------------------------------------------------------------------
(* Types.                                                                  *)

LEMMA Constants ==
    /\ Entries \in Nat \ {0} /\ MaxDue \in Nat \ {0} /\ HbTime \in Nat \ {0}
    /\ ConsTime \in Nat \ {0} /\ FirstHb \in 0 .. HbTime
    /\ \A c \in Configs : /\ c.startup \in BOOLEAN /\ c.eb \in [0 .. 5 -> Nat]
                          /\ c.used \in Nat /\ c.max \in Nat
  BY Zenon, NodeAssumption

LEMMA EmInitOK == EmOK(EmInit) /\ EmInit.bits = {} /\ EmInit.reg = {} /\ EmInit.queue = << >>
<1>0. << >> \in Seq(EmMessage) /\ Len(<< >>) = 0 /\ EmSlots \in Nat \ {0}
  BY EmAssumption
<1> QED
  BY <1>0 DEF EmOK, EmType, EmInit

LEMMA EntryOK ==
    ASSUME NEW e \in [node: Ids, time: {0, ConsTime}]
    PROVE  /\ Entry(e) \in HbEntry /\ Entry(e).node = e.node /\ Entry(e).st # "timeout"
           /\ Entry(e).st = "unconf" <=> ~Used(e)
  BY Constants DEF Entry, HbEntry, HbStates

LEMMA TypeInit == Init => NodeTypeOK
<1> SUFFICES ASSUME Init PROVE NodeTypeOK
  BY Zenon
<1>1. nmt \in NmtType
  BY Constants DEF Init, NmtInit, NmtType, NmtStates
<1>2. odTime \in [Idx -> [node: Ids, time: {0, ConsTime}]]
  BY Zenon, Constants DEF Init, Ids
<1>3. hb \in [Idx -> HbEntry]
  BY Zenon, <1>2, EntryOK DEF Init
<1>4. cons \in [active: BOOLEAN, op: BOOLEAN, prevOp: BOOLEAN]
  BY Zenon DEF Init, ConsInit
<1>5. loc \in LocType /\ loc.pc = "idle" /\ loc.i = 1
  BY Zenon DEF Init, LocInit, LocType, NmtSteps
<1>6. heard \in HeardType
  BY Zenon DEF Init, HeardInit, HeardType
<1>7. 1 \in Idx /\ conf \in Configs /\ conf.max \in Nat /\ events = 0 /\ due = 0 /\ can = {}
  BY Constants DEF Init, Idx
<1> QED
  BY <1>1, <1>2, <1>3, <1>4, <1>5, <1>6, <1>7, EmInitOK, Constants DEF Init, NodeTypeOK

LEMMA AskedState == Asked \in {"op", "pre", "stop"}
  BY Zenon DEF Asked, Behave

LEMMA CommandOK ==
    ASSUME NodeTypeOK, NEW cmd
    PROVE  Command(cmd) \in NmtType
  BY Zenon DEF NodeTypeOK, NmtType, Command, NmtStates

----------------------------------------------------------------------------
(* What the steps do to the entries of the consumer.                       *)

\* Entry i becomes an entry for the same node, in state st; the others stay.
EntryStep(i, st) ==
    /\ hb' \in [Idx -> HbEntry]
    /\ \A j \in Idx : j # i => hb'[j] = hb[j]
    /\ hb'[i].node = hb[i].node /\ hb'[i].st = st

LEMMA Put ==
    ASSUME hb \in [Idx -> HbEntry], NEW i \in Idx, NEW n \in HbEntry,
           n.node = hb[i].node, hb' = [hb EXCEPT ![i] = n]
    PROVE  EntryStep(i, n.st)
  BY Zenon DEF EntryStep

LEMMA StepReceive ==
    ASSUME NodeTypeOK, NEW i \in Idx, NEW s \in Remote, HbReceive(i, s)
    PROVE  EntryStep(i, hb[i].st)
<1> DEFINE n == [hb[i] EXCEPT !.nmt = s, !.new = TRUE]
<1>1. hb \in [Idx -> HbEntry] /\ hb[i] \in HbEntry
  BY Zenon DEF NodeTypeOK
<1>2. n \in HbEntry /\ n.node = hb[i].node /\ n.st = hb[i].st
  BY Zenon, <1>1 DEF HbEntry
<1>3. hb' = [hb EXCEPT ![i] = n]
  BY Zenon, <1>1 DEF HbReceive
<1> QED
  BY Zenon, <1>1, <1>2, <1>3, Put

LEMMA StepForget ==
    ASSUME NodeTypeOK, HbForget
    PROVE  loc.i \in Idx /\ EntryStep(loc.i, hb[loc.i].st)
<1> DEFINE n == [hb[loc.i] EXCEPT !.nmt = "unknown"]
<1>1. hb \in [Idx -> HbEntry] /\ loc.i \in Idx /\ hb[loc.i] \in HbEntry
  BY Zenon DEF NodeTypeOK, HbForget, At
<1>2. n \in HbEntry /\ n.node = hb[loc.i].node /\ n.st = hb[loc.i].st
  BY Zenon, <1>1 DEF HbEntry
<1>3. hb' = [hb EXCEPT ![loc.i] = n]
  BY Zenon, <1>1 DEF HbForget
<1> QED
  BY Zenon, <1>1, <1>2, <1>3, Put

LEMMA StepForget2 ==
    ASSUME NodeTypeOK, HbForget2
    PROVE  /\ loc.i \in Idx
           /\ EntryStep(loc.i, IF hb[loc.i].st = "unconf" THEN "unconf" ELSE "unknown")
<1> DEFINE st == IF hb[loc.i].st = "unconf" THEN "unconf" ELSE "unknown"
           n == [hb[loc.i] EXCEPT !.new = FALSE, !.st = st, !.timer = 0]
<1>1. hb \in [Idx -> HbEntry] /\ loc.i \in Idx /\ hb[loc.i] \in HbEntry
  BY Zenon DEF NodeTypeOK, HbForget2, At
<1>2. hb' = [hb EXCEPT ![loc.i] = n]
  BY Zenon, <1>1 DEF HbForget2
<1>3. st \in HbStates
  BY Zenon DEF HbStates
<1>4. 0 \in 0 .. ConsTime
  BY Constants
<1> HIDE DEF st
<1>5. n \in HbEntry /\ n.node = hb[loc.i].node /\ n.st = st
  BY Zenon, <1>1, <1>3, <1>4 DEF HbEntry
<1>6. EntryStep(loc.i, st)
  BY Zenon, <1>1, <1>2, <1>5, Put
<1> QED
  BY Zenon, <1>1, <1>6 DEF st

LEMMA StepRead ==
    ASSUME NodeTypeOK, HbRead
    PROVE  /\ loc.i \in Idx /\ hb[loc.i].st # "unconf"
           /\ hb[loc.i].nmt = "init" => EntryStep(loc.i, "unknown")
           /\ hb[loc.i].nmt # "init" => EntryStep(loc.i, "active")
<1>1. hb \in [Idx -> HbEntry] /\ loc.i \in Idx /\ hb[loc.i] \in HbEntry
  BY Zenon DEF NodeTypeOK, HbRead, At
<1>2. 0 \in 0 .. ConsTime
  BY Constants
<1>3. ASSUME NEW st \in HbStates, hb' = [hb EXCEPT ![loc.i].st = st, ![loc.i].timer = 0]
      PROVE  EntryStep(loc.i, st)
  <2> DEFINE n == [hb[loc.i] EXCEPT !.st = st, !.timer = 0]
  <2>1. n \in HbEntry /\ n.node = hb[loc.i].node /\ n.st = st
    BY Zenon, <1>1, <1>2 DEF HbEntry
  <2>2. hb' = [hb EXCEPT ![loc.i] = n]
    BY Zenon, <1>1, <1>3
  <2> QED
    BY Zenon, <1>1, <2>1, <2>2, Put
<1> QED
  BY Zenon, <1>1, <1>3 DEF HbRead, Working, HbStates

LEMMA StepClear ==
    ASSUME NodeTypeOK, HbClear
    PROVE  loc.i \in Idx /\ EntryStep(loc.i, hb[loc.i].st)
<1> DEFINE n == [hb[loc.i] EXCEPT !.new = FALSE]
<1>1. hb \in [Idx -> HbEntry] /\ loc.i \in Idx /\ hb[loc.i] \in HbEntry
  BY Zenon DEF NodeTypeOK, HbClear, At
<1>2. n \in HbEntry /\ n.node = hb[loc.i].node /\ n.st = hb[loc.i].st
  BY Zenon, <1>1 DEF HbEntry
<1>3. hb' = [hb EXCEPT ![loc.i] = n]
  BY Zenon, <1>1 DEF HbClear
<1> QED
  BY Zenon, <1>1, <1>2, <1>3, Put

\* An entry that is late has timed out, and the alarm is raised with it.
LEMMA StepTimer ==
    ASSUME NodeTypeOK, HbTimer
    PROVE  /\ loc.i \in Idx
           /\ \/ /\ hb[loc.i].st = "active" /\ EntryStep(loc.i, "timeout")
                 /\ em' = ErrorReport(em, "hbTimeout")
              \/ EntryStep(loc.i, hb[loc.i].st) /\ em' = em
           /\ \E op : NextEntry("hbRead", hb'[loc.i].st = "active", op)
<1> DEFINE n == hb[loc.i]
           t == Advanced(n.timer)
           late == n.st = "active" /\ t >= ConsTime
           n1 == CASE late -> [n EXCEPT !.timer = 0, !.nmt = "unknown", !.st = "timeout"]
                   [] n.st = "active" /\ ~late -> [n EXCEPT !.timer = t]
                   [] OTHER -> n
<1>1. hb \in [Idx -> HbEntry] /\ loc.i \in Idx /\ n \in HbEntry /\ loc.diff \in Nat
  BY Zenon DEF NodeTypeOK, LocType, HbTimer, At
<1>2. t \in 0 .. ConsTime
  BY SMTT(30), <1>1, Constants DEF HbEntry, Advanced, Capped
<1>3. hb' = [hb EXCEPT ![loc.i] = n1]
      /\ em' = (IF late THEN ErrorReport(em, "hbTimeout") ELSE em)
      /\ NextEntry("hbRead", n1.st = "active", n1.nmt = "op")
  BY Zenon DEF HbTimer
<1>4. CASE late
  <2>1. n1 = [n EXCEPT !.timer = 0, !.nmt = "unknown", !.st = "timeout"]
    BY Zenon, <1>4
  <2>2. 0 \in 0 .. ConsTime /\ "timeout" \in HbStates
    BY Constants DEF HbStates
  <2> HIDE DEF n, n1, late
  <2>3. n1 \in HbEntry /\ n1.node = n.node /\ n1.st = "timeout"
    BY Zenon, <1>1, <2>1, <2>2 DEF HbEntry
  <2>4. EntryStep(loc.i, "timeout")
    BY Zenon, <1>1, <1>3, <2>3, Put DEF n
  <2>5. hb'[loc.i] = n1
    BY Zenon, <1>1, <1>3
  <2> QED
    BY Zenon, <1>1, <1>3, <1>4, <2>4, <2>5 DEF n, late
<1>5. CASE ~late
  <2>1. n1 = [n EXCEPT !.timer = t] \/ n1 = n
    BY Zenon, <1>5
  <2> HIDE DEF n, n1, late, t
  <2>2. n1 \in HbEntry /\ n1.node = n.node /\ n1.st = n.st
    BY Zenon, <1>1, <1>2, <2>1 DEF HbEntry
  <2>3. EntryStep(loc.i, n.st)
    BY Zenon, <1>1, <1>3, <2>2, Put DEF n
  <2>4. hb'[loc.i] = n1
    BY Zenon, <1>1, <1>3
  <2> QED
    BY Zenon, <1>1, <1>3, <1>5, <2>3, <2>4 DEF n
<1> QED
  BY Zenon, <1>4, <1>5

----------------------------------------------------------------------------
(* The steps keep the types.                                               *)

LEMMA TypeAround ==
    ASSUME NodeTypeOK,
           \/ Tick
           \/ \E c \in {CanErrors[k] : k \in DOMAIN CanErrors} : DriverError(c)
           \/ \E cmd \in Commands : NmtReceive(cmd) \/ NmtSendCommand(cmd)
           \/ \E i \in Idx, s \in Remote : HbReceive(i, s)
           \/ \E i \in Idx, n \in Nodes \cup {0}, t \in {0, ConsTime} :
                Reconfigure(i, [node |-> n, time |-> t])
    PROVE  NodeTypeOK'
<1>0. conf \in Configs /\ conf.max \in Nat /\ events \in 0 .. conf.max
  BY Zenon, Constants DEF NodeTypeOK
<1>1. CASE Tick
  BY <1>1, Constants DEF Tick, NodeTypeOK
<1>2. ASSUME NEW c \in {CanErrors[k] : k \in DOMAIN CanErrors}, DriverError(c)
      PROVE  NodeTypeOK'
  <2>1. c \in Bits
    BY SMTT(30), EmAssumption
  <2>2. can' \subseteq Bits
    BY ZenonT(30), <1>2, <2>1 DEF DriverError, NodeTypeOK
  <2> QED
    BY <1>0, <1>2, <2>2 DEF DriverError, Event, NodeTypeOK
<1>3. ASSUME NEW cmd \in Commands, NmtReceive(cmd) \/ NmtSendCommand(cmd)
      PROVE  NodeTypeOK'
  BY <1>0, <1>3, CommandOK DEF NmtReceive, NmtSendCommand, Event, NodeTypeOK
<1>4. ASSUME NEW i \in Idx, NEW s \in Remote, HbReceive(i, s)
      PROVE  NodeTypeOK'
  <2>1. hb' \in [Idx -> HbEntry]
    BY Zenon, <1>4, StepReceive DEF EntryStep
  <2>2. events' \in 0 .. conf.max
    BY SMTT(30), <1>0, <1>4 DEF HbReceive, Event
  <2> QED
    BY Zenon, <1>4, <2>1, <2>2 DEF HbReceive, NodeTypeOK
<1>5. ASSUME NEW i \in Idx, NEW n \in Nodes \cup {0}, NEW t \in {0, ConsTime},
             Reconfigure(i, [node |-> n, time |-> t])
      PROVE  NodeTypeOK'
  <2>1. [node |-> n, time |-> t] \in [node: Ids, time: {0, ConsTime}]
    BY Zenon DEF Ids
  <2>2. hb' \in [Idx -> HbEntry]
    BY Zenon, <1>5, <2>1, EntryOK DEF Reconfigure, NodeTypeOK
  <2>3. odTime' \in [Idx -> [node: Ids, time: {0, ConsTime}]]
    BY Zenon, <1>5, <2>1 DEF Reconfigure, NodeTypeOK
  <2> QED
    BY <1>0, <1>5, <2>2, <2>3 DEF Reconfigure, Event, NodeTypeOK
<1> QED
  BY Zenon, <1>1, <1>2, <1>3, <1>4, <1>5

LEMMA TypeEmergency ==
    ASSUME NodeTypeOK, Begin \/ Reinit \/ EmFollow \/ EmProcess
    PROVE  NodeTypeOK'
<1>0. loc \in LocType /\ em.can \subseteq Bits /\ 1 \in Idx /\ due \in Nat
      /\ CanErrors \in Seq(Bits) /\ Len(CanErrors) \in Nat \ {0}
      /\ DOMAIN CanErrors = 1 .. Len(CanErrors)
  BY Constants, EmAssumption DEF NodeTypeOK, EmOK, EmType, Idx
<1>1. CASE Begin
  <2>1. loc' \in LocType /\ loc'.pc = "emCan" /\ loc'.i = 1
    <3>1. IsOp \in BOOLEAN
      BY DEF IsOp
    <3>2. loc' = [pc |-> "emCan", i |-> 1, isOp |-> IsOp, dt |-> due, diff |-> 0,
                  active |-> TRUE, op |-> TRUE, ret |-> "no"]
      BY Zenon, <1>1 DEF Begin, LocInit
    <3> QED
      BY Zenon, <1>0, <3>1, <3>2 DEF LocType
  <2> QED
    BY <1>0, <1>1, <2>1, Constants DEF Begin, NodeTypeOK
<1>2. CASE Reinit
  <2>1. nmt' \in NmtType
    BY <1>2, Constants DEF Reinit, NmtInit, NmtType, NmtStates
  <2>2. loc' \in LocType /\ loc'.pc = "idle" /\ loc'.i = 1
    BY Zenon, <1>2 DEF Reinit, LocInit, LocType, NmtSteps
  <2>3. hb' \in [Idx -> HbEntry]
    BY Zenon, <1>2, EntryOK DEF Reinit, NodeTypeOK
  <2>4. heard' \in HeardType /\ cons' \in [active: BOOLEAN, op: BOOLEAN, prevOp: BOOLEAN]
    BY Zenon, <1>2 DEF Reinit, HeardInit, HeardType, ConsInit
  <2>5. EmOK(em')
    BY Zenon, <1>2, EmInitOK DEF Reinit
  <2> QED
    BY <1>0, <1>2, <2>1, <2>2, <2>3, <2>4, <2>5, Constants DEF Reinit, NodeTypeOK
<1>3. CASE EmFollow
  <2> DEFINE e == Follow(em, CanErrors[loc.i], can)
             last == loc.i = Len(CanErrors)
  <2>1. loc.i \in DOMAIN CanErrors /\ CanErrors[loc.i] \in Bits
    BY <1>0, <1>3 DEF EmFollow, At, NodeTypeOK
  <2>2. EmOK(e)
    BY Zenon, <2>1, FollowFacts DEF NodeTypeOK
  <2>3. em' = (IF last THEN [e EXCEPT !.can = can] ELSE e)
        /\ loc' = [loc EXCEPT !.pc = IF last THEN "em" ELSE @, !.i = IF last THEN 1 ELSE @ + 1]
    BY Zenon, <1>3 DEF EmFollow
  <2>4. can \in SUBSET Bits
    BY Zenon DEF NodeTypeOK
  <2> HIDE DEF e
  <2>5. EmOK([e EXCEPT !.can = can])
    BY Zenon, <2>2, <2>4 DEF EmOK, EmType
  <2>6. loc' \in LocType /\ loc'.i \in (IF loc'.pc = "emCan" THEN DOMAIN CanErrors ELSE Idx)
    <3>1. CASE last
      <4>1. loc' = [loc EXCEPT !.pc = "em", !.i = 1]
        BY Zenon, <2>3, <3>1
      <4> QED
        BY Zenon, <1>0, <4>1 DEF LocType, NmtSteps
    <3>2. CASE ~last
      <4>1. loc' = [loc EXCEPT !.i = @ + 1]
        BY Zenon, <1>0, <2>3, <3>2 DEF LocType
      <4>2. loc.i \in Nat /\ loc.i + 1 \in DOMAIN CanErrors
        BY <1>0, <2>1, <3>2
      <4> QED
        BY <1>0, <1>3, <4>1, <4>2 DEF LocType, EmFollow, At
    <3> QED
      BY Zenon, <3>1, <3>2
  <2> QED
    BY Zenon, <1>3, <2>2, <2>3, <2>5, <2>6 DEF EmFollow, NodeTypeOK
<1>4. CASE EmProcess
  <2> DEFINE e == EmReady(em, loc.dt)
             m == Head(e.queue)
             g == [bits |-> Apply(heard.bits, m), warned |-> heard.warned \/ m.bit = "emFull"]
  <2>1. EmOK(e)
    BY Zenon, <1>0, ReadyFacts DEF NodeTypeOK, LocType
  <2>2. \/ e.queue # << >> /\ em' = EmSent(e) /\ heard' = g
        \/ em' = e /\ heard' = heard
    BY Zenon, <1>4 DEF EmProcess, EmSends
  <2>3. loc' \in LocType /\ loc'.i = loc.i /\ loc'.pc # "emCan" /\ loc.pc # "emCan"
    BY Zenon, <1>0, <1>4 DEF EmProcess, Go, At, LocType, NmtSteps
  <2> HIDE DEF e
  <2>4. heard.bits \subseteq Bits /\ heard \in HeardType
    BY Zenon DEF NodeTypeOK, HeardType
  <2>5. EmOK(em')
    BY Zenon, <2>1, <2>2, SentFacts
  <2>6. ASSUME e.queue # << >> PROVE g \in HeardType
    <3>1. m \in EmMessage
      BY Zenon, <2>1, <2>6, RestFacts
    <3> HIDE DEF m
    <3>2. Apply(heard.bits, m) \subseteq Bits
      BY Zenon, <2>4, <3>1 DEF Apply, EmMessage
    <3>3. (heard.warned \/ m.bit = "emFull") \in BOOLEAN
      BY Zenon
    <3> QED
      BY Zenon, <3>2, <3>3 DEF HeardType
  <2>7. heard' \in HeardType
    BY Zenon, <2>2, <2>4, <2>6
  <2> QED
    BY Zenon, <1>4, <2>3, <2>5, <2>7 DEF EmProcess, NodeTypeOK
<1> QED
  BY Zenon, <1>1, <1>2, <1>3, <1>4

LEMMA TypeNmt ==
    ASSUME NodeTypeOK, NmtTest \/ NmtSend \/ NmtBoot \/ NmtPrev \/ NmtError \/ NmtLeave
    PROVE  NodeTypeOK'
<1>0. loc \in LocType /\ nmt \in NmtType
  BY Zenon DEF NodeTypeOK
<1>1. nmt' \in NmtType
  <2>1. CASE NmtTest
    BY <1>0, <2>1, Constants DEF NmtTest, NmtType, LocType, Capped
  <2>2. CASE NmtSend
    BY <1>0, <2>2, Constants DEF NmtSend, NmtType
  <2>3. CASE NmtBoot
    BY Zenon, <1>0, <2>3 DEF NmtBoot, NmtType, NmtStates
  <2>4. CASE NmtPrev
    BY Zenon, <1>0, <2>4 DEF NmtPrev, NmtType
  <2>5. CASE NmtError
    BY Zenon, <1>0, <2>5 DEF NmtError
  <2>6. CASE NmtLeave
    <3>1. Asked \in NmtStates /\ HbTime \in 0 .. HbTime
      BY AskedState, Constants DEF NmtStates
    <3> QED
      BY Zenon, <1>0, <2>6, <3>1 DEF NmtLeave, NmtType
  <2> QED
    BY Zenon, <2>1, <2>2, <2>3, <2>4, <2>5, <2>6
<1>2. loc' \in LocType /\ loc'.i = loc.i /\ loc'.pc # "emCan" /\ loc.pc # "emCan"
  <2>1. nmt.reset \in {"no", "reset"}
    BY Zenon, <1>0 DEF NmtType
  <2> QED
    BY ZenonT(30), <1>0, <2>1 DEF NmtTest, NmtSend, NmtBoot, NmtPrev, NmtError, NmtLeave, Go, At, LocType,
                      NmtSteps, HbPart
<1> QED
  BY Zenon, <1>1, <1>2 DEF NmtTest, NmtSend, NmtBoot, NmtPrev, NmtError, NmtLeave, NodeTypeOK

\* On to the next entry, or to the end.
LEMMA NextFacts ==
    ASSUME NodeTypeOK, loc.pc # "emCan", NEW pc \in {"hbForget", "hbRead"},
           NEW a \in BOOLEAN, NEW o, NextEntry(pc, a, o)
    PROVE  /\ loc' \in LocType /\ loc'.i \in Idx
           /\ (loc'.active <=> loc.active /\ a) /\ (loc'.isOp <=> loc.isOp)
           /\ loc.i < Entries => loc'.pc = pc /\ loc'.i = loc.i + 1
           /\ ~(loc.i < Entries) => loc'.pc = "hbEnd" /\ loc'.i = loc.i /\ loc.i = Entries
<1> DEFINE p == IF loc.i < Entries THEN pc ELSE "hbEnd"
           k == IF loc.i < Entries THEN loc.i + 1 ELSE loc.i
           x == loc.active /\ a
           y == loc.op /\ o
<1>0. loc \in LocType /\ loc.i \in Idx /\ Entries \in Nat
  BY Zenon, Constants DEF NodeTypeOK
<1>1. p \in HbPart /\ k \in Idx /\ k \in Nat /\ (loc.i < Entries => k = loc.i + 1 /\ p = pc)
      /\ (~(loc.i < Entries) => k = loc.i /\ p = "hbEnd" /\ loc.i = Entries)
  BY <1>0 DEF HbPart, Idx
<1>2. x \in BOOLEAN /\ y \in BOOLEAN
  BY Zenon
<1>3. loc' = [loc EXCEPT !.pc = p, !.i = k, !.active = x, !.op = y]
  BY Zenon, <1>0 DEF NextEntry, LocType
<1> HIDE DEF p, k, x, y
<1>4. loc' \in LocType /\ loc'.i = k /\ loc'.pc = p /\ loc'.active = x /\ loc'.isOp = loc.isOp
  BY Zenon, <1>0, <1>1, <1>2, <1>3 DEF LocType
<1> QED
  BY Zenon, <1>1, <1>4 DEF x

LEMMA TypeHeartbeat ==
    ASSUME NodeTypeOK,
           \/ HbBegin \/ HbForget \/ HbForget2 \/ HbRead \/ HbClear \/ HbNone \/ HbSkip
           \/ HbTimer \/ HbEnd
    PROVE  NodeTypeOK'
<1>0. loc \in LocType /\ loc.pc # "emCan" /\ loc.i \in Idx /\ 1 \in Idx /\ loc.dt \in Nat
      /\ EmOK(em) /\ HbAlarms \subseteq Bits
  <2>1. loc.pc # "emCan"
    BY Zenon DEF At, HbBegin, HbForget, HbForget2, HbRead, HbClear, HbNone, HbSkip, HbTimer, HbEnd
  <2>2. loc \in LocType /\ loc.i \in Idx /\ EmOK(em)
    BY Zenon, <2>1 DEF NodeTypeOK
  <2> QED
    BY <2>1, <2>2, Constants, EmAssumption DEF LocType, Idx
<1>1. CASE HbBegin
  <2>1. loc' \in LocType /\ loc'.i = 1 /\ loc'.pc # "emCan"
    <3> DEFINE p == CASE loc.isOp /\ cons.prevOp -> "hbRead"
                      [] loc.isOp # cons.prevOp  -> "hbForget"
                      [] OTHER                   -> "hbEnd"
    <3>1. p \in HbPart /\ p # "emCan"
      BY Zenon DEF HbPart
    <3>2. loc' = [loc EXCEPT !.i = 1, !.diff = loc.dt, !.pc = p]
      BY Zenon, <1>1 DEF HbBegin
    <3> HIDE DEF p
    <3> QED
      BY Zenon, <1>0, <3>1, <3>2 DEF LocType
  <2> QED
    BY <1>0, <1>1, <2>1 DEF HbBegin, NodeTypeOK
<1>2. CASE HbForget
  <2>1. loc' \in LocType /\ loc'.i = loc.i /\ loc'.pc # "emCan"
    BY Zenon, <1>0, <1>2 DEF HbForget, Go, LocType, HbPart
  <2> QED
    BY Zenon, <1>0, <1>2, <2>1, StepForget DEF HbForget, EntryStep, NodeTypeOK
<1>3. CASE HbForget2
  <2>1. loc' \in LocType /\ loc'.i \in Idx /\ loc'.pc # "emCan"
    BY Zenon, <1>0, <1>3, NextFacts DEF HbForget2
  <2> QED
    BY Zenon, <1>0, <1>3, <2>1, StepForget2 DEF HbForget2, EntryStep, NodeTypeOK
<1>4. CASE HbRead
  <2>1. loc' \in LocType /\ loc'.i = loc.i /\ loc'.pc # "emCan"
    <3>1. PICK d \in Nat : loc' = [loc EXCEPT !.pc = "hbClear", !.diff = d]
      BY Zenon, <1>0, <1>4 DEF HbRead
    <3> QED
      BY Zenon, <1>0, <3>1 DEF LocType, HbPart
  <2>2. EmOK(em')
    BY <1>0, <1>4, ReportFacts DEF HbRead, HbAlarms
  <2>3. hb' \in [Idx -> HbEntry]
    BY Zenon, <1>4, StepRead DEF EntryStep
  <2> QED
    BY Zenon, <1>0, <1>4, <2>1, <2>2, <2>3 DEF HbRead, NodeTypeOK
<1>5. CASE HbClear
  <2>1. loc' \in LocType /\ loc'.i = loc.i /\ loc'.pc # "emCan"
    BY Zenon, <1>0, <1>5 DEF HbClear, Go, LocType, HbPart
  <2> QED
    BY Zenon, <1>0, <1>5, <2>1, StepClear DEF HbClear, EntryStep, NodeTypeOK
<1>6. CASE HbNone
  <2>1. loc' \in LocType /\ loc'.i = loc.i /\ loc'.pc # "emCan"
    BY Zenon, <1>0, <1>6 DEF HbNone, LocType, HbPart
  <2> QED
    BY Zenon, <1>0, <1>6, <2>1 DEF HbNone, NodeTypeOK
<1>7. CASE HbSkip
  <2>1. loc' \in LocType /\ loc'.i \in Idx /\ loc'.pc # "emCan"
    BY Zenon, <1>0, <1>7, NextFacts DEF HbSkip
  <2> QED
    BY Zenon, <1>0, <1>7, <2>1 DEF HbSkip, NodeTypeOK
<1>8. CASE HbTimer
  <2>1. PICK op : NextEntry("hbRead", hb'[loc.i].st = "active", op)
    BY Zenon, <1>8, StepTimer
  <2>2. loc' \in LocType /\ loc'.i \in Idx /\ loc'.pc # "emCan"
    BY ZenonT(30), <1>0, <2>1, NextFacts
  <2>3. EmOK(em')
    BY <1>0, <1>8, StepTimer, ReportFacts DEF HbAlarms
  <2>4. hb' \in [Idx -> HbEntry]
    BY Zenon, <1>8, StepTimer DEF EntryStep
  <2> QED
    BY Zenon, <1>0, <1>8, <2>2, <2>3, <2>4 DEF HbTimer, NodeTypeOK
<1>9. CASE HbEnd
  <2>1. loc' \in LocType /\ loc'.i = loc.i /\ loc'.pc # "emCan"
    BY Zenon, <1>0, <1>9 DEF HbEnd, Go, LocType, NmtSteps
  <2>2. EmOK(em')
    <3>1. "hbTimeout" \in Bits /\ "hbReset" \in Bits
      BY Zenon, <1>0 DEF HbAlarms
    <3>2. EmOK(ErrorReset(em, "hbTimeout"))
      BY Zenon, <1>0, <3>1, ResetFacts
    <3> QED
      BY Zenon, <1>0, <1>9, <3>1, <3>2, ResetFacts DEF HbEnd, AllBack
  <2>3. cons' \in [active: BOOLEAN, op: BOOLEAN, prevOp: BOOLEAN]
    BY Zenon, <1>0, <1>9 DEF HbEnd, LocType
  <2> QED
    BY Zenon, <1>0, <1>9, <2>1, <2>2, <2>3 DEF HbEnd, NodeTypeOK
<1> QED
  BY Zenon, <1>1, <1>2, <1>3, <1>4, <1>5, <1>6, <1>7, <1>8, <1>9

\* The state of NMT, heartbeat consumer and emergency producer stays well formed for
\* every number of entries, nodes and ring slots, whatever is received or written.
THEOREM NodeTypes == Spec => []NodeTypeOK
<1>1. NodeTypeOK /\ [Next]_vars => NodeTypeOK'
  <2> SUFFICES ASSUME NodeTypeOK, [Next]_vars PROVE NodeTypeOK'
    BY Zenon
  <2>1. CASE Process
    BY Zenon, <2>1, TypeEmergency, TypeNmt, TypeHeartbeat DEF Process
  <2>2. CASE Next /\ ~Process
    BY Zenon, <2>2, TypeAround DEF Next
  <2>3. CASE UNCHANGED vars
    BY Zenon, <2>3 DEF vars, NodeTypeOK
  <2> QED
    BY Zenon, <2>1, <2>2, <2>3
<1> QED
  BY <1>1, TypeInit, PTL DEF Spec

----------------------------------------------------------------------------
(* One entry per node.                                                     *)

\* An entry changes its state but not whether it is in use.
LEMMA EntriesKept ==
    ASSUME NodeTypeOK, EntriesInv, NEW i \in Idx, NEW st, EntryStep(i, st),
           st = "unconf" <=> hb[i].st = "unconf", odTime' = odTime
    PROVE  EntriesInv'
<1>1. \A j \in Idx : hb'[j].node = hb[j].node /\ (hb'[j].st = "unconf" <=> hb[j].st = "unconf")
  BY Zenon DEF EntryStep
<1> QED
  BY <1>1 DEF EntriesInv

LEMMA EntriesStep == NodeTypeOK /\ EntriesInv /\ [Next]_vars => EntriesInv'
<1> SUFFICES ASSUME NodeTypeOK, EntriesInv, [Next]_vars PROVE EntriesInv'
  BY Zenon
<1>1. CASE UNCHANGED <<hb, odTime>>
  BY Zenon, <1>1 DEF EntriesInv
<1>2. ASSUME NEW i \in Idx, NEW s \in Remote, HbReceive(i, s)
      PROVE  EntriesInv'
  BY Zenon, <1>2, StepReceive, EntriesKept DEF HbReceive
<1>3. ASSUME NEW i \in Idx, NEW n \in Nodes \cup {0}, NEW t \in {0, ConsTime},
             Reconfigure(i, [node |-> n, time |-> t])
      PROVE  EntriesInv'
  <2> DEFINE e == [node |-> n, time |-> t]
  <2>1. e \in [node: Ids, time: {0, ConsTime}]
    BY Zenon DEF Ids
  <2>2. hb' = [hb EXCEPT ![i] = Entry(e)] /\ odTime' = [odTime EXCEPT ![i] = e] /\ Accepts(i, e)
    BY Zenon, <1>3 DEF Reconfigure
  <2> HIDE DEF e
  <2>3. hb'[i] = Entry(e) /\ odTime'[i] = e
        /\ \A j \in Idx : j # i => hb'[j] = hb[j] /\ odTime'[j] = odTime[j]
    BY Zenon, <2>2 DEF NodeTypeOK
  <2>4. \A j \in Idx : /\ hb'[j].node = odTime'[j].node
                       /\ hb'[j].st = "unconf" <=> ~Used(odTime'[j])
    BY <2>1, <2>3, EntryOK DEF EntriesInv
  <2>5. ASSUME NEW j \in Idx, j # i, Used(e), Used(odTime[j]) PROVE odTime[j].node # e.node
    BY Zenon, <2>2, <2>5 DEF Accepts, Used
  <2>6. \A j, k \in Idx : j # k /\ Used(odTime'[j]) /\ Used(odTime'[k])
                             => odTime'[j].node # odTime'[k].node
    BY SMTT(30), <2>3, <2>5 DEF EntriesInv
  <2> QED
    BY Zenon, <2>4, <2>6 DEF EntriesInv
<1>4. CASE Reinit
  <2>1. \A j \in Idx : hb'[j] = Entry(odTime[j]) /\ odTime[j] \in [node: Ids, time: {0, ConsTime}]
    BY Zenon, <1>4 DEF Reinit, NodeTypeOK
  <2>2. odTime' = odTime
    BY Zenon, <1>4 DEF Reinit
  <2> QED
    BY SMTT(30), <2>1, <2>2, EntryOK DEF EntriesInv
<1>5. CASE HbForget
  BY Zenon, <1>5, StepForget, EntriesKept DEF HbForget
<1>6. CASE HbForget2
  BY Zenon, <1>6, StepForget2, EntriesKept DEF HbForget2
<1>7. CASE HbRead
  BY Zenon, <1>7, StepRead, EntriesKept DEF HbRead
<1>8. CASE HbClear
  BY Zenon, <1>8, StepClear, EntriesKept DEF HbClear
<1>9. CASE HbTimer
  <2>1. loc.i \in Idx /\ odTime' = odTime
    BY Zenon, <1>9, StepTimer DEF HbTimer
  <2>2. PICK st : EntryStep(loc.i, st) /\ (st = "unconf" <=> hb[loc.i].st = "unconf")
    BY <1>9, StepTimer
  <2> QED
    BY Zenon, <2>1, <2>2, EntriesKept
<1> QED
  <2>1. CASE Process
    BY Zenon, <1>1, <1>4, <1>5, <1>6, <1>7, <1>8, <1>9, <2>1
       DEF Process, Begin, EmFollow, EmProcess, NmtTest, NmtSend, NmtBoot, NmtPrev, NmtError,
           NmtLeave, HbBegin, HbNone, HbSkip, HbEnd
  <2>2. CASE Next /\ ~Process
    BY Zenon, <1>1, <1>2, <1>3, <2>2 DEF Next, Tick, DriverError, NmtReceive, NmtSendCommand
  <2>3. CASE UNCHANGED vars
    BY Zenon, <1>1, <2>3 DEF vars
  <2> QED
    BY Zenon, <2>1, <2>2, <2>3

\* CO_HBconsumer_initEntry and CO_ODF_1016 never set up two entries for the same
\* node, whatever the callbacks and CO_HBconsumer_process do in between.
THEOREM EntriesUnique == Spec => []OneEntryPerNode
<1>1. Init => EntriesInv
  <2> SUFFICES ASSUME Init PROVE EntriesInv
    BY Zenon
  <2>1. NodeTypeOK
    BY Zenon, TypeInit
  <2>2. \A j \in Idx : hb[j] = Entry(odTime[j]) /\ odTime[j] \in [node: Ids, time: {0, ConsTime}]
                       /\ odTime[j].node = j
    BY Zenon, <2>1 DEF Init, NodeTypeOK
  <2> QED
    BY <2>2, EntryOK DEF EntriesInv
<1>2. EntriesInv => OneEntryPerNode
  BY DEF EntriesInv, OneEntryPerNode
<1> QED
  BY <1>1, <1>2, EntriesStep, NodeTypes, PTL DEF Spec

----------------------------------------------------------------------------
(* A communication error and the state operational.                        *)

LEMMA ErrorAsks ==
    ASSUME "comm" \in em.reg, conf.eb[1] = 0
    PROVE  Asked # "op"
  BY Zenon DEF Asked, Behave

LEMMA StateStep == NodeTypeOK /\ StateInv /\ [Next]_vars => StateInv'
<1> SUFFICES ASSUME NodeTypeOK, StateInv, [Next]_vars, loc'.pc \in HbPart \cup {"idle"},
                    "comm" \in em'.reg, conf'.eb[1] = 0
             PROVE  nmt'.st # "op"
  BY Zenon DEF StateInv
<1>0. conf' = conf /\ EmOK(em) /\ "hbTimeout" \in Bits /\ "hbReset" \in Bits
  BY Zenon, EmAssumption
     DEF NodeTypeOK, HbAlarms, Next, Process, vars, Tick, DriverError, NmtReceive,
         NmtSendCommand, HbReceive, Reconfigure, Begin, Reinit, EmFollow, EmProcess, NmtTest,
         NmtSend, NmtBoot, NmtPrev, NmtError, NmtLeave, HbBegin, HbForget, HbForget2, HbRead,
         HbClear, HbNone, HbSkip, HbTimer, HbEnd
<1>1. CASE UNCHANGED nmt /\ em'.reg = em.reg /\ loc.pc \in HbPart \cup {"idle"}
  BY Zenon, <1>0, <1>1 DEF StateInv
<1>2. ASSUME NEW cmd, NmtReceive(cmd) \/ NmtSendCommand(cmd)
      PROVE  nmt'.st # "op"
  BY Zenon, <1>0, <1>2 DEF NmtReceive, NmtSendCommand, Command, StateInv, NodeTypeOK, NmtType
<1>3. CASE Reinit
  BY Zenon, <1>3 DEF Reinit, NmtInit
<1>4. CASE Begin \/ EmFollow \/ EmProcess \/ NmtTest \/ NmtSend \/ NmtBoot \/ NmtPrev
  <2>1. loc \in LocType
    BY Zenon DEF NodeTypeOK
  <2> QED
    BY ZenonT(30), <1>4, <2>1 DEF Begin, EmFollow, EmProcess, NmtTest, NmtSend, NmtBoot, NmtPrev, At, Go,
                      LocType, LocInit, HbPart
<1>5. CASE NmtError
  <2>1. loc'.pc # "nmtLeave" /\ em' = em /\ nmt' = nmt
    BY Zenon, <1>5 DEF NmtError, HbPart
  <2>2. nmt.st = "op" => Asked = "op"
    BY <1>5, <2>1 DEF NmtError, Go, NodeTypeOK, LocType
  <2> QED
    BY Zenon, <1>0, <2>1, <2>2, ErrorAsks
<1>6. CASE NmtLeave
  BY Zenon, <1>0, <1>6, ErrorAsks DEF NmtLeave, NodeTypeOK, NmtType
<1>7. CASE HbRead \/ HbTimer
  BY SMTT(30), <1>0, <1>1, <1>7, ReportFacts DEF HbRead, HbTimer, At, HbPart
<1>8. CASE HbEnd
  <2>1. EmOK(ErrorReset(em, "hbTimeout")) /\ ErrorReset(em, "hbTimeout").reg = em.reg
    BY Zenon, <1>0, ResetFacts
  <2>2. AllBack(em).reg = em.reg
    BY Zenon, <1>0, <2>1, ResetFacts DEF AllBack
  <2> QED
    BY ZenonT(30), <1>1, <1>8, <2>2 DEF HbEnd, At, HbPart
<1>9. CASE HbBegin \/ HbForget \/ HbForget2 \/ HbClear \/ HbNone \/ HbSkip
  BY ZenonT(30), <1>1, <1>9 DEF HbBegin, HbForget, HbForget2, HbClear, HbNone, HbSkip, At, HbPart
<1> QED
  <2>1. CASE Process
    BY Zenon, <1>3, <1>4, <1>5, <1>6, <1>7, <1>8, <1>9, <2>1 DEF Process
  <2>2. CASE Next /\ ~Process
    BY Zenon, <1>1, <1>2, <2>2 DEF Next, Tick, DriverError, HbReceive, Reconfigure
  <2>3. CASE UNCHANGED vars
    BY Zenon, <1>1, <2>3 DEF vars
  <2> QED
    BY <2>1, <2>2, <2>3

\* CO_NMT_process leaves operational on a communication error that errorBehavior[1]
\* wants to be answered, and neither CO_NMT_receive nor CO_NMT_sendCommand brings the
\* node back before the error register is made up again.
THEOREM ErrorsLeave == Spec => []ErrorLeavesOperational
<1>1. Init => StateInv
  BY Zenon, EmInitOK DEF Init, StateInv
<1>2. StateInv => ErrorLeavesOperational
  BY Zenon DEF StateInv, ErrorLeavesOperational, HbSteps, HbPart
<1> QED
  BY <1>1, <1>2, StateStep, NodeTypes, PTL DEF Spec

----------------------------------------------------------------------------
(* The two alarms of the heartbeat consumer.                               *)

\* No alarm is raised or reset, and no entry times out.
Quiet ==
    /\ em'.bits \cap HbAlarms = em.bits \cap HbAlarms /\ cons' = cons
    /\ \A j \in Idx : hb'[j].st = "timeout" => hb[j].st = "timeout"

LEMMA QuietFacts ==
    ASSUME AlarmInv, Quiet
    PROVE  /\ \A i \in Idx : hb'[i].st = "timeout" => "hbTimeout" \in em'.bits
           /\ \A S \in SUBSET Idx : NoTimeout(S) => NoTimeout(S)'
           /\ ~cons'.prevOp => NoTimeout(Idx)'
  BY Zenon DEF AlarmInv, HbAlarms, Quiet, NoTimeout

\* A quiet step that does not move CO_process on.
LEMMA AlarmAround ==
    ASSUME NodeTypeOK, AlarmInv, Quiet, loc' = loc,
           loc.pc \in {"hbClear", "hbTimer"} => hb'[loc.i].st = hb[loc.i].st
    PROVE  AlarmInv'
<1>1. loc.pc # "emCan" => 1 .. loc.i - 1 \in SUBSET Idx
  BY SMTT(30), Constants DEF NodeTypeOK, Idx
<1> QED
  BY Zenon, <1>1, QuietFacts DEF AlarmInv, Quiet

\* A quiet step of CO_process before the consumer's turn.
LEMMA AlarmBefore ==
    ASSUME NodeTypeOK, AlarmInv, Quiet,
           loc'.pc \notin (HbPart \ {"hb"}) \cup {"idle"}, loc.pc \notin {"hbClear", "hbTimer"},
           loc'.active => loc.active \/ loc.pc = "idle"
    PROVE  AlarmInv'
<1>1. cons'.active /\ loc'.active => em'.bits \cap HbAlarms = {}
  BY Zenon DEF AlarmInv, Quiet
<1> QED
  BY Zenon, <1>1, QuietFacts DEF AlarmInv, HbPart

LEMMA AlarmEmergency ==
    ASSUME NodeTypeOK, AlarmInv, Begin \/ Reinit \/ EmFollow \/ EmProcess
    PROVE  AlarmInv'
<1>0. loc \in LocType /\ EmOK(em) /\ hb \in [Idx -> HbEntry] /\ CanErrors \in Seq(Bits \ HbAlarms)
  BY EmAssumption DEF NodeTypeOK
<1>1. CASE Begin
  <2>1. Quiet /\ loc.pc = "idle" /\ loc'.pc = "emCan"
    BY Zenon, <1>1 DEF Begin, At, Quiet, LocInit
  <2> QED
    BY Zenon, <2>1, AlarmBefore DEF HbPart
<1>2. CASE Reinit
  <2>1. \A j \in Idx : hb'[j].st # "timeout"
    BY Zenon, <1>2, EntryOK DEF Reinit, NodeTypeOK
  <2>2. em'.bits = {} /\ ~cons'.active /\ loc'.pc = "idle"
    BY Zenon, <1>2, EmInitOK DEF Reinit, ConsInit, LocInit
  <2>3. NoTimeout(Idx)'
    BY Zenon, <2>1 DEF NoTimeout
  <2> QED
    BY Zenon, <2>1, <2>2, <2>3 DEF AlarmInv
<1>3. CASE EmFollow
  <2> DEFINE b == CanErrors[loc.i]
             e == Follow(em, b, can)
  <2>1. loc.pc = "emCan" /\ loc.i \in DOMAIN CanErrors
    BY Zenon, <1>3 DEF EmFollow, At, NodeTypeOK
  <2>2. b \in Bits \ HbAlarms
    BY <1>0, <2>1
  <2>3. em' = e \/ em' = [e EXCEPT !.can = can]
    BY Zenon, <1>3 DEF EmFollow
  <2>4. EmOK(e) /\ e.bits \ {b} = em.bits \ {b}
    BY Zenon, <1>0, <2>2, FollowFacts
  <2> HIDE DEF b, e
  <2>5. em'.bits = e.bits
    BY Zenon, <2>3, <2>4 DEF EmOK, EmType
  <2>6. Quiet
    BY Zenon, <1>3, <2>2, <2>4, <2>5 DEF Quiet, EmFollow
  <2>7. loc'.pc \in {"emCan", "em"} /\ loc'.active = loc.active
    BY Zenon, <1>0, <1>3, <2>1 DEF EmFollow, LocType
  <2> QED
    BY Zenon, <2>1, <2>6, <2>7, AlarmBefore DEF HbPart
<1>4. CASE EmProcess
  <2> DEFINE e == EmReady(em, loc.dt)
  <2>1. EmOK(e) /\ e.bits = em.bits
    BY Zenon, <1>0, ReadyFacts DEF LocType
  <2>2. em' = e \/ (e.queue # << >> /\ em' = EmSent(e))
    BY Zenon, <1>4 DEF EmProcess, EmSends
  <2> HIDE DEF e
  <2>3. em'.bits \ {"emFull"} = em.bits \ {"emFull"}
    BY Zenon, <2>1, <2>2, SentFacts
  <2>4. Quiet
    BY Zenon, <1>4, <2>3 DEF Quiet, EmProcess, HbAlarms
  <2>5. loc.pc = "em" /\ loc'.pc = "nmtTest" /\ loc'.active = loc.active
    BY Zenon, <1>0, <1>4 DEF EmProcess, Go, At, LocType
  <2> QED
    BY Zenon, <2>4, <2>5, AlarmBefore DEF HbPart
<1> QED
  BY Zenon, <1>1, <1>2, <1>3, <1>4

LEMMA AlarmNmt ==
    ASSUME NodeTypeOK, AlarmInv, NmtTest \/ NmtSend \/ NmtBoot \/ NmtPrev \/ NmtError \/ NmtLeave
    PROVE  AlarmInv'
<1>1. Quiet
  BY Zenon DEF Quiet, NmtTest, NmtSend, NmtBoot, NmtPrev, NmtError, NmtLeave
<1>2. loc \in LocType
  BY Zenon DEF NodeTypeOK
<1>3. loc.pc \notin {"hbClear", "hbTimer"} /\ loc'.active = loc.active
      /\ loc'.pc \in {"nmtSend", "nmtPrev", "nmtBoot", "nmtError", "nmtLeave", "hb"}
  BY Zenon, <1>2 DEF NmtTest, NmtSend, NmtBoot, NmtPrev, NmtError, NmtLeave, Go, At, LocType
<1> QED
  BY Zenon, <1>1, <1>3, AlarmBefore DEF HbPart

\* An entry moves to a state other than timed out.
LEMMA QuietEntry ==
    ASSUME NodeTypeOK, NEW i \in Idx, NEW st, EntryStep(i, st),
           st # "timeout" \/ st = hb[i].st, em'.bits \cap HbAlarms = em.bits \cap HbAlarms,
           cons' = cons
    PROVE  Quiet
  BY Zenon DEF EntryStep, Quiet

\* One more entry is found not to have timed out.
LEMMA NoTimeoutNext ==
    ASSUME NEW i \in Idx, NoTimeout(1 .. i - 1)', hb'[i].st # "timeout"
    PROVE  /\ NoTimeout(1 .. (i + 1) - 1)'
           /\ i = Entries => NoTimeout(Idx)'
<1>1. i \in 1 .. Entries /\ Entries \in Nat
  BY Zenon, Constants DEF Idx
<1>2. ASSUME NEW j \in 1 .. i PROVE j = i \/ j \in 1 .. i - 1
  BY <1>1
<1>3. \A j \in 1 .. i : hb'[j].st # "timeout"
  BY Zenon, <1>2 DEF NoTimeout
<1>4. 1 .. (i + 1) - 1 = 1 .. i
  BY <1>1
<1> QED
  BY Zenon, <1>3, <1>4 DEF NoTimeout, Idx

LEMMA AlarmForget ==
    ASSUME NodeTypeOK, AlarmInv, HbBegin \/ HbForget \/ HbForget2
    PROVE  AlarmInv'
<1>0. loc \in LocType /\ loc.i \in Idx /\ 1 .. loc.i - 1 \in SUBSET Idx /\ loc.i \in 1 .. Entries
      /\ cons.prevOp \in BOOLEAN /\ loc.isOp \in BOOLEAN
  <2>1. loc.i \in Idx /\ loc \in LocType
    BY Zenon DEF NodeTypeOK, HbBegin, HbForget, HbForget2, At
  <2> QED
    BY <2>1, Constants DEF Idx, LocType, NodeTypeOK
<1>1. CASE HbBegin
  <2>1. Quiet
    BY Zenon, <1>1 DEF HbBegin, Quiet
  <2>2. loc.pc = "hb" /\ loc'.i = 1 /\ loc'.active = loc.active /\ loc'.isOp = loc.isOp
    BY Zenon, <1>0, <1>1 DEF HbBegin, At, LocType
  <2>3. \/ loc'.pc = "hbRead" /\ loc.isOp /\ cons.prevOp
        \/ loc'.pc = "hbForget"
        \/ loc'.pc = "hbEnd" /\ ~loc.isOp /\ ~cons.prevOp
    <3> DEFINE p == CASE loc.isOp /\ cons.prevOp -> "hbRead"
                      [] loc.isOp # cons.prevOp  -> "hbForget"
                      [] OTHER                   -> "hbEnd"
    <3>1. loc'.pc = p
      BY Zenon, <1>0, <1>1 DEF HbBegin, LocType
    <3>2. \/ p = "hbRead" /\ loc.isOp /\ cons.prevOp
          \/ p = "hbForget"
          \/ p = "hbEnd" /\ ~loc.isOp /\ ~cons.prevOp
      BY Zenon, <1>0, Zenon
    <3> QED
      BY <3>1, <3>2
  <2>4. NoTimeout(1 .. 1 - 1)'
    BY DEF NoTimeout
  <2>5. cons' = cons
    BY Zenon, <2>1 DEF Quiet
  <2> QED
    BY Zenon, <2>1, <2>2, <2>3, <2>4, <2>5, QuietFacts DEF AlarmInv, Quiet
<1>2. CASE HbForget
  <2>1. EntryStep(loc.i, hb[loc.i].st) /\ em' = em /\ cons' = cons
    BY Zenon, <1>2, StepForget DEF HbForget
  <2>2. Quiet
    BY Zenon, <1>0, <2>1, QuietEntry
  <2>3. loc.pc = "hbForget" /\ loc'.pc = "hbForget2" /\ loc'.i = loc.i /\ loc'.active = loc.active
    BY Zenon, <1>0, <1>2 DEF HbForget, Go, At, LocType
  <2> QED
    BY Zenon, <1>0, <2>1, <2>2, <2>3, QuietFacts DEF AlarmInv
<1>3. CASE HbForget2
  <2>1. em' = em /\ cons' = cons /\ loc.pc = "hbForget2" /\ NextEntry("hbForget", FALSE, FALSE)
    BY Zenon, <1>3 DEF HbForget2, At
  <2>2. PICK st : EntryStep(loc.i, st) /\ st # "timeout"
    BY <1>3, StepForget2
  <2>3. Quiet
    BY Zenon, <1>0, <2>1, <2>2, QuietEntry
  <2>0. PICK i \in Idx : i = loc.i
    BY Zenon, <1>0
  <2>4. NoTimeout(1 .. i - 1)' /\ hb'[i].st # "timeout"
    BY Zenon, <1>0, <2>0, <2>1, <2>2, <2>3, QuietFacts DEF AlarmInv, EntryStep
  <2>5. NoTimeout(1 .. (i + 1) - 1)' /\ (i = Entries => NoTimeout(Idx)')
    BY Zenon, <2>4, NoTimeoutNext
  <2>6. /\ ~loc'.active
        /\ loc.i < Entries => loc'.pc = "hbForget" /\ loc'.i = loc.i + 1
        /\ ~(loc.i < Entries) => loc'.pc = "hbEnd" /\ loc.i = Entries
    BY Zenon, <2>1, NextFacts
  <2> QED
    BY Zenon, <2>0, <2>1, <2>3, <2>5, <2>6, QuietFacts DEF AlarmInv
<1> QED
  BY Zenon, <1>1, <1>2, <1>3

LEMMA AlarmRead ==
    ASSUME NodeTypeOK, AlarmInv, HbRead \/ HbClear \/ HbNone
    PROVE  AlarmInv'
<1>0. loc \in LocType /\ loc.i \in Idx /\ 1 .. loc.i - 1 \in SUBSET Idx
  <2>1. loc.i \in Idx /\ loc \in LocType
    BY Zenon DEF NodeTypeOK, HbRead, HbClear, HbNone, At
  <2> QED
    BY <2>1, Constants DEF Idx
<1>1. loc'.i = loc.i /\ loc'.active = loc.active /\ loc'.isOp = loc.isOp
      /\ loc.pc \in {"hbRead", "hbClear"} /\ loc'.pc \in {"hbClear", "hbTimer"} /\ cons' = cons
  BY Zenon, <1>0 DEF HbRead, HbClear, HbNone, Go, At, LocType
<1>2. CASE Quiet /\ (loc.pc = "hbClear" => hb'[loc.i].st = hb[loc.i].st)
  BY Zenon, <1>0, <1>1, <1>2, QuietFacts DEF AlarmInv, Quiet
<1>3. CASE HbRead
  <2>1. CASE em' = em
    <3>1. PICK st : EntryStep(loc.i, st) /\ st # "timeout"
      BY <1>3, StepRead
    <3>2. Quiet
      BY Zenon, <1>0, <1>1, <2>1, <3>1, QuietEntry
    <3> QED
      BY Zenon, <1>2, <1>3, <3>2 DEF HbRead, At
  <2>2. CASE em' # em
    <3>1. em' = ErrorReport(em, "hbReset") /\ hb[loc.i].nmt = "init"
      BY Zenon, <1>3, <2>2 DEF HbRead
    <3>2. EntryStep(loc.i, "unknown")
      BY Zenon, <1>3, <3>1, StepRead
    <3>3. em.bits \subseteq em'.bits
      <4>1. EmOK(em) /\ "hbReset" \in Bits
        BY Zenon, EmAssumption DEF NodeTypeOK, HbAlarms
      <4> QED
        BY <3>1, <4>1, ReportFacts
    <3>4. \A j \in Idx : hb'[j].st = "timeout" => hb[j].st = "timeout"
      BY Zenon, <3>2 DEF EntryStep
    <3>5. hb'[loc.i].st # "active"
      BY Zenon, <3>2 DEF EntryStep
    <3>6. loc.pc = "hbRead" /\ loc'.pc = "hbClear"
      BY Zenon, <1>0, <1>3 DEF HbRead, At, LocType
    <3> QED
      BY Zenon, <1>0, <1>1, <3>3, <3>4, <3>5, <3>6 DEF AlarmInv, NoTimeout
  <2> QED
    BY Zenon, <2>1, <2>2
<1>4. CASE HbClear
  <2>1. EntryStep(loc.i, hb[loc.i].st) /\ em' = em
    BY Zenon, <1>4, StepClear DEF HbClear
  <2>2. Quiet
    BY Zenon, <1>0, <1>1, <2>1, QuietEntry
  <2> QED
    BY Zenon, <1>2, <2>1, <2>2 DEF EntryStep
<1>5. CASE HbNone
  BY Zenon, <1>1, <1>2, <1>5 DEF HbNone, Quiet, At
<1> QED
  BY Zenon, <1>3, <1>4, <1>5

LEMMA AlarmNext ==
    ASSUME NodeTypeOK, AlarmInv, HbSkip \/ HbTimer
    PROVE  AlarmInv'
<1>1. PICK i \in Idx : i = loc.i
  BY Zenon DEF NodeTypeOK, HbSkip, HbTimer, At
<1>2. /\ loc.pc \in {"hbRead", "hbTimer"} /\ cons' = cons
      /\ cons.prevOp /\ loc.isOp /\ (loc.active => NoTimeout(1 .. i - 1))
      /\ 1 .. i - 1 \in SUBSET Idx /\ i \in 1 .. Entries /\ i \notin 1 .. i - 1
  <2>1. loc.pc \in {"hbRead", "hbTimer"} /\ cons' = cons
    BY Zenon DEF HbSkip, HbTimer, At
  <2>2. 1 .. i - 1 \in SUBSET Idx /\ i \in 1 .. Entries /\ i \notin 1 .. i - 1
    BY Constants DEF Idx
  <2> QED
    BY Zenon, <1>1, <2>1, <2>2 DEF AlarmInv
<1>3. PICK a \in BOOLEAN :
        /\ \E op : NextEntry("hbRead", a, op)
        /\ a => hb'[i].st # "timeout"
        /\ a /\ loc.pc = "hbTimer" => hb'[i].st = "active"
        /\ a /\ loc.pc = "hbRead" => hb'[i] = hb[i]
  <2>1. CASE HbSkip
    <3>1. NextEntry("hbRead", TRUE, TRUE) /\ hb' = hb /\ hb[i].st = "unconf" /\ loc.pc = "hbRead"
      BY Zenon, <1>1, <2>1 DEF HbSkip, Working, At
    <3> QED
      BY Zenon, <3>1
  <2>2. CASE HbTimer
    <3> DEFINE a == hb'[i].st = "active"
    <3>1. \E op : NextEntry("hbRead", a, op)
      BY Zenon, <1>1, <2>2, StepTimer
    <3>2. loc.pc = "hbTimer"
      BY Zenon, <2>2 DEF HbTimer, At
    <3>3. a \in BOOLEAN /\ (a => hb'[i].st # "timeout") /\ (a => hb'[i].st = "active")
      BY Zenon
    <3> QED
      BY ZenonT(30), <3>1, <3>2, <3>3
  <2> QED
    BY Zenon, <2>1, <2>2
<1>4. PICK op : NextEntry("hbRead", a, op)
  BY Zenon, <1>3
<1>5. /\ (loc'.active <=> loc.active /\ a) /\ loc'.isOp
      /\ i < Entries => loc'.pc = "hbRead" /\ loc'.i = i + 1
      /\ ~(i < Entries) => loc'.pc = "hbEnd" /\ i = Entries
  BY Zenon, <1>1, <1>2, <1>4, NextFacts
<1>6. \A j \in Idx : j # i => hb'[j] = hb[j]
  BY Zenon, <1>1, StepTimer DEF HbSkip, EntryStep
<1>7. a => Quiet
  <2>1. CASE HbSkip
    BY Zenon, <2>1 DEF HbSkip, Quiet
  <2>2. CASE HbTimer /\ a
    <3>1. EntryStep(i, hb[i].st) /\ em' = em
      BY Zenon, <1>1, <1>2, <1>3, <2>2, StepTimer DEF EntryStep, HbTimer, At
    <3> QED
      BY Zenon, <1>2, <3>1, QuietEntry
  <2> QED
    BY Zenon, <2>1, <2>2
<1>8. \A j \in Idx : hb'[j].st = "timeout" => "hbTimeout" \in em'.bits
  <2>1. CASE HbSkip
    BY Zenon, <2>1 DEF HbSkip, AlarmInv
  <2>2. CASE HbTimer /\ em' = em
    <3>1. EntryStep(i, hb[i].st) \/ em' = ErrorReport(em, "hbTimeout")
      BY Zenon, <1>1, <2>2, StepTimer
    <3>2. "hbTimeout" \in Bits /\ EmOK(em)
      BY Zenon, EmAssumption DEF HbAlarms, NodeTypeOK
    <3> QED
      BY <2>2, <3>1, <3>2, ReportFacts DEF AlarmInv, EntryStep
  <2>3. CASE HbTimer /\ em' # em
    <3>1. "hbTimeout" \in Bits /\ EmOK(em)
      BY Zenon, EmAssumption DEF HbAlarms, NodeTypeOK
    <3> QED
      BY <2>3, <3>1, StepTimer, ReportFacts
  <2> QED
    BY Zenon, <2>1, <2>2, <2>3
<1>9. loc'.active => NoTimeout(1 .. (i + 1) - 1)' /\ (i = Entries => NoTimeout(Idx)')
  <2> SUFFICES ASSUME loc'.active
               PROVE  NoTimeout(1 .. (i + 1) - 1)' /\ (i = Entries => NoTimeout(Idx)')
    BY Zenon
  <2>1. NoTimeout(1 .. i - 1)'
    BY Zenon, <1>2, <1>5, <1>6 DEF NoTimeout
  <2> QED
    BY Zenon, <1>3, <1>5, <2>1, NoTimeoutNext
<1>10. cons'.active /\ loc'.active => em'.bits \cap HbAlarms = {}
  <2> SUFFICES ASSUME cons'.active, loc'.active PROVE em'.bits \cap HbAlarms = {}
    BY Zenon
  <2>1. loc.active /\ a /\ cons.active /\ Quiet
    BY Zenon, <1>2, <1>5, <1>7
  <2>2. loc.pc = "hbTimer" => hb[i].st = "active"
    BY Zenon, <1>1, <1>3, <2>1, StepTimer DEF HbSkip, HbTimer, At, EntryStep
  <2> QED
    BY Zenon, <1>1, <1>2, <2>1, <2>2 DEF AlarmInv, Quiet
<1> QED
  BY Zenon, <1>2, <1>5, <1>8, <1>9, <1>10 DEF AlarmInv

LEMMA AlarmEnd ==
    ASSUME NodeTypeOK, AlarmInv, HbEnd
    PROVE  AlarmInv'
<1>0. EmOK(em) /\ "hbTimeout" \in Bits /\ "hbReset" \in Bits /\ loc \in LocType
  BY Zenon, EmAssumption DEF NodeTypeOK, HbAlarms
<1>1. /\ loc.pc = "hbEnd" /\ loc'.pc = "idle" /\ loc'.active = loc.active
      /\ (cons'.active <=> loc.active) /\ (cons'.prevOp <=> loc.isOp) /\ hb' = hb
  BY Zenon, <1>0 DEF HbEnd, Go, At, LocType
<1>2. \A S : NoTimeout(S)' <=> NoTimeout(S)
  BY Zenon, <1>1 DEF NoTimeout
<1>3. CASE ~cons.active /\ loc.active
  <2>1. em' = AllBack(em)
    BY Zenon, <1>3 DEF HbEnd
  <2>2. EmOK(ErrorReset(em, "hbTimeout"))
        /\ ErrorReset(em, "hbTimeout").bits = em.bits \ {"hbTimeout"}
    BY Zenon, <1>0, ResetFacts
  <2>3. em'.bits = (em.bits \ {"hbTimeout"}) \ {"hbReset"}
    BY <1>0, <2>1, <2>2, ResetFacts DEF AllBack
  <2>4. em'.bits \cap HbAlarms = {}
    BY Zenon, <2>3 DEF HbAlarms
  <2>5. NoTimeout(Idx) /\ \A i \in Idx : hb'[i].st # "timeout"
    BY Zenon, <1>1, <1>3 DEF AlarmInv, NoTimeout
  <2> QED
    BY Zenon, <1>1, <1>2, <2>4, <2>5 DEF AlarmInv
<1>4. CASE cons.active \/ ~loc.active
  <2>1. em' = em
    BY Zenon, <1>4 DEF HbEnd
  <2> QED
    BY Zenon, <1>1, <1>2, <1>4, <2>1 DEF AlarmInv
<1> QED
  BY Zenon, <1>3, <1>4

LEMMA AlarmStep == NodeTypeOK /\ AlarmInv /\ [Next]_vars => AlarmInv'
<1> SUFFICES ASSUME NodeTypeOK, AlarmInv, [Next]_vars PROVE AlarmInv'
  BY Zenon
<1>1. CASE Process
  BY Zenon, <1>1, AlarmEmergency, AlarmNmt, AlarmForget, AlarmRead, AlarmNext, AlarmEnd DEF Process
<1>2. CASE UNCHANGED <<em, hb, cons, loc>>
  BY Zenon, <1>2, AlarmAround DEF Quiet
<1>3. ASSUME NEW i \in Idx, NEW s \in Remote, HbReceive(i, s)
      PROVE  AlarmInv'
  <2>1. EntryStep(i, hb[i].st) /\ em' = em /\ cons' = cons /\ loc' = loc
    BY Zenon, <1>3, StepReceive DEF HbReceive
  <2>2. Quiet
    BY Zenon, <2>1, QuietEntry
  <2>3. loc.pc \in {"hbClear", "hbTimer"} => loc.i \in Idx
    BY Zenon DEF NodeTypeOK
  <2> QED
    BY Zenon, <2>1, <2>2, <2>3, AlarmAround DEF EntryStep
<1>4. ASSUME NEW i \in Idx, NEW n \in Nodes \cup {0}, NEW t \in {0, ConsTime},
             Reconfigure(i, [node |-> n, time |-> t])
      PROVE  AlarmInv'
  <2> DEFINE e == [node |-> n, time |-> t]
  <2>1. e \in [node: Ids, time: {0, ConsTime}]
    BY Zenon DEF Ids
  <2>2. hb' = [hb EXCEPT ![i] = Entry(e)] /\ em' = em /\ cons' = cons /\ loc' = loc
        /\ loc.pc = "idle"
    BY Zenon, <1>4 DEF Reconfigure
  <2> HIDE DEF e
  <2>3. Quiet
    BY Zenon, <2>1, <2>2, EntryOK DEF Quiet, NodeTypeOK
  <2> QED
    BY Zenon, <2>2, <2>3, AlarmAround
<1> QED
  <2>1. CASE Next /\ ~Process
    BY Zenon, <1>2, <1>3, <1>4, <2>1 DEF Next, Tick, DriverError, NmtReceive, NmtSendCommand
  <2>2. CASE UNCHANGED vars
    BY Zenon, <1>2, <2>2 DEF vars
  <2> QED
    BY Zenon, <1>1, <2>1, <2>2

\* CO_HBconsumer_process shares its two alarms among all entries.  Still the
\* timeout alarm is set while an entry has timed out, and no alarm is set while the
\* consumer says that all nodes are active.
THEOREM AlarmsRight == Spec => []AlarmsTell
<1>1. Init => AlarmInv
  <2> SUFFICES ASSUME Init PROVE AlarmInv
    BY Zenon
  <2>1. \A j \in Idx : hb[j].st # "timeout"
    <3>1. \A j \in Idx : hb[j] = Entry(odTime[j])
                         /\ odTime[j] \in [node: Ids, time: {0, ConsTime}]
      BY Zenon, TypeInit DEF Init, NodeTypeOK
    <3> QED
      BY Zenon, <3>1, EntryOK
  <2>2. em.bits = {} /\ ~cons.active /\ loc.pc = "idle"
    BY Zenon, EmInitOK DEF Init, ConsInit, LocInit
  <2> QED
    BY Zenon, <2>1, <2>2 DEF AlarmInv, NoTimeout
<1>2. AlarmInv => AlarmsTell
  BY Zenon DEF AlarmInv, AlarmsTell
<1> QED
  BY <1>1, <1>2, AlarmStep, NodeTypes, PTL DEF Spec

----------------------------------------------------------------------------
(* The listener.                                                           *)

LEMMA ListenStep == NodeTypeOK /\ ListenInv /\ [Next]_vars => ListenInv'
<1> SUFFICES ASSUME NodeTypeOK, ListenInv, [Next]_vars PROVE ListenInv'
  BY Zenon
<1>0. EmOK(em) /\ heard \in HeardType /\ "hbTimeout" \in Bits /\ "hbReset" \in Bits
      /\ CanErrors \in Seq(Bits \ {"emFull"}) /\ Informed(em, heard)
  BY EmAssumption DEF NodeTypeOK, HbAlarms, ListenInv
<1>1. CASE UNCHANGED <<em, heard>>
  BY Zenon, <1>1 DEF ListenInv
<1>2. CASE EmFollow
  <2> DEFINE b == CanErrors[loc.i]
             e == Follow(em, b, can)
  <2>1. loc.i \in DOMAIN CanErrors
    BY Zenon, <1>2 DEF EmFollow, At, NodeTypeOK
  <2>2. b \in Bits \ {"emFull"}
    BY <1>0, <2>1
  <2>3. (em' = e \/ em' = [e EXCEPT !.can = can]) /\ heard' = heard
    BY Zenon, <1>2 DEF EmFollow
  <2>4. EmOK(e) /\ Informed(e, heard)
    BY Zenon, <1>0, <2>2, FollowFacts
  <2> HIDE DEF b, e
  <2>5. em'.bits = e.bits /\ em'.queue = e.queue /\ em'.full = e.full
    BY Zenon, <2>3, <2>4 DEF EmOK, EmType
  <2> QED
    BY Zenon, <2>3, <2>4, <2>5 DEF ListenInv, Informed, Warned
<1>3. CASE EmProcess
  <2> DEFINE e == EmReady(em, loc.dt)
             m == Head(e.queue)
             g == [bits |-> Apply(heard.bits, m), warned |-> heard.warned \/ m.bit = "emFull"]
  <2>1. EmOK(e) /\ e.bits = em.bits /\ e.queue = em.queue /\ e.full = em.full
    BY ZenonT(30), <1>0, ReadyFacts DEF LocType, NodeTypeOK
  <2>2. \/ e.queue # << >> /\ em' = EmSent(e) /\ heard' = g
        \/ em' = e /\ heard' = heard
    BY Zenon, <1>3 DEF EmProcess, EmSends
  <2> HIDE DEF e
  <2>3. Informed(e, heard)
    BY ZenonT(30), <1>0, <2>1 DEF Informed, Warned
  <2>4. e.queue # << >> => Informed(EmSent(e), g)
    BY Zenon, <1>0, <2>1, <2>3, SentInforms
  <2> HIDE DEF g
  <2> QED
    BY Zenon, <2>2, <2>3, <2>4 DEF ListenInv
<1>4. CASE Reinit
  <2>1. em'.bits = {} /\ em'.queue = << >> /\ heard'.bits = {}
    BY Zenon, <1>4, EmInitOK DEF Reinit, HeardInit
  <2>2. After(heard'.bits, em'.queue) = {}
    BY <2>1 DEF After, About
  <2> QED
    BY Zenon, <2>1, <2>2 DEF ListenInv, Informed
<1>5. CASE HbRead \/ HbTimer
  <2>1. em' \in {em, ErrorReport(em, "hbReset"), ErrorReport(em, "hbTimeout")} /\ heard' = heard
    BY Zenon, <1>5 DEF HbRead, HbTimer
  <2> QED
    BY Zenon, <1>0, <2>1, ReportInforms DEF ListenInv
<1>6. CASE HbEnd
  <2> DEFINE e == ErrorReset(em, "hbTimeout")
  <2>1. em' \in {em, ErrorReset(e, "hbReset")} /\ heard' = heard
    BY Zenon, <1>6 DEF HbEnd, AllBack
  <2>2. EmOK(e) /\ Informed(e, heard)
    BY Zenon, <1>0, ResetFacts, ResetInforms
  <2> HIDE DEF e
  <2> QED
    BY Zenon, <1>0, <2>1, <2>2, ResetInforms DEF ListenInv
<1> QED
  <2>1. CASE Process
    BY Zenon, <1>1, <1>2, <1>3, <1>4, <1>5, <1>6, <2>1
       DEF Process, Begin, NmtTest, NmtSend, NmtBoot, NmtPrev, NmtError, NmtLeave, HbBegin,
           HbForget, HbForget2, HbClear, HbNone, HbSkip
  <2>2. CASE Next /\ ~Process
    BY Zenon, <1>1, <2>2 DEF Next, Tick, DriverError, NmtReceive, NmtSendCommand, HbReceive, Reconfigure
  <2>3. CASE UNCHANGED vars
    BY Zenon, <1>1, <2>3 DEF vars
  <2> QED
    BY Zenon, <2>1, <2>2, <2>3

\* The ring of CO_Emergency.c may overflow, but not in silence: for every size of
\* the ring, who hears the emergency messages, those that wait included, knows the
\* error bits, or is told by the bit for a full ring that messages were dropped.
THEOREM ListenersKnow == Spec => []ListenerKnows
<1>1. Init => ListenInv
  <2> SUFFICES ASSUME Init PROVE ListenInv
    BY Zenon
  <2>1. em.bits = {} /\ em.queue = << >> /\ heard.bits = {}
    BY Zenon, EmInitOK DEF Init, HeardInit
  <2>2. After(heard.bits, em.queue) = {}
    BY <2>1 DEF After, About
  <2> QED
    BY Zenon, <2>1, <2>2 DEF ListenInv, Informed
<1>2. ListenInv => ListenerKnows
  BY Zenon DEF ListenInv, Informed, Warned, ListenerKnows
<1> QED
  BY <1>1, <1>2, ListenStep, NodeTypes, PTL DEF Spec
=============================================================================
