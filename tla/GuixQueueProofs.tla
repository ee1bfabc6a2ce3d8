-------------------------- MODULE GuixQueueProofs ---------------------------
(***************************************************************************)
(* The GUI binding for every size of the queue, every number of timers and *)
(* every set of observers.                                                 *)
(***************************************************************************)
EXTENDS GuixQueue, TLAPS

(* What a concatenation holds, place by place.                              *)
LEMMA Joined ==
    ASSUME NEW S, NEW a \in Seq(S), NEW b \in Seq(S)
    PROVE  /\ a \o b \in Seq(S) /\ Len(a \o b) = Len(a) + Len(b)
           /\ \A k \in 1 .. Len(a) + Len(b) :
                (a \o b)[k] = IF k <= Len(a) THEN a[k] ELSE b[k - Len(a)]
OBVIOUS

(* What a part of a sequence holds, place by place.                         *)
LEMMA Slice ==
    ASSUME NEW S, NEW s \in Seq(S), NEW m \in 1 .. Len(s) + 1, NEW n \in 0 .. Len(s)
    PROVE  /\ SubSeq(s, m, n) \in Seq(S)
           /\ Len(SubSeq(s, m, n)) = IF m <= n THEN n - m + 1 ELSE 0
           /\ \A k \in 1 .. n - m + 1 : SubSeq(s, m, n)[k] = s[m + k - 1]
OBVIOUS

LEMMA Removed ==
    ASSUME NEW S, NEW s \in Seq(S), NEW i \in 1 .. Len(s)
    PROVE  LET r == RemoveAt(s, i) IN
           /\ r \in Seq(S) /\ Len(r) = Len(s) - 1
           /\ \A j \in 1 .. Len(r) : r[j] = IF j < i THEN s[j] ELSE s[j + 1]
<1> DEFINE a == SubSeq(s, 1, i - 1)
           b == SubSeq(s, i + 1, Len(s))
<1>0. Len(s) \in Nat /\ \A j \in 1 .. Len(s) : s[j] \in S
  OBVIOUS
<1>1. a \in Seq(S) /\ Len(a) = i - 1 /\ \A j \in 1 .. i - 1 : a[j] = s[j]
  <2>1. /\ a \in Seq(S)
        /\ Len(a) = IF 1 <= i - 1 THEN (i - 1) - 1 + 1 ELSE 0
        /\ \A j \in 1 .. (i - 1) - 1 + 1 : a[j] = s[1 + j - 1]
    BY <1>0, Slice
  <2> QED
    BY <1>0, <2>1
<1>2. b \in Seq(S) /\ Len(b) = Len(s) - i /\ \A j \in 1 .. Len(s) - i : b[j] = s[i + j]
  <2>1. /\ b \in Seq(S)
        /\ Len(b) = IF i + 1 <= Len(s) THEN Len(s) - (i + 1) + 1 ELSE 0
        /\ \A j \in 1 .. Len(s) - (i + 1) + 1 : b[j] = s[i + 1 + j - 1]
    BY <1>0, Slice
  <2> QED
    BY <1>0, <2>1
<1>3. RemoveAt(s, i) = a \o b
  BY Zenon DEF RemoveAt
<1> HIDE DEF a, b
<1>4. a \o b \in Seq(S) /\ Len(a \o b) = Len(a) + Len(b)
      /\ \A j \in 1 .. Len(a) + Len(b) : (a \o b)[j] = IF j <= Len(a) THEN a[j] ELSE b[j - Len(a)]
  BY Zenon, <1>1, <1>2, Joined
<1>5. Len(a) + Len(b) = Len(s) - 1
  BY <1>0, <1>1, <1>2
<1>6. ASSUME NEW j \in 1 .. Len(s) - 1
      PROVE  (a \o b)[j] = IF j < i THEN s[j] ELSE s[j + 1]
  <2>1. CASE j < i
    <3>1. j \in 1 .. i - 1 /\ j <= Len(a)
      BY <1>0, <1>1, <2>1
    <3> QED
      BY Zenon, <1>1, <1>4, <1>5, <2>1, <3>1
  <2>2. CASE ~(j < i)
    <3>1. ~(j <= Len(a)) /\ j - Len(a) \in 1 .. Len(s) - i /\ i + (j - Len(a)) = j + 1
      BY <1>0, <1>1, <2>2
    <3>2. (a \o b)[j] = b[j - Len(a)] /\ b[j - Len(a)] = s[i + (j - Len(a))]
      BY Zenon, <1>2, <1>4, <1>5, <3>1
    <3> QED
      BY Zenon, <2>2, <3>1, <3>2
  <2> QED
    BY Zenon, <2>1, <2>2
<1> QED
  BY Zenon, <1>3, <1>4, <1>5, <1>6

LEMMA Inserted ==
    ASSUME NEW S, NEW s \in Seq(S), NEW i \in 1 .. Len(s) + 1, NEW e \in S
    PROVE  LET r == InsertAt(s, i, e) IN
           /\ r \in Seq(S) /\ Len(r) = Len(s) + 1
           /\ \A j \in 1 .. Len(r) : r[j] = IF j < i THEN s[j] ELSE IF j = i THEN e ELSE s[j - 1]
<1> DEFINE a == SubSeq(s, 1, i - 1)
           c == a \o <<e>>
           b == SubSeq(s, i, Len(s))
<1>0. Len(s) \in Nat /\ (\A j \in 1 .. Len(s) : s[j] \in S) /\ <<e>> \in Seq(S)
      /\ Len(<<e>>) = 1 /\ <<e>>[1] = e
  OBVIOUS
<1>1. a \in Seq(S) /\ Len(a) = i - 1 /\ \A j \in 1 .. i - 1 : a[j] = s[j]
  <2>1. /\ a \in Seq(S)
        /\ Len(a) = IF 1 <= i - 1 THEN (i - 1) - 1 + 1 ELSE 0
        /\ \A j \in 1 .. (i - 1) - 1 + 1 : a[j] = s[1 + j - 1]
    BY <1>0, Slice
  <2> QED
    BY <1>0, <2>1
<1>2. /\ b \in Seq(S) /\ Len(b) = Len(s) + 1 - i
      /\ \A j \in 1 .. Len(s) + 1 - i : b[j] = s[i + j - 1]
  <2>1. /\ b \in Seq(S)
        /\ Len(b) = IF i <= Len(s) THEN Len(s) - i + 1 ELSE 0
        /\ \A j \in 1 .. Len(s) - i + 1 : b[j] = s[i + j - 1]
    BY <1>0, Slice
  <2> QED
    BY <1>0, <2>1
<1>3. InsertAt(s, i, e) = c \o b
  BY Zenon DEF InsertAt
<1> HIDE DEF a, b
<1>4. c \in Seq(S) /\ Len(c) = i /\ c[i] = e /\ \A j \in 1 .. i - 1 : c[j] = s[j]
  <2>1. c \in Seq(S) /\ Len(c) = Len(a) + 1
        /\ \A j \in 1 .. Len(a) + 1 : c[j] = IF j <= Len(a) THEN a[j] ELSE <<e>>[j - Len(a)]
    BY <1>0, <1>1, Joined
  <2> HIDE DEF c
  <2> QED
    BY <1>0, <1>1, <2>1
<1> HIDE DEF c
<1>5. c \o b \in Seq(S) /\ Len(c \o b) = Len(c) + Len(b)
      /\ \A j \in 1 .. Len(c) + Len(b) : (c \o b)[j] = IF j <= Len(c) THEN c[j] ELSE b[j - Len(c)]
  BY Zenon, <1>2, <1>4, Joined
<1>6. Len(c) + Len(b) = Len(s) + 1
  BY <1>0, <1>2, <1>4
<1>7. ASSUME NEW j \in 1 .. Len(s) + 1
      PROVE  (c \o b)[j] = IF j < i THEN s[j] ELSE IF j = i THEN e ELSE s[j - 1]
  <2>1. CASE j < i
    <3>1. j \in 1 .. i - 1 /\ j <= Len(c)
      BY <1>0, <1>4, <2>1
    <3> QED
      BY Zenon, <1>4, <1>5, <1>6, <2>1, <3>1
  <2>2. CASE j = i
    BY <1>4, <1>5, <1>6, <2>2
  <2>3. CASE ~(j < i) /\ j # i
    <3>1. ~(j <= Len(c)) /\ j - Len(c) \in 1 .. Len(s) + 1 - i /\ i + (j - Len(c)) - 1 = j - 1
      BY <1>0, <1>4, <2>3
    <3>2. (c \o b)[j] = b[j - Len(c)] /\ b[j - Len(c)] = s[i + (j - Len(c)) - 1]
      BY Zenon, <1>2, <1>5, <1>6, <3>1
    <3> QED
      BY Zenon, <2>3, <3>1, <3>2
  <2> QED
    BY Zenon, <2>1, <2>2, <2>3
<1> QED
  BY Zenon, <1>3, <1>5, <1>6, <1>7

LEMMA SeqFacts ==
    ASSUME NEW S, NEW s \in Seq(S)
    PROVE  /\ Len(s) \in Nat /\ DOMAIN s = 1 .. Len(s) /\ \A j \in 1 .. Len(s) : s[j] \in S
           /\ s = << >> <=> Len(s) = 0
  OBVIOUS

----------------------------------------------------------------------------
(* Types.                                                                  *)

LEMMA Constants ==
    /\ Slots \in Nat \ {0} /\ MaxTimers \in Nat \ {0} /\ MaxTicks \in Nat \ {0} /\ MaxPosts \in Nat
    /\ \A o \in Observers : Priority[o] \in Int
    /\ Closing \subseteq Widgets
  BY Zenon, GuixAssumption

LEMMA Events ==
    /\ NoEvent \in EventType /\ Event("timer", "none") \in EventType
    /\ Event("redraw", "none") \in EventType /\ Inputs \subseteq EventType
    /\ \A w \in Widgets : Event("timer", w) \in EventType
  BY Constants DEF NoEvent, Event, EventType, Inputs

LEMMA PostedOK ==
    ASSUME NEW q \in Seq(EventType), Len(q) <= Slots, NEW e \in EventType
    PROVE  Posted(q, e) \in Seq(EventType) /\ Len(Posted(q, e)) <= Slots
<1>1. CASE Len(q) < Slots
  <2>1. Posted(q, e) = Append(q, e)
    BY Zenon, <1>1 DEF Posted
  <2>2. Append(q, e) \in Seq(EventType) /\ Len(Append(q, e)) = Len(q) + 1 /\ Len(q) \in Nat
    OBVIOUS
  <2> QED
    BY <1>1, <2>1, <2>2, Constants
<1>2. CASE ~(Len(q) < Slots)
  BY Zenon, <1>2 DEF Posted
<1> QED
  BY Zenon, <1>1, <1>2

LEMMA FoldedOK ==
    ASSUME NEW q \in Seq(EventType), Len(q) <= Slots, NEW e \in EventType
    PROVE  Folded(q, e) \in Seq(EventType) /\ Len(Folded(q, e)) <= Slots
<1> DEFINE m == Matching(q, e)
           k == CHOOSE i \in m : \A j \in m : i <= j
           v == IF q[k].n < MaxTicks THEN q[k].n + 1 ELSE q[k].n
<1>1. CASE m = {}
  BY Zenon, <1>1, PostedOK DEF Folded
<1>2. CASE m # {}
  <2>1. Folded(q, e) = [q EXCEPT ![k] = [q[k] EXCEPT !.n = v]]
    BY Zenon, <1>2 DEF Folded
  <2> HIDE DEF m, k
  <2>2. CASE k \in DOMAIN q
    <3>1. q[k] \in EventType
      BY <2>2
    <3>2. v \in 0 .. MaxTicks
      BY <3>1, Constants DEF EventType
    <3> HIDE DEF v
    <3>3. [q[k] EXCEPT !.n = v] \in EventType
      BY Zenon, <3>1, <3>2 DEF EventType
    <3> QED
      BY <2>1, <2>2, <3>3
  <2>3. CASE k \notin DOMAIN q
    <3>1. Folded(q, e) = q
      BY <2>1, <2>3
    <3> QED
      BY Zenon, <3>1
  <2> QED
    BY Zenon, <2>2, <2>3
<1> QED
  BY Zenon, <1>1, <1>2

\* A signal changes nothing but that a thread that waits goes on.
LEMMA SignalFacts ==
    ASSUME gui \in GuiType, NEW q
    PROVE  LET g == Signalled(gui, q) IN
           /\ g \in GuiType /\ g.in = gui.in /\ g.done = gui.done /\ g.wake = gui.wake
           /\ g.k = gui.k
           /\ g.pc = gui.pc \/ (gui.pc = "wait" /\ g.pc = "take")
<1>1. CASE Signalled(gui, q) = gui
  BY Zenon, <1>1
<1>2. CASE Signalled(gui, q) # gui
  <2>1. gui.pc = "wait" /\ Signalled(gui, q) = [gui EXCEPT !.pc = "take"]
    BY Zenon, <1>2 DEF Signalled
  <2> QED
    BY Zenon, <2>1 DEF GuiType, LoopSteps
<1> QED
  BY Zenon, <1>1, <1>2

LEMMA TimersRemoved ==
    ASSUME NEW ts, TimersOK(ts), NEW i \in DOMAIN ts
    PROVE  TimersOK(RemoveAt(ts, i))
<1> DEFINE r == RemoveAt(ts, i)
<1>0. ts \in Seq(TimerType) /\ DOMAIN ts = 1 .. Len(ts) /\ Len(ts) \in Nat /\ Len(ts) <= MaxTimers
  BY SMTT(30) DEF TimersOK
<1>1. r \in Seq(TimerType) /\ Len(r) = Len(ts) - 1
      /\ \A j \in 1 .. Len(r) : r[j] = IF j < i THEN ts[j] ELSE ts[j + 1]
  BY Zenon, <1>0, Removed
<1> HIDE DEF r
<1>2. DOMAIN r = 1 .. Len(r) /\ Len(r) <= MaxTimers
  BY <1>0, <1>1, Constants
<1>3. ASSUME NEW j \in DOMAIN r, NEW k \in DOMAIN r, r[j].owner = r[k].owner
      PROVE  j = k
  <2> DEFINE J == IF j < i THEN j ELSE j + 1
             K == IF k < i THEN k ELSE k + 1
  <2>1. J \in DOMAIN ts /\ K \in DOMAIN ts /\ (J = K => j = k)
    BY <1>0, <1>1, <1>2
  <2>2. r[j] = ts[J] /\ r[k] = ts[K]
    BY Zenon, <1>1, <1>2
  <2> HIDE DEF J, K
  <2> QED
    BY Zenon, <1>3, <2>1, <2>2 DEF TimersOK
<1> QED
  BY Zenon, <1>1, <1>2, <1>3 DEF TimersOK, r

LEMMA TimersChanged ==
    ASSUME NEW ts, TimersOK(ts), NEW i \in DOMAIN ts, NEW t \in TimerType, t.owner = ts[i].owner
    PROVE  TimersOK([ts EXCEPT ![i] = t]) /\ [ts EXCEPT ![i] = t] # << >>
<1> DEFINE r == [ts EXCEPT ![i] = t]
<1>0. ts \in Seq(TimerType) /\ DOMAIN ts = 1 .. Len(ts) /\ Len(ts) \in Nat
  BY DEF TimersOK
<1>1. r \in Seq(TimerType) /\ Len(r) = Len(ts) /\ DOMAIN r = DOMAIN ts
  BY <1>0
<1>2. \A j \in DOMAIN ts : r[j].owner = ts[j].owner
  BY Zenon, <1>0
<1> HIDE DEF r
<1>3. r # << >>
  BY <1>0, <1>1
<1> QED
  BY <1>1, <1>2, <1>3 DEF TimersOK, r

LEMMA TimersAdded ==
    ASSUME NEW ts, TimersOK(ts), NEW t \in TimerType, Len(ts) < MaxTimers,
           \A k \in DOMAIN ts : ts[k].owner # t.owner
    PROVE  TimersOK(<<t>> \o ts) /\ <<t>> \o ts # << >>
<1> DEFINE r == <<t>> \o ts
<1>0. ts \in Seq(TimerType) /\ DOMAIN ts = 1 .. Len(ts) /\ Len(ts) \in Nat
      /\ <<t>> \in Seq(TimerType) /\ Len(<<t>>) = 1 /\ <<t>>[1] = t
  BY DEF TimersOK
<1>1. r \in Seq(TimerType) /\ Len(r) = 1 + Len(ts)
      /\ \A j \in 1 .. 1 + Len(ts) : r[j] = IF j <= 1 THEN <<t>>[j] ELSE ts[j - 1]
  BY <1>0, Joined
<1> HIDE DEF r
<1>2. DOMAIN r = 1 .. Len(r) /\ r # << >> /\ Len(r) <= MaxTimers
  BY <1>0, <1>1, Constants
<1>3. r[1] = t /\ \A j \in 2 .. Len(r) : j - 1 \in DOMAIN ts /\ r[j] = ts[j - 1]
  BY <1>0, <1>1
<1>5. ASSUME NEW j \in DOMAIN r, j # 1 PROVE r[j].owner # t.owner
  <2>1. j \in 2 .. Len(r)
    BY <1>0, <1>1, <1>2, <1>5
  <2> QED
    BY Zenon, <1>3, <2>1
<1>4. ASSUME NEW j \in DOMAIN r, NEW k \in DOMAIN r, r[j].owner = r[k].owner
      PROVE  j = k
  <2>1. CASE j = 1 /\ k = 1
    BY Zenon, <2>1
  <2>2. CASE j = 1 /\ k # 1
    BY Zenon, <1>3, <1>4, <1>5, <2>2
  <2>3. CASE j # 1 /\ k = 1
    BY Zenon, <1>3, <1>4, <1>5, <2>3
  <2>4. CASE j # 1 /\ k # 1
    <3>1. j - 1 \in DOMAIN ts /\ k - 1 \in DOMAIN ts /\ r[j] = ts[j - 1] /\ r[k] = ts[k - 1]
      BY SMTT(30), <1>0, <1>1, <1>2, <1>3, <2>4
    <3>2. j - 1 = k - 1
      BY Zenon, <1>4, <3>1 DEF TimersOK
    <3> QED
      BY <1>0, <1>1, <1>2, <3>2
  <2> QED
    BY Zenon, <2>1, <2>2, <2>3, <2>4
<1> QED
  BY Zenon, <1>1, <1>2, <1>4 DEF TimersOK, r

LEMMA ObserversRemoved ==
    ASSUME NEW s, ObserversOK(s), NEW i \in DOMAIN s
    PROVE  /\ ObserversOK(RemoveAt(s, i))
           /\ \A o \in ToSet(s) : o # s[i] => o \in ToSet(RemoveAt(s, i))
<1> DEFINE r == RemoveAt(s, i)
<1>0. s \in Seq(Observers) /\ DOMAIN s = 1 .. Len(s) /\ Len(s) \in Nat
  BY SMTT(30) DEF ObserversOK
<1>1. r \in Seq(Observers) /\ Len(r) = Len(s) - 1
      /\ \A j \in 1 .. Len(r) : r[j] = IF j < i THEN s[j] ELSE s[j + 1]
  BY Zenon, <1>0, Removed
<1> HIDE DEF r
<1>2. DOMAIN r = 1 .. Len(r)
  BY <1>1
<1>3. ASSUME NEW j \in DOMAIN r, NEW k \in DOMAIN r, j < k
      PROVE  r[j] # r[k] /\ Priority[r[j]] >= Priority[r[k]]
  <2> DEFINE J == IF j < i THEN j ELSE j + 1
             K == IF k < i THEN k ELSE k + 1
  <2>1. J \in DOMAIN s /\ K \in DOMAIN s /\ J < K
    BY <1>0, <1>1, <1>2, <1>3
  <2>2. r[j] = s[J] /\ r[k] = s[K]
    BY Zenon, <1>1, <1>2
  <2> HIDE DEF J, K
  <2> QED
    BY Zenon, <2>1, <2>2 DEF ObserversOK
<1>4. ASSUME NEW k \in DOMAIN s, s[k] # s[i] PROVE s[k] \in ToSet(r)
  <2>1. CASE k < i
    <3>1. k \in DOMAIN r /\ r[k] = s[k]
      BY <1>0, <1>1, <1>2, <2>1
    <3> QED
      BY Zenon, <3>1 DEF ToSet
  <2>2. CASE ~(k < i)
    <3>1. k - 1 \in DOMAIN r /\ ~(k - 1 < i) /\ (k - 1) + 1 = k
      BY SMTT(30), <1>0, <1>1, <1>2, <1>4, <2>2
    <3>2. r[k - 1] = s[k]
      BY Zenon, <1>1, <1>2, <3>1
    <3> QED
      BY Zenon, <3>1, <3>2 DEF ToSet
  <2> QED
    BY Zenon, <2>1, <2>2
<1>5. \A o \in ToSet(s) : o # s[i] => o \in ToSet(r)
  BY Zenon, <1>4 DEF ToSet
<1> QED
  BY Zenon, <1>1, <1>3, <1>5 DEF ObserversOK, r

LEMMA ObserversInserted ==
    ASSUME ObserversOK(observers), NEW o \in Observers, o \notin ToSet(observers),
           NEW i \in 1 .. Len(observers) + 1, Place(o, i)
    PROVE  /\ ObserversOK(InsertAt(observers, i, o))
           /\ o \in ToSet(InsertAt(observers, i, o))
           /\ ToSet(observers) \subseteq ToSet(InsertAt(observers, i, o))
<1> DEFINE s == observers
           r == InsertAt(s, i, o)
           n == Len(s)
<1>0. s \in Seq(Observers) /\ DOMAIN s = 1 .. n /\ n \in Nat /\ i \in 1 .. n + 1
      /\ \A k \in 1 .. n : s[k] \in Observers /\ s[k] # o /\ Priority[s[k]] \in Int
  BY Constants DEF ObserversOK, ToSet
<1>1. r \in Seq(Observers) /\ Len(r) = n + 1
      /\ \A j \in 1 .. Len(r) : r[j] = IF j < i THEN s[j] ELSE IF j = i THEN o ELSE s[j - 1]
  BY SMTT(30), <1>0, Inserted
<1> HIDE DEF r
<1>2. DOMAIN r = 1 .. n + 1
  BY <1>1
<1>3. /\ \A j \in 1 .. i - 1 : Priority[s[j]] >= Priority[o]
      /\ i <= n => Priority[o] > Priority[s[i]]
      /\ \A j, k \in 1 .. n : j < k => s[j] # s[k] /\ Priority[s[j]] >= Priority[s[k]]
  BY Zenon, <1>0 DEF Place, ObserversOK
<1> HIDE DEF s, n
<1>4. ASSUME NEW k \in i .. n PROVE Priority[o] >= Priority[s[k]]
  <2>1. k \in 1 .. n /\ i \in 1 .. n /\ (k = i \/ i < k)
    BY <1>0
  <2>2. Priority[o] > Priority[s[i]] /\ Priority[s[i]] >= Priority[s[k]]
    BY <1>0, <1>3, <2>1
  <2> QED
    BY <1>0, <2>1, <2>2, Constants
<1>5. ASSUME NEW j \in 1 .. n + 1, NEW k \in 1 .. n + 1, j < k
      PROVE  r[j] # r[k] /\ Priority[r[j]] >= Priority[r[k]]
  <2>1. CASE k < i
    <3>1. j \in 1 .. n /\ k \in 1 .. n /\ r[j] = s[j] /\ r[k] = s[k]
      BY <1>0, <1>1, <1>5, <2>1
    <3> QED
      BY Zenon, <1>3, <1>5, <3>1
  <2>2. CASE k = i
    <3>1. j \in 1 .. i - 1 /\ j \in 1 .. n /\ r[j] = s[j] /\ r[k] = o
      BY <1>0, <1>1, <1>5, <2>2
    <3> QED
      BY Zenon, <1>0, <1>3, <3>1
  <2>3. CASE i < k /\ j = i
    <3>1. k - 1 \in i .. n /\ k - 1 \in 1 .. n /\ r[j] = o /\ r[k] = s[k - 1]
      BY <1>0, <1>1, <1>5, <2>3
    <3> QED
      BY Zenon, <1>0, <1>4, <3>1
  <2>4. CASE i < k /\ j < i
    <3>1. j \in 1 .. n /\ k - 1 \in 1 .. n /\ j < k - 1 /\ r[j] = s[j] /\ r[k] = s[k - 1]
      BY SMTT(30), <1>0, <1>1, <1>5, <2>4
    <3> QED
      BY Zenon, <1>3, <3>1
  <2>5. CASE i < k /\ i < j
    <3>1. j - 1 \in 1 .. n /\ k - 1 \in 1 .. n /\ j - 1 < k - 1 /\ r[j] = s[j - 1]
          /\ r[k] = s[k - 1]
      BY <1>0, <1>1, <1>5, <2>5
    <3> QED
      BY Zenon, <1>3, <3>1
  <2> QED
    BY SMTT(30), <1>0, <2>1, <2>2, <2>3, <2>4, <2>5
<1>6. o \in ToSet(r)
  <2>1. i \in DOMAIN r /\ r[i] = o
    BY <1>0, <1>1, <1>2
  <2> QED
    BY Zenon, <2>1 DEF ToSet
<1>7. ASSUME NEW k \in 1 .. n PROVE s[k] \in ToSet(r)
  <2>1. CASE k < i
    <3>1. k \in DOMAIN r /\ r[k] = s[k]
      BY SMTT(30), <1>0, <1>1, <1>2, <2>1
    <3> QED
      BY Zenon, <3>1 DEF ToSet
  <2>2. CASE ~(k < i)
    <3>1. k + 1 \in DOMAIN r /\ ~(k + 1 < i) /\ k + 1 # i /\ (k + 1) - 1 = k
      BY <1>0, <1>2, <2>2
    <3>2. r[k + 1] = s[k]
      BY <1>1, <1>2, <3>1
    <3> QED
      BY Zenon, <3>1, <3>2 DEF ToSet
  <2> QED
    BY Zenon, <2>1, <2>2
<1>8. ToSet(s) \subseteq ToSet(r)
  BY Zenon, <1>0, <1>7 DEF ToSet
<1>9. ObserversOK(r)
  BY Zenon, <1>1, <1>2, <1>5 DEF ObserversOK
<1> QED
  BY Zenon, <1>6, <1>8, <1>9 DEF r, s

LEMMA TypeInit == Init => GuixTypeOK
<1> SUFFICES ASSUME Init PROVE GuixTypeOK
  BY Zenon
<1>1. \A S : << >> \in Seq(S) /\ Len(<< >>) = 0 /\ DOMAIN << >> = {}
  OBVIOUS
<1>2. gui \in GuiType /\ gui.pc = "pop"
  BY Zenon, Events DEF Init, GuiType, LoopSteps
<1>3. tmr \in TmrType
  BY Zenon DEF Init, TmrType
<1> QED
  BY <1>1, <1>2, <1>3, Constants DEF Init, GuixTypeOK, TimersOK, ObserversOK

LEMMA TypeOutside ==
    ASSUME GuixTypeOK,
           \/ \E e \in Inputs : Post(e)
           \/ \E o \in Observers : Register(o) \/ Unregister(o)
    PROVE  GuixTypeOK'
<1>1. ASSUME NEW e \in Inputs, Post(e) PROVE GuixTypeOK'
  <2>1. pending' \in Seq(EventType) /\ Len(pending') <= Slots
    BY Zenon, <1>1, PostedOK, Events DEF Post, GuixTypeOK
  <2>2. gui' \in GuiType /\ (gui'.pc = "update" => gui'.k > 0)
    BY Zenon, <1>1, SignalFacts DEF Post, GuixTypeOK
  <2>3. posts' \in 0 .. MaxPosts /\ cpu' \in {"gui", "tmr"}
    BY <1>1, Constants DEF Post, GuixTypeOK
  <2> QED
    BY Zenon, <1>1, <2>1, <2>2, <2>3 DEF Post, GuixTypeOK
<1>2. ASSUME NEW o \in Observers, Register(o) PROVE GuixTypeOK'
  <2>1. ObserversOK(observers') /\ told' \in [Observers -> {"none", "enter", "exit"}]
    BY Zenon, <1>2, ObserversInserted DEF Register, GuixTypeOK
  <2> QED
    BY Zenon, <1>2, <2>1 DEF Register, GuixTypeOK
<1>3. ASSUME NEW o \in Observers, Unregister(o) PROVE GuixTypeOK'
  <2>1. ObserversOK(observers') /\ told' \in [Observers -> {"none", "enter", "exit"}]
    BY <1>3, ObserversRemoved DEF Unregister, GuixTypeOK
  <2> QED
    BY Zenon, <1>3, <2>1 DEF Unregister, GuixTypeOK
<1> QED
  BY Zenon, <1>1, <1>2, <1>3

LEMMA StartStop ==
    ASSUME tmr \in TmrType
    PROVE  /\ Started(tmr) \in TmrType /\ Started(tmr).running
           /\ Started(tmr).pc = tmr.pc /\ Started(tmr).active = tmr.active
           /\ Started(tmr).wakeup = tmr.wakeup
           /\ Started(tmr).susp <=> tmr.running /\ tmr.susp
           /\ Stopped(tmr) \in TmrType /\ ~Stopped(tmr).running
           /\ Stopped(tmr).pc = tmr.pc /\ Stopped(tmr).active = tmr.active
           /\ Stopped(tmr).wakeup = tmr.wakeup
           /\ Stopped(tmr).susp <=> tmr.running \/ tmr.susp
  BY Zenon DEF Started, Stopped, TmrType

LEMMA TypeTimer ==
    ASSUME GuixTypeOK, Timer
    PROVE  GuixTypeOK'
<1>1. cpu' \in {"gui", "tmr"}
  BY Zenon DEF GuixTypeOK, Timer, TmrNew, TmrBegin, DelayOver, TmrCheck, TmrWakeup, TmrExpire, TmrRuns
<1>2. tmr' \in TmrType
  BY Zenon DEF GuixTypeOK, Timer, TmrNew, TmrBegin, DelayOver, TmrCheck, TmrWakeup, TmrExpire, TmrType
<1>3. gui' \in GuiType /\ (gui'.pc = "update" => gui'.k > 0)
  <2>1. CASE TmrExpire
    BY Zenon, <2>1, SignalFacts DEF TmrExpire, GuixTypeOK
  <2>2. CASE TmrCheck
    BY Zenon, <2>2 DEF TmrCheck, GuixTypeOK, GuiType
  <2> QED
    BY Zenon, <2>1, <2>2 DEF Timer, TmrNew, TmrBegin, DelayOver, TmrWakeup, GuixTypeOK
<1>4. pending' \in Seq(EventType) /\ Len(pending') <= Slots
  <2>1. CASE TmrExpire
    BY Zenon, <2>1, FoldedOK, Events DEF TmrExpire, GuixTypeOK
  <2> QED
    BY Zenon, <2>1 DEF Timer, TmrNew, TmrBegin, DelayOver, TmrCheck, TmrWakeup, GuixTypeOK
<1> QED
  BY Zenon, <1>1, <1>2, <1>3, <1>4
     DEF GuixTypeOK, Timer, TmrNew, TmrBegin, DelayOver, TmrCheck, TmrWakeup, TmrExpire

\* A handler ends: the thread goes back to its loop.
LEMMA HandledFacts ==
    ASSUME gui \in GuiType, Handled
    PROVE  /\ gui' \in GuiType /\ gui'.pc = "pop" /\ gui'.in = gui.in /\ gui'.done = gui.done
           /\ gui'.wake = gui.wake
  BY Zenon, Events DEF Handled, GuiType, LoopSteps

LEMMA UpdateFacts ==
    ASSUME GuixTypeOK, UpdateTimer
    PROVE  /\ timers # << >> /\ TimersOK(timers')
           /\ tmr' = IF timers' = << >> THEN Stopped(tmr) ELSE tmr
           /\ pending' \in Seq(EventType) /\ Len(pending') <= Slots
           /\ gui' \in GuiType /\ gui'.k > 0 /\ gui'.pc = "update"
           /\ gui'.in = gui.in /\ gui'.done = gui.done /\ gui'.wake = gui.wake
<1> DEFINE t == timers[gui.k]
           over == t.left <= gui.ev.n
           gone == over /\ t.again = 0
           v == IF over THEN t.again ELSE t.left - gui.ev.n
<1>0. /\ timers \in Seq(TimerType) /\ gui \in GuiType /\ gui.pc = "update" /\ gui.k \in DOMAIN timers
      /\ gui.k \in Nat \ {0} /\ timers # << >>
  <2>1. timers \in Seq(TimerType) /\ gui \in GuiType /\ gui.pc = "update"
    BY Zenon DEF GuixTypeOK, TimersOK, UpdateTimer
  <2>2. gui.k \in Nat \ {0} /\ gui.k <= Len(timers)
    BY <2>1 DEF GuixTypeOK, UpdateTimer, GuiType
  <2> QED
    BY <2>1, <2>2
<1>1. t \in TimerType /\ gui.ev \in EventType
  BY <1>0 DEF GuiType
<1>2. ~gone => v \in 1 .. MaxTicks
  BY <1>1, Constants DEF TimerType, EventType
<1>3. /\ timers' = IF gone THEN RemoveAt(timers, gui.k) ELSE [timers EXCEPT ![gui.k].left = v]
      /\ tmr' = IF timers' = << >> THEN Stopped(tmr) ELSE tmr
      /\ pending' = IF over THEN Posted(pending, Event("timer", t.owner)) ELSE pending
      /\ gui' = [gui EXCEPT !.k = IF gone THEN gui.k ELSE gui.k + 1]
  BY Zenon DEF UpdateTimer
<1> HIDE DEF t, over, gone, v
<1>4. TimersOK(timers')
  <2>1. CASE gone
    BY Zenon, <1>0, <1>3, <2>1, TimersRemoved DEF GuixTypeOK
  <2>2. CASE ~gone
    <3>1. [t EXCEPT !.left = v] \in TimerType /\ [t EXCEPT !.left = v].owner = t.owner
      BY Zenon, <1>1, <1>2, <2>2 DEF TimerType
    <3>2. timers' = [timers EXCEPT ![gui.k] = [t EXCEPT !.left = v]]
      BY Zenon, <1>3, <2>2 DEF t
    <3> QED
      BY Zenon, <1>0, <3>1, <3>2, TimersChanged DEF GuixTypeOK, t
  <2> QED
    BY Zenon, <2>1, <2>2
<1>5. pending' \in Seq(EventType) /\ Len(pending') <= Slots
  BY Zenon, <1>1, <1>3, Events, PostedOK DEF GuixTypeOK, TimerType
<1>6. /\ gui' \in GuiType /\ gui'.k > 0 /\ gui'.pc = "update"
      /\ gui'.in = gui.in /\ gui'.done = gui.done /\ gui'.wake = gui.wake
  <2> DEFINE k == IF gone THEN gui.k ELSE gui.k + 1
  <2>1. k \in Nat \ {0}
    BY <1>0
  <2>2. gui' = [gui EXCEPT !.k = k]
    BY Zenon, <1>3
  <2> HIDE DEF k
  <2> QED
    BY <1>0, <2>1, <2>2 DEF GuiType
<1> QED
  BY Zenon, <1>0, <1>3, <1>4, <1>5, <1>6

LEMMA StartFacts ==
    ASSUME GuixTypeOK, NEW w \in Widgets, NEW left \in 1 .. MaxTicks, NEW again \in {0, 1},
           HandleStart(w, left, again)
    PROVE  /\ TimersOK(timers') /\ timers' # << >>
           /\ tmr' = Started(tmr) \/ (tmr' = tmr /\ timers # << >>)
<1> DEFINE t == [owner |-> w, left |-> left, again |-> again]
<1>1. t \in TimerType /\ t.owner = w
  BY Zenon DEF TimerType
<1>2. \/ \E k \in Owned(w) : timers' = [timers EXCEPT ![k] = t] /\ tmr' = tmr
      \/ /\ Owned(w) = {} /\ Len(timers) < MaxTimers
         /\ timers' = <<t>> \o timers
         /\ tmr' = Started(tmr)
  BY Zenon DEF HandleStart
<1> HIDE DEF t
<1>3. ASSUME NEW k \in Owned(w), timers' = [timers EXCEPT ![k] = t]
      PROVE  TimersOK(timers') /\ timers' # << >> /\ timers # << >>
  <2>1. k \in DOMAIN timers /\ timers[k].owner = w
    BY Zenon DEF Owned
  <2>2. timers # << >>
    BY <2>1
  <2>3. TimersOK(timers)
    BY Zenon DEF GuixTypeOK
  <2> QED
    BY Zenon, <1>1, <1>3, <2>1, <2>2, <2>3, TimersChanged
<1>4. ASSUME Owned(w) = {}, Len(timers) < MaxTimers, timers' = <<t>> \o timers
      PROVE  TimersOK(timers') /\ timers' # << >>
  <2>1. \A k \in DOMAIN timers : timers[k].owner # w
    BY Zenon, <1>4 DEF Owned
  <2> QED
    BY Zenon, <1>1, <1>4, <2>1, TimersAdded DEF GuixTypeOK
<1> QED
  BY Zenon, <1>2, <1>3, <1>4

LEMMA StopFacts ==
    ASSUME GuixTypeOK, NEW w \in Widgets, HandleStop(w)
    PROVE  /\ TimersOK(timers') /\ (timers = << >> => timers' = << >>)
           /\ tmr' = IF timers' = << >> THEN Stopped(tmr) ELSE tmr
<1>1. CASE timers' = timers
  BY Zenon, <1>1 DEF HandleStop, GuixTypeOK
<1>2. ASSUME NEW k \in Owned(w), timers' = RemoveAt(timers, k)
      PROVE  TimersOK(timers') /\ timers # << >>
  <2>1. k \in DOMAIN timers
    BY Zenon DEF Owned
  <2> QED
    BY <1>2, <2>1, TimersRemoved DEF GuixTypeOK
<1> QED
  BY Zenon, <1>1, <1>2 DEF HandleStop

LEMMA TypeLoop ==
    ASSUME GuixTypeOK,
           \/ GuiPop \/ GuiTake \/ HandleRedraw \/ HandleTerminate \/ HandleEvent
           \/ HandleTimer \/ UpdateTimer \/ UpdateDone
    PROVE  GuixTypeOK'
<1>0. gui \in GuiType /\ cpu' \in {"gui", "tmr"}
  BY Zenon DEF GuixTypeOK, GuiRuns, GuiPop, GuiTake, HandleRedraw, HandleTerminate, HandleEvent,
         HandleTimer, UpdateTimer, UpdateDone, Handles
<1>1. CASE GuiPop
  <2> DEFINE w == pending = << >>
  <2>1. gui' = [gui EXCEPT !.pc = "take", !.wait = w] /\ w \in BOOLEAN
    BY Zenon, <1>1 DEF GuiPop
  <2> HIDE DEF w
  <2>2. gui' \in GuiType /\ gui'.pc = "take"
    BY Zenon, <1>0, <2>1 DEF GuiType, LoopSteps
  <2> QED
    BY Zenon, <1>0, <1>1, <2>2 DEF GuiPop, GuixTypeOK
<1>2. CASE GuiTake
  <2>1. CASE pending = << >>
    <3>1. gui' = [gui EXCEPT !.pc = "wait"] /\ pending' = pending
      BY Zenon, <1>2, <2>1 DEF GuiTake
    <3>2. gui' \in GuiType /\ gui'.pc = "wait"
      BY Zenon, <1>0, <3>1 DEF GuiType, LoopSteps
    <3> QED
      BY Zenon, <1>0, <1>2, <3>1, <3>2 DEF GuiTake, GuixTypeOK
  <2>2. CASE pending # << >>
    <3>1. PICK pc \in {"handle", "redraw", "pop"} :
            gui' = [gui EXCEPT !.ev = Head(pending), !.pc = pc]
      <4> DEFINE pc == CASE gui.in = "loop" -> "handle"
                         [] gui.in = "sleep" /\ gui.wait -> "redraw"
                         [] OTHER -> "pop"
      <4>1. pc \in {"handle", "redraw", "pop"}
        BY Zenon
      <4>2. gui' = [gui EXCEPT !.ev = Head(pending), !.pc = pc]
        BY Zenon, <1>2, <2>2 DEF GuiTake
      <4> QED
        BY Zenon, <4>1, <4>2
    <3>2. pending \in Seq(EventType) /\ Head(pending) \in EventType /\ pending' = Tail(pending)
          /\ pending' \in Seq(EventType) /\ Len(pending') <= Slots
      <4>1. pending \in Seq(EventType) /\ Len(pending) <= Slots /\ pending' = Tail(pending)
        BY Zenon, <1>2, <2>2 DEF GuiTake, GuixTypeOK
      <4>2. Head(pending) \in EventType /\ Tail(pending) \in Seq(EventType)
            /\ Len(pending) \in Nat /\ Len(Tail(pending)) = Len(pending) - 1
        BY <2>2, <4>1
      <4> QED
        BY <4>1, <4>2, Constants
    <3>3. gui' \in GuiType /\ gui'.pc # "update"
      BY Zenon, <1>0, <3>1, <3>2 DEF GuiType, LoopSteps, SleepSteps
    <3> QED
      BY Zenon, <1>0, <1>2, <3>2, <3>3 DEF GuiTake, GuixTypeOK
  <2> QED
    BY Zenon, <2>1, <2>2
<1>3. CASE HandleRedraw \/ HandleEvent
  BY Zenon, <1>0, <1>3, HandledFacts DEF HandleRedraw, HandleEvent, GuixTypeOK
<1>4. CASE HandleTerminate
  <2>1. gui' \in GuiType /\ gui'.pc = "exit"
    BY Zenon, <1>0, <1>4, Events DEF HandleTerminate, GuiType, LoopSteps
  <2> QED
    BY Zenon, <1>0, <1>4, <2>1 DEF HandleTerminate, GuixTypeOK
<1>5. CASE HandleTimer
  <2>1. gui' \in GuiType /\ gui'.k = 1
    BY Zenon, <1>0, <1>5 DEF HandleTimer, GuiType, LoopSteps
  <2> QED
    BY <1>0, <1>5, <2>1 DEF HandleTimer, GuixTypeOK
<1>6. CASE UpdateTimer
  <2>1. tmr' \in TmrType
    BY Zenon, <1>6, UpdateFacts, StartStop DEF GuixTypeOK
  <2> QED
    BY Zenon, <1>0, <1>6, <2>1, UpdateFacts DEF UpdateTimer, GuixTypeOK
<1>7. CASE UpdateDone
  <2>1. gui' \in GuiType /\ gui'.pc = "pop"
    BY Zenon, <1>0, <1>7, Events DEF UpdateDone, GuiType, LoopSteps
  <2> QED
    BY Zenon, <1>0, <1>7, <2>1 DEF UpdateDone, GuixTypeOK
<1> QED
  BY Zenon, <1>1, <1>2, <1>3, <1>4, <1>5, <1>6, <1>7

LEMMA TypeWidget ==
    ASSUME GuixTypeOK,
           \/ \E w \in Widgets : HandleStop(w)
           \/ \E w \in Widgets, left \in 1 .. MaxTicks, again \in {0, 1} :
                HandleStart(w, left, again)
           \/ \E w \in Closing : HandleClose(w)
    PROVE  GuixTypeOK'
<1>0. gui \in GuiType /\ cpu' \in {"gui", "tmr"} /\ pending \in Seq(EventType)
  BY Zenon DEF GuixTypeOK, GuiRuns, HandleStop, HandleStart, HandleClose, Handles
<1>1. ASSUME NEW w \in Widgets, HandleStop(w) PROVE GuixTypeOK'
  <2>1. tmr' \in TmrType
    BY Zenon, <1>1, StopFacts, StartStop DEF GuixTypeOK
  <2>2. gui' \in GuiType /\ gui'.pc = "pop"
    BY Zenon, <1>0, <1>1, HandledFacts DEF HandleStop
  <2> QED
    BY Zenon, <1>0, <1>1, <2>1, <2>2, StopFacts DEF HandleStop, GuixTypeOK
<1>2. ASSUME NEW w \in Widgets, NEW left \in 1 .. MaxTicks, NEW again \in {0, 1},
             HandleStart(w, left, again)
      PROVE  GuixTypeOK'
  <2>1. tmr' \in TmrType
    BY Zenon, <1>2, StartFacts, StartStop DEF GuixTypeOK
  <2>2. gui' \in GuiType /\ gui'.pc = "pop"
    BY Zenon, <1>0, <1>2, HandledFacts DEF HandleStart
  <2> QED
    BY Zenon, <1>0, <1>2, <2>1, <2>2, StartFacts DEF HandleStart, GuixTypeOK
<1>3. ASSUME NEW w \in Closing, HandleClose(w) PROVE GuixTypeOK'
  <2>1. CASE Handled /\ UNCHANGED pending
    BY Zenon, <1>0, <1>3, <2>1, HandledFacts DEF HandleClose, GuixTypeOK
  <2>2. ASSUME NEW k \in DOMAIN pending, pending' = RemoveAt(pending, k),
               gui' = [gui EXCEPT !.pc = "astray"]
        PROVE  GuixTypeOK'
    <3>1. gui' \in GuiType /\ gui'.pc = "astray"
      BY Zenon, <1>0, <2>2 DEF GuiType, LoopSteps
    <3>2. k \in 1 .. Len(pending) /\ Len(pending) \in Nat /\ Len(pending) <= Slots
      BY <1>0 DEF GuixTypeOK
    <3>3. pending' \in Seq(EventType) /\ Len(pending') = Len(pending) - 1
      BY Zenon, <1>0, <2>2, <3>2, Removed
    <3>4. Len(pending') <= Slots
      BY <3>2, <3>3, Constants
    <3> QED
      BY Zenon, <1>0, <1>3, <3>1, <3>3, <3>4 DEF HandleClose, GuixTypeOK
  <2> QED
    BY SMTT(30), <1>3, <2>1, <2>2 DEF HandleClose
<1> QED
  BY Zenon, <1>1, <1>2, <1>3

LEMMA TypeSleep ==
    ASSUME GuixTypeOK, GuiExit \/ GuiDone \/ GuiEnter \/ GuiRedraw \/ GuiResume
    PROVE  GuixTypeOK'
<1>0. gui \in GuiType /\ tmr \in TmrType /\ cpu' \in {"gui", "tmr"}
  BY Zenon DEF GuixTypeOK, GuiRuns, GuiExit, GuiDone, GuiEnter, GuiRedraw, GuiResume
<1>1. CASE GuiExit
  <2> DEFINE early == ~tmr.susp /\ tmr.pc = "begin"
             pc == IF tmr.susp THEN "enter" ELSE "done"
             wake == ~tmr.susp
  <2>1. early \in BOOLEAN /\ pc \in {"enter", "done"} /\ wake \in BOOLEAN
    BY Zenon
  <2>2. gui' = [gui EXCEPT !.wake = wake, !.pc = pc, !.early = early]
    BY Zenon, <1>1 DEF GuiExit
  <2>3. tmr' \in TmrType
    BY Zenon, <1>0, <1>1 DEF GuiExit, TmrType
  <2> HIDE DEF early, pc, wake
  <2>4. gui' \in GuiType /\ gui'.pc # "update"
    BY Zenon, <1>0, <2>1, <2>2 DEF GuiType, LoopSteps
  <2> QED
    BY Zenon, <1>0, <1>1, <2>3, <2>4 DEF GuiExit, GuixTypeOK
<1>2. CASE GuiDone
  <2>1. gui' \in GuiType /\ gui'.pc # "update"
    BY Zenon, <1>0, <1>2 DEF GuiDone, GuiType, LoopSteps
  <2> QED
    BY Zenon, <1>0, <1>2, <2>1 DEF GuiDone, GuixTypeOK
<1>3. CASE GuiEnter
  <2>1. gui' \in GuiType /\ gui'.pc # "update"
    BY Zenon, <1>0, <1>3 DEF GuiEnter, GuiType, LoopSteps
  <2>2. told' \in [Observers -> {"none", "enter", "exit"}]
    BY Zenon, <1>3 DEF GuiEnter, Notified, GuixTypeOK
  <2> QED
    BY Zenon, <1>0, <1>3, <2>1, <2>2 DEF GuiEnter, GuixTypeOK
<1>4. CASE GuiRedraw
  <2>1. gui' \in GuiType /\ gui'.pc # "update"
    BY ZenonT(30), <1>0, <1>4, Events DEF GuiRedraw, GuiType, SleepSteps
  <2>2. pending' \in Seq(EventType) /\ Len(pending') <= Slots
    BY Zenon, <1>4, Events, PostedOK DEF GuiRedraw, GuixTypeOK
  <2> QED
    BY Zenon, <1>0, <1>4, <2>1, <2>2 DEF GuiRedraw, GuixTypeOK
<1>5. CASE GuiResume
  <2>1. gui' \in GuiType /\ gui'.pc # "update"
    BY Zenon, <1>0, <1>5 DEF GuiResume, GuiType, LoopSteps
  <2>2. told' \in [Observers -> {"none", "enter", "exit"}]
    BY Zenon, <1>5 DEF GuiResume, Notified, GuixTypeOK
  <2>3. tmr' \in TmrType
    BY Zenon, <1>0, <1>5 DEF GuiResume, Woken, TmrType
  <2> QED
    BY Zenon, <1>0, <1>5, <2>1, <2>2, <2>3 DEF GuiResume, GuixTypeOK
<1> QED
  BY Zenon, <1>1, <1>2, <1>3, <1>4, <1>5

\* The queue holds no more events than it has nodes, a widget has one timer, and
\* observer_cond_register keeps the observers in the order of their priorities, each
\* only once.
THEOREM GuixTypes == Spec => []GuixTypeOK
<1>1. GuixTypeOK /\ [Next]_vars => GuixTypeOK'
  <2> SUFFICES ASSUME GuixTypeOK, [Next]_vars PROVE GuixTypeOK'
    BY Zenon
  <2>1. CASE Gui
    BY Zenon, <2>1, TypeLoop, TypeWidget, TypeSleep DEF Gui
  <2>2. CASE Next /\ ~Gui
    BY Zenon, <2>2, TypeTimer, TypeOutside DEF Next
  <2>3. CASE UNCHANGED vars
    BY Zenon, <2>3 DEF vars, GuixTypeOK
  <2> QED
    BY Zenon, <2>1, <2>2, <2>3
<1> QED
  BY <1>1, TypeInit, PTL DEF Spec

----------------------------------------------------------------------------
(* The timer task runs while there are timers.                             *)

\* The timer task's first step comes before any of the GUI thread's.
LEMMA NotNew ==
    ASSUME TimersInv, GuiRuns
    PROVE  tmr.pc # "new"
  BY Zenon DEF TimersInv, GuiRuns, TmrReady

LEMMA GuiHasRun ==
    ASSUME Gui
    PROVE  GuiRuns
  BY Zenon DEF Gui, GuiPop, GuiTake, HandleRedraw, HandleTerminate, HandleEvent, HandleTimer,
         UpdateTimer, UpdateDone, HandleStop, HandleStart, HandleClose, GuiExit, GuiDone,
         GuiEnter, GuiRedraw, GuiResume, Handles

LEMMA TimersStep == GuixTypeOK /\ TimersInv /\ [Next]_vars => TimersInv'
<1> SUFFICES ASSUME GuixTypeOK, TimersInv, [Next]_vars PROVE TimersInv'
  BY Zenon
<1>0. gui \in GuiType /\ tmr \in TmrType
  BY Zenon DEF GuixTypeOK
<1>1. CASE Gui
  <2>1. tmr.pc # "new"
    BY Zenon, <1>1, GuiHasRun, NotNew
  <2>2. CASE UNCHANGED <<timers, tmr>>
    BY Zenon, <2>1, <2>2 DEF TimersInv
  <2>3. CASE UpdateTimer
    <3>1. CASE timers' = << >>
      BY Zenon, <1>0, <2>1, <2>3, <3>1, UpdateFacts, StartStop DEF TimersInv
    <3>2. CASE timers' # << >>
      BY Zenon, <2>1, <2>3, <3>2, UpdateFacts DEF TimersInv
    <3> QED
      BY Zenon, <3>1, <3>2
  <2>4. ASSUME NEW w \in Widgets, HandleStop(w) PROVE TimersInv'
    <3>1. CASE timers' = << >>
      BY Zenon, <1>0, <2>1, <2>4, <3>1, StopFacts, StartStop DEF TimersInv
    <3>2. CASE timers' # << >>
      BY Zenon, <2>1, <2>4, <3>2, StopFacts DEF TimersInv
    <3> QED
      BY Zenon, <3>1, <3>2
  <2>5. ASSUME NEW w \in Widgets, NEW left \in 1 .. MaxTicks, NEW again \in {0, 1},
               HandleStart(w, left, again)
        PROVE  TimersInv'
    <3>1. timers' # << >> /\ (tmr' = Started(tmr) \/ (tmr' = tmr /\ timers # << >>))
      BY Zenon, <2>5, StartFacts
    <3> QED
      BY Zenon, <1>0, <2>1, <3>1, StartStop DEF TimersInv
  <2>6. CASE GuiExit \/ GuiResume
    <3>1. timers' = timers /\ tmr'.pc = tmr.pc /\ tmr'.susp = tmr.susp
          /\ tmr'.running = tmr.running
      BY Zenon, <1>0, <2>6 DEF GuiExit, GuiResume, Woken, TmrType
    <3> QED
      BY Zenon, <2>1, <3>1 DEF TimersInv
  <2> QED
    BY Zenon, <1>1, <2>2, <2>3, <2>4, <2>5, <2>6
       DEF Gui, GuiPop, GuiTake, HandleRedraw, HandleTerminate, HandleEvent, HandleTimer,
           UpdateDone, HandleClose, GuiDone, GuiEnter, GuiRedraw
<1>2. CASE Timer
  <2>1. timers' = timers /\ tmr'.running = tmr.running /\ tmr'.pc # "new"
    BY Zenon, <1>0, <1>2
       DEF Timer, TmrNew, TmrBegin, DelayOver, TmrCheck, TmrWakeup, TmrExpire, TmrType
  <2>2. CASE TmrNew
    BY Zenon, <1>0, <2>1, <2>2 DEF TmrNew, TimersInv, TmrType
  <2>3. CASE ~TmrNew
    <3>1. tmr'.susp = tmr.susp /\ tmr.pc # "new"
      BY ZenonT(30), <1>0, <1>2, <2>3
         DEF Timer, TmrBegin, DelayOver, TmrCheck, TmrWakeup, TmrExpire, TmrType
    <3> QED
      BY Zenon, <2>1, <3>1 DEF TimersInv
  <2> QED
    BY Zenon, <2>2, <2>3
<1>3. ASSUME NEW e \in Inputs, Post(e) PROVE TimersInv'
  <2>1. gui'.in = gui.in /\ gui'.done = gui.done
        /\ (gui'.pc = gui.pc \/ (gui.pc = "wait" /\ gui'.pc = "take"))
    BY Zenon, <1>0, <1>3, SignalFacts DEF Post
  <2>2. cpu = "tmr" => cpu' = "tmr"
    BY Zenon, <1>3 DEF Post
  <2> QED
    BY Zenon, <1>3, <2>1, <2>2 DEF Post, TimersInv
<1>4. CASE UNCHANGED <<timers, tmr, gui, cpu>>
  BY Zenon, <1>4 DEF TimersInv
<1> QED
  BY Zenon, <1>1, <1>2, <1>3, <1>4 DEF Next, vars, Register, Unregister

\* gx_generic_timer_start and _stop are called around the list of active timers: the
\* timer task is never suspended with a timer on the list, and never looks at the
\* list when it is empty.
THEOREM TimersKeptRunning == Spec => []TimersRun
<1>1. Init => TimersInv
  BY DEF Init, TimersInv
<1>2. TimersInv => TimersRun
  BY Zenon DEF TimersInv, TimersRun, TmrReady
<1> QED
  BY <1>1, <1>2, TimersStep, GuixTypes, PTL DEF Spec

----------------------------------------------------------------------------
(* The timer task is quiet while the GUI sleeps.                           *)

\* Away from the end of the loop, a step that leaves the timer task's part of the
\* sleep and the thread's alone.
LEMMA SleepSame ==
    ASSUME SleepInv, gui.pc \notin {"done", "enter"}, gui'.pc \notin {"done", "enter"},
           gui'.pc \in (IF gui.in = "loop" THEN LoopSteps ELSE SleepSteps),
           gui'.in = gui.in, gui'.done = gui.done, gui'.wake = gui.wake, tmr' = tmr
    PROVE  SleepInv'
  BY Zenon DEF SleepInv, Parked, LoopSteps, SleepSteps

\* A step from an event's handler in the loop; it may start or stop the timer task.
LEMMA SleepHandler ==
    ASSUME SleepInv, gui.pc \in {"handle", "update"},
           gui'.pc \in {"pop", "update", "exit", "astray"},
           gui'.in = gui.in, gui'.done = gui.done,
           tmr'.pc = tmr.pc, tmr'.active = tmr.active, tmr'.wakeup = tmr.wakeup
    PROVE  SleepInv'
<1>1. gui.in = "loop" /\ ~gui.done
  BY Zenon DEF SleepInv, LoopSteps, SleepSteps
<1>2. gui'.in = "loop" /\ ~gui'.done /\ gui'.pc \in LoopSteps /\ gui'.pc \notin {"done", "enter"}
  BY Zenon, <1>1 DEF LoopSteps
<1> QED
  BY Zenon, <1>1, <1>2 DEF SleepInv

LEMMA SleepLoop ==
    ASSUME GuixTypeOK, SleepInv,
           \/ GuiPop \/ GuiTake \/ HandleRedraw \/ HandleTerminate \/ HandleEvent
           \/ HandleTimer \/ UpdateTimer \/ UpdateDone
    PROVE  SleepInv'
<1>0. gui \in GuiType /\ tmr \in TmrType
  BY Zenon DEF GuixTypeOK
<1>1. CASE GuiPop
  BY Zenon, <1>0, <1>1, SleepSame DEF GuiPop, GuiType, LoopSteps, SleepSteps
<1>2. CASE GuiTake
  <2> DEFINE p == IF pending = << >> THEN "wait"
                  ELSE CASE gui.in = "loop" -> "handle"
                         [] gui.in = "sleep" /\ gui.wait -> "redraw"
                         [] OTHER -> "pop"
             e == IF pending = << >> THEN gui.ev ELSE Head(pending)
  <2>1. (gui' = [gui EXCEPT !.pc = p] \/ gui' = [gui EXCEPT !.ev = e, !.pc = p])
        /\ tmr' = tmr /\ gui.pc = "take"
    BY Zenon, <1>2 DEF GuiTake
  <2>2. gui.in = "loop" => p \in {"wait", "handle"}
    BY Zenon
  <2>3. gui.in = "sleep" => p \in {"wait", "redraw", "pop"}
    BY Zenon
  <2> HIDE DEF p, e
  <2>4. gui.in \in {"loop", "sleep"}
    BY Zenon, <1>0 DEF GuiType
  <2>5. gui'.in = gui.in /\ gui'.done = gui.done /\ gui'.wake = gui.wake /\ gui'.pc = p
    <3>1. CASE gui' = [gui EXCEPT !.pc = p]
      BY Zenon, <1>0, <3>1 DEF GuiType
    <3>2. CASE gui' = [gui EXCEPT !.ev = e, !.pc = p]
      BY Zenon, <1>0, <3>2 DEF GuiType
    <3> QED
      BY Zenon, <2>1, <3>1, <3>2
  <2> QED
    BY Zenon, <2>1, <2>2, <2>3, <2>4, <2>5, SleepSame DEF LoopSteps, SleepSteps
<1>3. CASE HandleRedraw \/ HandleTerminate \/ HandleEvent \/ HandleTimer \/ UpdateDone
  <2>1. tmr' = tmr /\ gui.pc \in {"handle", "update"}
    BY Zenon, <1>3 DEF HandleRedraw, HandleTerminate, HandleEvent, HandleTimer, UpdateDone, Handles
  <2>2. CASE HandleRedraw \/ HandleEvent
    BY Zenon, <1>0, <2>1, <2>2, HandledFacts, SleepHandler DEF HandleRedraw, HandleEvent
  <2>3. CASE HandleTerminate \/ HandleTimer \/ UpdateDone
    <3>1. gui'.pc \in {"exit", "update", "pop"} /\ gui'.in = gui.in /\ gui'.done = gui.done
      <4>1. CASE HandleTerminate
        BY Zenon, <1>0, <4>1 DEF HandleTerminate, GuiType
      <4>2. CASE HandleTimer
        BY Zenon, <1>0, <4>2 DEF HandleTimer, GuiType
      <4>3. CASE UpdateDone
        BY Zenon, <1>0, <4>3 DEF UpdateDone, GuiType
      <4> QED
        BY Zenon, <2>3, <4>1, <4>2, <4>3
    <3> QED
      BY Zenon, <2>1, <3>1, SleepHandler
  <2> QED
    BY Zenon, <1>3, <2>2, <2>3
<1>4. CASE UpdateTimer
  <2>1. gui.pc = "update" /\ gui'.pc = "update" /\ gui'.in = gui.in /\ gui'.done = gui.done
    <3>1. gui.pc = "update"
      BY Zenon, <1>4 DEF UpdateTimer
    <3> QED
      BY Zenon, <1>4, <3>1, UpdateFacts
  <2>2. tmr' = tmr \/ tmr' = Stopped(tmr)
    BY Zenon, <1>4, UpdateFacts
  <2> QED
    BY Zenon, <1>0, <2>1, <2>2, StartStop, SleepHandler
<1> QED
  BY Zenon, <1>1, <1>2, <1>3, <1>4

LEMMA SleepWidget ==
    ASSUME GuixTypeOK, SleepInv, NEW w \in Widgets, NEW left \in 1 .. MaxTicks,
           NEW again \in {0, 1},
           HandleStop(w) \/ HandleStart(w, left, again) \/ HandleClose(w)
    PROVE  SleepInv'
<1>0. gui \in GuiType /\ tmr \in TmrType
  BY Zenon DEF GuixTypeOK
<1>1. gui.pc = "handle"
  BY Zenon DEF HandleStop, HandleStart, HandleClose, Handles
<1>2. gui'.pc \in {"pop", "astray"} /\ gui'.in = gui.in /\ gui'.done = gui.done
  <2>1. CASE Handled
    BY Zenon, <1>0, <2>1, HandledFacts
  <2>2. CASE gui' = [gui EXCEPT !.pc = "astray"]
    BY Zenon, <1>0, <2>2 DEF GuiType
  <2> QED
    BY Zenon, <2>1, <2>2 DEF HandleStop, HandleStart, HandleClose
<1>3. tmr' = tmr \/ tmr' = Stopped(tmr) \/ tmr' = Started(tmr)
  BY Zenon DEF HandleStop, HandleStart, HandleClose
<1> QED
  BY Zenon, <1>0, <1>1, <1>2, <1>3, StartStop, SleepHandler

\* From the end of the loop through the sleep and back.
LEMMA SleepSleep ==
    ASSUME GuixTypeOK, SleepInv,
           GuiExit \/ GuiDone \/ GuiEnter \/ GuiRedraw \/ GuiResume
    PROVE  SleepInv'
<1>0. gui \in GuiType /\ tmr \in TmrType
  BY DEF GuixTypeOK
<1>1. CASE GuiExit
  <2>1. gui.pc = "exit" /\ gui.in = "loop" /\ ~gui.done
    BY Zenon, <1>1 DEF GuiExit, SleepInv, SleepSteps
  <2>2. gui'.in = "loop" /\ ~gui'.done /\ (gui'.wake <=> ~tmr.susp)
        /\ gui'.pc = (IF tmr.susp THEN "enter" ELSE "done")
    <3> DEFINE w == ~tmr.susp
               p == IF tmr.susp THEN "enter" ELSE "done"
               e == ~tmr.susp /\ tmr.pc = "begin"
    <3>1. gui' = [gui EXCEPT !.wake = w, !.pc = p, !.early = e]
      BY Zenon, <1>1 DEF GuiExit
    <3>2. w \in BOOLEAN /\ (w <=> ~tmr.susp) /\ p = (IF tmr.susp THEN "enter" ELSE "done")
      BY Zenon
    <3> HIDE DEF w, p, e
    <3>3. gui'.in = gui.in /\ gui'.done = gui.done /\ gui'.wake = w /\ gui'.pc = p
      BY Zenon, <1>0, <3>1 DEF GuiType
    <3> QED
      BY Zenon, <2>1, <3>2, <3>3
  <2>3. /\ tmr'.pc = tmr.pc /\ (tmr'.susp <=> tmr.susp) /\ (tmr'.wakeup <=> tmr.wakeup)
        /\ tmr.susp => tmr' = tmr
    BY Zenon, <1>0, <1>1 DEF GuiExit, TmrType
  <2>4. CASE tmr.susp
    BY Zenon, <2>1, <2>2, <2>3, <2>4 DEF SleepInv, Parked, LoopSteps
  <2>5. CASE ~tmr.susp
    BY Zenon, <2>1, <2>2, <2>3, <2>5 DEF SleepInv, Parked, LoopSteps
  <2> QED
    BY Zenon, <2>4, <2>5
<1>2. CASE GuiDone
  <2>1. gui.pc = "done" /\ gui.done /\ gui.in = "loop"
    BY Zenon, <1>0, <1>2 DEF GuiDone, GuiRuns, GuiReady, SleepInv, SleepSteps, GuiType
  <2>2. gui'.pc = "enter" /\ ~gui'.done /\ gui'.in = "loop" /\ gui'.wake = gui.wake /\ tmr' = tmr
    BY Zenon, <1>0, <1>2, <2>1 DEF GuiDone, GuiType
  <2> QED
    BY Zenon, <2>1, <2>2 DEF SleepInv, Parked, LoopSteps
<1>3. CASE GuiEnter
  <2>1. gui.pc = "enter" /\ ~gui.done
    BY Zenon, <1>3 DEF GuiEnter, SleepInv
  <2>2. gui'.pc = "pop" /\ gui'.in = "sleep" /\ ~gui'.done /\ gui'.wake = gui.wake /\ tmr' = tmr
    BY Zenon, <1>0, <1>3, <2>1 DEF GuiEnter, GuiType
  <2> QED
    BY Zenon, <2>1, <2>2 DEF SleepInv, Parked, SleepSteps
<1>4. CASE GuiRedraw
  <2>1. gui.pc = "redraw" /\ gui.in # "loop"
    BY Zenon, <1>4 DEF GuiRedraw, SleepInv, LoopSteps
  <2> QED
    BY <1>0, <1>4, <2>1, SleepSame DEF GuiRedraw, GuiType, SleepSteps
<1>5. CASE GuiResume
  <2>1. gui.pc = "resume" /\ gui.in = "sleep" /\ ~gui.done
    BY Zenon, <1>0, <1>5 DEF GuiResume, SleepInv, LoopSteps, GuiType
  <2>2. gui'.pc = "pop" /\ gui'.in = "loop" /\ ~gui'.done
    BY Zenon, <1>0, <1>5, <2>1 DEF GuiResume, GuiType
  <2>3. CASE gui.wake
    <3>1. tmr.pc = "wakeup"
      BY Zenon, <2>1, <2>3 DEF SleepInv, Parked
    <3>2. tmr'.pc = tmr.pc /\ tmr'.active
      BY Zenon, <1>0, <1>5, <2>3 DEF GuiResume, Woken, TmrType
    <3> QED
      BY Zenon, <2>1, <2>2, <3>1, <3>2 DEF SleepInv, LoopSteps
  <2>4. CASE ~gui.wake
    <3>1. tmr' = tmr
      BY Zenon, <1>5, <2>4 DEF GuiResume, Woken
    <3> QED
      BY Zenon, <2>1, <2>2, <3>1 DEF SleepInv, LoopSteps
  <2> QED
    BY Zenon, <2>3, <2>4
<1> QED
  BY Zenon, <1>1, <1>2, <1>3, <1>4, <1>5

LEMMA SleepTimer ==
    ASSUME GuixTypeOK, TimersInv, SleepInv, Timer
    PROVE  SleepInv'
<1>0. gui \in GuiType /\ tmr \in TmrType
  BY Zenon DEF GuixTypeOK
<1>1. CASE TmrNew
  <2>1. gui.pc = "pop" /\ gui.in = "loop" /\ ~gui.done /\ ~tmr.wakeup
    BY Zenon, <1>1 DEF TmrNew, TimersInv, SleepInv
  <2>2. tmr'.pc = "begin" /\ tmr'.wakeup = tmr.wakeup /\ gui' = gui
    BY Zenon, <1>0, <1>1 DEF TmrNew, TmrType
  <2> QED
    BY Zenon, <2>1, <2>2 DEF SleepInv, LoopSteps
<1>2. CASE TmrBegin
  <2>1. tmr.pc = "begin" /\ ~tmr.susp /\ ~tmr.wakeup /\ gui' = gui
    BY Zenon, <1>2 DEF TmrBegin, TmrRuns, TmrReady, SleepInv
  <2>2. tmr'.pc = "delay" /\ tmr'.active /\ tmr'.susp = tmr.susp /\ tmr'.wakeup = tmr.wakeup
    BY Zenon, <1>0, <1>2 DEF TmrBegin, TmrType
  <2> QED
    BY Zenon, <2>1, <2>2 DEF SleepInv, Parked
<1>3. CASE DelayOver
  <2>1. tmr.pc = "delay" /\ ~tmr.wakeup /\ gui' = gui
    BY Zenon, <1>3 DEF DelayOver, SleepInv
  <2>2. /\ tmr'.pc = "check" /\ tmr'.active = tmr.active /\ tmr'.susp = tmr.susp
        /\ tmr'.wakeup = tmr.wakeup
    BY Zenon, <1>0, <1>3 DEF DelayOver, TmrType
  <2> QED
    BY Zenon, <2>1, <2>2 DEF SleepInv, Parked
<1>4. CASE TmrCheck
  <2>1. tmr.pc = "check" /\ ~tmr.susp /\ ~tmr.wakeup
    BY Zenon, <1>4 DEF TmrCheck, TmrRuns, TmrReady, SleepInv
  <2>2. gui.in # "sleep" /\ gui.pc # "enter" /\ ~gui.done
    BY Zenon, <2>1 DEF SleepInv, Parked
  <2>3. /\ tmr'.pc = (IF tmr.active THEN "expire" ELSE "wakeup") /\ tmr'.active = tmr.active
        /\ tmr'.susp = tmr.susp /\ tmr'.wakeup = tmr.wakeup
    BY Zenon, <1>0, <1>4 DEF TmrCheck, TmrType
  <2>4. CASE tmr.active
    BY Zenon, <1>4, <2>1, <2>2, <2>3, <2>4 DEF TmrCheck, SleepInv, Parked
  <2>5. CASE ~tmr.active
    <3>1. gui.pc = "done"
      BY Zenon, <2>1, <2>5 DEF SleepInv
    <3>2. gui'.pc = gui.pc /\ gui'.in = gui.in /\ gui'.wake = gui.wake
      BY Zenon, <1>0, <1>4, <2>5 DEF TmrCheck, GuiType
    <3> QED
      BY Zenon, <2>1, <2>2, <2>3, <2>5, <3>1, <3>2 DEF SleepInv, Parked
  <2> QED
    BY Zenon, <2>4, <2>5
<1>5. CASE TmrWakeup
  <2>1. tmr.pc = "wakeup" /\ ~tmr.susp /\ tmr.wakeup /\ gui' = gui
    BY Zenon, <1>5 DEF TmrWakeup, TmrRuns, TmrReady
  <2>2. tmr'.pc = "check" /\ tmr'.active = tmr.active /\ tmr'.susp = tmr.susp /\ ~tmr'.wakeup
    BY Zenon, <1>0, <1>5 DEF TmrWakeup, TmrType
  <2> QED
    BY Zenon, <2>1, <2>2 DEF SleepInv, Parked
<1>6. CASE TmrExpire
  <2>1. tmr.pc = "expire" /\ ~tmr.susp /\ ~tmr.wakeup
    BY Zenon, <1>6 DEF TmrExpire, TmrRuns, TmrReady, SleepInv
  <2>2. gui.in # "sleep" /\ gui.pc # "enter" /\ ~gui.done
    BY Zenon, <2>1 DEF SleepInv, Parked
  <2>3. /\ tmr'.pc = "delay" /\ tmr'.active = tmr.active /\ tmr'.susp = tmr.susp
        /\ tmr'.wakeup = tmr.wakeup
    BY Zenon, <1>0, <1>6 DEF TmrExpire, TmrType
  <2>4. gui'.in = gui.in /\ gui'.done = gui.done /\ gui'.wake = gui.wake
        /\ (gui'.pc = gui.pc \/ (gui.pc = "wait" /\ gui'.pc = "take"))
    BY Zenon, <1>0, <1>6, SignalFacts DEF TmrExpire
  <2>5. gui'.pc \in (IF gui.in = "loop" THEN LoopSteps ELSE SleepSteps)
    BY Zenon, <2>4 DEF SleepInv, LoopSteps, SleepSteps
  <2> QED
    BY Zenon, <2>1, <2>2, <2>3, <2>4, <2>5 DEF SleepInv
<1> QED
  BY Zenon, <1>1, <1>2, <1>3, <1>4, <1>5, <1>6 DEF Timer

LEMMA SleepStep == GuixTypeOK /\ TimersInv /\ SleepInv /\ [Next]_vars => SleepInv'
<1> SUFFICES ASSUME GuixTypeOK, TimersInv, SleepInv, [Next]_vars PROVE SleepInv'
  BY Zenon
<1>1. CASE Gui
  <2>1. ASSUME NEW w \in Closing, HandleClose(w) PROVE SleepInv'
    BY <2>1, Constants, SleepWidget
  <2>2. ASSUME NEW w \in Widgets, HandleStop(w) PROVE SleepInv'
    BY <2>2, Constants, SleepWidget
  <2> QED
    BY Zenon, <1>1, <2>1, <2>2, SleepLoop, SleepWidget, SleepSleep DEF Gui
<1>2. ASSUME NEW e \in Inputs, Post(e) PROVE SleepInv'
  <2>1. gui \in GuiType
    BY Zenon DEF GuixTypeOK
  <2>2. tmr' = tmr /\ gui'.in = gui.in /\ gui'.done = gui.done /\ gui'.wake = gui.wake
        /\ (gui'.pc = gui.pc \/ (gui.pc = "wait" /\ gui'.pc = "take"))
    BY Zenon, <1>2, <2>1, SignalFacts DEF Post
  <2>3. CASE gui'.pc = gui.pc
    BY Zenon, <2>2, <2>3 DEF SleepInv, Parked
  <2>4. CASE gui.pc = "wait" /\ gui'.pc = "take"
    BY Zenon, <2>2, <2>4, SleepSame DEF LoopSteps, SleepSteps
  <2> QED
    BY Zenon, <2>2, <2>3, <2>4
<1>3. CASE UNCHANGED <<tmr, gui>>
  BY Zenon, <1>3 DEF SleepInv, Parked
<1> QED
  BY Zenon, <1>1, <1>2, <1>3, SleepTimer DEF Next, vars, Register, Unregister

\* guix_thread_adaptor waits for the timer task before it tells that the GUI sleeps,
\* and wakes it only after telling that the sleep is over.
THEOREM SleepIsQuiet == Spec => []QuietSleep
<1>1. Init => TimersInv /\ SleepInv
  BY DEF Init, TimersInv, SleepInv, LoopSteps
<1>2. SleepInv => QuietSleep
  BY Zenon DEF SleepInv, Parked, QuietSleep
<1> QED
  BY <1>1, <1>2, TimersStep, SleepStep, GuixTypes, PTL DEF Spec

----------------------------------------------------------------------------
(* Whoever was told of the sleep is told of its end.                       *)

LEMMA ToldStep == GuixTypeOK /\ ToldInv /\ [Next]_vars => ToldInv'
<1> SUFFICES ASSUME GuixTypeOK, ToldInv, [Next]_vars, NEW x \in Observers
             PROVE  (x \notin ToSet(observers) => told[x] = "none")'
                    /\ (gui.in = "loop" => told[x] # "enter")'
  BY Zenon DEF ToldInv
<1>0. gui \in GuiType /\ told \in [Observers -> {"none", "enter", "exit"}]
      /\ ObserversOK(observers)
  BY Zenon DEF GuixTypeOK
<1>1. (x \notin ToSet(observers) => told[x] = "none") /\ (gui.in = "loop" => told[x] # "enter")
  BY Zenon DEF ToldInv
<1>2. CASE GuiEnter
  <2>1. gui'.in = "sleep"
    BY Zenon, <1>0, <1>2 DEF GuiEnter, GuiType
  <2> QED
    BY Zenon, <1>1, <1>2, <2>1 DEF GuiEnter, Notified
<1>3. CASE GuiResume
  <2>1. told'[x] = IF x \in ToSet(observers) THEN "exit" ELSE told[x]
    BY Zenon, <1>3 DEF GuiResume, Notified
  <2>2. observers' = observers
    BY Zenon, <1>3 DEF GuiResume
  <2> QED
    BY Zenon, <1>1, <2>1, <2>2
<1>4. ASSUME NEW o \in Observers, Register(o)
      PROVE  (x \notin ToSet(observers) => told[x] = "none")'
             /\ (gui.in = "loop" => told[x] # "enter")'
  <2>1. CASE o \in ToSet(observers)
    BY Zenon, <1>1, <1>4, <2>1 DEF Register
  <2>2. CASE o \notin ToSet(observers)
    <3>1. PICK k \in 1 .. Len(observers) + 1 :
            Place(o, k) /\ observers' = InsertAt(observers, k, o)
      BY Zenon, <1>4, <2>2 DEF Register
    <3>2. told' = [told EXCEPT ![o] = "none"] /\ gui' = gui
      BY Zenon, <1>4, <2>2 DEF Register
    <3>3. ToSet(observers) \subseteq ToSet(observers')
      BY Zenon, <1>0, <2>2, <3>1, ObserversInserted
    <3> QED
      BY Zenon, <1>0, <1>1, <3>2, <3>3
  <2> QED
    BY Zenon, <2>1, <2>2
<1>5. ASSUME NEW o \in Observers, Unregister(o)
      PROVE  (x \notin ToSet(observers) => told[x] = "none")'
             /\ (gui.in = "loop" => told[x] # "enter")'
  <2>1. PICK k \in DOMAIN observers : observers[k] = o /\ observers' = RemoveAt(observers, k)
    BY Zenon, <1>5 DEF Unregister
  <2>2. \A y \in ToSet(observers) : y # o => y \in ToSet(observers')
    BY Zenon, <1>0, <2>1, ObserversRemoved
  <2>3. told' = [told EXCEPT ![o] = "none"] /\ gui' = gui
    BY Zenon, <1>5 DEF Unregister
  <2> QED
    BY Zenon, <1>0, <1>1, <2>2, <2>3
<1>6. CASE (Gui /\ ~GuiEnter /\ ~GuiResume) \/ Timer \/ (\E e \in Inputs : Post(e))
  <2>1. observers' = observers /\ told' = told
    BY Zenon, <1>6 DEF Gui, Timer, Post, GuiPop, GuiTake, HandleRedraw, HandleTerminate, HandleEvent,
                HandleTimer, UpdateTimer, UpdateDone, HandleStop, HandleStart, HandleClose,
                GuiExit, GuiDone, GuiRedraw, TmrNew, TmrBegin, DelayOver, TmrCheck, TmrWakeup,
                TmrExpire
  <2>2. gui'.in = gui.in
    <3>1. CASE UpdateTimer
      BY Zenon, <3>1, UpdateFacts
    <3>2. CASE GuiPop \/ HandleTerminate \/ HandleTimer
      BY Zenon, <1>0, <3>2 DEF GuiPop, HandleTerminate, HandleTimer, GuiType
    <3>3. CASE GuiTake
      BY Zenon, <1>0, <3>3 DEF GuiTake, GuiType
    <3>4. CASE UpdateDone
      BY Zenon, <1>0, <3>4 DEF UpdateDone, GuiType
    <3>5. CASE Handled
      BY Zenon, <1>0, <3>5, HandledFacts
    <3>6. CASE gui' = [gui EXCEPT !.pc = "astray"] \/ gui' = gui \/ gui' = [gui EXCEPT !.done = TRUE]
      BY Zenon, <1>0, <3>6 DEF GuiType
    <3>7. CASE GuiExit
      BY Zenon, <1>0, <3>7 DEF GuiExit, GuiType
    <3>8. CASE GuiDone
      BY Zenon, <1>0, <3>8 DEF GuiDone, GuiType
    <3>9. CASE GuiRedraw
      BY Zenon, <1>0, <3>9 DEF GuiRedraw, GuiType
    <3>10. CASE Timer \/ (\E e \in Inputs : Post(e))
      <4>1. gui' = gui \/ gui' = [gui EXCEPT !.done = TRUE] \/ gui' = Signalled(gui, pending')
        BY Zenon, <3>10 DEF Timer, TmrNew, TmrBegin, DelayOver, TmrCheck, TmrWakeup, TmrExpire, Post
      <4> QED
        BY SMTT(30), <1>0, <3>6, <4>1, SignalFacts
    <3>11. CASE \/ HandleRedraw \/ HandleEvent
                \/ \E w \in Widgets : HandleStop(w)
                \/ \E w \in Widgets, left \in 1 .. MaxTicks, again \in {0, 1} :
                     HandleStart(w, left, again)
                \/ \E w \in Closing : HandleClose(w)
      BY Zenon, <3>5, <3>6, <3>11 DEF HandleRedraw, HandleEvent, HandleStop, HandleStart, HandleClose
    <3> QED
      BY Zenon, <1>6, <3>1, <3>2, <3>3, <3>4, <3>7, <3>8, <3>9, <3>10, <3>11 DEF Gui
  <2> QED
    BY Zenon, <1>1, <2>1, <2>2
<1>7. CASE UNCHANGED vars
  BY Zenon, <1>1, <1>7 DEF vars
<1> QED
  BY Zenon, <1>2, <1>3, <1>4, <1>5, <1>6, <1>7 DEF Next

\* _guix_suspend_notify goes through the observers registered at the time: one that
\* has come since the sleep began hears only of its end, one that has left nothing.
THEOREM NobodyLeftAsleep == Spec => []NoneLeftAsleep
<1>1. Init => ToldInv
  BY Zenon DEF Init, ToldInv
<1>2. GuixTypeOK /\ ToldInv => NoneLeftAsleep
  <2> SUFFICES ASSUME GuixTypeOK, ToldInv, gui.in = "loop", NEW o \in ToSet(observers)
               PROVE  told[o] # "enter"
    BY Zenon DEF NoneLeftAsleep
  <2>1. o \in Observers
    BY DEF GuixTypeOK, ObserversOK, ToSet
  <2> QED
    BY Zenon, <2>1 DEF ToldInv
<1> QED
  BY <1>1, <1>2, ToldStep, GuixTypes, PTL DEF Spec
=============================================================================
