--------------------------- MODULE ManagedProofs ----------------------------
(***************************************************************************)
(* Proofs about the managed resources and the managed interrupts, for every *)
(* number of nodes and every set of release functions.                      *)
(***************************************************************************)
EXTENDS ManagedIrq, TLAPS

-----------------------------------------------------------------------------
(* Taking one element out of a sequence *)

(* t is s without its element number p.                                     *)
Without(t, s, p) ==
  /\ Len(t) = Len(s) - 1
  /\ \A j \in 1..(Len(s) - 1) : t[j] = IF j < p THEN s[j] ELSE s[j + 1]

(* What a concatenation holds, place by place.                              *)
LEMMA Joined ==
    ASSUME NEW S, NEW a \in Seq(S), NEW b \in Seq(S)
    PROVE  /\ a \o b \in Seq(S) /\ Len(a \o b) = Len(a) + Len(b)
           /\ \A k \in 1 .. Len(a) + Len(b) :
                (a \o b)[k] = IF k <= Len(a) THEN a[k] ELSE b[k - Len(a)]
OBVIOUS

(* list_del() of the node a driver names.                                   *)
LEMMA RemoveAtWithout ==
  ASSUME NEW S, NEW s \in Seq(S), NEW p \in DOMAIN s
  PROVE  RemoveAt(s, p) \in Seq(S) /\ Without(RemoveAt(s, p), s, p)
<1> DEFINE a == SubSeq(s, 1, p - 1)
           b == SubSeq(s, p + 1, Len(s))
<1>1. p \in 1..Len(s) /\ Len(s) \in Nat
  OBVIOUS
<1>2. /\ a \in Seq(S)
      /\ Len(a) = p - 1
      /\ \A j \in 1..(p - 1) : a[j] = s[j]
  BY <1>1
<1>3. /\ b \in Seq(S)
      /\ Len(b) = Len(s) - p
      /\ \A j \in 1..(Len(s) - p) : b[j] = s[p + j]
  BY <1>1
<1> HIDE DEF a, b
<1>4. /\ a \o b \in Seq(S)
      /\ Len(a \o b) = Len(s) - 1
      /\ \A j \in 1..(Len(s) - 1) :
           (a \o b)[j] = IF j <= p - 1 THEN a[j] ELSE b[j - (p - 1)]
  <2>1. /\ a \o b \in Seq(S)
        /\ Len(a \o b) = Len(a) + Len(b)
        /\ \A j \in 1..(Len(a) + Len(b)) :
             (a \o b)[j] = IF j <= Len(a) THEN a[j] ELSE b[j - Len(a)]
    BY Zenon, <1>2, <1>3, Joined
  <2>2. Len(a) + Len(b) = Len(s) - 1
    BY <1>1, <1>2, <1>3
  <2> QED
    BY Zenon, <1>2, <2>1, <2>2
<1>5. \A j \in 1..(Len(s) - 1) :
        (a \o b)[j] = IF j < p THEN s[j] ELSE s[j + 1]
  <2> SUFFICES ASSUME NEW j \in 1..(Len(s) - 1)
               PROVE  (a \o b)[j] = IF j < p THEN s[j] ELSE s[j + 1]
    BY Zenon
  <2>1. (a \o b)[j] = IF j <= p - 1 THEN a[j] ELSE b[j - (p - 1)]
    BY Zenon, <1>4
  <2>2. CASE j < p
    <3>1. j \in 1..(p - 1) /\ j <= p - 1
      BY <1>1, <2>2
    <3> QED
      BY Zenon, <1>2, <2>1, <2>2, <3>1
  <2>3. CASE ~(j < p)
    <3>1. /\ j - (p - 1) \in 1..(Len(s) - p) /\ ~(j <= p - 1)
          /\ p + (j - (p - 1)) = j + 1
      BY <1>1, <2>3
    <3>2. b[j - (p - 1)] = s[p + (j - (p - 1))]
      BY Zenon, <1>3, <3>1
    <3> QED
      BY Zenon, <2>1, <2>3, <3>1, <3>2
  <2> QED
    BY Zenon, <2>2, <2>3
<1>6. RemoveAt(s, p) = a \o b
  BY Zenon DEF RemoveAt, a, b
<1> QED
  BY Zenon, <1>4, <1>5, <1>6 DEF Without

(* list_del() of the node at the tail.                                      *)
LEMMA FrontWithout ==
  ASSUME NEW S, NEW s \in Seq(S), s # <<>>
  PROVE  /\ Front(s) \in Seq(S)
         /\ Len(s) \in DOMAIN s
         /\ Last(s) = s[Len(s)]
         /\ Without(Front(s), s, Len(s))
<1>1. Len(s) \in Nat /\ Len(s) # 0 /\ DOMAIN s = 1..Len(s)
  OBVIOUS
<1>2. /\ Front(s) \in Seq(S)
      /\ Len(Front(s)) = Len(s) - 1
      /\ \A j \in 1..(Len(s) - 1) : Front(s)[j] = s[j]
  BY <1>1 DEF Front
<1>3. \A j \in 1..(Len(s) - 1) : j < Len(s)
  BY <1>1
<1>4. Without(Front(s), s, Len(s))
  BY Zenon, <1>2, <1>3 DEF Without
<1> QED
  BY SMTT(30), <1>1, <1>2, <1>4 DEF Last

-----------------------------------------------------------------------------
(* The two ways the list changes *)

(* A node that leaves the list for the heap leaves the others in order.     *)
LEMMA DropKeeps ==
  ASSUME DevresInv, NEW p \in DOMAIN head, Drop(head[p]),
         head' \in Seq(Res), Without(head', head, p), UNCHANGED lifeVars,
         life # "none"
  PROVE  DevresInv'
<1> DEFINE e(j) == IF j < p THEN j ELSE j + 1
<1>1. /\ Len(head) \in Nat /\ Len(head') \in Nat
      /\ DOMAIN head = 1..Len(head) /\ DOMAIN head' = 1..Len(head')
      /\ Len(head') = Len(head) - 1
      /\ p \in 1..Len(head)
      /\ head[p] \in Res
  BY DEF DevresInv, TypeOK, Without
<1>2. \A j \in DOMAIN head' :
        e(j) \in DOMAIN head /\ e(j) # p /\ head'[j] = head[e(j)]
  BY <1>1 DEF Without
<1>3. \A i, j \in DOMAIN head' : (i < j <=> e(i) < e(j)) /\ (e(i) = e(j) => i = j)
  BY <1>1
<1>4. \A i \in DOMAIN head : i # p => \E j \in DOMAIN head' : e(j) = i
  <2> SUFFICES ASSUME NEW i \in DOMAIN head, i # p
               PROVE  \E j \in DOMAIN head' : e(j) = i
    BY Zenon
  <2>1. CASE i < p
    BY <1>1, <2>1
  <2>2. CASE i > p
    <3>1. i - 1 \in DOMAIN head' /\ e(i - 1) = i
      BY <1>1, <2>2
    <3> QED
      BY Zenon, <3>1
  <2> QED
    BY <1>1, <2>1, <2>2
<1> HIDE DEF e
<1>5. \A i, j \in DOMAIN head : head[i] = head[j] => i = j
  BY Zenon DEF DevresInv, ListExact
<1>6. \A j \in DOMAIN head' :
        /\ head'[j] \in Res /\ head'[j] # head[p]
        /\ release'[head'[j]] = release[head[e(j)]]
        /\ phase'[head'[j]] = phase[head[e(j)]]
        /\ born'[head'[j]] = born[head[e(j)]]
  BY <1>1, <1>2, <1>5 DEF DevresInv, TypeOK, Drop
<1>7. TypeOK'
  BY Zenon, <1>1, KindAssumption
     DEF DevresInv, TypeOK, Drop, lifeVars, Phase, BIND, Acquiring
<1>8. ListExact'
  <2>1. \A i, j \in DOMAIN head' : head'[i] = head'[j] => i = j
    BY Zenon, <1>2, <1>3, <1>5
  <2>2. ASSUME NEW r \in Res
        PROVE  heap'[r] = "listed" <=> \E j \in DOMAIN head' : head'[j] = r
    <3>1. CASE r = head[p]
      BY Zenon, <1>1, <1>6, <3>1 DEF DevresInv, TypeOK, Drop
    <3>2. CASE r # head[p]
      <4>1. heap'[r] = heap[r]
        BY Zenon, <3>2 DEF DevresInv, TypeOK, Drop
      <4>2. heap[r] = "listed" <=> \E i \in DOMAIN head : head[i] = r
        BY Zenon DEF DevresInv, ListExact
      <4>3. (\E i \in DOMAIN head : head[i] = r)
              <=> \E j \in DOMAIN head' : head'[j] = r
        BY Zenon, <1>2, <1>4, <3>2
      <4> QED
        BY Zenon, <4>1, <4>2, <4>3
    <3> QED
      BY Zenon, <3>1, <3>2
  <2> QED
    BY Zenon, <2>1, <2>2 DEF ListExact
<1>9. BindFirst'
  BY <1>2, <1>3, <1>6 DEF DevresInv, BindFirst, BIND
<1>10. OneOfAKind'
  BY <1>2, <1>3, <1>6 DEF DevresInv, OneOfAKind
<1>11. FlagsFit'
  BY Zenon DEF DevresInv, FlagsFit, lifeVars
<1>12. AllBind => AllBind'
  BY <1>2, <1>6 DEF AllBind, BIND
<1>13. PhaseFit'
  BY <1>2, <1>6, <1>12 DEF DevresInv, PhaseFit, BIND, lifeVars
<1> QED
  BY Zenon, <1>7, <1>8, <1>9, <1>10, <1>11, <1>13 DEF DevresInv

(* A node that devres_add() puts on the tail has the phase of the hook that *)
(* runs, so it follows no node it should have come before.                  *)
LEMMA AddKeeps ==
  ASSUME DevresInv, NEW r \in Res, NEW k \in Kind, life \in Acquiring,
         heap[r] # "listed", Add(r, k), UNCHANGED lifeVars,
         k \in OneOff => ~Found(k)
  PROVE  DevresInv'
<1> DEFINE n == Len(head) + 1
<1>1. /\ Len(head) \in Nat
      /\ DOMAIN head = 1..Len(head) /\ DOMAIN head' = 1..n
      /\ head' \in Seq(Res)
      /\ head'[n] = r
      /\ \A i \in DOMAIN head : head'[i] = head[i] /\ head[i] \in Res
  BY DEF DevresInv, TypeOK, Add
<1>2. \A i \in DOMAIN head : head[i] # r
  BY Zenon DEF DevresInv, ListExact
<1>3. PhaseNow \in Phase /\ (PhaseNow = BIND <=> life = "bind")
  BY DEF DevresInv, TypeOK, FlagsFit, PhaseNow, Phase, BIND, OFDATA, PROBE,
         Acquiring
<1>4. \A i \in DOMAIN head :
        /\ release'[head'[i]] = release[head[i]]
        /\ phase'[head'[i]] = phase[head[i]]
        /\ born'[head'[i]] = born[head[i]]
  BY Zenon, <1>1, <1>2 DEF DevresInv, TypeOK, Add
<1>5. release'[r] = k /\ phase'[r] = PhaseNow /\ born'[r] = life
  BY Zenon DEF DevresInv, TypeOK, Add
<1>6. \A i \in DOMAIN head' : i \in DOMAIN head \/ i = n
  BY <1>1
<1>7. \A i \in DOMAIN head : i < n /\ i # n
  BY <1>1
<1> HIDE DEF n
<1>8. TypeOK'
  BY Zenon, <1>1, <1>3 DEF DevresInv, TypeOK, Add, lifeVars
<1>9. ListExact'
  <2>1. \A i, j \in DOMAIN head' : head'[i] = head'[j] => i = j
    BY <1>1, <1>2, <1>6 DEF DevresInv, ListExact
  <2>2. ASSUME NEW q \in Res
        PROVE  heap'[q] = "listed" <=> \E j \in DOMAIN head' : head'[j] = q
    <3>0. n \in DOMAIN head' /\ DOMAIN head \subseteq DOMAIN head'
      BY <1>1 DEF n
    <3>1. CASE q = r
      BY Zenon, <1>1, <3>0, <3>1 DEF DevresInv, TypeOK, Add
    <3>2. CASE q # r
      <4>1. heap'[q] = heap[q]
        BY Zenon, <3>2 DEF DevresInv, TypeOK, Add
      <4>2. heap[q] = "listed" <=> \E i \in DOMAIN head : head[i] = q
        BY Zenon DEF DevresInv, ListExact
      <4> QED
        BY Zenon, <1>1, <1>6, <3>0, <3>2, <4>1, <4>2
    <3> QED
      BY Zenon, <3>1, <3>2
  <2> QED
    BY Zenon, <2>1, <2>2 DEF ListExact
<1>10. AllBind /\ life = "bind" => AllBind'
  BY Zenon, <1>1, <1>3, <1>4, <1>5, <1>6 DEF AllBind, BIND
<1>11. life = "bind" => AllBind
  BY Zenon DEF DevresInv, PhaseFit
<1>12. BindFirst'
  <2> SUFFICES ASSUME NEW i \in DOMAIN head', NEW j \in DOMAIN head',
                      i < j, phase'[head'[j]] = BIND
               PROVE  phase'[head'[i]] = BIND
    BY Zenon DEF BindFirst, BIND
  <2>1. CASE j = n
    BY Zenon, <1>1, <1>3, <1>5, <1>10, <1>11, <2>1 DEF AllBind, BIND
  <2>2. CASE j \in DOMAIN head
    <3>1. i \in DOMAIN head
      BY <1>1, <2>2
    <3> QED
      BY Zenon, <1>4, <2>2, <3>1 DEF DevresInv, BindFirst
  <2> QED
    BY Zenon, <1>6, <2>1, <2>2
<1>13. OneOfAKind'
  <2>1. k \in OneOff => \A i \in DOMAIN head : release[head[i]] # k
    BY Zenon DEF Found
  <2> QED
    BY <1>1, <1>4, <1>5, <1>6, <2>1 DEF DevresInv, OneOfAKind
<1>14. FlagsFit'
  BY Zenon DEF DevresInv, FlagsFit, lifeVars
<1>15. PhaseFit'
  <2>1. \A i \in DOMAIN head' :
          phase'[head'[i]] = BIND <=> born'[head'[i]] = "bind"
    BY <1>1, <1>3, <1>4, <1>5, <1>6 DEF DevresInv, PhaseFit
  <2>2. life' = life /\ life \notin {"bound", "unbind", "none"}
    BY Zenon DEF lifeVars, Acquiring
  <2> QED
    BY Zenon, <1>10, <1>11, <2>1, <2>2 DEF PhaseFit, BIND
<1> QED
  BY Zenon, <1>8, <1>9, <1>12, <1>13, <1>14, <1>15 DEF DevresInv

-----------------------------------------------------------------------------
(* The invariant *)

LEMMA DevresInvInit == Init => DevresInv
<1> SUFFICES ASSUME Init PROVE DevresInv
  BY Zenon
<1>1. head = <<>> /\ DOMAIN head = {}
  BY DEF Init
<1>2. TypeOK
  <2>1. /\ heap \in [Res -> {"free", "held", "listed", "lost"}]
        /\ release \in [Res -> Kind]
        /\ phase \in [Res -> Phase]
        /\ born \in [Res -> Acquiring]
    BY Zenon, KindAssumption DEF Init, Phase, Acquiring
  <2>2. /\ head \in Seq(Res)
        /\ flags \subseteq {"BOUND", "PLATDATA_VALID"}
        /\ life \in Life
    BY DEF Init, Life
  <2>3. priv \in BOOLEAN
    BY Zenon DEF Init
  <2> QED
    BY Zenon, <2>1, <2>2, <2>3 DEF TypeOK
<1>3. ListExact
  BY Zenon, <1>1 DEF Init, ListExact
<1>4. BindFirst /\ OneOfAKind
  BY Zenon, <1>1 DEF BindFirst, OneOfAKind
<1>5. FlagsFit /\ PhaseFit
  BY Zenon, <1>1 DEF Init, FlagsFit, PhaseFit
<1> QED
  BY Zenon, <1>2, <1>3, <1>4, <1>5 DEF DevresInv

(* With DM_FLAG_BOUND set, the other flag tells all there is to know.       *)
LEMMA FlagSets ==
  ASSUME NEW f \in SUBSET {"BOUND", "PLATDATA_VALID"}, "BOUND" \in f
  PROVE  /\ "PLATDATA_VALID" \in f => f = {"BOUND", "PLATDATA_VALID"}
         /\ "PLATDATA_VALID" \notin f => f = {"BOUND"}
BY Zenon

(* The driver core's own steps leave the list alone.                        *)
LEMMA LifeKeeps == ASSUME DevresInv, LifeStep PROVE DevresInv'
<1>1. UNCHANGED devresVars
  BY Zenon DEF LifeStep, Moves, BindStart, BindDone, BindFails, OfToPlatStart,
         OfToPlatDone, ProbeStart, ProbeDone, RemoveStart, RemoveFails,
         DeviceFree, UnbindStart, UnbindFails, UnbindDone
<1>2. ListExact' /\ BindFirst' /\ OneOfAKind' /\ (AllBind' <=> AllBind)
  BY Zenon, <1>1 DEF DevresInv, ListExact, BindFirst, OneOfAKind, AllBind, devresVars,
              BIND
<1>3. \A i \in DOMAIN head' :
        phase'[head'[i]] = BIND <=> born'[head'[i]] = "bind"
  BY Zenon, <1>1 DEF DevresInv, PhaseFit, devresVars
<1>4. head = <<>> => AllBind
  BY SMTT(30) DEF AllBind
<1>5. TypeOK' /\ FlagsFit' /\ PhaseFit'
  <2> USE <1>1, <1>2, <1>3, <1>4
      DEF DevresInv, TypeOK, FlagsFit, PhaseFit, Moves, Life, Hooked,
          Acquiring, devresVars, BIND
  <2>1. CASE BindStart
    BY Zenon, <2>1 DEF BindStart
  <2>2. CASE BindDone
    BY Zenon, <2>2 DEF BindDone
  <2>3. CASE BindFails
    BY <2>3 DEF BindFails
  <2>4. CASE OfToPlatStart
    BY <2>4 DEF OfToPlatStart
  <2>5. CASE OfToPlatDone
    BY <2>5 DEF OfToPlatDone
  <2>6. CASE ProbeStart \/ ProbeDone \/ RemoveStart \/ RemoveFails
    BY Zenon, <2>6 DEF ProbeStart, ProbeDone, RemoveStart, RemoveFails
  <2>7. CASE DeviceFree
    BY Zenon, <2>7 DEF DeviceFree
  <2>8. CASE UnbindStart
    BY Zenon, <2>8 DEF UnbindStart
  <2>9. CASE UnbindFails
    <3>1. CASE "PLATDATA_VALID" \in flags
      <4>1. life' = "plat" /\ flags' = flags /\ priv' = priv
        BY Zenon, <2>9, <3>1 DEF UnbindFails
      <4>2. flags = {"BOUND", "PLATDATA_VALID"}
        BY Zenon, <2>9, <3>1, FlagSets DEF UnbindFails
      <4> QED
        BY Zenon, <4>1, <4>2
    <3>2. CASE "PLATDATA_VALID" \notin flags
      <4>1. life' = "bound" /\ flags' = flags /\ priv' = priv
        BY Zenon, <2>9, <3>2 DEF UnbindFails
      <4>2. flags = {"BOUND"} /\ AllBind
        BY Zenon, <2>9, <3>2, FlagSets DEF UnbindFails
      <4> QED
        BY Zenon, <4>1, <4>2
    <3> QED
      BY Zenon, <3>1, <3>2
  <2>10. CASE UnbindDone
    BY <2>10 DEF UnbindDone
  <2> QED
    BY Zenon, <2>1, <2>2, <2>3, <2>4, <2>5, <2>6, <2>7, <2>8, <2>9, <2>10 DEF LifeStep
<1> QED
  BY Zenon, <1>2, <1>5 DEF DevresInv

(* A walk that stops leaves only nodes of bind(), or none.                  *)
LEMMA ReleaseEndKeeps == ASSUME DevresInv, ReleaseEnd PROVE DevresInv'
<1>1. UNCHANGED devresVars /\ UNCHANGED flags /\ UNCHANGED priv
  BY Zenon DEF ReleaseEnd
<1>2. ListExact' /\ BindFirst' /\ OneOfAKind' /\ (AllBind' <=> AllBind)
  BY Zenon, <1>1 DEF DevresInv, ListExact, BindFirst, OneOfAKind, AllBind, devresVars,
              BIND
<1>3. life = "release_probe" => AllBind
  <2> SUFFICES ASSUME life = "release_probe", NEW i \in DOMAIN head
               PROVE  phase[head[i]] = BIND
    BY Zenon DEF AllBind
  <2>1. /\ Len(head) \in DOMAIN head /\ head # <<>>
        /\ Last(head) = head[Len(head)] /\ (i < Len(head) \/ i = Len(head))
    BY DEF DevresInv, TypeOK, Last
  <2>2. phase[head[Len(head)]] = BIND
    BY Zenon, <2>1 DEF ReleaseEnd, Walkable
  <2> QED
    BY Zenon, <2>1, <2>2 DEF DevresInv, BindFirst
<1>4. life = "release_all" => head = <<>>
  BY Zenon DEF ReleaseEnd, Walkable
<1>5. \/ life = "release_probe" /\ life' = "bound"
      \/ life = "release_all" /\ life' = "none"
  BY Zenon DEF ReleaseEnd
<1>6. TypeOK' /\ FlagsFit'
  BY Zenon, <1>1, <1>5 DEF DevresInv, TypeOK, FlagsFit, Life, Hooked, devresVars
<1>7. \A i \in DOMAIN head' :
        phase'[head'[i]] = BIND <=> born'[head'[i]] = "bind"
  BY Zenon, <1>1 DEF DevresInv, PhaseFit, devresVars
<1>8. PhaseFit'
  BY Zenon, <1>1, <1>2, <1>3, <1>4, <1>5, <1>7 DEF PhaseFit, devresVars, BIND
<1> QED
  BY Zenon, <1>2, <1>6, <1>8 DEF DevresInv

LEMMA DevresInvNext == DevresInv /\ [Next]_vars => DevresInv'
<1> SUFFICES ASSUME DevresInv, [Next]_vars PROVE DevresInv'
  BY Zenon
<1>1. CASE LifeStep
  BY Zenon, <1>1, LifeKeeps
<1>2. ASSUME NEW r \in Res, NEW k \in Kind \ OneOff, DevmGet(r, k)
      PROVE  DevresInv'
  BY Zenon, <1>2, AddKeeps DEF DevmGet
<1>3. ASSUME NEW r \in Res, NEW k \in Kind \ OneOff, DevmGetFails(r, k)
      PROVE  DevresInv'
  <2>1. /\ UNCHANGED <<release, phase, born, head, flags, life, priv>>
        /\ heap' = [heap EXCEPT ![r] = "lost"] /\ heap[r] = "free"
    BY Zenon, <1>3 DEF DevmGetFails, lifeVars
  <2>2. TypeOK' /\ BindFirst' /\ OneOfAKind' /\ FlagsFit' /\ PhaseFit'
    BY Zenon, <2>1 DEF DevresInv, TypeOK, BindFirst, OneOfAKind, FlagsFit, PhaseFit,
                AllBind, BIND
  <2>3. ListExact'
    BY <2>1 DEF DevresInv, TypeOK, ListExact
  <2> QED
    BY Zenon, <2>2, <2>3 DEF DevresInv
<1>4. ASSUME NEW r \in Res, NEW k \in OneOff, DevresGet(r, k)
      PROVE  DevresInv'
  BY Zenon, <1>4, AddKeeps, KindAssumption DEF DevresGet
<1>5. ASSUME NEW i \in DOMAIN head, DevmPut(i)
      PROVE  DevresInv'
  <2>1. head \in Seq(Res) /\ life # "none"
    BY Zenon, <1>5 DEF DevresInv, TypeOK, DevmPut, Hooked, Acquiring
  <2>2. head' \in Seq(Res) /\ Without(head', head, i)
    BY Zenon, <1>5, <2>1, RemoveAtWithout DEF DevmPut
  <2> QED
    BY Zenon, <1>5, <2>1, <2>2, DropKeeps DEF DevmPut
<1>6. CASE ReleaseNode
  <2>1. head \in Seq(Res) /\ head # <<>> /\ life # "none"
    BY Zenon, <1>6 DEF DevresInv, TypeOK, ReleaseNode, Walkable
  <2>2. /\ Len(head) \in DOMAIN head /\ Drop(head[Len(head)])
        /\ head' \in Seq(Res) /\ Without(head', head, Len(head))
    BY Zenon, <1>6, <2>1, FrontWithout DEF ReleaseNode
  <2> QED
    BY Zenon, <1>6, <2>1, <2>2, DropKeeps DEF ReleaseNode
<1>7. CASE ReleaseEnd
  BY Zenon, <1>7, ReleaseEndKeeps
<1>8. CASE UNCHANGED vars
  BY <1>8 DEF DevresInv, TypeOK, ListExact, BindFirst, OneOfAKind, FlagsFit,
              PhaseFit, AllBind, vars, BIND
<1> QED
  BY Zenon, <1>1, <1>2, <1>3, <1>4, <1>5, <1>6, <1>7, <1>8 DEF Next, ListStep

(* The invariant of the list and of the device's life holds throughout.     *)
THEOREM DevresInvariant == Spec => []DevresInv
BY DevresInvInit, DevresInvNext, PTL DEF Spec

-----------------------------------------------------------------------------
(* What follows from it *)

(* However many nodes there are, what is on devres_head is allocated and is *)
(* there once, and a node that was freed is no longer linked.               *)
THEOREM ListStaysExact == Spec => []ListExact
<1>1. DevresInv => ListExact
  BY Zenon DEF DevresInv
<1> QED
  BY <1>1, DevresInvariant, PTL

(* The nodes of the bind phase are always the oldest of the list, on which  *)
(* the early end of the walk of devres_release_probe() rests.               *)
THEOREM BindStaysFirst == Spec => []BindFirst
<1>1. DevresInv => BindFirst
  BY Zenon DEF DevresInv
<1> QED
  BY <1>1, DevresInvariant, PTL

(* After devres_release_probe() a device holds only what its bind() took,   *)
(* after devres_release_all() it holds nothing, whichever hook failed.      *)
THEOREM DetachReleases == Spec => []Detached
<1>1. DevresInv => Detached
  BY Zenon DEF DevresInv, PhaseFit, AllBind, Detached
<1> QED
  BY <1>1, DevresInvariant, PTL

(* devres_get() never adds a second node of a kind.                         *)
THEOREM GetAddsOne == Spec => []OneOfAKind
<1>1. DevresInv => OneOfAKind
  BY Zenon DEF DevresInv
<1> QED
  BY <1>1, DevresInvariant, PTL

-----------------------------------------------------------------------------
(* Managed interrupts *)

(* Drivers give back by hand only interrupts whose handler is their own.    *)
(* No driver of the repository calls devm_free_irq() at all.                *)
FreesDirectOnly == FreesIrq \subseteq {"direct"}

-----------------------------------------------------------------------------
(* Nodes *)

(* Between devres_alloc() and devres_add() there is the node being held.    *)
LEMMA HeldNode ==
  ASSUME HandlerInv, call # "none"
  PROVE  /\ Held \in Res /\ heap[Held] = "held"
         /\ \A r \in Res : heap[r] = "held" => r = Held
<1>1. \E r \in Res : heap[r] = "held"
  BY Zenon DEF HandlerInv, RequestInv
<1>2. Held \in Res /\ heap[Held] = "held"
  BY Zenon, <1>1 DEF Held
<1> QED
  BY Zenon, <1>2 DEF HandlerInv, RequestInv

(* The driver core's own steps and the end of a walk leave the nodes alone. *)
LEMMA CoreLeavesNodes ==
  ASSUME LifeStep \/ ReleaseEnd
  PROVE  UNCHANGED devresVars
BY Zenon DEF LifeStep, ReleaseEnd, Moves, BindStart, BindDone, BindFails,
       OfToPlatStart, OfToPlatDone, ProbeStart, ProbeDone, RemoveStart,
       RemoveFails, DeviceFree, UnbindStart, UnbindFails, UnbindDone

-----------------------------------------------------------------------------
(* The handler and its node *)

LEMMA HandlerInit == IrqInit => HandlerInv
<1> SUFFICES ASSUME IrqInit PROVE HandlerInv
  BY Zenon
<1>1. NodeTypes
  BY DEF IrqInit, Init, NodeTypes
<1>2. RequestInv
  BY Zenon DEF IrqInit, Init, RequestInv
<1>3. HandlerHasNode
  BY Zenon DEF IrqInit, HandlerHasNode
<1> QED
  BY Zenon, <1>1, <1>2, <1>3 DEF HandlerInv

(* A request that begins takes a node no handler works on.                  *)
LEMMA RequestStartKeeps ==
  ASSUME HandlerInv, NEW r \in Res, NEW m \in Modes, RequestStart(r, m)
  PROVE  HandlerInv'
<1>1. /\ heap' = [heap EXCEPT ![r] = "held"] /\ heap[r] = "free" /\ r # vec
      /\ mode' = [mode EXCEPT ![r] = m] /\ m \in {"direct", "server", "threaded"}
      /\ call = "none" /\ call' = "install" /\ life = "probe"
      /\ head' = head /\ life' = life /\ vec' = vec
  BY Zenon, IrqAssumption DEF RequestStart, Idle, lifeVars, tableVars
<1>2. NodeTypes'
  BY Zenon, <1>1 DEF HandlerInv, NodeTypes
<1>3. \A q \in Res : heap'[q] = "held" <=> q = r
  BY Zenon, <1>1 DEF HandlerInv, NodeTypes, RequestInv
<1>4. RequestInv'
  BY Zenon, <1>1, <1>3 DEF RequestInv
<1>5. HandlerHasNode'
  BY Zenon, <1>1, IrqAssumption DEF HandlerInv, NodeTypes, HandlerHasNode
<1> QED
  BY Zenon, <1>2, <1>4, <1>5 DEF HandlerInv

(* Putting the handler into the table, or giving the node back.             *)
LEMMA InstallKeeps ==
  ASSUME HandlerInv, Install \/ InstallFails PROVE HandlerInv'
<1>1. CASE Install
  <2>1. /\ UNCHANGED <<heap, head, life, mode>>
        /\ vec' = Held /\ call = "install" /\ call' = "fields"
    BY Zenon, <1>1 DEF Install, vars
  <2>2. Held \in Res /\ heap[Held] = "held"
    BY Zenon, <2>1, HeldNode
  <2>3. NodeTypes' /\ RequestInv'
    BY Zenon, <2>1, <2>2 DEF HandlerInv, NodeTypes, RequestInv
  <2>4. HandlerHasNode'
    BY Zenon, <2>1, <2>2 DEF HandlerHasNode
  <2> QED
    BY Zenon, <2>3, <2>4 DEF HandlerInv
<1>2. CASE InstallFails
  <2>1. /\ UNCHANGED <<head, life, mode, vec>>
        /\ heap' = [heap EXCEPT ![Held] = "free"]
        /\ call = "install" /\ call' = "none"
    BY Zenon, <1>2 DEF InstallFails, Drop, lifeVars, tableVars
  <2>2. /\ Held \in Res /\ heap[Held] = "held" /\ Held # vec
        /\ \A r \in Res : heap[r] = "held" => r = Held
    BY Zenon, <2>1, HeldNode DEF HandlerInv, RequestInv
  <2>3. NodeTypes' /\ RequestInv'
    BY Zenon, <2>1, <2>2 DEF HandlerInv, NodeTypes, RequestInv
  <2>4. HandlerHasNode'
    BY Zenon, <2>1, <2>2 DEF HandlerInv, NodeTypes, HandlerHasNode
  <2> QED
    BY Zenon, <2>3, <2>4 DEF HandlerInv
<1> QED
  BY Zenon, <1>1, <1>2

(* The end of a request: the node goes on the list.                         *)
LEMMA SetFieldsKeeps == ASSUME HandlerInv, SetFields PROVE HandlerInv'
<1>1. /\ UNCHANGED <<life, mode, vec>>
      /\ heap' = [heap EXCEPT ![Held] = "listed"] /\ head' = Append(head, Held)
      /\ call = "fields" /\ call' = "none"
  BY Zenon DEF SetFields, Add, lifeVars, tableVars
<1>2. /\ Held \in Res /\ heap[Held] = "held"
      /\ \A r \in Res : heap[r] = "held" => r = Held
  BY Zenon, <1>1, HeldNode
<1>3. NodeTypes' /\ RequestInv'
  BY <1>1, <1>2 DEF HandlerInv, NodeTypes, RequestInv
<1>4. HandlerHasNode'
  BY Zenon, <1>1, <1>2 DEF HandlerInv, NodeTypes, HandlerHasNode
<1> QED
  BY Zenon, <1>3, <1>4 DEF HandlerInv

(* A driver frees the node of a handler that does not work on it.           *)
LEMMA FreeKeeps ==
  ASSUME HandlerInv, FreesDirectOnly, DevmFreeIrq PROVE HandlerInv'
<1>1. PICK i \in DOMAIN head : mode[head[i]] \in FreesIrq /\ DevmPut(i)
  BY Zenon DEF DevmFreeIrq
<1>2. head \in Seq(Res) /\ head[i] \in Res
  BY DEF HandlerInv, NodeTypes
<1>3. /\ UNCHANGED <<life, mode, vec, call>> /\ call = "none"
      /\ heap' = [heap EXCEPT ![head[i]] = "free"] /\ mode[head[i]] = "direct"
  BY Zenon, <1>1 DEF DevmFreeIrq, Idle, DevmPut, Drop, lifeVars, irqVars, FreesDirectOnly
<1>4. head' \in Seq(Res)
  BY Zenon, <1>1, <1>2, RemoveAtWithout DEF DevmPut
<1>5. NodeTypes' /\ RequestInv'
  BY Zenon, <1>2, <1>3, <1>4 DEF HandlerInv, NodeTypes, RequestInv
<1>6. HandlerHasNode'
  BY Zenon, <1>2, <1>3 DEF HandlerInv, NodeTypes, HandlerHasNode
<1> QED
  BY Zenon, <1>5, <1>6 DEF HandlerInv

(* devm_irq_release() takes the handler out before the node goes.           *)
LEMMA ReleaseKeeps == ASSUME HandlerInv, IrqRelease PROVE HandlerInv'
<1>1. head \in Seq(Res) /\ head # <<>> /\ life # "probe"
  BY Zenon DEF HandlerInv, NodeTypes, IrqRelease, ReleaseNode, Walkable
<1>2. head' \in Seq(Res) /\ Last(head) \in Res
  BY <1>1, FrontWithout DEF IrqRelease, ReleaseNode
<1>3. /\ UNCHANGED <<life, mode, call>>
      /\ heap' = [heap EXCEPT ![Last(head)] = "free"]
      /\ vec' = IF vec = Last(head) THEN NoRes ELSE vec
  BY Zenon DEF IrqRelease, ReleaseNode, Drop, lifeVars
<1>4. call = "none"
  BY Zenon, <1>1 DEF HandlerInv, RequestInv
<1>5. NodeTypes' /\ RequestInv'
  BY Zenon, <1>2, <1>3, <1>4 DEF HandlerInv, NodeTypes, RequestInv
<1>6. HandlerHasNode'
  BY Zenon, <1>2, <1>3 DEF HandlerInv, NodeTypes, HandlerHasNode
<1> QED
  BY Zenon, <1>5, <1>6 DEF HandlerInv

LEMMA HandlerNext ==
  ASSUME FreesDirectOnly, HandlerInv, [IrqNext]_allVars
  PROVE  HandlerInv'
<1>1. CASE Request
  BY Zenon, <1>1, RequestStartKeeps, InstallKeeps, SetFieldsKeeps DEF Request
<1>2. CASE DevmFreeIrq
  BY Zenon, <1>2, FreeKeeps
<1>3. CASE IrqRelease
  BY Zenon, <1>3, ReleaseKeeps
<1>4. CASE Core
  <2>1. UNCHANGED <<heap, head, mode, vec, call>> /\ call = "none"
    BY Zenon, <1>4, CoreLeavesNodes DEF Core, Idle, devresVars, irqVars
  <2> QED
    BY Zenon, <2>1 DEF HandlerInv, NodeTypes, RequestInv, HandlerHasNode
<1>5. CASE SwitchOn \/ SwitchOff \/ RaiseLine \/ Serve \/ UNCHANGED allVars
  <2>1. UNCHANGED <<heap, head, life, mode, vec, call>>
    BY Zenon, <1>5 DEF SwitchOn, SwitchOff, RaiseLine, Serve, IsrDirect, IsrSubmit,
                IsrWrapper, ServerTake, ServerRun, allVars, vars, irqVars,
                tableVars
  <2> QED
    BY Zenon, <2>1 DEF HandlerInv, NodeTypes, RequestInv, HandlerHasNode
<1> QED
  BY Zenon, <1>1, <1>2, <1>3, <1>4, <1>5 DEF IrqNext

(* Whatever the number of nodes and however requests, failures, removals    *)
(* and interrupts interleave: a handler in the vector table that works on   *)
(* its node has that node, as long as drivers give back only direct         *)
(* interrupts by hand.                                                      *)
THEOREM HandlerKeepsNode ==
  ASSUME FreesDirectOnly PROVE IrqSpec => []HandlerHasNode
<1>1. HandlerInv /\ [IrqNext]_allVars => HandlerInv'
  BY Zenon, HandlerNext
<1>2. HandlerInv => HandlerHasNode
  BY Zenon DEF HandlerInv
<1> QED
  BY <1>1, <1>2, HandlerInit, PTL DEF IrqSpec

-----------------------------------------------------------------------------
(* Interrupts, the server and the private data *)

LEMMA PowerInit == ASSUME IrqInit PROVE PowerInv
BY Zenon DEF IrqInit, Init, PowerInv, IrqPending

(* The private data are there from of_to_plat() until device_free(), and    *)
(* device_free() is reached from remove() only with the device off.  A line *)
(* asserted earlier is no exception: the handler is installed by probe(),   *)
(* and the task does not move while an interrupt is pending.                *)
LEMMA PowerNext ==
  ASSUME HandlerInv, PowerInv, [IrqNext]_allVars PROVE PowerInv'
<1>1. CASE Core
  <2>1. /\ UNCHANGED <<line, on, vec, hw>> /\ (life = "remove" => ~hw)
        /\ ~IrqPending /\ ~IrqPending'
    BY Zenon, <1>1 DEF Core, Idle, TaskRuns, IrqPending, irqVars
  <2>2. CASE LifeStep
    <3> USE <2>1 DEF PowerInv, Moves
    <3>1. CASE BindStart \/ BindDone \/ BindFails
      BY Zenon, <3>1 DEF BindStart, BindDone, BindFails
    <3>2. CASE OfToPlatStart
      <4>1. priv' = TRUE /\ life = "bound" /\ life' = "of_to_plat"
        BY Zenon, <3>2 DEF OfToPlatStart
      <4> QED
        BY Zenon, <4>1
    <3>3. CASE OfToPlatDone \/ ProbeStart \/ ProbeDone
      BY Zenon, <3>3 DEF OfToPlatDone, ProbeStart, ProbeDone
    <3>4. CASE RemoveStart \/ RemoveFails
      BY Zenon, <3>4 DEF RemoveStart, RemoveFails
    <3>5. CASE DeviceFree
      BY Zenon, <3>5 DEF DeviceFree
    <3>6. CASE UnbindStart \/ UnbindDone
      BY Zenon, <3>6 DEF UnbindStart, UnbindDone
    <3>7. CASE UnbindFails
      BY Zenon, <3>7 DEF UnbindFails
    <3> QED
      BY Zenon, <2>2, <3>1, <3>2, <3>3, <3>4, <3>5, <3>6, <3>7 DEF LifeStep
  <2>3. CASE ReleaseEnd
    BY Zenon, <2>1, <2>3 DEF PowerInv, ReleaseEnd
  <2> QED
    BY Zenon, <1>1, <2>2, <2>3 DEF Core
<1>2. CASE SwitchOn \/ SwitchOff \/ RaiseLine
  BY Zenon, <1>2 DEF PowerInv, IrqPending, SwitchOn, SwitchOff, RaiseLine, Idle,
              TaskRuns, vars, tableVars
<1>3. CASE Install
  <2>1. life = "probe" /\ UNCHANGED <<hw, flags, life, priv>>
    BY Zenon, <1>3 DEF HandlerInv, RequestInv, Install, vars
  <2> QED
    BY Zenon, <2>1 DEF PowerInv
<1>4. CASE \/ \E r \in Res, m \in Modes : RequestStart(r, m)
           \/ InstallFails \/ SetFields \/ DevmFreeIrq \/ IrqRelease
  <2>1. UNCHANGED <<hw, flags, life, priv>> /\ ~IrqPending
    BY Zenon, <1>4 DEF RequestStart, InstallFails, SetFields, DevmFreeIrq, DevmPut,
                IrqRelease, ReleaseNode, Idle, TaskRuns, irqVars, lifeVars
  <2>2. line' = line /\ (UNCHANGED <<vec, on>> \/ vec' = NoRes)
    BY Zenon, <1>4 DEF RequestStart, InstallFails, SetFields, DevmFreeIrq, IrqRelease,
                irqVars, tableVars
  <2> QED
    BY SMTT(30), <2>1, <2>2 DEF PowerInv, IrqPending
<1>5. CASE IsrDirect \/ IsrSubmit \/ IsrWrapper \/ UNCHANGED allVars
  <2>1. /\ UNCHANGED <<hw, flags, life, priv>>
        /\ IrqPending \/ UNCHANGED <<line, on, vec>>
    BY Zenon, <1>5 DEF IsrDirect, IsrSubmit, IsrWrapper, allVars, vars, irqVars
  <2> QED
    BY SMTT(30), <2>1 DEF PowerInv, IrqPending
<1>6. CASE ServerTake \/ ServerRun
  <2>1. /\ UNCHANGED <<hw, flags, life, priv>>
        /\ UNCHANGED <<line, on, vec>> \/ line' = FALSE
    BY Zenon, <1>6 DEF ServerTake, ServerRun, vars, tableVars
  <2> QED
    BY <2>1 DEF PowerInv, IrqPending
<1> QED
  BY Zenon, <1>1, <1>2, <1>3, <1>4, <1>5, <1>6 DEF IrqNext, Request, Serve

(* The task runs only when the server has nothing to do, so nothing the     *)
(* server works on goes away under it.                                      *)
LEMMA ServerNext ==
  ASSUME ServerFirst = TRUE, HandlerInv, PowerInv, ServerInv,
         [IrqNext]_allVars
  PROVE  ServerInv'
<1>1. CASE Request \/ DevmFreeIrq \/ IrqRelease \/ Core
  <2>1. TaskRuns /\ UNCHANGED <<queue, run>>
    BY ZenonT(30), <1>1 DEF Request, RequestStart, Install, InstallFails, SetFields,
                DevmFreeIrq, IrqRelease, Core, Idle, irqVars, serverVars
  <2>2. queue = {} /\ run = NoRes
    BY Zenon, <2>1 DEF TaskRuns
  <2> QED
    BY Zenon, <2>1, <2>2 DEF ServerInv
<1>2. CASE SwitchOn \/ SwitchOff \/ RaiseLine \/ IsrDirect \/ IsrWrapper
             \/ UNCHANGED allVars
  <2>1. UNCHANGED <<queue, run, priv, heap>>
    BY Zenon, <1>2 DEF SwitchOn, SwitchOff, RaiseLine, IsrDirect, IsrWrapper, allVars,
                vars, irqVars, serverVars
  <2> QED
    BY Zenon, <2>1 DEF ServerInv
<1>3. CASE IsrSubmit
  <2>1. /\ UNCHANGED <<run, priv, heap>> /\ queue' = queue \cup {vec}
        /\ vec # NoRes /\ IrqPending /\ mode[vec] = "server"
    BY Zenon, <1>3 DEF IsrSubmit, IrqPending, vars
  <2>2. vec \in Res /\ heap[vec] \in {"held", "listed"}
    BY Zenon, <2>1 DEF HandlerInv, NodeTypes, HandlerHasNode
  <2>3. priv
    BY Zenon, <2>1 DEF PowerInv
  <2> QED
    BY Zenon, <2>1, <2>2, <2>3 DEF ServerInv
<1>4. CASE ServerTake
  <2>1. PICK r \in queue : run' = r /\ queue' = queue \ {r}
    BY Zenon, <1>4 DEF ServerTake
  <2>2. UNCHANGED <<priv, heap>>
    BY Zenon, <1>4 DEF ServerTake, vars
  <2>3. r \in Res /\ priv /\ heap[r] \in {"held", "listed"}
    BY Zenon DEF ServerInv
  <2> QED
    BY Zenon, <2>1, <2>2, <2>3 DEF ServerInv
<1>5. CASE ServerRun
  <2>1. UNCHANGED <<priv, heap, queue>> /\ run' = NoRes
    BY Zenon, <1>5 DEF ServerRun, vars
  <2> QED
    BY Zenon, <2>1 DEF ServerInv
<1> QED
  BY Zenon, <1>1, <1>2, <1>3, <1>4, <1>5 DEF IrqNext, Serve

(* With a server that preempts the task that removes the device, neither    *)
(* the interrupt nor the server ever runs driver code on private data that  *)
(* device_free() released or on a freed request.                            *)
THEOREM WorkKeepsData ==
  ASSUME FreesDirectOnly, ServerFirst = TRUE
  PROVE  IrqSpec => []WorkHasData
<1> DEFINE Inv == HandlerInv /\ PowerInv /\ ServerInv
<1>1. IrqInit => Inv
  BY Zenon, HandlerInit, PowerInit DEF IrqInit, ServerInv
<1>2. Inv /\ [IrqNext]_allVars => Inv'
  BY Zenon, HandlerNext, PowerNext, ServerNext
<1>3. Inv => WorkHasData
  BY Zenon DEF ServerInv, PowerInv, WorkHasData
<1> QED
  BY <1>1, <1>2, <1>3, PTL DEF IrqSpec
=============================================================================
