---------------------------- MODULE Mt4PumpProofs ----------------------------
(* What holds of the list of subscriptions without a lock, for every       *)
(* number of sessions, subscriptions and updates.                          *)
EXTENDS Mt4PumpSvr, FiniteSetTheorems, SequenceTheorems, TLAPS

(* What Tail and Head are in terms of elements.                            *)
LEMMA TailFacts ==
  ASSUME NEW S, NEW s \in Seq(S), s # <<>>
  PROVE  /\ Tail(s) \in Seq(S)
         /\ Len(Tail(s)) = Len(s) - 1
         /\ Len(s) \in Nat \ {0}
         /\ \A i \in 1..(Len(s) - 1) : Tail(s)[i] = s[i + 1]
         /\ Head(s) = s[1] /\ Head(s) \in S
  BY HeadTailProperties, EmptySeq


(* The session is in the list.                                             *)
Listed(s) == \E i \in 1..Len(pumpQue) : pumpQue[i] = s

(* Sessions that an update has no excuse to miss.                          *)
Reliable == Sessions \ (closed \cup lost \cup erased)

(* What the callback thread knows at its places: whom it is about to send  *)
(* to was open when the update arrived, and until the first erase the      *)
(* positions it remembers are those of closed sessions.                    *)
PlaceInv ==
  /\ cpc # "idle" => update > 0
  /\ cpc = "send" => it <= Len(pumpQue) /\ pumpQue[it] \notin before.closed
  /\ before.closed \subseteq closed
  /\ purged = 0 /\ ~crashed =>
       \A k \in 1..Len(intArray) :
         intArray[k] <= Len(pumpQue) /\ pumpQue[intArray[k]] \in closed

(* No update was sent before it arrived.                                   *)
SentInv == \A s \in Sessions : \A i \in 1..Len(sent[s]) : sent[s][i] <= update

(* Who is confirmed, or about to be, is in the list.                       *)
ListedInv ==
  ~crashed =>
    \A s \in Reliable :
      s \in confirmed \/ (wpc = "confirm" /\ s = session) => Listed(s)

(* Who was confirmed when the update arrived has been sent it, or is still *)
(* ahead of the iterator.                                                  *)
ServedInv ==
  ~crashed /\ update > 0 =>
    \A s \in Reliable \cap before.confirmed :
      \/ Served(s)
      \/ Walking /\ \E i \in it..Len(pumpQue) : pumpQue[i] = s

IInv == TypeOK /\ PlaceInv /\ SentInv /\ ClosedGetNothing /\ ListedInv /\ ServedInv

-----------------------------------------------------------------------------
(* std::vector                                                             *)

(* An erase takes one element out and keeps the others.                    *)
LEMMA RemoveAtFacts ==
  ASSUME NEW S, NEW q \in Seq(S), NEW n \in 1..Len(q)
  PROVE  /\ RemoveAt(q, n) \in Seq(S)
         /\ Len(RemoveAt(q, n)) = Len(q) - 1
         /\ \A i \in 1..Len(q) : i # n =>
              \E j \in 1..(Len(q) - 1) : RemoveAt(q, n)[j] = q[i]
         /\ \A i \in 1..(Len(q) - 1) :
              RemoveAt(q, n)[i] = q[IF i < n THEN i ELSE i + 1]
<1> DEFINE a == SubSeq(q, 1, n - 1)
           b == SubSeq(q, n + 1, Len(q))
<1>1. /\ a \in Seq(S) /\ Len(a) = n - 1
      /\ \A i \in 1..(n - 1) : a[i] = q[i]
  BY SubSeqProperties
<1>2. /\ b \in Seq(S) /\ Len(b) = Len(q) - n
      /\ \A i \in 1..(Len(q) - n) : b[i] = q[n + i]
  BY SubSeqProperties
<1> HIDE DEF a, b
<1>3. Len(q) \in Nat /\ n \in Nat /\ 1 <= n /\ n <= Len(q)
  OBVIOUS
<1> DEFINE c == a \o b
<1>4. /\ c \in Seq(S) /\ Len(c) = Len(q) - 1
      /\ \A i \in 1..(Len(q) - 1) : c[i] = IF i <= n - 1 THEN a[i] ELSE b[i - (n - 1)]
  <2>1. /\ c \in Seq(S) /\ Len(c) = Len(a) + Len(b)
        /\ \A i \in 1..(Len(a) + Len(b)) :
             c[i] = IF i <= Len(a) THEN a[i] ELSE b[i - Len(a)]
    BY <1>1, <1>2, ConcatProperties
  <2> HIDE DEF c
  <2>2. Len(a) = n - 1 /\ Len(a) + Len(b) = Len(q) - 1
    BY <1>1, <1>2, <1>3
  <2> QED BY <2>1, <2>2
<1>5. RemoveAt(q, n) = c
  BY DEF RemoveAt, a, b
<1> HIDE DEF c
<1>6. ASSUME NEW i \in 1..Len(q), i # n
      PROVE  \E j \in 1..(Len(q) - 1) : c[j] = q[i]
  <2>1. CASE i < n
    <3>1. i \in 1..(Len(q) - 1) /\ i \in 1..(n - 1) /\ i <= n - 1
      BY <2>1, <1>3
    <3>2. c[i] = a[i] /\ a[i] = q[i]
      BY <3>1, <1>1, <1>4
    <3> QED BY <3>1, <3>2
  <2>2. CASE i > n
    <3>1. /\ i - 1 \in 1..(Len(q) - 1) /\ ~(i - 1 <= n - 1) /\ i - n \in 1..(Len(q) - n)
          /\ (i - 1) - (n - 1) = i - n /\ n + (i - n) = i
      BY <2>2, <1>3
    <3>2. c[i - 1] = b[(i - 1) - (n - 1)] BY <3>1, <1>4
    <3>3. b[i - n] = q[n + (i - n)] BY <3>1, <1>2
    <3>4. c[i - 1] = q[i] BY <3>1, <3>2, <3>3
    <3> QED BY <3>1, <3>4
  <2> QED BY <2>1, <2>2, <1>3, <1>6
<1>7. ASSUME NEW i \in 1..(Len(q) - 1)
      PROVE  c[i] = q[IF i < n THEN i ELSE i + 1]
  <2>1. CASE i < n
    <3>1. i \in 1..(n - 1) /\ i <= n - 1
      BY <2>1, <1>3
    <3>2. c[i] = a[i] /\ a[i] = q[i]
      BY <3>1, <1>1, <1>4
    <3> QED BY <2>1, <3>2
  <2>2. CASE ~(i < n)
    <3>1. ~(i <= n - 1) /\ i - (n - 1) \in 1..(Len(q) - n) /\ n + (i - (n - 1)) = i + 1
      BY <2>2, <1>3
    <3>2. c[i] = b[i - (n - 1)]
      BY <3>1, <1>4
    <3>3. b[i - (n - 1)] = q[n + (i - (n - 1))]
      BY <3>1, <1>2
    <3> QED BY <2>2, <3>1, <3>2, <3>3
  <2> QED BY <2>1, <2>2
<1> QED BY <1>4, <1>5, <1>6, <1>7

(* An append keeps every element where it is.                              *)
LEMMA AppendFacts ==
  ASSUME NEW S, NEW q \in Seq(S), NEW e \in S
  PROVE  /\ Append(q, e) \in Seq(S) /\ Len(Append(q, e)) = Len(q) + 1
         /\ \A i \in 1..Len(q) : Append(q, e)[i] = q[i]
         /\ Append(q, e)[Len(q) + 1] = e
         /\ Len(q) \in Nat
OBVIOUS

(* The invariant holds of the empty list.                                  *)
LEMMA InitIInv == Init => IInv
<1> SUFFICES ASSUME Init PROVE IInv
  OBVIOUS
<1>1. /\ <<>> \in Seq(Sessions) /\ <<>> \in Seq(Nat \ {0}) /\ <<>> \in Seq(1..MaxUpdates)
      /\ Len(<<>>) = 0
  BY SeqDef
<1>2. TypeOK
  <2>1. /\ Len(pumpQue) <= capacity /\ capacity \in Nat
        /\ update \in 0..MaxUpdates /\ it \in Nat \ {0} /\ purged \in Nat
    BY <1>1, PumpAssumption DEF Init, PumpAssumption
  <2>2. /\ pumpQue \in Seq(Sessions) /\ intArray \in Seq(Nat \ {0})
        /\ sent \in [Sessions -> Seq(1..MaxUpdates)]
        /\ subscribed \in [Sessions -> Nat]
    BY <1>1 DEF Init
  <2>3. before \in [closed : SUBSET Sessions, confirmed : SUBSET Sessions]
    BY DEF Init
  <2> QED BY <2>1, <2>2, <2>3 DEF Init, TypeOK
<1>3. PlaceInv /\ SentInv /\ ClosedGetNothing
  BY <1>1 DEF Init, PlaceInv, SentInv, ClosedGetNothing
<1>4. ListedInv /\ ServedInv
  BY <1>1 DEF Init, ListedInv, ServedInv, Reliable
<1> QED BY <1>2, <1>3, <1>4 DEF IInv
-----------------------------------------------------------------------------
(* The worker and the io threads                                           *)

(* An append beside the callback thread adds at the end, is lost, or ends  *)
(* the process.                                                            *)
LEMMA RacingFacts ==
  ASSUME TypeOK, NEW s \in Sessions, RacingPushBack(s), ~crashed
  PROVE  /\ pumpQue' \in Seq(Sessions) /\ Len(pumpQue') >= Len(pumpQue)
         /\ \A i \in 1..Len(pumpQue) : pumpQue'[i] = pumpQue[i]
         /\ capacity' \in Nat /\ Len(pumpQue') <= capacity'
         /\ lost \subseteq lost' /\ lost' \subseteq Sessions
         /\ crashed' \in BOOLEAN
         /\ ~crashed' => s \in lost' \/ \E i \in 1..Len(pumpQue') : pumpQue'[i] = s
<1>1. pumpQue \in Seq(Sessions) /\ Len(pumpQue) \in Nat /\ capacity \in Nat
      /\ Len(pumpQue) <= capacity /\ lost \subseteq Sessions
  BY DEF TypeOK
<1>2. CASE PushBack(s) /\ UNCHANGED <<lost, crashed>>
  <2>1. capacity' \in Nat /\ Len(pumpQue) + 1 <= capacity'
    <3>1. Grow(capacity) \in Nat /\ Grow(capacity) >= capacity + 1
      BY <1>1 DEF Grow
    <3> QED BY <1>1, <1>2, <3>1 DEF PushBack
  <2>2. pumpQue' = Append(pumpQue, s) BY <1>2 DEF PushBack
  <2>3. /\ pumpQue' \in Seq(Sessions) /\ Len(pumpQue') = Len(pumpQue) + 1
        /\ \A i \in 1..Len(pumpQue) : pumpQue'[i] = pumpQue[i]
        /\ pumpQue'[Len(pumpQue) + 1] = s
    BY <1>1, <2>2, AppendFacts
  <2>4. \E i \in 1..Len(pumpQue') : pumpQue'[i] = s
    BY <1>1, <2>3
  <2>5. Len(pumpQue') >= Len(pumpQue) /\ Len(pumpQue') <= capacity'
    BY <1>1, <2>1, <2>3
  <2>6. lost' = lost /\ crashed' \in BOOLEAN BY <1>2 DEF TypeOK
  <2> QED BY <1>1, <2>1, <2>3, <2>4, <2>5, <2>6
<1>3. CASE lost' = lost \cup {s} /\ UNCHANGED <<pumpQue, capacity, crashed>>
  <2>1. pumpQue' = pumpQue /\ capacity' = capacity /\ crashed' \in BOOLEAN
    BY <1>3 DEF TypeOK
  <2>2. lost \subseteq lost' /\ lost' \subseteq Sessions /\ s \in lost'
    BY <1>1, <1>3
  <2> QED BY <1>1, <2>1, <2>2
<1>4. CASE crashed' = TRUE /\ UNCHANGED <<pumpQue, capacity, lost>>
  BY <1>1, <1>4
<1> QED BY <1>2, <1>3, <1>4 DEF RacingPushBack

(* Subscribing moves no entry of the list.                                 *)
LEMMA PumpTradesIInv ==
  ASSUME IInv, NEW s \in Sessions, PumpTrades(s)
  PROVE  IInv'
<1>1. TypeOK /\ PlaceInv /\ SentInv /\ ClosedGetNothing /\ ListedInv /\ ServedInv
  BY DEF IInv
<1>2. /\ ~crashed /\ RacingPushBack(s) /\ wpc = "idle"
      /\ subscribed' = [subscribed EXCEPT ![s] = @ + 1]
      /\ wpc' = "confirm" /\ session' = s
      /\ UNCHANGED <<closed, update, cpc, it, intArray, sent, erased, purged, before,
                     confirmed>>
  BY DEF PumpTrades, callbackVars
<1>3. /\ pumpQue' \in Seq(Sessions) /\ Len(pumpQue') >= Len(pumpQue)
      /\ \A i \in 1..Len(pumpQue) : pumpQue'[i] = pumpQue[i]
      /\ capacity' \in Nat /\ Len(pumpQue') <= capacity'
      /\ lost \subseteq lost' /\ lost' \subseteq Sessions
      /\ crashed' \in BOOLEAN
      /\ ~crashed' => s \in lost' \/ \E i \in 1..Len(pumpQue') : pumpQue'[i] = s
  BY <1>1, <1>2, RacingFacts
<1>4. Len(pumpQue) \in Nat /\ Len(pumpQue') \in Nat
  <2>1. pumpQue \in Seq(Sessions) BY <1>1 DEF TypeOK
  <2>2. pumpQue' \in Seq(Sessions) BY <1>3
  <2> QED BY <2>1, <2>2
<1>5. TypeOK'
  <2>1. subscribed' \in [Sessions -> Nat] BY <1>1, <1>2 DEF TypeOK
  <2> QED BY <1>1, <1>2, <1>3, <2>1 DEF TypeOK
<1>6. PlaceInv'
  <2>1. ASSUME cpc = "send"
        PROVE  it <= Len(pumpQue') /\ pumpQue'[it] \notin before.closed
    <3>1. /\ it \in Nat \ {0} /\ it <= Len(pumpQue)
          /\ pumpQue[it] \notin before.closed
      BY <1>1, <2>1 DEF TypeOK, PlaceInv
    <3> QED BY <1>3, <1>4, <3>1
  <2>2. ASSUME purged = 0, NEW k \in 1..Len(intArray)
        PROVE  intArray[k] <= Len(pumpQue') /\ pumpQue'[intArray[k]] \in closed
    <3>1. intArray[k] \in Nat \ {0} BY <1>1 DEF TypeOK
    <3>2. intArray[k] <= Len(pumpQue) /\ pumpQue[intArray[k]] \in closed
      BY <1>1, <1>2, <2>2 DEF PlaceInv
    <3> QED BY <1>3, <1>4, <3>1, <3>2
  <2> QED BY <1>1, <1>2, <2>1, <2>2 DEF PlaceInv
<1>7. SentInv' /\ ClosedGetNothing'
  BY <1>1, <1>2 DEF SentInv, ClosedGetNothing, Served
<1>8. ListedInv'
  <2> SUFFICES ASSUME ~crashed', NEW u \in Reliable',
                      u \in confirmed' \/ (wpc' = "confirm" /\ u = session')
               PROVE  Listed(u)'
    BY DEF ListedInv
  <2>1. CASE u = s
    BY <1>3, <2>1 DEF Reliable, Listed
  <2>2. CASE u # s
    <3>1. u \in Reliable /\ u \in confirmed BY <1>2, <1>3, <2>2 DEF Reliable
    <3>2. Listed(u) BY <1>1, <1>2, <3>1 DEF ListedInv
    <3> QED BY <1>3, <1>4, <3>2 DEF Listed
  <2> QED BY <2>1, <2>2
<1>9. ServedInv'
  <2> SUFFICES ASSUME update > 0, NEW u \in (Reliable \cap before.confirmed)'
               PROVE  \/ Served(u)'
                      \/ Walking' /\ \E i \in it..Len(pumpQue') : pumpQue'[i] = u
    BY <1>2 DEF ServedInv
  <2>1. u \in Reliable \cap before.confirmed BY <1>2, <1>3 DEF Reliable
  <2>2. \/ Served(u)
        \/ Walking /\ \E i \in it..Len(pumpQue) : pumpQue[i] = u
    BY <1>1, <1>2, <2>1 DEF ServedInv
  <2>3. CASE Served(u) BY <1>2, <2>3 DEF Served
  <2>4. ASSUME Walking, NEW i \in it..Len(pumpQue), pumpQue[i] = u
        PROVE  Walking' /\ \E k \in it..Len(pumpQue') : pumpQue'[k] = u
    <3>1. it \in Nat \ {0} BY <1>1 DEF TypeOK
    <3>2. i \in 1..Len(pumpQue) /\ i \in it..Len(pumpQue')
      BY <1>3, <1>4, <2>4, <3>1
    <3>3. pumpQue'[i] = u BY <1>3, <2>4, <3>2
    <3> QED BY <1>2, <2>4, <3>2, <3>3 DEF Walking
  <2> QED BY <2>2, <2>3, <2>4
<1> QED BY <1>5, <1>6, <1>7, <1>8, <1>9 DEF IInv

(* Confirming, and closing a session, leave the list alone.                *)
LEMMA ConfirmCloseIInv ==
  ASSUME IInv, Confirm \/ \E s \in Sessions : CloseSession(s)
  PROVE  IInv'
<1>1. TypeOK /\ PlaceInv /\ SentInv /\ ClosedGetNothing /\ ListedInv /\ ServedInv
  BY DEF IInv
<1>2. /\ closed \subseteq closed' /\ closed' \subseteq Sessions
      /\ \/ wpc' = wpc /\ confirmed' = confirmed
         \/ wpc = "confirm" /\ wpc' = "idle" /\ confirmed' = confirmed \cup {session}
      /\ UNCHANGED <<pumpQue, capacity, session, subscribed, lost, update, cpc, it,
                     intArray, sent, erased, purged, before, crashed>>
  BY <1>1 DEF Confirm, CloseSession, callbackVars, workerVars, TypeOK
<1>3. TypeOK' BY <1>1, <1>2 DEF TypeOK
<1>4. PlaceInv' BY <1>1, <1>2 DEF PlaceInv
<1>5. SentInv' /\ ClosedGetNothing'
  BY <1>1, <1>2 DEF SentInv, ClosedGetNothing, Served
<1>6. Reliable' \subseteq Reliable BY <1>2 DEF Reliable
<1>7. ListedInv' BY <1>1, <1>2, <1>6 DEF ListedInv, Listed
<1>8. ServedInv' BY <1>1, <1>2, <1>6 DEF ServedInv, Served, Walking
<1> QED BY <1>3, <1>4, <1>5, <1>7, <1>8 DEF IInv
-----------------------------------------------------------------------------
(* The callback thread                                                     *)

(* What the callback thread never touches.                                 *)
LEMMA CallbackKeeps ==
  ASSUME CallbackThread
  PROVE  ~crashed /\ UNCHANGED <<capacity, wpc, session, subscribed, confirmed, lost, closed>>
BY DEF CallbackThread, OnTradeUpdate, SkipClosed, TakeOpen, SendUpdate, EndWalk,
       EraseClosed, EndUpdate, workerVars

(* An update arrives: nobody has been sent it, and everyone it finds       *)
(* confirmed is in the list.                                               *)
LEMMA OnTradeUpdateIInv ==
  ASSUME IInv, OnTradeUpdate
  PROVE  IInv'
<1>1. TypeOK /\ PlaceInv /\ SentInv /\ ClosedGetNothing /\ ListedInv /\ ServedInv
  BY DEF IInv
<1>2. /\ ~crashed /\ update < MaxUpdates /\ update' = update + 1
      /\ cpc' = IF pumpQue = <<>> THEN "idle" ELSE "walk"
      /\ it' = 1 /\ intArray' = <<>> /\ purged' = 0
      /\ before' = [closed |-> closed, confirmed |-> confirmed]
      /\ UNCHANGED <<pumpQue, sent, erased, crashed>>
      /\ UNCHANGED <<capacity, wpc, session, subscribed, confirmed, lost, closed>>
  BY CallbackKeeps DEF OnTradeUpdate, CallbackThread
<1>3. Len(pumpQue) \in Nat /\ update \in Nat BY <1>1 DEF TypeOK
<1>4. TypeOK'
  <2>1. intArray' \in Seq(Nat \ {0}) BY <1>2, SeqDef
  <2>2. update' \in 0..MaxUpdates /\ it' \in Nat \ {0} /\ purged' \in Nat
    BY <1>1, <1>2, PumpAssumption DEF TypeOK, PumpAssumption
  <2>3. before' \in [closed : SUBSET Sessions, confirmed : SUBSET Sessions]
    BY <1>1, <1>2 DEF TypeOK
  <2> QED BY <1>1, <1>2, <2>1, <2>2, <2>3 DEF TypeOK
<1>5. PlaceInv' BY <1>2, <1>3 DEF PlaceInv
<1>6. ASSUME NEW s \in Sessions, NEW i \in 1..Len(sent[s])
      PROVE  sent[s][i] <= update' /\ sent[s][i] # update'
  <2>1. sent[s] \in Seq(1..MaxUpdates) BY <1>1 DEF TypeOK
  <2>2. sent[s][i] \in 1..MaxUpdates BY <2>1, ElementOfSeq
  <2>3. sent[s][i] <= update BY <1>1 DEF SentInv
  <2> QED BY <1>2, <1>3, <2>2, <2>3, PumpAssumption DEF PumpAssumption
<1>7. SentInv' /\ ClosedGetNothing'
  <2>1. before'.closed \subseteq Sessions BY <1>1, <1>2 DEF TypeOK
  <2> QED BY <1>2, <1>6, <2>1 DEF SentInv, ClosedGetNothing, Served
<1>8. ListedInv' BY <1>1, <1>2 DEF ListedInv, Listed, Reliable
<1>9. ServedInv'
  <2> SUFFICES ASSUME NEW s \in (Reliable \cap before.confirmed)'
               PROVE  Walking' /\ \E i \in it'..Len(pumpQue') : pumpQue'[i] = s
    BY DEF ServedInv
  <2>1. s \in Reliable /\ s \in confirmed BY <1>2 DEF Reliable
  <2>2. PICK i \in 1..Len(pumpQue) : pumpQue[i] = s
    BY <1>1, <1>2, <2>1 DEF ListedInv, Listed
  <2>3. pumpQue # <<>> BY <1>3, <2>2, EmptySeq
  <2> QED BY <1>2, <2>2, <2>3 DEF Walking
<1> QED BY <1>4, <1>5, <1>7, <1>8, <1>9 DEF IInv

(* A closed session is passed over, its position remembered.               *)
LEMMA SkipClosedIInv ==
  ASSUME IInv, SkipClosed
  PROVE  IInv'
<1>1. TypeOK /\ PlaceInv /\ SentInv /\ ClosedGetNothing /\ ListedInv /\ ServedInv
  BY DEF IInv
<1>2. /\ ~crashed /\ cpc = "walk" /\ it <= Len(pumpQue) /\ pumpQue[it] \in closed
      /\ intArray' = Append(intArray, it) /\ it' = it + 1
      /\ UNCHANGED <<pumpQue, update, cpc, sent, erased, purged, before, crashed>>
      /\ UNCHANGED <<capacity, wpc, session, subscribed, confirmed, lost, closed>>
  BY CallbackKeeps DEF SkipClosed, CallbackThread
<1>3. it \in Nat \ {0} /\ Len(pumpQue) \in Nat /\ intArray \in Seq(Nat \ {0})
  BY <1>1 DEF TypeOK
<1>4. /\ intArray' \in Seq(Nat \ {0}) /\ Len(intArray') = Len(intArray) + 1
      /\ \A k \in 1..Len(intArray) : intArray'[k] = intArray[k]
      /\ intArray'[Len(intArray) + 1] = it /\ Len(intArray) \in Nat
  BY <1>2, <1>3, AppendFacts
<1>5. TypeOK'
  <2>1. it' \in Nat \ {0} BY <1>2, <1>3
  <2> QED BY <1>1, <1>2, <1>4, <2>1 DEF TypeOK
<1>6. PlaceInv'
  <2>1. ASSUME purged = 0, NEW k \in 1..Len(intArray')
        PROVE  intArray'[k] <= Len(pumpQue) /\ pumpQue[intArray'[k]] \in closed
    <3>1. CASE k = Len(intArray) + 1
      BY <1>2, <1>4, <3>1
    <3>2. CASE k \in 1..Len(intArray)
      BY <1>1, <1>2, <1>4, <2>1, <3>2 DEF PlaceInv
    <3> QED BY <1>4, <2>1, <3>1, <3>2
  <2> QED BY <1>1, <1>2, <2>1 DEF PlaceInv
<1>7. SentInv' /\ ClosedGetNothing'
  BY <1>1, <1>2 DEF SentInv, ClosedGetNothing, Served
<1>8. ListedInv' BY <1>1, <1>2 DEF ListedInv, Listed, Reliable
<1>9. ServedInv'
  <2> SUFFICES ASSUME update > 0, NEW s \in Reliable \cap before.confirmed, ~Served(s)
               PROVE  \E i \in (it + 1)..Len(pumpQue) : pumpQue[i] = s
    BY <1>2 DEF ServedInv, Served, Walking, Reliable
  <2>1. PICK i \in it..Len(pumpQue) : pumpQue[i] = s
    BY <1>1, <1>2 DEF ServedInv
  <2>2. i # it BY <1>2, <2>1 DEF Reliable
  <2>3. i \in (it + 1)..Len(pumpQue) BY <1>3, <2>1, <2>2
  <2> QED BY <2>1, <2>3
<1> QED BY <1>5, <1>6, <1>7, <1>8, <1>9 DEF IInv

(* An open session is chosen, or the walk, or the update, is over.         *)
LEMMA PlainStepsIInv ==
  ASSUME IInv, TakeOpen \/ EndWalk \/ EndUpdate
  PROVE  IInv'
<1>1. TypeOK /\ PlaceInv /\ SentInv /\ ClosedGetNothing /\ ListedInv /\ ServedInv
  BY DEF IInv
<1>2. /\ ~crashed
      /\ \/ /\ cpc = "walk" /\ it <= Len(pumpQue) /\ pumpQue[it] \notin closed
            /\ cpc' = "send"
         \/ cpc = "walk" /\ it > Len(pumpQue) /\ cpc' = "erase"
         \/ cpc = "erase" /\ cpc' = "idle"
      /\ UNCHANGED <<pumpQue, update, it, intArray, sent, erased, purged, before, crashed>>
      /\ UNCHANGED <<capacity, wpc, session, subscribed, confirmed, lost, closed>>
  BY CallbackKeeps DEF TakeOpen, EndWalk, EndUpdate, CallbackThread
<1>3. TypeOK' BY <1>1, <1>2 DEF TypeOK
<1>4. PlaceInv' BY <1>1, <1>2 DEF PlaceInv
<1>5. SentInv' /\ ClosedGetNothing'
  BY <1>1, <1>2 DEF SentInv, ClosedGetNothing, Served
<1>6. ListedInv' BY <1>1, <1>2 DEF ListedInv, Listed, Reliable
<1>7. it \in Nat /\ Len(pumpQue) \in Nat BY <1>1 DEF TypeOK
<1>8. ServedInv' BY <1>1, <1>2, <1>7 DEF ServedInv, Served, Walking, Reliable
<1> QED BY <1>3, <1>4, <1>5, <1>6, <1>8 DEF IInv
(* The update is passed to Send: the session was open when it arrived.     *)
LEMMA SendUpdateIInv ==
  ASSUME IInv, SendUpdate
  PROVE  IInv'
<1>1. TypeOK /\ PlaceInv /\ SentInv /\ ClosedGetNothing /\ ListedInv /\ ServedInv
  BY DEF IInv
<1> DEFINE u == pumpQue[it]
<1>2. /\ ~crashed /\ cpc = "send" /\ cpc' = "walk" /\ it' = it + 1
      /\ sent' = [sent EXCEPT ![u] = Append(@, update)]
      /\ UNCHANGED <<pumpQue, update, intArray, erased, purged, before, crashed>>
      /\ UNCHANGED <<capacity, wpc, session, subscribed, confirmed, lost, closed>>
  BY CallbackKeeps DEF SendUpdate, CallbackThread
<1>3. /\ it \in Nat \ {0} /\ it <= Len(pumpQue) /\ Len(pumpQue) \in Nat
      /\ u \in Sessions /\ u \notin before.closed
      /\ update \in 1..MaxUpdates /\ update \in Nat
  BY <1>1, <1>2, PumpAssumption DEF TypeOK, PlaceInv, PumpAssumption
<1> HIDE DEF u
<1>4. /\ sent[u] \in Seq(1..MaxUpdates)
      /\ sent'[u] = Append(sent[u], update)
      /\ \A s \in Sessions \ {u} : sent'[s] = sent[s]
  BY <1>1, <1>2, <1>3 DEF TypeOK
<1>5. /\ sent'[u] \in Seq(1..MaxUpdates) /\ Len(sent'[u]) = Len(sent[u]) + 1
      /\ \A i \in 1..Len(sent[u]) : sent'[u][i] = sent[u][i]
      /\ sent'[u][Len(sent[u]) + 1] = update /\ Len(sent[u]) \in Nat
  BY <1>3, <1>4, AppendFacts
<1>6. TypeOK'
  <2>1. sent' \in [Sessions -> Seq(1..MaxUpdates)] BY <1>1, <1>2, <1>3, <1>4, <1>5 DEF TypeOK
  <2>2. it' \in Nat \ {0} BY <1>2, <1>3
  <2> QED BY <1>1, <1>2, <2>1, <2>2 DEF TypeOK
<1>7. PlaceInv' BY <1>1, <1>2 DEF PlaceInv
<1>8. SentInv'
  <2> SUFFICES ASSUME NEW s \in Sessions, NEW i \in 1..Len(sent'[s])
               PROVE  sent'[s][i] <= update
    BY <1>2 DEF SentInv
  <2>1. CASE s # u
    BY <1>1, <1>4, <2>1 DEF SentInv
  <2>2. CASE s = u /\ i \in 1..Len(sent[u])
    BY <1>1, <1>3, <1>5, <2>2 DEF SentInv
  <2>3. CASE s = u /\ i = Len(sent[u]) + 1
    BY <1>3, <1>5, <2>3
  <2> QED BY <1>5, <2>1, <2>2, <2>3
<1>9. ClosedGetNothing'
  <2>1. before.closed \subseteq Sessions BY <1>1 DEF TypeOK
  <2>2. \A s \in before.closed : ~Served(s) BY <1>1, <1>2 DEF ClosedGetNothing
  <2> QED BY <1>2, <1>3, <1>4, <2>1, <2>2 DEF ClosedGetNothing, Served
<1>10. ListedInv' BY <1>1, <1>2 DEF ListedInv, Listed, Reliable
<1>11. ServedInv'
  <2> SUFFICES ASSUME NEW s \in Reliable \cap before.confirmed, ~Served(s)'
               PROVE  \E i \in (it + 1)..Len(pumpQue) : pumpQue[i] = s
    BY <1>2 DEF ServedInv, Walking, Reliable
  <2>1. s # u
    <3>1. \A i \in 1..Len(sent'[s]) : sent'[s][i] # update BY <1>2 DEF Served
    <3>2. Len(sent[u]) + 1 \in 1..Len(sent'[u]) BY <1>5
    <3> QED BY <1>5, <3>1, <3>2
  <2>2. ~Served(s) BY <1>2, <1>4, <2>1 DEF Served, Reliable
  <2>3. PICK i \in it..Len(pumpQue) : pumpQue[i] = s
    BY <1>1, <1>2, <1>3, <2>2 DEF ServedInv
  <2>4. i # it BY <2>1, <2>3 DEF u
  <2>5. i \in (it + 1)..Len(pumpQue) BY <1>3, <2>3, <2>4
  <2> QED BY <2>3, <2>5
<1> QED BY <1>6, <1>7, <1>8, <1>9, <1>10, <1>11 DEF IInv

(* An erase keeps everyone in the list but the session it erases.          *)
LEMMA EraseClosedIInv ==
  ASSUME IInv, EraseClosed
  PROVE  IInv'
<1>1. TypeOK /\ PlaceInv /\ SentInv /\ ClosedGetNothing /\ ListedInv /\ ServedInv
  BY DEF IInv
<1> DEFINE item == Head(intArray)
<1>2. /\ ~crashed /\ cpc = "erase" /\ intArray # <<>> /\ intArray' = Tail(intArray)
      /\ UNCHANGED <<update, cpc, it, sent, before>>
      /\ UNCHANGED <<capacity, wpc, session, subscribed, confirmed, lost, closed>>
  BY CallbackKeeps DEF EraseClosed, CallbackThread
<1>3. \/ /\ item <= Len(pumpQue) /\ pumpQue' = RemoveAt(pumpQue, item)
         /\ erased' = erased \cup {pumpQue[item]} /\ purged' = purged + 1
         /\ crashed' = crashed
      \/ /\ crashed' = TRUE
         /\ pumpQue' = pumpQue /\ erased' = erased /\ purged' = purged
  BY DEF EraseClosed
<1>4. item \in Nat \ {0} /\ intArray' \in Seq(Nat \ {0})
  BY <1>1, <1>2, TailFacts DEF TypeOK
<1> HIDE DEF item
<1>5. /\ pumpQue \in Seq(Sessions) /\ Len(pumpQue) \in Nat
      /\ capacity \in Nat /\ Len(pumpQue) <= capacity
      /\ purged \in Nat /\ erased \subseteq Sessions
  BY <1>1 DEF TypeOK
<1>6. SentInv' /\ ClosedGetNothing'
  BY <1>1, <1>2 DEF SentInv, ClosedGetNothing, Served
<1>7. CASE crashed' = TRUE /\ pumpQue' = pumpQue /\ erased' = erased /\ purged' = purged
  <2>1. TypeOK' BY <1>1, <1>2, <1>4, <1>7 DEF TypeOK
  <2>2. PlaceInv' /\ ListedInv' /\ ServedInv'
    BY <1>1, <1>2, <1>7 DEF PlaceInv, ListedInv, ServedInv
  <2> QED BY <1>6, <2>1, <2>2 DEF IInv
<1>8. CASE /\ item <= Len(pumpQue) /\ pumpQue' = RemoveAt(pumpQue, item)
           /\ erased' = erased \cup {pumpQue[item]} /\ purged' = purged + 1
           /\ crashed' = crashed
  <2>1. item \in 1..Len(pumpQue) BY <1>4, <1>5, <1>8
  <2>2. /\ pumpQue' \in Seq(Sessions) /\ Len(pumpQue') = Len(pumpQue) - 1
        /\ \A i \in 1..Len(pumpQue) : i # item =>
             \E j \in 1..(Len(pumpQue) - 1) : pumpQue'[j] = pumpQue[i]
    BY <1>5, <1>8, <2>1, RemoveAtFacts
  <2>3. /\ pumpQue[item] \in Sessions /\ erased' \subseteq Sessions
        /\ Len(pumpQue') <= capacity /\ purged' \in Nat /\ purged' # 0
    BY <1>5, <1>8, <2>1, <2>2
  <2>4. TypeOK' BY <1>1, <1>2, <1>4, <1>8, <2>2, <2>3 DEF TypeOK
  <2>5. PlaceInv' BY <1>1, <1>2, <2>3 DEF PlaceInv
  <2>6. \A s \in Reliable' : s \in Reliable /\ s # pumpQue[item]
    BY <1>2, <1>8 DEF Reliable
  <2>7. ASSUME NEW s \in Reliable', Listed(s) PROVE Listed(s)'
    <3>1. PICK i \in 1..Len(pumpQue) : pumpQue[i] = s BY <2>7 DEF Listed
    <3>2. i # item BY <2>6, <3>1
    <3> QED BY <2>2, <3>1, <3>2 DEF Listed
  <2>8. ListedInv' BY <1>1, <1>2, <2>6, <2>7 DEF ListedInv
  <2>9. ServedInv' BY <1>1, <1>2, <2>6 DEF ServedInv, Served, Walking
  <2> QED BY <1>6, <2>4, <2>5, <2>8, <2>9 DEF IInv
<1> QED BY <1>3, <1>7, <1>8

(* Every step keeps the invariant.                                         *)
LEMMA NextIInv == IInv /\ [Next]_vars => IInv'
<1> SUFFICES ASSUME IInv, [Next]_vars PROVE IInv'
  OBVIOUS
<1>1. CASE Next
  BY <1>1, PumpTradesIInv, ConfirmCloseIInv, OnTradeUpdateIInv, SkipClosedIInv,
     PlainStepsIInv, SendUpdateIInv, EraseClosedIInv
  DEF Next, CallbackThread
<1>2. CASE UNCHANGED vars
  BY <1>2 DEF vars, workerVars, callbackVars, IInv, TypeOK, PlaceInv, SentInv,
              ClosedGetNothing, ListedInv, ServedInv, Served, Listed, Walking, Reliable
<1> QED BY <1>1, <1>2

(* The strengthened invariant holds in every behaviour.                    *)
LEMMA Invariant == Spec => []IInv
BY InitIInv, NextIInv, PTL DEF Spec

-----------------------------------------------------------------------------
(* The variables keep their types, the list never outgrowing its capacity. *)
THEOREM TypeCorrect == Spec => []TypeOK
<1>1. IInv => TypeOK BY DEF IInv
<1> QED BY <1>1, Invariant, PTL

(* OnTradeUpdate sends nothing to a session that was closed when the       *)
(* update arrived, whatever subscribes and closes meanwhile.               *)
THEOREM NothingForClosed == Spec => []ClosedGetNothing
<1>1. IInv => ClosedGetNothing BY DEF IInv
<1> QED BY <1>1, Invariant, PTL

(* Who was told "Subscription successful" before an update arrived is sent *)
(* it, unless an append of it was lost or it was erased.                   *)
THEOREM ConfirmedAreServed == Spec => []ConfirmedIsServed
<1>1. IInv => ConfirmedIsServed
  BY DEF IInv, TypeOK, ServedInv, ConfirmedIsServed, Reliable, Walking
<1> QED BY <1>1, Invariant, PTL

(* The first erase of a callback takes a closed session off the list.      *)
THEOREM FirstEraseIsSafe == Spec => OneErasePerCallbackIsSafe
<1>1. ASSUME IInv, [Next]_vars, Len(pumpQue') < Len(pumpQue), purged = 0
      PROVE  \E i \in 1..Len(pumpQue) :
               pumpQue[i] \in closed /\ pumpQue' = RemoveAt(pumpQue, i)
  <2>1. TypeOK /\ PlaceInv /\ Len(pumpQue) \in Nat BY <1>1 DEF IInv, TypeOK
  <2>2. EraseClosed
    <3>1. ASSUME NEW s \in Sessions, PumpTrades(s) PROVE FALSE
      <4>1. ~crashed /\ RacingPushBack(s)
        BY <3>1 DEF PumpTrades
      <4>2. pumpQue' \in Seq(Sessions) /\ Len(pumpQue') >= Len(pumpQue)
        BY <2>1, <4>1, RacingFacts
      <4> HIDE <3>1
      <4>3. Len(pumpQue') \in Nat
        BY <4>2
      <4> QED BY <1>1, <2>1, <4>2, <4>3
    <3>2. CASE UNCHANGED pumpQue BY <1>1, <2>1, <3>2
    <3> QED
      BY <1>1, <3>1, <3>2
      DEF Next, CallbackThread, CloseSession, Confirm, OnTradeUpdate, SkipClosed,
          TakeOpen, SendUpdate, EndWalk, EndUpdate, vars
  <2> DEFINE item == Head(intArray)
  <2>3. ~crashed /\ intArray # <<>> /\ intArray \in Seq(Nat \ {0})
    BY <2>1, <2>2 DEF EraseClosed, TypeOK
  <2>4. item = intArray[1] /\ item \in Nat \ {0} /\ 1 \in 1..Len(intArray)
    BY <2>3, TailFacts
  <2>5. item <= Len(pumpQue) /\ pumpQue' = RemoveAt(pumpQue, item)
    BY <1>1, <2>1, <2>2 DEF EraseClosed
  <2>6. pumpQue[item] \in closed
    BY <1>1, <2>1, <2>3, <2>4 DEF PlaceInv
  <2> HIDE DEF item
  <2> QED BY <2>1, <2>4, <2>5, <2>6
<1> QED BY <1>1, Invariant, PTL DEF Spec, OneErasePerCallbackIsSafe

(* The two ways the list ends the process: a push_back on the worker while *)
(* the callback thread is walking or erasing, or an erase that is not the  *)
(* first of its callback.  A single closed entry never does.               *)
CrashesAreRaces ==
  [][crashed' /\ ~crashed =>
       \/ wpc = "idle" /\ wpc' = "confirm" /\ cpc # "idle"
       \/ cpc = "erase" /\ purged > 0]_vars

(* The process ends only in a race on the list, or by the second erase of  *)
(* a callback, for any number of sessions, subscriptions and updates.      *)
THEOREM CrashesNeedARace == Spec => CrashesAreRaces
<1>1. ASSUME IInv, [Next]_vars, crashed', ~crashed
      PROVE  \/ wpc = "idle" /\ wpc' = "confirm" /\ cpc # "idle"
             \/ cpc = "erase" /\ purged > 0
  <2>1. TypeOK /\ PlaceInv BY <1>1 DEF IInv
  <2>2. CASE \E s \in Sessions : PumpTrades(s)
    BY <1>1, <2>2 DEF PumpTrades, RacingPushBack, Walking, Erasing
  <2>3. CASE EraseClosed
    <3>1. intArray # <<>> /\ intArray \in Seq(Nat \ {0}) /\ cpc = "erase"
      BY <2>1, <2>3 DEF EraseClosed, TypeOK
    <3>2. Head(intArray) = intArray[1] /\ 1 \in 1..Len(intArray)
      BY <3>1, TailFacts
    <3>3. Head(intArray) \in Nat /\ Len(pumpQue) \in Nat /\ purged \in Nat
      BY <2>1, <3>1, TailFacts DEF TypeOK
    <3>4. Head(intArray) > Len(pumpQue)
      BY <1>1, <2>3 DEF EraseClosed
    <3>5. purged # 0
      BY <1>1, <2>1, <3>2, <3>3, <3>4 DEF PlaceInv
    <3> QED BY <3>1, <3>3, <3>5
  <2>4. CASE UNCHANGED crashed
    BY <1>1, <2>4
  <2> QED
    BY <1>1, <2>2, <2>3, <2>4
    DEF Next, CallbackThread, CloseSession, Confirm, OnTradeUpdate, SkipClosed,
        TakeOpen, SendUpdate, EndWalk, EndUpdate, vars
<1> QED BY <1>1, Invariant, PTL DEF Spec, CrashesAreRaces

-----------------------------------------------------------------------------
(* How often an update is sent                                             *)

(* A session has no more entries in the list than it has subscribed, and   *)
(* was sent no update more often; the latest update only as often as the   *)
(* callback thread has passed it on its walk.                              *)
Passed(s) == {i \in 1..(it - 1) : pumpQue[i] = s}

CountInv ==
  /\ \A s \in Sessions : Occurrences(pumpQue, s) <= subscribed[s]
  /\ \A s \in Sessions : \A u \in 1..update : Occurrences(sent[s], u) <= subscribed[s]
  /\ Walking =>
       /\ it - 1 <= Len(pumpQue)
       /\ \A s \in Sessions : Occurrences(sent[s], update) <= Cardinality(Passed(s))

OrderInv ==
  \A s \in Sessions :
    \A i, j \in 1..Len(sent[s]) : i < j => sent[s][i] <= sent[s][j]

(* Positions are finitely many, and fewer of them count less.              *)
LEMMA PositionFacts ==
  ASSUME NEW n \in Int, NEW T, T \subseteq 1..n, NEW U, U \subseteq T
  PROVE  /\ IsFiniteSet(T) /\ Cardinality(T) \in Nat
         /\ Cardinality(U) \in Nat /\ Cardinality(U) <= Cardinality(T)
<1>1. IsFiniteSet(1..n)
  BY FS_Interval
<1>2. IsFiniteSet(T)
  BY <1>1, FS_Subset
<1>3. IsFiniteSet(U) /\ Cardinality(U) <= Cardinality(T)
  BY <1>2, FS_Subset
<1> QED BY <1>2, <1>3, FS_CardinalityType

(* The element that is appended counts once more, the others do not.       *)
LEMMA CountAppended ==
  ASSUME NEW S, NEW q \in Seq(S), NEW e \in S, NEW x
  PROVE  /\ Occurrences(q, x) \in Nat
         /\ Occurrences(Append(q, e), x) =
              IF e = x THEN Occurrences(q, x) + 1 ELSE Occurrences(q, x)
<1> DEFINE p == Append(q, e)
           T == {i \in 1..Len(q) : q[i] = x}
           U == {i \in 1..Len(p) : p[i] = x}
<1>1. /\ p \in Seq(S) /\ Len(p) = Len(q) + 1 /\ Len(q) \in Nat
      /\ \A i \in 1..Len(q) : p[i] = q[i]
      /\ p[Len(q) + 1] = e
  BY AppendFacts
<1> HIDE DEF p
<1>2. IsFiniteSet(T) /\ Cardinality(T) \in Nat
  BY <1>1, PositionFacts
<1>3. CASE e = x
  <2>1. U = T \cup {Len(q) + 1} /\ Len(q) + 1 \notin T
    BY <1>1, <1>3
  <2>2. Cardinality(U) = Cardinality(T) + 1
    <3> HIDE DEF T, U
    <3> QED BY <1>2, <2>1, FS_AddElement
  <2> QED BY <1>2, <1>3, <2>2 DEF Occurrences, p
<1>4. CASE e # x
  <2>1. U = T
    BY <1>1, <1>4
  <2> QED BY <1>2, <1>4, <2>1 DEF Occurrences, p
<1> QED BY <1>3, <1>4

(* An erase lets nothing occur more often.                                 *)
LEMMA CountRemoved ==
  ASSUME NEW S, NEW q \in Seq(S), NEW n \in 1..Len(q), NEW x
  PROVE  /\ Occurrences(RemoveAt(q, n), x) \in Nat
         /\ Occurrences(RemoveAt(q, n), x) <= Occurrences(q, x)
<1> DEFINE p == RemoveAt(q, n)
           T == {i \in 1..Len(q) : q[i] = x}
           U == {i \in 1..Len(p) : p[i] = x}
           Old(i) == IF i < n THEN i ELSE i + 1
           f == [i \in U |-> Old(i)]
<1>1. /\ p \in Seq(S) /\ Len(p) = Len(q) - 1 /\ Len(q) \in Nat /\ Len(p) \in Nat
      /\ \A i \in 1..Len(p) : p[i] = q[Old(i)]
  BY RemoveAtFacts
<1> HIDE DEF p
<1>2. IsFiniteSet(T) /\ IsFiniteSet(U) /\ Cardinality(T) \in Nat /\ Cardinality(U) \in Nat
  <2>1. T \subseteq 1..Len(q) /\ U \subseteq 1..Len(p) /\ Len(q) \in Int /\ Len(p) \in Int
    BY <1>1
  <2> HIDE DEF T, U
  <2> QED BY <2>1, PositionFacts
<1>3. f \in Injection(U, T)
  <2>1. ASSUME NEW i \in U PROVE Old(i) \in T
    <3>1. i \in 1..Len(p) /\ p[i] = x
      OBVIOUS
    <3>2. q[Old(i)] = x
      BY <1>1, <3>1
    <3>3. Old(i) \in 1..Len(q)
      BY <1>1, <3>1
    <3> QED BY <3>2, <3>3
  <2>2. \A i, j \in U : Old(i) = Old(j) => i = j
    BY <1>1
  <2> HIDE DEF T, U, Old
  <2>3. f \in [U -> T] /\ \A i, j \in U : f[i] = f[j] => i = j
    BY <2>1, <2>2
  <2> HIDE DEF f
  <2> QED BY <2>3 DEF Injection, IsInjective
<1>4. Cardinality(U) <= Cardinality(T)
  <2> HIDE DEF f, T, U
  <2> QED BY <1>2, <1>3, FS_Injection
<1> QED BY <1>2, <1>4 DEF Occurrences, p

(* The counts are numbers.                                                 *)
LEMMA CountTypes ==
  ASSUME TypeOK
  PROVE  /\ \A s \in Sessions : Occurrences(pumpQue, s) \in Nat /\ subscribed[s] \in Nat
         /\ \A s \in Sessions : \A u : Occurrences(sent[s], u) \in Nat
         /\ \A s \in Sessions : Cardinality(Passed(s)) \in Nat
         /\ it \in Nat \ {0} /\ Len(pumpQue) \in Nat
<1>1. /\ it \in Nat \ {0} /\ Len(pumpQue) \in Nat /\ pumpQue \in Seq(Sessions)
      /\ \A s \in Sessions : sent[s] \in Seq(1..MaxUpdates) /\ subscribed[s] \in Nat
  BY DEF TypeOK
<1>2. ASSUME NEW S, NEW q \in Seq(S), NEW x PROVE Occurrences(q, x) \in Nat
  <2>1. {i \in 1..Len(q) : q[i] = x} \subseteq 1..Len(q) /\ Len(q) \in Int
    OBVIOUS
  <2> QED BY <2>1, PositionFacts DEF Occurrences
<1>3. ASSUME NEW s \in Sessions PROVE Cardinality(Passed(s)) \in Nat
  <2>1. Passed(s) \subseteq 1..(it - 1) /\ it - 1 \in Int
    BY <1>1 DEF Passed
  <2> QED BY <2>1, PositionFacts
<1>4. \A s \in Sessions : \A u : Occurrences(sent[s], u) \in Nat
  BY <1>1, <1>2
<1>5. \A s \in Sessions : Occurrences(pumpQue, s) \in Nat
  BY <1>1, <1>2
<1> QED BY <1>1, <1>3, <1>4, <1>5

(* Nobody is on the list at first.                                         *)
LEMMA InitCounts == Init => CountInv /\ OrderInv
<1> SUFFICES ASSUME Init PROVE CountInv /\ OrderInv
  OBVIOUS
<1>1. /\ pumpQue = <<>> /\ update = 0 /\ cpc = "idle"
      /\ subscribed = [s \in Sessions |-> 0] /\ sent = [s \in Sessions |-> <<>>]
  BY DEF Init
<1>2. Occurrences(<<>>, 0) = 0 /\ \A s : Occurrences(<<>>, s) = 0
  <2>1. \A s : {i \in 1..Len(<<>>) : <<>>[i] = s} = {}
    BY SeqDef
  <2> QED BY <2>1, FS_EmptySet DEF Occurrences
<1>3. 1..update = {} /\ \A s \in Sessions : 1..Len(sent[s]) = {}
  BY <1>1
<1> QED BY <1>1, <1>2, <1>3 DEF CountInv, OrderInv, Walking

(* A session that subscribes once more has at most one entry more.         *)
LEMMA PumpTradesCounts ==
  ASSUME IInv, CountInv, OrderInv, NEW s \in Sessions, PumpTrades(s)
  PROVE  CountInv' /\ OrderInv'
<1>1. TypeOK
  BY DEF IInv
<1>2. /\ ~crashed /\ RacingPushBack(s) /\ subscribed' = [subscribed EXCEPT ![s] = @ + 1]
      /\ UNCHANGED <<update, cpc, it, sent>>
  BY DEF PumpTrades, callbackVars
<1>3. /\ \A t \in Sessions : /\ Occurrences(pumpQue, t) \in Nat /\ subscribed[t] \in Nat
                             /\ Occurrences(pumpQue, t) <= subscribed[t]
                             /\ Cardinality(Passed(t)) \in Nat
      /\ it \in Nat /\ Len(pumpQue) \in Nat
      /\ \A t \in Sessions : \A u : Occurrences(sent[t], u) \in Nat
  BY <1>1, CountTypes DEF CountInv
<1>4. \A t \in Sessions : subscribed'[t] = IF t = s THEN subscribed[t] + 1 ELSE subscribed[t]
  BY <1>1, <1>2 DEF TypeOK
<1>5. pumpQue' = pumpQue \/ pumpQue' = Append(pumpQue, s)
  BY <1>2 DEF RacingPushBack, PushBack
<1>6. \A t \in Sessions : Occurrences(pumpQue', t) <= subscribed'[t]
  <2>1. CASE pumpQue' = pumpQue
    BY <2>1, <1>3, <1>4
  <2>2. CASE pumpQue' = Append(pumpQue, s)
    <3> TAKE t \in Sessions
    <3>1. Occurrences(pumpQue', t) =
            IF s = t THEN Occurrences(pumpQue, t) + 1 ELSE Occurrences(pumpQue, t)
      BY <2>2, <1>1, CountAppended DEF TypeOK
    <3> QED BY <3>1, <1>3, <1>4
  <2> QED BY <1>5, <2>1, <2>2
<1>7. \A t \in Sessions : \A u \in 1..update : Occurrences(sent[t], u) <= subscribed'[t]
  <2> TAKE t \in Sessions
  <2> TAKE u \in 1..update
  <2>1. Occurrences(sent[t], u) <= subscribed[t]
    BY DEF CountInv
  <2>2. Occurrences(sent[t], u) \in Nat /\ subscribed[t] \in Nat
    BY <1>3
  <2>3. subscribed'[t] >= subscribed[t] /\ subscribed'[t] \in Nat
    BY <2>2, <1>4
  <2> QED BY <2>1, <2>2, <2>3
<1>8. ASSUME Walking
      PROVE  it - 1 <= Len(pumpQue') /\ \A t \in Sessions : Passed(t)' = Passed(t)
  <2>1. it - 1 <= Len(pumpQue)
    BY <1>8 DEF CountInv
  <2>2. Len(pumpQue') \in Nat /\ Len(pumpQue') >= Len(pumpQue)
        /\ \A i \in 1..Len(pumpQue) : pumpQue'[i] = pumpQue[i]
    BY <1>1, <1>2, RacingFacts DEF TypeOK
  <2>3. \A i \in 1..(it - 1) : pumpQue'[i] = pumpQue[i]
    BY <2>1, <2>2, <1>3
  <2> QED BY <2>1, <2>2, <2>3, <1>2, <1>3 DEF Passed
<1>9. CountInv'
  <2>1. Walking' = Walking
    BY <1>2 DEF Walking
  <2>2. ASSUME Walking, NEW t \in Sessions
        PROVE  Occurrences(sent[t], update) <= Cardinality(Passed(t)')
    BY <2>2, <1>8 DEF CountInv
  <2> QED BY <1>2, <1>6, <1>7, <1>8, <2>1, <2>2 DEF CountInv
<1>10. OrderInv'
  BY <1>2 DEF OrderInv
<1> QED BY <1>9, <1>10

(* An update that arrives has not been sent to anyone.                     *)
LEMMA OnTradeUpdateCounts ==
  ASSUME IInv, CountInv, OrderInv, OnTradeUpdate
  PROVE  CountInv' /\ OrderInv'
<1>1. TypeOK /\ SentInv
  BY DEF IInv
<1>2. /\ update' = update + 1 /\ it' = 1
      /\ UNCHANGED <<pumpQue, subscribed, sent>>
  BY DEF OnTradeUpdate, workerVars
<1>3. update \in Nat /\ Len(pumpQue) \in Nat
  BY <1>1, PumpAssumption DEF TypeOK, PumpAssumption
<1>4. \A s \in Sessions : Occurrences(sent[s], update + 1) = 0
  <2> TAKE s \in Sessions
  <2>1. \A i \in 1..Len(sent[s]) : sent[s][i] <= update
    BY <1>1 DEF SentInv
  <2>2. \A i \in 1..Len(sent[s]) : sent[s][i] \in Nat
    BY <1>1, PumpAssumption DEF TypeOK, PumpAssumption
  <2>3. {i \in 1..Len(sent[s]) : sent[s][i] = update + 1} = {}
    BY <1>3, <2>1, <2>2
  <2> QED BY <2>3, FS_EmptySet DEF Occurrences
<1>5. \A s \in Sessions : Passed(s)' = {}
  BY <1>2 DEF Passed
<1>6. \A s \in Sessions : subscribed[s] \in Nat
  BY <1>1, CountTypes
<1>7. ASSUME NEW s \in Sessions, NEW u \in 1..(update + 1)
      PROVE  Occurrences(sent[s], u) <= subscribed[s]
  <2>1. CASE u = update + 1
    BY <2>1, <1>4, <1>6
  <2>2. CASE u \in 1..update
    BY <2>2 DEF CountInv
  <2> QED BY <1>3, <2>1, <2>2
<1>8. CountInv'
  <2>1. \A s \in Sessions : Occurrences(sent[s], update + 1) <= Cardinality(Passed(s)')
    BY <1>4, <1>5, FS_EmptySet
  <2>2. \A s \in Sessions : Occurrences(pumpQue, s) <= subscribed[s]
    BY DEF CountInv
  <2> QED BY <1>2, <1>3, <1>7, <2>1, <2>2 DEF CountInv
<1>9. OrderInv'
  BY <1>2 DEF OrderInv
<1> QED BY <1>8, <1>9

(* Passing a session on the walk can only add to the positions passed.     *)
LEMMA WalkCounts ==
  ASSUME IInv, CountInv, OrderInv, SkipClosed \/ TakeOpen \/ EndWalk
  PROVE  CountInv' /\ OrderInv'
<1>1. TypeOK
  BY DEF IInv
<1>2. /\ UNCHANGED <<pumpQue, subscribed, sent, update>> /\ Walking
      /\ it' = it \/ (it <= Len(pumpQue) /\ it' = it + 1)
  BY DEF SkipClosed, TakeOpen, EndWalk, workerVars, Walking
<1>3. it \in Nat /\ Len(pumpQue) \in Nat /\ it - 1 <= Len(pumpQue)
  BY <1>1, <1>2, CountTypes DEF CountInv
<1>4. it' - 1 <= Len(pumpQue) /\ it' \in Nat
  BY <1>2, <1>3
<1>5. ASSUME NEW s \in Sessions
      PROVE  Occurrences(sent[s], update) <= Cardinality(Passed(s)')
  <2>1. Passed(s) \subseteq Passed(s)' /\ Passed(s)' \subseteq 1..(it' - 1)
        /\ it' - 1 \in Int
    BY <1>2, <1>3, <1>4 DEF Passed
  <2>2. Cardinality(Passed(s)) \in Nat /\ Cardinality(Passed(s)') \in Nat
        /\ Cardinality(Passed(s)) <= Cardinality(Passed(s)')
    BY <2>1, PositionFacts
  <2>3. Occurrences(sent[s], update) \in Nat
        /\ Occurrences(sent[s], update) <= Cardinality(Passed(s))
    BY <1>1, <1>2, CountTypes DEF CountInv
  <2> QED BY <2>2, <2>3
<1>6. CountInv'
  BY <1>2, <1>4, <1>5 DEF CountInv
<1>7. OrderInv'
  BY <1>2 DEF OrderInv
<1> QED BY <1>6, <1>7

(* Sending the update to a session passes one of its entries.              *)
LEMMA SendUpdateCounts ==
  ASSUME IInv, CountInv, OrderInv, SendUpdate
  PROVE  CountInv' /\ OrderInv'
<1>1. TypeOK /\ PlaceInv /\ SentInv
  BY DEF IInv
<1> DEFINE u == pumpQue[it]
<1>2. /\ cpc = "send" /\ it' = it + 1
      /\ sent' = [sent EXCEPT ![u] = Append(@, update)]
      /\ UNCHANGED <<pumpQue, subscribed, update>>
  BY DEF SendUpdate, workerVars
<1>3. /\ it \in Nat \ {0} /\ it <= Len(pumpQue) /\ Len(pumpQue) \in Nat
      /\ u \in Sessions /\ update \in 1..MaxUpdates /\ update \in Nat
      /\ pumpQue \in Seq(Sessions) /\ update > 0
  BY <1>1, <1>2, PumpAssumption DEF TypeOK, PlaceInv, PumpAssumption
<1>4. /\ sent[u] \in Seq(1..MaxUpdates) /\ sent'[u] = Append(sent[u], update)
      /\ \A s \in Sessions \ {u} : sent'[s] = sent[s]
  <2> HIDE DEF u
  <2> QED BY <1>1, <1>2, <1>3 DEF TypeOK
<1>5. ASSUME NEW s \in Sessions
      PROVE  /\ s = u => Cardinality(Passed(s)') = Cardinality(Passed(s)) + 1
             /\ s # u => Passed(s)' = Passed(s)
             /\ Cardinality(Passed(s)') <= Occurrences(pumpQue, s)
             /\ Cardinality(Passed(s)') \in Nat
  <2>1. Passed(s)' = {i \in 1..it : pumpQue[i] = s}
    BY <1>2, <1>3 DEF Passed
  <2>2. ASSUME s = u PROVE Cardinality(Passed(s)') = Cardinality(Passed(s)) + 1
    <3>1. Passed(s)' = Passed(s) \cup {it} /\ it \notin Passed(s)
      BY <2>1, <2>2, <1>3 DEF Passed
    <3>2. IsFiniteSet(Passed(s))
      <4>1. Passed(s) \subseteq 1..(it - 1) /\ it - 1 \in Int
        BY <1>3 DEF Passed
      <4> QED BY <4>1, PositionFacts
    <3>3. Cardinality(Passed(s) \cup {it}) = Cardinality(Passed(s)) + 1
      BY <3>1, <3>2, FS_AddElement
    <3> QED BY <3>1, <3>3
  <2>3. ASSUME s # u PROVE Passed(s)' = Passed(s)
    BY <2>1, <2>3, <1>3 DEF Passed
  <2>4. Cardinality(Passed(s)') <= Occurrences(pumpQue, s)
        /\ Cardinality(Passed(s)') \in Nat
    <3> DEFINE T == {i \in 1..Len(pumpQue) : pumpQue[i] = s}
    <3>1. Passed(s)' \subseteq T /\ T \subseteq 1..Len(pumpQue) /\ Len(pumpQue) \in Int
      BY <2>1, <1>3
    <3>2. Cardinality(Passed(s)') <= Cardinality(T) /\ Cardinality(Passed(s)') \in Nat
      <4> HIDE DEF T
      <4> QED BY <3>1, PositionFacts
    <3> QED BY <3>2 DEF Occurrences
  <2> QED BY <2>2, <2>3, <2>4
<1>6. ASSUME NEW s \in Sessions, NEW v
      PROVE  Occurrences(sent'[s], v) =
               IF s = u /\ v = update THEN Occurrences(sent[s], v) + 1
                                      ELSE Occurrences(sent[s], v)
  <2> HIDE DEF u
  <2>1. CASE s = u
    <3>1. Occurrences(Append(sent[u], update), v) =
            IF update = v THEN Occurrences(sent[u], v) + 1 ELSE Occurrences(sent[u], v)
      <4> DEFINE S == 1..MaxUpdates
                 q == sent[u]
      <4>1. q \in Seq(S) /\ update \in S
        BY <1>3, <1>4
      <4> HIDE DEF S, q
      <4>2. Occurrences(Append(q, update), v) =
              IF update = v THEN Occurrences(q, v) + 1 ELSE Occurrences(q, v)
        BY <4>1, CountAppended
      <4> QED BY <4>2 DEF q
    <3> QED BY <2>1, <3>1, <1>4
  <2>2. CASE s # u
    BY <2>2, <1>4
  <2> QED BY <2>1, <2>2
<1> HIDE DEF u
<1>7. ASSUME NEW s \in Sessions
      PROVE  /\ Occurrences(sent'[s], update) <= Cardinality(Passed(s)')
             /\ Occurrences(sent'[s], update) \in Nat
  <2>1. /\ Occurrences(sent[s], update) <= Cardinality(Passed(s))
        /\ Occurrences(sent[s], update) \in Nat /\ Cardinality(Passed(s)) \in Nat
    BY <1>1, <1>2, CountTypes DEF CountInv, Walking
  <2>2. CASE s = u
    BY <2>1, <2>2, <1>5, <1>6
  <2>3. CASE s # u
    BY <2>1, <2>3, <1>5, <1>6
  <2> QED BY <2>2, <2>3
<1>8. ASSUME NEW s \in Sessions, NEW v \in 1..update
      PROVE  Occurrences(sent'[s], v) <= subscribed[s]
  <2>1. CASE v = update
    <3>1. /\ Occurrences(pumpQue, s) <= subscribed[s]
          /\ Occurrences(pumpQue, s) \in Nat /\ subscribed[s] \in Nat
      BY <1>1, CountTypes DEF CountInv
    <3> QED BY <2>1, <3>1, <1>5, <1>7
  <2>2. CASE v # update
    BY <2>2, <1>6 DEF CountInv
  <2> QED BY <2>1, <2>2
<1>9. CountInv'
  <2>1. it' - 1 <= Len(pumpQue)
    BY <1>2, <1>3
  <2>2. \A s \in Sessions : Occurrences(pumpQue, s) <= subscribed[s]
    BY DEF CountInv
  <2> QED BY <1>2, <1>7, <1>8, <2>1, <2>2 DEF CountInv
<1>10. OrderInv'
  <2> SUFFICES ASSUME NEW s \in Sessions, NEW i \in 1..Len(sent'[s]),
                      NEW j \in 1..Len(sent'[s]), i < j
               PROVE  sent'[s][i] <= sent'[s][j]
    BY DEF OrderInv
  <2>1. CASE s # u
    BY <2>1, <1>4 DEF OrderInv
  <2>2. CASE s = u
    <3>1. /\ Len(sent'[u]) = Len(sent[u]) + 1 /\ Len(sent[u]) \in Nat
          /\ \A k \in 1..Len(sent[u]) : sent'[u][k] = sent[u][k]
          /\ sent'[u][Len(sent[u]) + 1] = update
      BY <1>3, <1>4, AppendFacts
    <3>2. i \in 1..Len(sent[u]) /\ sent[u][i] <= update
      BY <2>2, <3>1, <1>1, <1>3 DEF SentInv
    <3>3. CASE j = Len(sent[u]) + 1
      BY <2>2, <3>1, <3>2, <3>3
    <3>4. CASE j \in 1..Len(sent[u])
      BY <2>2, <3>1, <3>2, <3>4, <1>3 DEF OrderInv
    <3> QED BY <2>2, <3>1, <3>3, <3>4
  <2> QED BY <2>1, <2>2
<1> QED BY <1>9, <1>10

(* An erase takes entries away.                                            *)
LEMMA EraseClosedCounts ==
  ASSUME IInv, CountInv, OrderInv, EraseClosed
  PROVE  CountInv' /\ OrderInv'
<1>1. TypeOK
  BY DEF IInv
<1>2. /\ UNCHANGED <<subscribed, sent, update, cpc>> /\ cpc = "erase" /\ intArray # <<>>
  BY DEF EraseClosed, workerVars
<1> DEFINE item == Head(intArray)
<1>3. \/ item <= Len(pumpQue) /\ pumpQue' = RemoveAt(pumpQue, item)
      \/ pumpQue' = pumpQue
  BY DEF EraseClosed
<1>4. item \in Nat \ {0} /\ pumpQue \in Seq(Sessions) /\ Len(pumpQue) \in Nat
  BY <1>1, <1>2, TailFacts DEF TypeOK
<1> HIDE DEF item
<1>5. ASSUME NEW s \in Sessions PROVE Occurrences(pumpQue', s) <= subscribed[s]
  <2>1. /\ Occurrences(pumpQue, s) \in Nat /\ subscribed[s] \in Nat
        /\ Occurrences(pumpQue, s) <= subscribed[s]
    BY <1>1, CountTypes DEF CountInv
  <2>2. CASE item <= Len(pumpQue) /\ pumpQue' = RemoveAt(pumpQue, item)
    <3>1. item \in 1..Len(pumpQue)
      BY <2>2, <1>4
    <3>2. /\ Occurrences(RemoveAt(pumpQue, item), s) \in Nat
          /\ Occurrences(RemoveAt(pumpQue, item), s) <= Occurrences(pumpQue, s)
      BY <3>1, <1>4, CountRemoved
    <3> QED BY <2>1, <2>2, <3>2
  <2> QED BY <2>1, <2>2, <1>3
<1> QED BY <1>2, <1>5 DEF CountInv, OrderInv, Walking

(* Every step keeps the counts and the order.                              *)
LEMMA NextCounts == IInv /\ CountInv /\ OrderInv /\ [Next]_vars => CountInv' /\ OrderInv'
<1> SUFFICES ASSUME IInv, CountInv, OrderInv, [Next]_vars PROVE CountInv' /\ OrderInv'
  OBVIOUS
<1>1. CASE \E s \in Sessions : PumpTrades(s)
  BY <1>1, PumpTradesCounts
<1>2. CASE \/ Confirm \/ (\E s \in Sessions : CloseSession(s)) \/ UNCHANGED vars
  <2>1. UNCHANGED <<pumpQue, subscribed, update, cpc, it, sent>>
    BY <1>2 DEF Confirm, CloseSession, vars, workerVars, callbackVars
  <2> QED BY <2>1 DEF CountInv, OrderInv, Walking, Passed
<1>3. CASE EndUpdate
  BY <1>3 DEF EndUpdate, workerVars, CountInv, OrderInv, Walking, Passed
<1>4. CASE OnTradeUpdate
  BY <1>4, OnTradeUpdateCounts
<1>5. CASE SkipClosed \/ TakeOpen \/ EndWalk
  BY <1>5, WalkCounts
<1>6. CASE SendUpdate
  BY <1>6, SendUpdateCounts
<1>7. CASE EraseClosed
  BY <1>7, EraseClosedCounts
<1> QED BY <1>1, <1>2, <1>3, <1>4, <1>5, <1>6, <1>7 DEF Next, CallbackThread

(* As Mt4PumpSvr!UpdatesInOrder states: OnTradeUpdate sends the updates to *)
(* each session in the order in which they arrived, and each at most as    *)
(* often as the session has subscribed, although nothing locks the list.   *)
THEOREM InOrderAndOnce == Spec => []UpdatesInOrder
<1>1. CountInv /\ OrderInv => UpdatesInOrder
  BY DEF CountInv, OrderInv, UpdatesInOrder
<1>2. Spec => [](CountInv /\ OrderInv)
  BY Invariant, InitCounts, NextCounts, PTL DEF Spec
<1> QED BY <1>1, <1>2, PTL
=============================================================================
