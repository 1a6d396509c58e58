--------------------------- MODULE LogicSycProofs ---------------------------
(***************************************************************************)
(* Theorems about LogicSyc for any number of posting threads and of posts: *)
(* IInv is inductive, and the properties follow from it.                   *)
(***************************************************************************)
EXTENDS LogicSyc, SequenceTheorems, TLAPS

(* The queue next to the history of what was posted: always its end.       *)

(* Element i of the queue is element base + i of the history.              *)
EndOf(que, history, base) ==
  /\ base = Len(history) - Len(que)
  /\ base \in Nat
  /\ \A i \in 1..Len(que) : que[i] = history[base + i]

(* What Tail and Head are in terms of elements.                            *)
LEMMA TailFacts ==
  ASSUME NEW S, NEW s \in Seq(S), s # <<>>
  PROVE  /\ Tail(s) \in Seq(S)
         /\ Len(Tail(s)) = Len(s) - 1
         /\ Len(s) \in Nat \ {0}
         /\ \A i \in 1..(Len(s) - 1) : Tail(s)[i] = s[i + 1]
         /\ Head(s) = s[1] /\ Head(s) \in S
  BY HeadTailProperties, EmptySeq

(* Pushing an element keeps the queue the end of the history.              *)
LEMMA PushFacts ==
  ASSUME NEW S, NEW que \in Seq(S), NEW history \in Seq(S), NEW base,
         EndOf(que, history, base), NEW e \in S
  PROVE  /\ Append(que, e) \in Seq(S) /\ Append(que, e) # <<>>
         /\ Len(Append(que, e)) = Len(que) + 1
         /\ \A i \in 1..Len(que) : Append(que, e)[i] = que[i]
         /\ Append(history, e) \in Seq(S)
         /\ Len(Append(history, e)) = Len(history) + 1
         /\ \A i \in 1..Len(history) : Append(history, e)[i] = history[i]
         /\ EndOf(Append(que, e), Append(history, e), base)
<1> DEFINE q == Append(que, e)
           h == Append(history, e)
<1>1. /\ q \in Seq(S) /\ q # <<>> /\ Len(q) = Len(que) + 1 /\ q[Len(que) + 1] = e
      /\ \A i \in 1..Len(que) : q[i] = que[i]
  OBVIOUS
<1>2. /\ h \in Seq(S) /\ Len(h) = Len(history) + 1 /\ h[Len(history) + 1] = e
      /\ \A i \in 1..Len(history) : h[i] = history[i]
  OBVIOUS
<1>3. Len(que) \in Nat /\ Len(history) \in Nat
  OBVIOUS
<1> HIDE DEF q, h
<1>4. base = Len(h) - Len(q) /\ base \in Nat
  BY <1>1, <1>2, <1>3 DEF EndOf
<1>5. \A i \in 1..Len(q) : q[i] = h[base + i]
  <2> SUFFICES ASSUME NEW i \in 1..(Len(que) + 1) PROVE q[i] = h[base + i]
    BY <1>1
  <2>1. CASE i = Len(que) + 1
    BY <2>1, <1>1, <1>2, <1>3 DEF EndOf
  <2>2. CASE i \in 1..Len(que)
    BY <2>2, <1>1, <1>2, <1>3 DEF EndOf
  <2> QED BY <2>1, <2>2, <1>3
<1>6. EndOf(q, h, base)
  BY <1>4, <1>5 DEF EndOf
<1> QED BY <1>1, <1>2, <1>6 DEF q, h

(* Popping the front moves the base on by one.                             *)
LEMMA PopFacts ==
  ASSUME NEW S, NEW que \in Seq(S), NEW history \in Seq(S), NEW base,
         EndOf(que, history, base), que # <<>>
  PROVE  /\ Tail(que) \in Seq(S)
         /\ Len(Tail(que)) = Len(que) - 1
         /\ que[1] = history[base + 1] /\ que[1] \in S /\ Head(que) = que[1]
         /\ base + 1 \in 1..Len(history)
         /\ EndOf(Tail(que), history, base + 1)
<1> DEFINE q == Tail(que)
<1>1. /\ q \in Seq(S) /\ Len(q) = Len(que) - 1 /\ Head(que) = que[1] /\ que[1] \in S
      /\ \A i \in 1..(Len(que) - 1) : q[i] = que[i + 1]
      /\ Len(que) \in Nat \ {0} /\ Len(history) \in Nat
  BY TailFacts
<1> HIDE DEF q
<1>2. base + 1 = Len(history) - Len(q) /\ base \in Nat
  BY <1>1 DEF EndOf
<1>3. \A i \in 1..Len(q) : q[i] = history[(base + 1) + i]
  <2> TAKE i \in 1..Len(q)
  <2>1. i + 1 \in 1..Len(que) /\ base + (i + 1) = (base + 1) + i
    BY <1>1, <1>2
  <2> QED BY <2>1, <1>1 DEF EndOf
<1>4. EndOf(q, history, base + 1)
  BY <1>2, <1>3 DEF EndOf
<1>5. que[1] = history[base + 1] /\ base + 1 \in 1..Len(history)
  BY <1>1, <1>2 DEF EndOf
<1> QED BY <1>1, <1>4, <1>5 DEF q

-----------------------------------------------------------------------------


IInv == TypeOK /\ QueueInv

-----------------------------------------------------------------------------
(* Everything is empty at the start.                                       *)
LEMMA InitIInv == Init => IInv
<1> SUFFICES ASSUME Init PROVE IInv
  OBVIOUS
<1> USE DEF Init
<1>1. TypeOK
  <2>1. <<>> \in Seq(Requests)
    BY EmptySeq
  <2>2. posted \in [Posters -> 0..MaxPosts] /\ ppc \in [Posters -> {"idle", "notify"}]
    BY PostAssumption DEF PostAssumption
  <2> QED BY <2>1, <2>2 DEF TypeOK, Locked
<1>2. LockInv /\ NoLostWakeup /\ PlaceInv /\ StopInv
  BY PostAssumption
     DEF PostAssumption, LockInv, NoLostWakeup, PlaceInv, StopInv, InCallback, Locked
<1>3. DeliveryInv
  BY DEF DeliveryInv, Popped, InCallback
<1> QED BY <1>1, <1>2, <1>3 DEF IInv, QueueInv

(* Posting: a new request at the end of both sequences.                    *)
LEMMA PostPushIInv ==
  ASSUME IInv, NEW p \in Posters, PostPush(p)
  PROVE  IInv'
<1>1. TypeOK /\ LockInv /\ NoLostWakeup /\ PlaceInv /\ StopInv /\ DeliveryInv
  BY DEF IInv, QueueInv
<1>2. PICK r \in [from : {p}, n : {posted[p] + 1}, known : BOOLEAN] :
         /\ msgQue' = Append(msgQue, r)
         /\ accepted' = Append(accepted, r)
  BY DEF PostPush
<1>3. posted[p] + 1 \in 1..MaxPosts
  BY <1>1, PostAssumption DEF PostAssumption, PostPush, TypeOK
<1>4. r \in Requests /\ msgQue \in Seq(Requests) /\ accepted \in Seq(Requests)
  BY <1>1, <1>3 DEF Requests, TypeOK
<1>5. EndOf(msgQue, accepted, Popped)
  BY <1>1 DEF EndOf, DeliveryInv, Popped
<1>6. /\ msgQue' \in Seq(Requests) /\ Len(msgQue') = Len(msgQue) + 1 /\ msgQue' # <<>>
      /\ accepted' \in Seq(Requests) /\ Len(accepted') = Len(accepted) + 1
      /\ \A i \in 1..Len(accepted) : accepted'[i] = accepted[i]
      /\ EndOf(msgQue', accepted', Popped)
  BY <1>2, <1>4, <1>5, PushFacts
<1>7. UNCHANGED <<mutex, wpc, bStop, dpc, missed, handled>>
  BY DEF PostPush, destructorVars
<1>8. TypeOK'
  <2>1. posted' \in [Posters -> 0..MaxPosts]
    BY <1>1, <1>3, PostAssumption DEF PostAssumption, TypeOK, PostPush
  <2>2. ppc' \in [Posters -> {"idle", "notify"}]
    BY <1>1 DEF TypeOK, PostPush
  <2> QED BY <1>1, <1>6, <1>7, <2>1, <2>2 DEF TypeOK
<1>9. LockInv' /\ StopInv'
  BY <1>1, <1>7 DEF LockInv, StopInv
<1>10. NoLostWakeup'
  <2>1. CASE msgQue = <<>>
    BY <2>1, <1>1, <1>6, EmptySeq DEF PostPush, NoLostWakeup, TypeOK
  <2>2. CASE msgQue # <<>>
    BY <2>2, <1>1 DEF NoLostWakeup, PostPush, TypeOK
  <2> QED BY <2>1, <2>2
<1>11. PlaceInv'
  BY <1>1, <1>6, <1>7, PostAssumption
     DEF PostAssumption, PlaceInv, LockInv, StopInv, Locked, InCallback, PostPush
<1>12. DeliveryInv'
  <2>1. /\ Len(msgQue) \in Nat /\ Len(accepted) \in Nat /\ Len(handled) \in Nat
        /\ InCallback => Len(msgQue) >= 1
        /\ InCallback' = InCallback
    BY <1>1, <1>4, <1>7, EmptySeq DEF InCallback, PlaceInv, TypeOK
  <2>2. Popped' = Popped
    BY <2>1, <1>6 DEF Popped
  <2>3. Len(handled) <= Len(accepted)
    BY <2>1, <1>1 DEF DeliveryInv, Popped
  <2> QED BY <2>1, <2>2, <2>3, <1>1, <1>6, <1>7 DEF DeliveryInv, EndOf
<1> QED BY <1>8, <1>9, <1>10, <1>11, <1>12 DEF IInv, QueueInv

-----------------------------------------------------------------------------
(* Steps that leave the three sequences alone.                             *)
LEMMA SameDelivery ==
  ASSUME DeliveryInv, UNCHANGED <<msgQue, accepted, handled>>,
         InCallback' = InCallback
  PROVE  DeliveryInv'
  BY DEF DeliveryInv, Popped

(* The steps that touch neither the queue nor the histories.               *)
LEMMA QuietIInv ==
  ASSUME IInv,
         \/ \E p \in Posters : PostNotify(p)
         \/ InitMgr \/ TakeLock \/ TestQueue \/ Wait \/ TestStop \/ SpuriousWakeup
         \/ Destructor
         \/ UNCHANGED vars
  PROVE  IInv'
<1>1. TypeOK /\ LockInv /\ NoLostWakeup /\ PlaceInv /\ StopInv /\ DeliveryInv
  BY DEF IInv, QueueInv
<1> USE DEF posterVars, destructorVars
<1>2. ASSUME NEW p \in Posters, PostNotify(p) PROVE IInv'
  <2>1. TypeOK'
    BY <1>1, <1>2 DEF TypeOK, PostNotify, NotifyOne
  <2>2. LockInv' /\ PlaceInv' /\ StopInv' /\ InCallback' = InCallback
    BY <1>1, <1>2 DEF LockInv, PlaceInv, StopInv, InCallback, Locked, PostNotify,
                      NotifyOne
  <2>3. NoLostWakeup'
    BY <1>2 DEF NoLostWakeup, PostNotify, NotifyOne
  <2>4. DeliveryInv'
    BY <1>1, <1>2, <2>2, SameDelivery DEF PostNotify
  <2> QED BY <2>1, <2>2, <2>3, <2>4 DEF IInv, QueueInv
<1>3. CASE InitMgr \/ TestQueue \/ TestStop \/ SpuriousWakeup
  <2> USE DEF InitMgr, TestQueue, TestStop, SpuriousWakeup, WorkerGoes
  <2>1. TypeOK'
    BY <1>1, <1>3 DEF TypeOK, Locked
  <2>2. LockInv' /\ PlaceInv' /\ StopInv' /\ InCallback' = InCallback
    BY <1>1, <1>3 DEF LockInv, PlaceInv, StopInv, InCallback, Locked
  <2>3. NoLostWakeup'
    BY <1>1, <1>3 DEF NoLostWakeup
  <2>4. DeliveryInv'
    BY <1>1, <1>3, <2>2, SameDelivery
  <2> QED BY <2>1, <2>2, <2>3, <2>4 DEF IInv, QueueInv
<1>4. CASE TakeLock \/ Wait
  <2> USE DEF TakeLock, Wait
  <2>1. TypeOK'
    BY <1>1, <1>4 DEF TypeOK, Locked
  <2>2. LockInv' /\ PlaceInv' /\ StopInv' /\ InCallback' = InCallback
    BY <1>1, <1>4, PostAssumption
       DEF PostAssumption, LockInv, PlaceInv, StopInv, InCallback, Locked
  <2>3. NoLostWakeup'
    BY <1>1, <1>4 DEF NoLostWakeup, PlaceInv
  <2>4. DeliveryInv'
    BY <1>1, <1>4, <2>2, SameDelivery
  <2> QED BY <2>1, <2>2, <2>3, <2>4 DEF IInv, QueueInv
<1>5. CASE Destructor
  <2> USE DEF Destructor, SetStop, NotifyStop, Join, NotifyOne
  <2>1. TypeOK'
    BY <1>1, <1>5 DEF TypeOK, Locked
  <2>2. LockInv' /\ PlaceInv' /\ StopInv' /\ InCallback' = InCallback
    BY <1>1, <1>5 DEF LockInv, PlaceInv, StopInv, InCallback, Locked
  <2>3. NoLostWakeup'
    BY <1>1, <1>5 DEF NoLostWakeup
  <2>4. DeliveryInv'
    BY <1>1, <1>5, <2>2, SameDelivery
  <2> QED BY <2>1, <2>2, <2>3, <2>4 DEF IInv, QueueInv
<1>6. CASE UNCHANGED vars
  BY <1>1, <1>6 DEF vars, IInv, QueueInv, TypeOK, LockInv, NoLostWakeup, PlaceInv,
                    StopInv, DeliveryInv, Popped, InCallback
<1> QED BY <1>2, <1>3, <1>4, <1>5, <1>6

-----------------------------------------------------------------------------
(* The worker's steps on the front of the queue.                           *)
LEMMA DispatchIInv ==
  ASSUME IInv,
         Dispatch("front", "callback") \/ Dispatch("drain", "drainCallback")
  PROVE  IInv'
<1>1. TypeOK /\ LockInv /\ NoLostWakeup /\ PlaceInv /\ StopInv /\ DeliveryInv
  BY DEF IInv, QueueInv
<1>2. /\ UNCHANGED <<msgQue, mutex, ppc, posted, bStop, dpc, missed, accepted>>
      /\ handled' = Append(handled, Head(msgQue))
      /\ msgQue # <<>>
      /\ \/ wpc = "front" /\ wpc' = "callback"
         \/ wpc = "drain" /\ wpc' = "drainCallback"
  BY DEF Dispatch, posterVars, destructorVars
<1>3. /\ msgQue \in Seq(Requests) /\ accepted \in Seq(Requests)
      /\ handled \in Seq(Requests)
      /\ Head(msgQue) = msgQue[1] /\ Head(msgQue) \in Requests
      /\ Len(msgQue) \in Nat \ {0} /\ Len(accepted) \in Nat /\ Len(handled) \in Nat
  BY <1>1, <1>2, EmptySeq, TailFacts DEF TypeOK
<1>4. /\ handled' \in Seq(Requests) /\ Len(handled') = Len(handled) + 1
      /\ handled'[Len(handled) + 1] = msgQue[1]
      /\ \A i \in 1..Len(handled) : handled'[i] = handled[i]
  BY <1>2, <1>3
<1>5. TypeOK'
  BY <1>1, <1>2, <1>4 DEF TypeOK, Locked
<1>6. LockInv' /\ NoLostWakeup' /\ PlaceInv' /\ StopInv'
  BY <1>1, <1>2 DEF LockInv, NoLostWakeup, PlaceInv, StopInv, InCallback, Locked
<1>7. DeliveryInv'
  <2>1. ~InCallback /\ InCallback' /\ Popped' = Popped
    BY <1>2 DEF InCallback, Popped
  <2>2. Len(handled) = Popped /\ msgQue[1] = accepted[Popped + 1]
    BY <2>1, <1>1, <1>3 DEF DeliveryInv
  <2>3. \A i \in 1..Len(handled') : handled'[i] = accepted[i]
    BY <2>2, <1>1, <1>3, <1>4 DEF DeliveryInv
  <2> QED BY <2>1, <2>2, <2>3, <1>1, <1>2, <1>4 DEF DeliveryInv
<1> QED BY <1>5, <1>6, <1>7 DEF IInv, QueueInv

(* Popping the front moves Popped on by one.                               *)
LEMMA PopKeeps ==
  ASSUME IInv, msgQue # <<>>, msgQue' = Tail(msgQue), accepted' = accepted
  PROVE  /\ msgQue' \in Seq(Requests) /\ Popped' = Popped + 1
         /\ Popped \in Nat /\ msgQue[1] = accepted[Popped + 1]
         /\ Head(msgQue) = msgQue[1] /\ Head(msgQue) \in Requests
         /\ \A i \in 1..Len(msgQue') : msgQue'[i] = accepted'[Popped' + i]
<1>1. /\ msgQue \in Seq(Requests) /\ accepted \in Seq(Requests)
      /\ EndOf(msgQue, accepted, Popped)
  BY DEF IInv, QueueInv, TypeOK, DeliveryInv, Popped, EndOf
<1>2. /\ msgQue' \in Seq(Requests) /\ EndOf(msgQue', accepted, Popped + 1)
      /\ msgQue[1] = accepted[Popped + 1] /\ msgQue[1] \in Requests
      /\ Head(msgQue) = msgQue[1]
  BY <1>1, PopFacts
<1> QED BY <1>1, <1>2 DEF EndOf, Popped

(* A request without a callback is popped in one step.                     *)
LEMMA DropUnknownIInv ==
  ASSUME IInv, DropUnknown("front", "lock") \/ DropUnknown("drain", "drain")
  PROVE  IInv'
<1>1. TypeOK /\ LockInv /\ NoLostWakeup /\ PlaceInv /\ StopInv /\ DeliveryInv
  BY DEF IInv, QueueInv
<1>2. /\ UNCHANGED <<ppc, posted, bStop, dpc, missed, accepted>>
      /\ handled' = Append(handled, Head(msgQue))
      /\ msgQue # <<>> /\ msgQue' = Tail(msgQue)
      /\ \/ wpc = "front" /\ wpc' = "lock" /\ mutex' = NoThread
         \/ wpc = "drain" /\ wpc' = "drain" /\ mutex' = Worker
  BY DEF DropUnknown, posterVars, destructorVars
<1>3. /\ msgQue' \in Seq(Requests) /\ Popped' = Popped + 1 /\ Popped \in Nat
      /\ msgQue[1] = accepted[Popped + 1]
      /\ Head(msgQue) = msgQue[1] /\ Head(msgQue) \in Requests
      /\ \A i \in 1..Len(msgQue') : msgQue'[i] = accepted'[Popped' + i]
  BY <1>2, PopKeeps
<1>4. /\ handled \in Seq(Requests) /\ Len(handled) = Popped
      /\ ~InCallback /\ ~InCallback'
  BY <1>1, <1>2 DEF TypeOK, DeliveryInv, InCallback
<1>5. /\ handled' \in Seq(Requests) /\ Len(handled') = Popped + 1
      /\ handled'[Popped + 1] = msgQue[1]
      /\ \A i \in 1..Popped : handled'[i] = handled[i]
  BY <1>2, <1>3, <1>4
<1>6. TypeOK'
  BY <1>1, <1>2, <1>3, <1>5 DEF TypeOK, Locked
<1>7. LockInv' /\ NoLostWakeup' /\ PlaceInv' /\ StopInv'
  BY <1>1, <1>2, PostAssumption
     DEF PostAssumption, LockInv, NoLostWakeup, PlaceInv, StopInv, InCallback, Locked
<1>8. \A i \in 1..(Popped + 1) : handled'[i] = accepted[i]
  <2> TAKE i \in 1..(Popped + 1)
  <2>1. CASE i = Popped + 1
    BY <2>1, <1>3, <1>5
  <2>2. CASE i \in 1..Popped
    BY <2>2, <1>1, <1>4, <1>5 DEF DeliveryInv
  <2> QED BY <2>1, <2>2, <1>3
<1>9. DeliveryInv'
  <2>1. Popped' \in Nat /\ Len(handled') = Popped' + 0 /\ accepted' = accepted
    BY <1>2, <1>3, <1>5
  <2>2. \A i \in 1..Len(handled') : handled'[i] = accepted'[i]
    BY <2>1, <1>3, <1>5, <1>8
  <2> QED BY <2>1, <2>2, <1>3, <1>4 DEF DeliveryInv
<1> QED BY <1>6, <1>7, <1>9 DEF IInv, QueueInv

(* The callback has returned: its request is popped.                       *)
LEMMA CallbackReturnsIInv ==
  ASSUME IInv,
         CallbackReturns("callback", "lock") \/ CallbackReturns("drainCallback", "drain")
  PROVE  IInv'
<1>1. TypeOK /\ LockInv /\ NoLostWakeup /\ PlaceInv /\ StopInv /\ DeliveryInv
  BY DEF IInv, QueueInv
<1>2. /\ UNCHANGED <<ppc, posted, bStop, dpc, missed, accepted, handled>>
      /\ msgQue' = Tail(msgQue)
      /\ \/ wpc = "callback" /\ wpc' = "lock" /\ mutex' = NoThread
         \/ wpc = "drainCallback" /\ wpc' = "drain" /\ mutex' = Worker
  BY DEF CallbackReturns, posterVars, destructorVars
<1>3. msgQue # <<>> /\ InCallback /\ ~InCallback'
  BY <1>1, <1>2 DEF PlaceInv, InCallback
<1>4. /\ msgQue' \in Seq(Requests) /\ Popped' = Popped + 1 /\ Popped \in Nat
      /\ \A i \in 1..Len(msgQue') : msgQue'[i] = accepted'[Popped' + i]
  BY <1>2, <1>3, PopKeeps
<1>5. TypeOK'
  BY <1>1, <1>2, <1>4 DEF TypeOK, Locked
<1>6. LockInv' /\ NoLostWakeup' /\ PlaceInv' /\ StopInv'
  BY <1>1, <1>2, PostAssumption
     DEF PostAssumption, LockInv, NoLostWakeup, PlaceInv, StopInv, InCallback, Locked
<1>7. DeliveryInv'
  BY <1>1, <1>2, <1>3, <1>4 DEF DeliveryInv
<1> QED BY <1>5, <1>6, <1>7 DEF IInv, QueueInv

(* The drain loop ends with an empty queue.                                *)
LEMMA DrainEndsIInv ==
  ASSUME IInv, wpc = "drain", msgQue = <<>>, mutex' = NoThread, wpc' = "done",
         UNCHANGED <<msgQue, posterVars, destructorVars, accepted, handled>>
  PROVE  IInv'
<1>1. TypeOK /\ LockInv /\ NoLostWakeup /\ PlaceInv /\ StopInv /\ DeliveryInv
  BY DEF IInv, QueueInv
<1>2. TypeOK'
  BY <1>1 DEF TypeOK, posterVars, destructorVars
<1>3. LockInv' /\ NoLostWakeup' /\ PlaceInv' /\ StopInv' /\ InCallback' = InCallback
  BY <1>1, PostAssumption
     DEF PostAssumption, LockInv, NoLostWakeup, PlaceInv, StopInv, InCallback,
         Locked, posterVars, destructorVars
<1>4. DeliveryInv'
  BY <1>1, <1>3, SameDelivery
<1> QED BY <1>2, <1>3, <1>4 DEF IInv, QueueInv

-----------------------------------------------------------------------------
(* IInv is inductive and holds of every behaviour.                         *)
LEMMA NextIInv == IInv /\ [Next]_vars => IInv'
<1> SUFFICES ASSUME IInv, [Next]_vars PROVE IInv'
  OBVIOUS
<1>1. ASSUME NEW p \in Posters, PostPush(p) PROVE IInv'
  BY <1>1, PostPushIInv
<1>2. CASE \/ \E p \in Posters : PostNotify(p)
           \/ InitMgr \/ TakeLock \/ TestQueue \/ Wait \/ TestStop \/ SpuriousWakeup
           \/ Destructor
           \/ UNCHANGED vars
  BY <1>2, QuietIInv
<1>3. CASE HandleFront
  BY <1>3, DispatchIInv, DropUnknownIInv, CallbackReturnsIInv DEF HandleFront
<1>4. CASE Drain
  BY <1>4, DispatchIInv, DropUnknownIInv, CallbackReturnsIInv, DrainEndsIInv DEF Drain
<1> QED BY <1>1, <1>2, <1>3, <1>4 DEF Next, WorkerThread

(* IInv holds of every behaviour.                                          *)
LEMMA AlwaysIInv == Spec => []IInv
  BY InitIInv, NextIInv, PTL DEF Spec

(* Every variable keeps its type; in particular a callback's request is    *)
(* still in the queue when it is popped.                                   *)
THEOREM TypeCorrect == Spec => []TypeOK
  BY AlwaysIInv, PTL DEF IInv

(* The worker never sleeps over a request that nobody is going to notify   *)
(* it of (PostMsgToQue notifies only when it made the size 1).             *)
THEOREM NoWakeupIsLost == Spec => []NoLostWakeup
<1>1. IInv => NoLostWakeup
  BY DEF IInv, QueueInv
<1> QED BY AlwaysIInv, <1>1, PTL

(* When ~LogicSyc returns, every posted request has been handled.          *)
THEOREM ExitIsDrained == Spec => []DrainedOnExit
<1>1. ASSUME IInv PROVE DrainedOnExit
  <2>1. /\ handled \in Seq(Requests) /\ accepted \in Seq(Requests)
        /\ DeliveryInv /\ PlaceInv /\ StopInv
    BY <1>1 DEF IInv, QueueInv, TypeOK
  <2>2. SUFFICES ASSUME dpc = "done" PROVE handled = accepted
    BY DEF DrainedOnExit
  <2>3. wpc = "done" /\ msgQue = <<>> /\ ~InCallback
    BY <2>1, <2>2 DEF StopInv, PlaceInv, InCallback
  <2>4. Len(handled) = Len(accepted)
    BY <2>1, <2>3 DEF DeliveryInv, Popped
  <2> QED BY <2>1, <2>4, SeqEqual DEF DeliveryInv
<1> QED BY AlwaysIInv, <1>1, PTL

(* The queue implements the safety part of FifoChannel: each request is    *)
(* handled once, in the order of the posts.                                *)
THEOREM HandledInOrderSafely == Spec => Channel!SafeSpec
<1>1. Init => Channel!Init
  BY DEF Init, Channel!Init
<1>2. IInv /\ IInv' /\ [Next]_vars => [Channel!Next]_(Channel!vars)
  <2> SUFFICES ASSUME IInv, [Next]_vars
               PROVE  [Channel!Next]_(Channel!vars)
    OBVIOUS
  <2> USE DEF Channel!Next, Channel!vars
  <2>1. ASSUME NEW p \in Posters, PostPush(p) PROVE Channel!Accept
    <3>1. posted[p] + 1 \in 1..MaxPosts
      BY <2>1, PostAssumption DEF PostAssumption, PostPush, IInv, TypeOK
    <3> QED BY <2>1, <3>1 DEF PostPush, Channel!Accept, Requests
  <2>2. ASSUME NEW from, NEW to,
               \/ Dispatch(from, to) /\ ~InCallback
               \/ DropUnknown(from, to) /\ ~InCallback
        PROVE  Channel!Deliver
    <3>1. /\ msgQue # <<>> /\ accepted' = accepted
          /\ handled' = Append(handled, Head(msgQue))
      BY <2>2 DEF Dispatch, DropUnknown
    <3>2. /\ msgQue \in Seq(Requests) /\ accepted \in Seq(Requests)
          /\ Len(handled) = Popped /\ DeliveryInv
      BY <2>2 DEF IInv, QueueInv, TypeOK, DeliveryInv
    <3>3. Head(msgQue) = msgQue[1] /\ Len(msgQue) \in Nat \ {0} /\ Len(accepted) \in Nat
      BY <3>1, <3>2, TailFacts
    <3>4. msgQue[1] = accepted[Popped + 1] /\ Popped < Len(accepted)
      BY <3>2, <3>3 DEF DeliveryInv, Popped
    <3> QED BY <3>1, <3>2, <3>3, <3>4 DEF Channel!Deliver
  <2>3. CASE HandleFront
    BY <2>2, <2>3 DEF HandleFront, InCallback, Dispatch, DropUnknown, CallbackReturns
  <2>4. CASE Drain
    BY <2>2, <2>4 DEF Drain, InCallback, Dispatch, DropUnknown, CallbackReturns
  <2>5. CASE \/ \E p \in Posters : PostNotify(p)
             \/ InitMgr \/ TakeLock \/ TestQueue \/ Wait \/ TestStop \/ SpuriousWakeup
             \/ Destructor \/ UNCHANGED vars
    BY <2>5 DEF PostNotify, InitMgr, TakeLock, TestQueue, Wait, TestStop,
                SpuriousWakeup, WorkerGoes, Destructor, SetStop, NotifyStop, Join, vars
  <2> QED BY <2>1, <2>3, <2>4, <2>5 DEF Next, WorkerThread
<1> QED BY <1>1, <1>2, AlwaysIInv, PTL DEF Spec, Channel!SafeSpec
-----------------------------------------------------------------------------
(* What JoinReturns needs of safety: while ~LogicSyc joins the worker, the *)
(* worker blocks in its wait, or is about to, only when the notify fell    *)
(* between its test of _b_stop and the wait.                               *)
JoinHangsOnlyIfMissed == dpc = "join" /\ wpc \in {"block", "waiting"} => missed

(* ~LogicSyc waits in vain for its thread only in that case.               *)
THEOREM JoinedWorkerIsAwake == Spec => []JoinHangsOnlyIfMissed
<1>1. Init => JoinHangsOnlyIfMissed
  BY DEF Init, JoinHangsOnlyIfMissed
<1>2. IInv /\ JoinHangsOnlyIfMissed /\ [Next]_vars => JoinHangsOnlyIfMissed'
  <2> SUFFICES ASSUME IInv, JoinHangsOnlyIfMissed, [Next]_vars
               PROVE  JoinHangsOnlyIfMissed'
    OBVIOUS
  <2>1. bStop <=> dpc # "idle"
    BY DEF IInv, QueueInv, StopInv
  <2> USE DEF JoinHangsOnlyIfMissed, posterVars, destructorVars
  <2>2. ASSUME NEW p \in Posters, PostPush(p) \/ PostNotify(p)
        PROVE  JoinHangsOnlyIfMissed'
    BY <2>2 DEF PostPush, PostNotify, NotifyOne
  <2>3. CASE InitMgr \/ TakeLock \/ TestStop \/ SpuriousWakeup
    BY <2>3 DEF InitMgr, TakeLock, TestStop, SpuriousWakeup, WorkerGoes
  <2>4. CASE TestQueue
    BY <2>1, <2>4 DEF TestQueue, WorkerGoes
  <2>5. CASE Wait
    BY <2>5 DEF Wait
  <2>6. CASE HandleFront \/ Drain
    BY <2>6 DEF HandleFront, Drain, Dispatch, DropUnknown, CallbackReturns
  <2>7. CASE SetStop \/ Join
    BY <2>7 DEF SetStop, Join
  <2>8. CASE NotifyStop
    BY <2>8 DEF NotifyStop, NotifyOne
  <2>9. CASE UNCHANGED vars
    BY <2>9 DEF vars
  <2> QED BY <2>2, <2>3, <2>4, <2>5, <2>6, <2>7, <2>8, <2>9
             DEF Next, WorkerThread, Destructor
<1> QED BY <1>1, <1>2, AlwaysIInv, PTL DEF Spec
=============================================================================
