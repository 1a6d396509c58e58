-------------------------- MODULE SessionSendProofs --------------------------
(***************************************************************************)
(* Theorems about SessionSend for any number of sending threads, messages  *)
(* and partial writes: IInv is inductive, and the properties follow.       *)
(***************************************************************************)
EXTENDS SessionSend, SequenceTheorems, TLAPS

(* The queue next to the history of what was pushed: always its end.       *)

(* Element i of the queue is element base + i of the history.              *)
EndOf(que, history, base) ==
  /\ base = Len(history) - Len(que)
  /\ base \in Nat
  /\ \A i \in 1..Len(que) : que[i] = history[base + i]

(* What Tail and Head are in terms of elements.                            *)
LEMMA TailFacts ==
  ASSUME NEW S, NEW s \in Seq(S), s # <<>>
  PROVE  /\ Tail(s) \in Seq(S)
         /\ Len(Tail(s)) = Len(s) - 1
         /\ Len(s) \in Nat \ {0}
         /\ \A i \in 1..(Len(s) - 1) : Tail(s)[i] = s[i + 1]
         /\ Head(s) = s[1] /\ Head(s) \in S
  BY HeadTailProperties, EmptySeq

(* Pushing an element keeps the queue the end of the history.              *)
LEMMA PushFacts ==
  ASSUME NEW S, NEW que \in Seq(S), NEW history \in Seq(S), NEW base,
         EndOf(que, history, base), NEW e \in S
  PROVE  /\ Append(que, e) \in Seq(S) /\ Append(que, e) # <<>>
         /\ Len(Append(que, e)) = Len(que) + 1
         /\ \A i \in 1..Len(que) : Append(que, e)[i] = que[i]
         /\ Append(history, e) \in Seq(S)
         /\ Len(Append(history, e)) = Len(history) + 1
         /\ \A i \in 1..Len(history) : Append(history, e)[i] = history[i]
         /\ EndOf(Append(que, e), Append(history, e), base)
<1> DEFINE q == Append(que, e)
           h == Append(history, e)
<1>1. /\ q \in Seq(S) /\ q # <<>> /\ Len(q) = Len(que) + 1 /\ q[Len(que) + 1] = e
      /\ \A i \in 1..Len(que) : q[i] = que[i]
  OBVIOUS
<1>2. /\ h \in Seq(S) /\ Len(h) = Len(history) + 1 /\ h[Len(history) + 1] = e
      /\ \A i \in 1..Len(history) : h[i] = history[i]
  OBVIOUS
<1>3. Len(que) \in Nat /\ Len(history) \in Nat
  OBVIOUS
<1> HIDE DEF q, h
<1>4. base = Len(h) - Len(q) /\ base \in Nat
  BY <1>1, <1>2, <1>3 DEF EndOf
<1>5. \A i \in 1..Len(q) : q[i] = h[base + i]
  <2> SUFFICES ASSUME NEW i \in 1..(Len(que) + 1) PROVE q[i] = h[base + i]
    BY <1>1
  <2>1. CASE i = Len(que) + 1
    BY <2>1, <1>1, <1>2, <1>3 DEF EndOf
  <2>2. CASE i \in 1..Len(que)
    BY <2>2, <1>1, <1>2, <1>3 DEF EndOf
  <2> QED BY <2>1, <2>2, <1>3
<1>6. EndOf(q, h, base)
  BY <1>4, <1>5 DEF EndOf
<1> QED BY <1>1, <1>2, <1>6 DEF q, h

(* Popping the front moves the base on by one.                             *)
LEMMA PopFacts ==
  ASSUME NEW S, NEW que \in Seq(S), NEW history \in Seq(S), NEW base,
         EndOf(que, history, base), que # <<>>
  PROVE  /\ Tail(que) \in Seq(S)
         /\ Len(Tail(que)) = Len(que) - 1
         /\ que[1] = history[base + 1] /\ que[1] \in S /\ Head(que) = que[1]
         /\ base + 1 \in 1..Len(history)
         /\ EndOf(Tail(que), history, base + 1)
<1> DEFINE q == Tail(que)
<1>1. /\ q \in Seq(S) /\ Len(q) = Len(que) - 1 /\ Head(que) = que[1] /\ que[1] \in S
      /\ \A i \in 1..(Len(que) - 1) : q[i] = que[i + 1]
      /\ Len(que) \in Nat \ {0} /\ Len(history) \in Nat
  BY TailFacts
<1> HIDE DEF q
<1>2. base + 1 = Len(history) - Len(q) /\ base \in Nat
  BY <1>1 DEF EndOf
<1>3. \A i \in 1..Len(q) : q[i] = history[(base + 1) + i]
  <2> TAKE i \in 1..Len(q)
  <2>1. i + 1 \in 1..Len(que) /\ base + (i + 1) = (base + 1) + i
    BY <1>1, <1>2
  <2> QED BY <2>1, <1>1 DEF EndOf
<1>4. EndOf(q, history, base + 1)
  BY <1>2, <1>3 DEF EndOf
<1>5. que[1] = history[base + 1] /\ base + 1 \in 1..Len(history)
  BY <1>1, <1>2 DEF EndOf
<1> QED BY <1>1, <1>4, <1>5 DEF q

-----------------------------------------------------------------------------


IInv == TypeOK /\ SendInv

(* The parts of a message, one more at a time.                             *)
LEMMA PartsFacts ==
  ASSUME NEW m \in Messages, NEW n \in Nat, n < Parts
  PROVE  /\ PartsOf(m, 0) = <<>>
         /\ PartsOf(m, n) \in Seq([msg : Messages, part : 1..Parts])
         /\ Append(PartsOf(m, n), [msg |-> m, part |-> n + 1]) = PartsOf(m, n + 1)
         /\ Len(PartsOf(m, n + 1)) = n + 1
         /\ Frame(m) = PartsOf(m, Parts)
<1> DEFINE P == [msg : Messages, part : 1..Parts]
<1>1. PartsOf(m, 0) = <<>>
  BY DEF PartsOf
<1>2. ASSUME NEW k \in 0..Parts
      PROVE  PartsOf(m, k) \in Seq(P) /\ Len(PartsOf(m, k)) = k
  <2>1. PartsOf(m, k) \in [1..k -> P] /\ k \in Nat
    BY <1>2, SendAssumption DEF SendAssumption, PartsOf
  <2>2. PartsOf(m, k) \in Seq(P)
    <3>1. Seq(P) = UNION {[1..j -> P] : j \in Nat}
      BY SeqDef
    <3> QED BY <2>1, <3>1
  <2>3. DOMAIN PartsOf(m, k) = 1..k
    BY DEF PartsOf
  <2>4. Len(PartsOf(m, k)) = k
    BY <2>1, <2>2, <2>3, LenProperties
  <2> QED BY <2>2, <2>4
<1>3. n \in 0..Parts /\ n + 1 \in 0..Parts /\ n + 1 \in 1..Parts
  BY SendAssumption DEF SendAssumption
<1>4. PartsOf(m, n) \in Seq(P) /\ Len(PartsOf(m, n)) = n
  BY <1>2, <1>3
<1>5. PartsOf(m, n + 1) \in Seq(P) /\ Len(PartsOf(m, n + 1)) = n + 1
  BY <1>2, <1>3
<1>6. Append(PartsOf(m, n), [msg |-> m, part |-> n + 1]) = PartsOf(m, n + 1)
  <2> DEFINE e == [msg |-> m, part |-> n + 1]
             a == Append(PartsOf(m, n), e)
  <2>1. e \in P
    BY <1>3
  <2>2. /\ a \in Seq(P) /\ Len(a) = n + 1 /\ a[n + 1] = e
        /\ \A i \in 1..n : a[i] = PartsOf(m, n)[i]
    BY <1>4, <2>1
  <2>3. \A i \in 1..(n + 1) : a[i] = PartsOf(m, n + 1)[i]
    BY <2>2 DEF PartsOf
  <2> HIDE DEF a
  <2>4. a = PartsOf(m, n + 1)
    BY <2>2, <2>3, <1>5, SeqEqual
  <2> QED BY <2>4 DEF a
<1>7. Frame(m) = PartsOf(m, Parts)
  BY DEF Frame, PartsOf
<1> QED BY <1>1, <1>4, <1>5, <1>6, <1>7

-----------------------------------------------------------------------------
(* Nothing is queued, written or received at the start.                    *)
LEMMA InitIInv == Init => IInv
<1> SUFFICES ASSUME Init PROVE IInv
  OBVIOUS
<1> USE DEF Init
<1>1. TypeOK
  <2>1. /\ <<>> \in Seq(Messages) /\ <<>> \in Seq(Messages \cup {Garbled})
        /\ <<>> \in Seq([msg : Messages, part : 1..Parts])
    BY EmptySeq
  <2>2. /\ pc \in [Senders -> {"idle", "push"}]
        /\ queSize \in [Senders -> Nat] /\ sent \in [Senders -> 0..MaxSends]
    BY SendAssumption DEF SendAssumption
  <2> QED BY <2>1, <2>2 DEF TypeOK
<1>2. LockInv
  BY SendAssumption DEF SendAssumption, LockInv
<1>3. WriteInv /\ PartialInv
  BY DEF WriteInv, OneWriteAtATime, PartialInv
<1>4. DeliveryInv
  BY DEF DeliveryInv, Popped, FrontDelivered
<1> QED BY <1>1, <1>2, <1>3, <1>4 DEF IInv, SendInv

(* Steps that concern the socket, the flags and the registration only.     *)
LEMMA QuietIInv ==
  ASSUME IInv,
         \/ PeerDown \/ ReadFailed \/ ReadRejected \/ ReadThrows
         \/ SetCloseFlag \/ ClearSession \/ UNCHANGED vars
  PROVE  IInv'
<1>1. TypeOK /\ LockInv /\ WriteInv /\ PartialInv /\ DeliveryInv
  BY DEF IInv, SendInv
<1>2. /\ UNCHANGED <<sendQue, accepted, sendLock, pc, queSize, sent, writes,
                     completed, partial, received>>
      /\ ioPc = "pop" <=> ioPc' = "pop"
      /\ ioPc' \in {"idle", "pop", "flag", "clear"}
      /\ socketOpen' \in BOOLEAN /\ peerUp' \in BOOLEAN /\ reading' \in BOOLEAN
      /\ bClose' \in BOOLEAN /\ registered' \in BOOLEAN
  BY <1>1 DEF PeerDown, ReadFailed, ReadRejected, ReadThrows, SetCloseFlag,
              ClearSession, CloseSocket, TypeOK, vars, sendVars, queueVars,
              closeVars, clientVars
<1>3. TypeOK'
  BY <1>1, <1>2 DEF TypeOK
<1>4. FrontDelivered' = FrontDelivered /\ Popped' = Popped
  BY <1>2 DEF FrontDelivered, Popped
<1>5. LockInv' /\ WriteInv' /\ PartialInv' /\ DeliveryInv'
  BY <1>1, <1>2, <1>4 DEF LockInv, WriteInv, OneWriteAtATime, PartialInv, DeliveryInv
<1> QED BY <1>3, <1>5 DEF IInv, SendInv

-----------------------------------------------------------------------------
(* CSession::Send                                                          *)

(* Send takes the lock and reads the size of the queue.                    *)
LEMMA SendEnterIInv ==
  ASSUME IInv, NEW t \in Senders, SendEnter(t)
  PROVE  IInv'
<1>1. TypeOK /\ LockInv /\ WriteInv /\ PartialInv /\ DeliveryInv
  BY DEF IInv, SendInv
<1>2. UNCHANGED <<sendQue, accepted, writes, completed, ioPc, socketOpen, bClose,
                  registered, peerUp, reading, partial, received>>
  BY DEF SendEnter, queueVars, closeVars, clientVars
<1>3. TypeOK'
  <2>1. /\ pc' \in [Senders -> {"idle", "push"}] /\ queSize' \in [Senders -> Nat]
        /\ sendLock' \in Senders \cup {IO, NoThread}
    BY <1>1 DEF SendEnter, TypeOK
  <2>2. sent' \in [Senders -> 0..MaxSends]
    BY <1>1, SendAssumption DEF SendAssumption, SendEnter, TypeOK
  <2> QED BY <1>1, <1>2, <2>1, <2>2 DEF TypeOK
<1>4. LockInv'
  BY <1>1, <1>2, SendAssumption DEF SendAssumption, LockInv, SendEnter, TypeOK
<1>5. FrontDelivered' = FrontDelivered /\ Popped' = Popped
  BY <1>2 DEF FrontDelivered, Popped
<1>6. WriteInv' /\ PartialInv' /\ DeliveryInv'
  BY <1>1, <1>2, <1>5 DEF WriteInv, OneWriteAtATime, PartialInv, DeliveryInv
<1> QED BY <1>3, <1>4, <1>6 DEF IInv, SendInv

(* Send pushes, and writes when the queue was empty.                       *)
LEMMA SendPushIInv ==
  ASSUME IInv, NEW t \in Senders, SendPush(t)
  PROVE  IInv'
<1> DEFINE m == <<t, sent[t]>>
<1>1. TypeOK /\ LockInv /\ WriteInv /\ PartialInv /\ DeliveryInv
  BY DEF IInv, SendInv
<1>2. UNCHANGED <<queSize, sent, completed, ioPc, socketOpen, bClose,
                  registered, peerUp, reading, partial, received>>
  BY DEF SendPush, closeVars, clientVars
<1>3. /\ sendLock = t /\ queSize[t] = Len(sendQue) /\ sent[t] \in 1..MaxSends
      /\ ioPc # "pop"
  BY <1>1, SendAssumption DEF SendAssumption, SendPush, LockInv, TypeOK
<1>4. m \in Messages
  BY <1>3 DEF Messages
<1>5. /\ sendQue \in Seq(Messages) /\ accepted \in Seq(Messages)
      /\ EndOf(sendQue, accepted, Popped)
  BY <1>1 DEF TypeOK, DeliveryInv, Popped, EndOf
<1>6. /\ sendQue' \in Seq(Messages) /\ sendQue' # <<>>
      /\ Len(sendQue') = Len(sendQue) + 1
      /\ \A i \in 1..Len(sendQue) : sendQue'[i] = sendQue[i]
      /\ accepted' \in Seq(Messages) /\ Len(accepted') = Len(accepted) + 1
      /\ \A i \in 1..Len(accepted) : accepted'[i] = accepted[i]
      /\ EndOf(sendQue', accepted', Popped)
  BY <1>4, <1>5, PushFacts DEF SendPush
<1>7. /\ Head(sendQue') = sendQue'[1] /\ sendQue'[1] \in Messages
      /\ Len(sendQue) \in Nat /\ Len(accepted) \in Nat /\ Len(received) \in Nat
  BY <1>1, <1>5, <1>6, TailFacts DEF TypeOK
<1>8. FrontDelivered' = FrontDelivered /\ Popped' = Popped
  BY <1>2, <1>6, <1>7 DEF FrontDelivered, Popped
<1>9. LockInv'
  BY <1>1, <1>2, <1>3, SendAssumption
     DEF SendAssumption, LockInv, SendPush, TypeOK
<1>10. DeliveryInv'
  <2>1. Len(received) <= Len(accepted)
    <3>1. FrontDelivered => sendQue # <<>>
      BY <1>1, <1>3 DEF WriteInv, FrontDelivered
    <3>2. FrontDelivered => Len(sendQue) >= 1
      BY <3>1, <1>5, <1>7, EmptySeq
    <3> QED BY <3>2, <1>1, <1>7 DEF DeliveryInv, Popped
  <2>2. \A i \in 1..Len(received') : received'[i] = accepted'[i]
    BY <2>1, <1>1, <1>2, <1>6, <1>7 DEF DeliveryInv
  <2>3. Popped' \in Nat /\ \A i \in 1..Len(sendQue') : sendQue'[i] = accepted'[Popped' + i]
    BY <1>6, <1>8 DEF EndOf
  <2> QED BY <2>2, <2>3, <1>1, <1>2, <1>8 DEF DeliveryInv
<1>11. CASE queSize[t] > 0
  <2>1. writes' = writes
    BY <1>11, <1>1, <1>3, <1>7 DEF SendPush
  <2>2. TypeOK'
    BY <2>1, <1>1, <1>2, <1>6 DEF TypeOK, SendPush
  <2>3. sendQue'[1] = sendQue[1] /\ sendQue # <<>>
    BY <1>11, <1>3, <1>5, <1>6, <1>7, EmptySeq
  <2>4. WriteInv'
    BY <2>1, <2>3, <1>1, <1>2, <1>6 DEF WriteInv, OneWriteAtATime
  <2>5. PartialInv'
    BY <2>1, <2>3, <1>1, <1>2, <1>6, <1>8 DEF PartialInv
  <2> QED BY <2>2, <2>4, <2>5, <1>9, <1>10 DEF IInv, SendInv
<1>12. CASE queSize[t] = 0
  <2>1. sendQue = <<>>
    BY <1>12, <1>3, <1>5, EmptySeq
  <2>2. writes = {} /\ completed = {} /\ partial = <<>>
    BY <2>1, <1>1 DEF WriteInv, PartialInv
  <2>3. writes' = {[msg |-> sendQue'[1], done |-> 0]}
    BY <2>2, <1>12, <1>7 DEF SendPush, StartWrite
  <2>4. TypeOK'
    <3>1. writes' \subseteq Ops
      BY <2>3, <1>7, SendAssumption DEF SendAssumption, Ops
    <3> QED BY <3>1, <1>1, <1>2, <1>6 DEF TypeOK, SendPush
  <2>5. WriteInv'
    BY <2>2, <2>3, <1>2, <1>3, <1>6 DEF WriteInv, OneWriteAtATime
  <2>6. PartialInv'
    <3>1. PartsOf(sendQue'[1], 0) = <<>>
      BY DEF PartsOf
    <3> QED BY <2>2, <2>3, <3>1, <1>2 DEF PartialInv
  <2> QED BY <2>4, <2>5, <2>6, <1>9, <1>10 DEF IInv, SendInv
<1> QED BY <1>3, <1>7, <1>11, <1>12

-----------------------------------------------------------------------------
(* The network                                                             *)

(* While a frame is being written there is one operation, on the front,    *)
(* and the client holds the parts before it.                               *)
LEMMA WritingFacts ==
  ASSUME IInv, NEW w \in writes
  PROVE  /\ writes = {w} /\ completed = {} /\ ioPc # "pop"
         /\ w \in Ops /\ w.msg \in Messages /\ w.done \in 0..(Parts - 1)
         /\ sendQue # <<>> /\ w.msg = sendQue[1]
         /\ Len(received) = Popped /\ w.msg = accepted[Popped + 1]
         /\ Append(partial, [msg |-> w.msg, part |-> w.done + 1])
              = PartsOf(w.msg, w.done + 1)
         /\ Len(PartsOf(w.msg, w.done + 1)) = w.done + 1
         /\ Popped + 1 \in 1..Len(accepted)
<1>1. TypeOK /\ WriteInv /\ PartialInv /\ DeliveryInv
  BY DEF IInv, SendInv
<1>2. /\ writes = {w} /\ completed = {} /\ ioPc # "pop"
      /\ sendQue # <<>> /\ w.msg = sendQue[1]
  BY <1>1 DEF WriteInv, OneWriteAtATime
<1>3. w \in Ops /\ w.msg \in Messages /\ w.done \in 0..(Parts - 1)
  BY <1>1 DEF TypeOK, Ops
<1>4. ~FrontDelivered
  BY <1>2 DEF FrontDelivered
<1>5. Len(received) = Popped
  BY <1>1, <1>4 DEF DeliveryInv
<1>6. EndOf(sendQue, accepted, Popped)
  BY <1>1 DEF DeliveryInv, Popped, EndOf
<1>7. w.msg = accepted[Popped + 1] /\ Popped + 1 \in 1..Len(accepted)
  BY <1>1, <1>2, <1>6, PopFacts DEF TypeOK
<1>8. w.done \in Nat /\ w.done < Parts
  BY <1>3, SendAssumption DEF SendAssumption
<1>9. partial = PartsOf(w.msg, w.done)
  BY <1>1 DEF PartialInv
<1> QED BY <1>2, <1>3, <1>5, <1>7, <1>8, <1>9, PartsFacts

(* One more part of the front reaches the client.                          *)
LEMMA WriteSomeIInv ==
  ASSUME IInv, NEW w \in writes, WriteSome(w)
  PROVE  IInv'
<1> DEFINE got == PartsOf(w.msg, w.done + 1)
<1>1. TypeOK /\ LockInv /\ WriteInv /\ PartialInv /\ DeliveryInv
  BY DEF IInv, SendInv
<1>2. /\ writes = {w} /\ completed = {} /\ ioPc # "pop"
      /\ w \in Ops /\ w.msg \in Messages /\ w.done \in 0..(Parts - 1)
      /\ sendQue # <<>> /\ w.msg = sendQue[1]
      /\ Len(received) = Popped /\ w.msg = accepted[Popped + 1]
      /\ Append(partial, [msg |-> w.msg, part |-> w.done + 1]) = got
      /\ Len(got) = w.done + 1
  BY WritingFacts
<1>3. UNCHANGED <<sendQue, accepted, sendLock, pc, queSize, sent, ioPc, socketOpen,
                  bClose, registered, peerUp, reading>>
  BY DEF WriteSome, sendVars, queueVars, closeVars
<1>4. LockInv' /\ Popped' = Popped
  BY <1>1, <1>3 DEF LockInv, Popped
<1>5. Parts \in Nat \ {0} /\ w.done \in Nat
  BY <1>2, SendAssumption DEF SendAssumption
<1>6. CASE w.done + 1 < Parts
  <2>1. /\ partial' = got /\ received' = received /\ completed' = {}
        /\ writes' = {[w EXCEPT !.done = @ + 1]}
    <3>1. partial' = got /\ received' = received
      <4>1. Len(got) < Parts /\ Len(got) # Parts
        BY <1>2, <1>5, <1>6
      <4> HIDE DEF got
      <4> QED BY <4>1, <1>2 DEF WriteSome
    <3>2. /\ writes' = (writes \ {w}) \cup {[w EXCEPT !.done = @ + 1]}
          /\ completed' = completed
      BY <1>5, <1>6 DEF WriteSome
    <3> QED BY <3>1, <3>2, <1>2
  <2>2. [w EXCEPT !.done = @ + 1] = [msg |-> w.msg, done |-> w.done + 1]
    BY <1>2 DEF Ops
  <2>3. TypeOK'
    <3>1. writes' \subseteq Ops
      BY <2>1, <2>2, <1>2, <1>5, <1>6 DEF Ops
    <3>2. partial' \in Seq([msg : Messages, part : 1..Parts])
      <4>1. w.done + 1 \in Nat
        BY <1>5
      <4> QED BY <2>1, <4>1, <1>2, <1>6, PartsFacts
    <3> QED BY <3>1, <3>2, <2>1, <1>1, <1>3 DEF TypeOK
  <2>4. WriteInv' /\ PartialInv'
    BY <2>1, <2>2, <1>2, <1>3 DEF WriteInv, OneWriteAtATime, PartialInv
  <2>5. ~FrontDelivered /\ ~FrontDelivered'
    BY <2>1, <1>2, <1>3 DEF FrontDelivered
  <2>6. DeliveryInv'
    BY <2>1, <2>5, <1>1, <1>3, <1>4 DEF DeliveryInv
  <2> QED BY <2>3, <2>4, <2>6, <1>4 DEF IInv, SendInv
<1>7. CASE w.done + 1 = Parts
  <2>1. got = Frame(w.msg)
    BY <1>7, <1>2 DEF PartsOf, Frame
  <2>2. /\ partial' = <<>> /\ received' = Append(received, w.msg)
        /\ completed' = {[msg |-> w.msg, ok |-> TRUE]} /\ writes' = {}
    BY <2>1, <1>2, <1>5, <1>7 DEF WriteSome
  <2>3. received \in Seq(Messages \cup {Garbled}) /\ w.msg \in Messages \cup {Garbled}
    BY <1>1, <1>2 DEF TypeOK
  <2>4. /\ received' \in Seq(Messages \cup {Garbled})
        /\ Len(received') = Len(received) + 1
        /\ received'[Len(received) + 1] = w.msg
        /\ \A i \in 1..Len(received) : received'[i] = received[i]
    BY <2>2, <2>3
  <2>5. TypeOK'
    <3>1. completed' \subseteq Completions
      BY <2>2, <1>2 DEF Completions
    <3>2. partial' \in Seq([msg : Messages, part : 1..Parts])
      BY <2>2, EmptySeq
    <3> QED BY <3>1, <3>2, <2>2, <2>4, <1>1, <1>3 DEF TypeOK
  <2>6. WriteInv' /\ PartialInv'
    <3>1. /\ \A c \in completed' : c = [msg |-> w.msg, ok |-> TRUE]
          /\ ioPc' # "pop" /\ sendQue' # <<>> /\ sendQue'[1] = w.msg
      BY <2>2, <1>2, <1>3
    <3>2. WriteInv'
      BY <2>2, <3>1 DEF WriteInv, OneWriteAtATime
    <3> QED BY <2>2, <3>2 DEF PartialInv
  <2>7. FrontDelivered'
    BY <2>2 DEF FrontDelivered
  <2>8. DeliveryInv'
    <3>1. Popped \in Nat /\ Len(received') = Popped + 1
      BY <2>4, <1>1, <1>2 DEF DeliveryInv
    <3>2. \A i \in 1..Len(received') : received'[i] = accepted'[i]
      <4> SUFFICES ASSUME NEW i \in 1..(Popped + 1) PROVE received'[i] = accepted[i]
        BY <3>1, <1>3
      <4>1. CASE i = Popped + 1
        BY <4>1, <2>4, <1>2
      <4>2. CASE i \in 1..Popped
        BY <4>2, <2>4, <1>1, <1>2 DEF DeliveryInv
      <4> QED BY <4>1, <4>2, <3>1
    <3> QED BY <3>1, <3>2, <2>7, <1>1, <1>3, <1>4 DEF DeliveryInv
  <2> QED BY <2>5, <2>6, <2>8, <1>4 DEF IInv, SendInv
<1> QED BY <1>2, <1>5, <1>6, <1>7

(* The operation ends with an error: the front stays, and so does what the *)
(* client has of it.                                                       *)
LEMMA WriteFailsIInv ==
  ASSUME IInv, NEW w \in writes, WriteFails(w)
  PROVE  IInv'
<1>1. TypeOK /\ LockInv /\ WriteInv /\ PartialInv /\ DeliveryInv
  BY DEF IInv, SendInv
<1>2. /\ writes = {w} /\ completed = {} /\ ioPc # "pop"
      /\ w.msg \in Messages /\ sendQue # <<>> /\ w.msg = sendQue[1]
  BY WritingFacts
<1>3. UNCHANGED <<sendQue, accepted, sendLock, pc, queSize, sent, ioPc, socketOpen,
                  bClose, registered, peerUp, reading, partial, received>>
  BY DEF WriteFails, sendVars, queueVars, closeVars, clientVars
<1>4. writes' = {} /\ completed' = {[msg |-> w.msg, ok |-> FALSE]}
  BY <1>2 DEF WriteFails
<1>5. TypeOK'
  <2>1. completed' \subseteq Completions
    BY <1>2, <1>4 DEF Completions
  <2> QED BY <2>1, <1>1, <1>3, <1>4 DEF TypeOK
<1>6. LockInv' /\ Popped' = Popped /\ ~FrontDelivered /\ ~FrontDelivered'
  BY <1>1, <1>2, <1>3, <1>4 DEF LockInv, Popped, FrontDelivered
<1>7. WriteInv'
  BY <1>2, <1>3, <1>4 DEF WriteInv, OneWriteAtATime
<1>8. PartialInv'
  BY <1>2, <1>3, <1>4, <1>6 DEF PartialInv
<1>9. DeliveryInv'
  BY <1>1, <1>3, <1>6 DEF DeliveryInv
<1> QED BY <1>5, <1>6, <1>7, <1>8, <1>9 DEF IInv, SendInv

-----------------------------------------------------------------------------
(* CSession::HandleWrite                                                   *)

(* A completed write is the only operation, and it was of the front.       *)
LEMMA CompletedFacts ==
  ASSUME IInv, NEW c \in completed
  PROVE  /\ completed = {c} /\ writes = {} /\ sendQue # <<>> /\ ioPc # "pop"
         /\ FrontDelivered <=> c.ok
  BY DEF IInv, SendInv, WriteInv, OneWriteAtATime, FrontDelivered

(* HandleWrite takes the lock after a write without error.                 *)
LEMMA HandleWriteEnterIInv ==
  ASSUME IInv, HandleWriteEnter
  PROVE  IInv'
<1>1. TypeOK /\ LockInv /\ WriteInv /\ PartialInv /\ DeliveryInv
  BY DEF IInv, SendInv
<1>2. PICK c \in completed : c.ok /\ completed' = completed \ {c}
  BY DEF HandleWriteEnter
<1>3. /\ completed = {c} /\ writes = {} /\ sendQue # <<>>
      /\ FrontDelivered /\ completed' = {}
  BY <1>2, CompletedFacts
<1>4. UNCHANGED <<sendQue, accepted, pc, queSize, sent, writes, socketOpen,
                  bClose, registered, peerUp, reading, partial, received>>
  BY DEF HandleWriteEnter, sendVars, queueVars, closeVars, clientVars
<1>5. ioPc' = "pop" /\ sendLock = NoThread /\ sendLock' = IO
  BY DEF HandleWriteEnter
<1>6. TypeOK'
  BY <1>1, <1>3, <1>4, <1>5 DEF TypeOK
<1>7. LockInv'
  BY <1>1, <1>4, <1>5, SendAssumption DEF SendAssumption, LockInv
<1>8. FrontDelivered' /\ Popped' = Popped
  BY <1>4, <1>5 DEF FrontDelivered, Popped
<1>9. WriteInv' /\ PartialInv' /\ DeliveryInv'
  BY <1>1, <1>3, <1>4, <1>5, <1>8
     DEF WriteInv, OneWriteAtATime, PartialInv, DeliveryInv
<1> QED BY <1>6, <1>7, <1>9 DEF IInv, SendInv

(* HandleWrite closes the socket after a failed write.                     *)
LEMMA HandleWriteErrorIInv ==
  ASSUME IInv, HandleWriteError
  PROVE  IInv'
<1>1. TypeOK /\ LockInv /\ WriteInv /\ PartialInv /\ DeliveryInv
  BY DEF IInv, SendInv
<1>2. PICK c \in completed : ~c.ok /\ completed' = completed \ {c}
  BY DEF HandleWriteError
<1>3. /\ completed = {c} /\ writes = {} /\ sendQue # <<>>
      /\ ~FrontDelivered /\ completed' = {}
  BY <1>2, CompletedFacts
<1>4. UNCHANGED <<sendQue, accepted, sendLock, pc, queSize, sent, writes, bClose,
                  registered, peerUp, reading, partial, received>>
  BY DEF HandleWriteError, CloseSocket, sendVars, queueVars, clientVars
<1>5. ioPc = "idle" /\ ioPc' \in {"idle", "flag"} /\ socketOpen' = FALSE
  BY DEF HandleWriteError, CloseSocket
<1>6. TypeOK'
  BY <1>1, <1>3, <1>4, <1>5 DEF TypeOK
<1>7. LockInv'
  BY <1>1, <1>4, <1>5 DEF LockInv
<1>8. ~FrontDelivered' /\ Popped' = Popped
  BY <1>3, <1>4, <1>5 DEF FrontDelivered, Popped
<1>9. WriteInv' /\ PartialInv' /\ DeliveryInv'
  BY <1>1, <1>3, <1>4, <1>5, <1>8
     DEF WriteInv, OneWriteAtATime, PartialInv, DeliveryInv
<1> QED BY <1>6, <1>7, <1>9 DEF IInv, SendInv

(* HandleWrite pops the front and writes the next one.                     *)
LEMMA HandleWritePopIInv ==
  ASSUME IInv, HandleWritePop
  PROVE  IInv'
<1>1. TypeOK /\ LockInv /\ WriteInv /\ PartialInv /\ DeliveryInv
  BY DEF IInv, SendInv
<1>2. /\ ioPc = "pop" /\ writes = {} /\ completed = {} /\ sendQue # <<>>
      /\ sendLock = IO /\ FrontDelivered /\ partial = <<>>
  BY <1>1 DEF HandleWritePop, WriteInv, LockInv, FrontDelivered, PartialInv
<1>3. UNCHANGED <<accepted, pc, queSize, sent, completed, socketOpen, bClose,
                  registered, peerUp, reading, partial, received>>
  BY DEF HandleWritePop, sendVars, closeVars, clientVars
<1>4. ioPc' = "idle" /\ sendLock' = NoThread
  BY DEF HandleWritePop
<1>5. /\ sendQue \in Seq(Messages) /\ accepted \in Seq(Messages)
      /\ EndOf(sendQue, accepted, Popped) /\ Popped \in Nat
  BY <1>1 DEF TypeOK, DeliveryInv, Popped, EndOf
<1>6. /\ sendQue' \in Seq(Messages) /\ Len(sendQue') = Len(sendQue) - 1
      /\ EndOf(sendQue', accepted', Popped + 1)
  BY <1>2, <1>3, <1>5, PopFacts DEF HandleWritePop
<1>7. Popped' = Popped + 1
  BY <1>6 DEF EndOf, Popped
<1>8. ~FrontDelivered'
  BY <1>2, <1>3, <1>4 DEF FrontDelivered
<1>9. LockInv'
  BY <1>1, <1>2, <1>3, <1>4, SendAssumption DEF SendAssumption, LockInv
<1>10. DeliveryInv'
  <2>1. Len(received') = Popped'
    BY <1>1, <1>2, <1>3, <1>7 DEF DeliveryInv
  <2>2. Popped' \in Nat
    BY <1>5, <1>7
  <2>3. \A i \in 1..Len(sendQue') : sendQue'[i] = accepted'[Popped' + i]
    BY <1>6, <1>7 DEF EndOf
  <2>4. \A i \in 1..Len(received') : received'[i] = accepted'[i]
    BY <1>1, <1>3 DEF DeliveryInv
  <2>5. Len(received') = Popped' + (IF FrontDelivered' THEN 1 ELSE 0)
    <3>1. (IF FrontDelivered' THEN 1 ELSE 0) = 0
      BY <1>8, Zenon
    <3>2. \A n \in Nat : n + 0 = n
      OBVIOUS
    <3> QED BY <2>1, <2>2, <3>1, <3>2, Zenon
  <2> QED BY <2>2, <2>3, <2>4, <2>5 DEF DeliveryInv
<1>11. CASE sendQue' = <<>>
  <2>1. writes' = {}
    BY <1>11, <1>2 DEF HandleWritePop
  <2>2. TypeOK'
    BY <2>1, <1>1, <1>3, <1>4, <1>6, <1>2 DEF TypeOK
  <2>3. WriteInv' /\ PartialInv'
    BY <2>1, <1>2, <1>3, <1>4 DEF WriteInv, OneWriteAtATime, PartialInv
  <2> QED BY <2>2, <2>3, <1>9, <1>10 DEF IInv, SendInv
<1>12. CASE sendQue' # <<>>
  <2>1. Head(sendQue') = sendQue'[1] /\ sendQue'[1] \in Messages
    BY <1>12, <1>6, TailFacts
  <2>2. writes' = {[msg |-> sendQue'[1], done |-> 0]}
    BY <2>1, <1>12, <1>2 DEF HandleWritePop, StartWrite
  <2>3. TypeOK'
    <3>1. writes' \subseteq Ops
      BY <2>1, <2>2, SendAssumption DEF SendAssumption, Ops
    <3> QED BY <3>1, <1>1, <1>2, <1>3, <1>4, <1>6 DEF TypeOK
  <2>4. WriteInv'
    BY <2>2, <1>2, <1>3, <1>4, <1>12 DEF WriteInv, OneWriteAtATime
  <2>5. PartialInv'
    <3>1. PartsOf(sendQue'[1], 0) = <<>>
      BY DEF PartsOf
    <3> QED BY <2>2, <3>1, <1>2, <1>3 DEF PartialInv
  <2> QED BY <2>3, <2>4, <2>5, <1>9, <1>10 DEF IInv, SendInv
<1> QED BY <1>11, <1>12

-----------------------------------------------------------------------------
(* Every step preserves IInv.                                              *)
LEMMA NextIInv == IInv /\ [Next]_vars => IInv'
<1> SUFFICES ASSUME IInv, [Next]_vars PROVE IInv'
  OBVIOUS
<1>1. ASSUME NEW t \in Senders, SendEnter(t) PROVE IInv'
  BY <1>1, SendEnterIInv
<1>2. ASSUME NEW t \in Senders, SendPush(t) PROVE IInv'
  BY <1>2, SendPushIInv
<1>3. ASSUME NEW w \in writes, WriteSome(w) PROVE IInv'
  BY <1>3, WriteSomeIInv
<1>4. ASSUME NEW w \in writes, WriteFails(w) PROVE IInv'
  BY <1>4, WriteFailsIInv
<1>5. CASE HandleWriteEnter
  BY <1>5, HandleWriteEnterIInv
<1>6. CASE HandleWritePop
  BY <1>6, HandleWritePopIInv
<1>7. CASE HandleWriteError
  BY <1>7, HandleWriteErrorIInv
<1>8. CASE \/ PeerDown \/ ReadFailed \/ ReadRejected \/ ReadThrows
           \/ SetCloseFlag \/ ClearSession \/ UNCHANGED vars
  BY <1>8, QuietIInv
<1> QED
  BY <1>1, <1>2, <1>3, <1>4, <1>5, <1>6, <1>7, <1>8 DEF Next, IOThread, Network

(* IInv holds of every behaviour.                                          *)
LEMMA AlwaysIInv == Spec => []IInv
<1>1. Init => IInv
  BY InitIInv
<1>2. IInv /\ [Next]_vars => IInv'
  BY NextIInv
<1> QED BY <1>1, <1>2, PTL DEF Spec

-----------------------------------------------------------------------------
(* The variables keep their types: in particular Head and Tail are never   *)
(* taken of an empty _send_que.                                            *)
THEOREM TypeCorrect == Spec => []TypeOK
<1>1. IInv => TypeOK
  BY DEF IInv
<1> QED BY <1>1, AlwaysIInv, PTL

(* However Send, HandleWrite and the closing handlers interleave, there is *)
(* never a second outstanding async_write on the socket.                   *)
THEOREM SingleWrite == Spec => []OneWriteAtATime
<1>1. IInv => OneWriteAtATime
  BY DEF IInv, SendInv, WriteInv
<1> QED BY <1>1, AlwaysIInv, PTL

(* The SendNode whose buffer is being written is the front of _send_que:   *)
(* nobody pops it before the write has ended.                              *)
THEOREM BufferIsHeld == Spec => []WrittenBufferIsHeld
<1>1. IInv => WrittenBufferIsHeld
  <2> SUFFICES ASSUME IInv, NEW w \in writes
               PROVE  sendQue # <<>> /\ w.msg = Head(sendQue)
    BY DEF WrittenBufferIsHeld
  <2>1. sendQue # <<>> /\ w.msg = sendQue[1] /\ sendQue \in Seq(Messages)
    BY WritingFacts DEF IInv, TypeOK
  <2> QED BY <2>1, TailFacts
<1> QED BY <1>1, AlwaysIInv, PTL

(* What the client has received is a part of what was pushed.              *)
LEMMA ReceivedFacts ==
  ASSUME IInv
  PROVE  /\ Len(received) <= Len(accepted)
         /\ \A i \in 1..Len(received) : received[i] \in Messages
<1>1. TypeOK /\ WriteInv /\ DeliveryInv
  BY DEF IInv, SendInv
<1>2. sendQue \in Seq(Messages) /\ accepted \in Seq(Messages)
  BY <1>1 DEF TypeOK
<1>3. FrontDelivered => Len(sendQue) >= 1
  BY <1>1, <1>2, EmptySeq DEF WriteInv, FrontDelivered
<1>4. Len(received) <= Len(accepted) /\ Len(received) \in Nat
  BY <1>1, <1>2, <1>3 DEF DeliveryInv, Popped
<1>5. \A i \in 1..Len(received) : received[i] \in Messages
  BY <1>1, <1>2, <1>4 DEF DeliveryInv
<1> QED BY <1>4, <1>5

(* The client never decodes a frame mixed from two messages.               *)
THEOREM FramesStayIntact == Spec => []FramesIntact
<1>1. IInv => FramesIntact
  <2> SUFFICES ASSUME IInv, NEW i \in 1..Len(received)
               PROVE  received[i] # Garbled
    BY DEF FramesIntact
  <2>1. received[i] \in Messages
    BY ReceivedFacts
  <2> QED BY <2>1, SendAssumption DEF SendAssumption, Messages
<1> QED BY <1>1, AlwaysIInv, PTL

-----------------------------------------------------------------------------
(* Every step of the session is one of the channel, or changes nothing the *)
(* channel sees.                                                           *)
LEMMA StepIsChannelStep ==
  IInv /\ [Next]_vars => [Channel!Next]_(Channel!vars)
<1> SUFFICES ASSUME IInv, [Next]_vars
             PROVE  [Channel!Next]_(Channel!vars)
  OBVIOUS
<1> USE DEF Channel!vars, Channel!Next
<1>1. ASSUME NEW t \in Senders, SendPush(t) PROVE Channel!Accept
  <2>1. <<t, sent[t]>> \in Messages
    <3>1. sent[t] \in 1..MaxSends
      BY <1>1, SendAssumption
         DEF SendAssumption, IInv, TypeOK, SendInv, LockInv, SendPush
    <3> QED BY <3>1 DEF Messages
  <2> QED BY <1>1, <2>1 DEF SendPush, closeVars, clientVars, Channel!Accept
<1>2. ASSUME NEW w \in writes, WriteSome(w)
      PROVE  Channel!Deliver \/ UNCHANGED Channel!vars
  <2> DEFINE got == PartsOf(w.msg, w.done + 1)
  <2>1. UNCHANGED <<accepted, socketOpen, peerUp>> /\ socketOpen /\ peerUp
    BY <1>2 DEF WriteSome, queueVars, closeVars
  <2>2. /\ Append(partial, [msg |-> w.msg, part |-> w.done + 1]) = got
        /\ Len(got) = w.done + 1 /\ Popped + 1 \in 1..Len(accepted)
        /\ Len(received) = Popped /\ w.msg = accepted[Popped + 1]
    BY WritingFacts
  <2>3. CASE Len(got) < Parts
    <3>1. Len(got) # Parts
      BY <2>2, <2>3, SendAssumption, WritingFacts DEF SendAssumption
    <3> HIDE DEF got
    <3>2. received' = received
      BY <1>2, <2>2, <2>3, <3>1 DEF WriteSome
    <3> QED BY <2>1, <3>2
  <2>4. CASE Len(got) = Parts
    <3>1. got = Frame(w.msg)
      BY <2>2, <2>4 DEF PartsOf, Frame
    <3>2. ~(Len(got) < Parts)
      BY <2>4, SendAssumption DEF SendAssumption
    <3> HIDE DEF got
    <3>3. received' = Append(received, w.msg)
      BY <1>2, <2>2, <3>1, <3>2 DEF WriteSome
    <3>4. Len(received) < Len(accepted)
      BY <2>2 DEF IInv, TypeOK
    <3> QED BY <2>1, <2>2, <3>3, <3>4 DEF Channel!Deliver
  <2>5. Len(got) < Parts \/ Len(got) = Parts
    BY <1>2, <2>2 DEF WriteSome
  <2> QED BY <2>3, <2>4, <2>5
<1>3. ASSUME NEW w \in writes, WriteFails(w) PROVE UNCHANGED Channel!vars
  BY <1>3 DEF WriteFails, queueVars, closeVars, clientVars
<1>4. ASSUME NEW t \in Senders, SendEnter(t) PROVE UNCHANGED Channel!vars
  BY <1>4 DEF SendEnter, queueVars, closeVars, clientVars
<1>5. CASE HandleWriteError \/ ReadFailed \/ PeerDown
  BY <1>5 DEF HandleWriteError, ReadFailed, PeerDown, CloseSocket, queueVars,
              closeVars, clientVars, Channel!Break
<1>6. CASE \/ HandleWriteEnter \/ HandleWritePop \/ ReadRejected \/ ReadThrows
           \/ SetCloseFlag \/ ClearSession \/ UNCHANGED vars
  BY <1>6 DEF HandleWriteEnter, HandleWritePop, ReadRejected, ReadThrows,
              SetCloseFlag, ClearSession, queueVars, closeVars, clientVars, vars
<1> QED
  BY <1>1, <1>2, <1>3, <1>4, <1>5, <1>6 DEF Next, IOThread, Network

(* The session implements the channel: the client receives what Send was   *)
(* given in the order of the pushes, nothing twice and nothing left out,   *)
(* until the connection or the socket is gone.                             *)
THEOREM SendsInOrder == Spec => Channel!SafeSpec
<1>1. Init => Channel!Init
  BY DEF Init, Channel!Init
<1>2. IInv /\ [Next]_vars => [Channel!Next]_(Channel!vars)
  BY StepIsChannelStep
<1> QED BY <1>1, <1>2, AlwaysIInv, PTL DEF Spec, Channel!SafeSpec
-----------------------------------------------------------------------------
(* Close is followed by ClearSession: a session with _b_close set is out   *)
(* of _sessions, or its handler is about to take it out.                   *)
CloseIsFollowed == bClose => ~registered \/ ioPc = "clear"

(* What LostPeerUnregistered needs of safety: a registered session is in   *)
(* one of its two exceptions, or a handler is running, or an operation is  *)
(* outstanding or completed whose handler can still close the session.     *)
CanStillBeClosed ==
  registered => \/ HalfClosed \/ Unwatched
                \/ reading \/ writes # {} \/ completed # {} \/ ioPc # "idle"

(* When its client is gone, a session that CServer still lists has not     *)
(* been forgotten by its io thread, but for the exceptions.                *)
THEOREM LossIsNoticed == Spec => [](CloseIsFollowed /\ CanStillBeClosed)
<1>1. Init => CloseIsFollowed
  BY DEF Init, CloseIsFollowed
<1>2. CloseIsFollowed /\ [Next]_vars => CloseIsFollowed'
  <2> SUFFICES ASSUME CloseIsFollowed, [Next]_vars PROVE CloseIsFollowed'
    OBVIOUS
  <2> USE DEF CloseIsFollowed, closeVars
  <2>1. ASSUME NEW t \in Senders, SendEnter(t) \/ SendPush(t)
        PROVE  CloseIsFollowed'
    BY <2>1 DEF SendEnter, SendPush
  <2>2. ASSUME NEW w \in writes, WriteSome(w) \/ WriteFails(w)
        PROVE  CloseIsFollowed'
    BY <2>2 DEF WriteSome, WriteFails
  <2>3. CASE HandleWriteEnter \/ HandleWritePop \/ ReadRejected \/ ReadThrows
    BY <2>3 DEF HandleWriteEnter, HandleWritePop, ReadRejected, ReadThrows
  <2>4. CASE HandleWriteError \/ ReadFailed
    BY <2>4 DEF HandleWriteError, ReadFailed, CloseSocket
  <2>5. CASE SetCloseFlag \/ ClearSession
    BY <2>5 DEF SetCloseFlag, ClearSession
  <2>6. CASE PeerDown \/ UNCHANGED vars
    BY <2>6 DEF PeerDown, vars
  <2> QED BY <2>1, <2>2, <2>3, <2>4, <2>5, <2>6 DEF Next, IOThread, Network
<1>3. CloseIsFollowed => CanStillBeClosed
  BY DEF CloseIsFollowed, CanStillBeClosed, HalfClosed, Unwatched
<1> QED BY <1>1, <1>2, <1>3, PTL DEF Spec
=============================================================================
