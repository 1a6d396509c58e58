---------------------------- MODULE CServerProofs ----------------------------
(* What CServer promises of its safety, for every number of sessions,      *)
(* io_contexts and requests.                                               *)
EXTENDS CServer, FiniteSetTheorems, SequenceTheorems, WellFoundedInduction, TLAPS

(* The types of what the invariants below speak of; an io_context has its  *)
(* Work as long as it is not stopped, a running handler has a session, and *)
(* HandleAccept has the one it is about.                                   *)
PartsInv ==
  /\ apc \in {"bind", "accept", "start", "insert", "stop", "join", "wait"}
  /\ cur \in Sessions \cup {NoSession}
  /\ ioOf \in [Sessions -> Services \cup {Pool}]
  /\ next \in Services /\ at \in Services
  /\ running \subseteq Services /\ works = running /\ left \subseteq Services
  /\ hpc \in [Services -> {"idle", "post", "flag", "clear"}]
  /\ hs \in [Services -> Sessions \cup {NoSession}]
  /\ \A k \in Services : hpc[k] # "idle" => hs[k] \in Sessions
  /\ apc \in {"start", "insert"} => cur \in Sessions
  /\ sessions \subseteq Sessions

(* A session on its way to HandleAccept's insert is served, or will stay   *)
(* for good, like a registered one.                                        *)
Served(s) == s \in reading \/ InHandler(s) \/ s \in early \cup threw

ServedInv ==
  /\ RegisteredIsServed
  /\ apc = "insert" => Served(cur)

(* Stop has stopped the io_contexts below its place and joined the threads *)
(* below it; a thread that has left run() is in no handler, and its        *)
(* io_context is stopped.                                                  *)
StopInv ==
  /\ apc = "stop" => \A k \in Services : k < at => k \notin running
  /\ apc \in {"join", "wait"} => running = {}
  /\ apc = "join" => \A k \in Services : k < at => k \in left
  /\ apc = "wait" => left = Services
  /\ \A k \in left : k \notin running /\ hpc[k] = "idle"

(* The io_contexts before _nextIOService have one session more.            *)
Given(k) == {s \in Sessions : ioOf[s] = k}

DealInv ==
  \E c \in Nat : \A k \in Services :
    Cardinality(Given(k)) = IF k < next THEN c + 1 ELSE c

IInv == PartsInv /\ ServedInv /\ StopInv /\ DealInv

(* The invariant holds before the server binds its port.                   *)
LEMMA InitIInv == Init => IInv
<1> SUFFICES ASSUME Init PROVE IInv
  OBVIOUS
<1>1. PartsInv
  BY ServerAssumption DEF Init, PartsInv, Services, ServerAssumption
<1>2. ServedInv BY DEF Init, ServedInv, RegisteredIsServed
<1>3. StopInv BY DEF Init, StopInv
<1>4. DealInv
  <2> SUFFICES ASSUME NEW k \in Services
               PROVE  Cardinality(Given(k)) = IF k < next THEN 0 + 1 ELSE 0
    BY DEF DealInv
  <2>1. Given(k) = {}
    BY ServerAssumption DEF Init, Given, Services, ServerAssumption
  <2>2. ~(k < next) BY ServerAssumption DEF Init, Services, ServerAssumption
  <2> QED BY <2>1, <2>2, FS_EmptySet
<1> QED BY <1>1, <1>2, <1>3, <1>4 DEF IInv

-----------------------------------------------------------------------------
(* What a step leaves alone                                                *)

(* The pool's dealing is only disturbed by StartAccept.                    *)
LEMMA DealFrame ==
  ASSUME DealInv, ioOf' = ioOf, next' = next
  PROVE  DealInv'
BY DEF DealInv, Given

(* What is served stays served when main goes on with its business.        *)
LEMMA ServedFrame ==
  ASSUME reading \subseteq reading', UNCHANGED <<hpc, hs, early, threw>>
  PROVE  \A s \in Sessions : Served(s) => Served(s)'
BY DEF Served, InHandler

(* A new session is dealt to the next io_context.                          *)
LEMMA StartAcceptFacts ==
  ASSUME PartsInv, DealInv, StartAccept
  PROVE  /\ cur' \in Sessions \cup {NoSession}
         /\ ioOf' \in [Sessions -> Services \cup {Pool}]
         /\ next' \in Services
         /\ DealInv'
<1>1. CASE Made = Sessions
  BY <1>1, DealFrame DEF StartAccept, PartsInv
<1>2. CASE Made # Sessions
  <2>1. /\ cur' \in Sessions /\ ioOf[cur'] = Pool
        /\ ioOf' = [ioOf EXCEPT ![cur'] = next] /\ next' = NextService(next)
    BY <1>2 DEF StartAccept, Made
  <2>2. Pool \in Nat \ {0} /\ Pool \notin Services /\ next \in Services
    BY ServerAssumption DEF ServerAssumption, Services, PartsInv
  <2>3. next' \in Services /\ ioOf' \in [Sessions -> Services \cup {Pool}]
    BY <2>1, <2>2 DEF NextService, Services, PartsInv
  <2>4. PICK c \in Nat : \A k \in Services :
          Cardinality(Given(k)) = IF k < next THEN c + 1 ELSE c
    BY DEF DealInv
  <2>5. ASSUME NEW k \in Services
        PROVE  Cardinality(Given(k)') = IF k <= next THEN c + 1 ELSE c
    <3>1. CASE k = next
      <4>1. Given(k)' = Given(k) \cup {cur'} /\ cur' \notin Given(k)
        BY <2>1, <2>2, <3>1 DEF Given, PartsInv
      <4>2. IsFiniteSet(Given(k))
        BY ServerAssumption, FS_Subset DEF ServerAssumption, Given
      <4>3. Cardinality(Given(k)') = Cardinality(Given(k)) + 1
        BY <4>1, <4>2, FS_AddElement
      <4> QED BY <2>2, <2>4, <3>1, <4>3 DEF Services
    <3>2. CASE k # next
      <4>1. Given(k)' = Given(k)
        BY <2>1, <2>2, <3>2 DEF Given, PartsInv
      <4> QED BY <2>2, <2>4, <3>2, <4>1 DEF Services
    <3> QED BY <3>1, <3>2
  <2>6. DealInv'
    <3>1. CASE next + 1 = Pool
      <4>1. next' = 0 BY <2>1, <3>1 DEF NextService
      <4>2. /\ c + 1 \in Nat
            /\ \A k \in Services :
                 Cardinality(Given(k)') = IF k < next' THEN c + 1 + 1 ELSE c + 1
        BY <2>2, <2>4, <2>5, <3>1, <4>1 DEF Services
      <4> QED BY <4>2, Zenon DEF DealInv
    <3>2. CASE next + 1 # Pool
      <4>1. next' = next + 1 BY <2>1, <3>2 DEF NextService
      <4>2. \A k \in Services :
              Cardinality(Given(k)') = IF k < next' THEN c + 1 ELSE c
        BY <2>2, <2>4, <2>5, <4>1 DEF Services
      <4> QED BY <4>2, Zenon DEF DealInv
    <3> QED BY <3>1, <3>2
  <2> QED BY <2>1, <2>3, <2>6
<1> QED BY <1>1, <1>2

-----------------------------------------------------------------------------
(* The steps                                                               *)

(* Accepting, starting and registering a session.                          *)
LEMMA AcceptorIInv ==
  ASSUME IInv, Acceptor
  PROVE  IInv'
<1>1. PartsInv /\ ServedInv /\ StopInv /\ DealInv BY DEF IInv
<1> USE DEF stopVars, workerVars, ioVars, handlerVars, historyVars, mainVars, acceptVars
<1>2. /\ UNCHANGED <<at, running, works, left, hpc, hs, early, threw>>
      /\ reading \subseteq reading'
      /\ apc \in {"bind", "accept", "start", "insert"}
      /\ apc' \in {"bind", "accept", "start", "insert"}
  BY DEF Acceptor, Bind, BindFails, Accepted, AcceptFailed, Start, Insert
<1>3. \/ StartAccept
      \/ UNCHANGED <<cur, ioOf, next>>
  BY DEF Acceptor, Bind, BindFails, Accepted, AcceptFailed, Start, Insert
<1>4. /\ cur' \in Sessions \cup {NoSession} /\ next' \in Services
      /\ ioOf' \in [Sessions -> Services \cup {Pool}] /\ DealInv'
  BY <1>1, <1>3, StartAcceptFacts, DealFrame DEF PartsInv
<1>5. PartsInv'
  <2>1. /\ apc' \in {"start", "insert"} => cur' \in Sessions
        /\ sessions' \subseteq Sessions
    BY <1>1
    DEF PartsInv, Acceptor, Bind, BindFails, Accepted, AcceptFailed, Start, Insert
  <2> QED BY <1>1, <1>2, <1>4, <2>1 DEF PartsInv
<1>6. \A s \in Sessions : Served(s) => Served(s)'
  BY <1>2, ServedFrame
<1>7. ServedInv'
  <2>1. CASE Start
    <3>1. cur' = cur /\ sessions' = sessions /\ cur \in reading' BY <2>1 DEF Start
    <3> QED
      BY <1>1, <1>2, <3>1 DEF ServedInv, RegisteredIsServed, Served, InHandler
  <2>2. CASE Insert
    <3>1. /\ cur \in Sessions /\ Served(cur) /\ sessions' = sessions \cup {cur}
          /\ apc' = "accept"
      BY <1>1, <2>2 DEF Insert, ServedInv, PartsInv
    <3> QED
      BY <1>1, <1>2, <3>1 DEF ServedInv, RegisteredIsServed, Served, InHandler
  <2>3. CASE ~Start /\ ~Insert
    <3>1. sessions' = sessions /\ (apc' = "insert" => apc = "insert" /\ cur' = cur)
      BY <2>3 DEF Acceptor, Bind, BindFails, Accepted, AcceptFailed
    <3> QED
      BY <1>1, <1>2, <3>1 DEF ServedInv, RegisteredIsServed, Served, InHandler
  <2> QED BY <2>1, <2>2, <2>3
<1>8. StopInv' BY <1>1, <1>2 DEF StopInv
<1> QED BY <1>4, <1>5, <1>7, <1>8 DEF IInv

(* The signal handler, and run() returning on the io threads.              *)
LEMMA StopIInv ==
  ASSUME IInv,
         Signal \/ SignalHandler \/ \E k \in Services : LeaveRun(k)
  PROVE  IInv'
<1>1. PartsInv /\ ServedInv /\ StopInv /\ DealInv BY DEF IInv
<1> USE DEF stopVars, workerVars, ioVars, handlerVars, historyVars, mainVars, acceptVars
<1>2. /\ UNCHANGED <<cur, ioOf, next, sessions, reading, hpc, hs, early, threw>>
      /\ apc' = apc \/ apc' \in {"stop", "join", "wait"}
  BY DEF Signal, SignalHandler, StopService, JoinThread, LeaveRun, Advance
<1>3. ServedInv'
  BY <1>1, <1>2 DEF ServedInv, RegisteredIsServed, Served, InHandler
<1>4. DealInv' BY <1>1, <1>2, DealFrame
<1>5. Pool \in Nat \ {0} /\ at \in 0..(Pool - 1)
  BY <1>1, ServerAssumption DEF PartsInv, Services, ServerAssumption
<1>6. at' \in Services
  BY <1>1, <1>5
  DEF PartsInv, Services, Signal, SignalHandler, StopService, JoinThread, LeaveRun, Advance
<1>7. PartsInv'
  <2>1. running' \subseteq Services /\ works' = running' /\ left' \subseteq Services
    BY <1>1 DEF PartsInv, Signal, SignalHandler, StopService, JoinThread, LeaveRun
  <2> QED BY <1>1, <1>2, <1>6, <2>1 DEF PartsInv
<1>8. StopInv'
  <2>1. CASE Signal
    BY <1>1, <2>1 DEF PartsInv, StopInv, Signal, Services
  <2>2. CASE StopService
    BY <1>1, <1>5, <2>2 DEF PartsInv, StopInv, StopService, Advance, Services
  <2>3. CASE JoinThread
    <3>1. /\ apc = "join" /\ left' = left /\ running' = running /\ hpc' = hpc
          /\ running = {}
      BY <1>1, <2>3 DEF JoinThread, StopInv
    <3>2. \A k \in Services : k <= at => k \in left
      BY <1>1, <1>5, <2>3 DEF JoinThread, StopInv, Services
    <3>3. CASE at + 1 < Pool
      <4>1. at' = at + 1 /\ apc' = "join"
        BY <2>3, <3>1, <3>3 DEF JoinThread, Advance
      <4> QED BY <1>1, <1>5, <3>1, <3>2, <4>1 DEF StopInv, Services
    <3>4. CASE ~(at + 1 < Pool)
      <4>1. apc' = "wait" BY <2>3, <3>4 DEF JoinThread, Advance
      <4>3. \A k \in Services : k <= at BY <1>5, <3>4 DEF Services
      <4>2. left = Services BY <1>1, <3>2, <4>3, Zenon DEF PartsInv
      <4> QED BY <1>1, <3>1, <4>1, <4>2 DEF StopInv
    <3> QED BY <3>3, <3>4
  <2>4. ASSUME NEW k \in Services, LeaveRun(k) PROVE StopInv'
    BY <1>1, <2>4 DEF PartsInv, StopInv, LeaveRun
  <2> QED BY <2>1, <2>2, <2>3, <2>4 DEF SignalHandler
<1> QED BY <1>3, <1>4, <1>7, <1>8 DEF IInv

(* A handler that begins: what it takes from the reads it has in hand, or  *)
(* an exception has ended it.                                              *)
LEMMA HandlerIInv ==
  ASSUME NEW s \in Sessions, IInv, Handler(s)
  PROVE  IInv'
<1>1. PartsInv /\ ServedInv /\ StopInv /\ DealInv BY DEF IInv
<1> USE DEF stopVars, workerVars, ioVars, handlerVars, historyVars, mainVars, acceptVars
<1>2. /\ ioOf[s] \in running /\ hpc[ioOf[s]] = "idle"
      /\ UNCHANGED <<apc, cur, ioOf, next, at, running, works, left, sessions, early>>
  BY DEF Handler, Idle, ReadRequest, ReadFails, ReadRejected, ReadThrows, WriteDone,
         WriteFails, CloseSocket
<1>3. \/ /\ \E place \in {"post", "flag", "clear"} : Enter(s, place)
         /\ reading \ {s} \subseteq reading' /\ threw' = threw
      \/ /\ UNCHANGED <<hpc, hs>>
         /\ reading \ {s} \subseteq reading' /\ threw' = threw \cup {s}
      \/ UNCHANGED <<hpc, hs, reading, threw>>
  BY DEF Handler, ReadRequest, ReadFails, ReadRejected, ReadThrows, WriteDone,
         WriteFails, CloseSocket
<1>4. ioOf[s] \in Services BY <1>1, <1>2 DEF PartsInv
<1>5. PartsInv' BY <1>1, <1>2, <1>3, <1>4 DEF PartsInv, Enter
<1>6. ASSUME NEW t \in Sessions, Served(t) PROVE Served(t)'
  <2>1. CASE \E place \in {"post", "flag", "clear"} : Enter(s, place)
    <3>1. PICK place \in {"post", "flag", "clear"} : Enter(s, place) BY <2>1
    <3>2. InHandler(s)'
      BY <1>1, <1>4, <3>1 DEF InHandler, Enter, PartsInv
    <3>3. ASSUME InHandler(t) PROVE InHandler(t)'
      BY <1>1, <1>2, <1>4, <3>1, <3>3 DEF InHandler, Enter, PartsInv
    <3> QED BY <1>2, <1>3, <1>6, <3>2, <3>3 DEF Served
  <2>2. CASE UNCHANGED <<hpc, hs>>
    BY <1>2, <1>3, <1>6, <2>1, <2>2 DEF Served, InHandler
  <2> QED BY <1>3, <2>1, <2>2
<1>7. ServedInv'
  <2>1. \A t \in sessions : Served(t)
    BY <1>1 DEF ServedInv, RegisteredIsServed, Served
  <2>2. \A t \in sessions' : Served(t)'
    BY <1>1, <1>2, <1>6, <2>1 DEF PartsInv
  <2>3. apc' = "insert" => Served(cur)'
    <3> SUFFICES ASSUME apc' = "insert" PROVE Served(cur)'
      OBVIOUS
    <3>1. cur \in Sessions /\ Served(cur) /\ cur' = cur
      BY <1>1, <1>2 DEF ServedInv, PartsInv
    <3>2. ASSUME NEW t \in Sessions, t = cur PROVE Served(t)'
      BY <1>6, <3>1, <3>2
    <3> QED BY <3>1, <3>2 DEF Served, InHandler
  <2> QED BY <2>2, <2>3 DEF ServedInv, RegisteredIsServed, Served
<1>8. StopInv' BY <1>1, <1>2, <1>3, <1>4 DEF StopInv, Enter, PartsInv
<1>9. DealInv' BY <1>1, <1>2, DealFrame
<1> QED BY <1>5, <1>7, <1>8, <1>9 DEF IInv

(* A handler that goes on: who leaves it is read from again, or is not     *)
(* registered any more and on record if HandleAccept is about to insert it.*)
LEMMA InsideHandlerIInv ==
  ASSUME NEW k \in Services, IInv, InsideHandler(k)
  PROVE  IInv'
<1>1. PartsInv /\ ServedInv /\ StopInv /\ DealInv BY DEF IInv
<1> USE DEF stopVars, workerVars, ioVars, handlerVars, historyVars, mainVars, acceptVars
<1>2. /\ hpc[k] # "idle" /\ hs[k] \in Sessions
      /\ UNCHANGED <<apc, cur, ioOf, next, at, running, works, left, threw>>
  /\ sessions' \subseteq sessions
  BY <1>1 DEF InsideHandler, Post, SetCloseFlag, ClearSession, PartsInv
<1>3. \/ Leave(k)
      \/ hpc' = [hpc EXCEPT ![k] = "clear"] /\ hs' = hs
  BY DEF InsideHandler, Post, SetCloseFlag, ClearSession
<1>4. PartsInv' BY <1>1, <1>2, <1>3 DEF PartsInv, Leave
<1>5. ASSUME NEW t \in Sessions, t # hs[k], Served(t) PROVE Served(t)'
  <2>1. reading \subseteq reading' /\ early \subseteq early'
    BY DEF InsideHandler, Post, SetCloseFlag, ClearSession
  <2>2. ASSUME InHandler(t) PROVE InHandler(t)'
    BY <1>1, <1>2, <1>3, <1>5, <2>2 DEF InHandler, Leave, PartsInv
  <2> QED BY <1>2, <1>5, <2>1, <2>2 DEF Served
<1>6. ASSUME NEW t \in Sessions, t = hs[k]
      PROVE  Served(t)' \/ (t \notin sessions' /\ t # cur)
  <2>1. CASE Post(k) BY <1>6, <2>1 DEF Post, Served
  <2>2. CASE SetCloseFlag(k)
    BY <1>1, <1>2, <1>6, <2>2 DEF SetCloseFlag, Served, InHandler, PartsInv
  <2>3. CASE ClearSession(k) BY <1>6, <2>3 DEF ClearSession, Served
  <2> QED BY <2>1, <2>2, <2>3 DEF InsideHandler
<1>9. ServedInv'
  <2>1. \A t \in sessions : Served(t)
    BY <1>1 DEF ServedInv, RegisteredIsServed, Served
  <2>2. \A t \in sessions' : Served(t)'
    BY <1>1, <1>2, <1>5, <1>6, <2>1 DEF PartsInv
  <2>3. apc' = "insert" => Served(cur)'
    <3> SUFFICES ASSUME apc' = "insert" PROVE Served(cur)'
      OBVIOUS
    <3>1. cur \in Sessions /\ Served(cur) /\ cur' = cur
      BY <1>1, <1>2 DEF ServedInv, PartsInv
    <3>2. ASSUME NEW t \in Sessions, t = cur PROVE Served(t)'
      BY <1>5, <1>6, <3>1, <3>2
    <3> QED BY <3>1, <3>2 DEF Served, InHandler
  <2> QED BY <2>2, <2>3 DEF ServedInv, RegisteredIsServed, Served
<1>7. StopInv' BY <1>1, <1>2, <1>3 DEF StopInv, Leave, PartsInv
<1>8. DealInv' BY <1>1, <1>2, DealFrame
<1> QED BY <1>4, <1>7, <1>8, <1>9 DEF IInv

(* The worker, MT4's callback thread and the clients.                      *)
LEMMA OthersIInv ==
  ASSUME IInv,
         \/ \E s \in Sessions : Dispatch(s) \/ Reply(s) \/ PeerDown(s)
         \/ TradeUpdate
  PROVE  IInv'
<1>1. UNCHANGED <<mainVars, sessions, reading, hpc, hs, early, threw>>
  BY DEF Dispatch, Reply, PeerDown, TradeUpdate, ioVars, handlerVars, historyVars
<1>2. DealInv' BY <1>1, DealFrame DEF IInv, mainVars, acceptVars
<1> QED
  BY <1>1, <1>2
  DEF IInv, PartsInv, ServedInv, RegisteredIsServed, Served, InHandler, StopInv,
      mainVars, acceptVars, stopVars

(* Every step keeps the invariant.                                         *)
LEMMA NextIInv == IInv /\ [Next]_vars => IInv'
<1> SUFFICES ASSUME IInv, [Next]_vars PROVE IInv'
  OBVIOUS
<1>1. CASE Next
  BY <1>1, AcceptorIInv, StopIInv, HandlerIInv, InsideHandlerIInv, OthersIInv DEF Next
<1>2. CASE UNCHANGED vars
  <2>1. UNCHANGED <<mainVars, sessions, reading, hpc, hs, early, threw>>
    BY <1>2 DEF vars, ioVars, handlerVars, historyVars
  <2>2. DealInv' BY <2>1, DealFrame DEF IInv, mainVars, acceptVars
  <2> QED
    BY <2>1, <2>2
    DEF IInv, PartsInv, ServedInv, RegisteredIsServed, Served, InHandler, StopInv,
        mainVars, acceptVars, stopVars
<1> QED BY <1>1, <1>2

(* The strengthened invariant holds in every behaviour.                    *)
LEMMA Invariant == Spec => []IInv
BY InitIInv, NextIInv, PTL DEF Spec

-----------------------------------------------------------------------------
(* GetIOService deals any number of sessions to any number of io_contexts  *)
(* so that none has two more than another.                                 *)
THEOREM DealtEvenly == Spec => []PoolBalanced
<1>1. ASSUME IInv PROVE PoolBalanced
  <2>1. PICK c \in Nat : \A k \in Services :
          Cardinality(Given(k)) = IF k < next THEN c + 1 ELSE c
    BY <1>1 DEF IInv, DealInv
  <2>2. ASSUME NEW j \in Services, NEW k \in Services
        PROVE  Cardinality(Given(j)) <= Cardinality(Given(k)) + 1
    BY <2>1
  <2> QED BY <2>2 DEF PoolBalanced, Given
<1> QED BY <1>1, Invariant, PTL

(* A session in _sessions is read from, or in a handler, unless an         *)
(* exception ended its handler or it was cleared before it was inserted.   *)
THEOREM RegisteredStayServed == Spec => []RegisteredIsServed
<1>1. IInv => RegisteredIsServed BY DEF IInv, ServedInv
<1> QED BY <1>1, Invariant, PTL

(* Once AsioIOServicePool::Stop has returned no handler of a session runs, *)
(* whatever worker, callback thread and clients go on doing.               *)
THEOREM QuietAfterStop == Spec => StoppedIsQuiet
<1>1. ASSUME IInv, [Next]_vars
      PROVE  [apc = "wait" => UNCHANGED <<sessions, asked, reading, hpc, open, bClose>>]_vars
  <2> SUFFICES ASSUME apc = "wait", Next
               PROVE  UNCHANGED <<sessions, asked, reading, hpc, open, bClose>>
    BY <1>1
  <2> USE DEF stopVars, workerVars, ioVars, handlerVars, historyVars, mainVars, acceptVars
  <2>1. running = {} /\ \A k \in Services : hpc[k] = "idle"
    BY <1>1 DEF IInv, StopInv
  <2>2. ~Acceptor /\ ~Signal /\ ~SignalHandler
    BY DEF Acceptor, Bind, BindFails, Accepted, AcceptFailed, Start, Insert, Signal,
           SignalHandler, StopService, JoinThread
  <2>3. \A s \in Sessions : ~Handler(s)
    BY <2>1 DEF Handler, Idle, ReadRequest, ReadFails, ReadRejected, ReadThrows,
                WriteDone, WriteFails
  <2>4. \A k \in Services : ~InsideHandler(k)
    BY <2>1 DEF InsideHandler, Post, SetCloseFlag, ClearSession
  <2>5. \/ \E s \in Sessions : Dispatch(s) \/ Reply(s) \/ PeerDown(s)
        \/ \E k \in Services : LeaveRun(k)
        \/ TradeUpdate
    BY <2>2, <2>3, <2>4 DEF Next
  <2> QED BY <2>5 DEF Dispatch, Reply, PeerDown, LeaveRun, TradeUpdate
<1> QED BY <1>1, Invariant, PTL DEF Spec, StoppedIsQuiet

-----------------------------------------------------------------------------
(* Recursion over the numbers                                              *)

(* A set of numbers has a smallest one.                                    *)
LEMMA Smallest ==
  ASSUME NEW T, T \subseteq Nat, T # {}
  PROVE  \E m \in T : \A k \in T : m <= k
<1> DEFINE R == OpToRel(<, Nat)
<1>1. IsWellFoundedOn(R, Nat)
  BY NatLessThanWellFounded
<1> HIDE DEF R
<1>2. PICK m \in T : \A k \in T : <<k, m>> \notin R
  BY <1>1, WFMin
<1>3. ASSUME NEW k \in T PROVE m <= k
  <2>1. k \in Nat /\ m \in Nat /\ <<k, m>> \notin R
    BY <1>2
  <2>2. ~(k < m)
    BY <2>1 DEF R, OpToRel
  <2> QED BY <2>1, <2>2
<1> QED BY <1>3

(* The first n steps of a recursion.                                       *)
Unrolled(X, x0, D, n, g) ==
  /\ g \in [0..n -> X] /\ g[0] = x0
  /\ \A k \in 0..(n - 1) : g[k + 1] = D[k][g[k]]

(* Every number of steps can be unrolled.                                  *)
LEMMA UnrolledExists ==
  ASSUME NEW X, NEW x0 \in X, NEW D \in [Nat -> [X -> X]], NEW n \in Nat
  PROVE  \E g : Unrolled(X, x0, D, n, g)
<1> DEFINE T == {k \in Nat : ~ \E g : Unrolled(X, x0, D, k, g)}
<1>1. ASSUME T # {} PROVE FALSE
  <2>1. PICK m \in T : \A k \in T : m <= k
    <3>1. T \subseteq Nat
      OBVIOUS
    <3> HIDE DEF T
    <3> QED BY <3>1, <1>1, Smallest
  <2>2. m \in Nat /\ ~ \E g : Unrolled(X, x0, D, m, g)
    BY <2>1
  <2>3. CASE m = 0
    <3> DEFINE g == [k \in 0..0 |-> x0]
    <3>1. g \in [0..m -> X] /\ g[0] = x0 /\ 0..(m - 1) = {}
      BY <2>3
    <3> HIDE DEF g
    <3>2. Unrolled(X, x0, D, m, g)
      BY <3>1 DEF Unrolled
    <3> QED BY <3>2, <2>2
  <2>4. CASE m # 0
    <3>1. m - 1 \in Nat /\ m - 1 \notin T
      <4>1. m - 1 \in Nat /\ ~(m <= m - 1)
        BY <2>2, <2>4
      <4> HIDE DEF T
      <4> QED BY <4>1, <2>1
    <3>2. PICK g : Unrolled(X, x0, D, m - 1, g)
      BY <3>1
    <3> HIDE DEF T
    <3>3. /\ g \in [0..(m - 1) -> X] /\ g[0] = x0
          /\ \A k \in 0..(m - 2) : g[k + 1] = D[k][g[k]]
      <4>1. (m - 1) - 1 = m - 2
        BY <2>2
      <4> QED BY <3>2, <4>1 DEF Unrolled
    <3> DEFINE h == [k \in 0..m |-> IF k = m THEN D[m - 1][g[m - 1]] ELSE g[k]]
    <3>4. g[m - 1] \in X
      BY <3>1, <3>3
    <3>5. D[m - 1][g[m - 1]] \in X
      BY <3>1, <3>4
    <3>6. h \in [0..m -> X]
      BY <2>2, <3>3, <3>5
    <3>7. h[0] = x0
      BY <2>2, <2>4, <3>3
    <3>8. \A k \in 0..(m - 1) : h[k] = g[k]
      BY <2>2
    <3>9. h[m] = D[m - 1][g[m - 1]]
      BY <2>2
    <3> HIDE DEF h
    <3>10. ASSUME NEW k \in 0..(m - 1) PROVE h[k + 1] = D[k][h[k]]
      <4>1. CASE k = m - 1
        <5>1. k + 1 = m
          BY <4>1, <2>2
        <5> QED BY <5>1, <4>1, <3>8, <3>9
      <4>2. CASE k # m - 1
        <5>1. k \in 0..(m - 2) /\ k + 1 \in 0..(m - 1)
          BY <4>2, <2>2
        <5> QED BY <5>1, <3>3, <3>8
      <4> QED BY <4>1, <4>2
    <3>11. Unrolled(X, x0, D, m, h)
      BY <3>6, <3>7, <3>10 DEF Unrolled
    <3> QED BY <3>11, <2>2
  <2> QED BY <2>3, <2>4
<1> QED BY <1>1

(* However far a recursion is unrolled, the values are the same.           *)
LEMMA UnrolledAgree ==
  ASSUME NEW X, NEW x0 \in X, NEW D \in [Nat -> [X -> X]],
         NEW n \in Nat, NEW m \in Nat, n <= m,
         NEW g, Unrolled(X, x0, D, n, g), NEW h, Unrolled(X, x0, D, m, h)
  PROVE  \A k \in 0..n : g[k] = h[k]
<1> DEFINE T == {k \in 0..n : g[k] # h[k]}
<1>1. ASSUME T # {} PROVE FALSE
  <2>1. PICK k \in T : \A l \in T : k <= l
    <3>1. T \subseteq Nat
      OBVIOUS
    <3> HIDE DEF T
    <3> QED BY <3>1, <1>1, Smallest
  <2>2. k \in 0..n /\ g[k] # h[k]
    BY <2>1
  <2>3. k # 0
    BY <2>2 DEF Unrolled
  <2>4. k - 1 \in 0..(n - 1) /\ k - 1 \in 0..(m - 1) /\ (k - 1) + 1 = k /\ k - 1 \in 0..n
    BY <2>2, <2>3
  <2>5. k - 1 \notin T
    <3>1. ~(k <= k - 1)
      BY <2>2
    <3> HIDE DEF T
    <3> QED BY <3>1, <2>1
  <2>6. g[k - 1] = h[k - 1]
    BY <2>4, <2>5
  <2>7. g[k] = D[k - 1][g[k - 1]] /\ h[k] = D[k - 1][h[k - 1]]
    <3>1. g[(k - 1) + 1] = D[k - 1][g[k - 1]] /\ h[(k - 1) + 1] = D[k - 1][h[k - 1]]
      BY <2>4 DEF Unrolled
    <3> QED BY <3>1, <2>4
  <2> QED BY <2>2, <2>6, <2>7
<1> QED BY <1>1

(* What a recursion over the numbers defines exists.                       *)
Iterates(X, x0, D, f) ==
  f \in [Nat -> X] /\ f[0] = x0 /\ \A n \in Nat : f[n + 1] = D[n][f[n]]

LEMMA Recursion ==
  ASSUME NEW X, NEW x0 \in X, NEW D \in [Nat -> [X -> X]]
  PROVE  \E f : Iterates(X, x0, D, f)
<1> DEFINE G(n) == CHOOSE g : Unrolled(X, x0, D, n, g)
           f == [n \in Nat |-> G(n)[n]]
<1>1. \A n \in Nat : Unrolled(X, x0, D, n, G(n))
  BY UnrolledExists
<1> HIDE DEF G
<1>2. f \in [Nat -> X] /\ f[0] = x0
  <2>1. \A n \in Nat : G(n) \in [0..n -> X] /\ G(n)[0] = x0
    BY <1>1 DEF Unrolled
  <2>2. \A n \in Nat : n \in 0..n
    OBVIOUS
  <2> QED BY <2>1, <2>2
<1>3. ASSUME NEW n \in Nat PROVE f[n + 1] = D[n][f[n]]
  <2>1. /\ n + 1 \in Nat /\ n <= n + 1 /\ n \in 0..n /\ n \in 0..((n + 1) - 1)
    OBVIOUS
  <2>2. Unrolled(X, x0, D, n, G(n)) /\ Unrolled(X, x0, D, n + 1, G(n + 1))
    BY <1>1, <2>1
  <2>3. G(n)[n] = G(n + 1)[n]
    BY <2>1, <2>2, UnrolledAgree
  <2>4. G(n + 1)[n + 1] = D[n][G(n + 1)[n]]
    BY <2>1, <2>2 DEF Unrolled
  <2> QED BY <2>1, <2>3, <2>4
<1> HIDE DEF f
<1>4. Iterates(X, x0, D, f)
  BY <1>2, <1>3 DEF Iterates
<1> QED BY <1>4

-----------------------------------------------------------------------------
(* The types, and what is destroyed                                        *)

(* The list without one entry is a list.                                   *)
LEMMA EraseAtType ==
  ASSUME NEW S, NEW q \in Seq(S), NEW n \in Nat
  PROVE  EraseAt(q, n) \in Seq(S)
<1>1. CASE n \in DOMAIN q
  <2> DEFINE a == SubSeq(q, 1, n - 1)
             b == SubSeq(q, n + 1, Len(q))
  <2>1. n \in 1..Len(q) /\ Len(q) \in Nat
    BY <1>1
  <2>2. a \in Seq(S) /\ b \in Seq(S)
    BY <2>1, SubSeqProperties
  <2> HIDE DEF a, b
  <2>3. a \o b \in Seq(S)
    BY <2>2, ConcatProperties
  <2> QED BY <1>1, <2>3 DEF EraseAt, RemoveAt, a, b
<1>2. CASE n \notin DOMAIN q
  BY <1>2 DEF EraseAt
<1> QED BY <1>1, <1>2

(* The recursion that Erased stands for has a solution: it is Erased.      *)
LEMMA ErasedEquation ==
  ASSUME NEW S, pumpQue \in Seq(S)
  PROVE  \A n \in 0..Len(pumpQue) :
           Erased[n] = IF n = 0 THEN pumpQue
                       ELSE IF n \in ClosedPositions THEN EraseAt(Erased[n - 1], n)
                       ELSE Erased[n - 1]
<1> DEFINE N == Len(pumpQue)
           Step(n, q) == IF n + 1 \in ClosedPositions THEN EraseAt(q, n + 1) ELSE q
           D == [n \in Nat |-> [q \in Seq(S) |-> Step(n, q)]]
<1>1. N \in Nat
  OBVIOUS
<1>2. \A n \in Nat : \A q \in Seq(S) : Step(n, q) \in Seq(S)
  BY EraseAtType
<1>3. /\ D \in [Nat -> [Seq(S) -> Seq(S)]]
      /\ \A n \in Nat : \A q \in Seq(S) : D[n][q] = Step(n, q)
  <2> HIDE DEF Step
  <2> QED BY <1>2
<1> HIDE DEF D, N
<1>4. PICK f : Iterates(Seq(S), pumpQue, D, f)
  BY <1>3, Recursion
<1> DEFINE e == [n \in 0..N |-> f[n]]
           Rest(g, n) ==
             IF n = 0 THEN pumpQue
             ELSE IF n \in ClosedPositions THEN EraseAt(g[n - 1], n) ELSE g[n - 1]
<1>5. \A n \in 0..N : e[n] = Rest(e, n)
  <2> TAKE n \in 0..N
  <2>1. CASE n = 0
    BY <2>1, <1>1, <1>4 DEF Iterates
  <2>2. CASE n # 0
    <3>1. n - 1 \in Nat /\ n - 1 \in 0..N /\ (n - 1) + 1 = n
      BY <2>2, <1>1
    <3>2. f[(n - 1) + 1] = D[n - 1][f[n - 1]] /\ f[n - 1] \in Seq(S)
      BY <3>1, <1>4 DEF Iterates
    <3>3. f[n] = Step(n - 1, f[n - 1])
      <4> HIDE DEF Step
      <4> QED BY <3>1, <3>2, <1>3
    <3>4. e[n] = f[n] /\ e[n - 1] = f[n - 1]
      BY <3>1
    <3> HIDE DEF e
    <3> QED BY <2>2, <3>1, <3>3, <3>4
  <2> QED BY <2>1, <2>2
<1>6. e = [n \in 0..N |-> Rest(e, n)]
  <2> HIDE DEF Rest
  <2> QED BY <1>5
<1> HIDE DEF e
<1>7. Erased = [n \in 0..N |-> Rest(Erased, n)]
  BY <1>6 DEF Erased, N
<1>8. \A n \in 0..N : Erased[n] = Rest(Erased, n)
  <2> HIDE DEF Rest
  <2> QED BY <1>7
<1> QED BY <1>8 DEF N

(* What OnTradeUpdate leaves of the list holds only what was on it.        *)
LEMMA ErasedType ==
  ASSUME NEW S, pumpQue \in Seq(S)
  PROVE  Erased[Len(pumpQue)] \in Seq(S)
<1> DEFINE N == Len(pumpQue)
           T == {n \in 0..N : Erased[n] \notin Seq(S)}
<1>1. N \in Nat
  OBVIOUS
<1>2. ASSUME T # {} PROVE FALSE
  <2>1. PICK m \in T : \A k \in T : m <= k
    <3>1. T \subseteq Nat
      BY <1>1
    <3> HIDE DEF T
    <3> QED BY <3>1, <1>2, Smallest
  <2>2. m \in 0..N /\ Erased[m] \notin Seq(S)
    BY <2>1
  <2>3. CASE m = 0
    BY <2>2, <2>3, ErasedEquation
  <2>4. CASE m # 0
    <3>1. m \in Nat /\ m - 1 \in 0..N /\ ~(m <= m - 1)
      BY <2>2, <2>4, <1>1
    <3>2. m - 1 \notin T
      <4> HIDE DEF T
      <4> QED BY <3>1, <2>1
    <3>3. Erased[m - 1] \in Seq(S)
      BY <3>1, <3>2
    <3>4. EraseAt(Erased[m - 1], m) \in Seq(S)
      BY <3>1, <3>3, EraseAtType
    <3> QED BY <2>2, <2>4, <3>3, <3>4, ErasedEquation
  <2> QED BY <2>3, <2>4
<1>3. N \in 0..N
  BY <1>1
<1> QED BY <1>2, <1>3 DEF N

(* A list with at most one closed entry loses that entry, and nothing is   *)
(* erased beyond its end.                                                  *)
LEMMA OneErased ==
  ASSUME NEW S, pumpQue \in Seq(S), NEW p \in 1..Len(pumpQue), ClosedPositions \subseteq {p}
  PROVE  Erased[Len(pumpQue)] = IF p \in ClosedPositions THEN RemoveAt(pumpQue, p) ELSE pumpQue
<1> DEFINE N == Len(pumpQue)
           At(n) == IF n >= p /\ p \in ClosedPositions THEN EraseAt(pumpQue, p) ELSE pumpQue
           T == {n \in 0..N : Erased[n] # At(n)}
<1>1. N \in Nat /\ p \in 1..N
  OBVIOUS
<1>2. ASSUME T # {} PROVE FALSE
  <2>1. PICK m \in T : \A k \in T : m <= k
    <3>1. T \subseteq Nat
      BY <1>1
    <3> HIDE DEF T
    <3> QED BY <3>1, <1>2, Smallest
  <2>2. m \in 0..N /\ Erased[m] # At(m)
    BY <2>1
  <2>3. m # 0
    <3>1. At(0) = pumpQue /\ Erased[0] = pumpQue
      BY <1>1, ErasedEquation
    <3> QED BY <3>1, <2>2
  <2>4. m - 1 \in 0..N /\ ~(m <= m - 1) /\ m \in Nat
    BY <2>2, <2>3, <1>1
  <2>5. m - 1 \notin T
    <3> HIDE DEF T
    <3> QED BY <2>1, <2>4
  <2>6. Erased[m - 1] = At(m - 1)
    BY <2>4, <2>5
  <2>7. Erased[m] = IF m \in ClosedPositions THEN EraseAt(At(m - 1), m) ELSE At(m - 1)
    <3> HIDE DEF At
    <3> QED BY <2>2, <2>3, <2>6, ErasedEquation
  <2>8. CASE m = p
    <3>1. At(m - 1) = pumpQue
      BY <2>4, <2>8, <1>1
    <3> QED BY <2>2, <2>7, <2>8, <3>1
  <2>9. CASE m # p
    <3>1. m \notin ClosedPositions /\ At(m) = At(m - 1)
      BY <2>4, <2>9, <1>1
    <3> QED BY <2>2, <2>7, <3>1
  <2> QED BY <2>8, <2>9
<1>3. N \in 0..N /\ N >= p
  BY <1>1
<1>4. Erased[N] = At(N)
  BY <1>2, <1>3
<1> QED BY <1>3, <1>4 DEF EraseAt

(* The types of what the invariant above does not speak of.                *)
RestInv ==
  /\ reading \subseteq Sessions /\ pumpQue \in Seq(Sessions)
  /\ asked \in [Sessions -> 0..MaxRequests] /\ nodes \in [Sessions -> 0..MaxRequests]
  /\ callback \in Sessions \cup {NoSession}
  /\ writing \subseteq Sessions /\ stuck \subseteq Sessions
  /\ open \subseteq Sessions /\ peerUp \subseteq Sessions /\ bClose \subseteq Sessions
  /\ early \subseteq Sessions /\ threw \subseteq Sessions
  /\ crashed \in BOOLEAN

(* A LogicNode stands for a request that was read, and one that is in its  *)
(* callback has not been let go; a handler runs on the thread of its       *)
(* session.                                                                *)
AskedInv ==
  /\ \A s \in Sessions : nodes[s] <= asked[s]
  /\ \A k \in Services : hpc[k] # "idle" => hs[k] \in Sessions /\ ioOf[hs[k]] = k
  /\ \A k \in Services : hpc[k] = "post" => nodes[hs[k]] < asked[hs[k]]
  /\ callback # NoSession => nodes[callback] > 0

(* Both hold before the server binds its port.                             *)
LEMMA InitRest == Init => RestInv /\ AskedInv
<1> SUFFICES ASSUME Init PROVE RestInv /\ AskedInv
  OBVIOUS
<1>1. MaxRequests \in Nat
  BY ServerAssumption DEF ServerAssumption
<1>2. RestInv
  <2>1. pumpQue \in Seq(Sessions)
    BY DEF Init
  <2>2. asked \in [Sessions -> 0..MaxRequests] /\ nodes \in [Sessions -> 0..MaxRequests]
    BY <1>1 DEF Init
  <2>3. crashed \in BOOLEAN
    BY DEF Init
  <2> QED BY <2>1, <2>2, <2>3 DEF Init, RestInv
<1>3. AskedInv
  BY DEF Init, AskedInv
<1> QED BY <1>2, <1>3

(* Sessions come and go without a request.                                 *)
LEMMA AcceptorRest ==
  ASSUME IInv, RestInv, AskedInv, Acceptor
  PROVE  RestInv' /\ AskedInv'
<1>1. PartsInv
  BY DEF IInv
<1> USE DEF stopVars, workerVars, ioVars, handlerVars, historyVars, mainVars, acceptVars
<1>2. /\ UNCHANGED <<pumpQue, asked, nodes, callback, writing, stuck, hpc, hs, bClose,
                     early, threw>>
      /\ crashed' \in {crashed, TRUE}
      /\ reading' \subseteq reading \cup {cur} /\ open' \subseteq open \cup {cur}
      /\ peerUp' \subseteq peerUp \cup {cur}
      /\ UNCHANGED <<reading, open, peerUp>> \/ cur \in Sessions
  BY <1>1
  DEF Acceptor, Bind, BindFails, Accepted, AcceptFailed, Start, Insert, PartsInv
<1>3. \A s \in Sessions : ioOf[s] \in Services => ioOf'[s] = ioOf[s]
  <2>1. CASE UNCHANGED ioOf
    BY <2>1
  <2>2. CASE StartAccept
    <3>1. Pool \notin Services
      BY ServerAssumption DEF ServerAssumption, Services
    <3> QED BY <1>1, <2>2, <3>1 DEF StartAccept, Made, PartsInv
  <2> QED
    BY <2>1, <2>2 DEF Acceptor, Bind, BindFails, Accepted, AcceptFailed, Start, Insert
<1>4. RestInv'
  BY <1>2 DEF RestInv
<1>5. AskedInv'
  BY <1>2, <1>3 DEF AskedInv
<1> QED BY <1>4, <1>5

(* Stopping touches no session.                                            *)
LEMMA StopRest ==
  ASSUME RestInv, AskedInv,
         Signal \/ SignalHandler \/ \E k \in Services : LeaveRun(k)
  PROVE  RestInv' /\ AskedInv'
<1>1. UNCHANGED <<ioOf, sessions, asked, workerVars, ioVars, peerUp, historyVars, crashed>>
  BY DEF Signal, SignalHandler, StopService, JoinThread, LeaveRun, acceptVars
<1> QED BY <1>1 DEF RestInv, AskedInv, workerVars, ioVars, handlerVars, historyVars

(* A handler that begins is the only one of its thread.                    *)
LEMMA HandlerRest ==
  ASSUME NEW s \in Sessions, IInv, RestInv, AskedInv, Handler(s)
  PROVE  RestInv' /\ AskedInv'
<1>1. PartsInv
  BY DEF IInv
<1> USE DEF stopVars, workerVars, ioVars, handlerVars, historyVars, mainVars, acceptVars
<1>2. /\ ioOf[s] \in Services /\ hpc[ioOf[s]] = "idle"
      /\ UNCHANGED <<ioOf, pumpQue, nodes, callback, bClose, peerUp, early, crashed>>
      /\ reading' \subseteq reading /\ writing' \subseteq writing /\ open' \subseteq open
      /\ stuck' \subseteq stuck \cup {s} /\ threw' \subseteq threw \cup {s}
  BY <1>1
  DEF Handler, Idle, ReadRequest, ReadFails, ReadRejected, ReadThrows, WriteDone,
      WriteFails, CloseSocket, PartsInv
<1>3. \/ ReadRequest(s)
      \/ UNCHANGED asked /\ (Enter(s, "flag") \/ Enter(s, "clear") \/ UNCHANGED <<hpc, hs>>)
  BY DEF Handler, ReadFails, ReadRejected, ReadThrows, WriteDone, WriteFails, CloseSocket
<1>4. /\ asked[s] \in Nat /\ nodes[s] \in Nat /\ nodes[s] <= asked[s]
      /\ \A t \in Sessions : asked[t] \in Nat /\ nodes[t] \in Nat
  BY DEF RestInv, AskedInv
<1>5. CASE ReadRequest(s)
  <2>1. /\ asked' = [asked EXCEPT ![s] = @ + 1] /\ asked[s] < MaxRequests
        /\ Enter(s, "post") /\ MaxRequests \in Nat
    BY <1>5, ServerAssumption DEF ReadRequest, ServerAssumption
  <2>2. /\ asked' \in [Sessions -> 0..MaxRequests] /\ asked'[s] = asked[s] + 1
        /\ \A t \in Sessions : t # s => asked'[t] = asked[t]
    BY <2>1, <1>4 DEF RestInv
  <2>3. RestInv'
    BY <1>2, <2>2 DEF RestInv
  <2>4. \A t \in Sessions : asked[t] <= asked'[t] /\ nodes[t] <= asked'[t]
    BY <2>2, <1>4 DEF AskedInv
  <2>5. \A k \in Services :
          /\ k = ioOf[s] => hpc'[k] = "post" /\ hs'[k] = s
          /\ k # ioOf[s] => hpc'[k] = hpc[k] /\ hs'[k] = hs[k]
    BY <1>1, <2>1 DEF Enter, PartsInv
  <2>6. ASSUME NEW k \in Services, hpc'[k] # "idle"
        PROVE  hs'[k] \in Sessions /\ ioOf'[hs'[k]] = k
    BY <1>2, <2>5, <2>6 DEF AskedInv
  <2>7. ASSUME NEW k \in Services, hpc'[k] = "post"
        PROVE  nodes'[hs'[k]] < asked'[hs'[k]]
    <3>1. CASE k = ioOf[s]
      BY <3>1, <1>2, <1>4, <2>2, <2>5
    <3>2. CASE k # ioOf[s]
      <4>1. hs'[k] = hs[k] /\ hs[k] \in Sessions /\ nodes[hs[k]] < asked[hs[k]]
        BY <3>2, <2>5, <2>7 DEF AskedInv
      <4>2. nodes[hs[k]] \in Nat /\ asked[hs[k]] \in Nat /\ asked'[hs[k]] \in Nat
            /\ asked[hs[k]] <= asked'[hs[k]]
        BY <4>1, <1>4, <2>2, <2>4
      <4> QED BY <4>1, <4>2, <1>2
    <3> QED BY <3>1, <3>2
  <2>8. AskedInv'
    BY <1>2, <2>4, <2>6, <2>7 DEF AskedInv
  <2> QED BY <2>3, <2>8
<1>6. CASE UNCHANGED asked /\ (Enter(s, "flag") \/ Enter(s, "clear")
                               \/ UNCHANGED <<hpc, hs>>)
  <2>1. RestInv'
    BY <1>2, <1>6 DEF RestInv
  <2>2. ASSUME NEW k \in Services
        PROVE  \/ hpc'[k] = hpc[k] /\ hs'[k] = hs[k]
               \/ hpc'[k] \in {"flag", "clear"} /\ hs'[k] = s /\ ioOf[s] = k
    BY <1>1, <1>6 DEF Enter, PartsInv
  <2>3. AskedInv'
    BY <1>2, <1>6, <2>2 DEF AskedInv
  <2> QED BY <2>1, <2>3
<1> QED BY <1>3, <1>5, <1>6

(* PostMsgToQue makes a LogicNode of the one request its handler has read. *)
LEMMA InsideHandlerRest ==
  ASSUME NEW k \in Services, IInv, RestInv, AskedInv, InsideHandler(k)
  PROVE  RestInv' /\ AskedInv'
<1>1. PartsInv
  BY DEF IInv
<1> USE DEF stopVars, workerVars, ioVars, handlerVars, historyVars, mainVars, acceptVars
<1> DEFINE s == hs[k]
<1>2. /\ hpc[k] # "idle" /\ s \in Sessions /\ ioOf[s] = k
      /\ UNCHANGED <<ioOf, cur, pumpQue, asked, callback, writing, stuck, open, peerUp, threw,
                     crashed>>
      /\ reading' \subseteq reading \cup {s} /\ bClose' \subseteq bClose \cup {s}
      /\ early' \subseteq early \cup {s}
  BY DEF InsideHandler, Post, SetCloseFlag, ClearSession, AskedInv
<1>3. \/ Post(k) /\ Leave(k)
      \/ UNCHANGED nodes /\ Leave(k)
      \/ UNCHANGED <<nodes, hs>> /\ hpc' = [hpc EXCEPT ![k] = "clear"]
  BY DEF InsideHandler, Post, SetCloseFlag, ClearSession
<1>4. /\ \A t \in Sessions : asked[t] \in Nat /\ nodes[t] \in Nat /\ asked[t] <= MaxRequests
      /\ MaxRequests \in Nat
  BY ServerAssumption DEF RestInv, ServerAssumption
<1>5. CASE Post(k) /\ Leave(k)
  <2>1. /\ nodes' = [nodes EXCEPT ![s] = @ + 1] /\ hpc[k] = "post" /\ callback = NoSession
        /\ nodes[s] < asked[s]
    BY <1>5 DEF Post, AskedInv
  <2> HIDE DEF s
  <2>2. /\ nodes' \in [Sessions -> 0..MaxRequests] /\ nodes'[s] = nodes[s] + 1
        /\ \A t \in Sessions : t # s => nodes'[t] = nodes[t]
    BY <2>1, <1>2, <1>4 DEF RestInv
  <2>3. RestInv'
    BY <1>2, <2>2 DEF RestInv
  <2>4. \A t \in Sessions : nodes'[t] <= asked[t]
    BY <2>1, <2>2, <1>4 DEF AskedInv
  <2>5. /\ hpc'[k] = "idle"
        /\ \A l \in Services : l # k => hpc'[l] = hpc[l] /\ hs'[l] = hs[l]
    BY <1>1, <1>5 DEF Leave, PartsInv
  <2>6. \A l \in Services : hpc'[l] # "idle" =>
          /\ l # k /\ hs'[l] = hs[l] /\ hs[l] \in Sessions /\ ioOf[hs[l]] = l
          /\ hs[l] # s
    BY <1>2, <2>5 DEF AskedInv
  <2>7. \A l \in Services : hpc'[l] = "post" => nodes'[hs'[l]] < asked[hs'[l]]
    BY <2>2, <2>5, <2>6 DEF AskedInv
  <2>8. AskedInv'
    BY <1>2, <2>1, <2>4, <2>6, <2>7 DEF AskedInv
  <2> QED BY <2>3, <2>8
<1>6. CASE UNCHANGED nodes /\ (Leave(k) \/ (UNCHANGED hs /\ hpc' = [hpc EXCEPT ![k] = "clear"]))
  <2>1. RestInv'
    <3> HIDE DEF s
    <3> QED BY <1>2, <1>6 DEF RestInv
  <2>2. ASSUME NEW l \in Services
        PROVE  \/ hpc'[l] = hpc[l] /\ hs'[l] = hs[l]
               \/ hpc'[l] = "idle"
               \/ hpc'[l] = "clear" /\ hpc[l] # "idle" /\ hs'[l] = hs[l]
    BY <1>1, <1>2, <1>6 DEF Leave, PartsInv
  <2>3. AskedInv'
    BY <1>2, <1>6, <2>2 DEF AskedInv
  <2> QED BY <2>1, <2>3
<1> QED BY <1>3, <1>5, <1>6

(* The worker lets go the LogicNode it holds, and no other; the list holds *)
(* only who was on it, and who subscribes.                                 *)
LEMMA OthersRest ==
  ASSUME IInv, RestInv, AskedInv,
         \/ \E s \in Sessions : Dispatch(s) \/ Reply(s) \/ PeerDown(s)
         \/ TradeUpdate
  PROVE  RestInv' /\ AskedInv'
<1>1. PartsInv
  BY DEF IInv
<1> USE DEF stopVars, workerVars, ioVars, handlerVars, historyVars, mainVars, acceptVars
<1>2. /\ \A t \in Sessions : asked[t] \in Nat /\ nodes[t] \in Nat
      /\ NoSession \notin Sessions
  BY ServerAssumption DEF RestInv, ServerAssumption
<1>3. ASSUME NEW s \in Sessions, Dispatch(s) PROVE RestInv' /\ AskedInv'
  <2>1. /\ callback' = s /\ nodes[s] > 0
        /\ UNCHANGED <<ioOf, asked, nodes, pumpQue, ioVars, peerUp, historyVars, crashed>>
    BY <1>3 DEF Dispatch
  <2> QED BY <2>1 DEF RestInv, AskedInv
<1>4. ASSUME NEW s \in Sessions, PeerDown(s) PROVE RestInv' /\ AskedInv'
  <2>1. /\ peerUp' \subseteq peerUp
        /\ UNCHANGED <<ioOf, asked, workerVars, ioVars, historyVars, crashed>>
    BY <1>4 DEF PeerDown
  <2> QED BY <2>1 DEF RestInv, AskedInv
<1>5. ASSUME NEW s \in Sessions, Reply(s) PROVE RestInv' /\ AskedInv'
  <2>1. /\ callback = s /\ callback' = NoSession
        /\ nodes' = [nodes EXCEPT ![s] = @ - 1]
        /\ pumpQue' = pumpQue \/ pumpQue' = Append(pumpQue, s)
        /\ writing' = writing \cup ({s} \ stuck)
        /\ UNCHANGED <<ioOf, asked, reading, stuck, handlerVars, peerUp, historyVars, crashed>>
    BY <1>5 DEF Reply, SendTo
  <2>2. nodes[s] > 0 /\ nodes[s] \in 0..MaxRequests /\ MaxRequests \in Nat
    BY <1>2, <2>1, ServerAssumption DEF AskedInv, RestInv, ServerAssumption
  <2>3. /\ nodes' \in [Sessions -> 0..MaxRequests]
        /\ \A t \in Sessions : nodes'[t] \in Nat /\ nodes'[t] <= nodes[t]
    BY <2>1, <2>2 DEF RestInv
  <2>4. pumpQue' \in Seq(Sessions) /\ writing' \subseteq Sessions
    <3>1. pumpQue \in Seq(Sessions) /\ writing \subseteq Sessions
      BY DEF RestInv
    <3>2. Append(pumpQue, s) \in Seq(Sessions)
      BY <3>1
    <3>3. writing' \subseteq Sessions
      BY <2>1, <3>1
    <3> QED BY <2>1, <3>1, <3>2, <3>3
  <2>5. RestInv'
    BY <2>1, <2>3, <2>4 DEF RestInv
  <2>6. \A t \in Sessions : nodes'[t] <= asked[t]
    BY <1>2, <2>3 DEF AskedInv
  <2>7. \A k \in Services : hpc[k] = "post" =>
          hs[k] \in Sessions /\ nodes'[hs[k]] < asked[hs[k]]
    <3> SUFFICES ASSUME NEW k \in Services, hpc[k] = "post"
                 PROVE  hs[k] \in Sessions /\ nodes'[hs[k]] < asked[hs[k]]
      OBVIOUS
    <3>1. hs[k] \in Sessions /\ nodes[hs[k]] < asked[hs[k]]
      BY DEF AskedInv
    <3> QED BY <3>1, <1>2, <2>3
  <2>8. AskedInv'
    BY <2>1, <2>6, <2>7 DEF AskedInv
  <2> QED BY <2>5, <2>8
<1>6. ASSUME TradeUpdate PROVE RestInv' /\ AskedInv'
  <2>1. /\ pumpQue' = Erased[Len(pumpQue)] /\ writing' \subseteq writing \cup Sessions
        /\ crashed' \in {FALSE, Len(pumpQue') > Len(pumpQue) - Cardinality(ClosedPositions)}
        /\ UNCHANGED <<ioOf, asked, nodes, callback, reading, stuck, handlerVars, peerUp,
                       historyVars>>
    BY <1>6 DEF TradeUpdate, SendTo
  <2>2. pumpQue' \in Seq(Sessions)
    BY <2>1, ErasedType DEF RestInv
  <2>3. crashed' \in BOOLEAN
    <3>1. (Len(pumpQue') > Len(pumpQue) - Cardinality(ClosedPositions)) \in BOOLEAN
      OBVIOUS
    <3> QED BY <2>1, <3>1, Zenon
  <2>4. RestInv'
    BY <2>1, <2>2, <2>3 DEF RestInv
  <2>5. AskedInv'
    BY <2>1 DEF AskedInv
  <2> QED BY <2>4, <2>5
<1> QED BY <1>3, <1>4, <1>5, <1>6

(* Every step keeps both.                                                  *)
LEMMA NextRest == IInv /\ RestInv /\ AskedInv /\ [Next]_vars => RestInv' /\ AskedInv'
<1> SUFFICES ASSUME IInv, RestInv, AskedInv, [Next]_vars PROVE RestInv' /\ AskedInv'
  OBVIOUS
<1>1. CASE Next
  BY <1>1, AcceptorRest, StopRest, HandlerRest, InsideHandlerRest, OthersRest DEF Next
<1>2. CASE UNCHANGED vars
  BY <1>2 DEF vars, mainVars, acceptVars, workerVars, ioVars, handlerVars, historyVars,
              RestInv, AskedInv
<1> QED BY <1>1, <1>2

(* Both hold in every behaviour.                                           *)
LEMMA RestInvariant == Spec => [](IInv /\ RestInv /\ AskedInv)
BY Invariant, InitRest, NextRest, PTL DEF Spec

(* The variables keep their types: no session has more LogicNodes than it  *)
(* may ask, however requests, replies and updates interleave.              *)
THEOREM TypeCorrect == Spec => []TypeOK
<1>1. ASSUME IInv, RestInv PROVE TypeOK
  BY <1>1 DEF IInv, PartsInv, RestInv, TypeOK
<1> QED BY <1>1, RestInvariant, PTL

-----------------------------------------------------------------------------
(* What owns a session                                                     *)

(* Main only gets hold of the session it accepts for, or a new one.        *)
LEMMA AcceptorOwns ==
  ASSUME IInv, Acceptor, NEW s \in Made, Owned(s)'
  PROVE  Owned(s)
<1> USE DEF stopVars, workerVars, ioVars, handlerVars, historyVars, mainVars, acceptVars
<1>1. s \in Sessions /\ NoSession \notin Sessions
  BY ServerAssumption DEF ServerAssumption, Made
<1>2. cur' = cur \/ cur' \notin Made
  <2>1. CASE StartAccept
    BY <2>1, <1>1 DEF StartAccept, Made
  <2> QED BY <2>1 DEF Acceptor, Bind, BindFails, Accepted, AcceptFailed, Start, Insert
<1>3. /\ UNCHANGED <<pumpQue, nodes, writing, hpc, hs>>
      /\ reading' \subseteq reading \cup {cur} /\ sessions' \subseteq sessions \cup {cur}
  BY DEF Acceptor, Bind, BindFails, Accepted, AcceptFailed, Start, Insert
<1> QED BY <1>2, <1>3 DEF Owned, Subscribed, InHandler

(* A handler begins from an operation that owned its session.              *)
LEMMA HandlerOwns ==
  ASSUME IInv, NEW t \in Sessions, Handler(t), NEW s \in Made, Owned(s)'
  PROVE  Owned(s)
<1> USE DEF stopVars, workerVars, ioVars, handlerVars, historyVars, mainVars, acceptVars
<1>1. PartsInv
  BY DEF IInv
<1>2. /\ t \in reading \/ t \in writing
      /\ UNCHANGED <<cur, sessions, pumpQue, nodes>>
      /\ reading' \subseteq reading /\ writing' \subseteq writing
      /\ (\E place \in {"post", "flag", "clear"} : Enter(t, place)) \/ UNCHANGED <<hpc, hs>>
  BY DEF Handler, ReadRequest, ReadFails, ReadRejected, ReadThrows, WriteDone,
         WriteFails, CloseSocket
<1>3. ASSUME InHandler(s)' PROVE InHandler(s) \/ s = t
  <2>1. CASE UNCHANGED <<hpc, hs>>
    BY <2>1, <1>3 DEF InHandler
  <2>2. ASSUME NEW place \in {"post", "flag", "clear"}, Enter(t, place)
        PROVE  InHandler(s) \/ s = t
    <3>1. PICK k \in Services : hpc'[k] # "idle" /\ hs'[k] = s
      BY <1>3 DEF InHandler
    <3>2. CASE k = ioOf[t]
      <4>1. hs'[k] = t
        BY <2>2, <3>2, <1>1 DEF Enter, PartsInv
      <4> QED BY <3>1, <4>1
    <3>3. CASE k # ioOf[t]
      <4>1. hpc'[k] = hpc[k] /\ hs'[k] = hs[k]
        BY <2>2, <3>3, <1>1 DEF Enter, PartsInv
      <4> QED BY <3>1, <4>1 DEF InHandler
    <3> QED BY <3>2, <3>3
  <2> QED BY <1>2, <2>1, <2>2
<1>4. Subscribed(s)' <=> Subscribed(s)
  BY <1>2 DEF Subscribed
<1> QED BY <1>2, <1>3, <1>4 DEF Owned

(* A handler that goes on passes on the session it is about.               *)
LEMMA InsideHandlerOwns ==
  ASSUME IInv, RestInv, NEW k \in Services, InsideHandler(k), NEW s \in Made, Owned(s)'
  PROVE  Owned(s)
<1> USE DEF stopVars, workerVars, ioVars, handlerVars, historyVars, mainVars, acceptVars
<1>1. PartsInv
  BY DEF IInv
<1>2. /\ InHandler(hs[k])
      /\ UNCHANGED <<cur, pumpQue, writing>> /\ sessions' \subseteq sessions
      /\ reading' \subseteq reading \cup {hs[k]}
      /\ nodes' = nodes \/ nodes' = [nodes EXCEPT ![hs[k]] = @ + 1]
  BY DEF InsideHandler, Post, SetCloseFlag, ClearSession, InHandler
<1>3. Leave(k) \/ (hpc' = [hpc EXCEPT ![k] = "clear"] /\ hs' = hs)
  BY DEF InsideHandler, Post, SetCloseFlag, ClearSession
<1>4. InHandler(s)' => InHandler(s)
  <2>1. ASSUME NEW l \in Services, hpc'[l] # "idle"
        PROVE  hpc[l] # "idle" /\ hs'[l] = hs[l]
    <3>1. hpc[k] # "idle"
      BY DEF InsideHandler, Post, SetCloseFlag, ClearSession
    <3> QED BY <1>1, <1>3, <2>1, <3>1 DEF Leave, PartsInv
  <2> QED BY <2>1 DEF InHandler
<1>5. nodes'[s] > 0 => nodes[s] > 0 \/ s = hs[k]
  <2>1. CASE s # hs[k]
    BY <2>1, <1>2 DEF RestInv, Made
  <2> QED BY <2>1
<1>6. Subscribed(s)' <=> Subscribed(s)
  BY <1>2 DEF Subscribed
<1> QED BY <1>2, <1>4, <1>5, <1>6 DEF Owned

(* The worker replies to the session of a LogicNode it still holds.        *)
LEMMA ReplyOwns ==
  ASSUME RestInv, AskedInv, NEW t \in Sessions, Reply(t), NEW s \in Made, Owned(s)'
  PROVE  Owned(s)
<1> USE DEF stopVars, workerVars, ioVars, handlerVars, historyVars, mainVars, acceptVars
<1>1. /\ callback = t /\ nodes' = [nodes EXCEPT ![t] = @ - 1]
      /\ pumpQue' = pumpQue \/ pumpQue' = Append(pumpQue, t)
      /\ writing' = writing \cup ({t} \ stuck)
      /\ UNCHANGED <<cur, sessions, reading, hpc, hs>>
  BY DEF Reply, SendTo
<1>2. nodes[t] > 0
  BY <1>1, ServerAssumption DEF AskedInv, ServerAssumption
<1>3. CASE s = t
  BY <1>2, <1>3 DEF Owned
<1>4. CASE s # t
  <2>1. nodes'[s] = nodes[s]
    BY <1>1, <1>4 DEF Made, RestInv
  <2>2. s \in writing' => s \in writing
    BY <1>1, <1>4
  <2>3. Subscribed(s)' => Subscribed(s)
    <3>1. CASE pumpQue' = pumpQue
      BY <3>1 DEF Subscribed
    <3>2. CASE pumpQue' = Append(pumpQue, t)
      <4>1. pumpQue \in Seq(Sessions) /\ Len(pumpQue) \in Nat
        BY DEF RestInv
      <4>2. /\ Len(pumpQue') = Len(pumpQue) + 1 /\ pumpQue' \in Seq(Sessions)
            /\ \A i \in 1..Len(pumpQue) : pumpQue'[i] = pumpQue[i]
            /\ pumpQue'[Len(pumpQue) + 1] = t
        BY <3>2, <4>1, AppendProperties
      <4>3. DOMAIN pumpQue' = 1..Len(pumpQue') /\ DOMAIN pumpQue = 1..Len(pumpQue)
        BY <4>1, <4>2
      <4>4. ASSUME NEW i \in DOMAIN pumpQue', pumpQue'[i] = s PROVE Subscribed(s)
        <5>1. i \in DOMAIN pumpQue /\ pumpQue[i] = s
          BY <1>4, <4>1, <4>2, <4>3, <4>4
        <5> QED BY <5>1 DEF Subscribed
      <4> QED BY <4>4 DEF Subscribed
    <3> QED BY <1>1, <3>1, <3>2
  <2>4. InHandler(s)' <=> InHandler(s)
    BY <1>1 DEF InHandler
  <2> QED BY <1>1, <2>1, <2>2, <2>3, <2>4 DEF Owned
<1> QED BY <1>3, <1>4

(* OnTradeUpdate sends to who is on the list, and adds nobody.             *)
LEMMA TradeUpdateOwns ==
  ASSUME RestInv, TradeUpdate, NEW s \in Made, Owned(s)'
  PROVE  Owned(s)
<1> USE DEF stopVars, workerVars, ioVars, handlerVars, historyVars, mainVars, acceptVars
<1>1. /\ pumpQue' = Erased[Len(pumpQue)]
      /\ \A t \in writing' : t \in writing \/ Subscribed(t)
      /\ UNCHANGED <<cur, sessions, reading, nodes, hpc, hs>>
  BY DEF TradeUpdate, SendTo
<1> DEFINE On == {t \in Sessions : Subscribed(t)}
<1>2. pumpQue \in Seq(On)
  <2>1. pumpQue \in Seq(Sessions)
    BY DEF RestInv
  <2>2. \A i \in 1..Len(pumpQue) : pumpQue[i] \in On
    BY <2>1 DEF Subscribed
  <2> HIDE DEF On
  <2>3. Len(pumpQue) \in Nat /\ pumpQue \in [1..Len(pumpQue) -> On]
    BY <2>1, <2>2
  <2> QED BY <2>3, SeqDef
<1> HIDE DEF On
<1>3. pumpQue' \in Seq(On)
  BY <1>1, <1>2, ErasedType
<1>4. \A i \in DOMAIN pumpQue' : pumpQue'[i] \in On
  BY <1>3
<1>5. Subscribed(s)' => Subscribed(s)
  <2>1. Subscribed(s)' => \E i \in DOMAIN pumpQue' : pumpQue'[i] = s
    BY DEF Subscribed
  <2>2. Subscribed(s)' => s \in On
    BY <2>1, <1>4
  <2> QED BY <2>2 DEF On
<1>6. InHandler(s)' <=> InHandler(s)
  BY <1>1 DEF InHandler
<1> QED BY <1>1, <1>5, <1>6 DEF Owned

(* As CServer!DestroyedStaysDestroyed states: once the last shared_ptr to  *)
(* a session is gone, no accept, handler, reply, trade update or stop ever *)
(* gets hold of the session again.                                         *)
THEOREM NeverResurrected == Spec => DestroyedStaysDestroyed
<1>1. ASSUME IInv, RestInv, AskedInv, [Next]_vars
      PROVE  [\A s \in Made : ~Owned(s) => ~Owned(s)']_vars
  <2> USE DEF stopVars, workerVars, ioVars, handlerVars, historyVars, mainVars, acceptVars
  <2> SUFFICES ASSUME Next, NEW s \in Made, Owned(s)' PROVE Owned(s)
    BY <1>1
  <2>1. CASE Acceptor
    BY <1>1, <2>1, AcceptorOwns
  <2>2. CASE Signal \/ SignalHandler \/ \E k \in Services : LeaveRun(k)
    <3>1. UNCHANGED <<cur, sessions, pumpQue, reading, writing, hpc, hs, nodes>>
      BY <2>2 DEF Signal, SignalHandler, StopService, JoinThread, LeaveRun
    <3> QED BY <3>1 DEF Owned, Subscribed, InHandler
  <2>3. ASSUME NEW t \in Sessions, Handler(t) PROVE Owned(s)
    BY <1>1, <2>3, HandlerOwns
  <2>4. ASSUME NEW k \in Services, InsideHandler(k) PROVE Owned(s)
    BY <1>1, <2>4, InsideHandlerOwns
  <2>5. ASSUME NEW t \in Sessions, Dispatch(t) \/ PeerDown(t) PROVE Owned(s)
    <3>1. UNCHANGED <<cur, sessions, pumpQue, reading, writing, hpc, hs, nodes>>
      BY <2>5 DEF Dispatch, PeerDown
    <3> QED BY <3>1 DEF Owned, Subscribed, InHandler
  <2>6. ASSUME NEW t \in Sessions, Reply(t) PROVE Owned(s)
    BY <1>1, <2>6, ReplyOwns
  <2>7. CASE TradeUpdate
    BY <1>1, <2>7, TradeUpdateOwns
  <2> QED BY <2>1, <2>2, <2>3, <2>4, <2>5, <2>6, <2>7 DEF Next
<1> QED BY <1>1, RestInvariant, PTL DEF Spec, DestroyedStaysDestroyed

-----------------------------------------------------------------------------
(* When an update is safe                                                  *)

(* A trade update that finds just one entry of a closed session on the     *)
(* list erases nothing else and does not end the process; it takes two for *)
(* the positions to be off.                                                *)
THEOREM OneClosedIsErased ==
  Spec => [][TradeUpdate =>
               \A p \in DOMAIN pumpQue : ClosedPositions = {p} =>
                 pumpQue' = RemoveAt(pumpQue, p) /\ crashed' = FALSE]_vars
<1>1. ASSUME RestInv, TradeUpdate, NEW p \in DOMAIN pumpQue, ClosedPositions = {p}
      PROVE  pumpQue' = RemoveAt(pumpQue, p) /\ crashed' = FALSE
  <2>1. /\ pumpQue' = Erased[Len(pumpQue)]
        /\ crashed' \in {FALSE, Len(pumpQue') > Len(pumpQue) - Cardinality(ClosedPositions)}
    BY <1>1 DEF TradeUpdate
  <2>2. pumpQue \in Seq(Sessions) /\ p \in 1..Len(pumpQue) /\ Len(pumpQue) \in Nat
    BY <1>1 DEF RestInv
  <2>3. pumpQue' = RemoveAt(pumpQue, p)
    BY <1>1, <2>1, <2>2, OneErased
  <2>4. Cardinality(ClosedPositions) = 1
    BY <1>1, FS_Singleton
  <2>5. Len(pumpQue') = Len(pumpQue) - 1
    <3> DEFINE a == SubSeq(pumpQue, 1, p - 1)
               b == SubSeq(pumpQue, p + 1, Len(pumpQue))
    <3>1. /\ a \in Seq(Sessions) /\ Len(a) = p - 1
          /\ b \in Seq(Sessions) /\ Len(b) = Len(pumpQue) - p
      BY <2>2, SubSeqProperties
    <3> HIDE DEF a, b
    <3>2. Len(a \o b) = Len(a) + Len(b)
      BY <3>1, ConcatProperties
    <3>3. RemoveAt(pumpQue, p) = a \o b
      BY DEF RemoveAt, a, b
    <3>4. Len(pumpQue') = Len(a) + Len(b)
      BY <2>3, <3>2, <3>3, Zenon
    <3> QED BY <2>2, <3>1, <3>4
  <2>6. ~(Len(pumpQue') > Len(pumpQue) - Cardinality(ClosedPositions))
    BY <2>2, <2>4, <2>5
  <2>7. (Len(pumpQue') > Len(pumpQue) - Cardinality(ClosedPositions)) \in BOOLEAN
    OBVIOUS
  <2>8. crashed' = FALSE
    BY <2>1, <2>6, <2>7, Zenon
  <2> QED BY <2>3, <2>8
<1>2. ASSUME IInv /\ RestInv /\ AskedInv
      PROVE  [TradeUpdate =>
                \A p \in DOMAIN pumpQue : ClosedPositions = {p} =>
                  pumpQue' = RemoveAt(pumpQue, p) /\ crashed' = FALSE]_vars
  BY <1>1, <1>2
<1> QED BY <1>2, RestInvariant, PTL DEF Spec
-----------------------------------------------------------------------------
(* What EndedIsDestroyed needs of safety: a session that is not written    *)
(* any more because a write failed has _b_close set, so that the next      *)
(* trade update takes it from the list - or its handler is about to set    *)
(* it, or was ended by an exception.                                       *)
Closing(s) == \E k \in Services : hpc[k] = "flag" /\ hs[k] = s

StuckIsClosed == \A s \in stuck : s \in bClose \cup threw \/ Closing(s)

(* OnTradeUpdate, which looks at IsClose only, does not keep a session     *)
(* whose write failed, unless closing the socket threw.                    *)
THEOREM FailedWriteCloses == Spec => []StuckIsClosed
<1>1. Init => StuckIsClosed
  BY DEF Init, StuckIsClosed
<1>2. ASSUME stuck' = stuck, bClose \subseteq bClose', threw \subseteq threw',
             StuckIsClosed,
             \A k \in Services : hpc[k] = "flag" =>
               \/ hpc'[k] = "flag" /\ hs'[k] = hs[k]
               \/ hs[k] \in bClose'
      PROVE  StuckIsClosed'
  <2> SUFFICES ASSUME NEW s \in stuck PROVE s \in bClose' \cup threw' \/ Closing(s)'
    BY <1>2 DEF StuckIsClosed
  <2>1. CASE s \in bClose \cup threw
    BY <2>1, <1>2
  <2>2. ASSUME NEW k \in Services, hpc[k] = "flag", hs[k] = s
        PROVE  s \in bClose' \/ Closing(s)'
    BY <2>2, <1>2 DEF Closing
  <2> QED BY <2>1, <2>2, <1>2 DEF StuckIsClosed, Closing
<1>3. IInv /\ StuckIsClosed /\ [Next]_vars => StuckIsClosed'
  <2> SUFFICES ASSUME IInv, StuckIsClosed, [Next]_vars PROVE StuckIsClosed'
    OBVIOUS
  <2>1. /\ running \subseteq Services
        /\ hpc \in [Services -> {"idle", "post", "flag", "clear"}]
        /\ hs \in [Services -> Sessions \cup {NoSession}]
    BY DEF IInv, PartsInv
  <2> USE DEF stopVars, workerVars, ioVars, handlerVars, historyVars, mainVars, acceptVars
  <2>2. CASE Acceptor \/ Signal \/ SignalHandler
    BY <2>2, <1>2 DEF Acceptor, Bind, BindFails, Accepted, AcceptFailed, Start, Insert,
                      Signal, SignalHandler, StopService, JoinThread
  <2>3. ASSUME NEW s \in Sessions, Dispatch(s) \/ Reply(s) \/ PeerDown(s)
        PROVE  StuckIsClosed'
    BY <2>3, <1>2 DEF Dispatch, Reply, PeerDown
  <2>4. CASE TradeUpdate \/ UNCHANGED vars \/ \E k \in Services : LeaveRun(k)
    BY <2>4, <1>2 DEF TradeUpdate, LeaveRun, vars
  <2>5. ASSUME NEW s \in Sessions,
               ReadRequest(s) \/ ReadRejected(s) \/ ReadThrows(s) \/ WriteDone(s)
        PROVE  StuckIsClosed'
    BY <2>1, <2>5, <1>2 DEF ReadRequest, ReadRejected, ReadThrows, WriteDone, Idle, Enter
  <2>6. ASSUME NEW s \in Sessions, ReadFails(s) PROVE StuckIsClosed'
    BY <2>1, <2>6, <1>2 DEF ReadFails, CloseSocket, Idle, Enter
  <2>7. ASSUME NEW s \in Sessions, WriteFails(s) PROVE StuckIsClosed'
    <3>1. /\ stuck' = stuck \cup {s} /\ bClose' = bClose /\ threw \subseteq threw'
          /\ ioOf[s] \in Services /\ hpc[ioOf[s]] = "idle"
          /\ \/ Enter(s, "flag")
             \/ s \in threw' /\ UNCHANGED <<hpc, hs>>
      BY <2>1, <2>7 DEF WriteFails, CloseSocket, Idle
    <3>2. s \in threw' \/ Closing(s)'
      BY <2>1, <3>1 DEF Enter, Closing
    <3>3. \A r \in stuck : r \in bClose' \cup threw' \/ Closing(r)'
      BY <2>1, <3>1 DEF Enter, Closing, StuckIsClosed
    <3> QED BY <3>1, <3>2, <3>3 DEF StuckIsClosed
  <2>8. ASSUME NEW k \in Services, InsideHandler(k) PROVE StuckIsClosed'
    BY <2>1, <2>8, <1>2 DEF InsideHandler, Post, SetCloseFlag, ClearSession, Leave
  <2> QED BY <2>2, <2>3, <2>4, <2>5, <2>6, <2>7, <2>8 DEF Next, Handler
<1> QED BY <1>1, <1>3, Invariant, PTL DEF Spec
=============================================================================
