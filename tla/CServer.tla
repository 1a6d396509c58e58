------------------------------- MODULE CServer -------------------------------
(***************************************************************************)
(* The server around its sessions: main accepts and stops, the pool's io   *)
(* threads serve, LogicSyc's worker replies and MT4's callback thread      *)
(* sends trade updates; and who owns a session until it is destroyed.      *)
(*                                                                         *)
(* The acceptor and the signal handler run on main's io_context; the       *)
(* handlers of a session run on the thread of the io_context it was given, *)
(* one handler at a time, and wait for LogicSyc's _mutex while a callback  *)
(* runs.  HandleAccept starts a session before it registers it, so the     *)
(* session may have come and gone by then.                                 *)
(*                                                                         *)
(* Sessions are held by shared_ptr: a session is destroyed, and its socket *)
(* closed, in the moment the last owner lets go; _pump_que is one of the   *)
(* owners.  What a session sends is left to SessionSend, the order of      *)
(* requests to LogicSyc, and what subscribing during an update does to     *)
(* Mt4PumpSvr: here an update is one step.                                 *)
(***************************************************************************)
EXTENDS Naturals, FiniteSets, Sequences, SequencesExt

CONSTANTS
  Sessions,      \* the CSession objects that may be made
  Pool,          \* io_contexts in AsioIOServicePool
  MaxRequests,   \* bound: requests per session
  NoSession      \* nothing is being accepted: every object is used up

ASSUME ServerAssumption ==
  /\ Pool \in Nat \ {0}
  /\ MaxRequests \in Nat
  /\ IsFiniteSet(Sessions) /\ NoSession \notin Sessions

Services == 0..(Pool - 1)

VARIABLES
  apc,        \* main: "bind", "accept", or "start", "insert" inside HandleAccept;
              \* "stop", "join" inside the signal handler, "wait" in t.join
  cur,        \* the session of the pending accept or of HandleAccept
  ioOf,       \* the io_context of each session; Pool: not made yet
  next,       \* _nextIOService
  at,         \* Stop's place in _works, then in _threads
  running,    \* io_contexts that are not stopped
  works,      \* io_contexts that have their Work
  left,       \* io threads that have left run()
  sessions,   \* _sessions
  pumpQue,    \* _pump_que
  reading,    \* sessions with an outstanding async_read_some
  asked,      \* requests read, per session
  nodes,      \* LogicNodes that hold the session
  callback,   \* the session whose callback runs, with _mutex held
  writing,    \* sessions with an outstanding async_write
  stuck,      \* sessions whose write failed: _send_que is not written any more
  hpc,        \* per io thread: "idle", or "post", "flag", "clear" in a handler
  hs,         \* per io thread: the session of its handler
  open,       \* sessions whose _socket is open
  peerUp,     \* sessions whose connection works
  bClose,     \* sessions with _b_close set
  early,      \* history: cleared before they were inserted
  threw,      \* history: a handler ended by an exception
  crashed     \* the process is gone

acceptVars  == <<apc, cur, ioOf, next>>
stopVars    == <<at, running, works, left>>
mainVars    == <<acceptVars, stopVars>>
workerVars  == <<nodes, callback, pumpQue>>
handlerVars == <<hpc, hs, open, bClose>>
ioVars      == <<reading, writing, stuck, handlerVars>>
historyVars == <<early, threw>>
vars == <<mainVars, sessions, asked, workerVars, ioVars, peerUp, historyVars,
          crashed>>

TypeOK ==
  /\ apc \in {"bind", "accept", "start", "insert", "stop", "join", "wait"}
  /\ cur \in Sessions \cup {NoSession}
  /\ ioOf \in [Sessions -> Services \cup {Pool}]
  /\ next \in Services /\ at \in Services
  /\ running \subseteq Services /\ works \subseteq Services /\ left \subseteq Services
  /\ sessions \subseteq Sessions /\ reading \subseteq Sessions
  /\ pumpQue \in Seq(Sessions)
  /\ asked \in [Sessions -> 0..MaxRequests]
  /\ nodes \in [Sessions -> 0..MaxRequests]
  /\ callback \in Sessions \cup {NoSession}
  /\ writing \subseteq Sessions /\ stuck \subseteq Sessions
  /\ hpc \in [Services -> {"idle", "post", "flag", "clear"}]
  /\ hs \in [Services -> Sessions \cup {NoSession}]
  /\ open \subseteq Sessions /\ peerUp \subseteq Sessions /\ bClose \subseteq Sessions
  /\ early \subseteq Sessions /\ threw \subseteq Sessions
  /\ crashed \in BOOLEAN

Made == {s \in Sessions : ioOf[s] # Pool}

InHandler(s) == \E k \in Services : hpc[k] # "idle" /\ hs[k] = s

(* The io thread of s can begin a handler.                                 *)
Idle(s) == ioOf[s] \in running /\ hpc[ioOf[s]] = "idle"

Works(s) == s \in open /\ s \in peerUp

Subscribed(s) == \E i \in DOMAIN pumpQue : pumpQue[i] = s

(* Mutant: the handler of a write is bound to this, not to shared_self.    *)
OwnedNotByWrite(s) ==
  \/ s = cur \/ s \in sessions \/ Subscribed(s)
  \/ s \in reading \/ InHandler(s)
  \/ nodes[s] > 0

(* The owners: the accept handler, _sessions, _pump_que, the handlers of   *)
(* outstanding operations (SharedSelf), a running handler, the LogicNodes. *)
Owned(s) ==
  \/ s = cur \/ s \in sessions \/ Subscribed(s)
  \/ s \in reading \/ s \in writing \/ InHandler(s)
  \/ nodes[s] > 0

-----------------------------------------------------------------------------
(* AsioIOServicePool::GetIOService and CServer::StartAccept                *)

(* Mutant: the last io_context is never reached.                           *)
NextServiceShort(n) == IF n + 1 >= Pool - 1 THEN 0 ELSE n + 1

(* Mutant: no wrap around.                                                 *)
NextServiceNoWrap(n) == n + 1

NextService(n) == IF n + 1 = Pool THEN 0 ELSE n + 1

(* A new session on the next io_context, and an accept for it; which of    *)
(* the objects it is makes no difference.                                  *)
StartAccept ==
  \/ /\ Made # Sessions
     /\ cur' = CHOOSE s \in Sessions : s \notin Made
     /\ ioOf' = [ioOf EXCEPT ![cur'] = next]
     /\ next' = NextService(next)
  \/ /\ Made = Sessions
     /\ cur' = NoSession
     /\ UNCHANGED <<ioOf, next>>

Init ==
  /\ apc = "bind" /\ cur = NoSession
  /\ ioOf = [s \in Sessions |-> Pool] /\ next = 0
  /\ at = 0 /\ running = Services /\ works = Services /\ left = {}
  /\ sessions = {} /\ reading = {} /\ pumpQue = <<>>
  /\ asked = [s \in Sessions |-> 0] /\ nodes = [s \in Sessions |-> 0]
  /\ callback = NoSession
  /\ writing = {} /\ stuck = {}
  /\ hpc = [k \in Services |-> "idle"] /\ hs = [k \in Services |-> NoSession]
  /\ open = {} /\ peerUp = {} /\ bClose = {}
  /\ early = {} /\ threw = {}
  /\ crashed = FALSE

-----------------------------------------------------------------------------
(* CServer::CServer and CServer::HandleAccept, on main's thread            *)

Bind ==
  /\ apc = "bind"
  /\ apc' = "accept"
  /\ StartAccept
  /\ UNCHANGED <<stopVars, sessions, asked, workerVars, ioVars, peerUp,
                 historyVars, crashed>>

(* The port is taken: the constructor throws, the starter's std::thread is *)
(* destroyed while it is joinable, and std::terminate ends the process     *)
(* before the catch of main is reached.                                    *)
BindFails ==
  /\ apc = "bind"
  /\ crashed' = TRUE
  /\ UNCHANGED <<mainVars, sessions, asked, workerVars, ioVars, peerUp,
                 historyVars>>

(* A client connects.                                                      *)
Accepted ==
  /\ apc = "accept" /\ cur # NoSession
  /\ open' = open \cup {cur} /\ peerUp' = peerUp \cup {cur}
  /\ apc' = "start"
  /\ UNCHANGED <<cur, ioOf, next, stopVars, sessions, asked, workerVars, reading,
                 writing, stuck, hpc, hs, bClose, historyVars, crashed>>

(* The accept failed: its session is let go.                               *)
AcceptFailed ==
  /\ apc = "accept" /\ cur # NoSession
  /\ StartAccept
  /\ UNCHANGED <<apc, stopVars, sessions, asked, workerVars, ioVars, peerUp,
                 historyVars, crashed>>

(* new_session->Start()                                                    *)
Start ==
  /\ apc = "start"
  /\ reading' = reading \cup {cur}
  /\ apc' = "insert"
  /\ UNCHANGED <<cur, ioOf, next, stopVars, sessions, asked, workerVars, writing,
                 stuck, handlerVars, peerUp, historyVars, crashed>>

Insert ==
  /\ apc = "insert"
  /\ sessions' = sessions \cup {cur}
  /\ apc' = "accept"
  /\ StartAccept
  /\ UNCHANGED <<stopVars, asked, workerVars, ioVars, peerUp, historyVars, crashed>>

-----------------------------------------------------------------------------
(* The signal handler of main, and AsioIOServicePool::Stop                 *)

(* io_context.stop(): main's own one accepts nobody any more.              *)
Signal ==
  /\ apc = "accept"
  /\ apc' = "stop" /\ at' = 0
  /\ UNCHANGED <<cur, ioOf, next, running, works, left, sessions, asked,
                 workerVars, ioVars, peerUp, historyVars, crashed>>

(* The loop of main goes on to the next of the pool, or ends.              *)
Advance(place) ==
  IF at + 1 < Pool THEN at' = at + 1 /\ UNCHANGED apc
                   ELSE at' = 0 /\ apc' = place

(* Mutant: the Work is given up, the io_context is not stopped.            *)
StopServiceByReset ==
  /\ apc = "stop"
  /\ works' = works \ {at}
  /\ Advance("join")
  /\ UNCHANGED <<cur, ioOf, next, running, left, sessions, asked, workerVars,
                 ioVars, peerUp, historyVars, crashed>>

(* work->get_io_context().stop(); work.reset()                             *)
StopService ==
  /\ apc = "stop"
  /\ running' = running \ {at} /\ works' = works \ {at}
  /\ Advance("join")
  /\ UNCHANGED <<cur, ioOf, next, left, sessions, asked, workerVars, ioVars,
                 peerUp, historyVars, crashed>>

(* run() returns on an io thread: after the handler it is in when the      *)
(* io_context is stopped, or when there is neither Work nor operation.     *)
LeaveRun(k) ==
  /\ k \notin left /\ hpc[k] = "idle"
  /\ \/ k \notin running
     \/ k \notin works /\ \A s \in reading \cup writing : ioOf[s] # k
  /\ left' = left \cup {k}
  /\ UNCHANGED <<acceptVars, at, running, works, sessions, asked, workerVars,
                 ioVars, peerUp, historyVars, crashed>>

(* Mutant: the io threads are not waited for.                              *)
JoinNobody ==
  /\ apc = "join"
  /\ Advance("wait")
  /\ UNCHANGED <<cur, ioOf, next, running, works, left, sessions, asked,
                 workerVars, ioVars, peerUp, historyVars, crashed>>

(* t.join() for the pool's threads; then run() of main returns, and main   *)
(* waits for the starter, whose loop has no end.                           *)
JoinThread ==
  /\ apc = "join" /\ at \in left
  /\ Advance("wait")
  /\ UNCHANGED <<cur, ioOf, next, running, works, left, sessions, asked,
                 workerVars, ioVars, peerUp, historyVars, crashed>>

-----------------------------------------------------------------------------
(* The handlers of the sessions, on the pool's threads                     *)

Enter(s, place) ==
  /\ hpc' = [hpc EXCEPT ![ioOf[s]] = place]
  /\ hs' = [hs EXCEPT ![ioOf[s]] = s]

Leave(k) ==
  /\ hpc' = [hpc EXCEPT ![k] = "idle"]
  /\ hs' = [hs EXCEPT ![k] = NoSession]

(* A request is read.                                                      *)
ReadRequest(s) ==
  /\ s \in reading /\ Idle(s) /\ Works(s)
  /\ asked[s] < MaxRequests
  /\ asked' = [asked EXCEPT ![s] = @ + 1]
  /\ reading' = reading \ {s}
  /\ Enter(s, "post")
  /\ UNCHANGED <<mainVars, sessions, workerVars, writing, stuck, open, bClose,
                 peerUp, historyVars, crashed>>

(* PostMsgToQue, once no callback holds _mutex; then the next read.        *)
Post(k) ==
  /\ hpc[k] = "post" /\ callback = NoSession
  /\ nodes' = [nodes EXCEPT ![hs[k]] = @ + 1]
  /\ reading' = reading \cup {hs[k]}
  /\ Leave(k)
  /\ UNCHANGED <<mainVars, sessions, asked, callback, pumpQue, writing, stuck,
                 open, bClose, peerUp, historyVars, crashed>>

(* Close() begins: the socket is closed; when that throws the handler's    *)
(* catch ends it.                                                          *)
CloseSocket(s) ==
  /\ open' = open \ {s}
  /\ \/ Enter(s, "flag") /\ UNCHANGED threw
     \/ /\ s \in open
        /\ threw' = threw \cup {s}
        /\ UNCHANGED <<hpc, hs>>

ReadFails(s) ==
  /\ s \in reading /\ Idle(s) /\ ~Works(s)
  /\ reading' = reading \ {s}
  /\ CloseSocket(s)
  /\ UNCHANGED <<mainVars, sessions, asked, workerVars, writing, stuck, bClose,
                 peerUp, early, crashed>>

(* A header with a bad id or length: ClearSession without Close.           *)
ReadRejected(s) ==
  /\ s \in reading /\ Idle(s) /\ Works(s)
  /\ reading' = reading \ {s}
  /\ Enter(s, "clear")
  /\ UNCHANGED <<mainVars, sessions, asked, workerVars, writing, stuck, open,
                 bClose, peerUp, historyVars, crashed>>

(* A header with a length below -1: new[] throws.                           *)
ReadThrows(s) ==
  /\ s \in reading /\ Idle(s) /\ Works(s)
  /\ reading' = reading \ {s}
  /\ threw' = threw \cup {s}
  /\ UNCHANGED <<mainVars, sessions, asked, workerVars, writing, stuck,
                 handlerVars, peerUp, early, crashed>>

(* HandleWrite of the last message in _send_que.                           *)
WriteDone(s) ==
  /\ s \in writing /\ Idle(s) /\ Works(s)
  /\ writing' = writing \ {s}
  /\ UNCHANGED <<mainVars, sessions, asked, workerVars, reading, stuck,
                 handlerVars, peerUp, historyVars, crashed>>

WriteFails(s) ==
  /\ s \in writing /\ Idle(s) /\ ~Works(s)
  /\ writing' = writing \ {s} /\ stuck' = stuck \cup {s}
  /\ CloseSocket(s)
  /\ UNCHANGED <<mainVars, sessions, asked, workerVars, reading, bClose, peerUp,
                 early, crashed>>

(* _b_close = true                                                         *)
SetCloseFlag(k) ==
  /\ hpc[k] = "flag"
  /\ bClose' = bClose \cup {hs[k]}
  /\ hpc' = [hpc EXCEPT ![k] = "clear"]
  /\ UNCHANGED <<mainVars, sessions, asked, workerVars, reading, writing, stuck,
                 hs, open, peerUp, historyVars, crashed>>

(* Mutant: nothing is erased.                                              *)
ClearNothing(k) ==
  /\ hpc[k] = "clear"
  /\ Leave(k)
  /\ UNCHANGED <<mainVars, sessions, asked, workerVars, reading, writing, stuck,
                 open, bClose, peerUp, historyVars, crashed>>

(* _server->ClearSession(_uuid)                                            *)
ClearSession(k) ==
  /\ hpc[k] = "clear"
  /\ sessions' = sessions \ {hs[k]}
  /\ early' = IF hs[k] = cur THEN early \cup {cur} ELSE early
  /\ Leave(k)
  /\ UNCHANGED <<mainVars, asked, workerVars, reading, writing, stuck, open,
                 bClose, peerUp, threw, crashed>>

-----------------------------------------------------------------------------
(* LogicSyc's worker, and MT4's callback thread                            *)

(* Send: the message is written unless one before it has failed.           *)
SendTo(S) == writing' = writing \cup (S \ stuck)

(* A callback begins.                                                      *)
Dispatch(s) ==
  /\ callback = NoSession /\ nodes[s] > 0
  /\ callback' = s
  /\ UNCHANGED <<mainVars, sessions, asked, nodes, pumpQue, ioVars, peerUp,
                 historyVars, crashed>>

(* The callback has replied, and the LogicNode is let go.  PumpTrades puts *)
(* the session on the list before it replies.                              *)
Reply(s) ==
  /\ callback = s
  /\ callback' = NoSession
  /\ nodes' = [nodes EXCEPT ![s] = @ - 1]
  /\ pumpQue' \in {pumpQue, Append(pumpQue, s)}
  /\ SendTo({s})
  /\ UNCHANGED <<mainVars, sessions, asked, reading, stuck, handlerVars, peerUp,
                 historyVars, crashed>>

(* The list without the entry at a position; beyond its end, nothing is    *)
(* left to erase.                                                          *)
EraseAt(que, i) == IF i \in DOMAIN que THEN RemoveAt(que, i) ELSE que

ClosedPositions == {i \in DOMAIN pumpQue : pumpQue[i] \in bClose}

(* The list after the first n positions: the closed sessions are erased by *)
(* the positions they had before the first erase.                          *)
Erased[n \in 0..Len(pumpQue)] ==
  IF n = 0 THEN pumpQue
  ELSE IF n \in ClosedPositions THEN EraseAt(Erased[n - 1], n) ELSE Erased[n - 1]

(* Mutant: the closed sessions stay on the list.                           *)
TradeUpdateKeeps ==
  /\ pumpQue # <<>>
  /\ SendTo({s \in Sessions \ bClose : Subscribed(s)})
  /\ UNCHANGED <<mainVars, sessions, asked, workerVars, reading, stuck,
                 handlerVars, peerUp, historyVars, crashed>>

(* OnTradeUpdate: the open sessions on the list are sent the update; then  *)
(* the closed ones are erased by the positions they had at first, and      *)
(* beyond the end, which may end the process.                              *)
TradeUpdate ==
  /\ pumpQue # <<>>
  /\ SendTo({s \in Sessions \ bClose : Subscribed(s)})
  /\ pumpQue' = Erased[Len(pumpQue)]
  /\ crashed' \in {FALSE, Len(pumpQue') > Len(pumpQue) - Cardinality(ClosedPositions)}
  /\ UNCHANGED <<mainVars, sessions, asked, nodes, callback, reading, stuck,
                 handlerVars, peerUp, historyVars>>

PeerDown(s) ==
  /\ s \in peerUp
  /\ peerUp' = peerUp \ {s}
  /\ UNCHANGED <<mainVars, sessions, asked, workerVars, ioVars, historyVars, crashed>>

-----------------------------------------------------------------------------
Acceptor == Bind \/ BindFails \/ Accepted \/ AcceptFailed \/ Start \/ Insert

SignalHandler == StopService \/ JoinThread

Handler(s) ==
  \/ ReadRequest(s) \/ ReadFails(s) \/ ReadRejected(s) \/ ReadThrows(s)
  \/ WriteDone(s) \/ WriteFails(s)

InsideHandler(k) == Post(k) \/ SetCloseFlag(k) \/ ClearSession(k)

Next ==
  /\ ~crashed
  /\ \/ Acceptor \/ Signal \/ SignalHandler
     \/ \E s \in Sessions : Handler(s) \/ Dispatch(s) \/ Reply(s) \/ PeerDown(s)
     \/ \E k \in Services : InsideHandler(k) \/ LeaveRun(k)
     \/ TradeUpdate

(* As long as the process lives: main returns from its handlers, the io    *)
(* threads run those that are due, the worker's callbacks end, every write *)
(* ends, if only with an error, and MT4 goes on delivering trade updates.  *)
Fairness ==
  /\ WF_vars(~crashed /\ (Start \/ Insert))
  /\ WF_vars(~crashed /\ SignalHandler)
  /\ WF_vars(~crashed /\ TradeUpdate)
  /\ \A k \in Services :
       /\ WF_vars(~crashed /\ InsideHandler(k))
       /\ WF_vars(~crashed /\ LeaveRun(k))
  /\ \A s \in Sessions :
       /\ WF_vars(~crashed /\ Dispatch(s)) /\ WF_vars(~crashed /\ Reply(s))
       /\ WF_vars(~crashed /\ ReadFails(s))
       /\ WF_vars(~crashed /\ (WriteDone(s) \/ WriteFails(s)))

Spec == Init /\ [][Next]_vars /\ Fairness

-----------------------------------------------------------------------------
(* Properties                                                              *)

(* GetIOService deals the sessions out evenly: no io_context has been      *)
(* given two sessions more than another.                                   *)
PoolBalanced ==
  LET Given(k) == Cardinality({s \in Sessions : ioOf[s] = k})
  IN \A j, k \in Services : Given(j) <= Given(k) + 1

(* A registered session is one that is being read from or about to be      *)
(* cleared.  The exceptions: a handler ended by an exception, or           *)
(* ClearSession ran before HandleAccept inserted the session - which then  *)
(* stays in _sessions for good.                                            *)
RegisteredIsServed ==
  \A s \in sessions : s \in reading \/ InHandler(s) \/ s \in early \cup threw

(* A destroyed session is never reached again: what can still touch a      *)
(* session owns it.                                                        *)
DestroyedStaysDestroyed ==
  [][\A s \in Made : ~Owned(s) => ~Owned(s)']_vars

Ended(s) == /\ s \in Made /\ s # cur /\ ~InHandler(s)
            /\ ~(s \in reading /\ s \in open)

(* A session whose read loop has ended or whose socket was closed is       *)
(* destroyed, and its socket closed with it if nobody called Close; with   *)
(* the exceptions above, and two more: a session that was cleared without  *)
(* Close stays subscribed while its client is connected, and a stopped     *)
(* io_context runs no handler.                                             *)
EndedIsDestroyed ==
  \A s \in Sessions :
    Ended(s) ~> \/ ~Owned(s) \/ s \in early \cup threw
                \/ Subscribed(s) /\ Works(s)
                \/ crashed \/ ioOf[s] \notin running

(* A signal stops the io threads, whatever clients and callbacks do: main  *)
(* gets as far as waiting for the starter, and no further.                 *)
SignalStopsServing == apc = "stop" ~> crashed \/ [](apc = "wait")

(* When AsioIOServicePool::Stop has returned, no session is read from,     *)
(* closed or unregistered any more.                                        *)
StoppedIsQuiet ==
  [][apc = "wait" => UNCHANGED <<sessions, asked, reading, hpc, open, bClose>>]_vars
=============================================================================
