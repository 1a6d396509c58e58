----------------------------- MODULE SessionSend -----------------------------
(***************************************************************************)
(* The sending half of one CSession, with everything that can close it.    *)
(*                                                                         *)
(* Send runs on the threads in Senders: LogicSyc's worker (replies) and    *)
(* the MT4 pump callback thread (trade updates).  HandleWrite and the      *)
(* failing read handler run on the session's io thread, one at a time.     *)
(* _send_lock covers _send_que only: Close and ClearSession run without    *)
(* it, so their assignments are steps of their own here.                   *)
(*                                                                         *)
(* A frame leaves in Parts partial writes, as boost's async_write does,    *)
(* and the client puts the parts it receives together again.  A second     *)
(* outstanding async_write would therefore be seen as a garbled frame.     *)
(***************************************************************************)
EXTENDS Naturals, Sequences

CONSTANTS
  Senders,      \* the threads that call Send on this session
  MaxSends,     \* bound: calls of Send per thread
  Parts,        \* partial writes per frame
  IO,           \* the session's io thread
  NoThread,     \* nobody holds _send_lock
  Garbled       \* what the client decodes from mixed-up parts

ASSUME SendAssumption ==
  /\ MaxSends \in Nat
  /\ Parts \in Nat \ {0}
  /\ IO \notin Senders
  /\ NoThread \notin Senders \cup {IO}
  /\ Garbled \notin Senders \X Nat

VARIABLES
  sendQue,      \* _send_que
  sendLock,     \* holder of _send_lock
  pc,           \* per sender: "idle", or "push" inside Send
  queSize,      \* per sender: its local send_que_size
  sent,         \* per sender: calls of Send so far
  accepted,     \* history: messages pushed, in order
  writes,       \* outstanding async_write operations
  completed,    \* finished async_writes whose HandleWrite has not run yet
  ioPc,         \* io thread: "idle", or inside HandleWrite / Close / ClearSession
  socketOpen,   \* _socket is open
  peerUp,       \* the connection to the client works
  reading,      \* an async_read_some is outstanding
  bClose,       \* _b_close
  registered,   \* the session is in CServer::_sessions
  partial,      \* client: parts of the frame being received
  received      \* client: frames received

sendVars   == <<pc, queSize, sent>>
queueVars  == <<sendQue, accepted>>
closeVars  == <<socketOpen, bClose, registered>>
clientVars == <<partial, received>>
vars == <<sendVars, queueVars, sendLock, writes, completed, ioPc, closeVars,
          peerUp, reading, clientVars>>

Messages == Senders \X (1..MaxSends)

Frame(m) == [k \in 1..Parts |-> [msg |-> m, part |-> k]]

Ops == [msg : Messages, done : 0..(Parts - 1)]

Completions == [msg : Messages, ok : BOOLEAN]

TypeOK ==
  /\ sendQue \in Seq(Messages)
  /\ sendLock \in Senders \cup {IO, NoThread}
  /\ pc \in [Senders -> {"idle", "push"}]
  /\ queSize \in [Senders -> Nat]
  /\ sent \in [Senders -> 0..MaxSends]
  /\ accepted \in Seq(Messages)
  /\ writes \subseteq Ops
  /\ completed \subseteq Completions
  /\ ioPc \in {"idle", "pop", "flag", "clear"}
  /\ socketOpen \in BOOLEAN /\ peerUp \in BOOLEAN /\ reading \in BOOLEAN
  /\ bClose \in BOOLEAN /\ registered \in BOOLEAN
  /\ partial \in Seq([msg : Messages, part : 1..Parts])
  /\ received \in Seq(Messages \cup {Garbled})

(* CServer::HandleAccept has started the session and registered it.        *)
Init ==
  /\ sendQue = <<>> /\ accepted = <<>>
  /\ sendLock = NoThread
  /\ pc = [t \in Senders |-> "idle"]
  /\ queSize = [t \in Senders |-> 0]
  /\ sent = [t \in Senders |-> 0]
  /\ writes = {} /\ completed = {}
  /\ ioPc = "idle"
  /\ socketOpen = TRUE /\ peerUp = TRUE /\ reading = TRUE
  /\ bClose = FALSE /\ registered = TRUE
  /\ partial = <<>> /\ received = <<>>

StartWrite(m) == writes' = writes \cup {[msg |-> m, done |-> 0]}

-----------------------------------------------------------------------------
(* CSession::Send                                                          *)

(* Mutant: the size is taken one too small.                                *)
SendEnterOffByOne(t) ==
  /\ pc[t] = "idle"
  /\ sent[t] < MaxSends
  /\ sendLock = NoThread
  /\ sendLock' = t
  /\ pc' = [pc EXCEPT ![t] = "push"]
  /\ queSize' = [queSize EXCEPT ![t] = Len(sendQue) - 1]
  /\ sent' = [sent EXCEPT ![t] = @ + 1]
  /\ UNCHANGED <<queueVars, writes, completed, ioPc, closeVars, peerUp,
                 reading, clientVars>>

(* Take _send_lock and read the size of the queue.  A size above           *)
(* MAX_SENDQUE is logged and nothing else: the return is commented out, so *)
(* the queue has no limit.                                                 *)
SendEnter(t) ==
  /\ pc[t] = "idle"
  /\ sent[t] < MaxSends
  /\ sendLock = NoThread
  /\ sendLock' = t
  /\ pc' = [pc EXCEPT ![t] = "push"]
  /\ queSize' = [queSize EXCEPT ![t] = Len(sendQue)]
  /\ sent' = [sent EXCEPT ![t] = @ + 1]
  /\ UNCHANGED <<queueVars, writes, completed, ioPc, closeVars, peerUp,
                 reading, clientVars>>

(* Mutant: every Send starts a write, outstanding or not.                  *)
SendPushAlwaysWrites(t) ==
  /\ pc[t] = "push"
  /\ sendQue' = Append(sendQue, <<t, sent[t]>>)
  /\ accepted' = Append(accepted, <<t, sent[t]>>)
  /\ StartWrite(Head(sendQue'))
  /\ sendLock' = NoThread
  /\ pc' = [pc EXCEPT ![t] = "idle"]
  /\ UNCHANGED <<queSize, sent, completed, ioPc, closeVars, peerUp, reading,
                 clientVars>>

(* Push the node; only the call that found the queue empty starts a write, *)
(* of the front.  The lock is released on return.                          *)
SendPush(t) ==
  /\ pc[t] = "push"
  /\ sendQue' = Append(sendQue, <<t, sent[t]>>)
  /\ accepted' = Append(accepted, <<t, sent[t]>>)
  /\ \/ queSize[t] > 0 /\ UNCHANGED writes
     \/ queSize[t] = 0 /\ StartWrite(Head(sendQue'))
  /\ sendLock' = NoThread
  /\ pc' = [pc EXCEPT ![t] = "idle"]
  /\ UNCHANGED <<queSize, sent, completed, ioPc, closeVars, peerUp, reading,
                 clientVars>>

-----------------------------------------------------------------------------
(* boost::asio and the network (external)                                  *)

(* A part of the frame reaches the client, which decodes complete frames.  *)
WriteSome(w) ==
  /\ socketOpen /\ peerUp
  /\ LET got == Append(partial, [msg |-> w.msg, part |-> w.done + 1])
     IN \/ /\ Len(got) < Parts
           /\ partial' = got
           /\ UNCHANGED received
        \/ /\ Len(got) = Parts
           /\ partial' = <<>>
           /\ received' = Append(received,
                IF got = Frame(w.msg) THEN w.msg ELSE Garbled)
  /\ \/ /\ w.done + 1 < Parts
        /\ writes' = (writes \ {w}) \cup {[w EXCEPT !.done = @ + 1]}
        /\ UNCHANGED completed
     \/ /\ w.done + 1 = Parts
        /\ writes' = writes \ {w}
        /\ completed' = completed \cup {[msg |-> w.msg, ok |-> TRUE]}
  /\ UNCHANGED <<sendVars, queueVars, sendLock, ioPc, closeVars, peerUp, reading>>

(* The operation ends with an error: connection lost, or socket closed.    *)
WriteFails(w) ==
  /\ ~(socketOpen /\ peerUp)
  /\ writes' = writes \ {w}
  /\ completed' = completed \cup {[msg |-> w.msg, ok |-> FALSE]}
  /\ UNCHANGED <<sendVars, queueVars, sendLock, ioPc, closeVars, peerUp,
                 reading, clientVars>>

PeerDown ==
  /\ peerUp
  /\ peerUp' = FALSE
  /\ UNCHANGED <<sendVars, queueVars, sendLock, writes, completed, ioPc,
                 closeVars, reading, clientVars>>

-----------------------------------------------------------------------------
(* CSession::HandleWrite                                                   *)

(* No error: take _send_lock.                                              *)
HandleWriteEnter ==
  /\ ioPc = "idle"
  /\ sendLock = NoThread
  /\ \E c \in completed : c.ok /\ completed' = completed \ {c}
  /\ sendLock' = IO
  /\ ioPc' = "pop"
  /\ UNCHANGED <<sendVars, queueVars, writes, closeVars, peerUp, reading,
                 clientVars>>

(* Mutant: the next write is started before the pop.                       *)
HandleWritePopLate ==
  /\ ioPc = "pop"
  /\ sendQue' = Tail(sendQue)
  /\ \/ sendQue = <<>> /\ UNCHANGED writes
     \/ sendQue # <<>> /\ StartWrite(Head(sendQue))
  /\ sendLock' = NoThread
  /\ ioPc' = "idle"
  /\ UNCHANGED <<sendVars, accepted, completed, closeVars, peerUp, reading,
                 clientVars>>

(* Pop the message just written, start writing the next one, unlock.       *)
HandleWritePop ==
  /\ ioPc = "pop"
  /\ sendQue' = Tail(sendQue)
  /\ \/ sendQue' = <<>> /\ UNCHANGED writes
     \/ sendQue' # <<>> /\ StartWrite(Head(sendQue'))
  /\ sendLock' = NoThread
  /\ ioPc' = "idle"
  /\ UNCHANGED <<sendVars, accepted, completed, closeVars, peerUp, reading,
                 clientVars>>

-----------------------------------------------------------------------------
(* CSession::Close and CServer::ClearSession                               *)

(* _socket.close().  When it throws, the handler's catch logs and returns: *)
(* the descriptor is gone, _b_close and _sessions stay as they are.        *)
CloseSocket ==
  /\ socketOpen' = FALSE
  /\ \/ ioPc' = "flag"
     \/ socketOpen /\ ioPc' = "idle"
  /\ UNCHANGED <<bClose, registered>>

(* Error: the front stays in _send_que and the session is closed.          *)
HandleWriteError ==
  /\ ioPc = "idle"
  /\ \E c \in completed : ~c.ok /\ completed' = completed \ {c}
  /\ CloseSocket
  /\ UNCHANGED <<sendVars, queueVars, sendLock, writes, peerUp, reading,
                 clientVars>>

(* The outstanding read fails: AsyncReadHead and AsyncReadBody close.      *)
ReadFailed ==
  /\ ioPc = "idle"
  /\ reading /\ ~(socketOpen /\ peerUp)
  /\ reading' = FALSE
  /\ CloseSocket
  /\ UNCHANGED <<sendVars, queueVars, sendLock, writes, completed, peerUp,
                 clientVars>>

(* An invalid id or length ends the read loop: ClearSession, no Close.     *)
ReadRejected ==
  /\ ioPc = "idle"
  /\ reading /\ socketOpen /\ peerUp
  /\ reading' = FALSE
  /\ ioPc' = "clear"
  /\ UNCHANGED <<sendVars, queueVars, sendLock, writes, completed, closeVars,
                 peerUp, clientVars>>

(* A length below -1 makes the allocation of RecvNode throw: the handler's *)
(* catch logs and the read loop is over, with nothing closed or cleared.   *)
ReadThrows ==
  /\ ioPc = "idle"
  /\ reading /\ socketOpen /\ peerUp
  /\ reading' = FALSE
  /\ UNCHANGED <<sendVars, queueVars, sendLock, writes, completed, ioPc,
                 closeVars, peerUp, clientVars>>

(* _b_close = true                                                         *)
SetCloseFlag ==
  /\ ioPc = "flag"
  /\ bClose' = TRUE
  /\ ioPc' = "clear"
  /\ UNCHANGED <<sendVars, queueVars, sendLock, writes, completed, socketOpen,
                 registered, peerUp, reading, clientVars>>

(* Mutant: the erase misses the entry.                                     *)
ClearSessionMissing ==
  /\ ioPc = "clear"
  /\ ioPc' = "idle"
  /\ UNCHANGED <<sendVars, queueVars, sendLock, writes, completed, closeVars,
                 peerUp, reading, clientVars>>

(* _server->ClearSession(_uuid)                                            *)
ClearSession ==
  /\ ioPc = "clear"
  /\ registered' = FALSE
  /\ ioPc' = "idle"
  /\ UNCHANGED <<sendVars, queueVars, sendLock, writes, completed, socketOpen,
                 bClose, peerUp, reading, clientVars>>

-----------------------------------------------------------------------------
Network == (\E w \in writes : WriteSome(w) \/ WriteFails(w)) \/ PeerDown

IOThread ==
  \/ HandleWriteEnter \/ HandleWritePop \/ HandleWriteError
  \/ ReadFailed \/ ReadRejected \/ ReadThrows \/ SetCloseFlag \/ ClearSession

Next == (\E t \in Senders : SendEnter(t) \/ SendPush(t)) \/ IOThread \/ Network

(* A thread inside Send goes on, the io thread runs its handlers, and the  *)
(* network moves or fails every write.  Nothing forces a Send, a bad       *)
(* header or the loss of the connection.                                   *)
Fairness ==
  /\ \A t \in Senders : WF_vars(SendPush(t))
  /\ WF_vars(HandleWriteEnter) /\ WF_vars(HandleWritePop)
  /\ WF_vars(HandleWriteError) /\ WF_vars(ReadFailed)
  /\ WF_vars(SetCloseFlag) /\ WF_vars(ClearSession)
  /\ WF_vars(\E w \in writes : WriteSome(w) \/ WriteFails(w))

Spec == Init /\ [][Next]_vars /\ Fairness

-----------------------------------------------------------------------------
(* Properties                                                              *)

(* At most one async_write is outstanding on the socket, counting the one  *)
(* whose HandleWrite has not run yet: boost::asio forbids a second one.    *)
OneWriteAtATime ==
  /\ \A v, w \in writes : v = w
  /\ \A c, d \in completed : c = d
  /\ writes = {} \/ completed = {}

(* The buffer of an outstanding write belongs to the front of _send_que,   *)
(* which keeps the SendNode alive until HandleWrite pops it.               *)
WrittenBufferIsHeld ==
  \A w \in writes : sendQue # <<>> /\ w.msg = Head(sendQue)

(* The client never decodes a frame mixed from two messages.               *)
FramesIntact == \A i \in 1..Len(received) : received[i] # Garbled

(* A session whose client is gone leaves CServer::_sessions, with two      *)
(* exceptions: _socket.close() threw, and the socket is closed but nothing *)
(* says so; or the read loop had ended by an exception and no write is     *)
(* outstanding that could fail.                                            *)
HalfClosed == ~socketOpen /\ ~bClose /\ ioPc = "idle"

Unwatched == socketOpen /\ ~reading /\ writes = {} /\ completed = {}

LostPeerUnregistered == ~peerUp ~> (~registered \/ HalfClosed \/ Unwatched)

(* The client receives what Send was given, in the order of the pushes,    *)
(* nothing twice, nothing left out, and everything if the connection lasts.*)
Channel == INSTANCE FifoChannel WITH
  Message <- Messages,
  broken  <- ~(socketOpen /\ peerUp)

ClientReceivesInOrder == Channel!Spec

(* The invariant behind these properties, in four parts.                   *)

(* _send_lock belongs to the thread inside Send or HandleWrite, and what   *)
(* Send read of the queue's size is still true when it pushes.             *)
LockInv ==
  /\ \A t \in Senders : pc[t] = "push" <=> sendLock = t
  /\ ioPc = "pop" <=> sendLock = IO
  /\ \A t \in Senders : pc[t] = "push" => queSize[t] = Len(sendQue) /\ sent[t] > 0

(* The write of the front is complete, but the front is not popped yet.    *)
FrontDelivered == ioPc = "pop" \/ \E c \in completed : c.ok

(* There is one operation on the socket at most, and it writes the front.  *)
WriteInv ==
  /\ OneWriteAtATime
  /\ ioPc = "pop" => writes = {} /\ completed = {}
  /\ writes # {} \/ completed # {} \/ ioPc = "pop" => sendQue # <<>>
  /\ \A w \in writes : w.msg = sendQue[1]
  /\ \A c \in completed : c.msg = sendQue[1]

PartsOf(m, n) == [k \in 1..n |-> [msg |-> m, part |-> k]]

(* The client holds the parts written of the front, and none between two   *)
(* frames.  After a failed write it may hold some, but then the front      *)
(* stays where it is and nothing is written any more.                      *)
PartialInv ==
  /\ \A w \in writes : partial = PartsOf(w.msg, w.done)
  /\ writes = {} /\ (sendQue = <<>> \/ FrontDelivered) => partial = <<>>

(* What was pushed is what the client has, then what the queue still holds.*)
Popped == Len(accepted) - Len(sendQue)

DeliveryInv ==
  /\ Popped \in Nat
  /\ \A i \in 1..Len(sendQue) : sendQue[i] = accepted[Popped + i]
  /\ Len(received) = Popped + (IF FrontDelivered THEN 1 ELSE 0)
  /\ \A i \in 1..Len(received) : received[i] = accepted[i]

SendInv == LockInv /\ WriteInv /\ PartialInv /\ DeliveryInv
=============================================================================
