------------------------------ MODULE LogicSyc ------------------------------
(***************************************************************************)
(* LogicSyc's request queue: the io threads post the requests they have    *)
(* read, one worker thread takes them from the front and runs the callback *)
(* registered for their id, with _mutex held all the while.                *)
(*                                                                         *)
(* PostMsgToQue notifies only when it made the queue non-empty, and does   *)
(* so after unlocking.  The destructor sets _b_stop without the lock.  The *)
(* steps are cut at these points: what happens under _mutex is one step    *)
(* unless it reads _b_stop, runs a callback or waits.                      *)
(***************************************************************************)
EXTENDS Naturals, Sequences

CONSTANTS
  Posters,    \* the threads that call PostMsgToQue
  MaxPosts,   \* bound: posts per thread
  Worker,     \* _worker_thread
  NoThread    \* nobody holds _mutex

ASSUME PostAssumption ==
  /\ MaxPosts \in Nat
  /\ Worker \notin Posters
  /\ NoThread \notin Posters \cup {Worker}

VARIABLES
  msgQue,     \* _msg_que
  mutex,      \* holder of _mutex
  bStop,      \* _b_stop
  ppc,        \* per poster: "idle", or "notify" between unlock and notify_one
  posted,     \* per poster: posts so far
  wpc,        \* where the worker is in DealMsg
  dpc,        \* where the destructor is
  missed,     \* history: its notify fell between the worker's test and its wait
  accepted,   \* history: the requests pushed
  handled     \* history: the requests dispatched or dropped

posterVars == <<ppc, posted>>
destructorVars == <<bStop, dpc, missed>>
vars == <<msgQue, mutex, posterVars, wpc, destructorVars, accepted, handled>>

(* A request is known when _fun_callbacks has an entry for its id.         *)
Requests == [from : Posters, n : 1..MaxPosts, known : BOOLEAN]

(* The places of DealMsg where the worker holds _mutex.                    *)
Locked == {"test", "block", "stopTest", "front", "callback", "drain", "drainCallback"}

TypeOK ==
  /\ msgQue \in Seq(Requests)
  /\ mutex \in {Worker, NoThread}
  /\ bStop \in BOOLEAN /\ missed \in BOOLEAN
  /\ ppc \in [Posters -> {"idle", "notify"}]
  /\ posted \in [Posters -> 0..MaxPosts]
  /\ wpc \in Locked \cup {"init", "lock", "waiting", "woken", "done"}
  /\ dpc \in {"idle", "notify", "join", "done"}
  /\ accepted \in Seq(Requests)
  /\ handled \in Seq(Requests)

Init ==
  /\ msgQue = <<>> /\ accepted = <<>> /\ handled = <<>>
  /\ mutex = NoThread
  /\ bStop = FALSE /\ missed = FALSE
  /\ ppc = [p \in Posters |-> "idle"]
  /\ posted = [p \in Posters |-> 0]
  /\ wpc = "init" /\ dpc = "idle"

(* notify_one: the worker is the only thread that waits on _consume.       *)
NotifyOne == wpc' = IF wpc = "waiting" THEN "woken" ELSE wpc

-----------------------------------------------------------------------------
(* PostMsgToQue                                                            *)

(* Mutant: the size is looked at before the push.                          *)
PostPushStaleSize(p) ==
  /\ dpc = "idle" /\ ppc[p] = "idle" /\ posted[p] < MaxPosts
  /\ mutex = NoThread
  /\ \E r \in [from : {p}, n : {posted[p] + 1}, known : BOOLEAN] :
        /\ msgQue' = Append(msgQue, r)
        /\ accepted' = Append(accepted, r)
  /\ posted' = [posted EXCEPT ![p] = @ + 1]
  /\ ppc' = [ppc EXCEPT ![p] = IF Len(msgQue) = 1 THEN "notify" ELSE @]
  /\ UNCHANGED <<mutex, wpc, destructorVars, handled>>

(* Mutant: only the path that notifies unlocks.                            *)
PostPushKeepsLock(p) ==
  /\ dpc = "idle" /\ ppc[p] = "idle" /\ posted[p] < MaxPosts
  /\ mutex = NoThread
  /\ \E r \in [from : {p}, n : {posted[p] + 1}, known : BOOLEAN] :
        /\ msgQue' = Append(msgQue, r)
        /\ accepted' = Append(accepted, r)
  /\ posted' = [posted EXCEPT ![p] = @ + 1]
  /\ ppc' = [ppc EXCEPT ![p] = IF Len(msgQue') = 1 THEN "notify" ELSE @]
  /\ mutex' = IF Len(msgQue') = 1 THEN NoThread ELSE p
  /\ UNCHANGED <<wpc, destructorVars, handled>>

(* Push under _mutex; the thread that made the size 1 unlocks and goes on  *)
(* to notify.  The io threads are joined before the singleton goes away.   *)
PostPush(p) ==
  /\ dpc = "idle" /\ ppc[p] = "idle" /\ posted[p] < MaxPosts
  /\ mutex = NoThread
  /\ \E r \in [from : {p}, n : {posted[p] + 1}, known : BOOLEAN] :
        /\ msgQue' = Append(msgQue, r)
        /\ accepted' = Append(accepted, r)
  /\ posted' = [posted EXCEPT ![p] = @ + 1]
  /\ ppc' = [ppc EXCEPT ![p] = IF Len(msgQue') = 1 THEN "notify" ELSE @]
  /\ UNCHANGED <<mutex, wpc, destructorVars, handled>>

PostNotify(p) ==
  /\ ppc[p] = "notify"
  /\ NotifyOne
  /\ ppc' = [ppc EXCEPT ![p] = "idle"]
  /\ UNCHANGED <<msgQue, mutex, posted, destructorVars, accepted, handled>>

-----------------------------------------------------------------------------
(* DealMsg                                                                 *)

(* A step of the worker that moves nothing but itself.                     *)
WorkerGoes(from, to) ==
  /\ wpc = from
  /\ wpc' = to
  /\ UNCHANGED <<msgQue, mutex, posterVars, destructorVars, accepted, handled>>

(* Mt4MgrSvr and the log are set up before the first request is looked at. *)
InitMgr == WorkerGoes("init", "lock")

TakeLock ==
  /\ wpc \in {"lock", "woken"}
  /\ mutex = NoThread
  /\ mutex' = Worker
  /\ wpc' = "test"
  /\ UNCHANGED <<msgQue, posterVars, destructorVars, accepted, handled>>

(* while (_msg_que.empty() && !_b_stop)                                    *)
TestQueue ==
  \/ msgQue = <<>> /\ ~bStop /\ WorkerGoes("test", "block")
  \/ (msgQue # <<>> \/ bStop) /\ WorkerGoes("test", "stopTest")

(* _consume.wait: unlock and block in one step.                            *)
Wait ==
  /\ wpc = "block"
  /\ mutex' = NoThread
  /\ wpc' = "waiting"
  /\ UNCHANGED <<msgQue, posterVars, destructorVars, accepted, handled>>

SpuriousWakeup == WorkerGoes("waiting", "woken")

(* if (_b_stop)                                                            *)
TestStop == WorkerGoes("stopTest", IF bStop THEN "drain" ELSE "front")

(* The callback of the front request is called.                            *)
Dispatch(from, to) ==
  /\ wpc = from
  /\ msgQue # <<>> /\ Head(msgQue).known
  /\ handled' = Append(handled, Head(msgQue))
  /\ wpc' = to
  /\ UNCHANGED <<msgQue, mutex, posterVars, destructorVars, accepted>>

(* Mutant: a request without a callback stays in the queue.                *)
DropUnknownKeeps(from, to) ==
  /\ wpc = from
  /\ msgQue # <<>> /\ ~Head(msgQue).known
  /\ handled' = Append(handled, Head(msgQue))
  /\ wpc' = to
  /\ mutex' = IF to = "lock" THEN NoThread ELSE Worker
  /\ UNCHANGED <<msgQue, posterVars, destructorVars, accepted>>

(* No callback for its id: the front request is popped, nobody is told.    *)
DropUnknown(from, to) ==
  /\ wpc = from
  /\ msgQue # <<>> /\ ~Head(msgQue).known
  /\ handled' = Append(handled, Head(msgQue))
  /\ msgQue' = Tail(msgQue)
  /\ wpc' = to
  /\ mutex' = IF to = "lock" THEN NoThread ELSE Worker
  /\ UNCHANGED <<posterVars, destructorVars, accepted>>

(* The callback returns and its request is popped; the end of the loop's   *)
(* body releases _mutex, the drain loop keeps it.                          *)
CallbackReturns(from, to) ==
  /\ wpc = from
  /\ msgQue' = Tail(msgQue)
  /\ wpc' = to
  /\ mutex' = IF to = "lock" THEN NoThread ELSE Worker
  /\ UNCHANGED <<posterVars, destructorVars, accepted, handled>>

HandleFront ==
  \/ Dispatch("front", "callback")
  \/ DropUnknown("front", "lock")
  \/ CallbackReturns("callback", "lock")

(* Mutant: the worker leaves as soon as it sees _b_stop.                   *)
DrainNothing ==
  /\ wpc = "drain"
  /\ mutex' = NoThread
  /\ wpc' = "done"
  /\ UNCHANGED <<msgQue, posterVars, destructorVars, accepted, handled>>

(* After _b_stop the queue is emptied, then the worker returns.            *)
Drain ==
  \/ Dispatch("drain", "drainCallback")
  \/ DropUnknown("drain", "drain")
  \/ CallbackReturns("drainCallback", "drain")
  \/ /\ wpc = "drain" /\ msgQue = <<>>
     /\ mutex' = NoThread
     /\ wpc' = "done"
     /\ UNCHANGED <<msgQue, posterVars, destructorVars, accepted, handled>>

-----------------------------------------------------------------------------
(* ~LogicSyc                                                               *)

(* _b_stop = true, without _mutex.                                         *)
SetStop ==
  /\ dpc = "idle"
  /\ \A p \in Posters : ppc[p] = "idle"
  /\ bStop' = TRUE
  /\ dpc' = "notify"
  /\ UNCHANGED <<msgQue, mutex, posterVars, wpc, missed, accepted, handled>>

(* Mutant: no notify_one.                                                  *)
NotifyStopForgotten ==
  /\ dpc = "notify"
  /\ dpc' = "join"
  /\ UNCHANGED <<msgQue, mutex, posterVars, wpc, bStop, missed, accepted, handled>>

NotifyStop ==
  /\ dpc = "notify"
  /\ NotifyOne
  /\ missed' = (wpc = "block")
  /\ dpc' = "join"
  /\ UNCHANGED <<msgQue, mutex, posterVars, bStop, accepted, handled>>

Join ==
  /\ dpc = "join" /\ wpc = "done"
  /\ dpc' = "done"
  /\ UNCHANGED <<msgQue, mutex, posterVars, wpc, bStop, missed, accepted, handled>>

-----------------------------------------------------------------------------
WorkerThread ==
  \/ InitMgr \/ TakeLock \/ TestQueue \/ Wait
  \/ TestStop \/ HandleFront \/ Drain

Destructor == SetStop \/ NotifyStop \/ Join

Next ==
  \/ \E p \in Posters : PostPush(p) \/ PostNotify(p)
  \/ WorkerThread \/ SpuriousWakeup
  \/ Destructor

(* Every running thread goes on and callbacks return; between steps only   *)
(* the worker holds _mutex.  Nobody has to post, to destroy the            *)
(* singleton or to wake up spuriously.                                     *)
Fairness ==
  /\ WF_vars(WorkerThread)
  /\ \A p \in Posters : WF_vars(PostNotify(p))
  /\ WF_vars(NotifyStop) /\ WF_vars(Join)

Spec == Init /\ [][Next]_vars /\ Fairness

-----------------------------------------------------------------------------
(* Properties                                                              *)

(* No lost wakeup: when the worker sleeps although there is a request, a   *)
(* poster is about to notify it - even though only the post that finds the *)
(* queue empty notifies, and does so after unlocking.                      *)
NoLostWakeup ==
  wpc = "waiting" /\ msgQue # <<>> => \E p \in Posters : ppc[p] = "notify"

(* The requests are handled one by one in the order of the posts, each     *)
(* once, and each in the end.                                              *)
Channel == INSTANCE FifoChannel WITH
  Message <- Requests, received <- handled, broken <- FALSE

HandledInOrder == Channel!Spec

(* When the destructor returns no request is left behind.                  *)
DrainedOnExit == dpc = "done" => handled = accepted

(* The destructor returns, unless its notify fell between the worker's     *)
(* test of _b_stop and its wait: then the join may last forever.           *)
JoinReturns == dpc = "notify" ~> dpc = "done" \/ missed

(* The invariant behind these properties, in four parts.                   *)

InCallback == wpc \in {"callback", "drainCallback"}

(* _mutex is held by the worker in the places where DealMsg holds it.      *)
LockInv == mutex = Worker <=> wpc \in Locked

(* What the worker knows of the queue and of _b_stop where it is.          *)
PlaceInv ==
  /\ wpc = "block" => msgQue = <<>>
  /\ wpc = "stopTest" => msgQue # <<>> \/ bStop
  /\ wpc = "front" \/ InCallback => msgQue # <<>>
  /\ wpc \in {"drain", "drainCallback", "done"} => bStop
  /\ wpc = "done" => msgQue = <<>>

(* Nobody posts once the destructor runs, and it waits for the worker.     *)
StopInv ==
  /\ bStop <=> dpc # "idle"
  /\ dpc = "done" => wpc = "done"

(* What was posted is what was handled, then what the queue still holds,   *)
(* except that the request whose callback runs is in both.                 *)
Popped == Len(accepted) - Len(msgQue)

DeliveryInv ==
  /\ Popped \in Nat
  /\ \A i \in 1..Len(msgQue) : msgQue[i] = accepted[Popped + i]
  /\ Len(handled) = Popped + (IF InCallback THEN 1 ELSE 0)
  /\ \A i \in 1..Len(handled) : handled[i] = accepted[i]

QueueInv == LockInv /\ NoLostWakeup /\ PlaceInv /\ StopInv /\ DeliveryInv
=============================================================================
