----------------------------- MODULE Mt4PumpSvr -----------------------------
(***************************************************************************)
(* The list of sessions subscribed to trade updates, _pump_que.            *)
(*                                                                         *)
(* LogicSyc's worker appends to it (PumpTrades); MT4's callback thread     *)
(* walks it for each update (OnTradeUpdate), sends the update to every     *)
(* open session and then erases the closed ones.  No mutex protects the    *)
(* vector, and the io threads close sessions meanwhile.                    *)
(*                                                                         *)
(* What a race on the vector does: a push_back that reallocates leaves the *)
(* walking iterator in freed memory, and one that overlaps an erase may be *)
(* lost or leave a destroyed entry behind.  A walk over freed memory or a  *)
(* destroyed entry, and an erase at end(), end the process.                *)
(***************************************************************************)
EXTENDS Naturals, FiniteSets, Sequences, SequencesExt

CONSTANTS
  Sessions,
  MaxUpdates,     \* bound: trade updates
  MaxSubscribes   \* bound: calls of PumpTrades

ASSUME PumpAssumption == MaxUpdates \in Nat /\ MaxSubscribes \in Nat

VARIABLES
  pumpQue,     \* _pump_que
  capacity,    \* its capacity
  subscribed,  \* per session: calls of PumpTrades
  wpc,         \* worker: "idle", or "confirm" between push_back and Send
  session,     \* the worker's session while it confirms
  closed,      \* the sessions with _b_close set
  update,      \* number of the latest trade update
  cpc,         \* callback thread: "idle", "walk", "send" or "erase"
  it,          \* its iterator, as a position
  intArray,    \* positions of closed sessions still to be erased
  sent,        \* per session: the updates passed to Send, in order
  confirmed,   \* history: sessions that were sent the confirmation
  lost,        \* history: sessions an append of which was lost in a race
  erased,      \* history: sessions erased from the list
  purged,      \* history: erases since the walk
  before,      \* history: the closed and the confirmed sessions when the callback began
  crashed      \* the process is gone

workerVars   == <<wpc, session, subscribed, confirmed, lost>>
callbackVars == <<update, cpc, it, intArray, sent, erased, purged,
                  before>>
vars == <<pumpQue, capacity, workerVars, closed, callbackVars, crashed>>

TypeOK ==
  /\ pumpQue \in Seq(Sessions)
  /\ capacity \in Nat /\ Len(pumpQue) <= capacity
  /\ subscribed \in [Sessions -> Nat]
  /\ wpc \in {"idle", "confirm"} /\ session \in Sessions
  /\ closed \subseteq Sessions
  /\ update \in 0..MaxUpdates
  /\ cpc \in {"idle", "walk", "send", "erase"}
  /\ it \in Nat \ {0}
  /\ intArray \in Seq(Nat \ {0})
  /\ sent \in [Sessions -> Seq(1..MaxUpdates)]
  /\ confirmed \subseteq Sessions /\ lost \subseteq Sessions
  /\ erased \subseteq Sessions /\ purged \in Nat
  /\ before \in [closed : SUBSET Sessions, confirmed : SUBSET Sessions]
  /\ crashed \in BOOLEAN

Init ==
  /\ pumpQue = <<>> /\ capacity = 0
  /\ subscribed = [s \in Sessions |-> 0]
  /\ wpc = "idle" /\ session \in Sessions
  /\ closed = {}
  /\ update = 0 /\ cpc = "idle" /\ it = 1 /\ intArray = <<>>
  /\ sent = [s \in Sessions |-> <<>>]
  /\ confirmed = {} /\ lost = {} /\ erased = {} /\ purged = 0
  /\ before = [closed |-> {}, confirmed |-> {}]
  /\ crashed = FALSE

Subscribes == FoldFunction(+, 0, subscribed)

-----------------------------------------------------------------------------
(* std::vector (external)                                                  *)

(* The capacity a full vector grows to: by half, at least by one.          *)
Grow(c) == IF c < 2 THEN c + 1 ELSE c + c \div 2

PushBack(s) ==
  /\ pumpQue' = Append(pumpQue, s)
  /\ capacity' = IF Len(pumpQue) = capacity THEN Grow(capacity) ELSE capacity

Walking == cpc \in {"walk", "send"}
Erasing == cpc = "erase" /\ intArray # <<>>

(* What push_back does to a list that another thread is working on.        *)
RacingPushBack(s) ==
  \/ /\ ~(Walking /\ Len(pumpQue) = capacity)
     /\ PushBack(s)
     /\ UNCHANGED <<lost, crashed>>
  \/ /\ Erasing /\ Len(pumpQue) < capacity
     /\ lost' = lost \cup {s}
     /\ UNCHANGED <<pumpQue, capacity, crashed>>
  \/ /\ Erasing \/ (Walking /\ Len(pumpQue) = capacity)
     /\ crashed' = TRUE
     /\ UNCHANGED <<pumpQue, capacity, lost>>

-----------------------------------------------------------------------------
(* PumpTrades, on LogicSyc's worker                                        *)

(* Mutant: a list that is being walked is left alone.                      *)
PumpTradesTries(s) ==
  /\ ~crashed
  /\ wpc = "idle" /\ Subscribes < MaxSubscribes
  /\ \/ ~Walking /\ RacingPushBack(s)
     \/ Walking /\ UNCHANGED <<pumpQue, capacity, lost, crashed>>
  /\ subscribed' = [subscribed EXCEPT ![s] = @ + 1]
  /\ wpc' = "confirm" /\ session' = s
  /\ UNCHANGED <<closed, callbackVars, confirmed>>

(* Nothing asks whether the session is in the list already, or closed.     *)
PumpTrades(s) ==
  /\ ~crashed
  /\ wpc = "idle" /\ Subscribes < MaxSubscribes
  /\ RacingPushBack(s)
  /\ subscribed' = [subscribed EXCEPT ![s] = @ + 1]
  /\ wpc' = "confirm" /\ session' = s
  /\ UNCHANGED <<closed, callbackVars, confirmed>>

(* Send "Subscription successful": an update may have gone out before.     *)
Confirm ==
  /\ ~crashed
  /\ wpc = "confirm"
  /\ wpc' = "idle"
  /\ confirmed' = confirmed \cup {session}
  /\ UNCHANGED <<pumpQue, capacity, session, subscribed, lost, closed, callbackVars,
                 crashed>>

(* CSession::Close on an io thread.                                        *)
CloseSession(s) ==
  /\ ~crashed
  /\ s \notin closed
  /\ closed' = closed \cup {s}
  /\ UNCHANGED <<pumpQue, capacity, workerVars, callbackVars, crashed>>

-----------------------------------------------------------------------------
(* OnTradeUpdate, on MT4's callback thread.  An update without data, or an *)
(* empty list, only logs.                                                  *)

OnTradeUpdate ==
  /\ ~crashed
  /\ cpc = "idle" /\ update < MaxUpdates
  /\ update' = update + 1
  /\ cpc' = IF pumpQue = <<>> THEN "idle" ELSE "walk"
  /\ it' = 1 /\ intArray' = <<>> /\ purged' = 0
  /\ before' = [closed |-> closed, confirmed |-> confirmed]
  /\ UNCHANGED <<pumpQue, capacity, workerVars, closed, sent, erased, crashed>>

(* Mutant: the position is recorded from 0.                                *)
SkipClosedFromZero ==
  /\ ~crashed
  /\ cpc = "walk" /\ it <= Len(pumpQue) /\ pumpQue[it] \in closed
  /\ intArray' = Append(intArray, it - 1)
  /\ it' = it + 1
  /\ UNCHANGED <<pumpQue, capacity, workerVars, closed, update, cpc, sent,
                 erased, purged, before, crashed>>

(* Mutant: the position after the closed one is recorded.                  *)
SkipClosedLate ==
  /\ ~crashed
  /\ cpc = "walk" /\ it <= Len(pumpQue) /\ pumpQue[it] \in closed
  /\ intArray' = Append(intArray, it + 1)
  /\ it' = it + 1
  /\ UNCHANGED <<pumpQue, capacity, workerVars, closed, update, cpc, sent,
                 erased, purged, before, crashed>>

(* isClose() holds: remember the position, counted from 1.                 *)
SkipClosed ==
  /\ ~crashed
  /\ cpc = "walk" /\ it <= Len(pumpQue) /\ pumpQue[it] \in closed
  /\ intArray' = Append(intArray, it)
  /\ it' = it + 1
  /\ UNCHANGED <<pumpQue, capacity, workerVars, closed, update, cpc, sent,
                 erased, purged, before, crashed>>

(* Mutant: isClose() is not asked.                                         *)
TakeAnyone ==
  /\ ~crashed
  /\ cpc = "walk" /\ it <= Len(pumpQue)
  /\ cpc' = "send"
  /\ UNCHANGED <<pumpQue, capacity, workerVars, closed, update, it, intArray,
                 sent, erased, purged, before, crashed>>

(* isClose() does not hold - now; the Send below is a later step.          *)
TakeOpen ==
  /\ ~crashed
  /\ cpc = "walk" /\ it <= Len(pumpQue) /\ pumpQue[it] \notin closed
  /\ cpc' = "send"
  /\ UNCHANGED <<pumpQue, capacity, workerVars, closed, update, it, intArray,
                 sent, erased, purged, before, crashed>>

(* Mutant: the iterator is not advanced.                                   *)
SendUpdateStays ==
  /\ ~crashed
  /\ cpc = "send"
  /\ sent' = [sent EXCEPT ![pumpQue[it]] = Append(@, update)]
  /\ cpc' = "walk"
  /\ UNCHANGED <<pumpQue, capacity, workerVars, closed, update, it, intArray,
                 erased, purged, before, crashed>>

SendUpdate ==
  /\ ~crashed
  /\ cpc = "send"
  /\ sent' = [sent EXCEPT ![pumpQue[it]] = Append(@, update)]
  /\ it' = it + 1
  /\ cpc' = "walk"
  /\ UNCHANGED <<pumpQue, capacity, workerVars, closed, update, intArray,
                 erased, purged, before, crashed>>

EndWalk ==
  /\ ~crashed
  /\ cpc = "walk" /\ it > Len(pumpQue)
  /\ cpc' = "erase"
  /\ UNCHANGED <<pumpQue, capacity, workerVars, closed, update, it, intArray,
                 sent, erased, purged, before, crashed>>

(* _pump_que.erase(begin() + item - 1), for each remembered position in    *)
(* turn: the positions are those of the list before the first erase.       *)
EraseClosed ==
  /\ ~crashed
  /\ cpc = "erase" /\ intArray # <<>>
  /\ LET item == Head(intArray) IN
     \/ /\ item <= Len(pumpQue)
        /\ pumpQue' = RemoveAt(pumpQue, item)
        /\ erased' = erased \cup {pumpQue[item]}
        /\ purged' = purged + 1
        /\ UNCHANGED crashed
     \/ /\ item > Len(pumpQue)
        /\ crashed' = TRUE
        /\ UNCHANGED <<pumpQue, erased, purged>>
  /\ intArray' = Tail(intArray)
  /\ UNCHANGED <<capacity, workerVars, closed, update, cpc, it, sent, before>>

EndUpdate ==
  /\ ~crashed
  /\ cpc = "erase" /\ intArray = <<>>
  /\ cpc' = "idle"
  /\ UNCHANGED <<pumpQue, capacity, workerVars, closed, update, it, intArray,
                 sent, erased, purged, before, crashed>>

-----------------------------------------------------------------------------
CallbackThread ==
  \/ OnTradeUpdate \/ SkipClosed \/ TakeOpen \/ SendUpdate
  \/ EndWalk \/ EraseClosed \/ EndUpdate

Next ==
  \/ \E s \in Sessions : PumpTrades(s) \/ CloseSession(s)
  \/ Confirm
  \/ CallbackThread

Spec == Init /\ [][Next]_vars

-----------------------------------------------------------------------------
(* Properties                                                              *)

Occurrences(seq, x) == Cardinality({i \in 1..Len(seq) : seq[i] = x})

(* The latest update has been passed to the session's Send.                *)
Served(s) == \E i \in 1..Len(sent[s]) : sent[s][i] = update

(* Updates reach Send in the order in which MT4 delivered them, and none   *)
(* more often than the session has subscribed, whatever subscribes or      *)
(* closes during the walk.                                                 *)
UpdatesInOrder ==
  \A s \in Sessions :
    /\ \A i, j \in 1..Len(sent[s]) : i < j => sent[s][i] <= sent[s][j]
    /\ \A u \in 1..update : Occurrences(sent[s], u) <= subscribed[s]

(* A session that was closed when the update arrived is not sent it.       *)
ClosedGetNothing ==
  cpc # "idle" => \A s \in before.closed : ~Served(s)

(* "Subscription successful" can be relied on: an open session that was    *)
(* confirmed when an update arrived has been sent it when the walk is      *)
(* over.  The exceptions: an append of it was lost in a race with erasing, *)
(* or an earlier callback took it off the list.                            *)
ConfirmedIsServed ==
  cpc \in {"erase", "idle"} /\ update > 0 /\ ~crashed =>
    \A s \in before.confirmed \ (closed \cup lost \cup erased) :
      Served(s)

(* A subscription to a session that stays open is only taken off the list  *)
(* by a callback that erases twice: one closed entry at a time is safe.    *)
OneErasePerCallbackIsSafe ==
  [][Len(pumpQue') < Len(pumpQue) /\ purged = 0 =>
       \E i \in 1..Len(pumpQue) :
         pumpQue[i] \in closed /\ pumpQue' = RemoveAt(pumpQue, i)]_vars

(* What the comment over the erase loop says, "Remove closed links".       *)
OnlyClosedLinksRemoved == erased \subseteq closed
=============================================================================
