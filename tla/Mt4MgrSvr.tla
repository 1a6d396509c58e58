------------------------------ MODULE Mt4MgrSvr ------------------------------
(***************************************************************************)
(* The connection to the MT4 server for requests, and the callbacks of     *)
(* LogicSyc that use it.                                                   *)
(*                                                                         *)
(* m_manager is a global: StartPumpThread (the starter) and LogicSyc's     *)
(* worker each make a Mt4MgrSvr and call Init, once in the constructor and *)
(* once more, and every Init replaces it; the starter's last Init is that  *)
(* of Mt4PumpSvr, which only reloads the library under m_manager.  Each    *)
(* call of m_manager is a step (with the ErrorDescription that follows it  *)
(* when it fails), so the interface may be another one, or none, from one  *)
(* call to the next.  A call through a null m_manager ends the process,    *)
(* one through an interface whose library was unloaded may; and so does a  *)
(* strncpy_s whose text does not fit the sizeof(msg) bytes, those of a     *)
(* pointer, that it is told of.                                            *)
(***************************************************************************)
EXTENDS ManagerFactory

CONSTANTS
  Inits,        \* calls of Mt4MgrSvr::Init per thread, 2 in the code
  MaxRequests,  \* bound: requests
  MaxPages      \* bound: messages of a list

ASSUME MgrAssumption ==
  Inits \in Nat \ {0} /\ MaxRequests \in Nat /\ MaxPages \in Nat

Threads == {"starter", "worker"}

(* The requests by callback: lists, changes, and Hert.                     *)
ListRequests   == {"trades", "history", "users"}
ChangeRequests == {"balance", "newUser", "updateUser"}
Requests       == ListRequests \cup ChangeRequests \cup {"heart"}

(* Places inside Mt4MgrSvr::Init, and inside a callback.                   *)
InitPlaces     == {"unload", "load", "create", "connect", "login"}
CallbackPlaces == {"ping", "reconnect", "relogin", "record", "call", "pages", "free",
                   "reply"}

Codes == {"none", "success", "params", "connErr", "mt4Err"}

VARIABLES
  valid,     \* m_manager is not NULL
  stale,     \* the library was unloaded since m_manager was made
  link,      \* of m_manager: "down", "connected", or "in" when logged in
  tried,     \* history: Connect was called on m_manager
  created,   \* history: every Create succeeded
  inits,     \* per thread: calls of Init still to come, the pump's included
  pc,        \* per thread: its place
  count,     \* requests taken so far
  req,       \* the request being handled, or the last one
  ret,       \* what its callback is going to answer
  pages,     \* messages of the list still to be sent
  held,      \* arrays of MT4 that were not freed, of this request
  replies,   \* messages sent in answer to this request
  last,      \* the code in the last of them
  executed,  \* history: changes MT4 made for this request
  records,   \* history: MT4 returned records for this request
  lost,      \* history: Connect or Login failed during this request
  crashed    \* the process is gone

mgrVars  == <<factoryVars, valid, stale, link, tried, created>>
reqVars  == <<count, req, ret, pages, held, replies, last, executed, records, lost>>
vars == <<mgrVars, inits, pc, reqVars, crashed>>

TypeOK ==
  /\ lib \in BOOLEAN /\ refs \in Nat /\ stale \in BOOLEAN
  /\ valid \in BOOLEAN /\ tried \in BOOLEAN /\ created \in BOOLEAN
  /\ link \in {"down", "connected", "in"}
  /\ inits \in [Threads -> 0..(Inits + 1)]
  /\ pc \in [Threads -> InitPlaces \cup CallbackPlaces \cup {"idle"}]
  /\ count \in 0..MaxRequests /\ req \in Requests /\ ret \in Codes
  /\ pages \in 0..MaxPages /\ held \subseteq {"trades", "users", "record"}
  /\ replies \in Nat /\ last \in Codes
  /\ executed \in 0..1 /\ records \in BOOLEAN /\ lost \in BOOLEAN
  /\ crashed \in BOOLEAN

Init ==
  /\ FactoryInit
  /\ valid = FALSE /\ stale = FALSE /\ link = "down" /\ tried = FALSE /\ created = TRUE
  /\ inits = [t \in Threads |-> IF t = "starter" THEN Inits + 1 ELSE Inits]
  /\ pc = [t \in Threads |-> "unload"]
  /\ count = 0 /\ req = "heart" /\ ret = "none" /\ pages = 0 /\ held = {}
  /\ replies = 0 /\ last = "none" /\ executed = 0
  /\ records = FALSE /\ lost = FALSE
  /\ crashed = FALSE

At(t, place) == ~crashed /\ pc[t] = place

Goto(t, place) == pc' = [pc EXCEPT ![t] = place]

(* m_manager->... through a null pointer, or into an unloaded library.     *)
BadCall(t) ==
  /\ ~valid \/ stale
  /\ \/ At(t, "connect") \/ At(t, "login") \/ At(t, "ping") \/ At(t, "reconnect")
     \/ At(t, "relogin") \/ At(t, "record") \/ At(t, "call") \/ At(t, "free")
  /\ crashed' = TRUE
  /\ UNCHANGED <<mgrVars, inits, pc, reqVars>>

-----------------------------------------------------------------------------
(* Mt4MgrSvr::Init, on either thread                                       *)

(* m_factory.Init() begins.                                                *)
Unload(t) ==
  /\ At(t, "unload")
  /\ FreeLibrary
  /\ stale' = (stale \/ refs' = 0)
  /\ Goto(t, "load")
  /\ UNCHANGED <<valid, link, tried, created, inits, reqVars, crashed>>

Load(t) ==
  /\ At(t, "load")
  /\ LoadLibrary
  /\ Goto(t, "create")
  /\ UNCHANGED <<valid, stale, link, tried, created, inits, reqVars, crashed>>

(* The Init is that of Mt4PumpSvr, which makes an m_pumping.               *)
ForPump(t) == t = "starter" /\ inits[t] = 1

(* An Init is over: the thread goes on to its next one, or is done.        *)
EndInit(t) ==
  /\ inits' = [inits EXCEPT ![t] = @ - 1]
  /\ Goto(t, IF inits[t] > 1 THEN "unload" ELSE "idle")

(* m_manager = m_factory.Create: a new interface, not connected.           *)
Create(t) ==
  /\ At(t, "create") /\ lib /\ ~ForPump(t)
  /\ valid' = TRUE /\ stale' = FALSE /\ link' = "down" /\ tried' = FALSE
  /\ Goto(t, "connect")
  /\ UNCHANGED <<factoryVars, created, inits, reqVars, crashed>>

(* The factory is not valid and m_manager stays, or Create returns NULL.   *)
CreateFails(t) ==
  /\ At(t, "create") /\ ~ForPump(t)
  /\ \/ ~lib /\ UNCHANGED <<valid, link, tried>>
     \/ lib /\ valid' = FALSE /\ link' = "down" /\ tried' = FALSE
  /\ created' = FALSE
  /\ EndInit(t)
  /\ UNCHANGED <<factoryVars, stale, reqVars, crashed>>

(* m_pumping = m_factory.Create, and what PumpLink says of it.             *)
CreatePump(t) ==
  /\ At(t, "create") /\ ForPump(t)
  /\ EndInit(t)
  /\ UNCHANGED <<mgrVars, reqVars, crashed>>

(* Between the two steps of another thread's m_factory.Init the entry      *)
(* point of Create leads nowhere.                                          *)
CreateUnmapped(t) ==
  /\ At(t, "create") /\ lib /\ ~Mapped
  /\ crashed' = TRUE
  /\ UNCHANGED <<mgrVars, inits, pc, reqVars>>

(* Mutant: a second Init takes the first one's connection for its own.     *)
ConnectOnce(t) ==
  /\ At(t, "connect") /\ valid
  /\ \/ /\ inits[t] = (IF t = "starter" THEN Inits + 1 ELSE Inits)
        /\ tried' = TRUE
        /\ \/ link' = "connected" /\ Goto(t, "login") /\ UNCHANGED inits
           \/ UNCHANGED link /\ EndInit(t)
     \/ /\ inits[t] # (IF t = "starter" THEN Inits + 1 ELSE Inits)
        /\ EndInit(t) /\ UNCHANGED <<link, tried>>
  /\ UNCHANGED <<factoryVars, valid, stale, created, reqVars, crashed>>

(* Connect(): m_manager->Connect; a failure is logged, Init ignores it.    *)
Connect(t) ==
  /\ At(t, "connect") /\ valid
  /\ tried' = TRUE
  /\ \/ link' = "connected" /\ Goto(t, "login") /\ UNCHANGED inits
     \/ UNCHANGED link /\ EndInit(t)
  /\ UNCHANGED <<factoryVars, valid, stale, created, reqVars, crashed>>

(* m_manager->Login, whose failure Init ignores as well.                   *)
Login(t) ==
  /\ At(t, "login") /\ valid
  /\ \/ link # "down" /\ link' = "in"
     \/ UNCHANGED link
  /\ EndInit(t)
  /\ UNCHANGED <<factoryVars, valid, stale, tried, created, reqVars, crashed>>

(* The connection is lost (external).                                      *)
LinkDrops ==
  /\ ~crashed
  /\ link # "down" /\ link' = "down"
  /\ UNCHANGED <<factoryVars, valid, stale, tried, created, inits, pc, reqVars, crashed>>

-----------------------------------------------------------------------------
(* A callback of LogicSyc begins                                           *)

TakeRequest(r) ==
  /\ At("worker", "idle")
  /\ count < MaxRequests
  /\ count' = count + 1
  /\ req' = r
  /\ \/ /\ r = "heart" /\ ret' = "success" /\ Goto("worker", "reply")
     \/ /\ r = "history" /\ ret' = "params" /\ Goto("worker", "reply")
     \/ /\ r # "heart" /\ ret' = "none" /\ Goto("worker", "ping")
  /\ pages' = 0 /\ held' = {} /\ replies' = 0 /\ last' = "none"
  /\ executed' = 0 /\ records' = FALSE /\ lost' = FALSE
  /\ UNCHANGED <<mgrVars, inits, crashed>>

-----------------------------------------------------------------------------
(* Ping, and Connect when it fails                                         *)

(* Where the callback goes on once it has, or thinks it has, a connection. *)
AfterPing == IF req = "updateUser" THEN "record" ELSE "call"

Ping ==
  /\ At("worker", "ping") /\ valid
  /\ \/ link # "down" /\ Goto("worker", AfterPing)
     \/ link # "in" /\ Goto("worker", "reconnect")
  /\ UNCHANGED <<mgrVars, inits, reqVars, crashed>>

(* Mutant: the callback tries until it has a connection.                   *)
ConnectFailedRetries ==
  /\ lost' = TRUE
  /\ Goto("worker", "ping")
  /\ UNCHANGED <<ret, crashed>>

(* Connect() returns false.  GetTrades and TradesUserHistory do not look;  *)
(* UsersRequest returns nullptr, which GetUsersInfo does not answer;       *)
(* UserRecordUpdate returns Err_ConnMT4; TradeTransaction and              *)
(* UserRecordNew copy the text of that error with sizeof(msg).             *)
ConnectFailed ==
  /\ lost' = TRUE
  /\ \/ /\ req \in {"trades", "history"}
        /\ Goto("worker", "call")
        /\ UNCHANGED <<ret, crashed>>
     \/ /\ req = "users"
        /\ Goto("worker", "idle")
        /\ UNCHANGED <<ret, crashed>>
     \/ /\ req = "updateUser"
        /\ ret' = "connErr" /\ Goto("worker", "reply")
        /\ UNCHANGED crashed
     \/ /\ req \in {"balance", "newUser"}
        /\ crashed' = TRUE
        /\ UNCHANGED <<ret, pc>>

Reconnect ==
  /\ At("worker", "reconnect") /\ valid
  /\ tried' = TRUE
  /\ \/ /\ link' = "connected" /\ Goto("worker", "relogin")
        /\ UNCHANGED <<ret, lost, crashed>>
     \/ ConnectFailed /\ UNCHANGED link
  /\ UNCHANGED <<factoryVars, valid, stale, created, inits, count, req, pages, held,
                 replies, last, executed, records>>

Relogin ==
  /\ At("worker", "relogin") /\ valid
  /\ \/ /\ link # "down" /\ link' = "in"
        /\ Goto("worker", AfterPing)
        /\ UNCHANGED <<ret, lost, crashed>>
     \/ ConnectFailed /\ UNCHANGED link
  /\ UNCHANGED <<factoryVars, valid, stale, tried, created, inits, count, req, pages,
                 held, replies, last, executed, records>>

-----------------------------------------------------------------------------
(* The calls                                                               *)

(* UserRecordUpdate fetches the user's record first, and frees it unread.  *)
FetchRecord ==
  /\ At("worker", "record") /\ valid
  /\ \/ held' = {"record"} /\ Goto("worker", "free")
     \/ UNCHANGED held /\ Goto("worker", "call")
  /\ UNCHANGED <<mgrVars, inits, count, req, ret, pages, replies, last, executed,
                 records, lost, crashed>>

(* Mutant: GetUsersInfo does not ask whether there is an array.            *)
CallListUnchecked ==
  /\ At("worker", "call") /\ valid /\ req \in ListRequests
  /\ \/ /\ link = "in"
        /\ held' = {IF req = "users" THEN "users" ELSE "trades"}
        /\ pages' \in 0..MaxPages
        /\ records' = (pages' > 0)
        /\ UNCHANGED crashed
     \/ /\ UNCHANGED <<held, pages, records>>
        /\ crashed' = (req = "users")
  /\ Goto("worker", "pages")
  /\ UNCHANGED <<mgrVars, inits, count, req, ret, replies, last, executed, lost>>

(* TradesRequest, TradesUserHistory, UsersRequest: NULL, or an array that  *)
(* is cut into messages.                                                   *)
CallList ==
  /\ At("worker", "call") /\ valid /\ req \in ListRequests
  /\ \/ /\ link = "in"
        /\ held' = {IF req = "users" THEN "users" ELSE "trades"}
        /\ pages' \in 0..MaxPages
        /\ records' = (pages' > 0)
     \/ UNCHANGED <<held, pages, records>>
  /\ Goto("worker", "pages")
  /\ UNCHANGED <<mgrVars, inits, count, req, ret, replies, last, executed, lost,
                 crashed>>

(* Mutant: a change that failed is made again.                             *)
CallChangeTwice ==
  /\ At("worker", "call") /\ valid /\ req \in ChangeRequests
  /\ \/ /\ link = "in" /\ executed' = executed + 1
        /\ \/ ret' = "success" /\ Goto("worker", "reply")
           \/ UNCHANGED <<ret, pc>>
        /\ UNCHANGED crashed
     \/ /\ ret' = "mt4Err" /\ Goto("worker", "reply")
        /\ UNCHANGED <<executed, crashed>>
  /\ UNCHANGED <<mgrVars, inits, count, req, pages, held, replies, last,
                 records, lost>>

(* Mutant: the code of a failed change is lost.                            *)
CallChangeUnchecked ==
  /\ At("worker", "call") /\ valid /\ req \in ChangeRequests
  /\ \/ link = "in" /\ executed' = executed + 1
     \/ UNCHANGED executed
  /\ ret' = "success" /\ Goto("worker", "reply")
  /\ UNCHANGED <<mgrVars, inits, count, req, pages, held, replies, last,
                 records, lost, crashed>>

(* TradeTransaction, UserRecordNew, UserRecordUpdate: the change is made   *)
(* and confirmed, made but the answer is lost, or not made.  For an error  *)
(* TradeTransaction copies the text with sizeof(msg): a text that does not *)
(* fit ends the process.                                                   *)
CallChange ==
  /\ At("worker", "call") /\ valid /\ req \in ChangeRequests
  /\ \/ /\ link = "in" /\ executed' = executed + 1
        /\ ret' = "success" /\ Goto("worker", "reply")
        /\ UNCHANGED crashed
     \/ /\ \/ link = "in" /\ executed' = executed + 1
           \/ UNCHANGED executed
        /\ \/ /\ ret' = "mt4Err" /\ Goto("worker", "reply")
              /\ UNCHANGED crashed
           \/ /\ req = "balance" /\ crashed' = TRUE
              /\ UNCHANGED <<ret, pc>>
  /\ UNCHANGED <<mgrVars, inits, count, req, pages, held, replies, last,
                 records, lost>>

-----------------------------------------------------------------------------
(* The answers                                                             *)

SendPage ==
  /\ At("worker", "pages") /\ pages > 0
  /\ pages' = pages - 1 /\ replies' = replies + 1
  /\ last' = "success"
  /\ UNCHANGED <<mgrVars, inits, pc, count, req, ret, held, executed, records,
                 lost, crashed>>

(* Mutant: the last message is not sent.                                   *)
EndPagesEarly ==
  /\ At("worker", "pages") /\ pages <= 1
  /\ Goto("worker", IF "users" \in held THEN "free" ELSE "idle")
  /\ UNCHANGED <<mgrVars, inits, reqVars, crashed>>

(* After the last message the users are freed, the trades are not.         *)
EndPages ==
  /\ At("worker", "pages") /\ pages = 0
  /\ Goto("worker", IF "users" \in held THEN "free" ELSE "idle")
  /\ UNCHANGED <<mgrVars, inits, reqVars, crashed>>

(* m_manager->MemFree                                                      *)
MemFree ==
  /\ At("worker", "free") /\ valid
  /\ held' = held \ {"users", "record"}
  /\ Goto("worker", IF req = "users" THEN "idle" ELSE "call")
  /\ UNCHANGED <<mgrVars, inits, count, req, ret, pages, replies, last, executed,
                 records, lost, crashed>>

Reply ==
  /\ At("worker", "reply")
  /\ replies' = replies + 1 /\ last' = ret
  /\ Goto("worker", "idle")
  /\ UNCHANGED <<mgrVars, inits, count, req, ret, pages, held, executed, records,
                 lost, crashed>>

-----------------------------------------------------------------------------
InitThread(t) ==
  \/ Unload(t) \/ Load(t)
  \/ Create(t) \/ CreateFails(t) \/ CreatePump(t) \/ CreateUnmapped(t)
  \/ Connect(t) \/ Login(t) \/ BadCall(t)

Callback ==
  \/ Ping \/ Reconnect \/ Relogin
  \/ FetchRecord \/ CallList \/ CallChange
  \/ SendPage \/ EndPages \/ MemFree \/ Reply

Next ==
  \/ \E t \in Threads : InitThread(t)
  \/ \E r \in Requests : TakeRequest(r)
  \/ Callback \/ LinkDrops

(* The threads run and the calls of MT4 return.                            *)
Fairness == (\A t \in Threads : WF_vars(InitThread(t))) /\ WF_vars(Callback)

Spec == Init /\ [][Next]_vars /\ Fairness

-----------------------------------------------------------------------------
(* Properties                                                              *)

Answered == At("worker", "idle") /\ count > 0

(* A change is made once at the most, and whoever is told of its success   *)
(* can rely on it - even when m_manager is replaced between the calls.     *)
SuccessIsReal ==
  /\ executed <= 1
  /\ req \in ChangeRequests /\ last = "success" => executed = 1

(* A request is left without an answer only if it asks for a list and MT4  *)
(* has returned no records for it.                                         *)
SilentOnlyWithoutRecords ==
  Answered /\ replies = 0 => req \in ListRequests /\ ~records

(* When both threads are through with their Inits, the interface that      *)
(* remains is one that somebody has tried to connect, whatever the order.  *)
RemainingManagerTried ==
  (\A t \in Threads : inits[t] = 0) /\ valid => tried

(* As long as the library makes its interfaces, and was not unloaded under *)
(* the one in use, lists and updates of users do not end the process,      *)
(* however the connection fails.                                           *)
CrashOnlyInTransactions ==
  crashed /\ created /\ ~stale /\ Mapped => req \in {"balance", "newUser"}

(* The worker comes back from every callback: while it is away it holds    *)
(* LogicSyc's _mutex, and every io thread that posts waits.                *)
CallbackReturns == ~At("worker", "idle") ~> At("worker", "idle") \/ crashed

(* What errcode.h says of Err_ConnMT4: the answer when MT4 cannot be       *)
(* connected.  The three changes return it.                                *)
ConnErrAnswered ==
  req \in ChangeRequests /\ lost =>
    ~crashed /\ (At("worker", "idle") => last = "connErr")
=============================================================================
