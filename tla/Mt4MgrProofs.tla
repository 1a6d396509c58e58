----------------------------- MODULE Mt4MgrProofs -----------------------------
(* What Mt4MgrSvr promises of its safety, for every number of Inits,       *)
(* requests and messages of a list.                                        *)
EXTENDS Mt4MgrSvr, TLAPS

(* A thread is inside an Init as long as it has one to do; the starter     *)
(* never handles a request, and the worker takes one after its Inits.      *)
PlaceInv ==
  /\ \A t \in Threads : pc[t] \in InitPlaces <=> inits[t] > 0
  /\ pc["starter"] \in InitPlaces \cup {"idle"}
  /\ inits["worker"] > 0 => count = 0

(* Whoever makes an interface is going to connect it.                      *)
TriedInv == valid /\ ~tried => \E t \in Threads : pc[t] = "connect"

(* While every Create succeeds, a thread that is beyond its first has an   *)
(* m_manager, its own or that of the other.                                *)
CreatedInv ==
  created =>
    /\ \A t \in Threads : pc[t] \in {"connect", "login"} => valid
    /\ inits["starter"] <= Inits => valid
    /\ inits["worker"] < Inits => valid

(* A change is made when it is called and not before, and nobody is told   *)
(* of a success before.                                                    *)
ChangeInv ==
  /\ ~crashed /\ pc["worker"] \notin {"idle", "reply"} => executed = 0
  /\ req \in ChangeRequests /\ "success" \in {ret, last} => executed = 1
  /\ pc["worker"] = "pages" => req \in ListRequests

(* MT4's records of this request have been sent or are still to be sent.   *)
RecordsInv ==
  /\ pc["worker"] = "record" => req = "updateUser"
  /\ pc["worker"] \in {"ping", "reconnect", "relogin", "record", "call"} => ~records
  /\ pc["worker"] = "free" => req = "users" \/ (req = "updateUser" /\ ~records)
  /\ "users" \in held => req = "users"
  /\ pc["worker"] = "pages" => (records => pages > 0 \/ replies > 0)
  /\ pc["worker"] = "free" /\ req = "users" => (records => replies > 0)
  /\ pc["worker"] = "idle" /\ count > 0 /\ replies = 0 => req \in ListRequests /\ ~records

IInv ==
  /\ TypeOK /\ PlaceInv /\ TriedInv /\ CreatedInv /\ ChangeInv /\ RecordsInv
  /\ CrashOnlyInTransactions

(* The invariant holds when the threads start.                             *)
LEMMA InitIInv == Init => IInv
<1> SUFFICES ASSUME Init PROVE IInv
  OBVIOUS
<1>1. /\ valid = FALSE /\ stale = FALSE /\ link = "down" /\ tried = FALSE /\ created = TRUE
      /\ inits = [t \in Threads |-> IF t = "starter" THEN Inits + 1 ELSE Inits]
      /\ pc = [t \in Threads |-> "unload"]
      /\ count = 0 /\ req = "heart" /\ ret = "none" /\ pages = 0 /\ held = {}
      /\ replies = 0 /\ last = "none" /\ executed = 0
      /\ records = FALSE /\ lost = FALSE /\ crashed = FALSE
  BY DEF Init
<1>2. TypeOK
  <2>1. lib \in BOOLEAN BY Zenon DEF Init, FactoryInit
  <2>2. refs \in Nat BY DEF Init, FactoryInit
  <2>3. /\ inits \in [Threads -> 0..(Inits + 1)] /\ count \in 0..MaxRequests
        /\ pages \in 0..MaxPages
    BY <1>1, MgrAssumption DEF MgrAssumption
  <2>4. pc \in [Threads -> InitPlaces \cup CallbackPlaces \cup {"idle"}]
    BY <1>1 DEF InitPlaces
  <2>5. /\ link \in {"down", "connected", "in"} /\ req \in Requests /\ ret \in Codes
        /\ held \subseteq {"trades", "users", "record"}
        /\ replies \in Nat /\ last \in Codes /\ executed \in 0..1
    BY <1>1 DEF Requests, Codes
  <2>6. /\ stale \in BOOLEAN /\ valid \in BOOLEAN /\ tried \in BOOLEAN
        /\ created \in BOOLEAN /\ records \in BOOLEAN /\ lost \in BOOLEAN
        /\ crashed \in BOOLEAN
    BY <1>1, Zenon
  <2> QED BY <2>1, <2>2, <2>3, <2>4, <2>5, <2>6, Zenon DEF TypeOK
<1>3. PlaceInv /\ TriedInv /\ CreatedInv
  BY <1>1, MgrAssumption
  DEF PlaceInv, TriedInv, CreatedInv, InitPlaces, Threads, MgrAssumption
<1>4. ChangeInv /\ RecordsInv /\ CrashOnlyInTransactions
  <2>1. ~crashed BY <1>1, Zenon
  <2>2. /\ pc["worker"] = "unload" /\ count = 0 /\ req = "heart" /\ ret = "none"
        /\ last = "none" /\ executed = 0 /\ held = {}
    BY <1>1 DEF Threads
  <2> QED
    BY <2>1, <2>2
    DEF ChangeInv, RecordsInv, CrashOnlyInTransactions, ChangeRequests, ListRequests
<1> QED BY <1>2, <1>3, <1>4 DEF IInv

-----------------------------------------------------------------------------
(* The steps of Mt4MgrSvr::Init                                            *)

(* Unloading and loading the library moves the thread on, and nothing else *)
(* but the factory and its effect on interfaces made before.               *)
LEMMA FactoryIInv ==
  ASSUME NEW t \in Threads, IInv, Unload(t) \/ Load(t)
  PROVE  IInv'
<1>1. /\ TypeOK /\ PlaceInv /\ TriedInv /\ CreatedInv /\ ChangeInv /\ RecordsInv
      /\ CrashOnlyInTransactions
  BY DEF IInv
<1>2. /\ ~crashed /\ pc[t] \in {"unload", "load"}
      /\ pc' = [pc EXCEPT ![t] = pc'[t]] /\ pc'[t] \in {"load", "create"}
      /\ refs' \in Nat
      /\ UNCHANGED <<valid, link, tried, created, inits, reqVars, crashed>>
  BY <1>1 DEF Unload, Load, At, Goto, FreeLibrary, LoadLibrary, Mapped, TypeOK
<1>3. lib' \in BOOLEAN /\ stale' \in BOOLEAN
  BY <1>1, Zenon
  DEF TypeOK, Unload, Load, FreeLibrary, LoadLibrary, factoryVars
<1>4. TypeOK' BY <1>1, <1>2, <1>3 DEF TypeOK, InitPlaces, reqVars
<1>5. PlaceInv' /\ TriedInv' /\ CreatedInv'
  BY <1>1, <1>2 DEF TypeOK, PlaceInv, TriedInv, CreatedInv, InitPlaces, Threads, reqVars
<1>6. ChangeInv' /\ RecordsInv' /\ CrashOnlyInTransactions'
  BY <1>1, <1>2
  DEF TypeOK, PlaceInv, ChangeInv, RecordsInv, CrashOnlyInTransactions, InitPlaces,
      Threads, reqVars
<1> QED BY <1>4, <1>5, <1>6 DEF IInv

(* Create, whether it makes an interface or fails, and the pump's.         *)
LEMMA CreateIInv ==
  ASSUME NEW t \in Threads, IInv, Create(t) \/ CreateFails(t) \/ CreatePump(t)
  PROVE  IInv'
<1>1. /\ TypeOK /\ PlaceInv /\ TriedInv /\ CreatedInv /\ ChangeInv /\ RecordsInv
      /\ CrashOnlyInTransactions
  BY DEF IInv
<1>2. /\ ~crashed /\ pc[t] = "create" /\ inits[t] > 0
      /\ UNCHANGED <<lib, refs, reqVars, crashed>>
  BY <1>1
  DEF Create, CreateFails, CreatePump, At, PlaceInv, InitPlaces, mgrVars, factoryVars
<1>3. /\ valid' \in BOOLEAN /\ tried' \in BOOLEAN /\ stale' \in BOOLEAN
      /\ created' \in BOOLEAN
  BY <1>1, Zenon DEF TypeOK, Create, CreateFails, CreatePump, mgrVars
<1>4. /\ link' \in {link, "down"}
      /\ \/ pc' = [pc EXCEPT ![t] = "connect"] /\ inits' = inits
         \/ pc' = [pc EXCEPT ![t] = IF inits[t] > 1 THEN "unload" ELSE "idle"]
            /\ inits' = [inits EXCEPT ![t] = @ - 1]
  BY DEF Create, CreateFails, CreatePump, EndInit, Goto, mgrVars
<1>5. TypeOK'
  <2>1. inits' \in [Threads -> 0..(Inits + 1)]
    BY <1>1, <1>2, <1>4, MgrAssumption DEF TypeOK, MgrAssumption
  <2>2. pc' \in [Threads -> InitPlaces \cup CallbackPlaces \cup {"idle"}]
    BY <1>1, <1>4 DEF TypeOK, InitPlaces
  <2> QED BY <1>1, <1>2, <1>3, <1>4, <2>1, <2>2 DEF TypeOK, reqVars
<1>6. PlaceInv'
  BY <1>1, <1>2, <1>4 DEF TypeOK, PlaceInv, InitPlaces, Threads, reqVars
<1>7. TriedInv' /\ CreatedInv'
  <2>1. CASE Create(t)
    <3>1. /\ valid' /\ (created' <=> created)
          /\ pc' = [pc EXCEPT ![t] = "connect"] /\ inits' = inits
      BY <2>1, Zenon DEF Create, Goto
    <3> QED BY <1>1, <2>1, <3>1 DEF TypeOK, TriedInv, CreatedInv, Threads
  <2>2. CASE CreateFails(t)
    <3>0. /\ created' = FALSE
          /\ (valid' = valid /\ tried' = tried) \/ valid' = FALSE
      BY <2>2 DEF CreateFails
    <3>1. ~created' /\ (valid' /\ ~tried' => valid /\ ~tried)
      BY <1>1, <3>0, SMT DEF TypeOK
    <3>2. pc' = [pc EXCEPT ![t] = pc'[t]]
      BY <1>1, <2>2 DEF CreateFails, EndInit, Goto, TypeOK
    <3> QED BY <1>1, <1>2, <3>1, <3>2 DEF TypeOK, TriedInv, CreatedInv, Threads
  <2>3. CASE CreatePump(t)
    <3>1. /\ UNCHANGED <<valid, tried, created>> /\ t = "starter" /\ inits[t] = 1
          /\ pc' = [pc EXCEPT ![t] = "idle"] /\ inits' = [inits EXCEPT ![t] = 0]
      BY <2>3 DEF CreatePump, ForPump, EndInit, Goto, mgrVars
    <3> QED
      BY <1>1, <1>2, <3>1, MgrAssumption
      DEF TypeOK, TriedInv, CreatedInv, Threads, MgrAssumption
  <2> QED BY <2>1, <2>2, <2>3
<1>8. ChangeInv' /\ RecordsInv' /\ CrashOnlyInTransactions'
  BY <1>1, <1>2, <1>4
  DEF TypeOK, PlaceInv, ChangeInv, RecordsInv, CrashOnlyInTransactions,
      InitPlaces, Threads, reqVars
<1> QED BY <1>5, <1>6, <1>7, <1>8 DEF IInv

(* Connect and Login of an Init.                                           *)
LEMMA ConnectIInv ==
  ASSUME NEW t \in Threads, IInv, Connect(t) \/ Login(t)
  PROVE  IInv'
<1>1. /\ TypeOK /\ PlaceInv /\ TriedInv /\ CreatedInv /\ ChangeInv /\ RecordsInv
      /\ CrashOnlyInTransactions
  BY DEF IInv
<1>2. /\ ~crashed /\ pc[t] \in {"connect", "login"} /\ valid /\ inits[t] > 0
      /\ (pc[t] = "connect" => tried' = TRUE) /\ (pc[t] # "connect" => tried' = tried)
      /\ link' \in {link, "connected", "in"}
      /\ \/ pc' = [pc EXCEPT ![t] = "login"] /\ UNCHANGED inits
         \/ EndInit(t)
      /\ UNCHANGED <<lib, refs, valid, stale, created, reqVars, crashed>>
  BY <1>1 DEF Connect, Login, At, Goto, PlaceInv, InitPlaces, factoryVars
<1>3. tried' \in BOOLEAN BY <1>1, Zenon DEF TypeOK, Connect, Login
<1>4. TypeOK'
  BY <1>1, <1>2, <1>3, MgrAssumption
  DEF TypeOK, EndInit, Goto, InitPlaces, reqVars, MgrAssumption
<1>5. PlaceInv'
  BY <1>1, <1>2 DEF TypeOK, PlaceInv, EndInit, Goto, InitPlaces, Threads, reqVars
<1>6. TriedInv' /\ CreatedInv'
  BY <1>1, <1>2, <1>3 DEF TypeOK, TriedInv, CreatedInv, EndInit, Goto, Threads
<1>7. ChangeInv' /\ RecordsInv' /\ CrashOnlyInTransactions'
  BY <1>1, <1>2
  DEF TypeOK, PlaceInv, ChangeInv, RecordsInv, CrashOnlyInTransactions, EndInit,
      Goto, InitPlaces, Threads, Mapped, reqVars
<1> QED BY <1>4, <1>5, <1>6, <1>7 DEF IInv

(* A call that ends the process: there is no m_manager because a Create    *)
(* failed, or the library is gone.                                         *)
LEMMA CrashIInv ==
  ASSUME NEW t \in Threads, IInv, BadCall(t) \/ CreateUnmapped(t)
  PROVE  IInv'
<1>1. /\ TypeOK /\ PlaceInv /\ TriedInv /\ CreatedInv /\ ChangeInv /\ RecordsInv
      /\ CrashOnlyInTransactions
  BY DEF IInv
<1>2. /\ crashed' = TRUE
      /\ UNCHANGED <<lib, refs, valid, stale, link, tried, created, inits, pc, reqVars>>
  BY Zenon DEF BadCall, CreateUnmapped, mgrVars, factoryVars
<1>3. ~created \/ stale \/ ~Mapped
  <2>1. CASE CreateUnmapped(t) BY <2>1 DEF CreateUnmapped
  <2>2. CASE BadCall(t) /\ ~valid
    <3>1. pc[t] \in {"connect", "login"} \/ pc[t] \notin InitPlaces
      BY <2>2 DEF BadCall, At, InitPlaces
    <3>2. inits[t] >= 0 /\ (pc[t] \notin InitPlaces => inits[t] = 0)
      BY <1>1 DEF TypeOK, PlaceInv
    <3> QED
      BY <1>1, <2>2, <3>1, <3>2, MgrAssumption
      DEF TypeOK, CreatedInv, Threads, MgrAssumption
  <2> QED BY <2>1, <2>2 DEF BadCall
<1>4. TypeOK' BY <1>1, <1>2 DEF TypeOK, reqVars
<1>5. PlaceInv' /\ TriedInv' /\ CreatedInv'
  BY <1>1, <1>2 DEF PlaceInv, TriedInv, CreatedInv, reqVars
<1>6. ChangeInv' /\ RecordsInv' /\ CrashOnlyInTransactions'
  BY <1>1, <1>2, <1>3 DEF ChangeInv, RecordsInv, CrashOnlyInTransactions, Mapped, reqVars
<1> QED BY <1>4, <1>5, <1>6 DEF IInv

-----------------------------------------------------------------------------
(* The steps of a callback                                                 *)

(* What only concerns the threads' Inits is left alone by the worker's     *)
(* places in a callback, as long as m_manager is not replaced.             *)
LEMMA CallbackFrame ==
  ASSUME IInv, inits["worker"] = 0,
         pc' = [pc EXCEPT !["worker"] = pc'["worker"]],
         pc'["worker"] \in CallbackPlaces \cup {"idle"},
         valid' = valid, tried' = tried \/ tried', created' = created, inits' = inits
  PROVE  PlaceInv' /\ TriedInv' /\ CreatedInv'
<1>1. TypeOK /\ PlaceInv /\ TriedInv /\ CreatedInv BY DEF IInv
<1>2. PlaceInv'
  BY <1>1 DEF TypeOK, PlaceInv, InitPlaces, CallbackPlaces, Threads
<1>3. TriedInv'
  <2>1. pc["worker"] # "connect" BY <1>1 DEF PlaceInv, InitPlaces, Threads
  <2> QED BY <1>1, <2>1 DEF TypeOK, TriedInv, Threads
<1>4. CreatedInv'
  BY <1>1 DEF TypeOK, CreatedInv, CallbackPlaces, Threads
<1> QED BY <1>2, <1>3, <1>4

(* A worker that is inside a callback, or can begin one, has no Init left. *)
LEMMA WorkerPlace ==
  ASSUME IInv, pc["worker"] \notin InitPlaces
  PROVE  inits["worker"] = 0
BY DEF IInv, TypeOK, PlaceInv, Threads

(* A request is taken.                                                     *)
LEMMA TakeRequestIInv ==
  ASSUME NEW r \in Requests, IInv, TakeRequest(r)
  PROVE  IInv'
<1>1. /\ TypeOK /\ PlaceInv /\ TriedInv /\ CreatedInv /\ ChangeInv /\ RecordsInv
      /\ CrashOnlyInTransactions
  BY DEF IInv
<1>2. /\ ~crashed /\ pc["worker"] = "idle" /\ count < MaxRequests /\ count' = count + 1
      /\ req' = r /\ pages' = 0 /\ held' = {} /\ replies' = 0 /\ last' = "none"
      /\ executed' = 0
      /\ UNCHANGED <<lib, refs, valid, stale, link, tried, created, inits, crashed>>
  BY DEF TakeRequest, At, mgrVars, factoryVars
<1>3. ~records' /\ records' \in BOOLEAN /\ lost' \in BOOLEAN
  BY Zenon DEF TakeRequest
<1>4. /\ pc' = [pc EXCEPT !["worker"] = pc'["worker"]]
      /\ \/ r = "heart" /\ ret' = "success" /\ pc'["worker"] = "reply"
         \/ ret' = "params" /\ pc'["worker"] = "reply"
         \/ ret' = "none" /\ pc'["worker"] = "ping"
  BY <1>1 DEF TakeRequest, Goto, TypeOK, Threads
<1>5. TypeOK'
  BY <1>1, <1>2, <1>3, <1>4, MgrAssumption
  DEF TypeOK, Codes, CallbackPlaces, Threads, MgrAssumption
<1>6. PlaceInv' /\ TriedInv' /\ CreatedInv'
  <2>1. PlaceInv'
    BY <1>1, <1>2, <1>4 DEF TypeOK, PlaceInv, InitPlaces, Threads
  <2> QED BY <1>1, <1>2, <1>4, <2>1 DEF TypeOK, TriedInv, CreatedInv, Threads
<1>7. ChangeInv' /\ RecordsInv' /\ CrashOnlyInTransactions'
  BY <1>1, <1>2, <1>3, <1>4
  DEF ChangeInv, RecordsInv, CrashOnlyInTransactions, ChangeRequests
<1> QED BY <1>5, <1>6, <1>7 DEF IInv

(* Ping, and fetching a record.                                            *)
LEMMA PingIInv ==
  ASSUME IInv, Ping \/ FetchRecord
  PROVE  IInv'
<1>1. /\ TypeOK /\ PlaceInv /\ TriedInv /\ CreatedInv /\ ChangeInv /\ RecordsInv
      /\ CrashOnlyInTransactions
  BY DEF IInv
<1>2. /\ ~crashed
      /\ pc' = [pc EXCEPT !["worker"] = pc'["worker"]]
      /\ \/ /\ pc["worker"] = "ping" /\ held' = held
            /\ \/ pc'["worker"] = "reconnect" \/ pc'["worker"] = "call"
               \/ pc'["worker"] = "record" /\ req = "updateUser"
         \/ /\ pc["worker"] = "record" /\ req = "updateUser"
            /\ \/ held' = {"record"} /\ pc'["worker"] = "free"
               \/ held' = held /\ pc'["worker"] = "call"
      /\ UNCHANGED <<lib, refs, valid, stale, link, tried, created, inits, count, req, ret,
                     pages, replies, last, executed, records, lost, crashed>>
  <2>1. CASE Ping
    BY <1>1, <2>1 DEF Ping, At, Goto, AfterPing, mgrVars, reqVars, factoryVars, TypeOK,
                      Threads
  <2>2. CASE FetchRecord
    BY <1>1, <2>2 DEF FetchRecord, At, Goto, RecordsInv, mgrVars, factoryVars, TypeOK,
                      Threads
  <2> QED BY <2>1, <2>2
<1>3. PlaceInv' /\ TriedInv' /\ CreatedInv'
  <2>1. UNCHANGED <<valid, tried, created, inits>> /\ inits["worker"] = 0
    BY <1>2, WorkerPlace DEF InitPlaces
  <2> QED BY <1>2, <2>1, CallbackFrame DEF CallbackPlaces
<1>4. TypeOK'
  <2>1. pc' \in [Threads -> InitPlaces \cup CallbackPlaces \cup {"idle"}]
    BY <1>1, <1>2 DEF TypeOK, CallbackPlaces
  <2>2. held' \subseteq {"trades", "users", "record"} BY <1>1, <1>2 DEF TypeOK
  <2> QED BY <1>1, <1>2, <2>1, <2>2 DEF TypeOK
<1>5. ChangeInv' /\ RecordsInv' /\ CrashOnlyInTransactions'
  BY <1>1, <1>2 DEF ChangeInv, RecordsInv, CrashOnlyInTransactions, ListRequests
<1> QED BY <1>3, <1>4, <1>5 DEF IInv

(* Connect of a callback: when it fails the callback goes on, ends,        *)
(* answers, or takes the process with it.                                  *)
LEMMA ReconnectIInv ==
  ASSUME IInv, Reconnect \/ Relogin
  PROVE  IInv'
<1>1. /\ TypeOK /\ PlaceInv /\ TriedInv /\ CreatedInv /\ ChangeInv /\ RecordsInv
      /\ CrashOnlyInTransactions
  BY DEF IInv
<1>2. /\ ~crashed /\ pc["worker"] \in {"reconnect", "relogin"}
      /\ link' \in {"down", "connected", "in"}
      /\ UNCHANGED <<lib, refs, valid, stale, created, inits, count, req, pages, held,
                     replies, last, executed, records>>
  BY <1>1 DEF Reconnect, Relogin, At, factoryVars, TypeOK
<1>3. tried' = tried \/ tried' BY Zenon DEF Reconnect, Relogin
<1>4. \/ /\ UNCHANGED <<ret, crashed, lost>>
         /\ pc' = [pc EXCEPT !["worker"] = "relogin"] \/ Goto("worker", AfterPing)
      \/ ConnectFailed
  BY DEF Reconnect, Relogin, Goto
<1>5. lost' \in BOOLEAN /\ crashed' \in BOOLEAN
  BY <1>1, <1>4, Zenon DEF ConnectFailed, TypeOK
<1>6. /\ pc' = [pc EXCEPT !["worker"] = pc'["worker"]]
      /\ \/ ret' = ret /\ crashed' = crashed /\ pc'["worker"] \in {"relogin", "call"}
         \/ ret' = ret /\ crashed' = crashed /\ pc'["worker"] = "record"
            /\ req = "updateUser"
         \/ ret' = ret /\ crashed' = crashed /\ pc'["worker"] = "idle" /\ req = "users"
         \/ ret' = "connErr" /\ crashed' = crashed /\ pc'["worker"] = "reply"
         \/ ret' = ret /\ pc' = pc /\ req \in {"balance", "newUser"}
  BY <1>1, <1>4 DEF ConnectFailed, Goto, AfterPing, TypeOK, Threads
<1>7. PlaceInv' /\ TriedInv' /\ CreatedInv'
  <2>1. inits["worker"] = 0
    BY <1>2, WorkerPlace DEF InitPlaces
  <2> QED BY <1>2, <1>3, <1>6, <2>1, CallbackFrame DEF CallbackPlaces
<1>8. TypeOK'
  <2>1. pc' \in [Threads -> InitPlaces \cup CallbackPlaces \cup {"idle"}]
    BY <1>1, <1>2, <1>6 DEF TypeOK, CallbackPlaces
  <2>2. ret' \in Codes BY <1>1, <1>6 DEF TypeOK, Codes
  <2>3. tried' \in BOOLEAN BY <1>1, Zenon DEF TypeOK, Reconnect, Relogin
  <2> QED BY <1>1, <1>2, <1>5, <2>1, <2>2, <2>3 DEF TypeOK
<1>9. ChangeInv' /\ RecordsInv' /\ CrashOnlyInTransactions'
  BY <1>1, <1>2, <1>6
  DEF ChangeInv, RecordsInv, CrashOnlyInTransactions, ListRequests
<1> QED BY <1>7, <1>8, <1>9 DEF IInv

(* The list that MT4 returns.                                              *)
LEMMA CallListIInv ==
  ASSUME IInv, CallList
  PROVE  IInv'
<1>1. /\ TypeOK /\ PlaceInv /\ TriedInv /\ CreatedInv /\ ChangeInv /\ RecordsInv
      /\ CrashOnlyInTransactions
  BY DEF IInv
<1>2. /\ ~crashed /\ pc["worker"] = "call" /\ req \in ListRequests
      /\ pc' = [pc EXCEPT !["worker"] = "pages"]
      /\ UNCHANGED <<lib, refs, valid, stale, link, tried, created, inits, count, req, ret,
                     replies, last, executed, lost, crashed>>
  BY DEF CallList, At, Goto, mgrVars, factoryVars
<1>3. \/ held' = {IF req = "users" THEN "users" ELSE "trades"} /\ pages' \in 0..MaxPages
      \/ held' = held /\ pages' = pages
  BY DEF CallList
<1>4. records' \in BOOLEAN /\ (records' => pages' > 0)
  <2>1. CASE records' = (pages' > 0)
    <3>1. pages' \in Nat BY <1>1, <1>3 DEF TypeOK
    <3>2. records' \in BOOLEAN BY <2>1, <3>1
    <3>3. records' => pages' > 0 BY <2>1, <3>1
    <3> QED BY <3>2, <3>3, Zenon
  <2>2. CASE records' = records
    <3>1. ~records /\ records \in BOOLEAN BY <1>1, <1>2 DEF RecordsInv, TypeOK
    <3> QED BY <2>2, <3>1, Zenon
  <2> QED BY <2>1, <2>2 DEF CallList
<1>5. TypeOK'
  <2>1. pc' \in [Threads -> InitPlaces \cup CallbackPlaces \cup {"idle"}]
    BY <1>1, <1>2 DEF TypeOK, CallbackPlaces
  <2>2. held' \subseteq {"trades", "users", "record"} /\ pages' \in 0..MaxPages
    BY <1>1, <1>3 DEF TypeOK
  <2> QED BY <1>1, <1>2, <1>4, <2>1, <2>2 DEF TypeOK
<1>6. PlaceInv' /\ TriedInv' /\ CreatedInv'
  <2>1. inits["worker"] = 0
    BY <1>2, WorkerPlace DEF InitPlaces
  <2>2. pc'["worker"] = "pages" BY <1>1, <1>2 DEF TypeOK, Threads
  <2> QED BY <1>2, <2>1, <2>2, CallbackFrame DEF CallbackPlaces
<1>7. ChangeInv' /\ RecordsInv' /\ CrashOnlyInTransactions'
  <2>1. pc'["worker"] = "pages" BY <1>1, <1>2 DEF TypeOK, Threads
  <2> QED
    BY <1>1, <1>2, <1>3, <1>4, <2>1
    DEF ChangeInv, RecordsInv, CrashOnlyInTransactions, ListRequests, ChangeRequests
<1> QED BY <1>5, <1>6, <1>7 DEF IInv

(* The change, its success and its failures.                               *)
LEMMA CallChangeIInv ==
  ASSUME IInv, CallChange
  PROVE  IInv'
<1>1. /\ TypeOK /\ PlaceInv /\ TriedInv /\ CreatedInv /\ ChangeInv /\ RecordsInv
      /\ CrashOnlyInTransactions
  BY DEF IInv
<1>2. /\ ~crashed /\ pc["worker"] = "call" /\ req \in ChangeRequests /\ executed = 0
      /\ UNCHANGED <<lib, refs, valid, stale, link, tried, created, inits, count, req,
                     pages, held, replies, last, records, lost>>
  BY <1>1 DEF CallChange, At, ChangeInv, mgrVars, factoryVars
<1>3. /\ executed' \in 0..1
      /\ \/ /\ pc' = [pc EXCEPT !["worker"] = "reply"] /\ crashed' = crashed
            /\ (ret' = "success" /\ executed' = 1) \/ ret' = "mt4Err"
         \/ ret' = ret /\ pc' = pc /\ req = "balance" /\ crashed' = TRUE
  BY <1>2 DEF CallChange, Goto
<1>4. crashed' \in BOOLEAN BY <1>1, <1>3, Zenon DEF TypeOK
<1>5. \/ pc'["worker"] = "reply" /\ crashed' = crashed
         /\ ((ret' = "success" /\ executed' = 1) \/ ret' = "mt4Err")
      \/ ret' = ret /\ pc'["worker"] = "call" /\ req = "balance" /\ crashed'
  <2>1. CASE ret' = ret /\ pc' = pc /\ req = "balance" /\ crashed' = TRUE
    BY <1>2, <2>1, Zenon
  <2> QED BY <1>1, <1>3, <2>1 DEF TypeOK, Threads
<1>6. pc' = [pc EXCEPT !["worker"] = pc'["worker"]]
  BY <1>1, <1>3 DEF TypeOK, Threads
<1>7. TypeOK'
  <2>1. pc' \in [Threads -> InitPlaces \cup CallbackPlaces \cup {"idle"}]
    BY <1>1, <1>2, <1>5, <1>6 DEF TypeOK, CallbackPlaces
  <2>2. ret' \in Codes BY <1>1, <1>5 DEF TypeOK, Codes
  <2> QED BY <1>1, <1>2, <1>3, <1>4, <2>1, <2>2 DEF TypeOK
<1>8. PlaceInv' /\ TriedInv' /\ CreatedInv'
  <2>1. inits["worker"] = 0
    BY <1>2, WorkerPlace DEF InitPlaces
  <2> QED BY <1>2, <1>5, <1>6, <2>1, CallbackFrame DEF CallbackPlaces
<1>9. ChangeInv' /\ RecordsInv' /\ CrashOnlyInTransactions'
  BY <1>1, <1>2, <1>3, <1>5
  DEF TypeOK, ChangeInv, RecordsInv, CrashOnlyInTransactions, ListRequests
<1> QED BY <1>7, <1>8, <1>9 DEF IInv

(* The messages, the end of the list, and the one answer of the others.    *)
LEMMA AnswerIInv ==
  ASSUME IInv, SendPage \/ EndPages \/ MemFree \/ Reply
  PROVE  IInv'
<1>1. /\ TypeOK /\ PlaceInv /\ TriedInv /\ CreatedInv /\ ChangeInv /\ RecordsInv
      /\ CrashOnlyInTransactions
  BY DEF IInv
<1>2. /\ ~crashed /\ pc["worker"] \in {"pages", "free", "reply"}
      /\ pc' = [pc EXCEPT !["worker"] = pc'["worker"]]
      /\ UNCHANGED <<lib, refs, valid, stale, link, tried, created, inits, count, req, ret,
                     executed, records, lost, crashed>>
  BY <1>1
  DEF SendPage, EndPages, MemFree, Reply, At, Goto, mgrVars, reqVars, factoryVars,
      TypeOK, Threads
<1>3. \/ /\ pc["worker"] = "pages" /\ pc'["worker"] = "pages" /\ held' = held
         /\ pages > 0 /\ pages' = pages - 1 /\ replies' = replies + 1 /\ last' = "success"
      \/ /\ pc["worker"] = "pages" /\ pages = 0 /\ UNCHANGED <<held, pages, replies, last>>
         /\ pc'["worker"] = IF "users" \in held THEN "free" ELSE "idle"
      \/ /\ pc["worker"] = "free" /\ held' = held \ {"users", "record"}
         /\ pc'["worker"] = (IF req = "users" THEN "idle" ELSE "call")
         /\ UNCHANGED <<pages, replies, last>>
      \/ /\ pc["worker"] = "reply" /\ pc'["worker"] = "idle"
         /\ replies' = replies + 1 /\ last' = ret /\ UNCHANGED <<held, pages>>
  BY <1>1
  DEF SendPage, EndPages, MemFree, Reply, At, Goto, reqVars, TypeOK, Threads
<1>4. TypeOK'
  <2>1. pc' \in [Threads -> InitPlaces \cup CallbackPlaces \cup {"idle"}]
    BY <1>1, <1>2, <1>3 DEF TypeOK, CallbackPlaces
  <2>2. pages' \in 0..MaxPages /\ replies' \in Nat
    BY <1>1, <1>3, MgrAssumption DEF TypeOK, MgrAssumption
  <2>3. last' \in Codes
    <3>1. last \in Codes /\ ret \in Codes /\ "success" \in Codes BY <1>1 DEF TypeOK, Codes
    <3> QED BY <1>3, <3>1
  <2>4. held' \subseteq {"trades", "users", "record"}
    <3>1. held' \subseteq held BY <1>3
    <3> QED BY <1>1, <3>1 DEF TypeOK
  <2> QED BY <1>1, <1>2, <2>1, <2>2, <2>3, <2>4 DEF TypeOK
<1>5. PlaceInv' /\ TriedInv' /\ CreatedInv'
  <2>1. inits["worker"] = 0
    BY <1>2, WorkerPlace DEF InitPlaces
  <2> QED BY <1>2, <1>3, <2>1, CallbackFrame DEF CallbackPlaces
<1>6. ChangeInv' /\ CrashOnlyInTransactions'
  BY <1>1, <1>2, <1>3
  DEF ChangeInv, RecordsInv, CrashOnlyInTransactions, ListRequests, ChangeRequests
<1>7. RecordsInv'
  <2>1. /\ replies \in Nat /\ pages \in Nat /\ held' \subseteq held
        /\ records' = records /\ req' = req /\ count' = count
    BY <1>1, <1>2, <1>3 DEF TypeOK
  <2>2. CASE pc["worker"] = "pages"
    <3>1. req \in ListRequests /\ (records => pages > 0 \/ replies > 0)
          /\ ("users" \in held => req = "users")
      BY <1>1, <2>2 DEF ChangeInv, RecordsInv
    <3>2. CASE pc'["worker"] = "pages"
      BY <1>3, <2>1, <2>2, <3>1, <3>2 DEF RecordsInv
    <3>3. CASE pc'["worker"] = "free" \/ pc'["worker"] = "idle"
      <4>1. /\ pages = 0 /\ UNCHANGED <<held, pages, replies, last>>
            /\ pc'["worker"] = "free" => "users" \in held
        BY <1>3, <2>2, <3>3
      <4>2. records => replies > 0 BY <2>1, <3>1, <4>1
      <4>3. CASE pc'["worker"] = "free"
        <5>1. req' = "users" BY <2>1, <3>1, <4>1, <4>3
        <5>2. records' => replies' > 0 BY <2>1, <4>1, <4>2
        <5> QED BY <4>3, <5>1, <5>2 DEF RecordsInv
      <4>4. CASE pc'["worker"] = "idle"
        BY <2>1, <3>1, <4>1, <4>2, <4>4 DEF RecordsInv
      <4> QED BY <3>3, <4>3, <4>4
    <3> QED BY <1>3, <2>2, <3>2, <3>3
  <2>3. CASE pc["worker"] = "free"
    BY <1>1, <1>3, <2>1, <2>3 DEF RecordsInv, ListRequests
  <2>4. CASE pc["worker"] = "reply"
    BY <1>1, <1>3, <2>1, <2>4 DEF RecordsInv, ListRequests
  <2> QED BY <1>2, <2>2, <2>3, <2>4
<1> QED BY <1>4, <1>5, <1>6, <1>7 DEF IInv

(* The connection is lost.                                                 *)
LEMMA LinkDropsIInv ==
  ASSUME IInv, LinkDrops
  PROVE  IInv'
<1>1. /\ link' = "down"
      /\ UNCHANGED <<lib, refs, valid, stale, tried, created, inits, pc, reqVars, crashed>>
  BY DEF LinkDrops, factoryVars
<1> QED
  BY <1>1
  DEF IInv, TypeOK, PlaceInv, TriedInv, CreatedInv, ChangeInv, RecordsInv,
      CrashOnlyInTransactions, Mapped, reqVars

(* Every step keeps the invariant.                                         *)
LEMMA NextIInv == IInv /\ [Next]_vars => IInv'
<1> SUFFICES ASSUME IInv, [Next]_vars PROVE IInv'
  OBVIOUS
<1>1. CASE Next
  BY <1>1, FactoryIInv, CreateIInv, ConnectIInv, CrashIInv, TakeRequestIInv, PingIInv,
     ReconnectIInv, CallListIInv, CallChangeIInv, AnswerIInv, LinkDropsIInv
  DEF Next, InitThread, Callback
<1>2. CASE UNCHANGED vars
  BY <1>2
  DEF vars, mgrVars, reqVars, factoryVars, IInv, TypeOK, PlaceInv, TriedInv, CreatedInv,
      ChangeInv, RecordsInv, CrashOnlyInTransactions, Mapped
<1> QED BY <1>1, <1>2

(* The strengthened invariant holds in every behaviour.                    *)
LEMMA Invariant == Spec => []IInv
BY InitIInv, NextIInv, PTL DEF Spec

-----------------------------------------------------------------------------
(* The variables keep their types: no request is handled by the starter,   *)
(* and none has more than one effect.                                      *)
THEOREM TypeCorrect == Spec => []TypeOK
<1>1. IInv => TypeOK BY DEF IInv
<1> QED BY <1>1, Invariant, PTL

(* TradeTransaction, UserRecordNew and UserRecordUpdate answer success     *)
(* only for a change that MT4 made, and ask for none twice.                *)
THEOREM SuccessCanBeRelied == Spec => []SuccessIsReal
<1>1. IInv => SuccessIsReal
  BY DEF IInv, TypeOK, ChangeInv, SuccessIsReal
<1> QED BY <1>1, Invariant, PTL

(* The lists leave a request without an answer only when MT4 had no        *)
(* records for it; every other callback answers.                           *)
THEOREM SilenceMeansNothing == Spec => []SilentOnlyWithoutRecords
<1>1. IInv => SilentOnlyWithoutRecords
  BY DEF IInv, RecordsInv, SilentOnlyWithoutRecords, Answered, At
<1> QED BY <1>1, Invariant, PTL

(* However the Inits of the starter and of the worker overlap, they leave  *)
(* an m_manager on which Connect was called.                               *)
THEOREM RemainingIsTried == Spec => []RemainingManagerTried
<1>1. IInv => RemainingManagerTried
  BY DEF IInv, PlaceInv, TriedInv, RemainingManagerTried, InitPlaces
<1> QED BY <1>1, Invariant, PTL

(* The process dies in a list or an update of a user only for the lack of  *)
(* an interface or of its library.                                         *)
THEOREM CrashesAreTransactions == Spec => []CrashOnlyInTransactions
<1>1. IInv => CrashOnlyInTransactions BY DEF IInv
<1> QED BY <1>1, Invariant, PTL
-----------------------------------------------------------------------------
(* What CallbackReturns needs of safety: how far the place of the worker   *)
(* is from the end of its callback.                                        *)
Left ==
  CASE pc["worker"] = "ping"      -> 8
    [] pc["worker"] = "reconnect" -> 7
    [] pc["worker"] = "relogin"   -> 6
    [] pc["worker"] = "record"    -> 5
    [] pc["worker"] = "free"      -> IF req = "users" THEN 1 ELSE 4
    [] pc["worker"] = "call"      -> 3
    [] pc["worker"] = "pages"     -> 2
    [] pc["worker"] = "reply"     -> 1
    [] OTHER -> 0

(* No callback goes round in circles: each of its steps brings it nearer   *)
(* to its end, in the place or in the messages still to be sent, or ends   *)
(* the process; and nothing the starter or the network does takes it back. *)
CallbackNearsItsEnd ==
  [][pc["worker"] \in CallbackPlaces =>
       \/ crashed'
       \/ Callback /\ (Left' < Left \/ (Left' = Left /\ pages' < pages))
       \/ ~Callback /\ UNCHANGED <<Left, pages>>]_vars

(* A callback of LogicSyc does not try for ever: MT4's failures lead it    *)
(* forward, never back.                                                    *)
THEOREM NoCallbackCircles == Spec => CallbackNearsItsEnd
<1> USE DEF At, Goto, reqVars
<1>1. ASSUME IInv, Callback, pc["worker"] \in CallbackPlaces
      PROVE  crashed' \/ Left' < Left \/ (Left' = Left /\ pages' < pages)
  <2>1. /\ pc \in [Threads -> InitPlaces \cup CallbackPlaces \cup {"idle"}]
        /\ "worker" \in Threads /\ pages \in Nat
    BY <1>1, MgrAssumption DEF IInv, TypeOK, Threads, MgrAssumption
  <2>2. CASE Ping
    BY <2>1, <2>2 DEF Ping, AfterPing, Left
  <2>3. CASE Reconnect
    BY <2>1, <2>3 DEF Reconnect, ConnectFailed, Left
  <2>4. CASE Relogin
    BY <2>1, <2>4 DEF Relogin, ConnectFailed, AfterPing, Left
  <2>5. CASE FetchRecord
    <3>1. req # "users"
      BY <1>1, <2>5 DEF FetchRecord, IInv, RecordsInv
    <3> QED BY <2>1, <2>5, <3>1 DEF FetchRecord, Left
  <2>6. CASE CallList \/ CallChange
    BY <2>1, <2>6 DEF CallList, CallChange, Left
  <2>7. CASE SendPage
    BY <2>1, <2>7 DEF SendPage, Left
  <2>8. CASE EndPages
    <3>1. "users" \in held => req = "users"
      BY <1>1 DEF IInv, RecordsInv
    <3> QED BY <2>1, <2>8, <3>1 DEF EndPages, Left
  <2>9. CASE MemFree \/ Reply
    BY <2>1, <2>9 DEF MemFree, Reply, Left
  <2> QED BY <1>1, <2>2, <2>3, <2>4, <2>5, <2>6, <2>7, <2>8, <2>9 DEF Callback
<1>2. ASSUME IInv, [Next]_vars, ~Callback, pc["worker"] \in CallbackPlaces
      PROVE  UNCHANGED <<Left, pages>>
  <2>1. /\ pc \in [Threads -> InitPlaces \cup CallbackPlaces \cup {"idle"}]
        /\ pc["worker"] \notin InitPlaces /\ pc["worker"] # "idle"
    BY <1>2 DEF IInv, TypeOK, InitPlaces, CallbackPlaces
  <2>2. pc'["worker"] = pc["worker"] /\ UNCHANGED <<req, pages>>
    <3>1. ASSUME NEW t \in Threads, InitThread(t)
          PROVE  pc'["worker"] = pc["worker"] /\ UNCHANGED <<req, pages>>
      <4>1. CASE BadCall(t) \/ CreateUnmapped(t)
        BY <4>1 DEF BadCall, CreateUnmapped
      <4>2. CASE \/ Unload(t) \/ Load(t) \/ Create(t) \/ CreateFails(t)
                 \/ CreatePump(t) \/ Connect(t) \/ Login(t)
        <5>1. pc[t] \in InitPlaces /\ t # "worker"
          BY <2>1, <4>2 DEF InitPlaces, Unload, Load, Create, CreateFails, CreatePump,
                            Connect, Login
        <5>2. UNCHANGED <<req, pages>>
          BY <4>2 DEF Unload, Load, Create, CreateFails, CreatePump, Connect, Login
        <5>3. \E place : pc' = [pc EXCEPT ![t] = place]
          BY <4>2 DEF Unload, Load, Create, CreateFails, CreatePump, Connect, Login,
                      EndInit
        <5> QED BY <2>1, <5>1, <5>2, <5>3
      <4> QED BY <3>1, <4>1, <4>2 DEF InitThread
    <3>2. CASE LinkDrops \/ UNCHANGED vars
      BY <3>2 DEF LinkDrops, vars
    <3>3. ~(\E r \in Requests : TakeRequest(r))
      BY <2>1 DEF TakeRequest
    <3> QED BY <1>2, <3>1, <3>2, <3>3 DEF Next
  <2> QED BY <2>2 DEF Left
<1>3. ASSUME IInv, [Next]_vars
      PROVE  [pc["worker"] \in CallbackPlaces =>
                \/ crashed'
                \/ Callback /\ (Left' < Left \/ (Left' = Left /\ pages' < pages))
                \/ ~Callback /\ UNCHANGED <<Left, pages>>]_vars
  BY <1>1, <1>2, <1>3
<1> QED BY <1>3, Invariant, PTL DEF Spec, CallbackNearsItsEnd
=============================================================================
