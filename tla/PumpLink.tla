------------------------------- MODULE PumpLink -------------------------------
(***************************************************************************)
(* The pump's connection to MT4: StartPumpThread (the starter) makes the   *)
(* interface m_pumping, switches it to pumping and looks after it, while   *)
(* LogicSyc's worker, made by the first request, reloads the library under *)
(* it.                                                                     *)
(*                                                                         *)
(* Each call of m_pumping is a step.  MT4 pumps on a thread of its own,    *)
(* which tells OnPumpingExFunc of the start and of the stop; the updates   *)
(* in between are the subject of Mt4PumpSvr.  Nobody looks at what Init    *)
(* and Connect return.                                                     *)
(***************************************************************************)
EXTENDS ManagerFactory, Sequences

CONSTANTS
  MgrInits,   \* calls of Mt4MgrSvr::Init per thread, 2 in the code
  MaxFails,   \* bound: calls that MT4 refuses for no reason seen here
  MaxDrops    \* bound: lost connections

ASSUME LinkAssumption ==
  MgrInits \in Nat \ {0} /\ MaxFails \in Nat /\ MaxDrops \in Nat

Threads == {"starter", "worker"}

VARIABLES
  valid,    \* m_pumping is not NULL
  stale,    \* the library was unloaded since m_pumping was made
  link,     \* of m_pumping: "down", "connected", or "in" when logged in
  pumping,  \* MT4 sends updates
  events,   \* calls of OnPumpingExFunc to come, "start" or "stop"
  pc,       \* per thread: its place
  inits,    \* per thread: calls of Mt4MgrSvr::Init still to come
  fails, drops,
  refused,  \* history: MT4 refused a login or a switch, the connection holding
  crashed   \* the process is gone

pumpVars == <<valid, stale, link, pumping, events>>
envVars  == <<fails, drops, refused>>
vars == <<factoryVars, pumpVars, pc, inits, envVars, crashed>>

TypeOK ==
  /\ lib \in BOOLEAN /\ refs \in Nat
  /\ valid \in BOOLEAN /\ stale \in BOOLEAN
  /\ link \in {"down", "connected", "in"} /\ pumping \in BOOLEAN
  /\ events \in Seq({"start", "stop"})
  /\ pc \in [Threads -> {"absent", "unload", "load", "create", "connect", "login",
                         "switch", "sleep", "ping", "reconnect", "relogin",
                         "reswitch", "idle"}]
  /\ inits \in [Threads -> 0..MgrInits]
  /\ fails \in 0..MaxFails /\ drops \in 0..MaxDrops
  /\ refused \in BOOLEAN /\ crashed \in BOOLEAN
  /\ pumping => valid /\ link = "in"

Init ==
  /\ FactoryInit
  /\ valid = FALSE /\ stale = FALSE /\ link = "down" /\ pumping = FALSE
  /\ events = <<>>
  /\ pc = [t \in Threads |-> IF t = "starter" THEN "unload" ELSE "absent"]
  /\ inits = [t \in Threads |-> MgrInits]
  /\ fails = 0 /\ drops = 0 /\ refused = FALSE
  /\ crashed = FALSE

At(t, place) == ~crashed /\ pc[t] = place

Goto(t, place) == pc' = [pc EXCEPT ![t] = place]

-----------------------------------------------------------------------------
(* m_factory.Init and Create, on either thread                             *)

(* The first request makes LogicSyc, and with it the worker.               *)
FirstRequest ==
  /\ At("worker", "absent")
  /\ Goto("worker", "unload")
  /\ UNCHANGED <<factoryVars, pumpVars, inits, envVars, crashed>>

(* FreeLibrary takes the code of m_pumping along, and that of the thread   *)
(* that pumps.                                                             *)
Unload(t) ==
  /\ At(t, "unload")
  /\ FreeLibrary
  /\ stale' = (stale \/ refs' = 0)
  /\ Goto(t, "load")
  /\ UNCHANGED <<valid, link, pumping, events, inits, envVars, crashed>>

Load(t) ==
  /\ At(t, "load")
  /\ LoadLibrary
  /\ Goto(t, "create")
  /\ UNCHANGED <<pumpVars, inits, envVars, crashed>>

(* The starter's Init is that of Mt4PumpSvr: its last one.                 *)
ForPump(t) == t = "starter" /\ inits[t] = 0

(* Mutant: the worker calls Init once too often.                           *)
EndMgrInitLate(t) ==
  /\ At(t, "create") /\ ~ForPump(t)
  /\ inits' = [inits EXCEPT ![t] = @ - 1]
  /\ Goto(t, IF t = "worker" /\ inits[t] = 0 THEN "idle" ELSE "unload")
  /\ UNCHANGED <<factoryVars, pumpVars, envVars, crashed>>

(* An Init of Mt4MgrSvr ends, whatever became of m_manager.                *)
EndMgrInit(t) ==
  /\ At(t, "create") /\ ~ForPump(t)
  /\ inits' = [inits EXCEPT ![t] = @ - 1]
  /\ Goto(t, IF t = "worker" /\ inits[t] = 1 THEN "idle" ELSE "unload")
  /\ UNCHANGED <<factoryVars, pumpVars, envVars, crashed>>

CreatePump ==
  /\ At("starter", "create") /\ ForPump("starter") /\ lib
  /\ valid' = TRUE /\ stale' = FALSE
  /\ Goto("starter", "connect")
  /\ UNCHANGED <<factoryVars, link, pumping, events, inits, envVars, crashed>>

(* No library, or no interface: Init returns false, StartPumpThread goes   *)
(* on.                                                                     *)
CreatePumpFails ==
  /\ At("starter", "create") /\ ForPump("starter")
  /\ Goto("starter", "sleep")
  /\ UNCHANGED <<factoryVars, pumpVars, inits, envVars, crashed>>

CreateUnmapped(t) ==
  /\ At(t, "create") /\ lib /\ ~Mapped
  /\ crashed' = TRUE
  /\ UNCHANGED <<factoryVars, pumpVars, pc, inits, envVars>>

-----------------------------------------------------------------------------
(* Mt4PumpSvr::Init and CheckConnect, on the starter                       *)

Places == [connect |-> "login", login |-> "switch", switch |-> "sleep",
           reconnect |-> "relogin", relogin |-> "reswitch", reswitch |-> "sleep"]

(* Where a failure leads: Init gives up, CheckConnect tries the switch.    *)
AfterFailure == [connect |-> "sleep", login |-> "sleep", switch |-> "sleep",
                 reconnect |-> "reswitch", relogin |-> "reswitch",
                 reswitch |-> "sleep"]

(* A call through m_pumping at one of these places.                        *)
Calls(places) ==
  /\ ~crashed /\ valid
  /\ pc["starter"] \in places

Succeeds == Goto("starter", Places[pc["starter"]]) /\ UNCHANGED fails

Fails ==
  /\ fails < MaxFails
  /\ fails' = fails + 1
  /\ Goto("starter", AfterFailure[pc["starter"]])

(* What was pumping stops, and the callback is told so.                    *)
StopPumping ==
  /\ pumping' = FALSE
  /\ events' = IF pumping THEN Append(events, "stop") ELSE events

Connect ==
  /\ Calls({"connect", "reconnect"})
  /\ StopPumping
  /\ refused' = FALSE
  /\ \/ link' = "connected" /\ Succeeds
     \/ link' = "down" /\ Fails
  /\ UNCHANGED <<factoryVars, valid, stale, inits, drops, crashed>>

Login ==
  /\ Calls({"login", "relogin"})
  /\ \/ link = "connected" /\ link' = "in" /\ Succeeds /\ UNCHANGED refused
     \/ link = "connected" /\ Fails /\ refused' = TRUE /\ UNCHANGED link
     \/ /\ link = "down" /\ Goto("starter", AfterFailure[pc["starter"]])
        /\ UNCHANGED <<link, fails, refused>>
  /\ UNCHANGED <<factoryVars, valid, stale, pumping, events, inits, drops, crashed>>

(* Mutant: after a reconnection the switch is forgotten.                   *)
PumpingSwitchExOnce ==
  /\ Calls({"switch", "reswitch"})
  /\ Goto("starter", "sleep")
  /\ \/ /\ link = "in" /\ pc["starter"] = "switch"
        /\ pumping' = TRUE /\ events' = Append(events, "start")
        /\ refused' = FALSE /\ UNCHANGED fails
     \/ /\ link = "in" /\ fails < MaxFails /\ fails' = fails + 1
        /\ refused' = TRUE /\ UNCHANGED <<pumping, events>>
     \/ /\ link # "in" \/ pc["starter"] = "reswitch"
        /\ UNCHANGED <<pumping, events, fails, refused>>
  /\ UNCHANGED <<factoryVars, valid, stale, link, inits, drops, crashed>>

(* PumpingSwitchEx needs a login.                                          *)
PumpingSwitchEx ==
  /\ Calls({"switch", "reswitch"})
  /\ Goto("starter", "sleep")
  /\ \/ /\ link = "in"
        /\ pumping' = TRUE /\ events' = Append(events, "start")
        /\ refused' = FALSE /\ UNCHANGED fails
     \/ /\ link = "in" /\ fails < MaxFails /\ fails' = fails + 1
        /\ refused' = TRUE /\ UNCHANGED <<pumping, events>>
     \/ link # "in" /\ UNCHANGED <<pumping, events, fails, refused>>
  /\ UNCHANGED <<factoryVars, valid, stale, link, inits, drops, crashed>>

(* Sleep(1000), and CheckConnect begins.                                   *)
WakeUp ==
  /\ At("starter", "sleep")
  /\ Goto("starter", "ping")
  /\ UNCHANGED <<factoryVars, pumpVars, inits, envVars, crashed>>

(* Mutant: CheckConnect switches without connecting first.                 *)
PingThenSwitch ==
  /\ Calls({"ping"})
  /\ \/ link # "down" /\ Goto("starter", "sleep") /\ UNCHANGED fails
     \/ link # "in" /\ Goto("starter", "reswitch") /\ UNCHANGED fails
     \/ /\ link = "in" /\ fails < MaxFails /\ fails' = fails + 1
        /\ Goto("starter", "reswitch")
  /\ UNCHANGED <<factoryVars, pumpVars, inits, drops, refused, crashed>>

(* Mutant: CheckConnect begins again with Init.                            *)
PingThenInit ==
  /\ Calls({"ping"})
  /\ \/ link # "down" /\ Goto("starter", "sleep")
     \/ link # "in" /\ Goto("starter", "unload")
  /\ UNCHANGED <<factoryVars, pumpVars, inits, envVars, crashed>>

(* When Ping succeeds there is nothing to do; it may fail on a good        *)
(* connection too.                                                         *)
Ping ==
  /\ Calls({"ping"})
  /\ \/ link # "down" /\ Goto("starter", "sleep") /\ UNCHANGED fails
     \/ link # "in" /\ Goto("starter", "reconnect") /\ UNCHANGED fails
     \/ /\ link = "in" /\ fails < MaxFails /\ fails' = fails + 1
        /\ Goto("starter", "reconnect")
  /\ UNCHANGED <<factoryVars, pumpVars, inits, drops, refused, crashed>>

(* m_pumping->... through a null pointer, or into an unloaded library.     *)
BadCall ==
  /\ ~valid \/ stale
  /\ ~crashed
  /\ pc["starter"] \in DOMAIN Places \cup {"ping"}
  /\ crashed' = TRUE
  /\ UNCHANGED <<factoryVars, pumpVars, pc, inits, envVars>>

-----------------------------------------------------------------------------
(* MT4's thread, and the connection                                        *)

(* OnPumpingExFunc: OnPumpStart asks m_pumping for a user, his margin and  *)
(* the groups and only logs the answers, OnPumpStop only logs.             *)
OnPumpingExFunc ==
  /\ ~crashed
  /\ events # <<>>
  /\ events' = Tail(events)
  /\ UNCHANGED <<factoryVars, valid, stale, link, pumping, pc, inits, envVars, crashed>>

(* The thread that pumps is in the library, and so is OnPumpStart when it  *)
(* asks.                                                                   *)
PumpUnmapped ==
  /\ ~crashed
  /\ stale /\ (pumping \/ events # <<>>)
  /\ crashed' = TRUE
  /\ UNCHANGED <<factoryVars, pumpVars, pc, inits, envVars>>

LinkDrops ==
  /\ ~crashed
  /\ link # "down" /\ drops < MaxDrops
  /\ drops' = drops + 1
  /\ link' = "down"
  /\ StopPumping
  /\ refused' = FALSE
  /\ UNCHANGED <<factoryVars, valid, stale, pc, inits, fails, crashed>>

-----------------------------------------------------------------------------
Reload(t) == Unload(t) \/ Load(t) \/ EndMgrInit(t) \/ CreateUnmapped(t)

Starter ==
  \/ Reload("starter") \/ CreatePump \/ CreatePumpFails
  \/ Connect \/ Login \/ PumpingSwitchEx \/ WakeUp \/ Ping \/ BadCall

Next ==
  \/ Starter \/ FirstRequest \/ Reload("worker")
  \/ OnPumpingExFunc \/ PumpUnmapped \/ LinkDrops

(* The threads run, and the calls of MT4 return.                           *)
Fairness == WF_vars(Starter) /\ WF_vars(Reload("worker")) /\ WF_vars(OnPumpingExFunc)

Spec == Init /\ [][Next]_vars /\ Fairness

-----------------------------------------------------------------------------
(* Properties                                                              *)

(* Whatever Init failed at and however often the connection is lost, MT4   *)
(* pumps again in the end.  The exceptions: MT4 refused a login or a       *)
(* switch on a connection that holds, for then Ping succeeds and           *)
(* CheckConnect has nothing to do; and the process is gone.                *)
PumpRestored == []<>(pumping \/ refused \/ crashed)

(* CheckConnect never switches on what is on: the callback is told of      *)
(* starts and stops in turn.                                               *)
StartsAndStopsAlternate ==
  \A i \in 1..(Len(events) - 1) : events[i] # events[i + 1]

(* When nobody is about to load it, a library that the factory takes for loaded *)
(* is loaded, however the Inits of the two threads overlapped.             *)
LibraryHeld ==
  lib /\ (\A t \in Threads : pc[t] # "load") => Mapped

(* Until the first request comes, nothing but an interface that was never  *)
(* made ends the process; from then on the worker's Init pulls the library *)
(* from under the pump.                                                    *)
SafeUntilFirstRequest == pc["worker"] = "absent" /\ valid => ~stale /\ ~crashed
=============================================================================
