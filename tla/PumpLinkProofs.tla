---------------------------- MODULE PumpLinkProofs ----------------------------
(* What PumpLink promises of its safety, for every number of Inits,        *)
(* refused calls and lost connections.                                     *)
EXTENDS PumpLink, SequenceTheorems, TLAPS

(* What Tail and Head are in terms of elements.                            *)
LEMMA TailFacts ==
  ASSUME NEW S, NEW s \in Seq(S), s # <<>>
  PROVE  /\ Tail(s) \in Seq(S)
         /\ Len(Tail(s)) = Len(s) - 1
         /\ Len(s) \in Nat \ {0}
         /\ \A i \in 1..(Len(s) - 1) : Tail(s)[i] = s[i + 1]
         /\ Head(s) = s[1] /\ Head(s) \in S
  BY HeadTailProperties, EmptySeq


(* Once m_pumping is made the starter calls Init no more; the worker has   *)
(* an Init to do as long as it is in one; and whoever is about to log in   *)
(* or to switch has stopped the pumping.                                   *)
PlaceInv ==
  /\ valid => pc["starter"] \notin {"absent", "unload", "load", "create"}
  /\ pc["worker"] \in {"absent", "unload", "load", "create", "idle"}
  /\ pc["worker"] # "idle" => inits["worker"] > 0
  /\ pc["starter"] \in {"connect", "login", "switch", "relogin", "reswitch"} => ~pumping

(* The last of the events to come says whether MT4 pumps.                  *)
EventInv ==
  /\ StartsAndStopsAlternate
  /\ events # <<>> => (events[Len(events)] = "start" <=> pumping)

IInv == TypeOK /\ PlaceInv /\ EventInv /\ LibraryHeld /\ SafeUntilFirstRequest

(* The invariant holds when the starter starts.                            *)
LEMMA InitIInv == Init => IInv
<1> SUFFICES ASSUME Init PROVE IInv
  OBVIOUS
<1>1. TypeOK
  <2>1. <<>> \in Seq({"start", "stop"}) BY SeqDef
  <2>2. lib \in BOOLEAN BY Zenon DEF Init, FactoryInit
  <2>4. refs \in Nat BY DEF Init, FactoryInit
  <2>3. /\ inits \in [Threads -> 0..MgrInits]
        /\ fails \in 0..MaxFails /\ drops \in 0..MaxDrops
    BY LinkAssumption DEF Init, LinkAssumption
  <2> QED BY <2>1, <2>2, <2>3, <2>4 DEF Init, TypeOK
<1>2. PlaceInv /\ EventInv
  BY LinkAssumption
  DEF Init, PlaceInv, EventInv, StartsAndStopsAlternate, Threads, LinkAssumption
<1>3. LibraryHeld /\ SafeUntilFirstRequest
  BY DEF Init, FactoryInit, LibraryHeld, SafeUntilFirstRequest, Mapped
<1> QED BY <1>1, <1>2, <1>3 DEF IInv

-----------------------------------------------------------------------------
(* One more or one less of the events to come                              *)

(* What is appended, being the opposite of the last, keeps the turns.      *)
LEMMA AppendAlternates ==
  ASSUME NEW ev \in {"start", "stop"}, TypeOK, EventInv,
         ev = "start" <=> ~pumping,
         events' = Append(events, ev), pumping' = ~pumping
  PROVE  EventInv'
<1>1. events \in Seq({"start", "stop"}) BY DEF TypeOK
<1>2. /\ Len(events') = Len(events) + 1
      /\ \A i \in 1..Len(events) : events'[i] = events[i]
      /\ events'[Len(events) + 1] = ev
  BY <1>1
<1>3. events # <<>> => Len(events) > 0 /\ events[Len(events)] \in {"start", "stop"}
  BY <1>1, EmptySeq
<1>4. StartsAndStopsAlternate'
  <2> SUFFICES ASSUME NEW i \in 1..(Len(events') - 1)
               PROVE  events'[i] # events'[i + 1]
    BY DEF StartsAndStopsAlternate
  <2>1. CASE i < Len(events)
    BY <1>1, <1>2, <2>1 DEF EventInv, StartsAndStopsAlternate
  <2>2. CASE i = Len(events)
    BY <1>1, <1>2, <1>3, <2>2 DEF EventInv
  <2> QED BY <1>1, <1>2, <2>1, <2>2
<1>5. events'[Len(events')] = "start" <=> pumping'
  BY <1>2 DEF TypeOK
<1> QED BY <1>4, <1>5 DEF EventInv

(* Taking the first keeps the turns and the last.                          *)
LEMMA TailAlternates ==
  ASSUME TypeOK, EventInv, events # <<>>,
         events' = Tail(events), pumping' = pumping
  PROVE  EventInv'
<1>1. events \in Seq({"start", "stop"}) BY DEF TypeOK
<1>2. /\ Len(events') = Len(events) - 1
      /\ \A i \in 1..Len(events') : events'[i] = events[i + 1]
      /\ Len(events) \in Nat \ {0} /\ events' \in Seq({"start", "stop"})
  BY <1>1, TailFacts
<1>3. StartsAndStopsAlternate'
  BY <1>1, <1>2 DEF EventInv, StartsAndStopsAlternate
<1>4. events' # <<>> => Len(events') > 0 /\ events'[Len(events')] = events[Len(events)]
  BY <1>1, <1>2, EmptySeq
<1> QED BY <1>3, <1>4 DEF EventInv

-----------------------------------------------------------------------------
(* The steps                                                               *)

(* Nothing but the process's life, or the place and the Inits of a thread, *)
(* is touched by these.                                                    *)
LEMMA PlainStepsIInv ==
  ASSUME IInv,
         \/ FirstRequest \/ CreatePumpFails \/ WakeUp \/ Ping
         \/ \E t \in Threads : EndMgrInit(t)
  PROVE  IInv'
<1>1. TypeOK /\ PlaceInv /\ EventInv /\ LibraryHeld /\ SafeUntilFirstRequest
  BY DEF IInv
<1> USE DEF At, Goto, pumpVars, envVars, factoryVars
<1>2. UNCHANGED <<lib, refs, valid, stale, link, pumping, events, drops, refused, crashed>>
  BY DEF FirstRequest, CreatePumpFails, WakeUp, Ping, Calls, EndMgrInit
<1>3. TypeOK'
  <2>1. CASE FirstRequest \/ CreatePumpFails \/ WakeUp
    BY <1>1, <1>2, <2>1 DEF TypeOK, Threads, FirstRequest, CreatePumpFails, WakeUp
  <2>2. CASE Ping
    BY <1>1, <1>2, <2>2, LinkAssumption DEF TypeOK, Threads, Ping, LinkAssumption
  <2>3. ASSUME NEW t \in Threads, EndMgrInit(t) PROVE TypeOK'
    BY <1>1, <1>2, <2>3, LinkAssumption
    DEF TypeOK, PlaceInv, Threads, EndMgrInit, ForPump, LinkAssumption
  <2> QED BY <2>1, <2>2, <2>3
<1>4. PlaceInv'
  <2>1. CASE FirstRequest \/ CreatePumpFails \/ WakeUp \/ Ping
    BY <1>1, <1>2, <2>1
    DEF TypeOK, PlaceInv, Threads, FirstRequest, CreatePumpFails, WakeUp, Ping, Calls
  <2>2. ASSUME NEW t \in Threads, EndMgrInit(t) PROVE PlaceInv'
    BY <1>1, <1>2, <2>2, LinkAssumption
    DEF TypeOK, PlaceInv, Threads, EndMgrInit, ForPump, LinkAssumption
  <2> QED BY <2>1, <2>2
<1>5. EventInv'
  BY <1>1, <1>2 DEF EventInv, StartsAndStopsAlternate
<1>6. LibraryHeld' /\ SafeUntilFirstRequest'
  BY <1>1, <1>2
  DEF TypeOK, LibraryHeld, SafeUntilFirstRequest, Mapped, Threads,
      FirstRequest, CreatePumpFails, WakeUp, Ping, Calls, EndMgrInit
<1> QED BY <1>3, <1>4, <1>5, <1>6 DEF IInv

(* Freeing the library: the starter has not made m_pumping yet, or the     *)
(* first request is there.                                                 *)
LEMMA UnloadIInv ==
  ASSUME NEW t \in Threads, IInv, Unload(t)
  PROVE  IInv'
<1>1. TypeOK /\ PlaceInv /\ EventInv /\ LibraryHeld /\ SafeUntilFirstRequest
  BY DEF IInv
<1> USE DEF Unload, FreeLibrary, Mapped, At, Goto, envVars
<1>2. TypeOK' BY <1>1 DEF TypeOK, Threads
<1>3. PlaceInv' BY <1>1 DEF TypeOK, PlaceInv, Threads
<1>4. EventInv' BY <1>1 DEF EventInv, StartsAndStopsAlternate
<1>5. LibraryHeld' BY <1>1 DEF TypeOK, LibraryHeld, Threads
<1>6. SafeUntilFirstRequest'
  BY <1>1 DEF TypeOK, PlaceInv, SafeUntilFirstRequest, Threads
<1> QED BY <1>2, <1>3, <1>4, <1>5, <1>6 DEF IInv

(* Loading it again, or failing to.                                        *)
LEMMA LoadIInv ==
  ASSUME NEW t \in Threads, IInv, Load(t)
  PROVE  IInv'
<1>1. TypeOK /\ PlaceInv /\ EventInv /\ LibraryHeld /\ SafeUntilFirstRequest
  BY DEF IInv
<1> USE DEF Load, LoadLibrary, Mapped, At, Goto, pumpVars, envVars
<1>2. TypeOK'
  <2>1. lib' \in BOOLEAN BY Zenon
  <2>2. refs' \in Nat BY <1>1 DEF TypeOK
  <2>3. pc' \in [Threads -> {"absent", "unload", "load", "create", "connect", "login",
                         "switch", "sleep", "ping", "reconnect", "relogin",
                         "reswitch", "idle"}]
    BY <1>1 DEF TypeOK, Threads
  <2> QED BY <1>1, <2>1, <2>2, <2>3 DEF TypeOK
<1>3. PlaceInv' BY <1>1 DEF TypeOK, PlaceInv, Threads
<1>4. EventInv' BY <1>1 DEF EventInv, StartsAndStopsAlternate
<1>5. LibraryHeld' BY <1>1 DEF TypeOK, LibraryHeld, Threads
<1>6. SafeUntilFirstRequest'
  BY <1>1 DEF TypeOK, PlaceInv, SafeUntilFirstRequest, Threads
<1> QED BY <1>2, <1>3, <1>4, <1>5, <1>6 DEF IInv

(* The interface of the pump is made, in the library that is loaded.       *)
LEMMA CreatePumpIInv ==
  ASSUME IInv, CreatePump
  PROVE  IInv'
<1>1. TypeOK /\ PlaceInv /\ EventInv /\ LibraryHeld /\ SafeUntilFirstRequest
  BY DEF IInv
<1> USE DEF CreatePump, At, Goto, factoryVars, envVars
<1>2. TypeOK'
  <2>1. valid' = TRUE /\ stale' = FALSE BY Zenon
  <2>2. pc' \in [Threads -> {"absent", "unload", "load", "create", "connect", "login",
                         "switch", "sleep", "ping", "reconnect", "relogin",
                         "reswitch", "idle"}]
    BY <1>1 DEF TypeOK, Threads
  <2> QED BY <1>1, <2>1, <2>2 DEF TypeOK
<1>3. PlaceInv' BY <1>1 DEF TypeOK, PlaceInv, Threads
<1>4. EventInv' BY <1>1 DEF EventInv, StartsAndStopsAlternate
<1>5. LibraryHeld' BY <1>1 DEF TypeOK, LibraryHeld, Mapped, Threads
<1>6. SafeUntilFirstRequest' BY <1>1 DEF TypeOK, SafeUntilFirstRequest, Threads
<1> QED BY <1>2, <1>3, <1>4, <1>5, <1>6 DEF IInv

(* The process ends only with an interface that was never made, or one of  *)
(* a library that was unloaded.                                            *)
LEMMA CrashIInv ==
  ASSUME IInv,
         BadCall \/ PumpUnmapped \/ \E t \in Threads : CreateUnmapped(t)
  PROVE  IInv'
<1>1. TypeOK /\ PlaceInv /\ EventInv /\ LibraryHeld /\ SafeUntilFirstRequest
  BY DEF IInv
<1>2. /\ crashed' = TRUE
      /\ UNCHANGED <<lib, refs, valid, stale, link, pumping, events, pc, inits,
                     fails, drops, refused>>
  BY Zenon DEF BadCall, PumpUnmapped, CreateUnmapped, factoryVars, pumpVars, envVars
<1>3. TypeOK' BY <1>1, <1>2 DEF TypeOK
<1>4. PlaceInv' BY <1>1, <1>2 DEF PlaceInv
<1>5. EventInv' BY <1>1, <1>2 DEF EventInv, StartsAndStopsAlternate
<1>6. LibraryHeld' BY <1>1, <1>2 DEF LibraryHeld, Mapped
<1>7. SafeUntilFirstRequest'
  BY <1>1, <1>2
  DEF TypeOK, PlaceInv, SafeUntilFirstRequest, LibraryHeld, Threads,
      BadCall, PumpUnmapped, CreateUnmapped, At
<1> QED BY <1>3, <1>4, <1>5, <1>6, <1>7 DEF IInv

(* What was pumping is told to have stopped.                               *)
LEMMA StopFacts ==
  ASSUME TypeOK, EventInv, StopPumping
  PROVE  /\ EventInv' /\ pumping' = FALSE
         /\ events' \in Seq({"start", "stop"})
<1>1. CASE pumping
  <2>1. events' = Append(events, "stop") /\ pumping' = FALSE
    BY <1>1 DEF StopPumping
  <2>2. EventInv' BY <1>1, <2>1, AppendAlternates DEF TypeOK
  <2> QED BY <2>1, <2>2 DEF TypeOK
<1>2. CASE ~pumping
  <2>1. events' = events /\ pumping' = FALSE BY <1>2 DEF StopPumping
  <2> QED BY <1>2, <2>1 DEF TypeOK, EventInv, StartsAndStopsAlternate
<1> QED BY <1>1, <1>2

(* Connect stops what was pumping; Login and the switch come after it.     *)
LEMMA ConnectIInv ==
  ASSUME IInv, Connect
  PROVE  IInv'
<1>1. TypeOK /\ PlaceInv /\ EventInv /\ LibraryHeld /\ SafeUntilFirstRequest
  BY DEF IInv
<1>2. /\ pc["starter"] \in {"connect", "reconnect"} /\ valid
      /\ pc' = [pc EXCEPT !["starter"] = pc'["starter"]]
      /\ pc'["starter"] \in {"login", "relogin", "sleep", "reswitch"}
      /\ fails' \in {fails, fails + 1} /\ (fails' = fails + 1 => fails < MaxFails)
      /\ link' \in {"connected", "down"}
  BY <1>1
  DEF TypeOK, Connect, Calls, Succeeds, Fails, Goto, Places, AfterFailure, Threads
<1>3. UNCHANGED <<lib, refs, valid, stale, inits, drops, crashed>>
  BY DEF Connect, factoryVars
<1>4. EventInv' /\ pumping' = FALSE /\ events' \in Seq({"start", "stop"})
  BY <1>1, StopFacts DEF Connect
<1>8. refused' \in BOOLEAN BY Zenon DEF Connect
<1>5. TypeOK'
  <2>1. fails' \in 0..MaxFails /\ drops' \in 0..MaxDrops /\ refs' \in Nat
    BY <1>1, <1>2, <1>3, LinkAssumption DEF TypeOK, LinkAssumption
  <2>2. /\ lib' \in BOOLEAN /\ valid' \in BOOLEAN /\ stale' \in BOOLEAN
        /\ pumping' \in BOOLEAN /\ crashed' \in BOOLEAN
    BY <1>1, <1>3, <1>4, Zenon DEF TypeOK
  <2>3. pumping' => valid' /\ link' = "in"
    BY <1>1, <1>2, <1>3, <1>4 DEF TypeOK
  <2>4. /\ link' \in {"down", "connected", "in"} /\ inits' \in [Threads -> 0..MgrInits]
        /\ pc' \in [Threads -> {"absent", "unload", "load", "create", "connect", "login",
                               "switch", "sleep", "ping", "reconnect", "relogin",
                               "reswitch", "idle"}]
    BY <1>1, <1>2, <1>3 DEF TypeOK, Threads
  <2> QED BY <2>1, <2>2, <2>3, <2>4, <1>4, <1>8, Zenon DEF TypeOK
<1>6. PlaceInv'
  BY <1>1, <1>2, <1>3, <1>4 DEF TypeOK, PlaceInv, Threads
<1>7. LibraryHeld' /\ SafeUntilFirstRequest'
  BY <1>1, <1>2, <1>3
  DEF TypeOK, LibraryHeld, SafeUntilFirstRequest, Mapped, Threads
<1> QED BY <1>4, <1>5, <1>6, <1>7 DEF IInv

(* Login leaves the pumping alone.                                         *)
LEMMA LoginIInv ==
  ASSUME IInv, Login
  PROVE  IInv'
<1>1. TypeOK /\ PlaceInv /\ EventInv /\ LibraryHeld /\ SafeUntilFirstRequest
  BY DEF IInv
<1>2. /\ pc["starter"] \in {"login", "relogin"} /\ valid
      /\ pc' = [pc EXCEPT !["starter"] = pc'["starter"]]
      /\ pc'["starter"] \in {"switch", "sleep", "reswitch"}
      /\ fails' \in {fails, fails + 1} /\ (fails' = fails + 1 => fails < MaxFails)
      /\ link' \in {link, "in"}
  BY <1>1
  DEF TypeOK, Login, Calls, Succeeds, Fails, Goto, Places, AfterFailure, Threads
<1>3. UNCHANGED <<lib, refs, valid, stale, pumping, events, inits, drops, crashed>>
  BY DEF Login, factoryVars
<1>4. ~pumping BY <1>1, <1>2 DEF PlaceInv
<1>9. refused' \in BOOLEAN BY <1>1, Zenon DEF TypeOK, Login
<1>5. TypeOK'
  BY <1>1, <1>2, <1>3, <1>4, <1>9, LinkAssumption DEF TypeOK, Threads, LinkAssumption
<1>6. PlaceInv'
  BY <1>1, <1>2, <1>3, <1>4 DEF TypeOK, PlaceInv, Threads
<1>7. LibraryHeld' /\ SafeUntilFirstRequest'
  BY <1>1, <1>2, <1>3
  DEF TypeOK, LibraryHeld, SafeUntilFirstRequest, Mapped, Threads
<1>8. EventInv'
  BY <1>1, <1>3 DEF EventInv, StartsAndStopsAlternate
<1> QED BY <1>5, <1>6, <1>7, <1>8 DEF IInv

(* The switch only ever turns on what is off.                              *)
LEMMA SwitchIInv ==
  ASSUME IInv, PumpingSwitchEx
  PROVE  IInv'
<1>1. TypeOK /\ PlaceInv /\ EventInv /\ LibraryHeld /\ SafeUntilFirstRequest
  BY DEF IInv
<1>2. /\ pc["starter"] \in {"switch", "reswitch"} /\ valid
      /\ pc' = [pc EXCEPT !["starter"] = "sleep"]
      /\ fails' \in {fails, fails + 1} /\ (fails' = fails + 1 => fails < MaxFails)
  BY <1>1 DEF TypeOK, PumpingSwitchEx, Calls, Goto
<1>9. refused' \in BOOLEAN BY <1>1, Zenon DEF TypeOK, PumpingSwitchEx
<1>10. \/ link = "in" /\ pumping' = TRUE /\ events' = Append(events, "start")
       \/ pumping' = pumping /\ events' = events
  BY Zenon DEF PumpingSwitchEx
<1>3. UNCHANGED <<lib, refs, valid, stale, link, inits, drops, crashed>>
  BY DEF PumpingSwitchEx, factoryVars
<1>4. ~pumping BY <1>1, <1>2 DEF PlaceInv
<1>5. EventInv' /\ events' \in Seq({"start", "stop"})
  <2>1. CASE pumping' = TRUE /\ events' = Append(events, "start")
    <3>1. (pumping' = ~pumping) /\ ("start" = "start" <=> ~pumping)
      BY <1>1, <1>4, <2>1 DEF TypeOK
    <3>2. EventInv' BY <1>1, <2>1, <3>1, AppendAlternates
    <3> QED BY <1>1, <2>1, <3>2 DEF TypeOK
  <2>2. CASE pumping' = pumping /\ events' = events
    BY <1>1, <2>2 DEF TypeOK, EventInv, StartsAndStopsAlternate
  <2> QED BY <1>10, <2>1, <2>2
<1>6. TypeOK'
  <2>1. fails' \in 0..MaxFails /\ drops' \in 0..MaxDrops /\ refs' \in Nat
    BY <1>1, <1>2, <1>3, LinkAssumption DEF TypeOK, LinkAssumption
  <2>2. /\ lib' \in BOOLEAN /\ valid' \in BOOLEAN /\ stale' \in BOOLEAN
        /\ pumping' \in BOOLEAN /\ crashed' \in BOOLEAN
    BY <1>1, <1>3, <1>10, Zenon DEF TypeOK
  <2>3. pumping' => valid' /\ link' = "in"
    BY <1>1, <1>2, <1>3, <1>10 DEF TypeOK
  <2>4. /\ link' \in {"down", "connected", "in"} /\ inits' \in [Threads -> 0..MgrInits]
        /\ pc' \in [Threads -> {"absent", "unload", "load", "create", "connect", "login",
                               "switch", "sleep", "ping", "reconnect", "relogin",
                               "reswitch", "idle"}]
    BY <1>1, <1>2, <1>3 DEF TypeOK, Threads
  <2> QED BY <2>1, <2>2, <2>3, <2>4, <1>5, <1>9, Zenon DEF TypeOK
<1>7. PlaceInv'
  BY <1>1, <1>2, <1>3 DEF TypeOK, PlaceInv, Threads
<1>8. LibraryHeld' /\ SafeUntilFirstRequest'
  BY <1>1, <1>2, <1>3
  DEF TypeOK, LibraryHeld, SafeUntilFirstRequest, Mapped, Threads
<1> QED BY <1>5, <1>6, <1>7, <1>8 DEF IInv

(* The callback takes an event.                                            *)
LEMMA CallbackIInv ==
  ASSUME IInv, OnPumpingExFunc
  PROVE  IInv'
<1>1. TypeOK /\ PlaceInv /\ EventInv /\ LibraryHeld /\ SafeUntilFirstRequest
  BY DEF IInv
<1>2. /\ events # <<>> /\ events' = Tail(events)
      /\ UNCHANGED <<lib, refs, valid, stale, link, pumping, pc, inits, fails, drops,
                     refused, crashed>>
  BY DEF OnPumpingExFunc, factoryVars, envVars
<1>3. EventInv' BY <1>1, <1>2, TailAlternates
<1>4. events' \in Seq({"start", "stop"}) BY <1>1, <1>2, TailFacts DEF TypeOK
<1>5. TypeOK' BY <1>1, <1>2, <1>4 DEF TypeOK
<1>6. PlaceInv' /\ LibraryHeld' /\ SafeUntilFirstRequest'
  BY <1>1, <1>2 DEF PlaceInv, LibraryHeld, SafeUntilFirstRequest, Mapped
<1> QED BY <1>3, <1>5, <1>6 DEF IInv

(* The connection is lost.                                                 *)
LEMMA LinkDropsIInv ==
  ASSUME IInv, LinkDrops
  PROVE  IInv'
<1>1. TypeOK /\ PlaceInv /\ EventInv /\ LibraryHeld /\ SafeUntilFirstRequest
  BY DEF IInv
<1>2. /\ drops < MaxDrops /\ drops' = drops + 1 /\ link' = "down"
      /\ UNCHANGED <<lib, refs, valid, stale, pc, inits, fails, crashed>>
  BY DEF LinkDrops, factoryVars
<1>3. EventInv' /\ pumping' = FALSE /\ events' \in Seq({"start", "stop"})
  BY <1>1, StopFacts DEF LinkDrops
<1>6. refused' \in BOOLEAN BY Zenon DEF LinkDrops
<1>4. TypeOK'
  <2>1. drops' \in 0..MaxDrops
    BY <1>1, <1>2, LinkAssumption DEF TypeOK, LinkAssumption
  <2> QED BY <1>1, <1>2, <1>3, <1>6, <2>1, Zenon DEF TypeOK
<1>5. PlaceInv' /\ LibraryHeld' /\ SafeUntilFirstRequest'
  BY <1>1, <1>2, <1>3 DEF PlaceInv, LibraryHeld, SafeUntilFirstRequest, Mapped
<1> QED BY <1>3, <1>4, <1>5 DEF IInv

(* Every step keeps the invariant.                                         *)
LEMMA NextIInv == IInv /\ [Next]_vars => IInv'
<1> SUFFICES ASSUME IInv, [Next]_vars PROVE IInv'
  OBVIOUS
<1>1. CASE Next
  BY <1>1, PlainStepsIInv, UnloadIInv, LoadIInv, CreatePumpIInv, CrashIInv,
     ConnectIInv, LoginIInv, SwitchIInv, CallbackIInv, LinkDropsIInv
  DEF Next, Starter, Reload, Threads
<1>2. CASE UNCHANGED vars
  BY <1>2 DEF vars, factoryVars, pumpVars, envVars, IInv, TypeOK, PlaceInv, EventInv,
              StartsAndStopsAlternate, LibraryHeld, SafeUntilFirstRequest, Mapped
<1> QED BY <1>1, <1>2

(* The strengthened invariant holds in every behaviour.                    *)
LEMMA Invariant == Spec => []IInv
BY InitIInv, NextIInv, PTL DEF Spec

-----------------------------------------------------------------------------
(* The variables of the pump's connection keep their types, and MT4 pumps  *)
(* only on an interface that is made and logged in.                        *)
THEOREM TypeCorrect == Spec => []TypeOK
<1>1. IInv => TypeOK BY DEF IInv
<1> QED BY <1>1, Invariant, PTL

(* PumpingSwitchEx never turns on what is on, however often calls fail and *)
(* the connection is lost: the callback hears of starts and stops in turn. *)
THEOREM EventsAlternate == Spec => []StartsAndStopsAlternate
<1>1. IInv => StartsAndStopsAlternate BY DEF IInv, EventInv
<1> QED BY <1>1, Invariant, PTL

(* Between the two threads' Inits, a library that the factory takes for    *)
(* loaded is loaded, however many Inits there are and however they overlap.*)
THEOREM LibraryStays == Spec => []LibraryHeld
<1>1. IInv => LibraryHeld BY DEF IInv
<1> QED BY <1>1, Invariant, PTL

(* Until the first request makes the worker, the pump's interface is not   *)
(* pulled from under it.                                                   *)
THEOREM SafeAlone == Spec => []SafeUntilFirstRequest
<1>1. IInv => SafeUntilFirstRequest BY DEF IInv
<1> QED BY <1>1, Invariant, PTL
-----------------------------------------------------------------------------
(* What PumpRestored needs of safety: between two looks at the connection, *)
(* MT4 pumps or the connection is down, which Ping sees - unless MT4       *)
(* refused, with the connection holding, what CheckConnect then takes for  *)
(* done.                                                                   *)
NeverSilentlyOff ==
  pc["starter"] \in {"sleep", "ping"} /\ link # "down" => pumping \/ refused

(* The same on the way through Init and CheckConnect.                      *)
OffInv ==
  /\ NeverSilentlyOff
  /\ pc["starter"] \in {"unload", "load", "create", "connect"} => link = "down"
  /\ pc["starter"] \in {"login", "relogin"} => link # "in"
  /\ pc["starter"] \in {"switch", "reswitch"} /\ link = "connected" => refused

(* However calls fail and the connection drops, CheckConnect sees at its   *)
(* next Ping that MT4 does not pump, unless MT4 refused.                   *)
THEOREM OffIsSeen == Spec => []NeverSilentlyOff
<1>1. Init => OffInv
  BY DEF Init, OffInv, NeverSilentlyOff, Threads
<1>2. IInv /\ OffInv /\ [Next]_vars => OffInv'
  <2> SUFFICES ASSUME IInv, OffInv, [Next]_vars PROVE OffInv'
    OBVIOUS
  <2>1. /\ pc \in [Threads -> {"absent", "unload", "load", "create", "connect", "login",
                               "switch", "sleep", "ping", "reconnect", "relogin",
                               "reswitch", "idle"}]
        /\ pc["worker"] \in {"absent", "unload", "load", "create", "idle"}
        /\ "starter" \in Threads /\ "worker" \in Threads /\ "starter" # "worker"
    BY DEF IInv, TypeOK, PlaceInv, Threads
  <2> USE DEF OffInv, NeverSilentlyOff, At, Goto, pumpVars, envVars
  <2>2. CASE FirstRequest
    BY <2>1, <2>2 DEF FirstRequest
  <2>3. ASSUME NEW t \in Threads, Reload(t) PROVE OffInv'
    <3>1. CASE Unload(t) \/ Load(t)
      BY <2>1, <3>1 DEF Unload, Load, Threads
    <3>2. CASE EndMgrInit(t)
      BY <2>1, <3>2 DEF EndMgrInit, ForPump, Threads
    <3>3. CASE CreateUnmapped(t)
      BY <3>3 DEF CreateUnmapped
    <3> QED BY <2>3, <3>1, <3>2, <3>3 DEF Reload
  <2>4. CASE CreatePump \/ CreatePumpFails
    BY <2>1, <2>4 DEF CreatePump, CreatePumpFails
  <2>5. CASE Connect
    BY <2>1, <2>5 DEF Connect, Calls, Succeeds, Fails, Places, AfterFailure
  <2>6. CASE Login
    BY <2>1, <2>6 DEF Login, Calls, Succeeds, Fails, Places, AfterFailure
  <2>7. CASE PumpingSwitchEx
    <3>1. /\ pc["starter"] \in {"switch", "reswitch"} /\ pc'["starter"] = "sleep"
          /\ link' = link
      BY <2>1, <2>7 DEF PumpingSwitchEx, Calls
    <3>2. link # "down" => pumping' \/ refused'
      <4>1. CASE link = "in"
        BY <2>7, <4>1, Zenon DEF PumpingSwitchEx
      <4>2. CASE link = "connected"
        <5>1. refused' = refused
          BY <2>7, <4>2 DEF PumpingSwitchEx
        <5> QED BY <3>1, <4>2, <5>1
      <4> QED BY <4>1, <4>2 DEF IInv, TypeOK
    <3> QED BY <3>1, <3>2
  <2>8. CASE WakeUp \/ Ping
    BY <2>1, <2>8 DEF WakeUp, Ping, Calls
  <2>9. CASE BadCall \/ PumpUnmapped \/ OnPumpingExFunc
    BY <2>9 DEF BadCall, PumpUnmapped, OnPumpingExFunc
  <2>10. CASE LinkDrops
    BY <2>10 DEF LinkDrops, StopPumping
  <2>11. CASE UNCHANGED vars
    BY <2>11 DEF vars
  <2> QED BY <2>1, <2>2, <2>3, <2>4, <2>5, <2>6, <2>7, <2>8, <2>9, <2>10, <2>11
             DEF Next, Starter
<1>3. OffInv => NeverSilentlyOff
  BY DEF OffInv
<1> QED BY <1>1, <1>2, <1>3, Invariant, PTL DEF Spec
=============================================================================
