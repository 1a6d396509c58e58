--------------------------------- MODULE Log ---------------------------------
(***************************************************************************)
(* Where log lines go.  Every Log object writes to log4cplus's one root    *)
(* logger, and Log::init and LogicSycInit, called for every session on     *)
(* main's thread and for the MT4 classes on their threads, exchange the    *)
(* appenders of that logger, without a lock around the exchange.           *)
(*                                                                         *)
(* Each call that log4cplus does under its lock is a step.  The lines      *)
(* themselves, and that a FileAppender empties its file, are left out: a   *)
(* line goes to every appender attached.                                   *)
(***************************************************************************)
EXTENDS Naturals

CONSTANT MaxSessions   \* bound: sessions that main makes

ASSUME LogAssumption == MaxSessions \in Nat \ {0}

(* Calls of init per thread: one per session; those of Mt4MgrSvr and       *)
(* Mt4PumpSvr; those of Mt4MgrSvr, LogicSyc and - with the first           *)
(* subscription, when the server has long been running - of a second       *)
(* Mt4PumpSvr, the singleton: the starter's is a local variable.           *)
Calls == [main |-> MaxSessions, starter |-> 2, worker |-> 3]

Threads == DOMAIN Calls

(* The appenders: those of LogicSycLog.conf, and the file that the k-th    *)
(* call of a thread opens.                                                 *)
File(t, k) == <<t, k>>
Conf == {<<"Console", 0>>, <<"RollingFile", 0>>}
Files == {File(t, k) : t \in Threads, k \in 1..(3 + MaxSessions)}

VARIABLES
  attached,  \* the appenders of the root logger
  place,     \* per thread: its place in init
  call       \* per thread: calls of init begun

vars == <<attached, place, call>>

TypeOK ==
  /\ attached \subseteq Conf \cup Files
  /\ place \in [Threads -> {"out", "configuring", "configured", "cleared"}]
  /\ call \in [Threads -> Nat] /\ \A t \in Threads : call[t] <= Calls[t]

Init ==
  /\ attached = {}
  /\ place = [t \in Threads |-> "out"]
  /\ call = [t \in Threads |-> 0]

Goto(t, p) == place' = [place EXCEPT ![t] = p]

(* The worker comes with the first request, so after the first session.    *)
(* Its third call need not happen: nothing here says that a call begins.   *)
Exists(t) == t = "worker" => call["main"] > 0

(* doConfigure("LogicSycLog.conf") begins: the root logger's appenders go. *)
Configure(t) ==
  /\ place[t] = "out" /\ call[t] < Calls[t] /\ Exists(t)
  /\ call' = [call EXCEPT ![t] = @ + 1]
  /\ attached' = {}
  /\ Goto(t, "configuring")

(* ... and those of the file come.                                         *)
AddConfigured(t) ==
  /\ place[t] = "configuring"
  /\ attached' = attached \cup Conf
  /\ Goto(t, "configured")
  /\ UNCHANGED call

(* Mutant: the configured appenders stay.                                  *)
KeepAppenders(t) ==
  /\ place[t] = "configured"
  /\ Goto(t, "cleared")
  /\ UNCHANGED <<attached, call>>

(* removeAllAppenders, the new appender having been made.                  *)
RemoveAllAppenders(t) ==
  /\ place[t] = "configured"
  /\ attached' = {}
  /\ Goto(t, "cleared")
  /\ UNCHANGED call

(* Mutant: customAppender is static, made by the first call.               *)
AddAppenderStatic(t) ==
  /\ place[t] = "cleared"
  /\ attached' = attached \cup {File(t, 1)}
  /\ Goto(t, "out")
  /\ UNCHANGED call

AddAppender(t) ==
  /\ place[t] = "cleared"
  /\ attached' = attached \cup {File(t, call[t])}
  /\ Goto(t, "out")
  /\ UNCHANGED call

LogInit(t) ==
  Configure(t) \/ AddConfigured(t) \/ RemoveAllAppenders(t) \/ AddAppender(t)

(* Log::info and its like: a line goes to every appender that the root     *)
(* logger has just then; without one it is lost to the files.              *)
LinesAreLost == attached = {}

Next == \E t \in Threads : LogInit(t)

Spec == Init /\ [][Next]_vars

-----------------------------------------------------------------------------
(* Properties                                                              *)

(* A line finds no appender only before the first call, or while a call is *)
(* between removing the old appenders and adding its own; and the          *)
(* configured ones, console and rolling file, do not outlive the calls.    *)
LinesFindAppender ==
  /\ LinesAreLost =>
       \/ \A t \in Threads : call[t] = 0
       \/ \E t \in Threads : place[t] \in {"configuring", "cleared"}
  /\ (\A t \in Threads : place[t] = "out") => attached \cap Conf = {}

(* Sessions come and go, but their files do not pile up on the logger,     *)
(* however the calls overlap: of each thread only the file of its latest   *)
(* call is ever attached.  Calls that overlap can leave one per thread,    *)
(* and every line is then in all of them.                                  *)
OldFilesAreGone ==
  \A t \in Threads, k \in 1..(3 + MaxSessions) :
    File(t, k) \in attached => k = call[t] /\ place[t] = "out"
=============================================================================
