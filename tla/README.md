# MtApiSvr in TLA+

MtApiSvr is a Windows server that gives clients on TCP port 20002 access to a
MetaTrader 4 server: they send framed requests (orders, history, users,
balance, new and changed accounts, a heartbeat) and may subscribe to trade
updates. This directory holds TLA+ models of it, the TLC configurations that
check them, and proofs that TLAPS checks. Paths below are relative to
`src/MtApiSvr/`.

## The system

### Threads

| thread | made by | runs |
| --- | --- | --- |
| main | `main` | the acceptor's `io_context`: `CServer::HandleAccept`, signals |
| io threads, one per core | `AsioIOServicePool` | the handlers of the sessions on their `io_context`, one at a time |
| worker | `LogicSyc` | `DealMsg`: the callbacks of the requests, replies with `CSession::Send` |
| starter | `main` | `StartPumpThread`: `Mt4MgrSvr::Init`, `Mt4PumpSvr::Init`, then `CheckConnect` every second |
| pump callback | the MT4 library | `OnPumpingExFunc`: trade updates, `CSession::Send` to the subscribers |

### Components

| component | state | operations | talks to | hard behaviour | what makes it correct |
| --- | --- | --- | --- | --- | --- |
| `CSession`, sending | `_send_que`, `_send_lock`, `_socket`, `_b_close` | `Send` (two overloads), `HandleWrite`, `Close` | `CServer::ClearSession`; called by worker and pump callback | `Send` on two threads against `HandleWrite` on a third; partial and failed writes; closing without the lock | one write at a time, its buffer alive, no mixed frames, order, lost clients leave the server |
| `CSession`, receiving | `_data`, `_recv_head_node`, `_recv_msg_node` | `Start`, `asyncReadFull`, `asyncReadLen`, `AsyncReadHead`, `AsyncReadBody` | `LogicSyc::PostMsgToQue`, `CServer::ClearSession` | frames cut anywhere, numbers at the limits of `short`, handlers that throw | requests complete, in order, none mixed; a session that stays registered is read from |
| `LogicSyc`, queue | `_msg_que`, `_mutex`, `_consume`, `_b_stop` | `PostMsgToQue`, `DealMsg`, destructor | sessions; callbacks | notify after unlock and only for the first post; stop flag set without the lock | no lost wakeup, FIFO, drained at the end |
| `LogicSyc`, callbacks | none but statics | `Hert`, `GetTrades`, `GetHistoryTrades`, `GetUsersInfo`, `TradeTransaction`, `UserRecordNew`, `UserRecordUpdate`, `PumpTrades` | `Mt4MgrSvr`, `Mt4PumpSvr`, `CSession::Send` | cutting lists into messages; which failure gives which answer, or none | every record once; answers that can be relied on |
| `Mt4MgrSvr` | the globals `m_manager`, `m_factory` | `Init`, `Connect`, one function per request, `MemFree` | the MT4 library | the shared pointer replaced, and its library reloaded, by two threads; reconnection; error paths | success is real, a change is made once, nothing is left connected to nobody |
| `Mt4PumpSvr`, subscriptions | the global `_pump_que` | `PumpTrades`, `OnTradeUpdate` | `CSession::isClose`, `Send` | a vector that two threads change without a lock | open subscribers get every update, closed ones none, only closed ones are removed |
| `Mt4PumpSvr`, connection | `m_pumping` | `Init`, `Connect`, `CheckConnect`, `OnPumpStart`, `OnPumpStop` | the MT4 library | a failed switch on a good connection; the library reloaded under a pump that runs | pumping is restored in the end, starts and stops take turns |
| `CManagerFactory` (`MT4ManagerAPI.h`) | `m_lib` and two entry points | `Init`, `IsValid`, `Create` | Windows' loader | frees before it loads, from two threads, without a lock | the library stays loaded while it is used |
| `CServer` | `_sessions`, `_mutex`, `_acceptor` | `StartAccept`, `HandleAccept`, `ClearSession` | `AsioIOServicePool`, `CSession` | a session is started before it is registered; lifetime by `shared_ptr` | ended sessions are destroyed, destroyed ones not touched |
| `AsioIOServicePool` | `_ioServices`, `_works`, `_nextIOService`, `_threads` | `GetIOService`, `Stop` | `CServer`, `main` | the wrapping index; stop while handlers run | sessions spread evenly; `Stop` returns, and nothing runs after it |
| `main` | `io_context`, the starter thread | signal handler, joins | all | joins a thread that has no end | serving stops when told to (the process does not) |
| `Log` | the one root logger of log4cplus | `init`, `LogicSycInit`, `info` and its like | called by every session and MT4 class | three threads exchange the appenders of one logger | lines find an appender, files of ended calls do not pile up |
| `LogicSycLog`, `util` | | unused; GBK to UTF-8 | | | not modelled: dead code, and a pure conversion |

How a request travels: an io thread reads a frame (SessionRead), posts it to
`_msg_que` (LogicSyc), the worker calls MT4 (Mt4MgrSvr), cuts the answer into
messages (Paging) and sends them (SessionSend). How an update travels: the MT4
library's thread walks `_pump_que` (Mt4PumpSvr) and sends it (SessionSend); whether
MT4 pumps at all is PumpLink's. The session in between is owned by whoever still
needs it (CServer), which is also where `main` starts and stops it all. All of them
write to one logger (Log).

Which module builds on which: Mt4MgrSvr and PumpLink extend ManagerFactory, the
state both have in common; SessionSend, LogicSyc and SessionRead instantiate
FifoChannel; CServer puts sessions, queue, worker, subscriptions and shutdown
together, each reduced to what the sessions' lives depend on. Every `MC` module
extends one module and gives its constants values.

## The modules

`FifoChannel` is the abstract specification the queues have in common: messages
are accepted, and delivered in that order, none twice, none skipped, each of
them in the end unless the channel breaks. Three modules are checked to
implement it, each by `Channel == INSTANCE FifoChannel WITH ...`: for
SessionSend `accepted` is what was pushed on `_send_que` and `received` what the
client decodes, and the channel is broken when socket or connection is; for
LogicSyc `received` is what was dispatched or dropped for want of a callback,
and the channel never breaks; for SessionRead `accepted` is what the client sent
and `received` what was posted, until the read loop ends or a header says -1.

### SessionSend — `CSession.cpp` 40-114

Both overloads of `Send` are `SendEnter` (take `_send_lock`, read the size) and
`SendPush` (push, start a write if the size read was 0, unlock). A frame leaves
in `Parts` partial writes (`WriteSome`, external), so that two writes at a time
would show as a `Garbled` frame at the client. `HandleWrite` is
`HandleWriteEnter` (the lock), `HandleWritePop` (pop, write the next) and, for an
error, `HandleWriteError`. `Close` and `ClearSession` run without `_send_lock`
and are steps of their own (`CloseSocket`, `SetCloseFlag`, `ClearSession`);
`CloseSocket` may throw, which ends the handler in its `catch`. The read side
only appears in how it ends: `ReadFailed`, `ReadRejected` (a bad header: no
`Close`), `ReadThrows` (a length below -1).

### SessionRead — `CSession.cpp` 33-38, 241-368

The connection is a sequence of cells, one per byte; each `async_read_some`
returns any number of the bytes asked for. All handlers of a session run on one
io thread, hence one step each. Ids and lengths are 16-bit numbers that
`ToShort` makes signed, as `network_to_host_short` into a `short` does. A
rejected header's log line adds the number to the address of a string literal,
which may end the process. Failing allocation is left out.

Only the upper limit of the length is tested, so every length above 32767 passes,
as a negative number. Below -1 `new char[]` throws (`HeadThrows`). For -1 it does
not: the buffer has no byte, the one in front of it is written (`MsgNode.h` 13-14),
and `AsyncReadBody(-1)` asks for as many bytes as a `size_t` can count (`ToSize`,
`Endless`). From there on the C++ standard says nothing; the model keeps to what the
build can be expected to do. `HeapEnds`: the damaged heap may end the process at any
time. `ReadRefused`: the system may refuse a read of that size. `ReadMore`: what the client
sends is read into and behind `_data`, where `_server` and `_b_close` are the next
members. `SIZE_MAX` is a constant of which only one thing is assumed, that a
connection never carries that many bytes.

### LogicSyc — `LogicSyc.cpp` 14-78

`PostPush` and `PostNotify` are `PostMsgToQue`; the worker's places in `DealMsg`
are values of `wpc`; `TestQueue` and `TestStop` read `_b_stop` in steps of their
own, because the destructor (`SetStop`, `NotifyStop`, `Join`) sets it without the
lock. A callback is a step to dispatch and one to return, with `_mutex` held in
between. Unknown ids are dropped (`DropUnknown`, and in the drain loop). Spurious
wakeups are included. No thread posts once the destructor runs: it destroys a
static object, after `main` has returned and the io threads are gone. As `main`
stands today it does not return, because it joins the starter, whose loop has no
end (`MtApiSvr.cpp` 41, 55-59); what is checked of the destructor is what it would do
once that is repaired.

### ManagerFactory — `MT4ManagerAPI.h` 1765-1848

`m_factory`, as far as it has code: `Init` is `FreeLibrary` and `LoadLibrary`, two steps,
for nothing keeps another thread from coming in between. `refs` counts the
references to the library (Windows' loader, external). Every `Init` of `Mt4MgrSvr` and
`Mt4PumpSvr` calls it. When the last reference goes the code goes, and with it that of
every interface made so far: both users of this module mark theirs `stale`, and let a
call through a stale interface work or end the process.

### Mt4MgrSvr — `Mt4MgrSvr.cpp`, `LogicSyc.cpp` 107-309

`m_manager` is a global which the starter and the worker each replace twice
(constructor and explicit `Init`); the starter's third reloading is that of
`Mt4PumpSvr::Init` (`CreatePump`). A call through it is one step, so between two
calls of a callback it may be another interface, none, or a stale one. The
interface is reduced to `valid`, `stale` and `link` ("down", "connected", "in"), a
list to its number of messages, an answer to its code. A call through NULL, and an
`strncpy_s` that does not fit the size it is told, end the process. A change may be
made although the answer to it is lost.

The callbacks' branch for `RET_OK` (0) is never taken, because `Mt4MgrSvr` returns
`Err_Success` (200): a successful change is answered "200" without the text "|Call
succeeded". The model only looks at the code, which is the same on both branches.
A failed login is answered with `Err_ConnMT4`; `Err_LoginMt4` is never used. `Init` has
no return at its end; nobody uses what it returns.

### PumpLink — `Mt4PumpSvr.cpp` 8-74, 174-268, `MtApiSvr.cpp` 49-62

The starter: two `Init`s of `Mt4MgrSvr`, reduced to what they do to the library, then
`Mt4PumpSvr::Init` and the endless loop of `CheckConnect`. Connect, Login,
PumpingSwitchEx and Ping are steps, each of which MT4 may refuse (`MaxFails` times for
no reason seen here, and always when the connection is down); `Places` and
`AfterFailure` are the control flow of `Init`, which gives up at the first failure, and
of `CheckConnect`, which switches whatever `Connect` returned. `FirstRequest` makes the
worker (`Singleton::GetInstance`, `LogicSyc::DealMsg`), which reloads the library twice.
MT4's own thread is `pumping` with the queue `events` of starts and stops it still has to
report; `PumpUnmapped` is what happens to it when its code goes.

### Log — `Log.cpp`

Every `Log` object writes to the root logger, and `init`/`LogicSycInit` exchange its
appenders in three calls that log4cplus locks one by one: `Configure` and
`AddConfigured` (the configuration file's appenders), `RemoveAllAppenders`,
`AddAppender` (a new file). The constructor of every session calls it on main's
thread, and the MT4 classes and LogicSyc on theirs (`Calls`): the starter twice, for the
`Mt4MgrSvr` singleton and its local `Mt4PumpSvr`, the worker three times, for its own
`Mt4MgrSvr`, for itself, and in the first subscription's callback (`LogicSyc.cpp` 313)
for the `Mt4PumpSvr` singleton, a second object, which does nothing but log and append
to `_pump_que`. That third call comes while the server has long been
running, or never. Calls that overlap leave one
appender per thread, and from then on each line is in all of them until the next
session comes. That a `FileAppender` empties the file it opens, so that every new
session starts `logs/CSession.log` afresh, is plain from the code and not modelled.

### Paging — `LogicSyc.cpp` 113-141, 192-219, 279-309

The double loop of the three list callbacks, ten records to a message, record by
record, with the separator rule of each.

### Mt4PumpSvr — `Mt4PumpSvr.cpp` 11, 322-395

`PumpTrades` (worker) appends; `OnTradeUpdate` (callback thread) walks, one entry
a step, sends, and erases the closed positions one by one. What a race on the
vector does is a nondeterministic choice: a walk over freed memory after a
reallocation ends the process, an append that overlaps an erase may be `lost`. The
capacity is part of the state. `confirmed` are the sessions that were sent
"Subscription successful": `ConfirmedIsServed` says what that text is worth.

### CServer — `CServer.cpp`, `AsioIOServicePool.cpp`, `MtApiSvr.cpp` 23-47, `CSession.cpp` 77-114, 244-361

`main` binds the port (`Bind`; when that fails the constructor throws, and the
starter's `std::thread`, still joinable, ends the process before `main`'s catch:
`BindFails`), accepts (`Accepted`, `AcceptFailed`, `Start`, `Insert`), and is told to stop
(`Signal`). `AsioIOServicePool::Stop` is `StopService` for each `io_context` and `JoinThread`
for each thread, which returns when the thread has left `run()` (`LeaveRun`). Then
`main` waits for the starter for good (`apc = "wait"`).

The handlers run on the io thread of the session's `io_context`, one at a time.
`Post` needs the `_mutex` that a callback of the worker holds (`callback`). `Reply` may
also subscribe the session, and `TradeUpdate` is `OnTradeUpdate` in one step: the open
sessions on the list are sent the update, the closed ones erased by the positions
they had at first (`Erased`, which is `EraseAt` once per position), wrong entries included.

`Owned` lists who holds a `shared_ptr`, `_pump_que` among them; a session with no owner
is destroyed, and its socket closed. A session whose header was rejected is
unregistered but not closed: when it has subscribed, `_pump_que` keeps it, and it is
fed, as long as its client stays connected.

## The runs

| run | instance | what it shows |
| --- | --- | --- |
| `send` | 2 senders, 2 messages each, 2 parts | no mixed frames; order and delivery (FifoChannel with liveness); a session whose client is gone leaves `_sessions` unless `close()` threw or the read loop had thrown with nothing being written |
| `read` | 3 frames, ids 999/1000/40000, lengths 0/4/5/65534/65535 (-2 and -1 as shorts), `MAX_LENGTH` 4 | buffers aligned and within `_data` but for -1; all requests posted whole and in order until a header says -1, and none after it; the two ways a session is stranded |
| `read_overrun` | 3 frames, lengths 0/4/65535 | violation: after a header that says -1 more is read into `_data` than it holds |
| `logic` | 2 posters, 2 requests each | no lost wakeup, FIFO with liveness, drained on exit; the join returns unless the notify fell between test and wait |
| `pump` | 2 sessions, 4 subscriptions, 2 updates | what holds without a lock: order, no update to a session closed before, a confirmed subscription is served unless an append was lost or an entry taken off, the first erase is right |
| `pump_erase` | 3 sessions, 1 update | violation: the second erase of a callback removes an open session |
| `pump_link` | 2 Inits per thread, 3 refused calls, 2 lost connections | MT4 pumps again in the end unless a switch or login was refused on a connection that holds; starts and stops take turns; the library is loaded whenever nobody is about to load it; before the first request an interface that was made neither goes stale nor ends the process |
| `server` | 2 sessions, 2 `io_context`s, 1 request | balance, no use of a destroyed session, ended sessions destroyed but for the exceptions; a signal stops the io threads, and after that nothing happens to a session |
| `paging` | messages of 4, up to 21 records | every record once, separators between, what the last one tells |
| `mgr` | 2 Inits per thread, 2 requests, 2 messages | success is real, silence only without records, the last interface was tried, only two kinds of requests end the process while the library stays, callbacks return |
| `mgr_error` | 1 Init, 1 request | violation: a failed connection is not answered but ends the process |
| `log` | 4 sessions, 3 threads | a line is lost only while a call exchanges the appenders; of each thread only the latest file is attached |

Every configuration says `CHECK_DEADLOCK FALSE`, because every model stops when its
bounded messages, requests or updates are used up or the process is gone.

**Bounds.** Two of each actor are what the races need: the two threads that call
`Send`, a post that finds the queue empty and one that does not, two closed
entries for the erase (and a third session that stays open). Two messages per
sender give a queue of four, so that pushes meet a queue that is empty, being
written and longer. In `read` `MAX_LENGTH` is 4, so lengths below, at, one over and
negative all occur, and the header's length equals the limit; three frames have 24
bytes at most, and `SIZE_MAX` is 25, so -1 may be said by any of them, and what the
others have overruns `_data`. In `paging` 21 is
five messages of four and one record, so every remainder occurs on either side
of one, two and five full messages; nothing in the loops depends on ten. In
`pump_link` three refusals and two drops let both loops of retries, `Init`'s and
`CheckConnect`'s, fail at each of their calls and be entered again; in `mgr` the Inits are
the code's. Two sessions on two `io_context`s let one session's handler run while the
other is accepted, replied to and stopped; one request each is enough for a reply
and a subscription to meet an end. In `log` four sessions let main's calls overlap those
of the other threads at each of their places, before, between and after, the worker's
third among them.

**Fairness.** Weak fairness of threads inside a function (nothing in them blocks
but the mutexes), of io threads that have a handler to run, of a write that is
outstanding (TCP moves it as long as the client reads, and fails it when the
client is gone: the delivery that `ClientReceivesInOrder` promises is to a client
that reads; one that stays connected and never reads only makes the queue
grow), and of MT4 calls (they have timeouts in
the library; nothing in this code bounds them). In `pump_link` refused calls and lost
connections are bounded, which is what "in the end" needs: MT4 can keep this code
busy for ever. In `server` one thing more is assumed, that trade updates keep coming,
since the closed sessions on `_pump_que` are only let go by them; a signal is not
assumed. A client is never forced to send or to leave, `SendEnter`, `PostPush` and
Mt4PumpSvr's `OnTradeUpdate` are never forced, and no connection is forced down. A
strongly fair mutex is nowhere assumed.

## The findings

1. `pump_erase`: the comment "Remove closed links" (`Mt4PumpSvr.cpp` 360) does not
   hold: positions are those before the first erase, so with two closed entries in
   one walk the second erase takes an open session off the list, or erases at
   `end()`. `OneErasePerCallbackIsSafe` shows it is the second erase that does it.
2. `mgr_error`: `Err_ConnMT4` is not answered to balance and new-user requests,
   because the text is copied with `sizeof` of a pointer and the runtime ends the
   process. `CrashOnlyInTransactions` shows that, as long as the library makes its
   interfaces and is not unloaded under them, these two are the only requests that do.
3. `read_overrun`: the check of the length ("invalid data length is", `CSession.cpp` 286)
   lets -1 pass, and the read of such a frame's data overruns `_data`. `DataIsAligned` shows
   that no other length does. What would follow from the overwritten members
   is not followed into the other modules.

`_send_que` has no limit: beyond `MAX_SENDQUE` `Send` logs that the queue is full and
pushes all the same, the return being commented out (`CSession.cpp` 43-50). That is
plain from the code and needs no run; SessionSend's queue has no limit either.

Besides, the passing properties name exceptions that are worth knowing:
`JoinReturns` (`missed`: the destructor's notify may be lost, because `_b_stop` is
set without the lock), `LostPeerUnregistered` (`HalfClosed`, `Unwatched`),
`RegisteredIsServed` (`early`: `ClearSession` may run before `HandleAccept` inserts the
session, which then stays in `_sessions`; `threw`: a handler ended in its catch),
`EndedIsDestroyed` (those, a cleared but unclosed session that has subscribed, and a
stopped `io_context`), `ConfirmedIsServed` (`lost`, `erased`), `PumpRestored` (`refused`: a
login or a `PumpingSwitchEx` that fails on a good connection is never repeated, since
`CheckConnect` only acts when `Ping` fails), `SafeUntilFirstRequest` (from the first request
on, the worker's reloading may take the library from a pump that runs), `LinesFindAppender`
and `SilentOnlyWithoutRecords`. `SignalStopsServing` says that a signal stops the server's
work but not its process.

## What is proved

For every value of the constants - numbers of threads, sessions, messages, requests,
parts, records, Inits, failures, all ids and lengths of 16 bits - from the named assumptions on the constants in each
module (`PostAssumption`, `SendAssumption`, `ReadAssumption`, `LogAssumption`,
`LinkAssumption`, `PumpAssumption`, `MgrAssumption`, `PagingAssumption`,
`ServerAssumption`) only. Every safety property and every action property that a passing
run checks is stated by a theorem:

- **SessionSendProofs**: `TypeCorrect`, `SingleWrite`, `BufferIsHeld`,
  `FramesStayIntact`, and `SendsInOrder` (the safety part of FifoChannel).
- **SessionReadProofs**: `ReadTypes`, `ReadsAreAligned` (DataIsAligned),
  `StrandedByException`, and `FramesPostedInOrder` (the safety part of FifoChannel).
- **LogicSycProofs**: `TypeCorrect`, `NoWakeupIsLost`, `ExitIsDrained`, and
  `HandledInOrderSafely` (the safety part of FifoChannel).
- **CServerProofs**: `TypeCorrect`, `DealtEvenly` (PoolBalanced), `RegisteredStayServed`,
  `QuietAfterStop` (StoppedIsQuiet), `NeverResurrected` (DestroyedStaysDestroyed), and
  `OneClosedIsErased`, which no run checks: an update that finds just one closed entry
  erases that entry and nothing else.
- **Mt4MgrProofs**: `TypeCorrect`, `SuccessCanBeRelied`, `SilenceMeansNothing`,
  `RemainingIsTried`, `CrashesAreTransactions`.
- **PumpLinkProofs**: `TypeCorrect`, `EventsAlternate`, `LibraryStays`, `SafeAlone`.
- **Mt4PumpProofs**: `TypeCorrect`, `NothingForClosed`, `ConfirmedAreServed`,
  `FirstEraseIsSafe`, `InOrderAndOnce` (UpdatesInOrder), and `CrashesNeedARace`, which no
  run checks: the list ends the process only by a push_back during a walk or an erase, or
  by an erase that is not the first of its callback.
- **LogPagingProofs**: of Log `LinesAreWritten`, `NoOldFiles`; of Paging
  `EveryRecordIsSent` (PagesHoldAll), `LastSplitIsTold` (LastSplitTells).

*LogicSyc.* The inductive invariant is `TypeOK /\ QueueInv`. `NoLostWakeup` alone is not
inductive: that the worker only waits with an empty queue needs `PlaceInv` (what
each place of `DealMsg` knows) and `LockInv` (nobody pushes between the test and the
wait). `DrainedOnExit` needs `StopInv` (nobody posts once the destructor runs) and
`DeliveryInv`: what was posted is what was handled followed by the queue, the request
whose callback runs being in both.

*SessionSend.* The inductive invariant is `TypeOK /\ SendInv`. `LockInv` says that what
`Send` read of the size is still true when it pushes; `WriteInv` that there is one
operation at most, running, completed or being handled, and that it is that of
the front; `PartialInv` that the client holds exactly the parts written of the front;
`DeliveryInv` that what was pushed is what the client has followed by the queue,
with the front in both from its last part to its pop. A second write is impossible
because `Send` writes only when the queue is empty, and then `WriteInv` leaves no
operation.

*SessionRead.* `DataIsAligned` says what is in `_data` but not what comes next, and is not
inductive. `LoopInv` adds to it the `Layout` of the rest of the stream: offsets `off`, one for
each frame not yet posted, at which its cells stand in what the client has sent and no read
has taken; that of the present frame is negative by what is in `_data` of it already. A read takes
cells from the front and lowers every offset, a frame that is sent adds one at the end.
That is the frame's half, `FrameInv`; the other is `OverrunInv`, a header that said -1. What
keeps the halves apart is `BytesInv`, a count: the client has sent no more bytes than
its frames can have, which is less than `SIZE_MAX`, so the read for -1 is never complete and
nothing is posted after it. That `_data` does not overflow in the first half is
what the two tests of the header leave of the length.

*CServer.* `IInv` is `PartsInv /\ ServedInv /\ StopInv /\ DealInv`. `PoolBalanced` is not
inductive: it does not say which `io_context` comes next. `DealInv` does: those before
`_nextIOService` have one session more than the others, so handing out one more there
keeps it, and the wrap starts a new round. `ServedInv` adds to `RegisteredIsServed` the
session that `HandleAccept` has started but not inserted. `StopInv` follows `Stop` through
its two loops; in the end every io thread has left `run()`, so no handler can begin or
go on. `RestInv` holds the types of what `IInv` does not speak of; `AskedInv` bounds the LogicNodes
of a session by the requests read of it, and says that one in its callback is still owned.
What an update leaves of the list is `Erased`, a function by recursion over the positions.
That it is a list of sessions again, and only of those that were on it, is an induction;
the library's theorems about recursive functions take operators, so the module proves
what it needs of them itself (`Recursion`): the step of the recursion is given as a
function, and instead of the induction a smallest counterexample is refuted.

*Mt4MgrSvr.* `ChangeInv` (a change is made between `call` and `reply`, not before) and
`RecordsInv` (what MT4 returned is sent or still to be sent) carry the two properties of
the answers; `TriedInv` (an interface that nobody has tried yet is about to be) and
`PlaceInv` that of the last interface; `CreatedInv` (when every `Create` succeeded, whoever
is past it has an interface) shows that NULL cannot be what ends the process.

*PumpLink.* `EventInv` ties the last event to come to `pumping`; `PlaceInv` says that nobody
is about to switch while MT4 pumps, because `Connect` stops the pumping first.
`LibraryHeld` and `SafeUntilFirstRequest` need that the starter calls `Init` no more once
`m_pumping` is made.

*Mt4PumpSvr.* `PlaceInv` knows what was true when an entry was looked at and that until
the first erase the remembered positions are those of closed sessions; `ListedInv` that a
confirmed session is in the list unless an append was lost or an entry erased;
`ServedInv` that it has been sent the update or is still ahead of the iterator. For
`InOrderAndOnce`, `CountInv` counts: a session has no more entries in the list than it has
subscribed, and was sent the present update only as often as the iterator has passed one
of them; an append adds one to both sides, an erase only takes away, and neither moves
what the iterator has passed while it walks.

*Log.* `ConfInv`: the configured appenders are only there while the call that brought
them has still to remove them.

*Paging.* `PagingIInv` is `PagingTypeOK /\ SentInv /\ PageInv`: each message sent holds the
records that its number tells, with their separators, and the one being put together
those from `i * PageSize` up to `j`. The rest is arithmetic: where `Pages(total)` messages of
`PageSize` end, and which of them record `r` is in.

*What liveness needs of safety.* A liveness property says that the right steps come; that
there is always such a step to wait for is safety, and proved where it is not plain, by
theorems that no run checks:

- `JoinedWorkerIsAwake`, for `JoinReturns`: while `~LogicSyc` joins, the worker blocks only
  if `missed`, because it goes to its wait only with `_b_stop` false.
- `LossIsNoticed`, for `LostPeerUnregistered`: a registered session is in a handler, has an
  operation whose handler can still close it, or is `HalfClosed` or `Unwatched`.
- `FailedWriteCloses`, for `EndedIsDestroyed`: a session nothing is written to any more has
  `_b_close` set or about to be, so the next trade update takes it from `_pump_que`;
  otherwise its handler threw.
- `OffIsSeen`, for `PumpRestored`: when the starter sleeps or pings with a connection up, MT4
  pumps or has refused. `OffInv` adds where the connection stands on the way through `Init`
  and `CheckConnect`.
- `NoCallbackCircles`, for `CallbackReturns`: each step of a callback lowers the pair of
  `Left` (a number for each place) and the messages to be sent, and nothing raises it.

Each step of `Next` has a lemma; the refinements follow from the invariants, one step of
the model being one of the channel or a stutter. `QueueInv` and `SendInv`, with `OneWriteAtATime`
and `WrittenBufferIsHeld`, are proved for every instance, and therefore in no run.

Only model-checked is liveness: the delivery in the end in the three FifoChannel
refinements (`ClientReceivesInOrder`, `PostedInOrder`, `HandledInOrder`, whose safety parts are
proved), `LostPeerUnregistered`, `JoinReturns`, `EndedIsDestroyed`, `SignalStopsServing`,
`CallbackReturns`, `PumpRestored`. The prover has neither fairness nor `ENABLED`, which
lead from the theorems above to these properties. The three
findings are counterexamples, found by TLC.

## What is not modelled

- The fields of trades and users, the parsing of the history request, log output,
  `util`'s conversion: data no property looks at.
- `AdmTradesRequest` (no caller), the commented-out `HandleRead`, `OnUserUpdate` and
  `OnlineRecord` (log output only), `LogicSycLog` (no user), `FreePump` (behind an endless
  loop), `~Mt4MgrSvr` and `~CManagerFactory` (`main` does not return).
- That the arrays of trades are never freed: plain from the code, in no order of steps.
- Failing allocation, and what a header with length -1 does beyond its session (SessionRead
  has the session's side; a damaged heap or `_server` may do anything to the rest).
- The text of log lines and what the files contain.
- In CServer: the order of messages and requests (SessionSend, LogicSyc), partial writes,
  and races on `_pump_que` during an update (Mt4PumpSvr).
- The MT4 library, Windows' loader, boost::asio, log4cplus and the C++ library: external,
  modelled by how this code uses them.

## Plan

Done: the core (FifoChannel, SessionSend, LogicSyc, SessionRead, Mt4PumpSvr), what is
around it (CServer with pool, subscriptions and shutdown, Mt4MgrSvr, Paging), the
connection of the pump (PumpLink, ManagerFactory), Log, and the proofs above. Left, in
this order:

1. *Proofs*: that a session of CServer whose socket is closed has an owner that lets go of
   it (`FailedWriteCloses` says so of one whose write failed), and that every thread that
   waits for a mutex waits for one that has a step to make.
2. *Record text*: a field that holds a separator ("|" or "#*#") as `GetTradeStr` and
   `UserRecordToString` write it, and what a reader makes of it.
3. *Larger instances*: three sessions in CServer, so that a wrong erase of `TradeUpdate`
   can take a session that is neither of the two it is about.
