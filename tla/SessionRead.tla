---------------------------- MODULE SessionRead ----------------------------
(***************************************************************************)
(* The receiving half of one CSession: from the bytes of the client to     *)
(* PostMsgToQue.                                                           *)
(*                                                                         *)
(* A frame is a header of HEAD_TOTAL_LEN bytes, id and length as 16-bit    *)
(* numbers, and its data.  The connection is a sequence of cells, one per  *)
(* byte, each of which knows its frame and its place in it; every          *)
(* async_read_some returns any number of the bytes asked for.  All         *)
(* handlers of a session run on one io thread, so each is one step.        *)
(*                                                                         *)
(* The log line of a rejected header adds the number to a string literal's *)
(* address ("invalid msg_id is " + msg_id): the string is read from        *)
(* wherever that is, which may end the process.                            *)
(*                                                                         *)
(* A header may say that its data is -1 bytes long.  It passes the check,  *)
(* the buffer for it has no byte at all and the one in front of it is      *)
(* written, and the read that follows asks for SIZE_MAX bytes: it goes on  *)
(* beyond the end of _data.  What the process does then is not defined;    *)
(* here it may end at any time, the system may refuse a read of that size, *)
(* and the members behind _data may have any value.                        *)
(***************************************************************************)
EXTENDS Integers, Sequences

CONSTANTS
  Ids,             \* ids in headers, as unsigned 16-bit numbers
  Lens,            \* lengths in headers, as unsigned 16-bit numbers
  HEAD_TOTAL_LEN,  \* const.h, 4 in the code
  MAX_LENGTH,      \* const.h, 2048 in the code
  SIZE_MAX,        \* the largest size_t
  MaxFrames,       \* bound: frames the client sends
  Garbled          \* a request put together from the wrong bytes

ASSUME ReadAssumption ==
  /\ Ids \subseteq 0..(2^16 - 1)
  /\ Lens \subseteq 0..(2^16 - 1)
  /\ HEAD_TOTAL_LEN \in Nat \ {0} /\ HEAD_TOTAL_LEN <= MAX_LENGTH
  /\ MAX_LENGTH \in 0..(2^15 - 1)
  /\ MaxFrames \in Nat
  /\ SIZE_MAX \in Nat /\ MAX_LENGTH < SIZE_MAX
  /\ MaxFrames * (HEAD_TOTAL_LEN + MAX_LENGTH) < SIZE_MAX  \* never as many bytes
  /\ Garbled \notin Nat

VARIABLES
  frames,      \* the frames the client has sent
  stream,      \* their bytes on the connection, not yet read
  peerUp,      \* the connection works
  phase,       \* "head" or "body" while a read is outstanding, then "ended"
  data,        \* the read_len bytes read into _data so far
  total,       \* the total_len of the read
  node,        \* _recv_msg_node: id and _total_len of the frame being read
  posted,      \* history: requests given to PostMsgToQue
  bClose,      \* _b_close
  registered,  \* the session is in CServer::_sessions
  crashed      \* the process is gone

readVars  == <<phase, data, total, node>>
closeVars == <<bClose, registered>>
vars == <<frames, stream, peerUp, readVars, posted, closeVars, crashed>>

Frames == [id : Ids, len : Lens]
Cells  == [frame : 1..MaxFrames, at : Nat \ {0}]

(* network_to_host_short into a short.                                     *)
ToShort(u) == IF u >= 2^15 THEN u - 2^16 ELSE u

(* An int given as a size_t.                                               *)
ToSize(len) == IF len < 0 THEN SIZE_MAX + 1 + len ELSE len

(* The bytes of the n-th frame.  Of a frame whose length is out of range   *)
(* only the header matters: what follows are the frames sent after it.     *)
DataLen(f) == IF ToShort(f.len) \in 0..MAX_LENGTH THEN f.len ELSE 0
Header(n)  == [k \in 1..HEAD_TOTAL_LEN |-> [frame |-> n, at |-> k]]
Body(n, f) == [k \in 1..DataLen(f) |-> [frame |-> n, at |-> HEAD_TOTAL_LEN + k]]

TypeOK ==
  /\ frames \in Seq(Frames) /\ Len(frames) <= MaxFrames
  /\ stream \in Seq(Cells) /\ data \in Seq(Cells)
  /\ phase \in {"head", "body", "ended"}
  /\ total \in 0..MAX_LENGTH \cup {SIZE_MAX}
  /\ node \in [id : -(2^15)..(2^15 - 1), len : -1..MAX_LENGTH]
  /\ posted \in Seq(1..MaxFrames \cup {Garbled})
  /\ peerUp \in BOOLEAN /\ crashed \in BOOLEAN
  /\ bClose \in BOOLEAN /\ registered \in BOOLEAN

(* Start() has begun to read and HandleAccept has registered the session.  *)
Init ==
  /\ frames = <<>> /\ stream = <<>> /\ peerUp = TRUE
  /\ phase = "head" /\ data = <<>> /\ total = HEAD_TOTAL_LEN
  /\ node = [id |-> 0, len |-> 0]
  /\ posted = <<>>
  /\ bClose = FALSE /\ registered = TRUE
  /\ crashed = FALSE

Reading == phase # "ended" /\ ~crashed

-----------------------------------------------------------------------------
(* The client and the network (external)                                   *)

ClientSends(f) ==
  /\ peerUp /\ ~crashed
  /\ Len(frames) < MaxFrames
  /\ LET n == Len(frames) + 1
     IN stream' = stream \o Header(n) \o Body(n, f)
  /\ frames' = Append(frames, f)
  /\ UNCHANGED <<peerUp, readVars, posted, closeVars, crashed>>

(* Also stands for HandleWrite closing the session.                        *)
PeerDown ==
  /\ peerUp /\ ~crashed
  /\ peerUp' = FALSE
  /\ UNCHANGED <<frames, stream, readVars, posted, closeVars, crashed>>

-----------------------------------------------------------------------------
(* asyncReadFull and asyncReadLen                                          *)

(* Clear _data and ask for len bytes.                                      *)
AsyncReadFull(ph, len) ==
  /\ phase' = ph
  /\ data' = <<>>
  /\ total' = len

(* Mutant: the whole length is asked for again after a partial read.       *)
AsksFully(k) == k <= Len(stream) /\ k \in 1..total

(* async_read_some may return k bytes: it is asked for what is missing. A  *)
(* read of nothing completes at once.                                      *)
Returns(k) ==
  /\ k <= Len(stream)
  /\ k \in IF total = 0 THEN {0} ELSE 1..(total - Len(data))

(* The k bytes go behind those read before.                                *)
Got(k) == data \o SubSeq(stream, 1, k)

Taken(k) == stream' = SubSeq(stream, k + 1, Len(stream))

(* The read for a length of -1: no number of bytes completes it.           *)
Endless == total = SIZE_MAX

(* Not enough yet: read on.  Beyond _data the next members are written,    *)
(* _b_close among them.                                                    *)
ReadMore(k) ==
  /\ Reading
  /\ Returns(k) /\ Len(Got(k)) < total
  /\ Taken(k)
  /\ data' = Got(k)
  /\ bClose' \in IF Len(Got(k)) > MAX_LENGTH THEN BOOLEAN ELSE {bClose}
  /\ UNCHANGED <<frames, peerUp, phase, total, node, posted, registered, crashed>>

(* The handler is given an error: Close and ClearSession.  When            *)
(* _socket.close() throws, the catch leaves both undone; when _server has  *)
(* been written over, any session or none is cleared.                      *)
ReadError ==
  /\ Reading
  /\ phase' = "ended"
  /\ \/ bClose' = TRUE /\ registered' = FALSE
     \/ UNCHANGED closeVars
     \/ Len(data) > MAX_LENGTH /\ bClose' = TRUE /\ UNCHANGED registered
  /\ UNCHANGED <<frames, stream, peerUp, data, total, node, posted, crashed>>

(* End of file, reset, or the socket was closed.                           *)
ReadFails == ~peerUp /\ ReadError

(* The system may refuse to read that much at once.                        *)
ReadRefused == Endless /\ ReadError

-----------------------------------------------------------------------------
(* AsyncReadHead's handler                                                 *)

(* The frame whose header was read, and its two numbers as shorts.         *)
HeadFrame(k) == frames[Head(Got(k)).frame]
MsgId(k)  == ToShort(HeadFrame(k).id)
MsgLen(k) == ToShort(HeadFrame(k).len)

HeadRead(k) ==
  /\ Reading /\ phase = "head"
  /\ Returns(k) /\ Len(Got(k)) >= total
  /\ Taken(k)
  /\ UNCHANGED <<frames, peerUp, posted, bClose>>

(* Mutant: only the id is looked at.                                       *)
ValidIdOnly(id, len) == 1000 <= id /\ id <= 65000

ValidHeader(id, len) == 1000 <= id /\ id <= 65000 /\ len <= MAX_LENGTH

(* RecvNode's buffer is allocated, of no bytes for a length of -1, and the *)
(* data asked for.                                                         *)
HeadAccepted(k) ==
  /\ HeadRead(k)
  /\ ValidHeader(MsgId(k), MsgLen(k)) /\ MsgLen(k) >= -1
  /\ node' = [id |-> MsgId(k), len |-> MsgLen(k)]
  /\ AsyncReadFull("body", ToSize(MsgLen(k)))
  /\ UNCHANGED <<registered, crashed>>

(* Mutant: no ClearSession.                                                *)
HeadRejectedKeeps(k) ==
  /\ HeadRead(k)
  /\ ~ValidHeader(MsgId(k), MsgLen(k))
  /\ phase' = "ended"
  /\ UNCHANGED <<data, total, node, registered, crashed>>

(* An id or a length out of range: ClearSession, but no Close - unless the *)
(* log line ends the process.                                              *)
HeadRejected(k) ==
  /\ HeadRead(k)
  /\ ~ValidHeader(MsgId(k), MsgLen(k))
  /\ \/ registered' = FALSE /\ UNCHANGED crashed
     \/ crashed' = TRUE /\ UNCHANGED registered
  /\ phase' = "ended"
  /\ UNCHANGED <<data, total, node>>

(* A length below -1 passes the check and new[] throws: the handler's      *)
(* catch logs, and nothing reads from or closes the session any more.      *)
HeadThrows(k) ==
  /\ HeadRead(k)
  /\ ValidHeader(MsgId(k), MsgLen(k)) /\ MsgLen(k) < -1
  /\ phase' = "ended"
  /\ UNCHANGED <<data, total, node, registered, crashed>>

-----------------------------------------------------------------------------
(* AsyncReadBody's handler                                                 *)

(* The byte in front of the buffer of a length of -1 has been written, the *)
(* heap's own: that may end the process at any time.                       *)
HeapEnds ==
  /\ node.len = -1 /\ ~crashed
  /\ crashed' = TRUE
  /\ UNCHANGED <<frames, stream, peerUp, readVars, posted, closeVars>>

(* What LogicSyc is given: the n-th frame if the id and the data are its.  *)
Request(d) ==
  LET n == Len(posted) + 1 IN
  IF /\ n <= Len(frames)
     /\ node = [id |-> ToShort(frames[n].id), len |-> frames[n].len]
     /\ d = Body(n, frames[n])
  THEN n ELSE Garbled

(* Mutant: the data is posted, but no header is read any more.             *)
BodyReadOnce(k) ==
  /\ Reading /\ phase = "body"
  /\ Returns(k) /\ Len(Got(k)) >= total
  /\ Taken(k)
  /\ posted' = Append(posted, Request(Got(k)))
  /\ AsyncReadFull("body", node.len)
  /\ UNCHANGED <<frames, peerUp, node, closeVars, crashed>>

(* Post the request and read the next header.                              *)
BodyRead(k) ==
  /\ Reading /\ phase = "body"
  /\ Returns(k) /\ Len(Got(k)) >= total
  /\ Taken(k)
  /\ posted' = Append(posted, Request(Got(k)))
  /\ AsyncReadFull("head", HEAD_TOTAL_LEN)
  /\ UNCHANGED <<frames, peerUp, node, closeVars, crashed>>

-----------------------------------------------------------------------------
ReadHandler(k) ==
  ReadMore(k) \/ HeadAccepted(k) \/ HeadRejected(k) \/ HeadThrows(k) \/ BodyRead(k)

ReadSome == \E k \in 0..Len(stream) : ReadHandler(k)

Next ==
  \/ \E f \in Frames : ClientSends(f)
  \/ PeerDown \/ ReadSome \/ ReadFails \/ ReadRefused \/ HeapEnds

(* Bytes on the connection are read in the end.                            *)
Spec == Init /\ [][Next]_vars /\ WF_vars(ReadSome) /\ WF_vars(ReadFails)

-----------------------------------------------------------------------------
(* Properties                                                              *)

(* The frame that is being read said that its data is -1 bytes long.       *)
SaysMinusOne(n) == phase = "body" /\ ToShort(frames[n].len) = -1

(* However the reads are cut, _data only ever holds the beginning of one   *)
(* header or of the data of the frame whose header was read before, and    *)
(* never more than MAX_LENGTH bytes, the size of _data - unless that       *)
(* header said -1: no other length a client can send makes _data overflow. *)
DataIsAligned ==
  Reading =>
    LET n == Len(posted) + 1 IN
    \/ SaysMinusOne(n)
    \/ /\ Len(data) <= total /\ total <= MAX_LENGTH
       /\ data # <<>> =>
            data = SubSeq(IF phase = "head" THEN Header(n) ELSE Body(n, frames[n]),
                          1, Len(data))

(* What the check of the length is for, "invalid data length is": no more  *)
(* bytes are put into _data than it has.  The code breaks it for -1.       *)
DataFits == Len(data) <= MAX_LENGTH

(* Each frame is posted once, in the order the client sent them, and in    *)
(* the end, as long as the read loop goes on and no header says -1; after  *)
(* such a header nothing is posted any more.                               *)
Channel == INSTANCE FifoChannel WITH
  Message  <- 1..MaxFrames,
  accepted <- [n \in 1..Len(frames) |-> n],
  received <- posted,
  broken   <- ~Reading \/ Endless

PostedInOrder == Channel!Spec

(* The read loop of a session that stays registered ended in one of two    *)
(* ways: the connection went down and _socket.close() threw, or a header   *)
(* passed the checks with a negative length, for which new[] throws or the *)
(* read overruns _data.                                                    *)
StrandedOnlyByException ==
  phase = "ended" /\ registered /\ ~crashed =>
    \/ ~peerUp
    \/ /\ Len(posted) < Len(frames)
       /\ LET f == frames[Len(posted) + 1]
          IN ToShort(f.len) < 0 /\ ToShort(f.id) >= 1000
=============================================================================
