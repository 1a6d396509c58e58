-------------------------- MODULE LogPagingProofs --------------------------
(* What the two smallest models promise: Log, for every number of          *)
(* sessions, and Paging, for lists and messages of every size.             *)
EXTENDS Log, Paging, Integers, SequenceTheorems, TLAPS

-----------------------------------------------------------------------------
(* Log                                                                     *)

(* A call that is at its place has begun.                                  *)
PlaceInv == \A t \in Threads : place[t] # "out" => call[t] > 0

(* The configured appenders are those of a call that has still to remove   *)
(* them.                                                                   *)
ConfInv ==
  attached \cap Conf # {} => \E t \in Threads : place[t] = "configured"

IInv == TypeOK /\ PlaceInv /\ ConfInv /\ LinesFindAppender /\ OldFilesAreGone

(* The threads, their calls and the appenders are what they are.           *)
LEMMA Names ==
  /\ Threads = {"main", "starter", "worker"}
  /\ \A t \in Threads : Calls[t] \in 1..(3 + MaxSessions)
  /\ \A t \in Threads, k \in Nat : File(t, k) \notin Conf
  /\ \A t, u \in Threads, k, l \in Nat : File(t, k) = File(u, l) => t = u /\ k = l
  /\ Conf # {}
BY LogAssumption DEF LogAssumption, Threads, Calls, File, Conf

(* No call has begun, and nothing is attached.                             *)
LEMMA InitIInv == Init => IInv
BY Names DEF Init, IInv, TypeOK, PlaceInv, ConfInv,
             LinesFindAppender, LinesAreLost,
             OldFilesAreGone, Files

(* A call begins, and detaches everything.                                 *)
LEMMA ConfigureIInv ==
  ASSUME NEW t \in Threads, IInv, Configure(t)
  PROVE  IInv'
<1>1. TypeOK /\ PlaceInv BY DEF IInv
<1>2. TypeOK' /\ PlaceInv'
  BY <1>1, Names DEF Configure, Goto, TypeOK, PlaceInv
<1>3. attached' = {} /\ place'[t] = "configuring"
  BY <1>1 DEF Configure, Goto, TypeOK
<1> QED
  BY <1>2, <1>3
  DEF IInv, ConfInv, LinesFindAppender, LinesAreLost, OldFilesAreGone

(* The configured appenders are attached by a call that removes them next. *)
LEMMA AddConfiguredIInv ==
  ASSUME NEW t \in Threads, IInv, AddConfigured(t)
  PROVE  IInv'
<1>1. TypeOK /\ PlaceInv /\ OldFilesAreGone BY DEF IInv
<1>2. TypeOK' /\ PlaceInv'
  BY <1>1, Names DEF AddConfigured, Goto, TypeOK, PlaceInv
<1>3. attached' = attached \cup Conf /\ place'[t] = "configured"
  BY <1>1 DEF AddConfigured, Goto, TypeOK
<1>4. LinesFindAppender' /\ ConfInv'
  BY <1>3, Names DEF LinesFindAppender, LinesAreLost, ConfInv
<1>5. OldFilesAreGone'
  BY <1>1, <1>3, Names, LogAssumption
  DEF OldFilesAreGone, AddConfigured, Goto, TypeOK, LogAssumption
<1> QED BY <1>2, <1>4, <1>5 DEF IInv

(* A call detaches everything, configured or of another call.              *)
LEMMA RemoveAllIInv ==
  ASSUME NEW t \in Threads, IInv, RemoveAllAppenders(t)
  PROVE  IInv'
<1>1. TypeOK /\ PlaceInv BY DEF IInv
<1>2. TypeOK' /\ PlaceInv'
  BY <1>1, Names DEF RemoveAllAppenders, Goto, TypeOK, PlaceInv
<1>3. attached' = {} /\ place'[t] = "cleared"
  BY <1>1 DEF RemoveAllAppenders, Goto, TypeOK
<1> QED
  BY <1>2, <1>3
  DEF IInv, ConfInv, LinesFindAppender, LinesAreLost, OldFilesAreGone

(* A call attaches the file it has opened, and is over.                    *)
LEMMA AddAppenderIInv ==
  ASSUME NEW t \in Threads, IInv, AddAppender(t)
  PROVE  IInv'
<1>1. TypeOK /\ PlaceInv /\ OldFilesAreGone /\ ConfInv BY DEF IInv
<1>2. /\ call[t] \in 1..(3 + MaxSessions) /\ call[t] \in Nat
      /\ place[t] = "cleared"
  BY <1>1, Names, LogAssumption DEF AddAppender, TypeOK, PlaceInv, LogAssumption
<1>3. attached' = attached \cup {File(t, call[t])} /\ call' = call
      /\ place' = [place EXCEPT ![t] = "out"]
  BY DEF AddAppender, Goto
<1>4. TypeOK' /\ PlaceInv'
  BY <1>1, <1>2, <1>3 DEF TypeOK, PlaceInv, Files
<1>5. ConfInv'
  BY <1>1, <1>2, <1>3, Names DEF ConfInv, TypeOK
<1>6. LinesFindAppender'
  BY <1>3, <1>5 DEF LinesFindAppender, LinesAreLost, ConfInv
<1>7. OldFilesAreGone'
  BY <1>1, <1>2, <1>3, Names, LogAssumption
  DEF OldFilesAreGone, TypeOK, LogAssumption
<1> QED BY <1>4, <1>5, <1>6, <1>7 DEF IInv

(* Every step keeps the invariant.                                         *)
LEMMA NextIInv == IInv /\ [Next]_vars => IInv'
<1> SUFFICES ASSUME IInv, [Next]_vars PROVE IInv'
  OBVIOUS
<1>1. CASE Next
  BY <1>1, ConfigureIInv, AddConfiguredIInv, RemoveAllIInv, AddAppenderIInv
  DEF Next, LogInit
<1>2. CASE UNCHANGED vars
  BY <1>2 DEF vars, IInv, TypeOK, PlaceInv, ConfInv,
             LinesFindAppender, LinesAreLost,
              OldFilesAreGone
<1> QED BY <1>1, <1>2

(* The strengthened invariant holds in every behaviour.                    *)
LEMMA Invariant == Spec => []IInv
BY InitIInv, NextIInv, PTL DEF Spec

(* The logger is without an appender only inside a call, and the appenders *)
(* of LogicSycLog.conf do not outlive the calls, for any number of         *)
(* sessions.                                                               *)
THEOREM LinesAreWritten == Spec => []LinesFindAppender
<1>1. IInv => LinesFindAppender BY DEF IInv
<1> QED BY <1>1, Invariant, PTL

(* The files of old sessions do not pile up on the logger, for any number  *)
(* of sessions.                                                            *)
THEOREM NoOldFiles == Spec => []OldFilesAreGone
<1>1. IInv => OldFilesAreGone BY DEF IInv
<1> QED BY <1>1, Invariant, PTL

-----------------------------------------------------------------------------
(* Paging.  What holds of the n-th message: how many records it has, which *)
(* they are, and behind which of them Split_Record stands.                 *)
PageLen(n) ==
  IF n * PageSize <= total THEN PageSize ELSE total - (n - 1) * PageSize

Split(n, k) ==
  IF list = "trades" THEN k < PageSize ELSE (n - 1) * PageSize + k < total

PageIs(p, n, len) ==
  /\ Len(p) = len
  /\ \A k \in 1..len :
       p[k].rec = (n - 1) * PageSize + k - 1 /\ (p[k].split <=> Split(n, k))

(* The messages sent are whole, and the one being put together is the      *)
(* beginning of the next.                                                  *)
SentInv ==
  /\ Len(sent) = i
  /\ i > 0 => (i - 1) * PageSize < total
  /\ \A n \in 1..i : PageIs(sent[n], n, PageLen(n))

PageInv ==
  /\ pc = "inner" =>
       /\ i * PageSize < total
       /\ i * PageSize <= j /\ j <= (i + 1) * PageSize
       /\ PageIs(page, i + 1, j - i * PageSize)
  /\ pc = "done" => total <= i * PageSize

PagingIInv == PagingTypeOK /\ SentInv /\ PageInv

(* Records before a message, and before its neighbours.                    *)
LEMMA Multiples ==
  ASSUME NEW n \in Int
  PROVE  /\ PageSize \in Nat \ {0} /\ n * PageSize \in Int
         /\ (n + 1) * PageSize = n * PageSize + PageSize
         /\ (n - 1) * PageSize = n * PageSize - PageSize
         /\ n >= 0 => n <= n * PageSize
<1>1. PageSize \in Nat \ {0}
  BY PagingAssumption DEF PagingAssumption
<1>2. n * PageSize \in Int
  BY <1>1
<1>3. /\ (n + 1) * PageSize = n * PageSize + PageSize
      /\ (n - 1) * PageSize = n * PageSize - PageSize
  BY <1>1
<1>4. n >= 0 => n <= n * PageSize
  BY <1>1
<1> QED BY <1>1, <1>2, <1>3, <1>4

(* A message that begins later begins at least a message later.            *)
LEMMA LaterMessages ==
  ASSUME NEW m \in Int, NEW n \in Int, m < n
  PROVE  m * PageSize + PageSize <= n * PageSize
<1>1. PageSize \in Nat
  BY PagingAssumption DEF PagingAssumption
<1> QED BY <1>1

(* The division that counts the messages rounds up: there is a message as  *)
(* long as there are records for it.                                       *)
LEMMA PagesRoundUp ==
  ASSUME NEW t \in Nat, NEW n \in Nat
  PROVE  n < Pages(t) <=> n * PageSize < t
<1> DEFINE q == Pages(t)
<1>1. PageSize \in Nat \ {0} /\ t + PageSize - 1 \in Nat
  BY PagingAssumption DEF PagingAssumption
<1>2. q \in Nat /\ q * PageSize <= t + PageSize - 1
      /\ t + PageSize - 1 < q * PageSize + PageSize
  <2>1. \A a \in Nat : /\ a \div PageSize \in Nat /\ (a \div PageSize) * PageSize <= a
                       /\ a < (a \div PageSize) * PageSize + PageSize
    BY <1>1
  <2> QED BY <2>1, <1>1 DEF Pages
<1> HIDE DEF q
<1>3. n * PageSize \in Int /\ q * PageSize \in Int
  BY <1>2, Multiples
<1>4. n < q => n * PageSize + PageSize <= q * PageSize
  BY <1>2, LaterMessages
<1>5. n >= q => q * PageSize <= n * PageSize
  BY <1>1, <1>2
<1> DEFINE a == n * PageSize
           b == q * PageSize
<1>6. /\ a \in Int /\ b \in Int
      /\ n < q => a + PageSize <= b
      /\ n >= q => b <= a
      /\ b <= t + PageSize - 1 /\ t + PageSize - 1 < b + PageSize
  BY <1>2, <1>3, <1>4, <1>5
<1> HIDE DEF a, b
<1>7. n < q <=> a < t
  BY <1>1, <1>2, <1>6
<1> QED BY <1>7 DEF q, a

(* The numbers of the loops, as the steps need them.                       *)
LEMMA LoopNumbers ==
  ASSUME PagingTypeOK
  PROVE  /\ total \in Nat /\ i \in Nat /\ j \in Nat /\ i <= total /\ j <= total
         /\ PageSize \in Nat \ {0} /\ i * PageSize \in Int
         /\ (i + 1) * PageSize = i * PageSize + PageSize
         /\ i <= i * PageSize
         /\ i < Pages(total) <=> i * PageSize < total
         /\ page \in Seq(Entries) /\ sent \in Seq(Seq(Entries))
<1>1. /\ total \in Nat /\ i \in Nat /\ j \in Nat /\ i <= total /\ j <= total
      /\ page \in Seq(Entries) /\ sent \in Seq(Seq(Entries))
  BY PagingAssumption DEF PagingAssumption, PagingTypeOK
<1>2. /\ PageSize \in Nat \ {0} /\ i * PageSize \in Int
      /\ (i + 1) * PageSize = i * PageSize + PageSize
      /\ i <= i * PageSize
  <2>1. i \in Int /\ i >= 0
    BY <1>1
  <2> QED BY <2>1, Multiples
<1>3. i < Pages(total) <=> i * PageSize < total
  BY <1>1, PagesRoundUp
<1> QED BY <1>1, <1>2, <1>3

(* Nothing is sent at first.                                               *)
LEMMA PagingInitIInv == PagingInit => PagingIInv
<1> SUFFICES ASSUME PagingInit PROVE PagingIInv
  OBVIOUS
<1>1. total \in Nat /\ i = 0 /\ j = 0 /\ page = <<>> /\ sent = <<>> /\ pc = "outer"
      /\ list \in Lists /\ total \in 0..MaxTotal
  BY PagingAssumption DEF PagingAssumption, PagingInit
<1>2. PagingTypeOK
  BY <1>1 DEF PagingTypeOK
<1>3. SentInv /\ PageInv
  BY <1>1 DEF SentInv, PageInv
<1> QED BY <1>2, <1>3 DEF PagingIInv

(* A step that sends nothing leaves what was sent.                         *)
LEMMA SentKept ==
  ASSUME SentInv, UNCHANGED <<list, total, i, sent>>
  PROVE  SentInv'
<1>1. /\ Len(sent') = i' /\ (i' > 0 => (i' - 1) * PageSize < total')
  BY DEF SentInv
<1>2. ASSUME NEW n \in 1..i
      PROVE  PageIs(sent[n], n, PageLen(n))'
  <2>1. PageIs(sent[n], n, PageLen(n))
    BY DEF SentInv
  <2> QED BY <2>1 DEF PageIs, PageLen, Split
<1> QED BY <1>1, <1>2 DEF SentInv

(* A message that is begun holds no record yet, and there is one for it.   *)
LEMMA BeginPageIInv ==
  ASSUME PagingIInv, BeginPage
  PROVE  PagingIInv'
<1>1. PagingTypeOK /\ SentInv
  BY DEF PagingIInv
<1>2. /\ UNCHANGED <<list, total, i, sent>>
      /\ page' = <<>> /\ j' = i * PageSize /\ pc' = "inner" /\ i < Pages(total)
  BY DEF BeginPage
<1>3. i * PageSize < total /\ i * PageSize \in 0..total
  BY <1>1, <1>2, LoopNumbers
<1>4. PagingTypeOK'
  <2>1. page' \in Seq(Entries)
    BY <1>2
  <2> QED BY <2>1, <1>1, <1>2, <1>3 DEF PagingTypeOK, Entries
<1>5. SentInv'
  BY <1>1, <1>2, SentKept
<1>6. PageInv'
  <2> DEFINE b == i * PageSize
  <2>1. /\ b \in Int /\ b < total /\ (i + 1) * PageSize = b + PageSize
        /\ PageSize \in Nat /\ j' = b
    BY <1>1, <1>2, <1>3, LoopNumbers
  <2> HIDE DEF b
  <2>2. Len(page') = j' - b /\ 1..(j' - b) = {}
    BY <2>1, <1>2
  <2>3. PageIs(page, i + 1, j - i * PageSize)'
    BY <2>2, <1>2 DEF PageIs, b
  <2>4. b <= j' /\ j' <= (i + 1) * PageSize
    BY <2>1
  <2> QED BY <2>1, <2>3, <2>4, <1>2 DEF PageInv, b
<1> QED BY <1>4, <1>5, <1>6 DEF PagingIInv

(* A record is put behind those of the message.                            *)
LEMMA PutRecordIInv ==
  ASSUME PagingIInv, PutRecord
  PROVE  PagingIInv'
<1>1. PagingTypeOK /\ SentInv /\ PageInv
  BY DEF PagingIInv
<1> DEFINE e == [rec |-> j, split |-> SplitAfter(j)]
           b == i * PageSize
<1>2. /\ UNCHANGED <<list, total, i, sent, pc>> /\ pc = "inner"
      /\ page' = Append(page, e) /\ j' = j + 1
      /\ j < (i + 1) * PageSize /\ j < total
  BY DEF PutRecord
<1>3. /\ b \in Int /\ (i + 1) * PageSize = b + PageSize /\ PageSize \in Nat \ {0}
      /\ ((i + 1) - 1) * PageSize = b
      /\ total \in Nat /\ j \in Nat /\ i \in Nat /\ page \in Seq(Entries)
  BY <1>1, LoopNumbers
<1>4. b < total /\ b <= j /\ PageIs(page, i + 1, j - b)
  BY <1>1, <1>2 DEF PageInv
<1>5. e \in Entries
  <2>1. j \in 0..(total - 1)
    BY <1>2, <1>3
  <2>2. SplitAfter(j) \in BOOLEAN
    <3>1. (j < (i + 1) * PageSize - 1) \in BOOLEAN /\ (j < total - 1) \in BOOLEAN
      OBVIOUS
    <3> QED BY <3>1, Zenon DEF SplitAfter
  <2> QED BY <2>1, <2>2, Zenon DEF Entries
<1>6. e.rec = j /\ (e.split <=> Split(i + 1, (j - b) + 1))
  <2>1. CASE list = "trades"
    <3>1. j < (i + 1) * PageSize - 1 <=> (j - b) + 1 < PageSize
      BY <1>3
    <3> QED BY <2>1, <3>1 DEF SplitAfter, Split
  <2>2. CASE list # "trades"
    <3>1. j < total - 1 <=> b + ((j - b) + 1) < total
      BY <1>3
    <3> QED BY <2>2, <3>1, <1>3 DEF SplitAfter, Split
  <2> QED BY <2>1, <2>2
<1> HIDE DEF e, b
<1>7. /\ page' \in Seq(Entries) /\ Len(page') = Len(page) + 1
      /\ \A k \in 1..Len(page) : page'[k] = page[k]
      /\ page'[Len(page) + 1] = e
  BY <1>2, <1>3, <1>5, AppendProperties
<1>8. PagingTypeOK'
  <2>1. j' \in 0..total
    BY <1>2, <1>3
  <2> QED BY <2>1, <1>1, <1>2, <1>7 DEF PagingTypeOK, Entries
<1>9. SentInv'
  BY <1>1, <1>2, SentKept
<1>10. PageIs(page, i + 1, j - i * PageSize)'
  <2> DEFINE len == j - b
  <2>1. len \in Nat /\ Len(page) = len /\ j' - b = len + 1
    BY <1>2, <1>3, <1>4 DEF PageIs
  <2>2. \A k \in 1..len : /\ page[k].rec = ((i + 1) - 1) * PageSize + k - 1
                          /\ page[k].split <=> Split(i + 1, k)
    BY <1>4 DEF PageIs
  <2>3. ((i + 1) - 1) * PageSize + (len + 1) - 1 = j
    BY <1>3
  <2>4. \A k \in 1..(len + 1) : /\ page'[k].rec = ((i + 1) - 1) * PageSize + k - 1
                                /\ page'[k].split <=> Split(i + 1, k)
    <3> TAKE k \in 1..(len + 1)
    <3>1. CASE k = len + 1
      BY <3>1, <2>1, <2>3, <1>6, <1>7
    <3>2. CASE k \in 1..len
      BY <3>2, <2>1, <2>2, <1>7
    <3> QED BY <3>1, <3>2, <2>1
  <2>5. Len(page') = len + 1
    BY <2>1, <1>7
  <2> HIDE DEF len
  <2>6. \A k : Split(i + 1, k)' <=> Split(i + 1, k)
    BY <1>2 DEF Split
  <2> QED BY <2>1, <2>4, <2>5, <2>6, <1>2 DEF PageIs, b
<1>11. PageInv'
  <2>1. b <= j' /\ j' <= (i + 1) * PageSize
    BY <1>2, <1>3, <1>4
  <2> QED BY <2>1, <1>2, <1>4, <1>10 DEF PageInv, b
<1> QED BY <1>8, <1>9, <1>11 DEF PagingIInv

(* The message that is sent is full, or holds the last record.             *)
LEMMA SendPageIInv ==
  ASSUME PagingIInv, SendPage
  PROVE  PagingIInv'
<1>1. PagingTypeOK /\ SentInv /\ PageInv
  BY DEF PagingIInv
<1> DEFINE b == i * PageSize
<1>2. /\ UNCHANGED <<list, total, j, page>> /\ pc = "inner" /\ pc' = "outer"
      /\ sent' = Append(sent, page) /\ i' = i + 1
      /\ j = (i + 1) * PageSize \/ j >= total
  BY DEF SendPage
<1>3. /\ b \in Int /\ (i + 1) * PageSize = b + PageSize /\ PageSize \in Nat \ {0}
      /\ ((i + 1) - 1) * PageSize = b /\ i <= b
      /\ total \in Nat /\ j \in Nat /\ i \in Nat /\ j <= total
      /\ page \in Seq(Entries) /\ sent \in Seq(Seq(Entries))
  BY <1>1, LoopNumbers
<1>4. b < total /\ b <= j /\ j <= (i + 1) * PageSize /\ PageIs(page, i + 1, j - b)
  BY <1>1, <1>2 DEF PageInv
<1> HIDE DEF b
<1>5. j - b = PageLen(i + 1)
  <2>1. CASE (i + 1) * PageSize <= total
    BY <2>1, <1>2, <1>3, <1>4 DEF PageLen
  <2>2. CASE ~((i + 1) * PageSize <= total)
    BY <2>2, <1>2, <1>3, <1>4 DEF PageLen
  <2> QED BY <2>1, <2>2
<1>6. /\ sent' \in Seq(Seq(Entries)) /\ Len(sent') = Len(sent) + 1
      /\ \A n \in 1..Len(sent) : sent'[n] = sent[n]
      /\ sent'[Len(sent) + 1] = page
  BY <1>2, <1>3, AppendProperties
<1>7. PagingTypeOK'
  <2>1. i' \in 0..total
    BY <1>2, <1>3, <1>4
  <2> QED BY <2>1, <1>1, <1>2, <1>6 DEF PagingTypeOK, Entries
<1>8. SentInv'
  <2>1. Len(sent) = i /\ \A n \in 1..i : PageIs(sent[n], n, PageLen(n))
    BY <1>1 DEF SentInv
  <2>2. \A n \in 1..(i + 1) : PageIs(sent'[n], n, PageLen(n))
    <3> TAKE n \in 1..(i + 1)
    <3>1. CASE n = i + 1
      BY <3>1, <2>1, <1>4, <1>5, <1>6
    <3>2. CASE n \in 1..i
      BY <3>2, <2>1, <1>6
    <3> QED BY <3>1, <3>2, <1>3
  <2>3. \A p, n : PageIs(p, n, PageLen(n))' <=> PageIs(p', n, PageLen(n))
    BY <1>2 DEF PageIs, PageLen, Split
  <2>4. \A n \in 1..(i + 1) : PageIs(sent[n], n, PageLen(n))'
    BY <2>2, <1>2 DEF PageIs, PageLen, Split
  <2>5. Len(sent') = i' /\ (i' - 1) * PageSize < total'
    BY <2>1, <1>2, <1>3, <1>4, <1>6
  <2> QED BY <2>4, <2>5, <1>2 DEF SentInv
<1>9. PageInv'
  BY <1>2 DEF PageInv
<1> QED BY <1>7, <1>8, <1>9 DEF PagingIInv

(* The loop ends when the messages hold every record.                      *)
LEMMA FinishIInv ==
  ASSUME PagingIInv, Finish
  PROVE  PagingIInv'
<1>1. PagingTypeOK /\ SentInv /\ PageInv
  BY DEF PagingIInv
<1>2. UNCHANGED <<list, total, i, j, page, sent>> /\ pc' = "done" /\ i >= Pages(total)
  BY DEF Finish
<1>3. total <= i * PageSize
  <2> DEFINE b == i * PageSize
             q == Pages(total)
  <2>1. /\ i \in Nat /\ total \in Nat /\ b \in Int /\ (i < q <=> b < total)
    BY <1>1, LoopNumbers
  <2>2. q \in Nat
    <3> DEFINE a == total + PageSize - 1
    <3>1. PageSize \in Nat \ {0} /\ a \in Nat
      BY <2>1, PagingAssumption DEF PagingAssumption
    <3> HIDE DEF a
    <3>2. a \div PageSize \in Nat
      BY <3>1
    <3> QED BY <3>2 DEF Pages, a
  <2> HIDE DEF b, q
  <2>3. total <= b
    BY <1>2, <2>1, <2>2 DEF q
  <2> QED BY <2>3 DEF b
<1>4. PagingTypeOK'
  BY <1>1, <1>2 DEF PagingTypeOK, Entries
<1>5. SentInv'
  BY <1>1, <1>2, SentKept
<1>6. PageInv'
  BY <1>2, <1>3 DEF PageInv
<1> QED BY <1>4, <1>5, <1>6 DEF PagingIInv

(* Every step keeps the invariant.                                         *)
LEMMA PagingNextIInv ==
  ASSUME PagingIInv, [PagingNext]_pagingVars
  PROVE  PagingIInv'
<1>1. CASE BeginPage
  BY <1>1, BeginPageIInv
<1>2. CASE PutRecord
  BY <1>2, PutRecordIInv
<1>3. CASE SendPage
  BY <1>3, SendPageIInv
<1>4. CASE Finish
  BY <1>4, FinishIInv
<1>5. CASE UNCHANGED pagingVars
  <2>1. UNCHANGED <<list, total, i, j, page, sent, pc>>
    BY <1>5 DEF pagingVars
  <2>2. PagingTypeOK /\ SentInv /\ PageInv
    BY DEF PagingIInv
  <2>3. PagingTypeOK'
    BY <2>1, <2>2 DEF PagingTypeOK, Entries
  <2>4. SentInv'
    BY <2>1, <2>2, SentKept
  <2>5. PageInv'
    BY <2>1, <2>2 DEF PageInv, PageIs, Split
  <2> QED BY <2>3, <2>4, <2>5 DEF PagingIInv
<1> QED BY <1>1, <1>2, <1>3, <1>4, <1>5 DEF PagingNext

(* The invariant holds of every list that is cut into messages.            *)
LEMMA PagingAlwaysIInv == PagingSpec => []PagingIInv
BY PagingInitIInv, PagingNextIInv, PTL DEF PagingSpec

(* A message begins before the end of the list, is full when another       *)
(* follows, and is never empty.                                            *)
LEMMA SentPages ==
  ASSUME PagingIInv, NEW n \in 1..Len(sent)
  PROVE  /\ n \in Nat /\ n <= i /\ i = Len(sent) /\ total \in Nat
         /\ (n - 1) * PageSize < total
         /\ PageIs(sent[n], n, PageLen(n))
         /\ PageLen(n) \in 1..PageSize
         /\ n < i => n * PageSize < total
         /\ n < i => PageLen(n) = PageSize
<1>1. PagingTypeOK /\ SentInv
  BY DEF PagingIInv
<1>2. /\ Len(sent) = i /\ i \in Nat /\ total \in Nat
      /\ i > 0 => (i - 1) * PageSize < total
      /\ \A m \in 1..i : PageIs(sent[m], m, PageLen(m))
  BY <1>1, LoopNumbers DEF SentInv
<1>3. n \in Nat /\ 1 <= n /\ n <= i
  BY <1>2
<1> DEFINE c == n * PageSize
           d == (n - 1) * PageSize
           l == (i - 1) * PageSize
<1>4. PageSize \in Nat \ {0} /\ c \in Int /\ d = c - PageSize
  BY <1>3, Multiples
<1>5. l \in Int /\ (n < i => c <= l)
  <2>1. i - 1 \in Int /\ n \in Int
    BY <1>2, <1>3
  <2>2. l \in Int
    BY <2>1, Multiples
  <2>3. n - 1 < i - 1 => d + PageSize <= l
    BY <2>1, <1>2, <1>3, LaterMessages
  <2> HIDE DEF c, d, l
  <2> QED BY <2>2, <2>3, <1>2, <1>3, <1>4
<1>6. l < total /\ (n = i => d = l)
  BY <1>2, <1>3
<1> HIDE DEF c, d, l
<1>7. d < total /\ (n < i => c < total)
  BY <1>2, <1>3, <1>4, <1>5, <1>6
<1>8. PageLen(n) = IF c <= total THEN PageSize ELSE total - d
  BY DEF PageLen, c, d
<1>9. PageLen(n) \in 1..PageSize /\ (n < i => PageLen(n) = PageSize)
  BY <1>2, <1>4, <1>7, <1>8
<1> QED BY <1>2, <1>3, <1>7, <1>9 DEF c, d

(* As Paging!PagesHoldAll states: however many records MT4 returns and     *)
(* however many go into a message, every record is sent once and in order, *)
(* no message is empty and none but the last is short.                     *)
THEOREM EveryRecordIsSent == PagingSpec => []PagesHoldAll
<1>1. ASSUME PagingIInv PROVE PagesHoldAll
  <2> USE <1>1
  <2>1. ASSUME NEW n \in 1..Len(sent)
        PROVE  /\ Len(sent[n]) \in 1..PageSize
               /\ n < Len(sent) => Len(sent[n]) = PageSize
    BY SentPages DEF PageIs
  <2>2. ASSUME NEW n \in 1..Len(sent), NEW k \in 1..Len(sent[n])
        PROVE  /\ sent[n][k].rec = (n - 1) * PageSize + k - 1
               /\ k < Len(sent[n]) => sent[n][k].split
    <3> DEFINE d == (n - 1) * PageSize
    <3>1. /\ n \in Nat /\ Len(sent[n]) = PageLen(n) /\ PageLen(n) \in 1..PageSize
          /\ sent[n][k].rec = d + k - 1 /\ (sent[n][k].split <=> Split(n, k))
          /\ total \in Nat
      BY SentPages DEF PageIs
    <3>2. n * PageSize = d + PageSize /\ d \in Int /\ PageSize \in Nat
      BY <3>1, Multiples
    <3>3. k \in Nat /\ k <= PageLen(n)
      BY <3>1
    <3> HIDE DEF d
    <3>4. PageLen(n) = IF d + PageSize <= total THEN PageSize ELSE total - d
      BY <3>2 DEF PageLen, d
    <3>5. Split(n, k) = IF list = "trades" THEN k < PageSize ELSE d + k < total
      BY DEF Split, d
    <3>6. k < PageLen(n) => k < PageSize /\ d + k < total
      BY <3>1, <3>2, <3>3, <3>4
    <3>7. k < PageLen(n) => Split(n, k)
      BY <3>5, <3>6
    <3> QED BY <3>1, <3>7 DEF d
  <2>3. ASSUME pc = "done", NEW r \in 0..(total - 1)
        PROVE  r \div PageSize + 1 <= Len(sent)
               /\ r % PageSize < Len(sent[r \div PageSize + 1])
    <3> DEFINE q == r \div PageSize
               m == r % PageSize
               b == q * PageSize
               e == i * PageSize
    <3>1. /\ Len(sent) = i /\ i \in Nat /\ total \in Nat /\ PageSize \in Nat \ {0}
          /\ total <= e /\ e \in Int
      BY <2>3, LoopNumbers DEF PagingIInv, SentInv, PageInv
    <3>2. r \in Nat /\ r < total
      BY <3>1
    <3>3. q \in Nat /\ b <= r /\ b \in Int
      <4>1. \A x \in Nat : x \div PageSize \in Nat /\ (x \div PageSize) * PageSize <= x
        BY <3>1
      <4>2. q \in Nat /\ b <= r
        BY <3>2, <4>1
      <4> HIDE DEF q
      <4> QED BY <4>2, Multiples
    <3>4. m \in 0..(PageSize - 1) /\ m = r - b
      <4>1. \A x \in Nat : x % PageSize \in 0..(PageSize - 1)
        BY <3>1
      <4>2. \A x \in Nat : x % PageSize = x - PageSize * (x \div PageSize)
        BY <3>1
      <4>3. PageSize * (r \div PageSize) = (r \div PageSize) * PageSize
        BY <3>3, <3>1
      <4> QED BY <3>2, <4>1, <4>2, <4>3
    <3> HIDE DEF m
    <3>5. q < i
      <4>1. q >= i => e <= b
        <5> HIDE DEF q
        <5> QED BY <3>1, <3>3
      <4> HIDE DEF q, b, e
      <4> QED BY <4>1, <3>1, <3>2, <3>3
    <3>6. q + 1 \in 1..Len(sent)
      <4> HIDE DEF q
      <4> QED BY <3>1, <3>3, <3>5
    <3>7. Len(sent[q + 1]) = PageLen(q + 1)
      BY <3>6, SentPages DEF PageIs
    <3>8. m < PageLen(q + 1)
      <4>1. (q + 1) * PageSize = b + PageSize /\ ((q + 1) - 1) * PageSize = b
        <5> HIDE DEF q
        <5>1. (q + 1) - 1 = q
          BY <3>3
        <5> QED BY <5>1, <3>3, Multiples
      <4> HIDE DEF q, b
      <4>2. PageLen(q + 1) = IF b + PageSize <= total THEN PageSize ELSE total - b
        BY <4>1 DEF PageLen
      <4> QED BY <4>2, <3>1, <3>2, <3>3, <3>4
    <3> HIDE DEF q
    <3>9. q + 1 <= Len(sent) /\ m < Len(sent[q + 1])
      BY <3>1, <3>3, <3>5, <3>7, <3>8
    <3> QED BY <3>9 DEF q, m
  <2> QED BY <2>1, <2>2, <2>3 DEF PagesHoldAll
<1> QED BY <1>1, PagingAlwaysIInv, PTL

(* As Paging!LastSplitTells states: in the history and the users the last  *)
(* Split_Record of a message tells whether more follow; in the trades it   *)
(* tells only that the message is not full.                                *)
THEOREM LastSplitIsTold == PagingSpec => []LastSplitTells
<1>1. ASSUME PagingIInv PROVE LastSplitTells
  <2> USE <1>1
  <2>1. ASSUME NEW n \in 1..Len(sent)
        PROVE  sent[n][Len(sent[n])].split <=>
                 IF list = "trades" THEN Len(sent[n]) < PageSize ELSE n < Pages(total)
    <3> DEFINE d == (n - 1) * PageSize
               len == PageLen(n)
    <3>1. /\ n \in Nat /\ total \in Nat /\ d < total
          /\ Len(sent[n]) = len /\ len \in 1..PageSize
          /\ PageIs(sent[n], n, len)
      BY SentPages DEF PageIs
    <3>2. n * PageSize = d + PageSize /\ d \in Int /\ PageSize \in Nat
      BY <3>1, Multiples
    <3>3. len \in 1..len
      <4> HIDE DEF len
      <4> QED BY <3>1, <3>2
    <3>4. sent[n][len].split <=> Split(n, len)
      <4> HIDE DEF len
      <4> QED BY <3>1, <3>3 DEF PageIs
    <3>5. n < Pages(total) <=> n * PageSize < total
      BY <3>1, PagesRoundUp
    <3>6. len = IF n * PageSize <= total THEN PageSize ELSE total - d
      BY DEF PageLen
    <3> HIDE DEF d, len
    <3>7. d + len < total <=> n < Pages(total)
      BY <3>1, <3>2, <3>5, <3>6
    <3>8. Split(n, len) = IF list = "trades" THEN len < PageSize ELSE d + len < total
      BY DEF Split, d
    <3> QED BY <3>1, <3>4, <3>7, <3>8
  <2> QED BY <2>1 DEF LastSplitTells
<1> QED BY <1>1, PagingAlwaysIInv, PTL
=============================================================================
