------------------------------- MODULE Paging -------------------------------
(***************************************************************************)
(* How the callbacks of LogicSyc cut a list into replies: GetTrades,       *)
(* GetHistoryTrades and GetUsersInfo send total records, ten to a message. *)
(*                                                                         *)
(* A message is its records, each with or without Split_Record behind it;  *)
(* the status in front of them always has one.  A record is its number.    *)
(***************************************************************************)
EXTENDS Naturals, Sequences

CONSTANTS
  PageSize,   \* records per message, 10 in the code
  MaxTotal    \* bound: records in a list

ASSUME PagingAssumption == PageSize \in Nat \ {0} /\ MaxTotal \in Nat

Lists == {"trades", "history", "users"}

VARIABLES
  list,    \* which of the three callbacks runs
  total,   \* records MT4 has returned
  i,       \* the outer loop: messages sent so far
  j,       \* the inner loop: the next record
  page,    \* the message being put together
  sent,    \* the messages sent
  pc       \* "outer", "inner" or "done"

pagingVars == <<list, total, i, j, page, sent, pc>>

Entries == [rec : 0..(total - 1), split : BOOLEAN]

PagingTypeOK ==
  /\ list \in Lists /\ total \in 0..MaxTotal
  /\ i \in 0..total /\ j \in 0..total
  /\ page \in Seq(Entries)
  /\ sent \in Seq(Seq(Entries))
  /\ pc \in {"outer", "inner", "done"}

PagingInit ==
  /\ list \in Lists /\ total \in 0..MaxTotal
  /\ i = 0 /\ j = 0
  /\ page = <<>> /\ sent = <<>>
  /\ pc = "outer"

(* Mutant: the division is not rounded up.                                 *)
FullPages(n) == n \div PageSize

(* std::ceil(static_cast<double>(total) / 10)                              *)
Pages(n) == (n + PageSize - 1) \div PageSize

(* Mutant: no list looks at the end of the whole list.                     *)
SplitWithinPage(r) == r < (i + 1) * PageSize - 1

(* Whether Split_Record follows record r: GetTrades looks at the end of    *)
(* the message, the other two at the end of the list.                      *)
SplitAfter(r) ==
  IF list = "trades" THEN r < (i + 1) * PageSize - 1 ELSE r < total - 1

BeginPage ==
  /\ pc = "outer" /\ i < Pages(total)
  /\ page' = <<>>
  /\ j' = i * PageSize
  /\ pc' = "inner"
  /\ UNCHANGED <<list, total, i, sent>>

PutRecord ==
  /\ pc = "inner" /\ j < (i + 1) * PageSize /\ j < total
  /\ page' = Append(page, [rec |-> j, split |-> SplitAfter(j)])
  /\ j' = j + 1
  /\ UNCHANGED <<list, total, i, sent, pc>>

(* session->Send                                                           *)
SendPage ==
  /\ pc = "inner" /\ (j = (i + 1) * PageSize \/ j >= total)
  /\ sent' = Append(sent, page)
  /\ i' = i + 1
  /\ pc' = "outer"
  /\ UNCHANGED <<list, total, j, page>>

Finish ==
  /\ pc = "outer" /\ i >= Pages(total)
  /\ pc' = "done"
  /\ UNCHANGED <<list, total, i, j, page, sent>>

PagingNext == BeginPage \/ PutRecord \/ SendPage \/ Finish

PagingSpec == PagingInit /\ [][PagingNext]_pagingVars

-----------------------------------------------------------------------------
(* Properties                                                              *)

(* Whatever the total, a client that splits the messages at Split_Record   *)
(* finds every record once and in order, ten in each message but the last, *)
(* and no message empty: record r is the one at r % PageSize of message    *)
(* r \div PageSize, and all but the last of a message are split off.       *)
PagesHoldAll ==
  /\ \A n \in 1..Len(sent) :
       /\ Len(sent[n]) \in 1..PageSize
       /\ n < Len(sent) => Len(sent[n]) = PageSize
       /\ \A k \in 1..Len(sent[n]) :
            /\ sent[n][k].rec = (n - 1) * PageSize + k - 1
            /\ k < Len(sent[n]) => sent[n][k].split
  /\ pc = "done" =>
       \A r \in 0..(total - 1) :
         LET n == r \div PageSize + 1 IN n <= Len(sent) /\ r % PageSize < Len(sent[n])

(* The history and the users tell the end of the reply: the last record of *)
(* a message is followed by Split_Record exactly when there are more       *)
(* messages.  The trades do not: there it says that the message is not     *)
(* full.                                                                   *)
LastSplitTells ==
  \A n \in 1..Len(sent) :
    sent[n][Len(sent[n])].split <=>
      IF list = "trades" THEN Len(sent[n]) < PageSize ELSE n < Pages(total)
=============================================================================
