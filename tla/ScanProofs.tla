----------------------------- MODULE ScanProofs -----------------------------
(***************************************************************************)
(* Proofs about ScanSession, for every size of result, block, vector and   *)
(* poll limit, and for every choice of undecodable rows.                   *)
(***************************************************************************)
EXTENDS ScanSession, SequenceTheorems, TLAPS

-----------------------------------------------------------------------------
(***************************************************************************)
(* Lemmas.                                                                 *)
(***************************************************************************)

\* The sizes, and the rows that may be bad.
LEMMA Sizes ==
    /\ NRows \in Nat /\ MaxFetches \in Nat
    /\ BatchSize \in Nat /\ VectorSize \in Nat /\ MaxPolls \in Nat
    /\ BatchSize > 0 /\ VectorSize > 0 /\ MaxPolls > 0
    /\ BadRowSets \subseteq SUBSET (1..NRows)
BY ScanAssumption DEF ScanAssumption

\* Where an ignored reply leads: along the login, or along the clean-up.
LEMMA AfterLemma ==
    /\ \A p \in LoginPcs : After[p] \in LoginPcs \cup {"Prepare"}
    /\ \A p \in CleanupPcs : After[p] \in {"ResetStatement", "RemoveTables", "Hangup"}
BY DEF After, LoginPcs, CleanupPcs

Kinds == LoginPcs \cup CleanupPcs \cup BlobPcs \cup
             {"Prepare", "Execute", "Receive", "SetToBegin", "ReadFirst", "ReadNext"}

\* What the types say of the log and of the server's place in it.
LEMMA LogLemma ==
    ASSUME TypeOK
    PROVE  /\ log \in Seq(Kinds) /\ Len(log) \in Nat
           /\ handled \in Nat /\ handled <= Len(log)
           /\ replies \in Seq(Replies) /\ Len(replies) \in Nat
BY LenProperties DEF TypeOK, Kinds

\* Writing a request appends its kind, and can only discard replies.
LEMMA CallLemma ==
    ASSUME TypeOK, Call
    PROVE  /\ Kind \in Kinds
           /\ log' \in Seq(Kinds)
           /\ Len(log') = Len(log) + 1
           /\ log' # <<>> /\ log'[Len(log')] = Kind
           /\ handled' = handled
           /\ replies' \in Seq(Replies)
           /\ replies' = replies \/ replies' = <<>>
           /\ link' \in {"up", "reset", "torn"}
           /\ link' = "torn" <=> link = "torn"
<1>1. Kind \in Kinds
  BY DEF Call, Kind, CallPcs, Kinds
<1>2. log \in Seq(Kinds) /\ log' = Append(log, Kind)
  BY DEF TypeOK, Call, Send, Kinds
<1>3. Len(log') = Len(log) + 1 /\ log'[Len(log) + 1] = Kind /\ log' \in Seq(Kinds)
  BY <1>1, <1>2, AppendProperties
<1>4. log' # <<>>
  BY <1>2, <1>3, EmptySeq, LenProperties
<1>5. QED
  BY <1>1, <1>2, <1>3, <1>4, EmptySeq DEF TypeOK, Call, Send

\* The log after a call.
LEMMA WrittenLemma ==
    ASSUME TypeOK, Call
    PROVE  /\ Len(log) \in Nat /\ Len(log') = Len(log) + 1
           /\ \A k \in 1..Len(log) : log'[k] = log[k]
           /\ log'[Len(log) + 1] = Kind
<1>1. Kind \in Kinds /\ log \in Seq(Kinds) /\ log' = Append(log, Kind)
  BY CallLemma, LogLemma DEF Call, Send
<1>2. QED
  BY <1>1, AppendProperties, LogLemma

\* Reading a reply takes one from the front.
LEMMA ReceiveLemma ==
    ASSUME TypeOK, Receive
    PROVE  /\ log' = log /\ handled' = handled /\ link' = link /\ link \in {"up", "fin"}
           /\ replies # <<>>
           /\ Answer \in Replies
           /\ replies' \in Seq(Replies)
           /\ Len(replies') = Len(replies) - 1
<1>1. replies \in Seq(Replies) /\ replies # <<>>
  BY DEF TypeOK, Receive
<1>2. QED
  BY <1>1, HeadTailProperties DEF Receive, Answer

\* The last request and its reply are forgotten, or else the log stays.
LEMMA ForgetLemma ==
    ASSUME TypeOK, ReceiveForgetting, log # <<>>
    PROVE  /\ link' = link /\ link \in {"up", "fin"}
           /\ replies # <<>> /\ Answer \in Replies /\ Answer = replies[1]
           /\ replies' \in Seq(Replies) /\ Len(replies') = Len(replies) - 1
           /\ \A j \in 1..Len(replies') : replies'[j] = replies[j + 1]
           /\ \/ log' = log /\ handled' = handled
              \/ Len(replies) = 1 /\ handled = Len(log) /\ handled' = Len(log')
           /\ log' \in Seq(Kinds) /\ Len(log') \in Nat /\ Len(log') <= Len(log)
           /\ \A k \in 1..Len(log') : log'[k] = log[k]
           /\ handled' \in 0..Len(log') /\ handled' <= handled
           /\ Unread' = Unread - 1
           /\ Unread = 1 => handled' = Len(log') /\ replies' = <<>>
<1>1. /\ log \in Seq(Kinds) /\ Len(log) \in Nat /\ Len(log) > 0
      /\ handled \in Nat /\ handled <= Len(log)
      /\ replies \in Seq(Replies) /\ replies # <<>> /\ Len(replies) \in Nat
  BY LogLemma, EmptySeq DEF ReceiveForgetting
<1>2. /\ Answer \in Replies /\ Answer = replies[1]
      /\ replies' \in Seq(Replies) /\ Len(replies') = Len(replies) - 1
      /\ \A j \in 1..Len(replies') : replies'[j] = replies[j + 1]
  BY <1>1, HeadTailProperties DEF ReceiveForgetting, Answer
<1>3. replies' = <<>> <=> Len(replies') = 0
  BY <1>2, EmptySeq
<1>4. CASE Len(replies) = 1 /\ handled = Len(log)
  <2>1. log' = SubSeq(log, 1, Len(log) - 1) /\ handled' = handled - 1
    BY <1>4 DEF ReceiveForgetting
  <2>2. \A k \in 1..(Len(log) - 1) : log[k] \in Kinds
    BY <1>1, ElementOfSeq
  <2>3. /\ log' \in Seq(Kinds)
        /\ Len(log') = IF 1 <= Len(log) - 1 THEN (Len(log) - 1) - 1 + 1 ELSE 0
        /\ \A k \in 1..((Len(log) - 1) - 1 + 1) : log'[k] = log[1 + k - 1]
    <3>1. 1 \in Int /\ Len(log) - 1 \in Int
      BY <1>1
    <3>2. QED
      BY <2>1, <2>2, <3>1, SubSeqProperties
  <2>4. Len(log') = Len(log) - 1 /\ \A k \in 1..Len(log') : log'[k] = log[k]
    <3>1. Len(log') = Len(log) - 1
      <4>1. \A n \in Nat : n > 0 => (IF 1 <= n - 1 THEN (n - 1) - 1 + 1 ELSE 0) = n - 1
        OBVIOUS
      <4>2. QED
        BY <1>1, <2>3, <4>1
    <3>2. \A k \in 1..Len(log') : k \in 1..((Len(log) - 1) - 1 + 1) /\ 1 + k - 1 = k
      BY <1>1, <3>1
    <3>3. ASSUME NEW k \in 1..Len(log') PROVE log'[k] = log[k]
      <4>1. log'[k] = log[1 + k - 1] /\ 1 + k - 1 = k
        BY <2>3, <3>2
      <4>2. QED
        BY <4>1
    <3>4. QED
      BY <3>1, <3>3
  <2>5. QED
    BY <1>1, <1>2, <1>3, <1>4, <2>1, <2>3, <2>4 DEF ReceiveForgetting, Unread
<1>5. CASE ~(Len(replies) = 1 /\ handled = Len(log))
  <2>1. log' = log /\ handled' = handled
    BY <1>5 DEF ReceiveForgetting
  <2>2. Unread # 1
    BY <1>1, <1>2, <1>3, <1>5 DEF Unread
  <2>3. QED
    BY <1>1, <1>2, <2>1, <2>2 DEF ReceiveForgetting, Unread
<1>6. QED
  BY <1>4, <1>5

\* A sequence is empty just when its length is zero.
LEMMA EmptyLemma ==
    ASSUME NEW S, NEW s \in Seq(S)
    PROVE  s = <<>> <=> Len(s) = 0
BY EmptySeq

-----------------------------------------------------------------------------
THEOREM InitInv == Init => ScanInv
<1> SUFFICES ASSUME Init PROVE ScanInv
  OBVIOUS
<1> USE DEF Init, NetInit
<1>1. TypeOK
  <2>1. opts \in [lenient : BOOLEAN, sigpipe : BOOLEAN, bad : SUBSET (1..NRows)]
    BY Sizes
  <2>2. 0 \in 0..MaxPolls /\ 0 \in 0..NRows /\ 0 \in 0..MaxFetches
    BY Sizes
  <2>3. Len(<<>>) = 0 /\ \A S : <<>> \in Seq(S)
    BY EmptySeq
  <2>4. log \in Seq(Kinds) /\ replies \in Seq(Replies) /\ batch \in Seq(0..NRows) /\ emitted \in Seq(0..NRows)
    BY <2>3
  <2>5. handled \in 0..Len(log) /\ offset \in 0..Len(batch)
    BY <2>3
  <2>6. pc \in CallPcs /\ outcome \in Outcomes
    BY DEF CallPcs, LoginPcs, Outcomes
  <2>7. QED
    BY <2>1, <2>2, <2>4, <2>5, <2>6 DEF TypeOK, Kinds
<1>2. ControlInv
  BY DEF ControlInv, RunningPcs, OpeningPcs, LoginPcs, CallPcs, BlobPcs
<1>3. InSync /\ LostInv
  BY EmptySeq DEF InSync, Unread, LostInv
<1>4. BatchInv /\ ReplyInv
  BY Sizes, EmptySeq DEF BatchInv, BatchBase, ReplyInv
<1>5. RowsInOrder /\ CompleteWhenDone
  BY Sizes, EmptySeq DEF RowsInOrder, CompleteWhenDone
<1>6. QED
  BY <1>1, <1>2, <1>3, <1>4, <1>5 DEF ScanInv

\* A step that leaves the batch, the history and the outcome alone keeps the
\* properties of what has been emitted.
LEMMA KeepsEmitted ==
    ASSUME ScanInv, UNCHANGED <<opts, emitted>>, outcome' = "done" => outcome = "done", lost => lost'
    PROVE  RowsInOrder' /\ CompleteWhenDone'
BY DEF ScanInv, RowsInOrder, CompleteWhenDone, WentPast, Cell

\* A live scan that has lost step is at its blocks, its blobs or its vectors.
LEMMA LostLemma ==
    ASSUME ScanInv, lost, outcome = "running"
    PROVE  opts.lenient /\ ~first /\ pc \in {"Read", "Idle", "Emit"} \cup BlobPcs
BY DEF ScanInv, LostInv, ControlInv, RunningPcs

-----------------------------------------------------------------------------
\* A request of a scan that has lost step leaves the older replies to come.
LEMMA CallLost ==
    ASSUME ScanInv, Call
    PROVE  LostInv'
<1> USE DEF ScanInv
<1>1. UNCHANGED <<opts, pc, first, outcome, lost>> /\ ~waiting /\ waiting' /\ link # "reset"
  BY DEF Call, Send, dataVars
<1> SUFFICES ASSUME outcome = "running", lost
             PROVE  /\ \A k \in (handled' + 1)..Len(log') :
                          (Reading' => k < Len(log')) => log'[k] \in BlobPcs
                    /\ link' # "reset" =>
                          /\ Unread' > 1
                          /\ \A j \in 1..Len(replies') : Stray(replies'[j])
  BY <1>1 DEF LostInv
<1>2. pc \in {"Read"} \cup BlobPcs
  BY LostLemma DEF Call, CallPcs, LoginPcs, CleanupPcs, BlobPcs
<1>3. /\ \A k \in (handled + 1)..Len(log) : log[k] \in BlobPcs
      /\ Unread > 0 /\ \A j \in 1..Len(replies) : Stray(replies[j])
  BY <1>1 DEF LostInv, Reading
<1>4. ASSUME NEW k \in (handled' + 1)..Len(log'), Reading' => k < Len(log')
      PROVE  log'[k] \in BlobPcs
  <2>1. CASE k = Len(log) + 1
    <3>1. pc # "Read"
      BY <1>1, <1>4, <2>1, WrittenLemma DEF Reading
    <3>2. QED
      BY <1>2, <2>1, <3>1, WrittenLemma DEF Kind
  <2>2. CASE k # Len(log) + 1
    <3>1. k \in 1..Len(log) /\ k \in (handled + 1)..Len(log)
      BY <1>4, <2>2, WrittenLemma, LogLemma DEF Call, Send
    <3>2. QED
      BY <1>3, <3>1, WrittenLemma
  <2>3. QED
    BY <2>1, <2>2
<1>5. ASSUME link' # "reset"
      PROVE  Unread' > 1 /\ \A j \in 1..Len(replies') : Stray(replies'[j])
  <2>1. replies' = replies /\ handled' = handled
    BY <1>1, <1>5 DEF Call, Send
  <2>2. Unread' = Unread + 1
    <3>1. /\ Len(log') = Len(log) + 1 /\ Len(log) \in Nat /\ handled \in Nat
          /\ Len(replies') = Len(replies) /\ Len(replies) \in Nat
      BY <2>1, WrittenLemma, LogLemma
    <3>2. QED
      BY <2>1, <3>1 DEF Unread
  <2>3. Unread \in Nat
    BY LogLemma DEF Unread
  <2>4. QED
    BY <1>3, <2>1, <2>2, <2>3
<1>6. QED
  BY <1>4, <1>5

LEMMA CallInv ==
    ASSUME ScanInv, Call
    PROVE  ScanInv'
<1> USE DEF ScanInv
<1>1. TypeOK'
  <2>1. handled' \in 0..Len(log')
    BY CallLemma, LenProperties DEF TypeOK
  <2>2. QED
    BY <2>1, CallLemma DEF Call, Send, TypeOK, Kinds, clientVars, dataVars, srvVars
<1>2. InSync'
  BY CallLemma, EmptyLemma, EmptySeq DEF Call, InSync, WentPast, Unread, TypeOK, dataVars
<1>3. ControlInv'
  <2>1. Kind' = Kind
    BY DEF Call, Kind
  <2>2. QED
    BY <2>1, CallLemma DEF Call, ControlInv, dataVars
<1>4. BatchInv'
  <2>1. outcome = "running" /\ ~lost => replies = <<>>
    <3>1. outcome = "running" /\ ~lost => Len(log) - handled + Len(replies) = 0
      BY DEF Call, InSync, WentPast, Unread
    <3>2. QED
      BY <3>1, LogLemma, EmptyLemma
  <2>2. QED
    BY <2>1, CallLemma DEF Call, BatchInv, BatchBase, Cell, dataVars, srvVars
<1>5. ReplyInv'
  BY CallLemma DEF Call, ReplyInv, Stray, EndsCursor, dataVars, srvVars
<1>6. RowsInOrder' /\ CompleteWhenDone'
  BY KeepsEmitted DEF Call, dataVars
<1>7. LostInv'
  BY CallLost
<1>8. QED
  BY <1>1, <1>2, <1>3, <1>4, <1>5, <1>6, <1>7

-----------------------------------------------------------------------------
\* A step that ends the scan, or that happens after its end, has only the
\* types and what was emitted to preserve.
LEMMA EndedInv ==
    ASSUME ScanInv, TypeOK', UNCHANGED <<opts, emitted>>,
           outcome' # "running", pc' \notin RunningPcs,
           waiting' => pc' \in CallPcs, lost' = lost,
           outcome' = "done" => outcome = "done" \/ Len(emitted) = NRows \/ lost
    PROVE  ScanInv'
<1>1. InSync' /\ BatchInv' /\ ReplyInv' /\ LostInv'
  BY DEF ScanInv, InSync, BatchInv, ReplyInv, LostInv
<1>2. ControlInv'
  BY DEF ControlInv, RunningPcs, OpeningPcs
<1>3. RowsInOrder' /\ CompleteWhenDone'
  BY DEF ScanInv, RowsInOrder, CompleteWhenDone, WentPast, LostInv, Cell
<1>4. QED
  BY <1>1, <1>2, <1>3 DEF ScanInv

\* How the network is when a send or a receive throws, and how it is left.
Fault ==
    /\ UNCHANGED <<log, handled, replies>>
    /\ link' \in {"up", "fin", "reset", "torn"}
    /\ link' = "reset" <=> link = "reset"
    /\ link # "reset" => waiting /\ (link = "torn" \/ replies = <<>>)

LEMMA FaultLemma ==
    ASSUME ScanInv, CallThrows \/ AnswerThrows
    PROVE  Fault /\ Throws /\ pc \in CallPcs
BY DEF CallThrows, AnswerThrows, SendBroken, ReceiveFails, Fault, netVars, ScanInv, ControlInv

\* The next blob request, or the first vector of a batch that has them all.
LEMMA NextFetchLemma ==
    ASSUME ScanInv, NextFetch, pc = "Fetch"
    PROVE  /\ fetches' \in 0..MaxFetches
           /\ pc' \in {"Emit"} \cup BlobPcs
           /\ pc' \in BlobPcs => fetches' > 0
           /\ outcome = "running" /\ ~first
<1>1. fetches \in Nat /\ fetches <= MaxFetches /\ fetches > 0 /\ outcome = "running" /\ ~first
  BY Sizes DEF ScanInv, TypeOK, ControlInv, RunningPcs, BlobPcs
<1>2. QED
  BY <1>1, Sizes DEF NextFetch, BlobPcs

\* A lenient scan goes past a blob request whose reply has not come.
LEMMA GoesPastInv ==
    ASSUME ScanInv, Fault, pc = "Fetch", opts.lenient, NextFetch, lost' = TRUE, ~waiting', waiting' \in BOOLEAN,
           UNCHANGED <<opts, polls, opened, first, exhausted, batch, offset, emitted, outcome, srvVars>>
    PROVE  ScanInv'
<1> USE DEF ScanInv
<1>0. /\ fetches' \in 0..MaxFetches /\ pc' \in {"Emit"} \cup BlobPcs
      /\ pc' \in BlobPcs => fetches' > 0
      /\ outcome = "running" /\ ~first
  BY NextFetchLemma
<1>1. TypeOK'
  BY <1>0 DEF Fault, TypeOK, srvVars, CallPcs, RestPcs
<1>2. InSync' /\ ReplyInv'
  BY DEF InSync, WentPast, ReplyInv
<1>3. ControlInv'
  BY <1>0 DEF ControlInv, RunningPcs, OpeningPcs, LoginPcs, BlobPcs
<1>4. BatchInv'
  BY <1>0 DEF BatchInv, BatchBase, Cell, BlobPcs
<1>5. LostInv'
  <2>1. \A k \in (handled + 1)..Len(log) : log[k] \in BlobPcs
    <3>1. CASE lost
      BY <1>0, <3>1 DEF LostInv, Reading
    <3>2. CASE ~lost
      <4>1. Len(log) - handled + Len(replies) = IF waiting THEN 1 ELSE 0
        BY <1>0, <3>2 DEF InSync, WentPast, Unread
      <4>2. \A k \in (handled + 1)..Len(log) : k = Len(log) /\ waiting
        BY <4>1, LogLemma
      <4>3. waiting => log[Len(log)] = "Fetch"
        BY <1>0 DEF ControlInv, Kind
      <4>4. QED
        BY <4>2, <4>3 DEF BlobPcs
    <3>3. QED
      BY <3>1, <3>2
  <2>2. ASSUME link # "reset"
        PROVE  Unread > 0 /\ \A j \in 1..Len(replies) : Stray(replies[j])
    <3>0. waiting
      BY <2>2 DEF Fault
    <3>1. CASE lost
      <4>1. Unread > 1 /\ \A j \in 1..Len(replies) : Stray(replies[j])
        BY <1>0, <2>2, <3>0, <3>1 DEF LostInv, Reading
      <4>2. Unread \in Nat
        BY LogLemma DEF Unread
      <4>3. QED
        BY <4>1, <4>2
    <3>2. CASE ~lost
      <4>1. Unread = 1 /\ link # "torn"
        BY <1>0, <3>0, <3>2 DEF InSync, WentPast, ControlInv
      <4>2. Len(replies) = 0
        BY <2>2, <4>1, EmptySeq DEF Fault
      <4>3. QED
        BY <4>1, <4>2
    <3>3. QED
      BY <3>1, <3>2
  <2>3. Unread' = Unread /\ UNCHANGED <<log, handled, replies>> /\ (link' = "reset" <=> link = "reset")
    BY DEF Fault, Unread
  <2>4. ~Reading'
    BY <1>0 DEF Reading
  <2>5. QED
    BY <1>0, <2>1, <2>2, <2>3, <2>4 DEF LostInv
<1>6. RowsInOrder' /\ CompleteWhenDone'
  BY KeepsEmitted
<1>7. QED
  BY <1>1, <1>2, <1>3, <1>4, <1>5, <1>6

\* An exception: swallowed during clean-up, and by a lenient scan that asked
\* for a blob; the end of a scan elsewhere.
LEMMA ThrowsInv ==
    ASSUME ScanInv, Throws, pc \in CallPcs, Fault
    PROVE  ScanInv'
<1> USE DEF ScanInv
<1>0. /\ ~waiting' /\ waiting' \in BOOLEAN
      /\ UNCHANGED <<opts, polls, opened, first, exhausted, batch, offset, emitted, srvVars>>
  BY DEF Throws
<1>1. CASE pc \in CleanupPcs /\ pc' = After[pc] /\ UNCHANGED <<outcome, fetches, lost>>
  <2>1. pc' \in CallPcs \cup RestPcs /\ pc' \notin RunningPcs
    BY <1>1, AfterLemma DEF CallPcs, RestPcs, RunningPcs, OpeningPcs, LoginPcs, CleanupPcs, BlobPcs
  <2>2. outcome' # "running"
    BY <1>1 DEF ControlInv, RunningPcs, OpeningPcs, LoginPcs, CleanupPcs, BlobPcs
  <2>3. TypeOK'
    BY <1>0, <1>1, <2>1 DEF Fault, TypeOK, srvVars
  <2>4. QED
    BY <1>0, <1>1, <2>1, <2>2, <2>3, EndedInv
<1>2. CASE pc = "Fetch" /\ opts.lenient /\ NextFetch /\ lost' = TRUE /\ UNCHANGED outcome
  BY <1>0, <1>2, GoesPastInv
<1>3. CASE Teardown("failed") /\ UNCHANGED <<fetches, lost>>
  <2>1. pc' \in CallPcs \cup RestPcs /\ pc' \notin RunningPcs /\ outcome' = "failed"
    BY <1>3 DEF CallPcs, RestPcs, RunningPcs, OpeningPcs, LoginPcs, CleanupPcs, BlobPcs, Teardown
  <2>2. TypeOK'
    BY <1>0, <1>3, <2>1 DEF Fault, TypeOK, srvVars, Outcomes
  <2>3. QED
    BY <1>0, <1>3, <2>1, <2>2, EndedInv
<1>4. QED
  BY <1>1, <1>2, <1>3 DEF Throws

LEMMA CallThrowsInv ==
    ASSUME ScanInv, CallThrows
    PROVE  ScanInv'
BY FaultLemma, ThrowsInv

LEMMA AnswerThrowsInv ==
    ASSUME ScanInv, AnswerThrows
    PROVE  ScanInv'
BY FaultLemma, ThrowsInv

LEMMA CallKillsInv ==
    ASSUME ScanInv, CallKills
    PROVE  ScanInv'
<1>1. outcome' \in Outcomes /\ outcome' # "running" /\ (outcome' = "done" => outcome = "done")
  BY DEF CallKills, ScanInv, TypeOK, Outcomes
<1>2. TypeOK'
  BY <1>1 DEF CallKills, SendBroken, ScanInv, TypeOK, netVars, srvVars, RestPcs
<1>3. pc' \notin RunningPcs /\ ~waiting'
  BY DEF CallKills, RunningPcs, OpeningPcs, LoginPcs, BlobPcs
<1>4. QED
  BY <1>1, <1>2, <1>3, EndedInv DEF CallKills

-----------------------------------------------------------------------------
\* What any reply that has been read says about the network.
LEMMA ReturnsLemma ==
    ASSUME ScanInv, Returns
    PROVE  /\ outcome = "running" /\ ~lost => replies' = <<>> /\ handled = Len(log) /\ Len(replies) = 1
           /\ log' = log /\ handled' = handled /\ link' = link /\ link \in {"up", "fin"}
           /\ replies' \in Seq(Replies)
           /\ replies # <<>> /\ Answer \in Replies
           /\ Len(replies') = Len(replies) - 1
<1>1. TypeOK /\ Receive /\ waiting
  BY DEF Returns, ScanInv
<1>2. Len(replies) \in Nat /\ Len(log) \in Nat /\ handled \in Nat /\ handled <= Len(log)
  BY <1>1, LenProperties DEF TypeOK
<1>3. Len(replies) # 0
  BY <1>1, ReceiveLemma, EmptyLemma DEF TypeOK
<1>4. outcome = "running" /\ ~lost => Len(replies) = 1 /\ handled = Len(log)
  <2>1. outcome = "running" /\ ~lost => Len(log) - handled + Len(replies) = 1
    BY <1>1 DEF ScanInv, InSync, WentPast, Unread
  <2>2. \A l, h, r \in Nat : h <= l /\ r # 0 /\ l - h + r = 1 => r = 1 /\ h = l
    OBVIOUS
  <2>3. QED
    BY <1>2, <1>3, <2>1, <2>2
<1>5. QED
  BY <1>1, <1>4, ReceiveLemma, EmptyLemma DEF TypeOK

\* Reading the one outstanding reply leaves nothing in the socket.
LEMMA ReturnsInSync ==
    ASSUME ScanInv, Returns, outcome = "running", ~lost, ~waiting'
    PROVE  InSync'
<1>1. Len(log) \in Nat
  BY LenProperties DEF ScanInv, TypeOK
<1>2. Len(log') = Len(log) /\ handled' = Len(log) /\ Len(replies') = 0
  BY ReturnsLemma, EmptySeq
<1>3. QED
  BY <1>1, <1>2 DEF InSync, Unread

LEMMA IgnoredReplyInv ==
    ASSUME ScanInv, IgnoredReply
    PROVE  ScanInv'
<1> USE DEF ScanInv
<1>0. /\ Returns /\ UNCHANGED <<opts, polls, opened, first, exhausted, dataVars, srvVars>>
      /\ ~waiting' /\ waiting' \in BOOLEAN
      /\ pc \in LoginPcs \cup CleanupPcs /\ pc' = After[pc]
  BY DEF IgnoredReply, Returns
<1>1. pc' \in CallPcs \cup RestPcs
  BY <1>0, AfterLemma DEF CallPcs, RestPcs, CleanupPcs
<1>2. TypeOK'
  BY <1>0, <1>1, ReturnsLemma DEF TypeOK, dataVars, srvVars
<1>3. CASE pc \in CleanupPcs
  <2>1. pc' \notin RunningPcs /\ pc \notin RunningPcs
    BY <1>0, <1>3, AfterLemma DEF RunningPcs, OpeningPcs, LoginPcs, CleanupPcs, BlobPcs
  <2>2. QED
    BY <1>0, <1>2, <2>1, EndedInv DEF ControlInv, dataVars
<1>4. CASE pc \in LoginPcs
  <2>1. pc' \in LoginPcs \cup {"Prepare"} /\ pc \in RunningPcs
    BY <1>0, <1>4, AfterLemma DEF RunningPcs, OpeningPcs
  <2>2. first /\ pc' \notin {"Idle", "Emit", "Read"} \cup BlobPcs /\ outcome = "running"
    BY <1>4, <2>1 DEF ControlInv, OpeningPcs, LoginPcs, BlobPcs
  <2>3. ~lost
    BY <2>2, LostLemma
  <2>4. InSync'
    BY <1>0, <2>2, <2>3, ReturnsInSync
  <2>5. ControlInv'
    BY <1>0, <1>4, <2>1, <2>2, <2>3, ReturnsLemma
       DEF ControlInv, RunningPcs, OpeningPcs, LoginPcs, BlobPcs, dataVars
  <2>6. BatchInv' /\ ReplyInv' /\ LostInv'
    BY <1>0, <2>2, <2>3 DEF BatchInv, BatchBase, ReplyInv, LostInv, Cell, dataVars
  <2>7. RowsInOrder' /\ CompleteWhenDone'
    BY <1>0, KeepsEmitted DEF dataVars
  <2>8. QED
    BY <1>2, <2>4, <2>5, <2>6, <2>7
<1>5. QED
  BY <1>0, <1>3, <1>4

\* A reply that takes a scan one step further through its opening: the batch,
\* the history and the server's cursor are as they were.
LEMMA OpeningInv ==
    ASSUME ScanInv, TypeOK', Returns, ~waiting',
           UNCHANGED <<opts, first, exhausted, dataVars>>,
           pc \in OpeningPcs,
           pc' \in OpeningPcs \cup {"Idle"},
           pc' \in LoginPcs \cup {"Prepare", "Execute"} => polls' = 0,
           pc' = "Receive" => polls' < MaxPolls
    PROVE  ScanInv'
<1> USE DEF ScanInv
<1>1. outcome = "running" /\ first /\ ~lost
  BY LostLemma DEF ControlInv, RunningPcs
<1>2. InSync'
  BY <1>1, ReturnsInSync
<1>3. ControlInv'
  BY <1>1, ReturnsLemma DEF ControlInv, RunningPcs, OpeningPcs, LoginPcs, BlobPcs, dataVars
<1>4. BatchInv' /\ ReplyInv' /\ LostInv'
  <2>1. pc' # "Read" /\ first'
    BY <1>1 DEF OpeningPcs, LoginPcs
  <2>2. QED
    BY <1>1, <2>1 DEF BatchInv, BatchBase, ReplyInv, LostInv, Cell, dataVars
<1>5. RowsInOrder' /\ CompleteWhenDone'
  BY KeepsEmitted DEF dataVars
<1>6. QED
  BY <1>2, <1>3, <1>4, <1>5

\* A reply on which the scan fails.
LEMMA FailsInv ==
    ASSUME ScanInv, TypeOK', ~waiting', UNCHANGED <<opts, emitted, lost>>,
           outcome' = "failed", pc' \in {"CloseCursor", "Hangup"}
    PROVE  ScanInv'
BY EndedInv DEF RunningPcs, OpeningPcs, LoginPcs, BlobPcs

LEMMA PrepareReplyInv ==
    ASSUME ScanInv, PrepareReply
    PROVE  ScanInv'
<1> USE DEF ScanInv
<1>0. /\ Returns /\ pc = "Prepare" /\ ~waiting' /\ waiting' \in BOOLEAN
      /\ UNCHANGED <<opts, polls, opened, first, exhausted, batch, offset, emitted, fetches, lost, srvVars>>
      /\ \/ pc' = "Execute" /\ outcome' = outcome
         \/ pc' \in {"CloseCursor", "Hangup"} /\ outcome' = "failed"
  BY DEF PrepareReply, Returns, Teardown
<1>1. pc' \in CallPcs \cup RestPcs /\ outcome' \in Outcomes
  BY <1>0 DEF CallPcs, RestPcs, CleanupPcs, Outcomes, TypeOK
<1>2. TypeOK'
  BY <1>0, <1>1, ReturnsLemma DEF TypeOK, srvVars
<1>3. CASE pc' = "Execute" /\ outcome' = outcome
  BY <1>0, <1>2, <1>3, OpeningInv DEF OpeningPcs, dataVars, ControlInv
<1>4. CASE pc' \in {"CloseCursor", "Hangup"} /\ outcome' = "failed"
  BY <1>0, <1>2, <1>4, FailsInv
<1>5. QED
  BY <1>0, <1>3, <1>4

LEMMA PollReplyInv ==
    ASSUME ScanInv, PollReply
    PROVE  ScanInv'
<1> USE DEF ScanInv
<1>0. /\ Returns /\ pc \in {"Execute", "Receive"} /\ ~waiting' /\ waiting' \in BOOLEAN
      /\ opened' = TRUE
      /\ UNCHANGED <<opts, first, exhausted, batch, offset, emitted, fetches, lost, srvVars>>
      /\ \/ pc' = "SetToBegin" /\ outcome' = outcome /\ polls' = polls
         \/ pc' = "CloseCursor" /\ outcome' = "failed" /\ polls' = polls + 1
         \/ pc' = "Receive" /\ outcome' = outcome /\ polls' = polls + 1 /\ ~(polls + 1 >= MaxPolls)
  BY DEF PollReply, Returns, GivesUp
<1>1. pc' \in CallPcs \cup RestPcs /\ outcome' \in Outcomes
  BY <1>0 DEF CallPcs, RestPcs, CleanupPcs, Outcomes, TypeOK
<1>2. polls < MaxPolls /\ polls \in Nat
  BY <1>0, Sizes DEF ControlInv, TypeOK
<1>3. polls' \in 0..MaxPolls /\ (pc' = "Receive" => polls' < MaxPolls)
  BY <1>0, <1>2, Sizes
<1>4. TypeOK'
  BY <1>0, <1>1, <1>3, ReturnsLemma DEF TypeOK, srvVars
<1>5. CASE pc' \in {"SetToBegin", "Receive"} /\ outcome' = outcome
  BY <1>0, <1>3, <1>4, <1>5, OpeningInv DEF OpeningPcs, LoginPcs, dataVars
<1>6. CASE pc' = "CloseCursor" /\ outcome' = "failed"
  BY <1>0, <1>4, <1>6, FailsInv
<1>7. QED
  BY <1>0, <1>5, <1>6

LEMMA SetToBeginReplyInv ==
    ASSUME ScanInv, SetToBeginReply
    PROVE  ScanInv'
<1> USE DEF ScanInv
<1>0. /\ Returns /\ pc = "SetToBegin" /\ pc' = "Idle" /\ ~waiting' /\ waiting' \in BOOLEAN
      /\ UNCHANGED <<opts, polls, opened, first, exhausted, dataVars, srvVars>>
  BY DEF SetToBeginReply, Returns
<1>1. pc' \in CallPcs \cup RestPcs
  BY <1>0 DEF RestPcs
<1>2. TypeOK'
  BY <1>0, <1>1, ReturnsLemma DEF TypeOK, dataVars, srvVars
<1>3. QED
  BY <1>0, <1>2, OpeningInv DEF OpeningPcs, LoginPcs

-----------------------------------------------------------------------------
\* The batch decoded from a block: one cell per row.
LEMMA DecodeLemma ==
    ASSUME TypeOK, NEW rows \in Seq(1..NRows)
    PROVE  LET b == [i \in DOMAIN rows |-> Cell(rows[i])] IN
           /\ b \in Seq(0..NRows)
           /\ Len(b) = Len(rows)
           /\ \A j \in 1..Len(rows) : b[j] = Cell(rows[j])
<1> DEFINE b == [i \in DOMAIN rows |-> Cell(rows[i])]
<1>1. Len(rows) \in Nat /\ DOMAIN rows = 1..Len(rows)
  BY LenProperties
<1>2. \A i \in 1..Len(rows) : rows[i] \in 1..NRows
  BY <1>1, ElementOfSeq
<1>3. b \in [1..Len(rows) -> 0..NRows]
  BY <1>1, <1>2, Sizes DEF Cell
<1>4. b \in Seq(0..NRows)
  BY <1>1, <1>3, SeqDef
<1>5. Len(b) = Len(rows)
  BY <1>1, <1>3, <1>4, LenProperties
<1>6. QED
  BY <1>1, <1>4, <1>5

\* A block reply that the loop does not take for a failure or for the end: the
\* scan has not lost step, and its rows are the next ones of the result.
LEMMA BlockReplyLemma ==
    ASSUME ScanInv, pc = "Read", ReturnsForgetting, Answer.status # "malformed", ~Stray(Answer)
    PROVE  /\ outcome = "running" /\ ~lost /\ offset = Len(batch) /\ ~exhausted
           /\ Answer \in Replies /\ Answer.rows \in Seq(1..NRows)
           /\ Len(Answer.rows) \in Nat /\ Len(emitted) \in Nat /\ pos \in 0..NRows
           /\ pos = Len(emitted) + Len(Answer.rows)
           /\ \A i \in 1..Len(Answer.rows) : Answer.rows[i] = Len(emitted) + i
           /\ EndsCursor(Answer) => pos = NRows
           /\ log' \in Seq(Kinds) /\ handled' \in 0..Len(log') /\ replies' \in Seq(Replies)
           /\ UNCHANGED link /\ link \in {"up", "fin"}
           /\ Unread' = 0 /\ replies' = <<>>
<1> USE DEF ScanInv
<1>1. outcome = "running" /\ waiting /\ ReceiveForgetting /\ log # <<>>
      /\ offset = Len(batch) /\ ~exhausted
  BY DEF ControlInv, RunningPcs, BatchInv, ReturnsForgetting
<1>2. /\ replies # <<>> /\ Answer \in Replies /\ Answer = replies[1] /\ Len(replies) \in Nat
      /\ link \in {"up", "fin"} /\ link' = link /\ Unread' = Unread - 1
      /\ log' \in Seq(Kinds) /\ handled' \in 0..Len(log') /\ replies' \in Seq(Replies)
      /\ Unread = 1 => replies' = <<>>
  BY <1>1, ForgetLemma, LogLemma
<1>3. ~lost
  <2> SUFFICES ASSUME lost PROVE FALSE
    OBVIOUS
  <2>1. Unread > 1 /\ \A j \in 1..Len(replies) : j < Unread => Stray(replies[j])
    BY <1>1, <1>2 DEF LostInv, Reading
  <2>2. Len(replies) > 0
    BY <1>2, LogLemma, EmptyLemma
  <2>3. 1 \in 1..Len(replies) /\ 1 < Unread
    BY <1>2, <2>1, <2>2
  <2>4. QED
    BY <1>2, <2>1, <2>3
<1>4. Unread' = 0 /\ replies' = <<>>
  BY <1>1, <1>2, <1>3 DEF InSync, WentPast
<1>5. Answer.rows \in Seq(1..NRows) /\ Len(Answer.rows) \in Nat /\ Len(emitted) \in Nat /\ pos \in 0..NRows
  BY <1>2, LenProperties DEF Replies, TypeOK
<1>6. /\ pos = Len(emitted) + Len(Answer.rows)
      /\ \A i \in 1..Len(Answer.rows) : Answer.rows[i] = Len(emitted) + i
      /\ EndsCursor(Answer) => pos = NRows
  BY <1>1, <1>2, <1>3 DEF ReplyInv, Answer
<1>7. QED
  BY <1>1, <1>2, <1>3, <1>4, <1>5, <1>6

LEMMA ReadFailsInv ==
    ASSUME ScanInv, pc = "Read", ReadFails
    PROVE  ScanInv'
<1>1. /\ ~waiting' /\ waiting' \in BOOLEAN /\ first' = FALSE
      /\ UNCHANGED <<opts, polls, opened, exhausted, batch, offset, emitted, fetches, lost, srvVars>>
      /\ outcome' = "failed" /\ pc' \in {"CloseCursor", "Hangup"}
  BY DEF ReadFails, Returns, Teardown
<1>2. pc' \in CallPcs \cup RestPcs /\ outcome' \in Outcomes
  BY <1>1 DEF CallPcs, RestPcs, CleanupPcs, Outcomes
<1>3. TypeOK'
  BY <1>1, <1>2, ReturnsLemma DEF ScanInv, ReadFails, TypeOK, srvVars
<1>4. QED
  BY <1>1, <1>3, FailsInv

LEMMA ReadEndsInv ==
    ASSUME ScanInv, pc = "Read", ReadEnds
    PROVE  ScanInv'
<1> USE DEF ScanInv
<1>1. /\ Returns /\ ~waiting' /\ waiting' \in BOOLEAN /\ first' = FALSE /\ exhausted' = TRUE
      /\ UNCHANGED <<opts, polls, opened, batch, offset, emitted, fetches, lost, srvVars>>
      /\ outcome' = "done" /\ pc' \in {"CloseCursor", "Hangup"}
  BY DEF ReadEnds, Returns, Teardown
<1>2. pc' \in CallPcs \cup RestPcs /\ outcome' \in Outcomes /\ pc' \notin RunningPcs
  BY <1>1 DEF CallPcs, RestPcs, CleanupPcs, Outcomes, RunningPcs, OpeningPcs, LoginPcs, BlobPcs
<1>3. TypeOK'
  BY <1>1, <1>2, ReturnsLemma DEF TypeOK, srvVars
<1>4. ~lost => Len(emitted) = NRows
  <2> SUFFICES ASSUME ~lost PROVE Len(emitted) = NRows
    OBVIOUS
  <2>1. outcome = "running" /\ replies # <<>> /\ Answer \in Replies
    BY <1>1, ReturnsLemma DEF ControlInv, RunningPcs
  <2>2. ~Stray(Answer)
    BY <2>1 DEF ReplyInv, Answer
  <2>3. EndsCursor(Answer) /\ Answer.rows = <<>>
    BY <2>2 DEF ReadEnds
  <2>4. pos = Len(emitted) + Len(Answer.rows) /\ pos = NRows
    BY <2>1, <2>3 DEF ReplyInv, Answer, EndsCursor
  <2>5. QED
    BY <2>3, <2>4, EmptySeq, LenProperties DEF TypeOK
<1>5. QED
  BY <1>1, <1>2, <1>3, <1>4, EndedInv

LEMMA EmptyBlockInv ==
    ASSUME ScanInv, EmptyBlock
    PROVE  ScanInv'
<1> USE DEF ScanInv
<1>0. /\ ReturnsForgetting /\ pc = "Read" /\ ~waiting' /\ waiting' \in BOOLEAN /\ first' = FALSE
      /\ UNCHANGED <<opts, pc, polls, opened, exhausted, emitted, outcome, fetches, lost, srvVars>>
      /\ Answer.status # "malformed" /\ ~Stray(Answer) /\ Answer.rows = <<>>
      /\ batch' = <<>> /\ offset' = 0
  BY DEF EmptyBlock, ReturnsForgetting
<1>1. /\ outcome = "running" /\ ~lost /\ ~exhausted
      /\ Len(emitted) \in Nat /\ pos = Len(emitted) /\ pos <= NRows
      /\ log' \in Seq(Kinds) /\ handled' \in 0..Len(log') /\ replies' \in Seq(Replies)
      /\ UNCHANGED link /\ link \in {"up", "fin"} /\ Unread' = 0 /\ replies' = <<>>
  <2>1. Len(Answer.rows) = 0
    BY <1>0, EmptySeq
  <2>2. QED
    BY <1>0, <2>1, BlockReplyLemma, Sizes
<1>2. Len(batch') = 0 /\ batch' \in Seq(0..NRows) /\ offset' \in 0..Len(batch')
  BY <1>0, EmptySeq
<1>3. TypeOK'
  BY <1>0, <1>1, <1>2 DEF TypeOK, Kinds, srvVars
<1>4. InSync' /\ ReplyInv' /\ LostInv'
  BY <1>0, <1>1 DEF InSync, ReplyInv, LostInv
<1>5. ControlInv'
  BY <1>0, <1>1 DEF ControlInv, OpeningPcs, LoginPcs, BlobPcs
<1>6. BatchInv'
  <2>1. BatchBase' = Len(emitted) /\ BatchBase' + Len(batch') = pos' /\ offset' <= Len(emitted')
    BY <1>0, <1>1, <1>2 DEF BatchBase, srvVars
  <2>2. pos' <= NRows /\ 1..Len(batch') = {}
    BY <1>0, <1>1, <1>2 DEF srvVars
  <2>3. pc' = "Read" /\ ~first' /\ ~exhausted' /\ offset' = Len(batch') /\ pos' = Len(emitted')
    BY <1>0, <1>1, <1>2 DEF srvVars
  <2>4. QED
    BY <2>1, <2>2, <2>3 DEF BatchInv, BlobPcs
<1>7. RowsInOrder' /\ CompleteWhenDone'
  BY <1>0, KeepsEmitted
<1>8. QED
  BY <1>3, <1>4, <1>5, <1>6, <1>7

LEMMA BatchReadInv ==
    ASSUME ScanInv, pc = "Read", BatchRead
    PROVE  ScanInv'
<1> USE DEF ScanInv
<1> DEFINE rows == Answer.rows
<1>0. /\ ReturnsForgetting /\ ~waiting' /\ waiting' \in BOOLEAN /\ first' = FALSE
      /\ UNCHANGED <<opts, polls, opened, emitted, outcome, lost, srvVars>>
      /\ Answer.status # "malformed" /\ ~Stray(Answer) /\ rows # <<>>
      /\ opts.lenient \/ ~Undecodable(rows)
      /\ batch' = [i \in DOMAIN rows |-> Cell(rows[i])] /\ offset' = 0
      /\ exhausted' = EndsCursor(Answer)
      /\ fetches' \in 0..MaxFetches /\ pc' = IF fetches' = 0 THEN "Emit" ELSE "Fetch"
  BY DEF BatchRead, ReturnsForgetting
<1>0a. exhausted' \in BOOLEAN
  <2>1. exhausted' = EndsCursor(Answer)
    BY DEF BatchRead
  <2>2. QED
    BY <2>1 DEF EndsCursor
<1>1. /\ outcome = "running" /\ ~lost
      /\ rows \in Seq(1..NRows) /\ Len(rows) \in Nat /\ Len(emitted) \in Nat
      /\ pos = Len(emitted) + Len(rows) /\ pos <= NRows
      /\ \A i \in 1..Len(rows) : rows[i] = Len(emitted) + i
      /\ EndsCursor(Answer) => pos = NRows
      /\ log' \in Seq(Kinds) /\ handled' \in 0..Len(log') /\ replies' \in Seq(Replies)
      /\ UNCHANGED link /\ link \in {"up", "fin"} /\ Unread' = 0
  <2>1. pos \in 0..NRows => pos <= NRows
    BY Sizes
  <2>2. ScanInv /\ pc = "Read" /\ ReturnsForgetting /\ Answer.status # "malformed" /\ ~Stray(Answer)
    BY <1>0
  <2> HIDE DEF ScanInv
  <2>3. QED
    BY <2>1, <2>2, BlockReplyLemma
<1>2. /\ batch' \in Seq(0..NRows) /\ Len(batch') = Len(rows)
      /\ \A j \in 1..Len(rows) : batch'[j] = Cell(rows[j])
  BY <1>0, <1>1, DecodeLemma
<1>3. pc' \in {"Emit", "Fetch"} /\ (pc' = "Fetch" => fetches' > 0) /\ 0 \in 0..Len(batch')
  BY <1>0, <1>1, <1>2, Sizes
<1>4. TypeOK'
  BY <1>0, <1>0a, <1>1, <1>2, <1>3 DEF TypeOK, Kinds, srvVars, CallPcs, RestPcs, BlobPcs
<1>5. InSync' /\ ReplyInv' /\ LostInv'
  BY <1>0, <1>1, <1>3 DEF InSync, ReplyInv, LostInv
<1>6. ControlInv'
  BY <1>0, <1>1, <1>3 DEF ControlInv, RunningPcs, OpeningPcs, LoginPcs, BlobPcs
<1>7. BatchBase' = Len(emitted)
  BY <1>0, <1>1 DEF BatchBase
<1>8. ~opts.lenient => \A i \in 1..Len(rows) : Len(emitted) + i \notin opts.bad
  BY <1>0, <1>1, LenProperties DEF Undecodable
<1>9. BatchInv'
  <2>1. /\ offset' <= Len(emitted') /\ ~first'
        /\ BatchBase' + Len(batch') = pos /\ pos <= NRows
    <3>1. offset' = 0 /\ emitted' = emitted /\ 0 <= Len(emitted)
      BY <1>0, <1>1
    <3>2. BatchBase' + Len(batch') = Len(emitted) + Len(rows)
      BY <1>2, <1>7
    <3>3. QED
      BY <1>0, <1>1, <3>1, <3>2
  <2>2. \A j \in 1..Len(batch') : /\ batch'[j] = Cell(BatchBase' + j)
                                  /\ ~opts.lenient => BatchBase' + j \notin opts.bad
    BY <1>1, <1>2, <1>7, <1>8
  <2>3. exhausted' => pos = NRows
    BY <1>0, <1>1
  <2>4. pc' # "Read" /\ UNCHANGED <<opts, pos, emitted>>
    BY <1>0, <1>3 DEF srvVars
  <2>5. QED
    BY <2>1, <2>2, <2>3, <2>4 DEF BatchInv, Cell
<1>10. RowsInOrder' /\ CompleteWhenDone'
  BY <1>0, KeepsEmitted
<1>11. QED
  BY <1>4, <1>5, <1>6, <1>9, <1>10

LEMMA ReadReplyInv ==
    ASSUME ScanInv, ReadReply
    PROVE  ScanInv'
BY ReadFailsInv, ReadEndsInv, EmptyBlockInv, BatchReadInv DEF ReadReply

-----------------------------------------------------------------------------
\* The reply to a blob request, or a left-over one, has been read: what has
\* not been read yet is as it was, and one less.
LEMMA BlobReplyLemma ==
    ASSUME ScanInv, pc \in BlobPcs, ReturnsForgetting
    PROVE  /\ outcome = "running" /\ ~first
           /\ log' \in Seq(Kinds) /\ handled' \in 0..Len(log') /\ replies' \in Seq(Replies)
           /\ UNCHANGED link /\ link \in {"up", "fin"}
           /\ ~lost => Unread' = 0
           /\ lost => /\ UNCHANGED <<log, handled>> /\ Unread' > 0
                      /\ \A k \in (handled + 1)..Len(log) : log[k] \in BlobPcs
                      /\ \A j \in 1..Len(replies') : Stray(replies'[j])
<1> USE DEF ScanInv
<1>1. outcome = "running" /\ ~first /\ waiting /\ ReceiveForgetting /\ log # <<>>
  BY DEF ControlInv, RunningPcs, ReturnsForgetting
<1>2. /\ link \in {"up", "fin"} /\ link' = link /\ Unread' = Unread - 1
      /\ log' \in Seq(Kinds) /\ handled' \in 0..Len(log') /\ replies' \in Seq(Replies)
      /\ Len(replies') = Len(replies) - 1
      /\ \A j \in 1..Len(replies') : replies'[j] = replies[j + 1]
      /\ \/ log' = log /\ handled' = handled
         \/ Len(replies) = 1 /\ handled = Len(log)
  BY <1>1, ForgetLemma
<1>3. ~lost => Unread' = 0
  BY <1>1, <1>2 DEF InSync, WentPast
<1>4. ASSUME lost
      PROVE  /\ UNCHANGED <<log, handled>> /\ Unread' > 0
             /\ \A k \in (handled + 1)..Len(log) : log[k] \in BlobPcs
             /\ \A j \in 1..Len(replies') : Stray(replies'[j])
  <2>1. ~Reading
    BY DEF Reading, BlobPcs
  <2>2. /\ Unread > 1
        /\ \A k \in (handled + 1)..Len(log) : log[k] \in BlobPcs
        /\ \A j \in 1..Len(replies) : Stray(replies[j])
    BY <1>1, <1>2, <1>4, <2>1 DEF LostInv
  <2>2a. Unread \in Nat
    BY LogLemma DEF Unread
  <2>3. ~(Len(replies) = 1 /\ handled = Len(log))
    BY <2>2, LogLemma DEF Unread
  <2>4. \A j \in 1..Len(replies') : j + 1 \in 1..Len(replies)
    BY <1>2, LogLemma
  <2>5. QED
    BY <1>2, <2>2, <2>2a, <2>3, <2>4
<1>5. QED
  BY <1>1, <1>2, <1>3, <1>4

\* A live scan that has read the reply to a blob request.
LEMMA BlobReplyInv ==
    ASSUME ScanInv, pc \in BlobPcs, ReturnsForgetting,
           fetches' \in 0..MaxFetches, pc' \in {"Emit"} \cup BlobPcs, pc' \in BlobPcs => fetches' > 0,
           UNCHANGED <<opts, polls, opened, first, exhausted, batch, offset, emitted, outcome, lost>>
    PROVE  ScanInv'
<1> USE DEF ScanInv
<1>0. ~waiting' /\ waiting' \in BOOLEAN /\ UNCHANGED srvVars
  BY DEF ReturnsForgetting
<1>1. /\ outcome = "running" /\ ~first
      /\ log' \in Seq(Kinds) /\ handled' \in 0..Len(log') /\ replies' \in Seq(Replies)
      /\ UNCHANGED link /\ link \in {"up", "fin"}
      /\ ~lost => Unread' = 0
      /\ lost => /\ UNCHANGED <<log, handled>> /\ Unread' > 0
                 /\ \A k \in (handled + 1)..Len(log) : log[k] \in BlobPcs
                 /\ \A j \in 1..Len(replies') : Stray(replies'[j])
  BY BlobReplyLemma
<1>2. TypeOK'
  BY <1>0, <1>1 DEF TypeOK, Kinds, srvVars, CallPcs, RestPcs
<1>3. InSync'
  BY <1>0, <1>1 DEF InSync, WentPast, LostInv
<1>4. ControlInv'
  BY <1>0, <1>1 DEF ControlInv, RunningPcs, OpeningPcs, LoginPcs, BlobPcs
<1>5. BatchInv'
  BY <1>0, <1>1 DEF BatchInv, BatchBase, Cell, BlobPcs, srvVars
<1>6. ReplyInv' /\ LostInv'
  BY <1>0, <1>1 DEF ReplyInv, LostInv, BlobPcs
<1>7. RowsInOrder' /\ CompleteWhenDone'
  BY KeepsEmitted
<1>8. QED
  BY <1>2, <1>3, <1>4, <1>5, <1>6, <1>7

LEMMA FetchReplyInv ==
    ASSUME ScanInv, FetchReply
    PROVE  ScanInv'
<1>1. /\ pc = "Fetch" /\ pc \in BlobPcs /\ ReturnsForgetting /\ ~waiting' /\ waiting' \in BOOLEAN
      /\ UNCHANGED <<opts, polls, opened, first, exhausted, batch, offset, emitted, lost, srvVars>>
  BY DEF FetchReply, ReturnsForgetting, BlobPcs
<1>2. CASE NextFetch /\ UNCHANGED outcome
  BY <1>1, <1>2, NextFetchLemma, BlobReplyInv
<1>3. CASE Teardown("failed") /\ UNCHANGED fetches
  <2>1. pc' \in {"CloseCursor", "Hangup"} /\ outcome' = "failed"
    BY <1>3 DEF Teardown
  <2>2. pc' \in CallPcs \cup RestPcs /\ outcome' \in Outcomes
    BY <2>1 DEF CallPcs, RestPcs, CleanupPcs, Outcomes
  <2>3. TypeOK'
    BY <1>1, <1>3, <2>1, <2>2, BlobReplyLemma DEF ScanInv, TypeOK, Kinds, srvVars
  <2>4. QED
    BY <1>1, <2>1, <2>3, FailsInv
<1>4. QED
  BY <1>2, <1>3 DEF FetchReply

LEMMA FlushReplyInv ==
    ASSUME ScanInv, FlushReply
    PROVE  ScanInv'
<1>1. /\ pc \in BlobPcs /\ ReturnsForgetting /\ pc' = "Fetch" /\ pc' \in BlobPcs
      /\ UNCHANGED <<opts, polls, opened, first, exhausted, dataVars>>
  BY DEF FlushReply, BlobPcs
<1>2. fetches' \in 0..MaxFetches /\ fetches' > 0
  BY <1>1, Sizes DEF ScanInv, TypeOK, ControlInv, RunningPcs, dataVars
<1>3. QED
  BY <1>1, <1>2, BlobReplyInv DEF dataVars

-----------------------------------------------------------------------------
LEMMA PullInv ==
    ASSUME ScanInv, Pull
    PROVE  ScanInv'
<1> USE DEF ScanInv
<1>0. /\ pc = "Idle" /\ outcome = "running" /\ ~waiting /\ offset >= Len(batch)
      /\ UNCHANGED <<netVars, opts, waiting, polls, opened, first, exhausted, batch, offset, emitted, fetches,
                     lost, srvVars>>
  BY DEF Pull, ControlInv, RunningPcs, CallPcs, LoginPcs, CleanupPcs, BlobPcs
<1>1. offset = Len(batch) /\ Len(batch) \in Nat /\ Len(emitted) \in Nat
  BY <1>0, LenProperties DEF TypeOK
<1>2. CASE exhausted /\ outcome' = "done" /\ pc' \in {"CloseCursor", "Hangup"}
  <2>1. TypeOK'
    BY <1>0, <1>2 DEF TypeOK, netVars, srvVars, CallPcs, RestPcs, CleanupPcs, Outcomes
  <2>2. Len(emitted) = NRows
    BY <1>0, <1>1, <1>2 DEF BatchInv, BatchBase
  <2>3. pc' \notin RunningPcs
    BY <1>2 DEF RunningPcs, OpeningPcs, LoginPcs, BlobPcs
  <2>4. QED
    BY <1>0, <2>1, <1>2, <2>2, <2>3, EndedInv
<1>3. CASE ~exhausted /\ outcome' = outcome /\ pc' = "Read"
  <2>1. TypeOK'
    BY <1>0, <1>3 DEF TypeOK, netVars, srvVars, CallPcs
  <2>2. InSync' /\ (~lost => replies = <<>>)
    <3>1. ~lost => Len(log) - handled + Len(replies) = 0
      BY <1>0 DEF InSync, WentPast, Unread
    <3>2. ~lost => replies = <<>>
      BY <3>1, LogLemma, EmptyLemma
    <3>3. QED
      BY <1>0, <1>3, <3>2 DEF InSync, WentPast, Unread, netVars
  <2>3. ControlInv'
    BY <1>0, <1>3 DEF ControlInv, RunningPcs, OpeningPcs, LoginPcs, BlobPcs, netVars
  <2>4. BatchInv'
    <3>1. ~first /\ ~lost => pos = Len(emitted)
      BY <1>0, <1>1 DEF BatchInv, BatchBase
    <3>2. QED
      BY <1>0, <1>1, <1>3, <3>1 DEF BatchInv, BatchBase, BlobPcs, Cell, netVars, srvVars
  <2>5. ReplyInv'
    BY <1>0, <2>2 DEF ReplyInv, netVars
  <2>6. LostInv'
    BY <1>0, <1>3 DEF LostInv, Reading, Unread, netVars
  <2>7. RowsInOrder' /\ CompleteWhenDone'
    BY <1>0, <1>3, KeepsEmitted
  <2>8. QED
    BY <2>1, <2>2, <2>3, <2>4, <2>5, <2>6, <2>7
<1>4. QED
  BY <1>2, <1>3 DEF Pull, Teardown

\* A slice of one sequence appended to another.
LEMMA SliceLemma ==
    ASSUME NEW S, NEW b \in Seq(S), NEW e \in Seq(S), NEW o \in Nat, NEW n \in Nat,
           n > 0, o + n <= Len(b),
           NEW c, c = e \o SubSeq(b, o + 1, o + n)
    PROVE  /\ c \in Seq(S)
           /\ Len(c) = Len(e) + n
           /\ \A i \in 1..Len(e) : c[i] = e[i]
           /\ \A k \in 1..n : c[Len(e) + k] = b[o + k]
<1> DEFINE v == SubSeq(b, o + 1, o + n)
<1>1. Len(b) \in Nat /\ Len(e) \in Nat
  BY LenProperties
<1>2. \A i \in (o + 1)..(o + n) : b[i] \in S
  <2>1. \A i \in (o + 1)..(o + n) : i \in 1..Len(b)
    BY <1>1
  <2>2. QED
    BY <2>1, ElementOfSeq
<1>3. /\ v \in Seq(S) /\ Len(v) = n
      /\ \A k \in 1..n : v[k] = b[o + k]
  <2>1. /\ v \in Seq(S)
        /\ Len(v) = IF o + 1 <= o + n THEN (o + n) - (o + 1) + 1 ELSE 0
        /\ \A k \in 1..((o + n) - (o + 1) + 1) : v[k] = b[(o + 1) + k - 1]
    <3>1. o + 1 \in Int /\ o + n \in Int
      OBVIOUS
    <3>2. QED
      BY <1>2, <3>1, SubSeqProperties
  <2>2. (o + n) - (o + 1) + 1 = n /\ o + 1 <= o + n
    OBVIOUS
  <2>3. \A k \in 1..n : (o + 1) + k - 1 = o + k
    OBVIOUS
  <2>4. QED
    BY <2>1, <2>2, <2>3
<1>4. /\ c \in Seq(S) /\ Len(c) = Len(e) + n
      /\ \A i \in 1..(Len(e) + n) : c[i] = IF i <= Len(e) THEN e[i] ELSE v[i - Len(e)]
  BY <1>3, ConcatProperties
<1>5. \A i \in 1..Len(e) : c[i] = e[i]
  <2>1. \A i \in 1..Len(e) : i \in 1..(Len(e) + n) /\ i <= Len(e)
    BY <1>1
  <2>2. QED
    BY <1>4, <2>1
<1>6. \A k \in 1..n : c[Len(e) + k] = b[o + k]
  <2>1. \A k \in 1..n : /\ Len(e) + k \in 1..(Len(e) + n) /\ ~(Len(e) + k <= Len(e))
                        /\ Len(e) + k - Len(e) = k
    BY <1>1
  <2> SUFFICES ASSUME NEW k \in 1..n
               PROVE  c[Len(e) + k] = b[o + k]
    OBVIOUS
  <2>2. c[Len(e) + k] = v[Len(e) + k - Len(e)]
    BY <1>4, <2>1
  <2>3. v[k] = b[o + k]
    BY <1>3
  <2>4. QED
    BY <2>1, <2>2, <2>3
<1>7. QED
  BY <1>4, <1>5, <1>6

\* What the emitted vector is, and how far the history grows by it.
LEMMA VectorLemma ==
    ASSUME ScanInv, EmitVector
    PROVE  /\ outcome = "running"
           /\ emitted' \in Seq(0..NRows)
           /\ offset' \in Nat /\ offset' <= Len(batch)
           /\ BatchBase' = BatchBase
           /\ Len(emitted') \in Nat /\ offset' <= Len(emitted')
           /\ Len(emitted') <= NRows
           /\ \A i \in 1..Len(emitted') :
                 /\ emitted'[i] = Cell(i)
                 /\ ~opts.lenient => i \notin opts.bad
<1> USE DEF ScanInv
<1>1. outcome = "running" /\ offset < Len(batch)
  BY DEF EmitVector, ControlInv, RunningPcs
<1>2. /\ batch \in Seq(0..NRows) /\ Len(batch) \in Nat
      /\ offset \in Nat /\ emitted \in Seq(0..NRows) /\ Len(emitted) \in Nat
  BY LenProperties DEF TypeOK
<1>3. PICK n \in Nat : /\ n > 0 /\ offset + n <= Len(batch)
                       /\ emitted' = emitted \o SubSeq(batch, offset + 1, offset + n)
                       /\ offset' = offset + n
  <2> DEFINE m == IF Len(batch) - offset < VectorSize THEN Len(batch) - offset ELSE VectorSize
  <2>1. m \in Nat /\ m > 0 /\ offset + m <= Len(batch)
    BY <1>1, <1>2, Sizes
  <2>2. /\ emitted' = emitted \o SubSeq(batch, offset + 1, offset + m)
        /\ offset' = offset + m
    BY DEF EmitVector
  <2>3. QED
    BY <2>1, <2>2
<1>4. /\ emitted' \in Seq(0..NRows)
      /\ Len(emitted') = Len(emitted) + n
      /\ \A i \in 1..Len(emitted) : emitted'[i] = emitted[i]
      /\ \A k \in 1..n : emitted'[Len(emitted) + k] = batch[offset + k]
  <2> DEFINE S == 0..NRows
             c == emitted'
  <2>1. batch \in Seq(S) /\ emitted \in Seq(S)
    BY <1>2
  <2>2. c = emitted \o SubSeq(batch, offset + 1, offset + n)
    BY <1>3
  <2> HIDE DEF S, c
  <2>3. /\ c \in Seq(S)
        /\ Len(c) = Len(emitted) + n
        /\ \A i \in 1..Len(emitted) : c[i] = emitted[i]
        /\ \A k \in 1..n : c[Len(emitted) + k] = batch[offset + k]
    BY <1>2, <1>3, <2>1, <2>2, SliceLemma
  <2>4. QED
    BY <2>3 DEF S, c
<1>5. /\ offset <= Len(emitted)
      /\ Len(emitted) - offset + Len(batch) <= NRows
      /\ \A j \in 1..Len(batch) : /\ batch[j] = Cell(Len(emitted) - offset + j)
                                  /\ ~opts.lenient => Len(emitted) - offset + j \notin opts.bad
  BY <1>1 DEF BatchInv, BatchBase
<1>6. \A k \in 1..n : /\ emitted'[Len(emitted) + k] = Cell(Len(emitted) + k)
                      /\ ~opts.lenient => Len(emitted) + k \notin opts.bad
  <2> SUFFICES ASSUME NEW k \in 1..n
               PROVE  /\ emitted'[Len(emitted) + k] = Cell(Len(emitted) + k)
                      /\ ~opts.lenient => Len(emitted) + k \notin opts.bad
    OBVIOUS
  <2>1. PICK x \in 1..Len(batch) : x = offset + k
    BY <1>2, <1>3
  <2>2. emitted'[Len(emitted) + k] = batch[x]
    BY <1>4, <2>1
  <2>3. Len(emitted) - offset + x = Len(emitted) + k
    BY <1>2, <2>1
  <2>4. batch[x] = Cell(Len(emitted) - offset + x)
    BY <1>5
  <2>5. ~opts.lenient => Len(emitted) - offset + x \notin opts.bad
    BY <1>5
  <2>6. QED
    BY <2>2, <2>3, <2>4, <2>5
<1>7. \A i \in 1..Len(emitted) : /\ emitted'[i] = Cell(i)
                                 /\ ~opts.lenient => i \notin opts.bad
  BY <1>4 DEF RowsInOrder
<1>8. \A i \in 1..Len(emitted') : i \in 1..Len(emitted) \/ \E k \in 1..n : i = Len(emitted) + k
  <2> SUFFICES ASSUME NEW i \in 1..Len(emitted'), i \notin 1..Len(emitted)
               PROVE  \E k \in 1..n : i = Len(emitted) + k
    OBVIOUS
  <2>1. i - Len(emitted) \in 1..n /\ i = Len(emitted) + (i - Len(emitted))
    BY <1>2, <1>4
  <2>2. QED
    BY <2>1
<1>9. \A i \in 1..Len(emitted') : /\ emitted'[i] = Cell(i)
                                  /\ ~opts.lenient => i \notin opts.bad
  BY <1>6, <1>7, <1>8
<1>10. /\ offset' \in Nat /\ offset' <= Len(batch)
       /\ Len(emitted') \in Nat /\ offset' <= Len(emitted')
       /\ Len(emitted') <= NRows
       /\ Len(emitted') - offset' = Len(emitted) - offset
  BY <1>2, <1>3, <1>4, <1>5, Sizes
<1>11. QED
  BY <1>1, <1>4, <1>9, <1>10 DEF BatchBase

LEMMA EmitVectorInv ==
    ASSUME ScanInv, EmitVector
    PROVE  ScanInv'
<1> USE DEF ScanInv
<1>0. /\ pc \in {"Idle", "Emit"} /\ pc' = "Idle" /\ outcome = "running" /\ ~waiting
      /\ offset < Len(batch)
      /\ UNCHANGED <<netVars, opts, waiting, polls, opened, first, exhausted, batch, outcome, fetches, lost,
                     srvVars>>
  BY DEF EmitVector, ControlInv, RunningPcs, CallPcs, LoginPcs, CleanupPcs, BlobPcs
<1>1. batch' = batch /\ Len(batch) \in Nat /\ offset \in Nat
  BY <1>0, LenProperties DEF TypeOK
<1>2. TypeOK'
  <2>1. offset' \in 0..Len(batch')
    BY <1>1, VectorLemma
  <2>2. QED
    BY <1>0, <2>1, VectorLemma DEF TypeOK, netVars, srvVars, RestPcs
<1>3. InSync' /\ LostInv'
  BY <1>0 DEF InSync, WentPast, LostInv, Reading, Unread, netVars
<1>4. ControlInv'
  BY <1>0 DEF ControlInv, RunningPcs, OpeningPcs, LoginPcs, BlobPcs, netVars
<1>5. BatchInv'
  <2>1. ~first
    BY <1>0, <1>1, EmptySeq DEF BatchInv
  <2>2. /\ BatchBase + Len(batch) <= NRows
        /\ \A j \in 1..Len(batch) : /\ batch[j] = Cell(BatchBase + j)
                                    /\ ~opts.lenient => BatchBase + j \notin opts.bad
        /\ exhausted => BatchBase + Len(batch) = NRows
        /\ ~lost => pos = BatchBase + Len(batch)
    BY <1>0, <2>1 DEF BatchInv
  <2>3. BatchBase' = BatchBase /\ offset' <= Len(emitted')
    BY VectorLemma
  <2>4. \A i : Cell(i)' = Cell(i)
    BY <1>0 DEF Cell
  <2>5. QED
    BY <1>0, <2>1, <2>2, <2>3, <2>4 DEF BatchInv, BlobPcs, srvVars
<1>6. ReplyInv'
  BY <1>0 DEF ReplyInv
<1>7. RowsInOrder' /\ CompleteWhenDone'
  <2>1. opts' = opts /\ outcome' = "running"
    BY <1>0
  <2>2. QED
    BY <2>1, VectorLemma DEF RowsInOrder, CompleteWhenDone, Cell
<1>8. QED
  BY <1>2, <1>3, <1>4, <1>5, <1>6, <1>7

LEMMA AbandonInv ==
    ASSUME ScanInv, Abandon \/ SchemaChanged
    PROVE  ScanInv'
<1> USE DEF ScanInv
<1>0. /\ outcome' \in {"stopped", "failed"} /\ pc' \in {"CloseCursor", "Hangup"} /\ pc = "Idle"
      /\ UNCHANGED <<netVars, opts, waiting, polls, opened, first, exhausted, batch, offset, emitted, fetches,
                     lost, srvVars>>
  BY DEF Abandon, SchemaChanged, Teardown
<1>1. ~waiting
  BY <1>0 DEF ControlInv, CallPcs, LoginPcs, CleanupPcs, BlobPcs
<1>2. pc' \in CallPcs \cup RestPcs /\ pc' \notin RunningPcs
  BY <1>0 DEF CallPcs, RestPcs, CleanupPcs, RunningPcs, OpeningPcs, LoginPcs, BlobPcs
<1>3. TypeOK'
  BY <1>0, <1>2 DEF TypeOK, netVars, srvVars, Outcomes
<1>4. QED
  BY <1>0, <1>1, <1>2, <1>3, EndedInv

LEMMA HangupInv ==
    ASSUME ScanInv, Hangup
    PROVE  ScanInv'
<1> USE DEF ScanInv
<1>0. /\ pc = "Hangup" /\ pc' = "Closed" /\ link' = "down"
      /\ UNCHANGED <<log, handled, replies, opts, waiting, polls, opened, first, exhausted, dataVars, srvVars>>
  BY DEF Hangup, CloseSocket
<1>1. ~waiting /\ outcome # "running"
  BY <1>0 DEF ControlInv, CallPcs, LoginPcs, CleanupPcs, BlobPcs, RunningPcs, OpeningPcs
<1>2. pc' \in CallPcs \cup RestPcs /\ pc' \notin RunningPcs
  BY <1>0 DEF RestPcs, RunningPcs, OpeningPcs, LoginPcs, BlobPcs
<1>3. TypeOK'
  BY <1>0, <1>2 DEF TypeOK, dataVars, srvVars
<1>4. QED
  BY <1>0, <1>1, <1>2, <1>3, EndedInv DEF dataVars

-----------------------------------------------------------------------------
\* The request the server answers while the scan is alive and in step is the
\* client's last one, and no reply is ahead of its own.
LEMMA AskedLemma ==
    ASSUME ScanInv, Pending, outcome = "running", ~lost
    PROVE  waiting /\ Asked = Kind /\ Len(replies) = 0 /\ replies = <<>>
<1> USE DEF ScanInv
<1>1. /\ Len(log) \in Nat /\ handled \in Nat /\ Len(replies) \in Nat /\ handled < Len(log)
  BY LenProperties DEF TypeOK, Pending
<1>2. Len(log) - handled + Len(replies) = IF waiting THEN 1 ELSE 0
  BY DEF InSync, WentPast, Unread
<1>3. \A l, h, r \in Nat : h < l => /\ l - h + r # 0
                                    /\ l - h + r = 1 => r = 0 /\ h + 1 = l
  OBVIOUS
<1>4. waiting /\ Len(replies) = 0 /\ handled + 1 = Len(log)
  BY <1>1, <1>2, <1>3
<1>5. QED
  BY <1>4, EmptyLemma DEF ControlInv, Asked, TypeOK

\* An answer keeps the count of unread replies, and goes to the back.
LEMMA AnsweringLemma ==
    ASSUME TypeOK, NEW status \in Statuses, NEW rows \in Seq(1..NRows), Reply(status, rows)
    PROVE  /\ UNCHANGED <<log, link>>
           /\ handled' \in 0..Len(log')
           /\ replies' \in Seq(Replies) /\ replies' # <<>>
           /\ Len(replies') = Len(replies) + 1
           /\ \A j \in 1..Len(replies) : replies'[j] = replies[j]
           /\ replies'[Len(replies) + 1].status = status
           /\ Unread' = Unread /\ Unread = Len(log) - (handled + 1) + Len(replies')
           /\ replies = <<>> => Head(replies').status = status /\ Head(replies').rows = rows
<1> DEFINE r == [id |-> handled + 1, status |-> status, rows |-> rows]
<1>1. /\ Len(log) \in Nat /\ handled \in Nat /\ Len(replies) \in Nat /\ handled < Len(log)
      /\ replies \in Seq(Replies)
  BY LenProperties DEF TypeOK, Reply, Pending
<1>2. replies' = Append(replies, r) /\ handled' = handled + 1 /\ log' = log /\ link' = link
  BY DEF Reply
<1>3. r \in Replies
  BY <1>1 DEF Replies
<1> HIDE DEF r
<1>4. /\ replies' \in Seq(Replies) /\ Len(replies') = Len(replies) + 1
      /\ replies'[Len(replies) + 1] = r
      /\ \A j \in 1..Len(replies) : replies'[j] = replies[j]
  BY <1>1, <1>2, <1>3, AppendProperties
<1>5. replies' # <<>> /\ Head(replies') = replies'[1]
  BY <1>1, <1>4, EmptySeq, HeadTailProperties
<1>6. replies = <<>> => Head(replies') = r
  BY <1>4, <1>5, EmptySeq
<1>7. handled' \in 0..Len(log') /\ Unread' = Unread /\ Unread = Len(log) - (handled + 1) + Len(replies')
  BY <1>1, <1>2, <1>4 DEF Unread
<1>8. QED
  BY <1>2, <1>4, <1>5, <1>6, <1>7 DEF r

BlobStatuses == {"blob", "blobError", "flushed"}

\* The answers that a scan out of step leaves unread are to its blob requests.
LEMMA AnswerLost ==
    ASSUME ScanInv, NEW status \in Statuses, NEW rows \in Seq(1..NRows), Reply(status, rows),
           UNCHANGED <<clientVars, dataVars>>,
           Asked \in BlobPcs => status \in BlobStatuses
    PROVE  LostInv'
<1>1. UNCHANGED <<opts, pc, waiting, first, outcome, lost>>
  BY DEF clientVars, dataVars
<1> SUFFICES ASSUME outcome = "running", lost
             PROVE  /\ \A k \in (handled' + 1)..Len(log') :
                          (Reading' => k < Len(log')) => log'[k] \in BlobPcs
                    /\ link' # "reset" =>
                          /\ Unread' > (IF waiting THEN 1 ELSE 0)
                          /\ \A j \in 1..Len(replies') : (Reading' => j < Unread') => Stray(replies'[j])
  BY <1>1 DEF ScanInv, LostInv
<1>2. /\ Reading' <=> Reading
      /\ log' = log /\ link' = link /\ link # "reset" /\ handled' = handled + 1
      /\ Len(log) \in Nat /\ handled \in Nat /\ handled < Len(log) /\ Len(replies) \in Nat
      /\ Len(replies') = Len(replies) + 1
      /\ \A j \in 1..Len(replies) : replies'[j] = replies[j]
      /\ replies'[Len(replies) + 1].status = status
      /\ Unread' = Unread /\ Unread = Len(log) - (handled + 1) + Len(replies')
  BY <1>1, AnsweringLemma, LogLemma DEF ScanInv, Reading, Reply, Pending
<1>3. /\ Unread > (IF waiting THEN 1 ELSE 0)
      /\ \A j \in 1..Len(replies) : (Reading => j < Unread) => Stray(replies[j])
      /\ \A k \in (handled + 1)..Len(log) : (Reading => k < Len(log)) => log[k] \in BlobPcs
  BY <1>2 DEF ScanInv, LostInv
<1>4. ASSUME NEW k \in (handled' + 1)..Len(log'), Reading' => k < Len(log')
      PROVE  log'[k] \in BlobPcs
  <2>1. k \in (handled + 1)..Len(log)
    BY <1>2
  <2>2. QED
    BY <1>2, <1>3, <1>4, <2>1
<1>5. ASSUME NEW j \in 1..Len(replies'), Reading' => j < Unread'
      PROVE  Stray(replies'[j])
  <2>1. CASE j = Len(replies) + 1
    <3>1. Reading => handled + 1 < Len(log)
      BY <1>2, <1>5, <2>1
    <3>2. handled + 1 \in (handled + 1)..Len(log)
      BY <1>2
    <3>3. Asked \in BlobPcs
      BY <1>3, <3>1, <3>2 DEF Asked
    <3>4. QED
      BY <1>2, <2>1, <3>3 DEF Stray, BlobStatuses
  <2>2. CASE j # Len(replies) + 1
    <3>1. j \in 1..Len(replies)
      BY <1>2, <2>2
    <3>2. QED
      BY <1>2, <1>3, <1>5, <3>1
  <2>3. QED
    BY <2>1, <2>2
<1>6. QED
  BY <1>2, <1>3, <1>4, <1>5

\* A step of the server.  On a live scan that waits for a block, the reply
\* has to continue the rows emitted so far.
LEMMA ServerInv ==
    ASSUME ScanInv, NEW status \in Statuses, NEW rows \in Seq(1..NRows), Reply(status, rows),
           UNCHANGED <<clientVars, dataVars>>,
           pos' \in 0..NRows, srvOpen' \in BOOLEAN,
           Asked \in BlobPcs => status \in BlobStatuses /\ pos' = pos,
           outcome = "running" /\ ~lost /\ pc = "Read" =>
               /\ status \notin BlobStatuses
               /\ status # "malformed" =>
                     /\ pos' = Len(emitted) + Len(rows)
                     /\ \A i \in 1..Len(rows) : rows[i] = Len(emitted) + i
                     /\ status \in {"end", "notReady", "blank"} => pos' = NRows
    PROVE  ScanInv'
<1> USE DEF ScanInv
<1>1. /\ UNCHANGED <<log, link>> /\ handled' \in 0..Len(log')
      /\ replies' \in Seq(Replies) /\ replies' # <<>> /\ Unread' = Unread
      /\ replies = <<>> => Head(replies').status = status /\ Head(replies').rows = rows
  BY AnsweringLemma
<1>2. TypeOK'
  BY <1>1 DEF TypeOK, clientVars, dataVars
<1>3. InSync'
  BY <1>1 DEF InSync, WentPast, clientVars, dataVars
<1>4. ControlInv'
  BY <1>1 DEF ControlInv, Kind, clientVars, dataVars
<1>5. outcome = "running" /\ ~lost => replies = <<>> /\ pc \in CallPcs /\ Asked = Kind
  BY AskedLemma DEF Reply, ControlInv
<1>6. BatchInv'
  <2>1. outcome = "running" /\ ~lost => pc \notin {"Idle", "Emit"} /\ (pc \in BlobPcs => pos' = pos)
    BY <1>5 DEF CallPcs, LoginPcs, CleanupPcs, BlobPcs, Kind
  <2>2. \A i : Cell(i)' = Cell(i)
    BY DEF Cell, clientVars
  <2>3. BatchBase' = BatchBase
    BY DEF BatchBase, dataVars
  <2>4. QED
    BY <1>1, <2>1, <2>2, <2>3 DEF BatchInv, clientVars, dataVars
<1>7. ReplyInv'
  <2>1. UNCHANGED <<outcome, pc, emitted>>
    BY DEF clientVars, dataVars
  <2> SUFFICES ASSUME outcome = "running", ~lost, pc = "Read"
               PROVE  /\ ~Stray(Head(replies'))
                      /\ Head(replies').status # "malformed" =>
                            /\ pos' = Len(emitted) + Len(Head(replies').rows)
                            /\ \A i \in 1..Len(Head(replies').rows) : Head(replies').rows[i] = Len(emitted) + i
                            /\ Head(replies').status \in {"end", "notReady", "blank"} => pos' = NRows
    BY <2>1 DEF ReplyInv, EndsCursor, dataVars
  <2>2. Head(replies').status = status /\ Head(replies').rows = rows
    BY <1>1, <1>5
  <2>3. QED
    BY <2>2 DEF Stray, BlobStatuses
<1>8. LostInv'
  BY AnswerLost
<1>9. RowsInOrder' /\ CompleteWhenDone'
  BY KeepsEmitted DEF clientVars, dataVars
<1>10. QED
  BY <1>2, <1>3, <1>4, <1>6, <1>7, <1>8, <1>9

\* A request that is not a block read is not asked by a client that waits for one.
LEMMA NotReading ==
    ASSUME ScanInv, Pending, Asked \notin {"ReadFirst", "ReadNext"}
    PROVE  ~(outcome = "running" /\ ~lost /\ pc = "Read")
BY AskedLemma DEF Kind

LEMMA SrvAckInv ==
    ASSUME ScanInv, SrvAck
    PROVE  ScanInv'
<1>1. ~(outcome = "running" /\ ~lost /\ pc = "Read") /\ Asked \notin BlobPcs
  BY NotReading DEF SrvAck, LoginPcs, CleanupPcs, BlobPcs
<1>2. pos' \in 0..NRows /\ srvOpen' \in BOOLEAN
  BY Sizes DEF SrvAck, ScanInv, TypeOK
<1>3. "ok" \in Statuses /\ <<>> \in Seq(1..NRows)
  BY EmptySeq DEF Statuses
<1>4. QED
  BY <1>1, <1>2, <1>3, ServerInv DEF SrvAck

LEMMA SrvPrepareInv ==
    ASSUME ScanInv, SrvPrepare
    PROVE  ScanInv'
<1>1. ~(outcome = "running" /\ ~lost /\ pc = "Read") /\ Asked \notin BlobPcs
  BY NotReading DEF SrvPrepare, BlobPcs
<1>2. pos' \in 0..NRows /\ srvOpen' \in BOOLEAN
  BY DEF SrvPrepare, ScanInv, TypeOK, srvVars
<1>3. PICK status \in {"schema", "noSchema"} : Reply(status, <<>>)
  BY DEF SrvPrepare
<1>4. status \in Statuses /\ <<>> \in Seq(1..NRows)
  BY EmptySeq DEF Statuses
<1>5. QED
  BY <1>1, <1>2, <1>3, <1>4, ServerInv DEF SrvPrepare

LEMMA SrvExecuteInv ==
    ASSUME ScanInv, SrvExecute
    PROVE  ScanInv'
<1>1. ~(outcome = "running" /\ ~lost /\ pc = "Read") /\ Asked \notin BlobPcs
  BY NotReading DEF SrvExecute, BlobPcs
<1>2. pos' \in 0..NRows /\ srvOpen' \in BOOLEAN
  BY DEF SrvExecute, ScanInv, TypeOK
<1>3. PICK status \in {"ready", "notReady"} : Reply(status, <<>>)
  BY DEF SrvExecute
<1>4. status \in Statuses /\ <<>> \in Seq(1..NRows)
  BY EmptySeq DEF Statuses
<1>5. QED
  BY <1>1, <1>2, <1>3, <1>4, ServerInv DEF SrvExecute

\* The rows of a block: as many as asked, from the cursor on.
LEMMA BlockLemma ==
    ASSUME NEW n \in Nat, ReadBase \in Nat, ReadBase + n <= NRows
    PROVE  /\ Block(n) \in Seq(1..NRows)
           /\ Len(Block(n)) = n
           /\ \A i \in 1..n : Block(n)[i] = ReadBase + i
<1> DEFINE b == Block(n)
<1>1. \A i \in 1..n : ReadBase + i \in 1..NRows
  BY Sizes
<1>2. b \in [1..n -> 1..NRows]
  BY <1>1 DEF Block
<1>3. b \in Seq(1..NRows)
  BY <1>2, SeqDef
<1>4. Len(b) = n
  BY <1>2, <1>3, LenProperties
<1>5. QED
  BY <1>3, <1>4 DEF Block

LEMMA SrvReadInv ==
    ASSUME ScanInv, SrvRead
    PROVE  ScanInv'
<1> USE DEF ScanInv
<1> DEFINE base == ReadBase
           left == NRows - base
<1>1. /\ Pending /\ Asked \in {"ReadFirst", "ReadNext"} /\ UNCHANGED <<clientVars, dataVars, srvOpen>>
      /\ pos \in 0..NRows /\ srvOpen' \in BOOLEAN /\ Asked \notin BlobPcs
  BY DEF SrvRead, TypeOK, BlobPcs
<1>2. base \in Nat /\ base <= NRows /\ left \in Nat /\ base + left = NRows
  BY <1>1, Sizes DEF ReadBase
<1>3. outcome = "running" /\ ~lost /\ pc = "Read" => base = Len(emitted)
  <2> SUFFICES ASSUME outcome = "running", ~lost, pc = "Read" PROVE base = Len(emitted)
    OBVIOUS
  <2>1. replies = <<>> /\ Asked = IF first THEN "ReadFirst" ELSE "ReadNext"
    BY <1>1, AskedLemma DEF Kind
  <2>2. first => Len(emitted) = 0
    BY EmptySeq DEF BatchInv
  <2>3. ~first => pos = Len(emitted)
    BY <2>1 DEF BatchInv
  <2>4. QED
    BY <2>1, <2>2, <2>3 DEF ReadBase, TypeOK
<1>4. /\ <<>> \in Seq(1..NRows) /\ Len(<<>>) = 0
      /\ {"ok", "end", "blank", "malformed"} \subseteq Statuses \ BlobStatuses
  BY EmptySeq DEF Statuses, BlobStatuses
<1> HIDE DEF base, left
<1>5. ASSUME NEW n \in Nat, n <= left, NEW status \in {"ok", "end"}, Reply(status, Block(n)),
             pos' = base + n, status = "end" => n = left
      PROVE  ScanInv'
  <2>1. base + n <= NRows
    BY <1>2, <1>5, Sizes
  <2>2. /\ Block(n) \in Seq(1..NRows) /\ Len(Block(n)) = n
        /\ \A i \in 1..n : Block(n)[i] = base + i
    BY <1>2, <2>1, BlockLemma DEF base
  <2>3. pos' \in 0..NRows
    BY <1>2, <1>5, <2>1, Sizes
  <2>4. status = "end" => pos' = NRows
    BY <1>2, <1>5
  <2>5. QED
    BY <1>1, <1>3, <1>4, <1>5, <2>2, <2>3, <2>4, ServerInv
<1>6. ASSUME Reply("blank", <<>>), pos' = base, left = 0
      PROVE  ScanInv'
  <2>1. pos' \in 0..NRows /\ pos' = NRows
    BY <1>2, <1>6, Sizes
  <2>2. outcome = "running" /\ ~lost /\ pc = "Read" => pos' = Len(emitted) + Len(<<>>)
    BY <1>2, <1>3, <1>4, <1>6
  <2>3. \A i \in 1..Len(<<>>) : <<>>[i] = Len(emitted) + i
    BY <1>4
  <2>4. QED
    BY <1>1, <1>4, <1>6, <2>1, <2>2, <2>3, ServerInv
<1>7. ASSUME Reply("malformed", <<>>), UNCHANGED pos
      PROVE  ScanInv'
  BY <1>1, <1>4, <1>7, ServerInv
<1>8. \/ \E n \in 0..Min2(BatchSize, left) : Reply("ok", Block(n)) /\ pos' = base + n
      \/ left <= BatchSize /\ Reply("end", Block(left)) /\ pos' = NRows
      \/ left = 0 /\ Reply("blank", <<>>) /\ pos' = base
      \/ Reply("malformed", <<>>) /\ UNCHANGED pos
  BY DEF SrvRead, base, left
<1>9. CASE \E n \in 0..Min2(BatchSize, left) : Reply("ok", Block(n)) /\ pos' = base + n
  <2>1. PICK n \in 0..Min2(BatchSize, left) : Reply("ok", Block(n)) /\ pos' = base + n
    BY <1>9
  <2>2. n \in Nat /\ n <= left
    BY <1>2, <2>1, Sizes DEF Min2
  <2>3. QED
    BY <1>5, <2>1, <2>2
<1>10. CASE left <= BatchSize /\ Reply("end", Block(left)) /\ pos' = NRows
  BY <1>2, <1>5, <1>10
<1>11. CASE left = 0 /\ Reply("blank", <<>>) /\ pos' = base
  BY <1>6, <1>11
<1>12. QED
  BY <1>7, <1>8, <1>9, <1>10, <1>11

LEMMA SrvBlobInv ==
    ASSUME ScanInv, SrvBlob
    PROVE  ScanInv'
<1>1. /\ Pending /\ Asked \in BlobPcs /\ UNCHANGED <<clientVars, dataVars, srvVars>>
      /\ \E status \in BlobStatuses : Reply(status, <<>>)
  BY DEF SrvBlob, BlobPcs, BlobStatuses
<1>2. ~(outcome = "running" /\ ~lost /\ pc = "Read")
  BY <1>1, NotReading DEF BlobPcs
<1>3. pos' \in 0..NRows /\ srvOpen' \in BOOLEAN /\ pos' = pos
  BY <1>1 DEF ScanInv, TypeOK, srvVars
<1>4. PICK status \in BlobStatuses : Reply(status, <<>>)
  BY <1>1
<1>5. status \in Statuses /\ <<>> \in Seq(1..NRows)
  BY EmptySeq DEF Statuses, BlobStatuses
<1>6. QED
  BY <1>1, <1>2, <1>3, <1>4, <1>5, ServerInv

LEMMA DropInv ==
    ASSUME ScanInv, Drop
    PROVE  ScanInv'
<1> USE DEF ScanInv
<1>0. UNCHANGED <<log, handled, replies, clientVars, dataVars, srvVars>> /\ link' = "fin" /\ link = "up"
  BY DEF Drop, Disconnect
<1>1. TypeOK' /\ InSync' /\ ReplyInv' /\ LostInv'
  BY <1>0 DEF TypeOK, InSync, WentPast, Unread, ReplyInv, Stray, EndsCursor, LostInv, Reading,
              clientVars, dataVars, srvVars
<1>2. ControlInv' /\ BatchInv'
  BY <1>0 DEF ControlInv, Kind, BatchInv, BatchBase, Cell, clientVars, dataVars, srvVars
<1>3. RowsInOrder' /\ CompleteWhenDone'
  BY <1>0, KeepsEmitted DEF clientVars, dataVars
<1>4. QED
  BY <1>1, <1>2, <1>3

LEMMA StutterInv ==
    ASSUME ScanInv, UNCHANGED vars
    PROVE  ScanInv'
BY DEF ScanInv, TypeOK, InSync, WentPast, Unread, ControlInv, Kind, BatchInv, BatchBase, ReplyInv,
       Stray, EndsCursor, LostInv, Reading, RowsInOrder, CompleteWhenDone, Cell, vars, netVars,
       clientVars, dataVars, srvVars

-----------------------------------------------------------------------------
\* Every step of the session keeps the inductive invariant.
THEOREM NextInv == ScanInv /\ [Next]_vars => ScanInv'
<1> SUFFICES ASSUME ScanInv, [Next]_vars PROVE ScanInv'
  OBVIOUS
<1>1. CASE Client
  BY <1>1, CallInv, CallThrowsInv, CallKillsInv, AnswerThrowsInv, IgnoredReplyInv, PrepareReplyInv,
     PollReplyInv, SetToBeginReplyInv, ReadReplyInv, FetchReplyInv, FlushReplyInv, PullInv, EmitVectorInv,
     AbandonInv, HangupInv
  DEF Client, Returning
<1>2. CASE Server
  BY <1>2, SrvAckInv, SrvPrepareInv, SrvExecuteInv, SrvReadInv, SrvBlobInv DEF Server
<1>3. CASE Drop
  BY <1>3, DropInv
<1>4. CASE Over \/ UNCHANGED vars
  BY <1>4, StutterInv DEF Over
<1>5. QED
  BY <1>1, <1>2, <1>3, <1>4 DEF Next

\* The inductive invariant holds in every reachable state.
THEOREM ScanInvariant == Spec => []ScanInv
BY InitInv, NextInv, PTL DEF Spec

\* Types, the poll limit included, hold throughout.
THEOREM TypeCorrect == Spec => []TypeOK
<1>1. ScanInv => TypeOK
  BY DEF ScanInv
<1>2. QED
  BY <1>1, ScanInvariant, PTL

\* While the scan is alive, send_recv returns the reply to its own request,
\* through logins, polls, blocks and blobs: unless LENIENT_DECODE has gone past
\* a blob request on which the connection failed.
THEOREM StaysInSync == Spec => []InSync
<1>1. ScanInv => InSync
  BY DEF ScanInv
<1>2. QED
  BY <1>1, ScanInvariant, PTL

\* The rows reach DuckDB in order, none lost, repeated or shifted.
THEOREM DeliversInOrder == Spec => []RowsInOrder
<1>1. ScanInv => RowsInOrder
  BY DEF ScanInv
<1>2. QED
  BY <1>1, ScanInvariant, PTL

\* The end is reported after the last row only, with the same exception.
THEOREM DeliversAll == Spec => []CompleteWhenDone
<1>1. ScanInv => CompleteWhenDone
  BY DEF ScanInv
<1>2. QED
  BY <1>1, ScanInvariant, PTL

-----------------------------------------------------------------------------
(***************************************************************************)
(* The session implements ScanContract, for every value of the constants:  *)
(* its steps deliver the next rows of the result, finish after the last    *)
(* one, give up, lose step over a blob, or do not show.  The mapping is    *)
(* the identity on opts, emitted, outcome and lost.                        *)
(***************************************************************************)

\* A step that shows nothing to DuckDB, or only how the scan ended.
LEMMA QuietStep ==
    ASSUME ScanInv, ScanInv', UNCHANGED <<opts, emitted, lost>>, outcome' = outcome \/ outcome = "running"
    PROVE  [Contract!Next]_<<opts, emitted, outcome, lost>>
<1>1. CASE outcome' = outcome
  BY <1>1
<1>2. CASE outcome = "running" /\ outcome' = "done"
  <2>1. Len(emitted) = NRows \/ lost
    BY <1>2 DEF ScanInv, CompleteWhenDone, WentPast
  <2>2. QED
    BY <1>2, <2>1 DEF Contract!Next, Contract!Finish
<1>3. CASE outcome = "running" /\ outcome' \in {"failed", "stopped"}
  BY <1>3 DEF Contract!Next, Contract!GiveUp
<1>4. QED
  BY <1>1, <1>2, <1>3 DEF ScanInv, TypeOK, Outcomes

\* The number of rows of one vector.
LEMMA VectorSizeLemma ==
    ASSUME ScanInv, EmitVector
    PROVE  \E n \in 1..VectorSize : Len(emitted') = Len(emitted) + n
<1> USE DEF ScanInv
<1> DEFINE m == IF Len(batch) - offset < VectorSize THEN Len(batch) - offset ELSE VectorSize
<1>1. /\ batch \in Seq(0..NRows) /\ Len(batch) \in Nat
      /\ offset \in Nat /\ offset < Len(batch)
      /\ emitted \in Seq(0..NRows) /\ Len(emitted) \in Nat
  BY LenProperties DEF TypeOK, EmitVector
<1>2. m \in 1..VectorSize /\ m \in Nat /\ offset + m <= Len(batch)
  BY <1>1, Sizes
<1>3. emitted' = emitted \o SubSeq(batch, offset + 1, offset + m)
  BY DEF EmitVector
<1> HIDE DEF m
<1>4. Len(emitted') = Len(emitted) + m
  <2> DEFINE S == 0..NRows
  <2>1. batch \in Seq(S) /\ emitted \in Seq(S)
    BY <1>1
  <2> HIDE DEF S
  <2>2. QED
    BY <1>1, <1>2, <1>3, <2>1, SliceLemma
<1>5. QED
  BY <1>2, <1>4

\* A vector handed to DuckDB is the contract's Deliver.
LEMMA EmitVectorDelivers ==
    ASSUME ScanInv, EmitVector
    PROVE  Contract!Deliver
<1>1. PICK n \in 1..VectorSize : Len(emitted') = Len(emitted) + n
  BY VectorSizeLemma
<1> DEFINE upTo == Len(emitted) + n
           next == [i \in 1..upTo |-> IF i <= Len(emitted) THEN emitted[i] ELSE Contract!Cell(i)]
<1>2. /\ Len(emitted) \in Nat /\ upTo \in Nat /\ n \in Nat
      /\ \A i \in 1..Len(emitted) : emitted[i] = Cell(i)
  BY LenProperties, <1>1, Sizes DEF ScanInv, TypeOK, RowsInOrder
<1>3. /\ outcome = "running" /\ upTo <= NRows /\ emitted' \in Seq(0..NRows)
      /\ \A i \in 1..upTo : emitted'[i] = Cell(i) /\ (~opts.lenient => i \notin opts.bad)
  BY <1>1, VectorLemma
<1>4. \A i : Contract!Cell(i) = Cell(i)
  BY DEF Contract!Cell, Cell
<1>5. emitted' = next
  <2>1. \A i \in 1..upTo : next[i] = Cell(i)
    BY <1>2, <1>4
  <2>2. emitted' \in [1..upTo -> 0..NRows]
    BY <1>1, <1>3, LenProperties
  <2>3. DOMAIN emitted' = 1..upTo /\ emitted' = [i \in 1..upTo |-> emitted'[i]]
    BY <2>2
  <2>4. QED
    BY <1>3, <2>1, <2>3
<1>6. opts.lenient \/ \A i \in (Len(emitted) + 1)..upTo : i \notin opts.bad
  <2>1. \A i \in (Len(emitted) + 1)..upTo : i \in 1..upTo
    BY <1>2
  <2>2. QED
    BY <1>3, <2>1
<1>7. UNCHANGED <<opts, outcome, lost>>
  BY DEF EmitVector
<1>8. QED
  BY <1>3, <1>5, <1>6, <1>7 DEF Contract!Deliver

\* Every step of the session is a step of the contract, or does not show.
LEMMA StepRefines ==
    ASSUME ScanInv, ScanInv', [Next]_vars
    PROVE  [Contract!Next]_<<opts, emitted, outcome, lost>>
<1>1. CASE EmitVector
  BY <1>1, EmitVectorDelivers DEF Contract!Next
<1>2. CASE Server \/ Drop \/ Over \/ UNCHANGED vars
  BY <1>2 DEF Server, SrvAck, SrvPrepare, SrvExecute, SrvRead, SrvBlob, Drop, Over, vars, clientVars,
              dataVars
<1>3. CASE Call \/ IgnoredReply \/ SetToBeginReply \/ FlushReply \/ Hangup
  BY <1>3 DEF Call, IgnoredReply, SetToBeginReply, FlushReply, Hangup, dataVars
<1>4. CASE CallThrows \/ AnswerThrows
  <2>1. pc \in CallPcs /\ Throws /\ UNCHANGED <<opts, emitted>>
    BY <1>4, FaultLemma DEF Throws
  <2>2. CASE UNCHANGED <<outcome, lost>>
    BY <2>1, <2>2
  <2>3. CASE pc = "Fetch" /\ opts.lenient /\ lost' = TRUE /\ UNCHANGED outcome
    <3>1. outcome = "running"
      BY <2>3 DEF ScanInv, ControlInv, RunningPcs, BlobPcs
    <3>2. QED
      BY <2>1, <2>3, <3>1 DEF Contract!Next, Contract!LoseStep
  <2>4. CASE pc \notin CleanupPcs /\ UNCHANGED lost
    <3>1. outcome = "running"
      BY <2>1, <2>4 DEF CallPcs, RunningPcs, OpeningPcs, ScanInv, ControlInv
    <3>2. QED
      BY <2>1, <2>4, <3>1, QuietStep
  <2>5. QED
    BY <2>1, <2>2, <2>3, <2>4 DEF Throws
<1>5. CASE CallKills
  BY <1>5, QuietStep DEF CallKills
<1>6. CASE PrepareReply \/ PollReply \/ ReadReply \/ FetchReply \/ Pull \/ Abandon \/ SchemaChanged
  <2>1. pc \in RunningPcs
    BY <1>6 DEF PrepareReply, PollReply, ReadReply, FetchReply, Pull, Abandon, SchemaChanged, RunningPcs,
                OpeningPcs, BlobPcs
  <2>2. outcome = "running"
    BY <2>1 DEF ScanInv, ControlInv
  <2>3. UNCHANGED <<opts, emitted, lost>>
    BY <1>6 DEF PrepareReply, PollReply, ReadReply, ReadFails, ReadEnds, EmptyBlock, BatchRead, FetchReply,
                Pull, Abandon, SchemaChanged
  <2>4. QED
    BY <2>2, <2>3, QuietStep
<1>7. QED
  BY <1>1, <1>2, <1>3, <1>4, <1>5, <1>6 DEF Next, Client, Returning

\* The scan of the code is a scan of the contract: what DuckDB sees is the
\* rows of the result, in order, in vectors, with an end only after the last
\* or after LENIENT_DECODE has lost step with the server.
THEOREM Refinement == Spec => ImplementsContract
<1>1. Init => Contract!Init
  BY DEF Init, Contract!Init
<1>2. ScanInv /\ ScanInv' /\ [Next]_vars => [Contract!Next]_<<opts, emitted, outcome, lost>>
  BY StepRefines
<1>3. QED
  BY <1>1, <1>2, ScanInvariant, PTL DEF Spec, ImplementsContract, Contract!Spec

-----------------------------------------------------------------------------
(***************************************************************************)
(* What a scan leaves behind on the server, for every size and every       *)
(* fault: the requests of the clean-up go out in order, once, and last;    *)
(* and a server that has read them all has closed the cursor.              *)
(***************************************************************************)

-----------------------------------------------------------------------------
(***************************************************************************)
(* The log.                                                                *)
(***************************************************************************)

LEMMA OrderLemma ==
    /\ Len(CleanupOrder) = 3
    /\ \A k \in 1..3 : CleanupOrder[k] \in CleanupPcs
    /\ CleanupOrder[1] = "CloseCursor"
    /\ CleanupOrder[2] = "ResetStatement"
    /\ CleanupOrder[3] = "RemoveTables"
BY DEF CleanupOrder, CleanupPcs

\* A request that is not of the clean-up, written before any that is.
LEMMA WritesOther ==
    ASSUME TypeOK, Call, Cleaned(0), Kind \notin CleanupPcs
    PROVE  Cleaned(0)'
<1>1. \A k \in 1..Len(log) : log[k] \notin CleanupPcs
  BY LogLemma DEF Cleaned
<1>2. \A k \in 1..Len(log') : log'[k] \notin CleanupPcs
  <2> SUFFICES ASSUME NEW k \in 1..Len(log') PROVE log'[k] \notin CleanupPcs
    OBVIOUS
  <2>1. CASE k = Len(log) + 1
    BY <2>1, WrittenLemma
  <2>2. CASE k # Len(log) + 1
    BY <1>1, <2>2, WrittenLemma
  <2>3. QED
    BY <2>1, <2>2
<1>3. QED
  BY <1>2, WrittenLemma DEF Cleaned

\* The next request of the clean-up.
LEMMA WritesNext ==
    ASSUME TypeOK, Call, NEW n \in 0..2, Cleaned(n), Kind = CleanupOrder[n + 1]
    PROVE  Cleaned(n + 1)'
<1>1. /\ Len(log) \in Nat /\ n <= Len(log)
      /\ \A k \in 1..n : log[Len(log) - n + k] = CleanupOrder[k]
      /\ \A k \in 1..(Len(log) - n) : log[k] \notin CleanupPcs
  BY LogLemma DEF Cleaned
<1>2. Len(log') - (n + 1) = Len(log) - n /\ n + 1 <= Len(log')
  BY <1>1, WrittenLemma
<1>3. \A k \in 1..(Len(log) - n) : log'[k] \notin CleanupPcs
  <2>1. 1..(Len(log) - n) \subseteq 1..Len(log)
    BY <1>1
  <2>2. QED
    BY <1>1, <2>1, WrittenLemma
<1>4. \A k \in 1..(n + 1) : log'[Len(log) - n + k] = CleanupOrder[k]
  <2> SUFFICES ASSUME NEW k \in 1..(n + 1) PROVE log'[Len(log) - n + k] = CleanupOrder[k]
    OBVIOUS
  <2>1. CASE k = n + 1
    BY <1>1, <2>1, WrittenLemma
  <2>2. CASE k # n + 1
    <3>1. k \in 1..n /\ Len(log) - n + k \in 1..Len(log)
      BY <1>1, <2>2
    <3>2. QED
      BY <1>1, <3>1, WrittenLemma
  <2>3. QED
    BY <2>1, <2>2
<1>5. QED
  BY <1>2, <1>3, <1>4 DEF Cleaned

\* Requests of the clean-up are followed by none that could open a cursor.
LEMMA NothingOpensLater ==
    ASSUME TypeOK, CleanupProtocol, NEW k \in 1..Len(log), log[k] = "CloseCursor"
    PROVE  \A j \in k..Len(log) : log[j] \in CleanupPcs
<1>1. PICK n \in 0..3 : Cleaned(n)
  BY OrderLemma DEF CleanupProtocol
<1>2. /\ Len(log) \in Nat /\ n <= Len(log)
      /\ \A i \in 1..n : log[Len(log) - n + i] = CleanupOrder[i]
      /\ \A i \in 1..(Len(log) - n) : log[i] \notin CleanupPcs
  BY <1>1, LogLemma DEF Cleaned
<1>3. k > Len(log) - n
  BY <1>2 DEF CleanupPcs
<1> SUFFICES ASSUME NEW j \in k..Len(log) PROVE log[j] \in CleanupPcs
  OBVIOUS
<1>4. j - (Len(log) - n) \in 1..n /\ Len(log) - n + (j - (Len(log) - n)) = j
  BY <1>2, <1>3
<1>5. log[j] = CleanupOrder[j - (Len(log) - n)]
  BY <1>2, <1>4
<1>6. QED
  BY <1>4, <1>5, OrderLemma

-----------------------------------------------------------------------------
(***************************************************************************)
(* What has been sent.                                                     *)
(***************************************************************************)

\* A step that writes nothing keeps the log, the network a reset.
LEMMA SilentLemma ==
    ASSUME UNCHANGED log
    PROVE  /\ \A n : Cleaned(n)' <=> Cleaned(n)
           /\ CleanupProtocol' <=> CleanupProtocol
BY DEF Cleaned, CleanupProtocol

LEMMA CallSent ==
    ASSUME ScanInv, SentInv, Call
    PROVE  SentInv'
<1>1. TypeOK /\ pc \in CallPcs /\ ~waiting /\ waiting' /\ pc' = pc /\ link # "reset"
  BY DEF ScanInv, Call, Send
<1>2. CASE pc \notin CleanupPcs
  <2>1. Kind \notin CleanupPcs
    BY <1>2 DEF Kind, CleanupPcs
  <2>2. pc \in RunningPcs
    BY <1>1, <1>2 DEF CallPcs, RunningPcs, OpeningPcs
  <2>3. Cleaned(0)'
    BY <1>1, <2>1, <2>2, WritesOther DEF SentInv
  <2>4. CleanupProtocol'
    BY <2>3, OrderLemma DEF CleanupProtocol
  <2>5. QED
    BY <1>1, <1>2, <2>3, <2>4 DEF SentInv
<1>3. CASE pc \in CleanupPcs
  <2>1. PICK n \in 0..2 : n = CleanedBefore[pc] /\ Kind = CleanupOrder[n + 1]
    BY <1>3, OrderLemma DEF CleanedBefore, CleanupPcs, Kind
  <2>2. Cleaned(n + 0)
    BY <1>1, <1>3, <2>1 DEF SentInv
  <2>3. Cleaned(n)
    BY <2>2
  <2>4. Cleaned(n + 1)'
    BY <1>1, <2>1, <2>3, WritesNext
  <2>5. n + 1 \in 0..Len(CleanupOrder)
    BY OrderLemma
  <2>6. CleanupProtocol'
    BY <2>4, <2>5 DEF CleanupProtocol
  <2>7. pc' \notin RunningPcs
    BY <1>1, <1>3 DEF RunningPcs, OpeningPcs, LoginPcs, CleanupPcs, BlobPcs
  <2>8. QED
    BY <1>1, <2>1, <2>4, <2>6, <2>7 DEF SentInv
<1>4. QED
  BY <1>2, <1>3

\* A step that writes nothing and stays at its call, or goes on from a live
\* scan to anywhere but the middle of the clean-up.
LEMMA SilentSent ==
    ASSUME SentInv, UNCHANGED log,
           \/ pc' = pc /\ waiting' = waiting
           \/ pc \in RunningPcs /\ pc' \notin {"ResetStatement", "RemoveTables"} /\ ~waiting'
           \/ pc' \in {"Hangup", "Closed", "Killed"},
           link' # "reset" => link # "reset"
    PROVE  SentInv'
<1>1. CleanupProtocol'
  BY SilentLemma DEF SentInv
<1>2. CASE pc' = pc /\ waiting' = waiting
  BY <1>1, <1>2, SilentLemma DEF SentInv
<1>3. CASE pc \in RunningPcs /\ pc' \notin {"ResetStatement", "RemoveTables"} /\ ~waiting'
  <2>1. Cleaned(0)'
    BY <1>3, SilentLemma DEF SentInv
  <2>2. pc' \in CleanupPcs => CleanedBefore[pc'] = 0
    BY <1>3 DEF CleanupPcs, CleanedBefore
  <2>3. QED
    BY <1>1, <1>3, <2>1, <2>2 DEF SentInv
<1>4. CASE pc' \in {"Hangup", "Closed", "Killed"}
  BY <1>1, <1>4 DEF SentInv, RunningPcs, OpeningPcs, LoginPcs, CleanupPcs, BlobPcs
<1>5. QED
  BY <1>2, <1>3, <1>4

\* A step of a live scan that forgets its last request.
LEMMA ForgetSent ==
    ASSUME ScanInv, SentInv, ReturnsForgetting, pc \in RunningPcs,
           pc' \notin {"ResetStatement", "RemoveTables"}
    PROVE  SentInv'
<1>1. ~waiting' /\ Cleaned(0)
  BY DEF ReturnsForgetting, SentInv
<1>2. /\ Len(log) \in Nat /\ Len(log') \in Nat /\ Len(log') <= Len(log)
      /\ \A k \in 1..Len(log') : log'[k] = log[k]
  BY ForgetLemma, LogLemma DEF ScanInv, ControlInv, ReturnsForgetting
<1>3. Cleaned(0)'
  BY <1>1, <1>2 DEF Cleaned
<1>4. CleanupProtocol'
  BY <1>3, OrderLemma DEF CleanupProtocol
<1>5. pc' \in CleanupPcs => CleanedBefore[pc'] = 0
  BY DEF CleanupPcs, CleanedBefore
<1>6. QED
  BY <1>1, <1>3, <1>4, <1>5 DEF SentInv

\* The answer to a call of the clean-up, or its failure.
LEMMA AfterSent ==
    ASSUME SentInv, UNCHANGED log, pc \in CleanupPcs, pc' = After[pc], ~waiting',
           waiting \/ link = "reset",
           link' # "reset" => link # "reset"
    PROVE  SentInv'
<1>1. CleanupProtocol'
  BY SilentLemma DEF SentInv
<1>2. pc' \notin RunningPcs
  BY AfterLemma DEF RunningPcs, OpeningPcs, LoginPcs, BlobPcs
<1>3. ASSUME link' # "reset", pc' \in CleanupPcs
      PROVE  /\ Cleaned(CleanedBefore[pc] + 1)
             /\ CleanedBefore[pc'] = CleanedBefore[pc] + 1 /\ CleanedBefore[pc] \in Nat
  BY <1>3 DEF SentInv, CleanedBefore, CleanupPcs, After
<1>4. ASSUME NEW n \in Nat, n = CleanedBefore[pc] + 1, Cleaned(n) PROVE Cleaned(n)'
  BY <1>4, SilentLemma
<1>5. ASSUME link' # "reset", pc' \in CleanupPcs
      PROVE  (Cleaned(CleanedBefore[pc] + IF waiting THEN 1 ELSE 0))'
  <2>1. PICK n \in Nat : n = CleanedBefore[pc'] + IF waiting' THEN 1 ELSE 0
    BY <1>3, <1>5
  <2>2. n = CleanedBefore[pc] + 1 /\ Cleaned(n)
    BY <1>3, <1>5, <2>1
  <2>3. Cleaned(n)'
    BY <1>4, <2>2
  <2>4. QED
    BY <2>1, <2>3
<1>6. QED
  BY <1>1, <1>2, <1>5 DEF SentInv

LEMMA SentStep ==
    ASSUME ScanInv, SentInv, [Next]_vars
    PROVE  SentInv'
<1>1. CASE Call
  BY <1>1, CallSent
<1>2. CASE CallThrows \/ AnswerThrows
  <2>1. /\ UNCHANGED log /\ Throws /\ pc \in CallPcs
        /\ waiting \/ link = "reset"
        /\ link' # "reset" => link # "reset"
    BY <1>2, FaultLemma DEF Fault
  <2>2. CASE pc \in CleanupPcs
    BY <2>1, <2>2, AfterSent DEF Throws, CleanupPcs
  <2>3. CASE pc \notin CleanupPcs
    <3>1. pc \in RunningPcs
      BY <2>1, <2>3 DEF CallPcs, RunningPcs, OpeningPcs
    <3>2. pc' \in {"CloseCursor", "Hangup", "Emit", "Fetch", "Flush"} /\ ~waiting'
      BY <2>1, <2>3 DEF Throws, Teardown, NextFetch, BlobPcs
    <3>3. QED
      BY <2>1, <3>1, <3>2, SilentSent
  <2>4. QED
    BY <2>2, <2>3
<1>3. CASE IgnoredReply
  <2>1. /\ UNCHANGED <<log, link>> /\ waiting /\ ~waiting' /\ pc' = After[pc]
        /\ pc \in LoginPcs \cup CleanupPcs
    BY <1>3 DEF IgnoredReply, Returns, Receive
  <2>2. CASE pc \in CleanupPcs
    BY <2>1, <2>2, AfterSent
  <2>3. CASE pc \in LoginPcs
    <3>1. pc \in RunningPcs /\ pc' \in LoginPcs \cup {"Prepare"}
      BY <2>3, <2>1, AfterLemma DEF RunningPcs, OpeningPcs
    <3>2. pc' \notin {"ResetStatement", "RemoveTables"}
      BY <3>1 DEF LoginPcs
    <3>3. QED
      BY <2>1, <3>1, <3>2, SilentSent
  <2>4. QED
    BY <2>1, <2>2, <2>3
<1>4. CASE PrepareReply \/ PollReply \/ SetToBeginReply \/ (pc = "Read" /\ (ReadFails \/ ReadEnds))
  <2>1. UNCHANGED <<log, link>> /\ ~waiting' /\ pc \in RunningPcs
    BY <1>4 DEF PrepareReply, PollReply, SetToBeginReply, ReadFails, ReadEnds, Returns, Receive, RunningPcs,
                OpeningPcs
  <2>2. pc' \notin {"ResetStatement", "RemoveTables"}
    BY <1>4 DEF PrepareReply, PollReply, SetToBeginReply, ReadFails, ReadEnds, Teardown
  <2>3. QED
    BY <2>1, <2>2, SilentSent
<1>4a. CASE (pc = "Read" /\ (EmptyBlock \/ BatchRead)) \/ FetchReply \/ FlushReply
  <2>1. ReturnsForgetting /\ pc \in RunningPcs /\ pc' \notin {"ResetStatement", "RemoveTables"}
    BY <1>4a DEF EmptyBlock, BatchRead, FetchReply, FlushReply, NextFetch, Teardown, RunningPcs, BlobPcs
  <2>2. QED
    BY <2>1, ForgetSent
<1>5. CASE Pull \/ EmitVector \/ Abandon \/ SchemaChanged
  <2>1. UNCHANGED <<log, link, waiting>> /\ pc \in {"Idle", "Emit"}
    BY <1>5 DEF Pull, EmitVector, Abandon, SchemaChanged, netVars
  <2>2. pc \in RunningPcs /\ ~waiting'
    BY <2>1 DEF RunningPcs, ScanInv, ControlInv, CallPcs, LoginPcs, CleanupPcs, BlobPcs
  <2>3. pc' \notin {"ResetStatement", "RemoveTables"}
    BY <1>5 DEF Pull, EmitVector, Abandon, SchemaChanged, Teardown
  <2>4. QED
    BY <2>1, <2>2, <2>3, SilentSent
<1>6. CASE CallKills \/ Hangup
  <2>1. UNCHANGED log /\ pc' \in {"Closed", "Killed"}
    BY <1>6 DEF CallKills, Hangup, SendBroken, CloseSocket, netVars
  <2>2. CleanupProtocol'
    BY <2>1, SilentLemma DEF SentInv
  <2>3. QED
    BY <2>1, <2>2 DEF SentInv, RunningPcs, OpeningPcs, LoginPcs, CleanupPcs, BlobPcs
<1>7. CASE Server \/ Drop \/ Over \/ UNCHANGED vars
  <2>1. UNCHANGED <<log, pc, waiting>> /\ (link' # "reset" => link # "reset")
    BY <1>7 DEF Server, SrvAck, SrvPrepare, SrvExecute, SrvRead, SrvBlob, Reply, Drop, Disconnect, Over, vars,
       netVars, clientVars
  <2>2. QED
    BY <2>1, SilentSent
<1>8. QED
  BY <1>1, <1>2, <1>3, <1>4, <1>4a, <1>5, <1>6, <1>7 DEF Next, Client, Returning, ReadReply

-----------------------------------------------------------------------------
(***************************************************************************)
(* What the server has read.                                               *)
(***************************************************************************)

Closing   == \E k \in 1..Len(log) : log[k] = "CloseCursor"
Unheard   == link \in {"reset", "down"} /\ handled < Len(log)
PastClose == \/ pc \in {"ResetStatement", "RemoveTables"}
             \/ pc \in {"Hangup", "Closed"} /\ opened

\* CloseInv in these words.
LEMMA CloseInvLemma ==
    CloseInv <=> /\ link = "reset" => handled < Len(log)
                 /\ PastClose => Closing \/ Unheard
                 /\ srvOpen => \A k \in 1..handled : log[k] # "CloseCursor"
BY DEF CloseInv, PastClose, Closing, Unheard

\* The client's steps that write nothing, with what they may change.
LEMMA SilentClose ==
    ASSUME CloseInv, UNCHANGED <<log, handled, srvOpen>>,
           \/ link' \in {link, "down"}
           \/ link = "up" /\ link' # "reset",
           PastClose' => PastClose \/ Closing \/ Unheard
    PROVE  CloseInv'
<1>1. Closing' <=> Closing
  BY DEF Closing
<1>2. Unheard => Unheard'
  BY DEF Unheard
<1>3. link' = "reset" => link = "reset"
  OBVIOUS
<1>4. srvOpen' => \A k \in 1..handled' : log'[k] # "CloseCursor"
  BY CloseInvLemma
<1>5. PastClose' => Closing' \/ Unheard'
  BY <1>1, <1>2, CloseInvLemma
<1>6. link' = "reset" => handled' < Len(log')
  BY <1>3, CloseInvLemma
<1>7. QED
  BY <1>4, <1>5, <1>6, CloseInvLemma DEF CloseInv, PastClose, Closing, Unheard

\* A live scan that forgets its last request.
LEMMA ForgetClose ==
    ASSUME ScanInv, CloseInv, ReturnsForgetting, pc \in RunningPcs, UNCHANGED srvVars, ~PastClose'
    PROVE  CloseInv'
<1>1. /\ handled \in Nat /\ handled <= Len(log) /\ Len(log) \in Nat
      /\ handled' \in Nat /\ handled' <= handled /\ handled' <= Len(log') /\ Len(log') \in Nat
      /\ \A k \in 1..Len(log') : log'[k] = log[k]
      /\ link' # "reset" /\ srvOpen' = srvOpen
  BY ForgetLemma, LogLemma DEF ScanInv, ControlInv, ReturnsForgetting, srvVars
<1>2. srvOpen' => \A k \in 1..handled' : log'[k] # "CloseCursor"
  BY <1>1, CloseInvLemma
<1>3. QED
  BY <1>1, <1>2 DEF CloseInv, PastClose

LEMMA CallClose ==
    ASSUME ScanInv, CloseInv, Call
    PROVE  CloseInv'
<1>1. /\ TypeOK /\ Len(log) \in Nat /\ Len(log') = Len(log) + 1
      /\ \A k \in 1..Len(log) : log'[k] = log[k]
      /\ handled \in Nat /\ handled <= Len(log)
      /\ UNCHANGED <<handled, pc, opened, srvOpen>> /\ link \in {"up", "fin", "torn"}
  BY WrittenLemma, LogLemma DEF ScanInv, Call, Send, srvVars
<1>2. link' = "reset" => handled' < Len(log')
  BY <1>1
<1>3. PastClose' => Closing'
  <2> SUFFICES ASSUME PastClose' PROVE Closing'
    OBVIOUS
  <2>1. PastClose /\ ~Unheard
    BY <1>1 DEF PastClose, Unheard
  <2>2. PICK k \in 1..Len(log) : log[k] = "CloseCursor"
    BY <2>1, CloseInvLemma DEF Closing
  <2>3. k \in 1..Len(log') /\ log'[k] = "CloseCursor"
    BY <1>1, <2>2
  <2>4. QED
    BY <2>3 DEF Closing
<1>4. srvOpen' => \A k \in 1..handled' : log'[k] # "CloseCursor"
  <2>1. 1..handled \subseteq 1..Len(log)
    BY <1>1
  <2>2. QED
    BY <1>1, <2>1, CloseInvLemma
<1>5. QED
  BY <1>2, <1>3, <1>4 DEF CloseInv, PastClose, Closing, Unheard

\* The call of CloseCursor is over: it was written, or met a reset connection.
LEMMA CloseOver ==
    ASSUME ScanInv, SentInv, CloseInv, pc = "CloseCursor", waiting \/ link = "reset"
    PROVE  Closing \/ Unheard
<1>1. CASE link = "reset"
  BY <1>1, CloseInvLemma DEF Unheard
<1>2. CASE waiting /\ link # "reset"
  <2>1. Cleaned(0 + 1)
    BY <1>2 DEF SentInv, CleanupPcs, CleanedBefore
  <2>2. 1 <= Len(log) /\ log[Len(log) - 1 + 1] = CleanupOrder[1] /\ Len(log) \in Nat
    BY <2>1, LogLemma DEF Cleaned, ScanInv
  <2>3. Len(log) \in 1..Len(log) /\ log[Len(log)] = "CloseCursor"
    BY <2>2, OrderLemma
  <2>4. QED
    BY <2>3 DEF Closing
<1>3. QED
  BY <1>1, <1>2

\* An answered request.  A server that has read CloseCursor reads nothing
\* later that would open the cursor again.
LEMMA ServerClose ==
    ASSUME ScanInv, SentInv, CloseInv, UNCHANGED <<log, link, pc, opened>>,
           Pending, handled' = handled + 1,
           srvOpen' => srvOpen \/ Asked \notin CleanupPcs,
           srvOpen' => Asked # "CloseCursor"
    PROVE  CloseInv'
<1>1. /\ TypeOK /\ CleanupProtocol /\ Len(log) \in Nat /\ handled \in Nat
      /\ handled < Len(log) /\ link \in {"up", "torn"}
  BY LogLemma DEF ScanInv, SentInv, Pending
<1>2. PastClose' => Closing'
  BY <1>1, CloseInvLemma DEF PastClose, Closing, Unheard
<1>3. ASSUME srvOpen', NEW k \in 1..handled' PROVE log'[k] # "CloseCursor"
  <2>1. CASE k = handled + 1
    BY <1>3, <2>1 DEF Asked
  <2>2. CASE k # handled + 1
    <3>1. k \in 1..handled /\ k \in 1..Len(log) /\ handled + 1 \in k..Len(log)
      BY <1>1, <1>3, <2>2
    <3>2. CASE srvOpen
      BY <3>1, <3>2, CloseInvLemma
    <3>3. CASE ~srvOpen
      BY <1>1, <1>3, <3>1, <3>3, NothingOpensLater DEF Asked
    <3>4. QED
      BY <3>2, <3>3
  <2>3. QED
    BY <2>1, <2>2
<1>4. QED
  BY <1>1, <1>2, <1>3 DEF CloseInv, PastClose, Closing, Unheard

LEMMA CloseStep ==
    ASSUME ScanInv, SentInv, CloseInv, [Next]_vars
    PROVE  CloseInv'
<1>1. CASE Call
  BY <1>1, CallClose
<1>2. CASE CallThrows \/ AnswerThrows \/ IgnoredReply
  <2>1. /\ UNCHANGED <<log, handled, srvOpen, opened>> /\ pc \in CallPcs
        /\ link' = link \/ (link = "up" /\ link' = "torn")
        /\ waiting \/ link = "reset"
        /\ \/ pc \in LoginPcs \cup CleanupPcs /\ pc' = After[pc]
           \/ pc' = "Hangup" /\ ~opened
           \/ pc' \in {"CloseCursor", "Emit", "Fetch", "Flush"}
    BY <1>2 DEF CallThrows, AnswerThrows, IgnoredReply, SendBroken, ReceiveFails, Returns, Receive,
       Throws, Teardown, NextFetch, BlobPcs, netVars, srvVars, ScanInv, ControlInv
  <2>2. PastClose' => PastClose \/ Closing \/ Unheard
    <3>1. CASE pc = "CloseCursor"
      BY <2>1, <3>1, CloseOver
    <3>2. CASE pc \in {"ResetStatement", "RemoveTables"}
      BY <3>2 DEF PastClose
    <3>3. CASE pc \in LoginPcs /\ pc' = After[pc]
      BY <3>3, AfterLemma DEF PastClose, LoginPcs
    <3>4. CASE (pc' = "Hangup" /\ ~opened) \/ pc' \in {"CloseCursor", "Emit", "Fetch", "Flush"}
      BY <2>1, <3>4 DEF PastClose
    <3>5. QED
      BY <2>1, <3>1, <3>2, <3>3, <3>4 DEF CleanupPcs
  <2>3. QED
    BY <2>1, <2>2, SilentClose
<1>3. CASE PrepareReply \/ PollReply \/ SetToBeginReply \/ ReadFails \/ ReadEnds
  <2>1. UNCHANGED <<log, handled, link, srvOpen>>
    BY <1>3 DEF PrepareReply, PollReply, SetToBeginReply, ReadFails, ReadEnds, Returns, Receive, srvVars
  <2>2. ~PastClose'
    BY <1>3 DEF PrepareReply, PollReply, SetToBeginReply, ReadFails, ReadEnds, Teardown, PastClose
  <2>3. QED
    BY <2>1, <2>2, SilentClose
<1>3a. CASE (pc = "Read" /\ (EmptyBlock \/ BatchRead)) \/ FetchReply \/ FlushReply
  <2>1. ReturnsForgetting /\ pc \in RunningPcs /\ ~PastClose' /\ UNCHANGED srvVars
    BY <1>3a DEF EmptyBlock, BatchRead, FetchReply, FlushReply, NextFetch, Teardown, RunningPcs, BlobPcs,
                 PastClose, ReturnsForgetting
  <2>2. QED
    BY <2>1, ForgetClose
<1>4. CASE Pull \/ EmitVector \/ Abandon \/ SchemaChanged
  <2>1. UNCHANGED <<log, handled, link, srvOpen>>
    BY <1>4 DEF Pull, EmitVector, Abandon, SchemaChanged, netVars, srvVars
  <2>2. ~PastClose'
    BY <1>4 DEF Pull, EmitVector, Abandon, SchemaChanged, Teardown, PastClose
  <2>3. QED
    BY <2>1, <2>2, SilentClose
<1>5. CASE CallKills \/ Hangup
  <2>1. /\ UNCHANGED <<log, handled, srvOpen, opened>> /\ (link' = link \/ link' = "down")
        /\ pc' = "Killed" \/ (pc = "Hangup" /\ pc' = "Closed")
    BY <1>5 DEF CallKills, Hangup, SendBroken, CloseSocket, netVars, srvVars
  <2>2. PastClose' => PastClose
    BY <2>1 DEF PastClose
  <2>3. QED
    BY <2>1, <2>2, SilentClose
<1>6. CASE Server
  <2>1. /\ UNCHANGED <<log, link, pc, opened>> /\ Pending /\ handled' = handled + 1
    BY <1>6 DEF Server, SrvAck, SrvPrepare, SrvExecute, SrvRead, SrvBlob, Reply, clientVars
  <2>2. /\ srvOpen' => srvOpen \/ Asked \notin CleanupPcs
        /\ srvOpen' => Asked # "CloseCursor"
    BY <1>6 DEF Server, SrvAck, SrvPrepare, SrvExecute, SrvRead, SrvBlob, srvVars, CleanupPcs
  <2>3. QED
    BY <2>1, <2>2, ServerClose
<1>7. CASE Drop \/ Over \/ UNCHANGED vars
  <2>1. /\ UNCHANGED <<log, handled, srvOpen, pc, opened>>
        /\ link' = link \/ (link = "up" /\ link' = "fin")
    BY <1>7 DEF Drop, Disconnect, Over, vars, netVars, clientVars, srvVars
  <2>2. PastClose' => PastClose
    BY <2>1 DEF PastClose
  <2>3. QED
    BY <2>1, <2>2, SilentClose
<1>8. QED
  BY <1>1, <1>2, <1>3, <1>3a, <1>4, <1>5, <1>6, <1>7 DEF Next, Client, Returning, ReadReply

-----------------------------------------------------------------------------
(***************************************************************************)
(* Theorems.                                                               *)
(***************************************************************************)

LEMMA CleanupInit == Init => CleanupInv
<1> SUFFICES ASSUME Init PROVE CleanupInv
  OBVIOUS
<1>1. log = <<>> /\ Len(log) = 0 /\ handled = 0 /\ link = "up" /\ pc = "Connect" /\ ~srvOpen
  BY EmptySeq DEF Init, NetInit
<1>2. Cleaned(0)
  BY <1>1 DEF Cleaned
<1>3. SentInv
  BY <1>1, <1>2, OrderLemma DEF SentInv, CleanupProtocol, CleanupPcs
<1>4. CloseInv
  BY <1>1 DEF CloseInv
<1>5. QED
  BY <1>3, <1>4 DEF CleanupInv

\* Every step of the session keeps what the log says of the clean-up.
THEOREM CleanupNext == ScanInv /\ CleanupInv /\ [Next]_vars => CleanupInv'
BY SentStep, CloseStep DEF CleanupInv

THEOREM CleanupInvariant == Spec => []CleanupInv
BY CleanupInit, CleanupNext, ScanInvariant, PTL DEF Spec

\* The three requests of the clean-up go out in order, once, and last.
THEOREM CleansUp == Spec => []CleanupProtocol
<1>1. CleanupInv => CleanupProtocol
  BY DEF CleanupInv, SentInv
<1>2. QED
  BY <1>1, CleanupInvariant, PTL

\* A scan that was answered its Execute, on a server that has read all it was
\* sent, leaves no cursor open there.
THEOREM Releases == Spec => []CursorReleased
<1>1. ScanInv /\ CleanupInv => CursorReleased
  <2> SUFFICES ASSUME ScanInv, CleanupInv, pc = "Closed", opened, handled = Len(log)
               PROVE  ~srvOpen
    BY DEF CursorReleased
  <2>1. CloseInv /\ PastClose /\ Len(log) \in Nat
    BY LogLemma DEF CleanupInv, PastClose, ScanInv
  <2>2. Closing
    BY <2>1, CloseInvLemma DEF Unheard
  <2>3. QED
    BY <2>1, <2>2, CloseInvLemma DEF Closing
<1>2. QED
  BY <1>1, ScanInvariant, CleanupInvariant, PTL

=============================================================================
