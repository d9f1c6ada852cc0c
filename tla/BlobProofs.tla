----------------------------- MODULE BlobProofs -----------------------------
(***************************************************************************)
(* Proofs about BlobBatch, for any number of blocks, of blob cells in a    *)
(* block, and of tasks between two flushes.                                *)
(***************************************************************************)
EXTENDS BlobBatch, Integers, SequenceTheorems, TLAPS

-----------------------------------------------------------------------------
(***************************************************************************)
(* Lemmas.                                                                 *)
(***************************************************************************)

LEMMA Sizes == FlushEvery \in Nat \ {0} /\ MaxTasks \in Nat /\ MaxBlocks \in Nat
BY BlobAssumption DEF BlobAssumption

\* What the types say of the sequences.
LEMMA TypesLemma ==
    ASSUME BlobInv
    PROVE  /\ Len(log) \in Nat /\ handled \in Nat /\ handled <= Len(log)
           /\ replies \in Seq(Answers) /\ Len(replies) \in Nat
           /\ replies = <<>> <=> Len(replies) = 0
           /\ tasks \in Seq(Nat) /\ Len(tasks) \in Nat /\ DOMAIN tasks = 1..Len(tasks)
           /\ cells \in Seq(Nat) /\ Len(cells) = Len(tasks) /\ DOMAIN cells = 1..Len(tasks)
           /\ \A k \in 1..Len(tasks) : tasks[k] \in Nat /\ cells[k] \in Nat
BY LenProperties, EmptySeq, ElementOfSeq DEF BlobInv, TypeOK, WireInv

\* Where the loop stands.
LEMMA AtLemma ==
    ASSUME NEW k \in Nat
    PROVE  /\ At(k) \in {"emit", "flush", "open"}
           /\ At(k) = "emit" <=> k > Len(tasks)
BY DEF At

\* A scan inside a call has not failed: if it has given up a request before,
\* it is lenient.
LEMMA LiveLemma ==
    ASSUME BlobInv, pc # "failed", timedOut
    PROVE  lenient
BY DEF BlobInv, CallInv

\* What a reply brings, and that it is the answer to the call.
LEMMA ReturnsLemma ==
    ASSUME BlobInv, Returns
    PROVE  /\ waiting /\ ~waiting' /\ waiting' \in BOOLEAN /\ pc \in CallPcs
           /\ UNCHANGED <<log, handled, link, conf, timedOut, srvVars>> /\ link \in {"up", "fin"}
           /\ replies # <<>> /\ Answer \in Answers
           /\ IsBlob(Answer) => Len(Answer.rows) = 1 /\ Answer.rows[1] \in Nat
           /\ Answer.status = "block" => Len(Answer.rows) <= MaxTasks
           /\ replies' \in Seq(Answers)
           /\ \A k \in 1..Len(replies') : k + 1 \in 1..Len(replies) /\ replies'[k] = replies[k + 1]
           /\ Len(replies') = Len(replies) - 1
           /\ timedOut => lenient
           /\ ~timedOut => replies' = <<>> /\ Answering(Answer)
<1>1. /\ waiting /\ ~waiting' /\ waiting' \in BOOLEAN /\ pc \in CallPcs
      /\ UNCHANGED <<log, handled, link, conf, timedOut, srvVars>> /\ link \in {"up", "fin"}
      /\ replies # <<>> /\ replies' = Tail(replies)
  BY DEF Returns, Receive, BlobInv, CallInv
<1>2. replies \in Seq(Answers) /\ Len(replies) \in Nat /\ Len(log) \in Nat /\ handled \in Nat
      /\ handled <= Len(log)
  BY TypesLemma
<1>3. /\ Len(replies) > 0 /\ Answer = replies[1] /\ Answer \in Answers
      /\ replies' \in Seq(Answers) /\ Len(replies') = Len(replies) - 1
      /\ \A k \in 1..(Len(replies) - 1) : replies'[k] = replies[k + 1]
  BY <1>1, <1>2, HeadTailProperties, EmptySeq DEF Answer
<1>4. /\ IsBlob(Answer) => Len(Answer.rows) = 1
      /\ Answer.status = "block" => Len(Answer.rows) <= MaxTasks
  BY <1>2, <1>3 DEF BlobInv, WireInv
<1>5. Answer.rows \in Seq(Nat)
  BY <1>3 DEF Answers
<1>6. IsBlob(Answer) => Answer.rows[1] \in Nat
  BY <1>4, <1>5, ElementOfSeq
<1>7. pc # "failed"
  BY <1>1 DEF CallPcs
<1>8. ~timedOut => Len(replies') = 0
  BY <1>1, <1>2, <1>3 DEF BlobInv, CallInv
<1>9. ~timedOut => replies' = <<>> /\ Answering(Answer)
  BY <1>1, <1>3, <1>8, EmptySeq DEF BlobInv, AnswerInv, Answer
<1>10. \A k \in 1..Len(replies') : k + 1 \in 1..Len(replies)
  BY <1>2, <1>3
<1>11. QED
  BY <1>1, <1>3, <1>4, <1>6, <1>7, <1>9, <1>10, LiveLemma

\* The wire and the calls after a reply.
LEMMA ReturnsInv ==
    ASSUME BlobInv, Returns, i' \in Nat, pc' = "reopen" => adapted'
    PROVE  WireInv' /\ CallInv' /\ AnswerInv'
<1>1. \A k \in 1..Len(replies') :
         /\ IsBlob(replies'[k]) => Len(replies'[k].rows) = 1
         /\ replies'[k].status = "block" => Len(replies'[k].rows) <= MaxTasks
  BY ReturnsLemma DEF BlobInv, WireInv, IsBlob
<1>2. log \in Seq(Requests) /\ handled \in 0..Len(log)
  BY DEF BlobInv, WireInv
<1>3. WireInv'
  BY <1>1, <1>2, ReturnsLemma DEF WireInv, IsBlob
<1>4. CallInv'
  <2>1. ~timedOut => Len(log) - handled + Len(replies) = 1
    BY ReturnsLemma DEF BlobInv, CallInv
  <2>2. ~timedOut => Len(log') - handled' + Len(replies') = 0
    BY <2>1, TypesLemma, ReturnsLemma
  <2>3. QED
    BY <2>2, ReturnsLemma DEF CallInv, conf
<1>5. AnswerInv'
  BY ReturnsLemma DEF AnswerInv
<1>6. QED
  BY <1>3, <1>4, <1>5

-----------------------------------------------------------------------------
LEMMA InitInv == Init => BlobInv
<1> SUFFICES ASSUME Init PROVE BlobInv
  OBVIOUS
<1> USE DEF Init, NetInit
<1>1. /\ <<>> \in Seq(Nat) /\ <<>> \in Seq(Requests) /\ <<>> \in Seq(Answers)
      /\ Len(log) = 0 /\ Len(replies) = 0 /\ Len(tasks) = 0 /\ Len(cells) = 0
      /\ DOMAIN cells = {}
  <2>1. \A S : <<>> \in Seq(S)
    BY EmptySeq
  <2>2. <<>> \in Seq(Nat) /\ Len(<<>>) = 0
    BY <2>1, EmptySeq
  <2>3. DOMAIN cells = 1..0
    BY <2>2, LenProperties
  <2>4. QED
    BY <2>1, <2>2, <2>3
<1>2. TypeOK
  <2>1. 0 \in 0..MaxBlocks /\ 0 <= MaxTasks
    BY Sizes
  <2>2. tasks \in Seq(Nat) /\ cells \in Seq(Nat) /\ Len(tasks) <= MaxTasks /\ Len(cells) = Len(tasks)
    BY <1>1, <2>1
  <2>3. QED
    BY <2>1, <2>2 DEF TypeOK, CallPcs
<1>3. WireInv /\ CallInv /\ AnswerInv
  BY <1>1 DEF WireInv, CallInv, AnswerInv, CallPcs
<1>4. CellsInv /\ HandlesInv
  BY <1>1 DEF CellsInv, HandlesInv, PayloadInPlace, StrictMeansWhole, HandlesBounded, Leaked, Working
<1>5. QED
  BY <1>2, <1>3, <1>4 DEF BlobInv

-----------------------------------------------------------------------------
(***************************************************************************)
(* Writing a request.                                                      *)
(***************************************************************************)

LEMMA RequestLemma ==
    ASSUME BlobInv, pc \in CallPcs
    PROVE  Request \in Requests
<1>1. pc \in {"open", "reopen"} => tasks[i] \in Nat
  BY TypesLemma DEF BlobInv, TypeOK
<1>2. SlotFits \in BOOLEAN /\ echo \in Nat
  BY DEF BlobInv, TypeOK, SlotFits
<1>3. QED
  BY <1>1, <1>2 DEF Request, Requests, CallPcs

LEMMA CallInvLemma ==
    ASSUME BlobInv, Call
    PROVE  BlobInv'
<1>0. /\ pc \in CallPcs /\ ~waiting /\ waiting' /\ waiting' = TRUE /\ log' = Append(log, Request)
      /\ link \in {"up", "fin", "torn"} /\ handled' = handled
      /\ \/ link = "fin" /\ link' = "reset" /\ replies' = <<>>
         \/ link # "fin" /\ UNCHANGED <<link, replies>>
      /\ UNCHANGED <<conf, pc, tasks, i, adapted, cells, echo, timedOut, blocks, served, handles>>
      /\ UNCHANGED <<lenient, slot>>
  BY DEF Call, Send, loop, srvVars, conf
<1>1. /\ log \in Seq(Requests) /\ log' \in Seq(Requests) /\ Len(log') = Len(log) + 1
      /\ log'[Len(log')] = Request
  <2>1. log \in Seq(Requests) /\ Request \in Requests
    BY <1>0, RequestLemma DEF BlobInv, WireInv
  <2>2. QED
    BY <1>0, <2>1, AppendProperties
<1>2. Request' = Request
  BY <1>0 DEF Request, SlotFits
<1>3. ~timedOut => replies = <<>> /\ replies' = <<>> /\ Len(log) = handled /\ Len(replies') = 0
  <2>1. ~timedOut => Len(log) - handled + Len(replies) = 0
    BY <1>0 DEF BlobInv, CallInv
  <2>2. ~timedOut => Len(log) = handled /\ Len(replies) = 0
    BY <2>1, TypesLemma
  <2>3. QED
    BY <1>0, <2>2, TypesLemma
<1>4. TypeOK'
  BY <1>0 DEF BlobInv, TypeOK
<1>5. WireInv'
  <2>1. handled' \in 0..Len(log')
    BY <1>0, <1>1, TypesLemma
  <2>2. /\ replies' \in Seq(Answers)
        /\ \A k \in 1..Len(replies') :
              /\ IsBlob(replies'[k]) => Len(replies'[k].rows) = 1
              /\ replies'[k].status = "block" => Len(replies'[k].rows) <= MaxTasks
    <3>1. CASE replies' = replies
      BY <3>1 DEF BlobInv, WireInv, IsBlob
    <3>2. CASE replies' = <<>>
      <4>1. <<>> \in Seq(Answers) /\ Len(replies') = 0
        BY <3>2, EmptySeq
      <4>2. QED
        BY <3>2, <4>1
    <3>3. QED
      BY <1>0, <3>1, <3>2
  <2>3. link' \in {"up", "fin", "reset", "torn", "down"} /\ i' \in Nat
    BY <1>0 DEF BlobInv, WireInv
  <2>4. QED
    BY <1>1, <2>1, <2>2, <2>3 DEF WireInv, IsBlob
<1>6. CallInv'
  <2>1. ~timedOut => Len(log') - handled' + Len(replies') = 1
    BY <1>0, <1>1, <1>3, TypesLemma
  <2>2. ~timedOut => link # "torn"
    BY DEF BlobInv, CallInv
  <2>3. (pc' = "reopen" => adapted') /\ (timedOut' => lenient' \/ pc' = "failed")
    BY <1>0 DEF BlobInv, CallInv
  <2>4. QED
    BY <1>0, <1>1, <1>2, <2>1, <2>2, <2>3 DEF CallInv
<1>7. AnswerInv'
  BY <1>0, <1>3 DEF AnswerInv
<1>8. CellsInv'
  BY <1>0 DEF BlobInv, CellsInv, PayloadInPlace, StrictMeansWhole
<1>9. HandlesInv'
  BY <1>0, <1>3 DEF BlobInv, HandlesInv, HandlesBounded, Leaked, Working
<1>10. QED
  BY <1>4, <1>5, <1>6, <1>7, <1>8, <1>9 DEF BlobInv

-----------------------------------------------------------------------------
(***************************************************************************)
(* Failures.                                                               *)
(***************************************************************************)

\* What a failure does to the loop.
LEMMA FailsLemma ==
    ASSUME BlobInv, Fails, pc \in CallPcs
    PROVE  /\ i' \in Nat
           /\ pc' \in {"emit", "flush", "open", "failed"}
           /\ pc' \in {"flush", "open"} => i' \in 1..Len(tasks)
           /\ ~lenient => pc' = "failed"
<1>1. CASE lenient /\ pc \in CaughtPcs
  <2>1. i \in 1..Len(tasks) /\ i \in Nat /\ i + 1 \in Nat /\ i' = i + 1 /\ pc' = At(i + 1)
    BY <1>1 DEF Fails, NextTask, CaughtPcs, BlobInv, TypeOK, WireInv
  <2>2. QED
    BY <1>1, <2>1, TypesLemma, AtLemma
<1>2. CASE ~(lenient /\ pc \in CaughtPcs)
  BY <1>2 DEF Fails, BlobInv, WireInv
<1>3. QED
  BY <1>1, <1>2

\* A request is given up: a lenient scan goes on to the next task, a strict
\* one has failed.
LEMMA GivesUp ==
    ASSUME BlobInv, Fails, pc \in CallPcs, timedOut' = TRUE, waiting' = FALSE,
           UNCHANGED <<log, handled, replies, conf, tasks, adapted, cells, echo, srvVars>>,
           link' \in {"up", "fin", "reset", "torn", "down"}
    PROVE  BlobInv'
<1>0. UNCHANGED <<lenient, slot, blocks, served, handles>>
  BY DEF conf, srvVars
<1>1. TypeOK'
  BY <1>0, FailsLemma DEF BlobInv, TypeOK, CallPcs
<1>2. WireInv'
  BY FailsLemma DEF BlobInv, WireInv, IsBlob
<1>3. CallInv' /\ AnswerInv' /\ HandlesInv'
  BY <1>0, FailsLemma DEF CallInv, AnswerInv, HandlesInv
<1>4. CellsInv'
  <2>1. ~lenient => ~timedOut
    BY DEF BlobInv, CallInv, CallPcs
  <2>2. QED
    BY <1>0, <2>1, FailsLemma DEF BlobInv, CellsInv, PayloadInPlace, StrictMeansWhole
<1>5. QED
  BY <1>1, <1>2, <1>3, <1>4 DEF BlobInv

LEMMA CallThrowsInv ==
    ASSUME BlobInv, CallThrows
    PROVE  BlobInv'
<1>1. timedOut /\ timedOut \in BOOLEAN /\ waiting \in BOOLEAN
  BY DEF CallThrows, SendBroken, BlobInv, CallInv, TypeOK
<1>2. QED
  BY <1>1, GivesUp DEF CallThrows, SendBroken, netVars

\* A slot that cannot be built leaves the wire alone.
LEMMA SlotThrowsInv ==
    ASSUME BlobInv, SlotThrows
    PROVE  BlobInv'
<1>0. /\ pc \in {"open", "reopen"} /\ pc \in CallPcs /\ ~waiting /\ Fails
      /\ UNCHANGED <<log, handled, replies, link, lenient, slot, waiting, tasks, adapted, cells, echo,
                     timedOut, blocks, served, handles>>
  BY DEF SlotThrows, netVars, conf, srvVars, CallPcs
<1>1. TypeOK'
  BY <1>0, FailsLemma DEF BlobInv, TypeOK, CallPcs
<1>2. WireInv'
  BY <1>0, FailsLemma DEF BlobInv, WireInv, IsBlob
<1>3. CallInv'
  BY <1>0, FailsLemma DEF BlobInv, CallInv
<1>4. ~timedOut => replies = <<>>
  <2>1. ~timedOut => Len(log) - handled + Len(replies) = 0
    BY <1>0 DEF BlobInv, CallInv
  <2>2. QED
    BY <2>1, TypesLemma
<1>5. AnswerInv' /\ HandlesInv'
  BY <1>0, <1>4, FailsLemma DEF BlobInv, AnswerInv, HandlesInv, HandlesBounded, Leaked, Working
<1>6. CellsInv'
  BY <1>0, FailsLemma DEF BlobInv, CellsInv, PayloadInPlace, StrictMeansWhole
<1>7. QED
  BY <1>1, <1>2, <1>3, <1>5, <1>6 DEF BlobInv

LEMMA AnswerThrowsInv ==
    ASSUME BlobInv, AnswerThrows
    PROVE  BlobInv'
BY GivesUp DEF AnswerThrows, ReceiveFails, BlobInv, CallInv

-----------------------------------------------------------------------------
(***************************************************************************)
(* Replies.                                                                *)
(***************************************************************************)

\* The cells of a block before its first fetch.
LEMMA NullCells ==
    ASSUME NEW rows \in Seq(Nat), NEW new, new = [k \in DOMAIN rows |-> 0]
    PROVE  /\ new \in Seq(Nat) /\ Len(new) = Len(rows) /\ DOMAIN new = DOMAIN rows
           /\ \A k \in DOMAIN rows : new[k] = 0
           /\ rows = <<>> => new = <<>>
<1>1. Len(rows) \in Nat /\ DOMAIN rows = 1..Len(rows)
  BY LenProperties
<1>2. new \in [1..Len(rows) -> Nat]
  BY <1>1
<1>3. new \in Seq(Nat)
  BY <1>1, <1>2, SeqDef
<1>4. Len(new) = Len(rows)
  BY <1>1, <1>2, <1>3, LenProperties
<1>5. rows = <<>> => new = <<>>
  BY <1>3, <1>4, EmptySeq
<1>6. QED
  BY <1>1, <1>3, <1>4, <1>5

LEMMA BlockReplyInv ==
    ASSUME BlobInv, BlockReply
    PROVE  BlobInv'
<1>0. Returns /\ pc = "next" /\ echo' = echo
  BY DEF BlockReply
<1>1. CASE /\ Answer.status = "block"
           /\ tasks' = Answer.rows
           /\ cells' = [k \in DOMAIN Answer.rows |-> 0]
           /\ i' = 1
           /\ adapted' = FALSE
           /\ pc' = IF Answer.rows = <<>> THEN "emit" ELSE "open"
  <2>1. PICK rows \in Seq(Nat) : rows = Answer.rows /\ Len(rows) <= MaxTasks
    BY <1>0, <1>1, ReturnsLemma DEF Answers
  <2>2. /\ cells' \in Seq(Nat) /\ Len(cells') = Len(rows) /\ DOMAIN cells' = DOMAIN rows
        /\ \A k \in DOMAIN rows : cells'[k] = 0
        /\ rows = <<>> => cells' = <<>>
    BY <1>1, <2>1, NullCells
  <2>3. Len(rows) \in Nat /\ (rows # <<>> => Len(rows) > 0)
    BY LenProperties, EmptySeq
  <2>4. pc' = "open" => i' \in 1..Len(tasks')
    BY <1>1, <2>1, <2>3
  <2>5. TypeOK'
    BY <1>0, <1>1, <2>1, <2>2, <2>4, ReturnsLemma DEF BlobInv, TypeOK, conf, srvVars, CallPcs
  <2>6. WireInv' /\ CallInv' /\ AnswerInv'
    BY <1>0, <1>1, ReturnsInv
  <2>7. CellsInv'
    <3>1. PayloadInPlace'
      BY <2>2 DEF PayloadInPlace
    <3>2. 1..(i' - 1) = {}
      BY <1>1
    <3>3. StrictMeansWhole'
      BY <1>1, <2>1, <2>2 DEF StrictMeansWhole
    <3>4. QED
      BY <1>1, <3>1, <3>2, <3>3 DEF CellsInv
  <2>8. HandlesInv'
    <3>1. ~timedOut => handles <= blocks - 1 /\ replies' = <<>>
      <4>1. Leaked = blocks - 1 /\ Working = 0
        BY <1>0, <1>1, ReturnsLemma DEF Leaked, Working, Answer
      <4>2. ~timedOut => handles <= Leaked + Working
        BY <1>0 DEF BlobInv, HandlesInv
      <4>3. blocks \in Nat
        BY Sizes DEF BlobInv, TypeOK
      <4>4. QED
        BY <1>0, <4>1, <4>2, <4>3, ReturnsLemma
    <3>2. handles \in Nat /\ blocks \in Nat
      BY Sizes DEF BlobInv, TypeOK
    <3>3. UNCHANGED <<timedOut, handles, blocks>>
      BY <1>0, ReturnsLemma DEF srvVars
    <3>4. QED
      BY <1>1, <3>1, <3>2, <3>3 DEF HandlesInv, HandlesBounded, Leaked, Working
  <2>9. QED
    BY <2>5, <2>6, <2>7, <2>8 DEF BlobInv
<1>2. CASE /\ Answer.status # "block" /\ pc' \in {"done", "failed"}
           /\ UNCHANGED <<tasks, cells, i, adapted>>
  <2>1. TypeOK'
    BY <1>0, <1>2, ReturnsLemma DEF BlobInv, TypeOK, conf, srvVars
  <2>2. WireInv' /\ CallInv' /\ AnswerInv'
    BY <1>0, <1>2, ReturnsInv DEF BlobInv, WireInv
  <2>3. CellsInv'
    BY <1>0, <1>2, ReturnsLemma DEF BlobInv, CellsInv, PayloadInPlace, StrictMeansWhole, conf
  <2>4. HandlesInv'
    BY <1>0, <1>2, ReturnsLemma DEF BlobInv, HandlesInv, HandlesBounded, srvVars
  <2>5. QED
    BY <2>1, <2>2, <2>3, <2>4 DEF BlobInv
<1>3. QED
  BY <1>1, <1>2 DEF BlockReply

LEMMA FlushReplyInv ==
    ASSUME BlobInv, FlushReply
    PROVE  BlobInv'
<1>0. Returns /\ pc = "flush" /\ pc' = "open" /\ UNCHANGED <<tasks, i, adapted, cells, echo>>
  BY DEF FlushReply, loop
<1>1. UNCHANGED <<lenient, slot, timedOut, blocks, served, handles>>
  BY <1>0, ReturnsLemma DEF conf, srvVars
<1>2. TypeOK'
  BY <1>0, <1>1, ReturnsLemma DEF BlobInv, TypeOK, CallPcs
<1>3. WireInv' /\ CallInv' /\ AnswerInv'
  BY <1>0, ReturnsInv DEF BlobInv, WireInv
<1>4. CellsInv'
  BY <1>0, <1>1 DEF BlobInv, CellsInv, PayloadInPlace, StrictMeansWhole
<1>5. HandlesInv'
  BY <1>0, <1>1, ReturnsLemma DEF BlobInv, HandlesInv, HandlesBounded, Leaked, Working
<1>6. QED
  BY <1>2, <1>3, <1>4, <1>5 DEF BlobInv

\* A payload is stored in the cell of the current task: as long as nothing
\* has been given up, it is the cell's own.
LEMMA StoreInv ==
    ASSUME BlobInv, Returns, pc \in {"open", "reopen"}, IsBlob(Answer), Store,
           UNCHANGED <<tasks, i, adapted>>,
           ~timedOut => Answer.rows[1] = tasks[i]
    PROVE  BlobInv'
<1>0. /\ cells' = [cells EXCEPT ![i] = Answer.rows[1]] /\ echo' = Answer.rows[1] /\ pc' = "free"
      /\ UNCHANGED <<lenient, slot, timedOut, blocks, served, handles>>
      /\ Answer.rows[1] \in Nat
  BY ReturnsLemma DEF Store, conf, srvVars
<1>1. i \in 1..Len(tasks) /\ i \in Nat
  BY DEF BlobInv, TypeOK, WireInv
<1>2. /\ cells' \in Seq(Nat) /\ Len(cells') = Len(tasks) /\ DOMAIN cells' = 1..Len(tasks)
      /\ cells'[i] = Answer.rows[1]
      /\ \A k \in 1..Len(tasks) : k # i => cells'[k] = cells[k]
  BY <1>0, <1>1, TypesLemma, ExceptSeq
<1>3. TypeOK'
  BY <1>0, <1>1, <1>2, ReturnsLemma DEF BlobInv, TypeOK, CallPcs
<1>4. WireInv' /\ CallInv' /\ AnswerInv'
  BY <1>0, <1>1, ReturnsInv
<1>5. CellsInv'
  <2>1. PayloadInPlace'
    <3>1. ~(lenient /\ timedOut) => ~timedOut
      BY ReturnsLemma
    <3>2. QED
      BY <1>0, <1>1, <1>2, <3>1, TypesLemma DEF BlobInv, CellsInv, PayloadInPlace
  <2>2. ~lenient => \A k \in 1..i : cells'[k] = tasks[k]
    <3> SUFFICES ASSUME ~lenient, NEW k \in 1..i PROVE cells'[k] = tasks[k]
      OBVIOUS
    <3>1. ~timedOut
      BY ReturnsLemma
    <3>2. CASE k = i
      BY <1>2, <3>1, <3>2
    <3>3. CASE k # i
      <4>1. k \in 1..(i - 1) /\ k \in 1..Len(tasks)
        BY <1>1, <3>3, TypesLemma
      <4>2. cells[k] = tasks[k]
        BY <4>1 DEF BlobInv, CellsInv
      <4>3. QED
        BY <1>2, <3>3, <4>1, <4>2
    <3>4. QED
      BY <3>2, <3>3
  <2>3. QED
    BY <1>0, <2>1, <2>2 DEF CellsInv, StrictMeansWhole
<1>6. HandlesInv'
  BY <1>0, ReturnsLemma DEF BlobInv, HandlesInv, HandlesBounded, Leaked, Working, Answer
<1>7. QED
  BY <1>3, <1>4, <1>5, <1>6 DEF BlobInv

\* The server has no blob for the task.
LEMMA NoBlobInv ==
    ASSUME BlobInv, Returns, pc \in {"open", "reopen"}, ~IsBlob(Answer), Fails,
           UNCHANGED <<tasks, adapted, cells, echo>>
    PROVE  BlobInv'
<1>0. /\ UNCHANGED <<lenient, slot, timedOut, blocks, served, handles>> /\ pc \in CallPcs
  BY ReturnsLemma DEF conf, srvVars
<1>1. TypeOK'
  BY <1>0, ReturnsLemma, FailsLemma DEF BlobInv, TypeOK, CallPcs
<1>2. WireInv' /\ CallInv' /\ AnswerInv'
  BY <1>0, FailsLemma, ReturnsInv
<1>3. CellsInv'
  BY <1>0, FailsLemma DEF BlobInv, CellsInv, PayloadInPlace, StrictMeansWhole
<1>4. HandlesInv'
  <2>1. handles \in Nat /\ blocks \in Nat
    BY Sizes DEF BlobInv, TypeOK
  <2>2. ~timedOut => handles <= Leaked /\ Leaked <= blocks /\ blocks > 0 /\ replies' = <<>>
    BY <2>1, ReturnsLemma DEF BlobInv, HandlesInv, Leaked, Working, Answer
  <2>3. pc' # "next" /\ pc' \in {"emit", "flush", "open", "failed"}
    BY <1>0, FailsLemma
  <2>4. ~timedOut => Leaked' = Leaked /\ Working' = 0 /\ Leaked \in Int
    BY <1>0, <2>1, <2>2, <2>3 DEF Leaked, Working
  <2>5. QED
    BY <1>0, <2>1, <2>2, <2>4 DEF HandlesInv, HandlesBounded
<1>5. QED
  BY <1>1, <1>2, <1>3, <1>4 DEF BlobInv

LEMMA OpenReplyInv ==
    ASSUME BlobInv, OpenReply
    PROVE  BlobInv'
<1>0. Returns /\ pc = "open"
  BY DEF OpenReply
<1>1. CASE Answer.status = "blob" /\ Store /\ UNCHANGED <<tasks, i, adapted>>
  <2>1. ~timedOut => Answer.rows[1] = tasks[i]
    BY <1>0, <1>1, ReturnsLemma DEF Answering
  <2>2. QED
    BY <1>0, <1>1, <2>1, StoreInv DEF IsBlob
<1>2. CASE /\ Answer.status = "relen" /\ adapted' = TRUE /\ pc' = "reopen"
           /\ UNCHANGED <<tasks, i, cells, echo>>
  <2>1. UNCHANGED <<lenient, slot, timedOut, blocks, served, handles>>
    BY <1>0, ReturnsLemma DEF conf, srvVars
  <2>2. TypeOK'
    BY <1>0, <1>2, <2>1, ReturnsLemma DEF BlobInv, TypeOK, CallPcs
  <2>3. WireInv' /\ CallInv' /\ AnswerInv'
    BY <1>0, <1>2, ReturnsInv DEF BlobInv, WireInv
  <2>4. CellsInv'
    BY <1>0, <1>2, <2>1 DEF BlobInv, CellsInv, PayloadInPlace, StrictMeansWhole
  <2>5. HandlesInv'
    <3>1. ~timedOut => ~adapted /\ replies' = <<>>
      BY <1>0, <1>2, ReturnsLemma DEF Answering, SlotFits
    <3>2. ~timedOut => handles <= blocks - 1 + 1 /\ blocks > 0
      BY <1>0, <1>2, <3>1, ReturnsLemma DEF BlobInv, HandlesInv, Leaked, Working, Answer, IsBlob
    <3>3. handles \in Nat /\ blocks \in Nat
      BY Sizes DEF BlobInv, TypeOK
    <3>4. QED
      BY <1>2, <2>1, <3>1, <3>2, <3>3 DEF HandlesInv, HandlesBounded, Leaked, Working
  <2>6. QED
    BY <2>2, <2>3, <2>4, <2>5 DEF BlobInv
<1>3. CASE ~IsBlob(Answer) /\ Fails /\ UNCHANGED <<tasks, adapted, cells, echo>>
  BY <1>0, <1>3, NoBlobInv
<1>4. QED
  BY <1>1, <1>2, <1>3 DEF OpenReply

\* The repeated fetch is under a slot of the server's length.
LEMMA ReopenReplyInv ==
    ASSUME BlobInv, ReopenReply
    PROVE  BlobInv'
<1>0. Returns /\ pc = "reopen" /\ SlotFits
  BY DEF ReopenReply, BlobInv, CallInv, SlotFits
<1>1. CASE IsBlob(Answer) /\ Store /\ UNCHANGED <<tasks, i, adapted>>
  <2>1. ~timedOut => Answer.rows[1] = tasks[i]
    BY <1>0, <1>1, ReturnsLemma DEF Answering, IsBlob
  <2>2. QED
    BY <1>0, <1>1, <2>1, StoreInv
<1>2. CASE ~IsBlob(Answer) /\ Fails /\ UNCHANGED <<tasks, adapted, cells, echo>>
  BY <1>0, <1>2, NoBlobInv
<1>3. QED
  BY <1>1, <1>2 DEF ReopenReply

\* The blob is free again, and the task done.
LEMMA FreeReplyInv ==
    ASSUME BlobInv, FreeReply
    PROVE  BlobInv'
<1>0. /\ Returns /\ pc = "free" /\ i' = i + 1 /\ pc' = At(i + 1)
      /\ UNCHANGED <<tasks, adapted, cells, echo>>
      /\ UNCHANGED <<lenient, slot, timedOut, blocks, served, handles>>
  BY ReturnsLemma DEF FreeReply, NextTask, conf, srvVars
<1>1. /\ i \in 1..Len(tasks) /\ i \in Nat /\ i + 1 \in Nat
      /\ pc' \in {"emit", "flush", "open"} /\ (pc' = "emit" <=> i + 1 > Len(tasks))
  BY <1>0, AtLemma DEF BlobInv, TypeOK, WireInv
<1>2. TypeOK'
  <2>1. pc' \in {"flush", "open"} => i' \in 1..Len(tasks)
    BY <1>0, <1>1, TypesLemma
  <2>2. QED
    BY <1>0, <1>1, <2>1, ReturnsLemma DEF BlobInv, TypeOK, CallPcs
<1>3. WireInv' /\ CallInv' /\ AnswerInv'
  BY <1>0, <1>1, ReturnsInv
<1>4. CellsInv'
  <2>1. PayloadInPlace'
    BY <1>0 DEF BlobInv, CellsInv, PayloadInPlace
  <2>2. ~lenient => \A k \in 1..i : cells[k] = tasks[k]
    BY <1>0 DEF BlobInv, CellsInv
  <2>3. i' - 1 = i
    BY <1>0, <1>1
  <2>4. ASSUME pc' = "emit", ~lenient PROVE cells = tasks
    <3>1. i = Len(tasks)
      <4>1. Len(tasks) \in Nat /\ i + 1 > Len(tasks) /\ i <= Len(tasks)
        BY <1>1, <2>4, TypesLemma
      <4>2. QED
        BY <1>1, <4>1
    <3>2. \A k \in 1..Len(tasks) : cells[k] = tasks[k]
      BY <2>2, <2>4, <3>1
    <3>3. QED
      BY <3>2, TypesLemma, SeqEqual
  <2>5. QED
    BY <1>0, <1>1, <2>1, <2>2, <2>3, <2>4 DEF CellsInv, StrictMeansWhole
<1>5. HandlesInv'
  <2>1. handles \in Nat /\ blocks \in Nat
    BY Sizes DEF BlobInv, TypeOK
  <2>2. ~timedOut => handles <= Leaked /\ Leaked <= blocks /\ blocks > 0 /\ replies' = <<>>
    BY <1>0, <2>1, ReturnsLemma DEF BlobInv, HandlesInv, Leaked, Working
  <2>3. ~timedOut => Leaked' = Leaked /\ Working' = 0 /\ Leaked \in Int
    BY <1>0, <1>1, <2>1, <2>2 DEF Leaked, Working
  <2>4. QED
    BY <1>0, <2>1, <2>2, <2>3 DEF HandlesInv, HandlesBounded
<1>6. QED
  BY <1>2, <1>3, <1>4, <1>5 DEF BlobInv

LEMMA EmitInv ==
    ASSUME BlobInv, Emit
    PROVE  BlobInv'
<1>0. /\ pc = "emit" /\ pc' = "next" /\ ~waiting
      /\ UNCHANGED <<log, handled, replies, link, lenient, slot, waiting, tasks, i, adapted, cells,
                     echo, timedOut, blocks, served, handles>>
  BY DEF Emit, netVars, conf, loop, srvVars, BlobInv, CallInv, CallPcs
<1>1. ~timedOut => replies = <<>>
  <2>1. ~timedOut => Len(log) - handled + Len(replies) = 0
    BY <1>0 DEF BlobInv, CallInv
  <2>2. QED
    BY <2>1, TypesLemma
<1>2. TypeOK'
  BY <1>0 DEF BlobInv, TypeOK, CallPcs
<1>3. WireInv'
  BY <1>0 DEF BlobInv, WireInv, IsBlob
<1>4. CallInv' /\ AnswerInv'
  BY <1>0, <1>1 DEF BlobInv, CallInv, AnswerInv
<1>5. CellsInv'
  BY <1>0 DEF BlobInv, CellsInv, PayloadInPlace, StrictMeansWhole
<1>6. HandlesInv'
  <2>1. handles \in Nat /\ blocks \in Nat
    BY Sizes DEF BlobInv, TypeOK
  <2>2. ~timedOut => handles <= blocks
    BY <1>0, <2>1 DEF BlobInv, HandlesInv, Leaked, Working
  <2>3. QED
    BY <1>0, <1>1, <2>1, <2>2 DEF HandlesInv, HandlesBounded, Leaked, Working
<1>7. QED
  BY <1>2, <1>3, <1>4, <1>5, <1>6 DEF BlobInv

-----------------------------------------------------------------------------
(***************************************************************************)
(* The server.                                                             *)
(***************************************************************************)

\* As long as nothing was given up, the server answers the current call.
LEMMA AskedLemma ==
    ASSUME BlobInv, Pending
    PROVE  /\ Asked \in Requests
           /\ ~timedOut => waiting /\ pc \in CallPcs /\ replies = <<>> /\ Asked = Request
<1>1. /\ Len(log) \in Nat /\ handled \in Nat /\ Len(replies) \in Nat /\ handled < Len(log)
      /\ replies = <<>> <=> Len(replies) = 0
      /\ log \in Seq(Requests)
  BY TypesLemma DEF Pending, BlobInv, WireInv
<1>2. Asked \in Requests
  BY <1>1, ElementOfSeq DEF Asked
<1>3. ~timedOut => Len(log) - handled + Len(replies) = IF waiting THEN 1 ELSE 0
  BY DEF BlobInv, CallInv
<1>4. \A l, h, r \in Nat : h < l => /\ l - h + r # 0
                                    /\ l - h + r = 1 => r = 0 /\ h + 1 = l
  OBVIOUS
<1>5. ~timedOut => waiting /\ Len(replies) = 0 /\ handled + 1 = Len(log)
  BY <1>1, <1>3, <1>4
<1>6. QED
  BY <1>1, <1>2, <1>5 DEF BlobInv, CallInv, Asked

\* What the current call asks for.
LEMMA AskedOp ==
    ASSUME BlobInv, Pending, ~timedOut
    PROVE  /\ Asked.op = "next" => pc = "next"
           /\ Asked.op = "flush" => pc = "flush"
           /\ Asked.op = "free" => pc = "free"
           /\ Asked.op = "open" => /\ pc \in {"open", "reopen"}
                                  /\ Asked.cell = tasks[i] /\ Asked.fits = SlotFits
BY AskedLemma DEF Request, CallPcs

\* An answer of the server, whatever it does to its own cache.
LEMMA ServerInv ==
    ASSUME BlobInv, NEW status \in {"block", "end", "blob", "relen", "error", "ok"},
           NEW rows \in Seq(Nat), Reply(status, rows),
           UNCHANGED <<conf, pc, waiting, loop, timedOut>>,
           status \in {"blob", "relen"} => Len(rows) = 1,
           status = "block" => Len(rows) <= MaxTasks,
           blocks' \in 0..MaxBlocks, served' \in Nat, handles' \in Nat,
           ~timedOut => \A id : Answering([id |-> id, status |-> status, rows |-> rows]),
           ~timedOut /\ replies' # <<>> /\ Head(replies').status = status => HandlesInv'
    PROVE  BlobInv'
<1> DEFINE r == [id |-> handled + 1, status |-> status, rows |-> rows]
<1>0. /\ Pending /\ handled' = handled + 1 /\ replies' = Append(replies, r) /\ UNCHANGED <<log, link>>
      /\ UNCHANGED <<lenient, slot, pc, waiting, tasks, i, adapted, cells, echo, timedOut>>
  BY DEF Reply, conf, loop
<1>1. r.status = status /\ r.rows = rows /\ r \in Answers
  BY TypesLemma DEF Answers
<1>2. ~timedOut => Answering(r)
  OBVIOUS
<1> HIDE DEF r
<1>3. /\ replies' \in Seq(Answers) /\ Len(replies') = Len(replies) + 1
      /\ \A k \in 1..Len(replies) : replies'[k] = replies[k]
      /\ replies'[Len(replies) + 1] = r
      /\ Len(replies) \in Nat
  BY <1>0, <1>1, TypesLemma, AppendProperties
<1>4. ~timedOut => replies' # <<>> /\ Head(replies') = r
  <2>1. ~timedOut => Len(replies) = 0
    BY <1>0, AskedLemma, TypesLemma
  <2>2. Len(replies') # 0 /\ replies' # <<>> /\ Head(replies') = replies'[1]
    BY <1>3, EmptySeq, HeadTailProperties
  <2>3. QED
    BY <1>3, <2>1, <2>2
<1>5. TypeOK'
  BY <1>0 DEF BlobInv, TypeOK
<1>6. WireInv'
  <2>1. handled' \in 0..Len(log')
    BY <1>0, TypesLemma DEF Pending
  <2>2. \A k \in 1..Len(replies') :
           /\ IsBlob(replies'[k]) => Len(replies'[k].rows) = 1
           /\ replies'[k].status = "block" => Len(replies'[k].rows) <= MaxTasks
    <3> SUFFICES ASSUME NEW k \in 1..Len(replies')
                 PROVE  /\ IsBlob(replies'[k]) => Len(replies'[k].rows) = 1
                        /\ replies'[k].status = "block" => Len(replies'[k].rows) <= MaxTasks
      OBVIOUS
    <3>1. CASE k = Len(replies) + 1
      BY <1>1, <1>3, <3>1 DEF IsBlob
    <3>2. CASE k # Len(replies) + 1
      <4>1. k \in 1..Len(replies)
        BY <1>3, <3>2
      <4>2. QED
        BY <1>3, <4>1 DEF BlobInv, WireInv
    <3>3. QED
      BY <3>1, <3>2
  <2>3. QED
    BY <1>0, <1>3, <2>1, <2>2 DEF BlobInv, WireInv, IsBlob
<1>7. CallInv'
  <2>1. Request' = Request
    BY <1>0 DEF Request, SlotFits
  <2>2. \A l, h, m \in Nat : l - (h + 1) + (m + 1) = l - h + m
    OBVIOUS
  <2>3. Len(log) \in Nat /\ handled \in Nat /\ Len(replies) \in Nat /\ Len(log') = Len(log)
    BY <1>0, TypesLemma
  <2>4. Len(log') - handled' + Len(replies') = Len(log) - handled + Len(replies)
    BY <1>0, <1>3, <2>2, <2>3
  <2>5. QED
    BY <1>0, <2>1, <2>4 DEF BlobInv, CallInv
<1>8. AnswerInv'
  <2>1. ~timedOut => Answering(r)'
    BY <1>0, <1>2 DEF Answering, SlotFits, r
  <2>2. QED
    BY <1>0, <1>4, <2>1 DEF AnswerInv, Answering, SlotFits, r
<1>9. CellsInv'
  BY <1>0 DEF BlobInv, CellsInv, PayloadInPlace, StrictMeansWhole
<1>10. HandlesInv'
  BY <1>0, <1>1, <1>4 DEF HandlesInv
<1>11. QED
  BY <1>5, <1>6, <1>7, <1>8, <1>9, <1>10 DEF BlobInv

\* The next block, with any number of tasks up to the bound, or the end.
LEMMA SrvBlockInv ==
    ASSUME BlobInv, SrvBlock
    PROVE  BlobInv'
<1>0. /\ Pending /\ Asked.op = "next" /\ handles' = handles
      /\ UNCHANGED <<conf, pc, waiting, loop, timedOut>>
      /\ UNCHANGED <<pc, adapted, timedOut>>
  BY DEF SrvBlock, loop
<1>1. /\ handles \in Nat /\ blocks \in 0..MaxBlocks /\ blocks \in Nat /\ served \in Nat
      /\ MaxBlocks \in Nat /\ MaxTasks \in Nat
  BY Sizes DEF BlobInv, TypeOK
<1>2. ~timedOut => pc = "next" /\ replies = <<>> /\ handles <= blocks
  <2>1. ~timedOut => pc = "next" /\ replies = <<>>
    BY <1>0, AskedOp, AskedLemma
  <2>2. QED
    BY <1>1, <2>1 DEF BlobInv, HandlesInv, Leaked, Working
<1>3. CASE blocks = MaxBlocks /\ Reply("end", <<>>) /\ UNCHANGED <<blocks, served>>
  <2>1. <<>> \in Seq(Nat)
    BY EmptySeq
  <2>2. ~timedOut => \A id : Answering([id |-> id, status |-> "end", rows |-> <<>>])
    BY <1>2 DEF Answering
  <2>3. ~timedOut /\ replies' # <<>> /\ Head(replies').status = "end" => HandlesInv'
    BY <1>0, <1>1, <1>2, <1>3 DEF HandlesInv, HandlesBounded, Leaked, Working
  <2>4. QED
    BY <1>0, <1>1, <1>3, <2>1, <2>2, <2>3, ServerInv
<1>4. ASSUME blocks # MaxBlocks, NEW n \in 0..MaxTasks,
             Reply("block", [k \in 1..n |-> served + k]), served' = served + n, blocks' = blocks + 1
      PROVE  BlobInv'
  <2>1. PICK rows : rows = [k \in 1..n |-> served + k]
    OBVIOUS
  <2>2. n \in Nat /\ n <= MaxTasks /\ served' \in Nat /\ blocks' \in 0..MaxBlocks
    BY <1>1, <1>4
  <2>3. rows \in [1..n -> Nat]
    BY <1>1, <2>1
  <2>4. rows \in Seq(Nat) /\ Len(rows) = n
    <3>1. rows \in Seq(Nat)
      BY <2>2, <2>3, SeqDef
    <3>2. DOMAIN rows = 1..n
      BY <2>3
    <3>3. QED
      BY <2>2, <3>1, <3>2, LenProperties
  <2>5. ~timedOut => \A id : Answering([id |-> id, status |-> "block", rows |-> rows])
    BY <1>2 DEF Answering
  <2>6. ~timedOut /\ replies' # <<>> /\ Head(replies').status = "block" => HandlesInv'
    BY <1>0, <1>1, <1>2, <1>4 DEF HandlesInv, HandlesBounded, Leaked, Working
  <2>7. Reply("block", rows)
    BY <1>4, <2>1
  <2>8. handles' \in Nat /\ Len(rows) <= MaxTasks
    BY <1>0, <1>1, <2>2, <2>4
  <2>9. QED
    BY <1>0, <2>2, <2>4, <2>5, <2>6, <2>7, <2>8, ServerInv
<1>5. QED
  BY <1>3, <1>4 DEF SrvBlock

\* The answer to a fetch: the payload, the server's slot length, or an error.
LEMMA SrvOpenInv ==
    ASSUME BlobInv, SrvOpen
    PROVE  BlobInv'
<1>0. /\ Pending /\ Asked.op = "open"
      /\ UNCHANGED <<conf, pc, waiting, loop, timedOut, blocks, served>>
      /\ UNCHANGED <<pc, adapted, timedOut, blocks, served>>
  BY DEF SrvOpen, loop
<1>1. handles \in Nat /\ blocks \in Nat /\ blocks \in 0..MaxBlocks /\ served \in Nat
  BY Sizes DEF BlobInv, TypeOK
<1>2. ~timedOut => /\ pc \in {"open", "reopen"} /\ replies = <<>> /\ blocks > 0
                   /\ Asked.cell = tasks[i] /\ Asked.fits = SlotFits
                   /\ handles <= Leaked /\ Leaked \in Int /\ Leaked <= blocks
  <2>1. ~timedOut => /\ pc \in {"open", "reopen"} /\ replies = <<>>
                     /\ Asked.cell = tasks[i] /\ Asked.fits = SlotFits
    BY <1>0, AskedOp, AskedLemma
  <2>2. QED
    BY <1>1, <2>1 DEF BlobInv, HandlesInv, Leaked, Working
<1>3. ~timedOut => Leaked' = Leaked
  BY <1>0, <1>2 DEF Leaked
<1>4. ASSUME NEW status \in {"blob", "relen"}, NEW cell \in Nat, Reply(status, <<cell>>),
             handles' = handles + 1,
             ~timedOut => \A id : Answering([id |-> id, status |-> status, rows |-> <<cell>>])
      PROVE  BlobInv'
  <2>1. <<cell>> \in Seq(Nat) /\ Len(<<cell>>) = 1
    OBVIOUS
  <2>2. ~timedOut /\ replies' # <<>> /\ Head(replies').status = status => HandlesInv'
    <3> SUFFICES ASSUME ~timedOut, replies' # <<>>, Head(replies').status = status
                 PROVE  HandlesInv'
      OBVIOUS
    <3>1. Working' = 1
      BY <1>0, <1>2, <1>4 DEF Working, IsBlob
    <3>2. handles' <= blocks + 1
      BY <1>1, <1>2, <1>4
    <3>3. QED
      BY <1>0, <1>1, <1>2, <1>3, <1>4, <3>1, <3>2 DEF HandlesInv, HandlesBounded
  <2>3. handles' \in Nat /\ blocks' \in 0..MaxBlocks /\ served' \in Nat
    BY <1>0, <1>1, <1>4
  <2>4. status \in {"block", "end", "blob", "relen", "error", "ok"} /\ status # "block"
    OBVIOUS
  <2>5. QED
    BY <1>0, <1>4, <2>1, <2>2, <2>3, <2>4, ServerInv
<1>5. CASE Asked.fits /\ Reply("blob", <<Asked.cell>>) /\ handles' = handles + 1
  <2>1. Asked.cell \in Nat
    BY <1>0, AskedLemma DEF Requests
  <2>2. ~timedOut => \A id : Answering([id |-> id, status |-> "blob", rows |-> <<Asked.cell>>])
    BY <1>2 DEF Answering
  <2>3. QED
    BY <1>4, <1>5, <2>1, <2>2
<1>6. CASE ~Asked.fits /\ Reply("relen", <<0>>) /\ handles' = handles + 1
  <2>1. ~timedOut => \A id : Answering([id |-> id, status |-> "relen", rows |-> <<0>>])
    BY <1>2, <1>6 DEF Answering
  <2>2. QED
    BY <1>4, <1>6, <2>1
<1>7. CASE Reply("error", <<>>) /\ handles' = handles
  <2>1. <<>> \in Seq(Nat)
    BY EmptySeq
  <2>2. ~timedOut => \A id : Answering([id |-> id, status |-> "error", rows |-> <<>>])
    BY <1>2 DEF Answering
  <2>3. ~timedOut /\ replies' # <<>> /\ Head(replies').status = "error" => HandlesInv'
    <3> SUFFICES ASSUME ~timedOut, replies' # <<>>, Head(replies').status = "error"
                 PROVE  HandlesInv'
      OBVIOUS
    <3>1. Working' = 0
      BY <1>0, <1>2 DEF Working, IsBlob
    <3>2. QED
      BY <1>0, <1>1, <1>2, <1>3, <1>7, <3>1 DEF HandlesInv, HandlesBounded
  <2>4. handles' \in Nat /\ blocks' \in 0..MaxBlocks /\ served' \in Nat
    BY <1>0, <1>1, <1>7
  <2>5. QED
    BY <1>0, <1>7, <2>1, <2>2, <2>3, <2>4, ServerInv
<1>8. QED
  BY <1>5, <1>6, <1>7 DEF SrvOpen

\* A free closes one blob, a flush all of them.
LEMMA SrvFreeInv ==
    ASSUME BlobInv, SrvFree
    PROVE  BlobInv'
<1>0. /\ Pending /\ Asked.op \in {"free", "flush"} /\ Reply("ok", <<>>)
      /\ handles' = IF Asked.op = "flush" \/ handles = 0 THEN 0 ELSE handles - 1
      /\ UNCHANGED <<conf, pc, waiting, loop, timedOut, blocks, served>>
      /\ UNCHANGED <<pc, adapted, timedOut, blocks, served>>
  BY DEF SrvFree, loop
<1>1. /\ handles \in Nat /\ blocks \in Nat /\ blocks \in 0..MaxBlocks /\ served \in Nat
      /\ handles' \in Nat /\ handles' <= handles
      /\ Asked.op = "flush" => handles' = 0
      /\ handles' = 0 \/ handles' = handles - 1
  BY <1>0, Sizes DEF BlobInv, TypeOK
<1>2. ~timedOut => /\ replies = <<>> /\ blocks > 0 /\ handles <= blocks + 1
                   /\ pc = "flush" \/ (pc = "free" /\ handles <= Leaked + 1)
                   /\ pc = "flush" => Asked.op = "flush"
                   /\ Leaked \in Int /\ Leaked <= blocks /\ Leaked >= 0
  <2>1. ~timedOut => /\ replies = <<>> /\ pc \in {"flush", "free"}
                     /\ pc = "flush" => Asked.op = "flush"
    BY <1>0, AskedOp, AskedLemma
  <2>2. ~timedOut => blocks > 0 /\ handles <= blocks + 1 /\ handles <= Leaked + Working
    BY <2>1 DEF BlobInv, HandlesInv, HandlesBounded
  <2>3. ~timedOut => Leaked \in Int /\ Leaked <= blocks /\ Leaked >= 0
    BY <1>1, <2>1, <2>2 DEF Leaked
  <2>4. ~timedOut => Working = IF pc = "free" THEN 1 ELSE 0
    BY <2>1 DEF Working
  <2>5. QED
    BY <1>1, <2>1, <2>2, <2>3, <2>4
<1>3. ~timedOut => \A id : Answering([id |-> id, status |-> "ok", rows |-> <<>>])
  BY <1>2 DEF Answering
<1>4. ~timedOut /\ replies' # <<>> /\ Head(replies').status = "ok" => HandlesInv'
  <2> SUFFICES ASSUME ~timedOut, replies' # <<>>
               PROVE  HandlesInv'
    OBVIOUS
  <2>1. Leaked' = Leaked /\ Working' = 0
    BY <1>0, <1>2 DEF Leaked, Working
  <2>2. handles' <= Leaked
    BY <1>1, <1>2
  <2>3. QED
    BY <1>0, <1>1, <1>2, <2>1, <2>2 DEF HandlesInv, HandlesBounded
<1>5. <<>> \in Seq(Nat)
  BY EmptySeq
<1>6. blocks' \in 0..MaxBlocks /\ served' \in Nat
  BY <1>0, <1>1
<1>7. QED
  BY <1>0, <1>1, <1>3, <1>4, <1>5, <1>6, ServerInv

LEMMA DropInv ==
    ASSUME BlobInv, Drop
    PROVE  BlobInv'
<1>0. /\ link = "up" /\ link' = "fin"
      /\ UNCHANGED <<log, handled, replies, lenient, slot, pc, waiting, tasks, i, adapted, cells,
                     echo, timedOut, blocks, served, handles>>
  BY DEF Drop, Disconnect, conf, loop, srvVars
<1>1. TypeOK'
  BY <1>0 DEF BlobInv, TypeOK
<1>2. WireInv'
  BY <1>0 DEF BlobInv, WireInv, IsBlob
<1>3. CallInv'
  BY <1>0 DEF BlobInv, CallInv, Request, SlotFits
<1>4. AnswerInv' /\ CellsInv'
  BY <1>0 DEF BlobInv, AnswerInv, Answering, SlotFits, CellsInv, PayloadInPlace, StrictMeansWhole
<1>5. HandlesInv'
  BY <1>0 DEF BlobInv, HandlesInv, HandlesBounded, Leaked, Working, IsBlob
<1>6. QED
  BY <1>1, <1>2, <1>3, <1>4, <1>5 DEF BlobInv

LEMMA StutterInv ==
    ASSUME BlobInv, UNCHANGED vars
    PROVE  BlobInv'
<1>0. UNCHANGED <<log, handled, replies, link, lenient, slot, pc, waiting, tasks, i, adapted, cells,
                  echo, timedOut, blocks, served, handles>>
  BY DEF vars, netVars, conf, loop, srvVars
<1>1. TypeOK'
  BY <1>0 DEF BlobInv, TypeOK
<1>2. WireInv'
  BY <1>0 DEF BlobInv, WireInv, IsBlob
<1>3. CallInv'
  BY <1>0 DEF BlobInv, CallInv, Request, SlotFits
<1>4. AnswerInv' /\ CellsInv'
  BY <1>0 DEF BlobInv, AnswerInv, Answering, SlotFits, CellsInv, PayloadInPlace, StrictMeansWhole
<1>5. HandlesInv'
  BY <1>0 DEF BlobInv, HandlesInv, HandlesBounded, Leaked, Working, IsBlob
<1>6. QED
  BY <1>1, <1>2, <1>3, <1>4, <1>5 DEF BlobInv

-----------------------------------------------------------------------------
(***************************************************************************)
(* The theorems.                                                           *)
(***************************************************************************)

LEMMA NextInv == BlobInv /\ [Next]_vars => BlobInv'
<1> SUFFICES ASSUME BlobInv, [Next]_vars PROVE BlobInv'
  OBVIOUS
<1>1. CASE Call
  BY <1>1, CallInvLemma
<1>2. CASE CallThrows
  BY <1>2, CallThrowsInv
<1>3. CASE AnswerThrows
  BY <1>3, AnswerThrowsInv
<1>4. CASE BlockReply
  BY <1>4, BlockReplyInv
<1>5. CASE FlushReply
  BY <1>5, FlushReplyInv
<1>6. CASE OpenReply
  BY <1>6, OpenReplyInv
<1>7. CASE ReopenReply
  BY <1>7, ReopenReplyInv
<1>8. CASE FreeReply
  BY <1>8, FreeReplyInv
<1>9. CASE Emit
  BY <1>9, EmitInv
<1>10. CASE SrvBlock
  BY <1>10, SrvBlockInv
<1>11. CASE SrvOpen
  BY <1>11, SrvOpenInv
<1>12. CASE SrvFree
  BY <1>12, SrvFreeInv
<1>13. CASE Drop
  BY <1>13, DropInv
<1>14. CASE SlotThrows
  BY <1>14, SlotThrowsInv
<1>15. CASE UNCHANGED vars
  BY <1>15, StutterInv
<1>16. QED
  BY <1>1, <1>2, <1>3, <1>4, <1>5, <1>6, <1>7, <1>8, <1>9, <1>10, <1>11, <1>12, <1>13, <1>14, <1>15
     DEF Next, Client, Server, Over

\* The whole state of the blob fetches: what is on the wire, which reply
\* belongs to which call, which cells are filled, which blobs are open.
THEOREM BlobInvariant == Spec => []BlobInv
BY InitInv, NextInv, PTL DEF Spec

\* A blob cell never shows another cell's payload, unless a lenient scan has
\* given up a request (decode_batch_with_blobs: fetch, adapt, store, free).
THEOREM PayloadSafe == Spec => []PayloadInPlace
<1>1. BlobInv => PayloadInPlace
  BY DEF BlobInv, CellsInv
<1>2. QED
  BY <1>1, BlobInvariant, PTL

\* A strict scan hands DuckDB a block with all of its payloads or none.
THEOREM StrictWhole == Spec => []StrictMeansWhole
<1>1. BlobInv => StrictMeansWhole
  BY DEF BlobInv, CellsInv
<1>2. QED
  BY <1>1, BlobInvariant, PTL

\* As long as nothing times out, the server's blob cache never holds more
\* than one blob for each block and one for the task at hand.
THEOREM HandleBudget == Spec => []HandlesBounded
<1>1. BlobInv => HandlesBounded
  BY DEF BlobInv, HandlesInv, HandlesBounded
<1>2. QED
  BY <1>1, BlobInvariant, PTL

=============================================================================
