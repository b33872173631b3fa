----------------------------- MODULE EndsProofs -----------------------------
(***************************************************************************)
(* Safety of the parts of module Ends, each for every instance: the life   *)
(* of the process (Lifecycle), the pipe of a query (QueryPipe) and the     *)
(* expiration manager (Expiration).  The parts do not meet; every section  *)
(* has its own inductive invariant, which holds in the part's own          *)
(* behaviours and so in those of Ends.                                     *)
(***************************************************************************)
EXTENDS Ends, SequenceTheorems, TLAPS

-----------------------------------------------------------------------------
(* The life of the process *)

OpOK ==
    op \in [Op -> [phase : {"ready", "returned", "reported"},
                   err : {"nil", "canceled", "database", "empty tag set"}, done : BOOLEAN]]

\* A failure that was reported before its message was given up; it stays one.
Met(o) == L!Gone(o) /\ ~op[o].done

\* What is in the channel is the report of such a failure, and nothing is in
\* the exit code before Start leaves its select.
LifeInv ==
    /\ OpOK
    /\ L!ExitTellsWhy
    /\ failures # <<>> => \E o \in Op : Met(o)
    /\ main = "select" => exit = L!None

\* An operation that has reported does not change any more.
LEMMA MetStays ==
    ASSUME OpOK,
           \/ UNCHANGED op
           \/ \E o \in Op : L!CancelContext(o) \/ L!Return(o) \/ L!Report(o)
    PROVE  OpOK' /\ \A o \in Op : Met(o) => Met(o)'
  <1>1. CASE UNCHANGED op
    BY <1>1 DEF OpOK, Met, L!Gone
  <1>2. ASSUME NEW o \in Op, L!CancelContext(o) \/ L!Return(o) \/ L!Report(o)
        PROVE  OpOK' /\ \A p \in Op : Met(p) => Met(p)'
    <2>1. CASE L!CancelContext(o)
      BY <2>1 DEF OpOK, Met, L!Gone, L!CancelContext
    <2>2. CASE L!Return(o)
      <3>1. PICK err \in {"nil", "canceled", "database", "empty tag set"} :
                op' = [op EXCEPT ![o].phase = "returned", ![o].err = err]
        BY <2>2 DEF L!Return
      <3>2. op[o].phase = "ready"
        BY <2>2 DEF L!Return
      <3> QED
        BY <3>1, <3>2 DEF OpOK, Met, L!Gone
    <2>3. CASE L!Report(o)
      <3>1. op' = [op EXCEPT ![o].phase = "reported"] /\ op[o].phase = "returned"
        BY <2>3 DEF L!Report
      <3>2. OpOK'
        BY <3>1 DEF OpOK
      <3>3. \A p \in Op : /\ op[p].phase = "reported" => op'[p].phase = "reported"
                          /\ op'[p].err = op[p].err /\ op'[p].done = op[p].done
        BY <3>1 DEF OpOK
      <3> QED
        BY <3>2, <3>3 DEF Met, L!Gone
    <2> QED
      BY <1>2, <2>1, <2>2, <2>3
  <1> QED
    BY <1>1, <1>2

\* A report puts into the channel the failure it reports, unless one is there.
LEMMA ReportIsKept ==
    ASSUME LifeInv, NEW o \in Op, L!Report(o)
    PROVE  LifeInv'
  <1>1. OpOK' /\ \A p \in Op : Met(p) => Met(p)'
    BY MetStays DEF LifeInv
  <1>2. /\ op' = [op EXCEPT ![o].phase = "reported"]
        /\ UNCHANGED <<signalled, server, main, exit>>
        /\ failures' = IF L!isDatabaseFailure(op[o].err, op[o].done) /\ failures = <<>>
                       THEN <<o>> ELSE failures
    BY DEF L!Report
  <1>3. Met(o)' <=> L!isDatabaseFailure(op[o].err, op[o].done)
    BY <1>2 DEF LifeInv, OpOK, Met, L!Gone, L!isDatabaseFailure, L!Expected
  <1>4. \A p \in Op : p # o => (Met(p)' <=> Met(p))
    BY <1>2 DEF LifeInv, OpOK, Met, L!Gone
  <1>5. Met(o)' => failures' # <<>>
    BY <1>2, <1>3
  <1>6. failures # <<>> => failures' # <<>>
    BY <1>2
  <1>7. L!ExitTellsWhy'
    BY <1>1, <1>2, <1>4, <1>5, <1>6 DEF LifeInv, L!ExitTellsWhy, Met, L!Gone
  <1>8. failures' # <<>> => \E p \in Op : Met(p)'
    BY <1>1, <1>2, <1>3 DEF LifeInv
  <1> QED
    BY <1>1, <1>2, <1>7, <1>8 DEF LifeInv

\* The steps of the process's end keep its invariant.
LEMMA LifeStep ==
    ASSUME LifeInv, L!LifeNext \/ UNCHANGED L!lifeVars
    PROVE  LifeInv'
  <1>1. ASSUME NEW o \in Op, L!CancelContext(o) \/ L!Return(o)
        PROVE  LifeInv'
    <2>1. /\ OpOK' /\ UNCHANGED <<failures, signalled, server, main, exit>>
          /\ \A p \in Op : Met(p) => Met(p)'
      BY <1>1, MetStays DEF LifeInv, L!CancelContext, L!Return
    <2>2. \A p \in Op : Met(p)' => Met(p)
      <3> SUFFICES ASSUME NEW p \in Op, Met(p)' PROVE Met(p)
        OBVIOUS
      <3>1. op \in [Op -> [phase : {"ready", "returned", "reported"},
                          err : {"nil", "canceled", "database", "empty tag set"},
                          done : BOOLEAN]]
        BY DEF LifeInv, OpOK
      <3>2. CASE L!CancelContext(o)
        <4>1. op' = [op EXCEPT ![o].done = TRUE] /\ op[o].phase # "reported"
          BY <3>2 DEF L!CancelContext
        <4>2. p # o
          BY <3>1, <4>1 DEF Met, L!Gone
        <4>3. op'[p] = op[p]
          BY <3>1, <4>1, <4>2
        <4> QED
          BY <4>3 DEF Met, L!Gone
      <3>3. CASE L!Return(o)
        <4>1. PICK err : op' = [op EXCEPT ![o].phase = "returned", ![o].err = err]
          BY <3>3 DEF L!Return
        <4>2. p # o
          BY <3>1, <4>1 DEF Met, L!Gone
        <4>3. op'[p] = op[p]
          BY <3>1, <4>1, <4>2
        <4> QED
          BY <4>3 DEF Met, L!Gone
      <3> QED
        BY <1>1, <3>2, <3>3
    <2>3. L!ExitTellsWhy'
      BY <2>1, <2>2 DEF LifeInv, L!ExitTellsWhy, Met, L!Gone
    <2> QED
      BY <2>1, <2>3 DEF LifeInv
  <1>2. CASE UNCHANGED op
    <2>1. OpOK' /\ \A o \in Op : Met(o)' <=> Met(o)
      BY <1>2, MetStays DEF LifeInv, OpOK, Met, L!Gone
    <2>2. CASE L!Signal \/ L!ServerFails \/ UNCHANGED L!lifeVars \/ \E r \in Request : L!Answer(r)
      BY <2>1, <2>2 DEF LifeInv, Met, L!ExitTellsWhy, L!Signal, L!ServerFails, L!Answer,
                        L!lifeVars, L!Gone
    <2>3. CASE L!SelectSignal \/ L!SelectServerError
      BY <2>1, <2>3 DEF LifeInv, Met, L!ExitTellsWhy, L!SelectSignal, L!SelectServerError,
                        L!Shutdown, L!Gone
    <2>4. CASE L!SelectFailure
      BY <2>1, <2>4 DEF LifeInv, Met, L!ExitTellsWhy, L!SelectFailure, L!Shutdown, L!Gone
    <2>5. CASE L!ShutdownEnds \/ L!Exit
      BY <2>1, <2>5 DEF LifeInv, Met, L!ExitTellsWhy, L!ShutdownEnds, L!Exit, L!Gone
    <2> QED
      BY <1>1, <2>2, <2>3, <2>4, <2>5, ReportIsKept DEF L!LifeNext, L!Main
  <1>3. UNCHANGED op \/ \E o \in Op : L!CancelContext(o) \/ L!Return(o) \/ L!Report(o)
    BY DEF L!LifeNext, L!lifeVars, L!Signal, L!ServerFails, L!Main, L!SelectSignal,
           L!SelectFailure, L!SelectServerError, L!ShutdownEnds, L!Exit, L!Answer
  <1> QED
    BY <1>1, <1>2, <1>3, ReportIsKept

-----------------------------------------------------------------------------
(* The pipe of a query *)

Row == Nat

PipeTypes ==
    /\ unread \in Seq(Row) /\ offered \in Seq(Row)
    /\ queue \in Seq(Row) /\ received \in Seq(Row)
    /\ scan \in {"next", "offer", "closed"}
    /\ collector \in {"select", "closed"}
    /\ sourceOpen \in BOOLEAN /\ ctxDone \in BOOLEAN /\ broke \in BOOLEAN

\* No row is lost on the way: those that have left the scan's hands are before
\* the one it holds, and that is before the ones it has not read.
NothingLost ==
    /\ ((received \o queue) \o offered) \o unread = Rows
    /\ Len(queue) <= QueueLimit
    /\ scan = "next" => offered = <<>>
    /\ scan = "offer" => Len(offered) = 1

\* A channel that is closed in an undisturbed query had nothing left behind it.
ClosedIsEmpty ==
    /\ scan = "closed" /\ ~ctxDone /\ ~broke => unread = <<>> /\ offered = <<>>
    /\ ~sourceOpen => scan = "closed"
    /\ collector = "closed" /\ ~ctxDone => ~sourceOpen /\ queue = <<>>
    /\ spanEnds = IF sourceOpen /\ collector = "select" THEN 0 ELSE 1

PipeInv == PipeTypes /\ NothingLost /\ ClosedIsEmpty

\* The first element of a sequence moves to the end of the one before it.
LEMMA HeadMoves ==
    ASSUME NEW S, NEW s \in Seq(S), NEW t \in Seq(S), t # <<>>
    PROVE  /\ <<Head(t)>> \in Seq(S) /\ Tail(t) \in Seq(S)
           /\ (s \o <<Head(t)>>) \o Tail(t) = s \o t
           /\ Append(s, Head(t)) = s \o <<Head(t)>>
  <1>1. Head(t) \in S /\ Tail(t) \in Seq(S)
    BY HeadTailProperties
  <1>2. <<Head(t)>> \in Seq(S)
    BY <1>1
  <1>3. <<Head(t)>> \o Tail(t) = t
    <2>1. Len(<<Head(t)>>) = 1 /\ <<Head(t)>>[1] = t[1]
      OBVIOUS
    <2>2. /\ Len(Tail(t)) = Len(t) - 1 /\ Len(t) \in Nat
          /\ \A i \in 1 .. Len(Tail(t)) : Tail(t)[i] = t[i + 1]
      BY HeadTailProperties, LenProperties
    <2>3. /\ <<Head(t)>> \o Tail(t) \in Seq(S)
          /\ Len(<<Head(t)>> \o Tail(t)) = Len(t)
          /\ \A i \in 1 .. Len(t) : (<<Head(t)>> \o Tail(t))[i] =
                 IF i <= 1 THEN <<Head(t)>>[i] ELSE Tail(t)[i - 1]
      BY <1>1, <1>2, <2>1, <2>2, ConcatProperties
    <2>4. \A i \in 1 .. Len(t) : (<<Head(t)>> \o Tail(t))[i] = t[i]
      BY <2>1, <2>2, <2>3
    <2> QED
      BY <2>2, <2>3, <2>4, SeqEqual
  <1>4. (s \o <<Head(t)>>) \o Tail(t) = s \o t
    BY <1>1, <1>2, <1>3, ConcatAssociative
  <1> QED
    BY <1>1, <1>2, <1>4, AppendIsConcat

\* A sequence is a prefix of what it is continued to.
LEMMA PrefixOfConcat ==
    ASSUME NEW S, NEW s \in Seq(S), NEW t \in Seq(S)
    PROVE  Q!IsPrefix(s, s \o t)
  <1>1. /\ Len(s) \in Nat /\ Len(s) <= Len(s \o t)
    BY ConcatProperties, LenProperties
  <1>2. SubSeq(s, 1, Len(s)) = SubSeq(s \o t, 1, Len(s))
    <2>1. CASE Len(s) = 0
      BY <2>1, SubSeqEmpty
    <2>2. CASE Len(s) # 0
      BY <1>1, <2>2, SubSeqOfConcat1
    <2> QED
      BY <2>1, <2>2
  <1> QED
    BY <1>1, <1>2 DEF Q!IsPrefix

\* The scan of the rows.
LEMMA ScanSteps ==
    ASSUME Q!PipeAssumption, PipeInv, Q!Scan
    PROVE  PipeInv'
  <1>0. /\ received \o queue \in Seq(Row)
        /\ UNCHANGED <<received, queue, collector, sourceOpen, spanEnds, ctxDone>>
    BY ConcatProperties DEF PipeInv, PipeTypes, Q!Scan, Q!ReadRow, Q!EndScan, Q!BreakScan,
                            Q!AbandonRow
  <1>1. CASE Q!ReadRow
    <2>1. /\ unread # <<>> /\ offered = <<>>
          /\ offered' = <<Head(unread)>> /\ unread' = Tail(unread)
          /\ scan = "next" /\ scan' = "offer" /\ UNCHANGED broke
      BY <1>1 DEF Q!ReadRow, PipeInv, NothingLost
    <2>2. ((received \o queue) \o <<>>) \o unread = (received \o queue) \o unread
      BY <1>0, ConcatEmptySeq
    <2>3. /\ unread' \in Seq(Row) /\ offered' \in Seq(Row)
          /\ ((received \o queue) \o offered') \o unread' = (received \o queue) \o unread
      <3>1. unread \in Seq(Row) /\ received \o queue \in Seq(Row) /\ unread # <<>>
        BY <1>0, <2>1 DEF PipeInv, PipeTypes
      <3>2. /\ <<Head(unread)>> \in Seq(Row) /\ Tail(unread) \in Seq(Row)
            /\ ((received \o queue) \o <<Head(unread)>>) \o Tail(unread)
                  = (received \o queue) \o unread
        <4>1. PICK a, b : a = received \o queue /\ b = unread
          OBVIOUS
        <4>2. a \in Seq(Row) /\ b \in Seq(Row) /\ b # <<>>
          BY <3>1, <4>1
        <4>3. /\ <<Head(b)>> \in Seq(Row) /\ Tail(b) \in Seq(Row)
              /\ (a \o <<Head(b)>>) \o Tail(b) = a \o b
          BY <4>2, HeadMoves
        <4> QED
          BY <4>1, <4>3
      <3> QED
        BY <2>1, <3>2
    <2>4. ((received \o queue) \o offered') \o unread' = Rows
      BY <2>1, <2>2, <2>3 DEF PipeInv, NothingLost
    <2>5. Len(offered') = 1
      BY <2>1
    <2> QED
      BY <1>0, <2>1, <2>3, <2>4, <2>5 DEF PipeInv, PipeTypes, NothingLost, ClosedIsEmpty
  <1>2. CASE Q!EndScan \/ Q!BreakScan \/ Q!AbandonRow
    BY <1>0, <1>2 DEF Q!EndScan, Q!BreakScan, Q!AbandonRow, PipeInv, PipeTypes, NothingLost,
                      ClosedIsEmpty
  <1> QED
    BY <1>1, <1>2 DEF Q!Scan

\* The goroutine that buffers the rows.
LEMMA CollectorSteps ==
    ASSUME Q!PipeAssumption, PipeInv, Q!Collector
    PROVE  PipeInv'
  <1> USE DEF PipeInv, PipeTypes
  <1>0. QueueLimit \in Nat
    BY DEF Q!PipeAssumption
  <1>1. CASE Q!Collect
    <2>1. /\ Len(queue) < QueueLimit /\ scan = "offer" /\ collector = "select" /\ sourceOpen
          /\ queue' = queue \o offered /\ offered' = <<>> /\ scan' = "next"
          /\ UNCHANGED <<unread, collector, sourceOpen, spanEnds, received, ctxDone, broke>>
      BY <1>1 DEF Q!Collect, Q!Receiving
    <2>2. queue' \in Seq(Row) /\ Len(queue') = Len(queue) + 1
      <3>1. Len(offered) = 1
        BY <2>1 DEF NothingLost
      <3>2. queue \o offered \in Seq(Row) /\ Len(queue \o offered) = Len(queue) + Len(offered)
        BY ConcatProperties
      <3> QED
        BY <2>1, <3>1, <3>2
    <2>3. Len(queue) \in Nat
      BY LenProperties
    <2>4. (received \o queue') \o offered' = (received \o queue) \o offered
      <3>1. received \o queue' = (received \o queue) \o offered
        <4>1. received \in Seq(Row) /\ queue \in Seq(Row) /\ offered \in Seq(Row)
          OBVIOUS
        <4> HIDE DEF PipeInv, PipeTypes
        <4>2. received \o (queue \o offered) = (received \o queue) \o offered
          BY <4>1, ConcatAssociative
        <4> QED
          BY <2>1, <4>2
      <3>2. received \o queue' \in Seq(Row)
        BY <2>2, ConcatProperties
      <3> QED
        BY <2>1, <3>1, <3>2, ConcatEmptySeq
    <2>5. NothingLost'
      BY <1>0, <2>1, <2>2, <2>3, <2>4 DEF NothingLost
    <2>6. ClosedIsEmpty'
      BY <2>1 DEF ClosedIsEmpty
    <2>7. PipeTypes'
      BY <2>1, <2>2, EmptySeq
    <2> QED
      BY <2>5, <2>6, <2>7
  <1>2. CASE Q!Send
    <2>1. /\ collector = "select" /\ queue # <<>>
          /\ received' = Append(received, Head(queue)) /\ queue' = Tail(queue)
          /\ ctxDone' \in BOOLEAN /\ (ctxDone => ctxDone')
          /\ collector' = IF Tail(queue) = <<>> /\ ~sourceOpen THEN "closed" ELSE "select"
          /\ UNCHANGED <<unread, scan, offered, sourceOpen, spanEnds, broke>>
      BY <1>2 DEF Q!Send
    <2>2. /\ received' \in Seq(Row) /\ queue' \in Seq(Row)
          /\ received' \o queue' = received \o queue
      <3>1. received \in Seq(Row) /\ queue \in Seq(Row)
        OBVIOUS
      <3> HIDE DEF PipeInv, PipeTypes
      <3>2. /\ <<Head(queue)>> \in Seq(Row) /\ Tail(queue) \in Seq(Row)
            /\ (received \o <<Head(queue)>>) \o Tail(queue) = received \o queue
            /\ Append(received, Head(queue)) = received \o <<Head(queue)>>
        <4>1. PICK a, b : a = received /\ b = queue
          OBVIOUS
        <4>2. a \in Seq(Row) /\ b \in Seq(Row) /\ b # <<>>
          BY <2>1, <3>1, <4>1
        <4>3. /\ <<Head(b)>> \in Seq(Row) /\ Tail(b) \in Seq(Row)
              /\ (a \o <<Head(b)>>) \o Tail(b) = a \o b
              /\ Append(a, Head(b)) = a \o <<Head(b)>>
          BY <4>2, HeadMoves
        <4> QED
          BY <4>1, <4>3
      <3>3. received \o <<Head(queue)>> \in Seq(Row)
        BY <3>1, <3>2, ConcatProperties
      <3> QED
        BY <2>1, <3>2, <3>3
    <2>3. Len(queue') = Len(queue) - 1 /\ Len(queue) \in Nat
      BY <2>1, HeadTailProperties, LenProperties
    <2>4. NothingLost'
      <3>1. Len(queue) <= QueueLimit
        BY DEF NothingLost
      <3>2. Len(queue') <= QueueLimit
        BY <1>0, <2>3, <3>1
      <3>3. ((received' \o queue') \o offered') \o unread' = ((received \o queue) \o offered) \o unread
        BY <2>1, <2>2
      <3> QED
        BY <2>1, <3>2, <3>3 DEF NothingLost
    <2>5. ClosedIsEmpty'
      <3>1. /\ scan = "closed" /\ ~ctxDone /\ ~broke => unread = <<>> /\ offered = <<>>
            /\ ~sourceOpen => scan = "closed"
            /\ spanEnds = IF sourceOpen THEN 0 ELSE 1
        BY <2>1 DEF ClosedIsEmpty
      <3>2. collector' = "closed" => queue' = <<>> /\ ~sourceOpen
        BY <2>1
      <3>3. collector' # "closed" => collector' = "select"
        BY <2>1
      <3> QED
        BY <2>1, <3>1, <3>2, <3>3 DEF ClosedIsEmpty
    <2>6. PipeTypes'
      BY <2>1, <2>2
    <2> QED
      BY <2>4, <2>5, <2>6
  <1>3. CASE Q!SourceCloses \/ Q!CollectorCancelled
    <2>1. UNCHANGED <<unread, scan, offered, queue, received, ctxDone, broke>>
      BY <1>3 DEF Q!SourceCloses, Q!CollectorCancelled
    <2>2. NothingLost'
      BY <2>1 DEF NothingLost
    <2>3. ClosedIsEmpty'
      BY <1>3, <2>1 DEF Q!SourceCloses, Q!CollectorCancelled, Q!Receiving, ClosedIsEmpty
    <2>4. PipeTypes'
      BY <1>3, <2>1 DEF Q!SourceCloses, Q!CollectorCancelled
    <2> QED
      BY <2>2, <2>3, <2>4
  <1> QED
    BY <1>1, <1>2, <1>3 DEF Q!Collector

\* A query starts with all its rows unread.
LEMMA PipeStarts == Q!PipeInit => PipeInv
  <1> SUFFICES ASSUME Q!PipeInit PROVE PipeInv
    OBVIOUS
  <1>1. Rows \in Seq(Row) /\ <<>> \in Seq(Row) /\ Len(<<>>) = 0
    BY InstancesAssumption, EmptySeq DEF Q!PipeAssumption, Row
  <1>2. ((<<>> \o <<>>) \o <<>>) \o Rows = Rows
    BY <1>1, ConcatEmptySeq
  <1>3. QueueLimit \in Nat
    BY InstancesAssumption DEF Q!PipeAssumption
  <1>4. NothingLost
    BY <1>1, <1>2, <1>3 DEF Q!PipeInit, NothingLost
  <1> QED
    <2>1. PipeTypes
      BY <1>1 DEF Q!PipeInit, PipeTypes
    <2>2. ClosedIsEmpty
      BY DEF Q!PipeInit, ClosedIsEmpty
    <2> QED
      BY <1>4, <2>1, <2>2 DEF PipeInv

\* Every step of the three goroutines of a query keeps its rows in order.
LEMMA PipeStep ==
    ASSUME PipeInv, [Q!PipeNext]_(Q!pipeVars)
    PROVE  PipeInv'
  <1>1. ASSUME PipeInv, Q!SeeClose \/ Q!Disconnect \/ UNCHANGED Q!pipeVars
        PROVE  PipeInv'
    <2>1. UNCHANGED <<unread, scan, offered, queue, collector, sourceOpen, spanEnds, received, broke>>
      BY <1>1 DEF Q!SeeClose, Q!Disconnect, Q!pipeVars
    <2>2. ctxDone' \in {ctxDone, TRUE}
      BY <1>1 DEF Q!SeeClose, Q!Disconnect, Q!pipeVars
    <2>3. NothingLost'
      BY <1>1, <2>1 DEF PipeInv, NothingLost
    <2>4. PipeTypes' /\ ClosedIsEmpty'
      BY <1>1, <2>1, <2>2 DEF PipeInv, PipeTypes, ClosedIsEmpty
    <2> QED
      BY <2>3, <2>4 DEF PipeInv
  <1> QED
    BY <1>1, ScanSteps, CollectorSteps, InstancesAssumption DEF Q!PipeNext

\* What the invariant means for the consumer.
LEMMA PipeInOrder == PipeInv => Q!RowsInOrder
  <1> SUFFICES ASSUME PipeInv PROVE Q!RowsInOrder
    OBVIOUS
  <1>1. (received \o queue) \o offered \in Seq(Row) /\ received \o queue \in Seq(Row)
    BY ConcatProperties DEF PipeInv, PipeTypes
  <1>2. Q!IsPrefix((received \o queue) \o offered, Rows)
    <2>1. Q!IsPrefix((received \o queue) \o offered, ((received \o queue) \o offered) \o unread)
      BY <1>1, PrefixOfConcat DEF PipeInv, PipeTypes
    <2> QED
      BY <2>1 DEF PipeInv, NothingLost
  <1>3. ASSUME collector = "closed", ~ctxDone, ~broke
        PROVE  received = Rows
    <2>1. queue = <<>> /\ offered = <<>> /\ unread = <<>>
      BY <1>3 DEF PipeInv, ClosedIsEmpty
    <2>2. received \o <<>> = received
      BY ConcatEmptySeq DEF PipeInv, PipeTypes
    <2> QED
      BY <2>1, <2>2 DEF PipeInv, NothingLost
  <1> QED
    BY <1>2, <1>3 DEF PipeInv, NothingLost, ClosedIsEmpty, Q!RowsInOrder

-----------------------------------------------------------------------------
(* The expiration manager *)

\* The manager has an event in its hands only between popping its entry and
\* deleting it, and never two.
InHands ==
    /\ manager \in [pc : {"idle", "scan", "check", "pop", "query", "delete", "stopped"},
                    event : SUBSET ExpEvent, now : Nat]
    /\ IF manager.pc \in {"query", "delete"} THEN \E e \in ExpEvent : manager.event = {e}
       ELSE manager.event = {}

ExpInv ==
    /\ now \in Nat /\ storage \subseteq ExpEvent /\ heap \in [ExpEvent -> Nat] /\ scanned \in BOOLEAN
    /\ fresh \subseteq storage
    /\ InHands
    /\ X!StoredIsTracked

\* The expiration manager's own steps.
LEMMA ManagerSteps ==
    ASSUME ExpInv, X!ManagerStep
    PROVE  ExpInv'
  <1> USE DEF ExpInv, InHands, X!At, X!Goto
  <1>0. UNCHANGED <<now, tracking>>
    BY DEF X!ManagerStep, X!Tick, X!InitialScan, X!ScanFails, X!BeginCheck, X!PopExpired,
           X!EndCheck, X!QueryById, X!DeleteExpired, X!CheckFails
  <1>1. CASE X!Tick \/ X!EndCheck \/ X!BeginCheck
    <2>1. /\ UNCHANGED <<storage, heap, scanned, fresh, missed>>
          /\ manager.event = {} /\ InHands' /\ manager'.event = {}
      BY <1>1 DEF X!Tick, X!EndCheck, X!BeginCheck
    <2> QED
      BY <1>0, <2>1 DEF X!StoredIsTracked
  <1>2. CASE X!InitialScan \/ X!ScanFails
    <2>1. PICK rows : X!PushRows(rows)
      BY <1>2 DEF X!InitialScan, X!ScanFails
    <2>2. manager.event = {} /\ UNCHANGED <<storage, fresh>>
      BY <1>2 DEF X!InitialScan, X!ScanFails
    <2>3. /\ heap' = [e \in ExpEvent |-> heap[e] + (IF e \in rows /\ X!Expiring(e) THEN 1 ELSE 0)]
          /\ missed' = (missed \ rows) \cup (storage \ (rows \cup fresh))
          /\ scanned' = TRUE
          /\ manager' = [manager EXCEPT !.pc = "check", !.event = {}]
      BY <2>1 DEF X!PushRows
    <2>4. /\ heap' \in [ExpEvent -> Nat]
          /\ \A e \in ExpEvent : heap[e] > 0 => heap'[e] > 0
          /\ \A e \in rows \cap ExpEvent : X!Expiring(e) => heap'[e] > 0
      BY <2>3
    <2>5. InHands' /\ manager'.event = {}
      BY <2>3
    <2>6. ASSUME NEW e \in storage, X!Expiring(e)
          PROVE  heap'[e] > 0 \/ e \in tracking \cup missed'
      <3>1. CASE e \in rows
        BY <3>1, <2>4, <2>6
      <3>2. CASE e \notin rows /\ e \in fresh
        BY <3>2, <2>2, <2>3, <2>4, <2>6 DEF X!StoredIsTracked
      <3>3. CASE e \notin rows \cup fresh
        BY <3>3, <2>3
      <3> QED
        BY <3>1, <3>2, <3>3
    <2> QED
      BY <1>0, <2>2, <2>3, <2>4, <2>5, <2>6 DEF X!StoredIsTracked
  <1>3. CASE X!PopExpired
    <2>1. PICK e \in X!Due :
              /\ heap' = [heap EXCEPT ![e] = @ - 1]
              /\ manager' = [manager EXCEPT !.pc = "query", !.event = {e}]
      BY <1>3 DEF X!PopExpired
    <2>2. e \in ExpEvent /\ heap[e] > 0
      BY DEF X!Due, X!Next1, X!Entries
    <2>3. /\ manager.event = {} /\ UNCHANGED <<storage, scanned, fresh, missed>>
      BY <1>3 DEF X!PopExpired
    <2>4. manager'.event = {e} /\ InHands'
      BY <2>1, <2>2
    <2>5. heap' \in [ExpEvent -> Nat] /\ \A f \in ExpEvent : f # e => heap'[f] = heap[f]
      BY <2>1, <2>2
    <2> QED
      BY <1>0, <2>3, <2>4, <2>5 DEF X!StoredIsTracked
  <1>4. CASE X!QueryById
    <2>1. UNCHANGED <<storage, heap, scanned, fresh, missed>>
      BY <1>4 DEF X!QueryById
    <2>2. PICK e \in ExpEvent : manager.event = {e}
      BY <1>4 DEF X!QueryById
    <2>3. InHands' /\ manager'.event = IF e \in storage THEN {e} ELSE {}
      BY <1>4, <2>2 DEF X!QueryById
    <2> QED
      BY <1>0, <2>1, <2>2, <2>3 DEF X!StoredIsTracked
  <1>5. CASE X!DeleteExpired
    BY <1>0, <1>5 DEF X!DeleteExpired, X!StoredIsTracked
  <1>6. CASE X!CheckFails
    <2>1. /\ missed' = missed \cup (manager.event \cap storage)
          /\ manager' = [manager EXCEPT !.pc = "pop", !.event = {}]
          /\ UNCHANGED <<storage, heap, scanned, fresh>>
      BY <1>6 DEF X!CheckFails
    <2>2. InHands' /\ manager'.event = {}
      BY <2>1
    <2>3. X!StoredIsTracked'
      BY <1>0, <2>1, <2>2 DEF X!StoredIsTracked
    <2> QED
      BY <1>0, <2>1, <2>2, <2>3
  <1> QED
    BY <1>1, <1>2, <1>3, <1>4, <1>5, <1>6 DEF X!ManagerStep

\* The handlers' steps beside the expiration manager.
LEMMA HandlerSteps ==
    ASSUME ExpInv, NEW e \in ExpEvent,
           \/ X!Store(e) \/ X!StoreFails(e) \/ X!Superseded(e) \/ X!TrackEvent(e)
           \/ X!Replaced(e) \/ X!Deleted(e) \/ X!RemoveEvent(e)
    PROVE  ExpInv'
  <1> USE DEF ExpInv, InHands
  <1>0. UNCHANGED <<now, scanned, manager>>
    BY DEF X!Store, X!StoreFails, X!Superseded, X!TrackEvent, X!Replaced, X!Deleted, X!RemoveEvent
  <1>1. CASE X!Store(e) \/ X!Superseded(e) \/ X!Replaced(e) \/ X!Deleted(e)
    BY <1>0, <1>1 DEF X!Store, X!Superseded, X!Replaced, X!Deleted, X!StoredIsTracked
  <1>4. CASE X!StoreFails(e)
    BY <1>0, <1>4 DEF X!StoreFails, X!StoredIsTracked
  <1>2. CASE X!TrackEvent(e)
    <2>1. /\ tracking' = tracking \ {e} /\ UNCHANGED <<storage, fresh, missed>>
          /\ heap' = [heap EXCEPT ![e] = @ + (IF X!Expiring(e) THEN 1 ELSE 0)]
      BY <1>2 DEF X!TrackEvent
    <2>2. /\ heap' \in [ExpEvent -> Nat]
          /\ X!Expiring(e) => heap'[e] > 0
          /\ \A f \in ExpEvent : f # e => heap'[f] = heap[f]
      BY <2>1
    <2> QED
      BY <1>0, <2>1, <2>2 DEF X!StoredIsTracked
  <1>3. CASE X!RemoveEvent(e)
    <2>1. /\ heap' = [heap EXCEPT ![e] = IF @ = 0 THEN 0 ELSE @ - 1]
          /\ missed' = missed \cup ({e} \cap (storage \ tracking))
          /\ UNCHANGED <<storage, tracking, fresh>>
      BY <1>3 DEF X!RemoveEvent
    <2>2. heap' \in [ExpEvent -> Nat] /\ \A f \in ExpEvent : f # e => heap'[f] = heap[f]
      BY <2>1
    <2> QED
      BY <1>0, <2>1, <2>2 DEF X!StoredIsTracked
  <1> QED
    BY <1>1, <1>2, <1>3, <1>4

\* Before its first scan the manager owes nothing.
LEMMA ExpStarts == X!Init => ExpInv
  <1> SUFFICES ASSUME X!Init PROVE ExpInv
    OBVIOUS
  <1>1. InHands
    BY DEF X!Init, InHands
  <1>2. X!StoredIsTracked
    BY DEF X!Init, X!StoredIsTracked
  <1>3. /\ now \in Nat /\ storage \subseteq ExpEvent /\ heap \in [ExpEvent -> Nat]
        /\ scanned \in BOOLEAN /\ fresh \subseteq storage
    BY DEF X!Init
  <1> QED
    BY <1>1, <1>2, <1>3 DEF ExpInv

\* Every step of the manager and of the handlers keeps track of what is stored.
LEMMA ExpStep == ExpInv /\ [X!Next]_(X!vars) => ExpInv'
  <1> SUFFICES ASSUME ExpInv, [X!Next]_X!vars PROVE ExpInv'
    OBVIOUS
  <1>1. CASE X!Clock
    BY <1>1 DEF ExpInv, InHands, X!Clock, X!StoredIsTracked
  <1>2. CASE X!Crash
    BY <1>2 DEF ExpInv, InHands, X!Crash, X!Goto, X!StoredIsTracked
  <1>3. CASE UNCHANGED X!vars
    BY <1>3 DEF ExpInv, InHands, X!vars, X!StoredIsTracked
  <1> QED
    BY <1>1, <1>2, <1>3, ManagerSteps, HandlerSteps DEF X!Next

-----------------------------------------------------------------------------
(* The parts side by side *)

\* A part that does not run stays as it was put aside.
PipePart == IF part = "pipe" THEN PipeInv ELSE NoPipe
ExpPart == IF part = "expiration" THEN ExpInv ELSE NoExpiration

\* A step of Ends is a step of one part, or none.
LEMMA PartsStep ==
    ASSUME [Next]_vars
    PROVE  /\ part' = part
           /\ [L!LifeNext]_(L!lifeVars)
           /\ IF part = "pipe" THEN [Q!PipeNext]_(Q!pipeVars) ELSE UNCHANGED pipeVars
           /\ IF part = "expiration" THEN [X!Next]_(X!vars) ELSE UNCHANGED expirationVars
  BY DEF Next, vars, lifeVars, pipeVars, expirationVars, L!lifeVars, Q!pipeVars, X!vars

\* The process ends with 0 after a signal only, and with 1 only when the server
\* or the database has failed; a failure that was reported is in the channel
\* until it ends the process (instance.go:111-149, database_failure.go).
THEOREM ExitAlwaysTellsWhy == Spec => []ExitTellsWhy
  <1>1. Init => LifeInv
    <2>1. L!LifeInit => LifeInv
      BY DEF L!LifeInit, LifeInv, OpOK, Met, L!ExitTellsWhy, L!None, L!Gone
    <2>2. NoProcess => LifeInv
      BY DEF NoProcess, LifeInv, OpOK, Met, L!ExitTellsWhy, L!None, L!Gone
    <2> QED
      BY <2>1, <2>2 DEF Init
  <1>2. LifeInv /\ [Next]_vars => LifeInv'
    BY LifeStep, PartsStep
  <1>3. LifeInv => ExitTellsWhy
    BY DEF LifeInv, ExitTellsWhy
  <1> QED
    BY <1>1, <1>2, <1>3, PTL DEF Spec

\* The consumer gets the rows of a query in their order, each once; a channel
\* that closes unasked means all of them, unless the scan broke; the span ends
\* once (query.go, telemetry.go): for all rows and every limit of the queue.
THEOREM RowsAlwaysInOrder == Spec => []RowsInOrder
  <1>1. Init => PipePart
    BY PipeStarts DEF Init, PipePart
  <1>2. PipePart /\ [Next]_vars => PipePart'
    <2> SUFFICES ASSUME PipePart, [Next]_vars PROVE PipePart'
      OBVIOUS
    <2>1. CASE part = "pipe"
      BY <2>1, PartsStep, PipeStep DEF PipePart
    <2>2. CASE part # "pipe"
      BY <2>2, PartsStep DEF PipePart, NoPipe, pipeVars
    <2> QED
      BY <2>1, <2>2
  <1>3. PipePart => RowsInOrder
    <2>1. NoPipe => Q!RowsInOrder
      <3>1. Rows \in Seq(Row) /\ <<>> \in Seq(Row) /\ Len(<<>>) = 0 /\ QueueLimit \in Nat
        BY InstancesAssumption, EmptySeq DEF Q!PipeAssumption, Row
      <3>2. (<<>> \o <<>>) \o <<>> = <<>> /\ <<>> \o Rows = Rows
        BY <3>1, ConcatEmptySeq
      <3>3. Q!IsPrefix(<<>>, Rows)
        BY <3>1, <3>2, PrefixOfConcat
      <3> QED
        BY <3>1, <3>2, <3>3 DEF NoPipe, Q!RowsInOrder
    <2> QED
      BY <2>1, PipeInOrder DEF PipePart, RowsInOrder
  <1> QED
    BY <1>1, <1>2, <1>3, PTL DEF Spec

\* An event that expires and was stored under the manager's eyes has an entry,
\* gets one, or is being deleted; after the first scan so has every stored one:
\* through publications, replacements and deletions in any order and restarts.
\* What the limit or a failure of the scan passes over, a save or check that
\* fails, and a removal that comes late may lose, and nothing else
\* (expiration.go:39-155, adding.go:63-130, deleting.go:67-76).
THEOREM StoredAlwaysTracked == Spec => []StoredIsTracked
  <1>1. Init => ExpPart
    BY ExpStarts DEF Init, ExpPart
  <1>2. ExpPart /\ [Next]_vars => ExpPart'
    <2> SUFFICES ASSUME ExpPart, [Next]_vars PROVE ExpPart'
      OBVIOUS
    <2>1. CASE part = "expiration"
      BY <2>1, PartsStep, ExpStep DEF ExpPart
    <2>2. CASE part # "expiration"
      BY <2>2, PartsStep DEF ExpPart, NoExpiration, expirationVars
    <2> QED
      BY <2>1, <2>2
  <1>3. ExpPart => StoredIsTracked
    BY DEF ExpPart, ExpInv, NoExpiration, StoredIsTracked, X!StoredIsTracked
  <1> QED
    BY <1>1, <1>2, <1>3, PTL DEF Spec

=============================================================================
