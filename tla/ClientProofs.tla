---------------------------- MODULE ClientProofs ----------------------------
(***************************************************************************)
(* Safety of the client on one relay, for any number of publications of    *)
(* any events, and of subscriptions with any answers of the relay.  Each   *)
(* part has its own inductive invariant.                                   *)
(***************************************************************************)
EXTENDS Client, FiniteSetTheorems, TLAPS

-----------------------------------------------------------------------------
(* Publications *)

Calls == [pc : {"idle", "queue", "writing", "waiting", "returned"},
          gotOk : BOOLEAN, err : BOOLEAN, ctx : {"live", "cancelled", "expired"},
          result : {"none", "nil", "rejected", "error"}]

Writers == [pc : {"select", "write", "closing", "stopped"},
            for : Publisher \cup {C!Nobody}, pingAttempt : Int]
Readers == [pc : {"read", "gotOk", "err", "stopped"},
            callback : Publisher \cup {C!Nobody}, ok : BOOLEAN]

RelayTypes ==
    /\ oks \subseteq [id : Id, ok : BOOLEAN]
    /\ verdict \in [Id -> SUBSET BOOLEAN]
    /\ writer \in Writers
    /\ readerOfRelay \in Readers
    /\ okCallbacks \in [Id -> Publisher \cup {C!Nobody}]
    /\ pub \in [Publisher -> Calls]

\* A call c of which the relay's verdict is v: what the callback has set comes
\* from the verdict, and so does the result, unless the connection is done.
CallOk(c, v, done) ==
    /\ c.err => v = {FALSE}
    /\ c.ctx = "cancelled" /\ c.pc # "returned" => c.err \/ v = {TRUE}
    /\ c.result # "none" => c.pc = "returned"
    /\ c.result = "nil" /\ c.ctx # "expired" /\ ~done => v = {TRUE}
    /\ c.result = "rejected" => v = {FALSE}

CallsOk == \A p \in Publisher : CallOk(pub[p], verdict[IdOf[p]], C!Done)

\* An OK on its way, or in the reader's hands, is the verdict on its event.
Judged == \A m \in oks : verdict[m.id] = {m.ok}
Heard ==
    readerOfRelay.pc \in {"gotOk", "err"} =>
        /\ readerOfRelay.callback \in Publisher
        /\ verdict[IdOf[readerOfRelay.callback]] = {readerOfRelay.ok}

\* A callback is kept by its own event's id.
Owned == \A i \in Id : okCallbacks[i] \in Publisher => IdOf[okCallbacks[i]] = i

\* Who is written for waits for the write.
Written ==
    writer.pc = "write" => writer.for \in Publisher /\ pub[writer.for].pc = "writing"

RelayInv == RelayTypes /\ CallsOk /\ Judged /\ Heard /\ Owned /\ Written

RelayAssumptions == C!IdAssumption /\ C!PublisherAssumption

\* Verdicts stay, and so does the end of the connection.
Kept ==
    /\ \A i \in Id : /\ verdict[i] = {TRUE} => verdict'[i] = {TRUE}
                     /\ verdict[i] = {FALSE} => verdict'[i] = {FALSE}
    /\ C!Done => C!Done'

\* What has been concluded of a call stays true: verdicts and the end of the connection stay.
LEMMA CallKept ==
    ASSUME NEW c, NEW v, NEW done, NEW w, NEW end, CallOk(c, v, done),
           v = {TRUE} => w = {TRUE}, v = {FALSE} => w = {FALSE}, done => end
    PROVE  CallOk(c, w, end)
  BY DEF CallOk

\* No call is touched.
LEMMA CallsKept ==
    ASSUME RelayAssumptions, RelayInv, Kept, pub' = pub
    PROVE  CallsOk'
  <1> SUFFICES ASSUME NEW p \in Publisher PROVE CallOk(pub[p], verdict'[IdOf[p]], C!Done')
    BY DEF CallsOk
  <1>1. IdOf[p] \in Id
    BY DEF RelayAssumptions, C!IdAssumption
  <1>2. CallOk(pub[p], verdict[IdOf[p]], C!Done)
    BY DEF RelayInv, CallsOk
  <1>3. /\ verdict[IdOf[p]] = {TRUE} => verdict'[IdOf[p]] = {TRUE}
        /\ verdict[IdOf[p]] = {FALSE} => verdict'[IdOf[p]] = {FALSE}
        /\ C!Done => C!Done'
    BY <1>1 DEF Kept
  <1> QED
    BY <1>2, <1>3, CallKept, Zenon

\* One call is touched.
LEMMA OneCall ==
    ASSUME RelayAssumptions, RelayInv, Kept, NEW p \in Publisher, NEW c \in Calls,
           pub' = [pub EXCEPT ![p] = c],
           CallOk(c, verdict'[IdOf[p]], C!Done')
    PROVE  CallsOk' /\ pub' \in [Publisher -> Calls]
  <1> SUFFICES ASSUME NEW q \in Publisher
               PROVE  CallOk(pub'[q], verdict'[IdOf[q]], C!Done')
    BY DEF CallsOk, RelayInv, RelayTypes
  <1>1. CASE q = p
    BY <1>1 DEF RelayInv, RelayTypes
  <1>2. CASE q # p
    <2>1. IdOf[q] \in Id /\ pub'[q] = pub[q]
      BY <1>2 DEF RelayAssumptions, C!IdAssumption, RelayInv, RelayTypes
    <2>2. CallOk(pub[q], verdict[IdOf[q]], C!Done)
      BY DEF RelayInv, CallsOk
    <2>3. /\ verdict[IdOf[q]] = {TRUE} => verdict'[IdOf[q]] = {TRUE}
          /\ verdict[IdOf[q]] = {FALSE} => verdict'[IdOf[q]] = {FALSE}
          /\ C!Done => C!Done'
      BY <2>1 DEF Kept
    <2>4. CallOk(pub[q], verdict'[IdOf[q]], C!Done')
      BY <2>2, <2>3, CallKept, Zenon
    <2> QED
      BY <2>1, <2>4
  <1> QED
    BY <1>1, <1>2

\* A call that returns: with an error, or with what the callback has made of it.
LEMMA ReturnedCall ==
    ASSUME RelayAssumptions, RelayInv, Kept, verdict' = verdict, UNCHANGED oks,
           NEW p \in Publisher, NEW result, C!Returned(p, result),
           \/ result = "error"
           \/ result = C!ErrOf(p) /\ C!Done'
           \/ result = C!ErrOf(p) /\ pub[p].ctx \in {"cancelled", "expired"}
              /\ pub[p].pc # "returned"
    PROVE  /\ CallsOk' /\ Owned' /\ pub' \in [Publisher -> Calls]
           /\ okCallbacks' \in [Id -> Publisher \cup {C!Nobody}]
           /\ pub'[p].pc = "returned" /\ \A q \in Publisher : q # p => pub'[q] = pub[q]
  <1> DEFINE c == [pub[p] EXCEPT !.pc = "returned", !.result = result,
                                 !.gotOk = FALSE, !.err = FALSE]
  <1>1. pub[p] \in Calls /\ IdOf[p] \in Id
    BY DEF RelayAssumptions, C!IdAssumption, RelayInv, RelayTypes
  <1>2. pub' = [pub EXCEPT ![p] = c]
    BY DEF C!Returned
  <1>3. result \in {"nil", "rejected", "error"}
    BY DEF C!ErrOf
  <1>4. /\ c \in Calls /\ c.pc = "returned" /\ c.err = FALSE /\ c.result = result
        /\ c.ctx = pub[p].ctx
    BY <1>1, <1>3 DEF Calls
  <1>5. CallOk(pub[p], verdict[IdOf[p]], C!Done)
    BY DEF RelayInv, CallsOk
  <1>6. result = "rejected" => verdict[IdOf[p]] = {FALSE}
    BY <1>5 DEF C!ErrOf, CallOk
  <1>7. result = "nil" /\ pub[p].ctx # "expired" /\ ~C!Done' => verdict[IdOf[p]] = {TRUE}
    BY <1>5 DEF C!ErrOf, CallOk
  <1>8. CallOk(c, verdict'[IdOf[p]], C!Done')
    BY <1>4, <1>6, <1>7 DEF CallOk
  <1> HIDE DEF c
  <1>9. CallsOk' /\ pub' \in [Publisher -> Calls]
    BY <1>2, <1>4, <1>8, OneCall
  <1>10. okCallbacks' = [okCallbacks EXCEPT ![IdOf[p]] = C!Nobody]
    BY DEF C!Returned
  <1>11. C!Nobody \notin Publisher
    BY DEF RelayAssumptions, C!PublisherAssumption, C!Nobody
  <1>12. okCallbacks' \in [Id -> Publisher \cup {C!Nobody}] /\ Owned'
    BY <1>1, <1>10, <1>11 DEF RelayInv, RelayTypes, Owned
  <1>13. pub'[p] = c /\ \A q \in Publisher : q # p => pub'[q] = pub[q]
    BY <1>2 DEF RelayInv, RelayTypes
  <1> QED
    BY <1>4, <1>9, <1>12, <1>13

\* The steps that touch no publication: of the peer, of close, of pings.
LEMMA QuietStep ==
    ASSUME RelayAssumptions, RelayInv, C!Done => C!Done',
           UNCHANGED <<oks, verdict, okCallbacks, pub, readerOfRelay>>,
           writer' \in Writers, writer'.pc = "write" => writer' = writer
    PROVE  RelayInv'
  <1>1. CallsOk'
    BY CallsKept DEF Kept
  <1>2. RelayTypes'
    BY DEF RelayInv, RelayTypes
  <1>3. Judged' /\ Heard' /\ Owned'
    BY DEF RelayInv, Judged, Heard, Owned
  <1>4. Written'
    BY DEF RelayInv, Written
  <1> QED
    BY <1>1, <1>2, <1>3, <1>4 DEF RelayInv

\* The writer with another count of pings.
LEMMA PingCounted ==
    ASSUME NEW w \in Writers, NEW n \in Int, NEW l \in {"select", "closing", "stopped"}
    PROVE  /\ [w EXCEPT !.pc = l, !.pingAttempt = n] \in Writers
           /\ [w EXCEPT !.pc = l, !.pingAttempt = n].pc = l
           /\ [w EXCEPT !.pingAttempt = n] \in Writers
           /\ [w EXCEPT !.pingAttempt = n].pc = w.pc
  BY DEF Writers

\* The peer's faults, the writer's pings and the steps of close.
LEMMA QuietSteps ==
    ASSUME RelayAssumptions, RelayInv,
           \/ C!PeerFails \/ C!WriterStops \/ C!PingOk \/ C!PingFails
           \/ C!PingerClosed \/ (\E c \in C!Closer : C!CloseStep(c))
    PROVE  RelayInv'
  <1>0. writer \in Writers
    BY DEF RelayInv, RelayTypes
  <1>1. CASE C!PeerFails
    <2>1. UNCHANGED <<oks, verdict, okCallbacks, pub, readerOfRelay, writer, cause>>
      BY <1>1 DEF C!PeerFails, C!publishing, C!ending
    <2> QED
      BY <1>0, <2>1, QuietStep DEF C!Done
  <1>2. CASE C!WriterStops
    <2>1. UNCHANGED <<oks, verdict, okCallbacks, pub, readerOfRelay, cause>>
      BY <1>2 DEF C!WriterStops, C!publishing
    <2>2. writer' \in Writers /\ writer'.pc # "write"
      <3> DEFINE n == 0
                 l == "stopped"
      <3>1. writer' = [writer EXCEPT !.pc = l, !.pingAttempt = n]
        BY <1>2 DEF C!WriterStops
      <3>2. n \in Int /\ l \in {"select", "closing", "stopped"} /\ l # "write"
        OBVIOUS
      <3> HIDE DEF n, l
      <3> QED
        BY <1>0, <3>1, <3>2, PingCounted
    <2> QED
      BY <2>1, <2>2, QuietStep DEF C!Done
  <1>3. CASE C!PingOk
    <2>1. UNCHANGED <<oks, verdict, okCallbacks, pub, readerOfRelay, cause>>
      BY <1>3 DEF C!PingOk, C!publishing, C!ending
    <2>2. writer' \in Writers /\ writer'.pc = "select"
      BY <1>0, <1>3 DEF C!PingOk, C!WriterAt, Writers
    <2> QED
      BY <2>1, <2>2, QuietStep DEF C!Done
  <1>4. CASE C!PingFails
    <2>1. UNCHANGED <<oks, verdict, okCallbacks, pub, readerOfRelay, cause>>
      BY <1>4 DEF C!PingFails, C!publishing
    <2>2. \/ writer' = [writer EXCEPT !.pc = "closing", !.pingAttempt = 3]
          \/ writer' = [writer EXCEPT !.pingAttempt = writer.pingAttempt + 1]
      BY <1>4 DEF C!PingFails
    <2>3. writer.pingAttempt + 1 \in Int
      BY <1>0 DEF Writers
    <2>4. writer' \in Writers /\ writer'.pc # "write"
      <3>1. writer.pc = "select"
        BY <1>4 DEF C!PingFails, C!WriterAt
      <3>2. CASE writer' = [writer EXCEPT !.pc = "closing", !.pingAttempt = 3]
        <4> DEFINE n == 3
                   l == "closing"
        <4>1. writer' = [writer EXCEPT !.pc = l, !.pingAttempt = n]
          BY <3>2
        <4>2. n \in Int /\ l \in {"select", "closing", "stopped"} /\ l # "write"
          OBVIOUS
        <4> HIDE DEF n, l
        <4> QED
          BY <1>0, <4>1, <4>2, PingCounted
      <3>3. CASE writer' = [writer EXCEPT !.pingAttempt = writer.pingAttempt + 1]
        BY <1>0, <2>3, <3>1, <3>3, PingCounted
      <3> QED
        BY <2>2, <3>2, <3>3
    <2> QED
      BY <2>1, <2>4, QuietStep DEF C!Done
  <1>5. CASE C!PingerClosed
    <2>1. UNCHANGED <<oks, verdict, okCallbacks, pub, readerOfRelay, cause>>
      BY <1>5 DEF C!PingerClosed, C!publishing, C!ending
    <2>2. writer' \in Writers /\ writer'.pc = "select"
      BY <1>0, <1>5 DEF C!PingerClosed, Writers
    <2> QED
      BY <2>1, <2>2, QuietStep DEF C!Done
  <1>6. ASSUME NEW c \in C!Closer, C!CloseStep(c) PROVE RelayInv'
    <2>1. UNCHANGED <<oks, verdict, okCallbacks, pub, readerOfRelay, writer>>
      BY <1>6 DEF C!CloseStep, C!CancelContext, C!CheckConnection, C!CloseConnection, C!publishing
    <2>2. C!Done => C!Done'
      BY <1>6 DEF C!CloseStep, C!CancelContext, C!CheckConnection, C!CloseConnection, C!Done
    <2> QED
      BY <1>0, <2>1, <2>2, QuietStep
  <1> QED
    BY <1>1, <1>2, <1>3, <1>4, <1>5, <1>6

\* The relay judges an event once.
LEMMA JudgeKeeps ==
    ASSUME RelayInv, NEW i \in Id, C!Judge(i), UNCHANGED cause
    PROVE  /\ Kept /\ Judged' /\ oks' \subseteq [id : Id, ok : BOOLEAN]
           /\ verdict' \in [Id -> SUBSET BOOLEAN]
  <1>1. PICK ok \in BOOLEAN :
            /\ verdict[i] \subseteq {ok}
            /\ verdict' = [verdict EXCEPT ![i] = {ok}]
            /\ oks' = IF readerOfRelay.pc = "stopped" THEN {} ELSE oks \cup {[id |-> i, ok |-> ok]}
    BY DEF C!Judge
  <1>2. verdict \in [Id -> SUBSET BOOLEAN] /\ oks \subseteq [id : Id, ok : BOOLEAN]
    BY DEF RelayInv, RelayTypes
  <1>3. verdict'[i] = {ok} /\ \A j \in Id : j # i => verdict'[j] = verdict[j]
    BY <1>1, <1>2
  <1>4. \A j \in Id : /\ verdict[j] = {TRUE} => verdict'[j] = {TRUE}
                      /\ verdict[j] = {FALSE} => verdict'[j] = {FALSE}
    BY <1>1, <1>3
  <1>5. ASSUME NEW m \in oks' PROVE verdict'[m.id] = {m.ok}
    <2>1. CASE m \in oks
      <3>1. m.id \in Id /\ m.ok \in BOOLEAN /\ verdict[m.id] = {m.ok}
        BY <1>2, <2>1 DEF RelayInv, Judged
      <3> QED
        BY <1>4, <3>1
    <2>2. CASE m = [id |-> i, ok |-> ok]
      BY <1>3, <2>2
    <2> QED
      BY <1>1, <1>5, <2>1, <2>2
  <1>6. verdict' \in [Id -> SUBSET BOOLEAN] /\ oks' \subseteq [id : Id, ok : BOOLEAN]
    BY <1>1, <1>2
  <1>7. C!Done => C!Done'
    BY DEF C!Done
  <1> QED
    BY <1>4, <1>5, <1>6, <1>7 DEF Kept, Judged

\* A write goes through, and the relay has a verdict.
LEMMA WriteSucceedsStep ==
    ASSUME RelayAssumptions, RelayInv, C!WriteSucceeds
    PROVE  RelayInv'
  <1> DEFINE p == writer.for
             c == [pub[p] EXCEPT !.pc = "waiting"]
  <1>1. /\ writer.pc = "write" /\ C!Judge(IdOf[p])
        /\ writer' = [writer EXCEPT !.pc = "select", !.for = C!Nobody]
        /\ pub' = [pub EXCEPT ![p] = c]
        /\ UNCHANGED <<okCallbacks, cause, readerOfRelay>>
    BY DEF C!WriteSucceeds, C!WriterAt, C!ending
  <1>2. p \in Publisher /\ pub[p].pc = "writing" /\ pub[p] \in Calls /\ IdOf[p] \in Id
    BY <1>1 DEF RelayInv, Written, RelayTypes, RelayAssumptions, C!IdAssumption
  <1>3. /\ Kept /\ Judged' /\ oks' \subseteq [id : Id, ok : BOOLEAN]
        /\ verdict' \in [Id -> SUBSET BOOLEAN]
    BY <1>1, <1>2, JudgeKeeps
  <1>4. /\ c \in Calls /\ c.pc = "waiting" /\ c.err = pub[p].err /\ c.ctx = pub[p].ctx
        /\ c.result = pub[p].result
    BY <1>2 DEF Calls
  <1>5. CallOk(pub[p], verdict[IdOf[p]], C!Done)
    BY <1>2 DEF RelayInv, CallsOk
  <1>6. CallOk(c, verdict[IdOf[p]], C!Done)
    BY <1>2, <1>4, <1>5 DEF CallOk
  <1>7. /\ verdict[IdOf[p]] = {TRUE} => verdict'[IdOf[p]] = {TRUE}
        /\ verdict[IdOf[p]] = {FALSE} => verdict'[IdOf[p]] = {FALSE}
        /\ C!Done => C!Done'
    BY <1>2, <1>3 DEF Kept
  <1> HIDE DEF c, p
  <1>8. CallOk(c, verdict'[IdOf[p]], C!Done')
    BY <1>6, <1>7, CallKept, Zenon
  <1>9. CallsOk' /\ pub' \in [Publisher -> Calls]
    BY <1>1, <1>2, <1>3, <1>4, <1>8, OneCall
  <1>10. writer' \in Writers /\ writer'.pc = "select"
    BY <1>1 DEF RelayInv, RelayTypes, Writers
  <1>11. Heard'
    <2>1. readerOfRelay \in Readers
      BY DEF RelayInv, RelayTypes
    <2> SUFFICES ASSUME readerOfRelay.pc \in {"gotOk", "err"}
                 PROVE  /\ readerOfRelay.callback \in Publisher
                        /\ verdict'[IdOf[readerOfRelay.callback]] = {readerOfRelay.ok}
      BY <1>1 DEF Heard
    <2>2. /\ readerOfRelay.callback \in Publisher /\ readerOfRelay.ok \in BOOLEAN
          /\ verdict[IdOf[readerOfRelay.callback]] = {readerOfRelay.ok}
      BY <2>1 DEF RelayInv, Heard, Readers
    <2>3. IdOf[readerOfRelay.callback] \in Id
      BY <2>2 DEF RelayAssumptions, C!IdAssumption
    <2> QED
      BY <1>3, <2>2, <2>3 DEF Kept
  <1>12. RelayTypes' /\ Owned' /\ Written'
    BY <1>1, <1>3, <1>9, <1>10 DEF RelayInv, RelayTypes, Owned, Written
  <1> QED
    BY <1>3, <1>9, <1>11, <1>12 DEF RelayInv

\* A write fails, or a call returns by itself.
LEMMA ReturnSteps ==
    ASSUME RelayAssumptions, RelayInv,
           \/ C!WriteFails
           \/ \E p \in Publisher : C!NotQueued(p) \/ C!ContextDone(p) \/ C!ConnectionDone(p)
    PROVE  RelayInv'
  <1>1. UNCHANGED <<oks, verdict, cause, readerOfRelay>>
    BY DEF C!WriteFails, C!NotQueued, C!ContextDone, C!ConnectionDone, C!Return, C!ending
  <1>2. Kept
    BY <1>1 DEF Kept, C!Done
  <1>3. Judged' /\ Heard'
    BY <1>1 DEF RelayInv, Judged, Heard
  <1>4. CASE C!WriteFails
    <2> DEFINE p == writer.for
    <2>1. writer.pc = "write" /\ C!Returned(p, "error")
          /\ writer' = [writer EXCEPT !.pc = "select", !.for = C!Nobody]
      BY <1>4 DEF C!WriteFails, C!WriterAt
    <2>2. p \in Publisher
      BY <2>1 DEF RelayInv, Written
    <2>3. writer' \in Writers /\ writer'.pc = "select"
      BY <2>1 DEF RelayInv, RelayTypes, Writers
    <2> HIDE DEF p
    <2>4. /\ CallsOk' /\ Owned' /\ pub' \in [Publisher -> Calls]
          /\ okCallbacks' \in [Id -> Publisher \cup {C!Nobody}]
      BY <1>1, <1>2, <2>1, <2>2, ReturnedCall
    <2> QED
      BY <1>1, <1>3, <2>3, <2>4 DEF RelayInv, RelayTypes, Written
  <1>5. ASSUME NEW p \in Publisher, NEW result, writer' = writer, pub[p].pc # "writing",
               CallsOk' /\ Owned' /\ pub' \in [Publisher -> Calls],
               okCallbacks' \in [Id -> Publisher \cup {C!Nobody}],
               \A q \in Publisher : q # p => pub'[q] = pub[q]
        PROVE  RelayInv'
    <2>1. Written'
      BY <1>5 DEF RelayInv, Written
    <2> QED
      BY <1>1, <1>3, <1>5, <2>1 DEF RelayInv, RelayTypes
  <1>6. ASSUME NEW p \in Publisher, C!NotQueued(p) PROVE RelayInv'
    <2>1. pub[p].pc = "queue" /\ C!Returned(p, "error") /\ writer' = writer
      BY <1>6 DEF C!NotQueued, C!Return
    <2> QED
      BY <1>1, <1>2, <1>5, <2>1, ReturnedCall
  <1>7. ASSUME NEW p \in Publisher, C!ContextDone(p) PROVE RelayInv'
    <2>1. pub[p].pc = "waiting" /\ pub[p].ctx # "live" /\ writer' = writer
      BY <1>7 DEF C!ContextDone, C!Return
    <2>2. C!Returned(p, "error") \/ C!Returned(p, C!ErrOf(p))
      BY <1>7 DEF C!ContextDone, C!Return
    <2>3. pub[p].ctx \in {"cancelled", "expired"}
      BY <2>1 DEF RelayInv, RelayTypes, Calls
    <2> QED
      BY <1>1, <1>2, <1>5, <2>1, <2>2, <2>3, ReturnedCall
  <1>8. ASSUME NEW p \in Publisher, C!ConnectionDone(p) PROVE RelayInv'
    <2>1. pub[p].pc = "waiting" /\ C!Done /\ C!Returned(p, C!ErrOf(p)) /\ writer' = writer
      BY <1>8 DEF C!ConnectionDone, C!Return
    <2>2. C!Done'
      BY <1>1, <2>1 DEF C!Done
    <2> QED
      BY <1>1, <1>2, <1>5, <2>1, <2>2, ReturnedCall
  <1> QED
    BY <1>4, <1>6, <1>7, <1>8

\* The reader takes an OK to the callback of its event.
LEMMA ReadSteps ==
    ASSUME RelayAssumptions, RelayInv, C!ReadFails \/ C!ReadOk
    PROVE  RelayInv'
  <1>1. UNCHANGED <<verdict, okCallbacks, pub, cause, writer>>
    BY DEF C!ReadFails, C!ReadOk, C!ending
  <1>2. CallsOk' /\ Owned' /\ Written'
    BY <1>1, CallsKept DEF Kept, C!Done, RelayInv, Owned, Written
  <1>3. CASE C!ReadFails
    <2>1. oks' = {} /\ readerOfRelay' = [readerOfRelay EXCEPT !.pc = "stopped"]
      BY <1>3 DEF C!ReadFails
    <2>2. readerOfRelay' \in Readers /\ readerOfRelay'.pc = "stopped"
      BY <2>1 DEF RelayInv, RelayTypes, Readers
    <2> QED
      BY <1>1, <1>2, <2>1, <2>2 DEF RelayInv, RelayTypes, Judged, Heard
  <1>4. CASE C!ReadOk
    <2>1. PICK m \in oks :
              /\ oks' = oks \ {m}
              /\ IF okCallbacks[m.id] = C!Nobody THEN readerOfRelay' = readerOfRelay
                 ELSE readerOfRelay' = [pc |-> "gotOk", callback |-> okCallbacks[m.id],
                                        ok |-> m.ok]
      BY <1>4 DEF C!ReadOk
    <2>2. m.id \in Id /\ m.ok \in BOOLEAN /\ verdict[m.id] = {m.ok}
      BY DEF RelayInv, RelayTypes, Judged
    <2>3. Judged' /\ oks' \subseteq [id : Id, ok : BOOLEAN]
      BY <1>1, <2>1 DEF RelayInv, RelayTypes, Judged
    <2>4. okCallbacks[m.id] \in Publisher \cup {C!Nobody}
      BY <2>2 DEF RelayInv, RelayTypes
    <2>5. readerOfRelay' \in Readers
      BY <2>1, <2>2, <2>4 DEF RelayInv, RelayTypes, Readers
    <2>6. Heard'
      <3>1. CASE okCallbacks[m.id] = C!Nobody
        BY <1>1, <2>1, <3>1 DEF RelayInv, Heard
      <3>2. CASE okCallbacks[m.id] # C!Nobody
        <4>1. okCallbacks[m.id] \in Publisher /\ IdOf[okCallbacks[m.id]] = m.id
          BY <2>2, <2>4, <3>2 DEF RelayInv, Owned
        <4> QED
          BY <1>1, <2>1, <2>2, <3>2, <4>1 DEF Heard
      <3> QED
        BY <3>1, <3>2
    <2> QED
      BY <1>1, <1>2, <2>3, <2>5, <2>6 DEF RelayInv, RelayTypes
  <1> QED
    BY <1>3, <1>4

\* The callback tells the call that there is an OK, and then what it says.
LEMMA CallbackSteps ==
    ASSUME RelayAssumptions, RelayInv, C!SetGotOk \/ C!SetErr
    PROVE  RelayInv'
  <1> DEFINE p == readerOfRelay.callback
  <1>1. UNCHANGED <<oks, verdict, okCallbacks, cause, writer>> /\ readerOfRelay.pc \in {"gotOk", "err"}
    BY DEF C!SetGotOk, C!SetErr, C!CallbackEnds, C!ending
  <1>2. /\ p \in Publisher /\ pub[p] \in Calls /\ IdOf[p] \in Id
        /\ verdict[IdOf[p]] = {readerOfRelay.ok} /\ readerOfRelay.ok \in BOOLEAN
        /\ CallOk(pub[p], verdict[IdOf[p]], C!Done)
    BY <1>1 DEF RelayInv, Heard, RelayTypes, Readers, CallsOk, RelayAssumptions, C!IdAssumption
  <1>3. Kept /\ (C!Done' <=> C!Done)
    BY <1>1 DEF Kept, C!Done
  <1>4. Judged' /\ Owned'
    BY <1>1 DEF RelayInv, Judged, Owned
  <1>5. ASSUME NEW c \in Calls, pub' = [pub EXCEPT ![p] = c], c.pc = pub[p].pc,
               CallOk(c, verdict[IdOf[p]], C!Done),
               readerOfRelay' \in Readers, Heard'
        PROVE  RelayInv'
    <2>1. CallOk(c, verdict'[IdOf[p]], C!Done')
      <3>1. verdict'[IdOf[p]] = verdict[IdOf[p]]
        BY <1>1
      <3>2. CallOk(c, verdict[IdOf[p]], C!Done') <=> CallOk(c, verdict[IdOf[p]], C!Done)
        BY <1>3 DEF CallOk
      <3> QED
        BY <1>5, <3>1, <3>2
    <2>2. CallsOk' /\ pub' \in [Publisher -> Calls]
      BY <1>2, <1>3, <1>5, <2>1, OneCall
    <2>3. \A q \in Publisher : pub'[q].pc = pub[q].pc
      BY <1>2, <1>5 DEF RelayInv, RelayTypes
    <2>4. Written'
      BY <1>1, <2>3 DEF RelayInv, Written
    <2> QED
      BY <1>1, <1>4, <1>5, <2>2, <2>4 DEF RelayInv, RelayTypes
  <1>6. CASE C!SetGotOk
    <2> DEFINE got == (pub[p].pc # "returned")
               c == [pub[p] EXCEPT !.gotOk = got]
    <2>1. /\ pub' = [pub EXCEPT ![p] = c]
          /\ readerOfRelay' = [readerOfRelay EXCEPT !.pc = "err"]
      BY <1>6 DEF C!SetGotOk, C!ReaderGoto
    <2>2. got \in BOOLEAN
      OBVIOUS
    <2> HIDE DEF got
    <2>3. /\ c \in Calls /\ c.pc = pub[p].pc /\ c.err = pub[p].err /\ c.ctx = pub[p].ctx
          /\ c.result = pub[p].result
      BY <1>2, <2>2 DEF Calls
    <2>4. CallOk(c, verdict[IdOf[p]], C!Done)
      BY <1>2, <2>3 DEF CallOk
    <2>5. readerOfRelay' \in Readers /\ Heard'
      BY <1>1, <1>2, <2>1 DEF RelayInv, RelayTypes, Readers, Heard
    <2> HIDE DEF c
    <2> QED
      BY <1>5, <2>1, <2>3, <2>4, <2>5
  <1>7. CASE C!SetErr
    <2>1. readerOfRelay' = [pc |-> "read", callback |-> C!Nobody, ok |-> FALSE]
      BY <1>7 DEF C!SetErr, C!CallbackEnds
    <2>2. readerOfRelay' \in Readers /\ Heard'
      BY <2>1 DEF Readers, Heard
    <2>3. CASE pub[p].pc = "returned"
      <3>1. pub' = pub
        BY <1>7, <2>3 DEF C!SetErr, C!CallbackEnds
      <3>2. pub' = [pub EXCEPT ![p] = pub[p]]
        BY <1>2, <3>1 DEF RelayInv, RelayTypes
      <3> QED
        BY <1>2, <1>5, <2>2, <3>2
    <2>4. CASE pub[p].pc # "returned"
      <3> DEFINE said == ~readerOfRelay.ok
                 over == IF pub[p].ctx = "live" THEN "cancelled" ELSE pub[p].ctx
                 c == [pub[p] EXCEPT !.err = said, !.ctx = over]
      <3>1. pub' = [pub EXCEPT ![p] = c]
        BY <1>7, <2>4 DEF C!SetErr, C!CallbackEnds
      <3>2. said \in BOOLEAN /\ over \in {"live", "cancelled", "expired"}
        BY <1>2 DEF Calls
      <3>3. (said => verdict[IdOf[p]] = {FALSE}) /\ (~said => verdict[IdOf[p]] = {TRUE})
        BY <1>2
      <3> HIDE DEF said, over
      <3>4. c \in Calls /\ c.pc = pub[p].pc /\ c.err = said /\ c.result = pub[p].result
        BY <1>2, <3>2 DEF Calls
      <3>5. pub[p].result = "none"
        BY <1>2, <2>4 DEF CallOk, Calls
      <3>6. CallOk(c, verdict[IdOf[p]], C!Done)
        BY <2>4, <3>3, <3>4, <3>5 DEF CallOk
      <3> HIDE DEF c
      <3> QED
        BY <1>5, <2>2, <3>1, <3>4, <3>6
    <2> QED
      BY <2>3, <2>4
  <1> QED
    BY <1>6, <1>7

\* A call that begins, is queued, or has its time run out.
LEMMA CallSteps ==
    ASSUME RelayAssumptions, RelayInv, NEW p \in Publisher,
           C!StoreCallback(p) \/ C!Queue(p) \/ C!Timeout(p)
    PROVE  RelayInv'
  <1>1. UNCHANGED <<oks, verdict, cause, readerOfRelay>>
    BY DEF C!StoreCallback, C!Queue, C!Timeout, C!ending
  <1>2. /\ pub[p] \in Calls /\ IdOf[p] \in Id
        /\ CallOk(pub[p], verdict[IdOf[p]], C!Done)
    BY DEF RelayInv, RelayTypes, CallsOk, RelayAssumptions, C!IdAssumption
  <1>3. Kept /\ (C!Done' <=> C!Done)
    BY <1>1 DEF Kept, C!Done
  <1>4. Judged' /\ Heard'
    BY <1>1 DEF RelayInv, Judged, Heard
  <1>5. ASSUME NEW c \in Calls, pub' = [pub EXCEPT ![p] = c],
               CallOk(c, verdict[IdOf[p]], C!Done), writer' \in Writers, Written',
               okCallbacks' \in [Id -> Publisher \cup {C!Nobody}], Owned'
        PROVE  RelayInv'
    <2>1. CallOk(c, verdict'[IdOf[p]], C!Done')
      <3>1. verdict'[IdOf[p]] = verdict[IdOf[p]]
        BY <1>1
      <3>2. CallOk(c, verdict[IdOf[p]], C!Done') <=> CallOk(c, verdict[IdOf[p]], C!Done)
        BY <1>3 DEF CallOk
      <3> QED
        BY <1>5, <3>1, <3>2
    <2>2. CallsOk' /\ pub' \in [Publisher -> Calls]
      BY <1>2, <1>3, <1>5, <2>1, OneCall
    <2> QED
      BY <1>1, <1>4, <1>5, <2>2 DEF RelayInv, RelayTypes
  <1>6. CASE C!StoreCallback(p)
    <2> DEFINE c == [pub[p] EXCEPT !.pc = "queue"]
    <2>1. /\ pub[p].pc = "idle" /\ pub' = [pub EXCEPT ![p] = c] /\ writer' = writer
          /\ okCallbacks' = [okCallbacks EXCEPT ![IdOf[p]] = p]
      BY <1>6 DEF C!StoreCallback, C!PubGoto
    <2>2. /\ c \in Calls /\ c.err = pub[p].err /\ c.ctx = pub[p].ctx
          /\ c.result = pub[p].result
      BY <1>2 DEF Calls
    <2>3. CallOk(c, verdict[IdOf[p]], C!Done)
      BY <1>2, <2>1, <2>2 DEF CallOk
    <2>4. okCallbacks' \in [Id -> Publisher \cup {C!Nobody}] /\ Owned'
      BY <1>2, <2>1 DEF RelayInv, RelayTypes, Owned
    <2>5. writer' \in Writers /\ Written'
      BY <2>1 DEF RelayInv, RelayTypes, Written
    <2> HIDE DEF c
    <2> QED
      BY <1>5, <2>1, <2>2, <2>3, <2>4, <2>5
  <1>7. CASE C!Queue(p)
    <2> DEFINE c == [pub[p] EXCEPT !.pc = "writing"]
    <2>1. /\ pub[p].pc = "queue" /\ pub' = [pub EXCEPT ![p] = c]
          /\ writer' = [writer EXCEPT !.pc = "write", !.for = p]
          /\ okCallbacks' = okCallbacks
      BY <1>7 DEF C!Queue, C!PubGoto
    <2>2. /\ c \in Calls /\ c.err = pub[p].err /\ c.ctx = pub[p].ctx
          /\ c.result = pub[p].result /\ c.pc = "writing"
      BY <1>2 DEF Calls
    <2>3. CallOk(c, verdict[IdOf[p]], C!Done)
      BY <1>2, <2>1, <2>2 DEF CallOk
    <2>4. okCallbacks' \in [Id -> Publisher \cup {C!Nobody}] /\ Owned'
      BY <2>1 DEF RelayInv, RelayTypes, Owned
    <2>5. writer' \in Writers /\ writer'.for = p
      BY <2>1 DEF RelayInv, RelayTypes, Writers
    <2>6. pub'[p] = c
      BY <2>1 DEF RelayInv, RelayTypes
    <2>7. Written'
      BY <2>2, <2>5, <2>6 DEF Written
    <2> HIDE DEF c
    <2> QED
      BY <1>5, <2>1, <2>2, <2>3, <2>4, <2>5, <2>7
  <1>8. CASE C!Timeout(p)
    <2> DEFINE c == [pub[p] EXCEPT !.ctx = "expired"]
    <2>1. /\ pub[p].pc = "waiting" /\ pub' = [pub EXCEPT ![p] = c] /\ writer' = writer
          /\ okCallbacks' = okCallbacks
      BY <1>8 DEF C!Timeout
    <2>2. /\ c \in Calls /\ c.err = pub[p].err /\ c.ctx = "expired"
          /\ c.result = pub[p].result /\ c.pc = pub[p].pc
      BY <1>2 DEF Calls
    <2>3. CallOk(c, verdict[IdOf[p]], C!Done)
      BY <1>2, <2>1, <2>2 DEF CallOk
    <2>4. okCallbacks' \in [Id -> Publisher \cup {C!Nobody}] /\ Owned'
      BY <2>1 DEF RelayInv, RelayTypes, Owned
    <2>5. writer' \in Writers /\ Written'
      BY <2>1 DEF RelayInv, RelayTypes, Written
    <2> HIDE DEF c
    <2> QED
      BY <1>5, <2>1, <2>2, <2>3, <2>4, <2>5
  <1> QED
    BY <1>6, <1>7, <1>8

\* Every step of the connection keeps the invariant.
LEMMA RelayStep ==
    ASSUME RelayAssumptions, RelayInv, [C!Next]_(C!vars)
    PROVE  RelayInv'
  <1>1. CASE UNCHANGED C!vars
    <2>1. UNCHANGED <<oks, verdict, okCallbacks, pub, readerOfRelay, writer, cause>>
      BY <1>1 DEF C!vars
    <2> QED
      BY <2>1, QuietStep DEF C!Done, RelayInv, RelayTypes
  <1>2. CASE C!Next
    BY <1>2, QuietSteps, WriteSucceedsStep, ReturnSteps, ReadSteps, CallbackSteps, CallSteps
    DEF C!Next, C!WriterStep, C!ReaderStep, C!PublishStep
  <1> QED
    BY <1>1, <1>2

\* A result of publish is the relay's verdict on that event, whichever callback
\* of the same event has replaced another, whoever closes the connection and
\* whatever was lost (relay.go:355-410): nil, before its deadline and on a
\* connection that lasts, means accepted, and the relay's reason means rejected.
THEOREM ResultAlwaysVerdict == Spec => []ResultIsVerdict
  <1>1. Init => RelayInv
    <2> SUFFICES ASSUME C!Connected PROVE RelayInv
      BY DEF Init, C!Init
    <2>1. RelayTypes
      BY DEF C!Connected, RelayTypes, Writers, Readers, Calls
    <2>2. CallsOk
      BY DEF C!Connected, CallsOk, CallOk
    <2>3. Judged /\ Heard /\ Written
      BY DEF C!Connected, Judged, Heard, Written
    <2>4. Owned
      BY InstancesAssumption DEF C!Connected, Owned, C!PublisherAssumption, C!Nobody
    <2> QED
      BY <2>1, <2>2, <2>3, <2>4 DEF RelayInv
  <1>2. RelayInv /\ [Next]_vars => RelayInv'
    <2> SUFFICES ASSUME RelayInv, [Next]_vars PROVE RelayInv'
      OBVIOUS
    <2>1. [C!Next]_(C!vars)
      BY DEF Next, vars, relayVars, C!vars
    <2>2. RelayAssumptions
      BY InstancesAssumption DEF RelayAssumptions
    <2> QED
      BY <2>1, <2>2, RelayStep
  <1>3. RelayInv => ResultIsVerdict
    BY DEF RelayInv, CallsOk, CallOk, ResultIsVerdict, C!ResultIsVerdict
  <1> QED
    BY <1>1, <1>2, <1>3, PTL DEF Spec

-----------------------------------------------------------------------------
(* Subscriptions *)

Subscriptions == [live : BOOLEAN, eosed : BOOLEAN, cancelled : BOOLEAN, closed : BOOLEAN,
                  storedwg : Int, mu : Nat]
Callers == {"idle", "check", "refused", "fire", "write", "failed", "subscribed", "left"}
Unsubs == {"none", "live", "cancel", "swap", "delete", "closeEvents", "ended"}
Sendings == [pc : {"none", "lock", "send", "received", "dropped"},
             stored : BOOLEAN, added : BOOLEAN]

SubTypes ==
    /\ reader \in [pc : {"read", "event", "count"}, sub : SUBSET Sub]
    /\ sub \in [Sub -> Subscriptions]
    /\ caller \in [Sub -> Callers]
    /\ unsubs \in [Sub -> [S!Goroutine -> Unsubs]]
    /\ event \in [Sub -> [S!Index -> Sendings]]
    /\ eose \in [Sub -> {"none", "wait", "signalled"}]
    /\ lateFire \subseteq Sub

\* Subscription x is over, or about to be: events may be dropped.
Over(x) == sub[x].cancelled \/ unsubs[x]["closed"] # "none"

\* unsub cancels before it unsets live, and start closes the channel after
\* both, so that x is live again only if it is fired late.
UnsubOk(x) ==
    /\ \A g \in S!Goroutine : unsubs[x][g] = "swap" => sub[x].cancelled
    /\ unsubs[x]["start"] # "none" => sub[x].cancelled
    /\ unsubs[x]["start"] \in {"delete", "closeEvents", "ended"} /\ sub[x].live => x \in lateFire
    /\ sub[x].closed => unsubs[x]["start"] = "ended"

\* Who sends holds the mutex, and found the subscription live under it.
SendOk(x) ==
    \A i \in S!Index :
        event[x][i].pc = "send" => sub[x].mu = i /\ (sub[x].closed => x \in lateFire)

\* Events are dispatched to a subscription that has been fired, and is live
\* unless it is over.
FireOk(x) ==
    /\ caller[x] \in {"write", "failed", "subscribed", "left"} /\ ~sub[x].live => Over(x)
    /\ reader.pc = "event" /\ x \in reader.sub => caller[x] \in {"subscribed", "left"}
    /\ \A i \in S!Index :
        /\ event[x][i].pc # "none" => caller[x] \in {"subscribed", "left"}
        /\ event[x][i].pc = "dropped" => Over(x)

\* Stored events count until they are received or dropped, and EOSE waits.
Counted(c) == c.added /\ c.pc \in {"lock", "send"}
Storing(evs) == {i \in S!Index : Counted(evs[i])}
StoredOk(x) ==
    /\ sub[x].storedwg = Cardinality(Storing(event[x]))
    /\ \A i \in S!Index :
        /\ event[x][i].stored = event[x][i].added
        /\ event[x][i].stored => event[x][i].pc # "none"
    /\ eose[x] # "none" => sub[x].eosed
    /\ eose[x] = "signalled" => Storing(event[x]) = {}

SubsOk == \A x \in Sub : UnsubOk(x) /\ SendOk(x) /\ FireOk(x) /\ StoredOk(x)

Panics == part = "subscription" /\ panicked => lateFire # {}

SubInv == SubTypes /\ SubsOk /\ Panics

\* What concerns stored events is kept by a step that leaves them, EOSE and the
\* WaitGroup alone.
LEMMA StoredKept ==
    ASSUME NEW x \in Sub, StoredOk(x), event'[x] = event[x], eose'[x] = eose[x],
           sub'[x].storedwg = sub[x].storedwg, sub'[x].eosed = sub[x].eosed
    PROVE  StoredOk(x)'
  BY DEF StoredOk, Storing

\* A step that leaves subscription x, its goroutines and its events alone.
LEMMA OkKept ==
    ASSUME NEW x \in Sub, UnsubOk(x), SendOk(x), FireOk(x),
           sub'[x] = sub[x], caller'[x] = caller[x], unsubs'[x] = unsubs[x],
           event'[x] = event[x], lateFire \subseteq lateFire',
           reader'.pc = "event" /\ x \in reader'.sub => reader.pc = "event" /\ x \in reader.sub
    PROVE  (UnsubOk(x) /\ SendOk(x) /\ FireOk(x))'
  <1>1. UnsubOk(x)'
    BY DEF UnsubOk
  <1>2. SendOk(x)'
    BY DEF SendOk
  <1>3. FireOk(x)'
    BY DEF FireOk, Over
  <1> QED
    BY <1>1, <1>2, <1>3

\* A step of one subscription leaves the others as they are.
LEMMA OneSub ==
    ASSUME SubsOk, NEW s \in Sub,
           \A x \in Sub \ {s} : /\ sub'[x] = sub[x] /\ caller'[x] = caller[x]
                               /\ unsubs'[x] = unsubs[x] /\ event'[x] = event[x],
           lateFire \subseteq lateFire', reader' = reader,
           UnsubOk(s)', SendOk(s)', FireOk(s)'
    PROVE  \A x \in Sub : (UnsubOk(x) /\ SendOk(x) /\ FireOk(x))'
  <1>1. ASSUME NEW x \in Sub, x # s PROVE (UnsubOk(x) /\ SendOk(x) /\ FireOk(x))'
    BY <1>1, OkKept DEF SubsOk
  <1> QED
    BY <1>1

\* What a step that overwrites the record of one subscription leaves.
LEMMA SubOverwritten ==
    ASSUME NEW s \in Sub, sub \in [Sub -> Subscriptions], NEW w \in Subscriptions,
           sub' = [sub EXCEPT ![s] = w]
    PROVE  /\ sub' \in [Sub -> Subscriptions] /\ sub'[s] = w
           /\ \A x \in Sub \ {s} : sub'[x] = sub[x]
  OBVIOUS

\* What the goroutine g of a subscription leaves when it goes on to l.
LEMMA UnsubMoved ==
    ASSUME NEW s \in Sub, NEW g \in S!Goroutine, NEW l \in Unsubs,
           unsubs \in [Sub -> [S!Goroutine -> Unsubs]],
           unsubs' = [unsubs EXCEPT ![s][g] = l]
    PROVE  /\ unsubs' \in [Sub -> [S!Goroutine -> Unsubs]] /\ unsubs'[s][g] = l
           /\ \A h \in S!Goroutine : h # g => unsubs'[s][h] = unsubs[s][h]
           /\ \A x \in Sub \ {s} : unsubs'[x] = unsubs[x]
  OBVIOUS

\* The caller of a subscription goes on to l.
LEMMA CallerMoved ==
    ASSUME NEW s \in Sub, caller \in [Sub -> Callers], NEW l \in Callers,
           caller' = [caller EXCEPT ![s] = l]
    PROVE  /\ caller' \in [Sub -> Callers] /\ caller'[s] = l
           /\ \A x \in Sub \ {s} : caller'[x] = caller[x]
  OBVIOUS

\* The caller's steps, and the end of its context.
LEMMA CallerSteps ==
    ASSUME SubTypes, SubsOk, NEW s \in Sub, NEW g \in S!Goroutine,
           \/ S!PrepareSubscription(s)
           \/ S!CheckConnection(s)
           \/ S!FireLive(s)
           \/ S!FireWrite(s)
           \/ S!ContextDone(s)
    PROVE  SubTypes' /\ SubsOk'
  <1>1. CASE S!PrepareSubscription(s)
    <2>1. SubTypes'
      BY <1>1 DEF S!PrepareSubscription, S!CallerGoto, SubTypes, Subscriptions, Callers, Unsubs
    <2>2. ASSUME NEW x \in Sub PROVE (UnsubOk(x) /\ SendOk(x) /\ FireOk(x))'
      BY <1>1 DEF S!PrepareSubscription, S!CallerGoto, SubTypes, Subscriptions, Callers, Unsubs, SubsOk, UnsubOk, SendOk, FireOk, Over
    <2>3. ASSUME NEW x \in Sub PROVE StoredOk(x)'
      <3>1. /\ event' = event /\ eose'[x] = eose[x]
            /\ sub'[x].storedwg = sub[x].storedwg /\ sub'[x].eosed = sub[x].eosed
        BY <1>1 DEF S!PrepareSubscription, S!CallerGoto, SubTypes, Subscriptions, Callers, Unsubs
      <3> QED
        BY <3>1, StoredKept DEF SubsOk
    <2> QED
      BY <2>1, <2>2, <2>3 DEF SubsOk
  <1>2. CASE S!CheckConnection(s)
    <2>1. SubTypes'
      BY <1>2 DEF S!CheckConnection, S!CallerGoto, SubTypes, Subscriptions, Callers, Unsubs
    <2>2. ASSUME NEW x \in Sub PROVE (UnsubOk(x) /\ SendOk(x) /\ FireOk(x))'
      BY <1>2 DEF S!CheckConnection, S!CallerGoto, SubTypes, Subscriptions, Callers, Unsubs, SubsOk, UnsubOk, SendOk, FireOk, Over
    <2>3. ASSUME NEW x \in Sub PROVE StoredOk(x)'
      <3>1. /\ event' = event /\ eose'[x] = eose[x]
            /\ sub'[x].storedwg = sub[x].storedwg /\ sub'[x].eosed = sub[x].eosed
        BY <1>2 DEF S!CheckConnection, S!CallerGoto, SubTypes, Subscriptions, Callers, Unsubs
      <3> QED
        BY <3>1, StoredKept DEF SubsOk
    <2> QED
      BY <2>1, <2>2, <2>3 DEF SubsOk
  <1>3. CASE S!FireLive(s)
    <2>1. /\ caller[s] = "fire"
          /\ sub' = [sub EXCEPT ![s] = [sub[s] EXCEPT !.live = TRUE]]
          /\ caller' = [caller EXCEPT ![s] = "write"]
          /\ lateFire \subseteq lateFire' /\ lateFire' \subseteq Sub
          /\ sub[s].cancelled => s \in lateFire'
          /\ UNCHANGED <<reader, event, eose, unsubs>>
      BY <1>3 DEF S!FireLive, S!CallerGoto, SubTypes
    <2>2. PICK w : w = [sub[s] EXCEPT !.live = TRUE]
      OBVIOUS
    <2>3. /\ w \in Subscriptions
          /\ w.live = TRUE /\ w.eosed = sub[s].eosed /\ w.cancelled = sub[s].cancelled
          /\ w.closed = sub[s].closed /\ w.storedwg = sub[s].storedwg /\ w.mu = sub[s].mu
      <3>1. sub[s] \in Subscriptions
        BY DEF SubTypes
      <3> QED
        BY ONLY <3>1, <2>2 DEF Subscriptions
    <2>4. /\ sub' \in [Sub -> Subscriptions] /\ sub'[s] = w
          /\ \A x \in Sub \ {s} : sub'[x] = sub[x]
      BY <2>1, <2>2, <2>3, SubOverwritten DEF SubTypes
    <2>5. /\ caller' \in [Sub -> Callers] /\ caller'[s] = "write"
          /\ \A x \in Sub \ {s} : caller'[x] = caller[x]
      BY <2>1, CallerMoved DEF SubTypes, Callers
    <2>6. unsubs' = unsubs
      BY <2>1
    <2>7. SubTypes'
      BY <2>1, <2>4, <2>5, <2>6 DEF SubTypes
    <2>8. UnsubOk(s) /\ SendOk(s) /\ FireOk(s)
      BY DEF SubsOk
    <2>9. UnsubOk(s)'
      BY <2>1, <2>3, <2>4, <2>6, <2>8 DEF UnsubOk
    <2>10. SendOk(s)'
      BY <2>1, <2>3, <2>4, <2>8 DEF SendOk
    <2>11. FireOk(s)'
      BY <2>1, <2>3, <2>4, <2>5, <2>6, <2>8 DEF FireOk, Over
    <2>12. \A x \in Sub : (UnsubOk(x) /\ SendOk(x) /\ FireOk(x))'
      <3>1. \A x \in Sub \ {s} : /\ sub'[x] = sub[x] /\ caller'[x] = caller[x]
                                 /\ unsubs'[x] = unsubs[x] /\ event'[x] = event[x]
        BY <2>1, <2>4, <2>5, <2>6
      <3>2. lateFire \subseteq lateFire' /\ reader' = reader
        BY <2>1
      <3> QED
        BY <3>1, <3>2, <2>9, <2>10, <2>11, OneSub
    <2>13. ASSUME NEW x \in Sub PROVE StoredOk(x)'
      <3>1. /\ event'[x] = event[x] /\ eose'[x] = eose[x]
            /\ sub'[x].storedwg = sub[x].storedwg /\ sub'[x].eosed = sub[x].eosed
        BY <2>1, <2>3, <2>4
      <3> QED
        BY <3>1, StoredKept DEF SubsOk
    <2> QED
      BY <2>7, <2>12, <2>13 DEF SubsOk
  <1>4. CASE S!FireWrite(s)
    <2>1. CASE link = "up"
      <3>1. /\ caller[s] = "write" /\ caller' = [caller EXCEPT ![s] = "subscribed"] /\ sub' = sub
            /\ UNCHANGED <<reader, unsubs, event, eose, lateFire>>
        BY <1>4, <2>1 DEF S!FireWrite, S!CallerGoto
      <3>2. SubTypes'
        BY <3>1 DEF SubTypes, Subscriptions, Callers
      <3>3. ASSUME NEW x \in Sub PROVE (UnsubOk(x) /\ SendOk(x) /\ FireOk(x))'
        BY <3>1 DEF SubTypes, Subscriptions, Callers, SubsOk, UnsubOk, SendOk, FireOk, Over
      <3>4. ASSUME NEW x \in Sub PROVE StoredOk(x)'
        <4>1. sub'[x].storedwg = sub[x].storedwg /\ sub'[x].eosed = sub[x].eosed
          BY <3>1 DEF SubTypes, Subscriptions
        <4> QED
          BY <3>1, <4>1, StoredKept DEF SubsOk
      <3> QED
        BY <3>2, <3>3, <3>4 DEF SubsOk
    <2>2. CASE link # "up"
      <3>1. /\ caller[s] = "write"
            /\ sub' = [sub EXCEPT ![s] = [sub[s] EXCEPT !.cancelled = TRUE]]
            /\ caller' = [caller EXCEPT ![s] = "failed"]
            /\ UNCHANGED <<reader, event, eose, unsubs, lateFire>>
        BY <1>4, <2>2 DEF S!FireWrite, S!CallerGoto
      <3>2. PICK w : w = [sub[s] EXCEPT !.cancelled = TRUE]
        OBVIOUS
      <3>3. /\ w \in Subscriptions
            /\ w.live = sub[s].live /\ w.eosed = sub[s].eosed /\ w.cancelled = TRUE
            /\ w.closed = sub[s].closed /\ w.storedwg = sub[s].storedwg /\ w.mu = sub[s].mu
        <4>1. sub[s] \in Subscriptions
          BY DEF SubTypes
        <4> QED
          BY ONLY <4>1, <3>2 DEF Subscriptions
      <3>4. /\ sub' \in [Sub -> Subscriptions] /\ sub'[s] = w
            /\ \A x \in Sub \ {s} : sub'[x] = sub[x]
        BY <3>1, <3>2, <3>3, SubOverwritten DEF SubTypes
      <3>5. /\ caller' \in [Sub -> Callers] /\ caller'[s] = "failed"
            /\ \A x \in Sub \ {s} : caller'[x] = caller[x]
        BY <3>1, CallerMoved DEF SubTypes, Callers
      <3>6. unsubs' = unsubs
        BY <3>1
      <3>7. SubTypes'
        BY <3>1, <3>4, <3>5, <3>6 DEF SubTypes
      <3>8. UnsubOk(s) /\ SendOk(s) /\ FireOk(s)
        BY DEF SubsOk
      <3>9. UnsubOk(s)'
        BY <3>1, <3>3, <3>4, <3>6, <3>8 DEF UnsubOk
      <3>10. SendOk(s)'
        BY <3>1, <3>3, <3>4, <3>8 DEF SendOk
      <3>11. FireOk(s)'
        BY <3>1, <3>3, <3>4, <3>5, <3>6, <3>8 DEF FireOk, Over
      <3>12. \A x \in Sub : (UnsubOk(x) /\ SendOk(x) /\ FireOk(x))'
        <4>1. \A x \in Sub \ {s} : /\ sub'[x] = sub[x] /\ caller'[x] = caller[x]
                                   /\ unsubs'[x] = unsubs[x] /\ event'[x] = event[x]
          BY <3>1, <3>4, <3>5, <3>6
        <4>2. lateFire \subseteq lateFire' /\ reader' = reader
          BY <3>1
        <4> QED
          BY <4>1, <4>2, <3>9, <3>10, <3>11, OneSub
      <3>13. ASSUME NEW x \in Sub PROVE StoredOk(x)'
        <4>1. /\ event'[x] = event[x] /\ eose'[x] = eose[x]
              /\ sub'[x].storedwg = sub[x].storedwg /\ sub'[x].eosed = sub[x].eosed
          BY <3>1, <3>3, <3>4
        <4> QED
          BY <4>1, StoredKept DEF SubsOk
      <3> QED
        BY <3>7, <3>12, <3>13 DEF SubsOk
    <2> QED
      BY <2>1, <2>2
  <1>5. CASE S!ContextDone(s)
    <2>1. /\ sub' = [sub EXCEPT ![s] = [sub[s] EXCEPT !.cancelled = TRUE]]
          /\ UNCHANGED <<reader, event, eose, caller, unsubs, lateFire>>
      BY <1>5 DEF S!ContextDone
    <2>2. PICK w : w = [sub[s] EXCEPT !.cancelled = TRUE]
      OBVIOUS
    <2>3. /\ w \in Subscriptions
          /\ w.live = sub[s].live /\ w.eosed = sub[s].eosed /\ w.cancelled = TRUE
          /\ w.closed = sub[s].closed /\ w.storedwg = sub[s].storedwg /\ w.mu = sub[s].mu
      <3>1. sub[s] \in Subscriptions
        BY DEF SubTypes
      <3> QED
        BY ONLY <3>1, <2>2 DEF Subscriptions
    <2>4. /\ sub' \in [Sub -> Subscriptions] /\ sub'[s] = w
          /\ \A x \in Sub \ {s} : sub'[x] = sub[x]
      BY <2>1, <2>2, <2>3, SubOverwritten DEF SubTypes
    <2>5. caller' = caller
      BY <2>1
    <2>6. unsubs' = unsubs
      BY <2>1
    <2>7. SubTypes'
      BY <2>1, <2>4, <2>5, <2>6 DEF SubTypes
    <2>8. UnsubOk(s) /\ SendOk(s) /\ FireOk(s)
      BY DEF SubsOk
    <2>9. UnsubOk(s)'
      BY <2>1, <2>3, <2>4, <2>6, <2>8 DEF UnsubOk
    <2>10. SendOk(s)'
      BY <2>1, <2>3, <2>4, <2>8 DEF SendOk
    <2>11. FireOk(s)'
      BY <2>1, <2>3, <2>4, <2>5, <2>6, <2>8 DEF FireOk, Over
    <2>12. \A x \in Sub : (UnsubOk(x) /\ SendOk(x) /\ FireOk(x))'
      <3>1. \A x \in Sub \ {s} : /\ sub'[x] = sub[x] /\ caller'[x] = caller[x]
                                 /\ unsubs'[x] = unsubs[x] /\ event'[x] = event[x]
        BY <2>1, <2>4, <2>5, <2>6
      <3>2. lateFire \subseteq lateFire' /\ reader' = reader
        BY <2>1
      <3> QED
        BY <3>1, <3>2, <2>9, <2>10, <2>11, OneSub
    <2>13. ASSUME NEW x \in Sub PROVE StoredOk(x)'
      <3>1. /\ event'[x] = event[x] /\ eose'[x] = eose[x]
            /\ sub'[x].storedwg = sub[x].storedwg /\ sub'[x].eosed = sub[x].eosed
        BY <2>1, <2>3, <2>4
      <3> QED
        BY <3>1, StoredKept DEF SubsOk
    <2> QED
      BY <2>7, <2>12, <2>13 DEF SubsOk
  <1> QED
    BY <1>1, <1>2, <1>3, <1>4, <1>5

\* The steps of unsub and of start, and those that begin an unsub.
LEMMA UnsubSteps ==
    ASSUME SubTypes, SubsOk, NEW s \in Sub, NEW g \in S!Goroutine,
           \/ S!CallerUnsubs(s)
           \/ S!Start(s)
           \/ S!UnsubCancel(s, g)
           \/ S!UnsubSwap(s, g)
           \/ S!UnsubDelete(s, g)
           \/ S!CloseEvents(s)
           \/ S!ClosedReason(s)
    PROVE  SubTypes' /\ SubsOk'
  <1>1. CASE S!CallerUnsubs(s)
    <2>1. SubTypes'
      BY <1>1 DEF S!CallerUnsubs, S!CallerGoto, S!Begin, S!Goroutine, SubTypes, Subscriptions, Callers, Unsubs
    <2>2. ASSUME NEW x \in Sub PROVE (UnsubOk(x) /\ SendOk(x) /\ FireOk(x))'
      BY <1>1 DEF S!CallerUnsubs, S!CallerGoto, S!Begin, S!Goroutine, SubTypes, Subscriptions, Callers, Unsubs, SubsOk, UnsubOk, SendOk, FireOk, Over
    <2>3. ASSUME NEW x \in Sub PROVE StoredOk(x)'
      <3>1. /\ event' = event /\ eose'[x] = eose[x]
            /\ sub'[x].storedwg = sub[x].storedwg /\ sub'[x].eosed = sub[x].eosed
        BY <1>1 DEF S!CallerUnsubs, S!CallerGoto, S!Begin, S!Goroutine, SubTypes, Subscriptions, Callers, Unsubs
      <3> QED
        BY <3>1, StoredKept DEF SubsOk
    <2> QED
      BY <2>1, <2>2, <2>3 DEF SubsOk
  <1>2. CASE S!Start(s)
    <2>1. SubTypes'
      BY <1>2 DEF S!Start, S!UnsubAt, S!Begin, S!Goroutine, SubTypes, Subscriptions, Callers, Unsubs
    <2>2. ASSUME NEW x \in Sub PROVE (UnsubOk(x) /\ SendOk(x) /\ FireOk(x))'
      BY <1>2 DEF S!Start, S!UnsubAt, S!Begin, S!Goroutine, SubTypes, Subscriptions, Callers, Unsubs, SubsOk, UnsubOk, SendOk, FireOk, Over
    <2>3. ASSUME NEW x \in Sub PROVE StoredOk(x)'
      <3>1. /\ event' = event /\ eose'[x] = eose[x]
            /\ sub'[x].storedwg = sub[x].storedwg /\ sub'[x].eosed = sub[x].eosed
        BY <1>2 DEF S!Start, S!UnsubAt, S!Begin, S!Goroutine, SubTypes, Subscriptions, Callers, Unsubs
      <3> QED
        BY <3>1, StoredKept DEF SubsOk
    <2> QED
      BY <2>1, <2>2, <2>3 DEF SubsOk
  <1>3. CASE S!UnsubCancel(s, g)
    <2>1. /\ unsubs[s][g] = "cancel"
          /\ sub' = [sub EXCEPT ![s] = [sub[s] EXCEPT !.cancelled = TRUE]]
          /\ unsubs' = [unsubs EXCEPT ![s][g] = "swap"]
          /\ UNCHANGED <<reader, event, eose, caller, lateFire>>
      BY <1>3 DEF S!UnsubCancel, S!UnsubAt, S!UnsubGoto
    <2>2. PICK w : w = [sub[s] EXCEPT !.cancelled = TRUE]
      OBVIOUS
    <2>3. /\ w \in Subscriptions
          /\ w.live = sub[s].live /\ w.eosed = sub[s].eosed /\ w.cancelled = TRUE
          /\ w.closed = sub[s].closed /\ w.storedwg = sub[s].storedwg /\ w.mu = sub[s].mu
      <3>1. sub[s] \in Subscriptions
        BY DEF SubTypes
      <3> QED
        BY ONLY <3>1, <2>2 DEF Subscriptions
    <2>4. /\ sub' \in [Sub -> Subscriptions] /\ sub'[s] = w
          /\ \A x \in Sub \ {s} : sub'[x] = sub[x]
      BY <2>1, <2>2, <2>3, SubOverwritten DEF SubTypes
    <2>5. caller' = caller
      BY <2>1
    <2>6. /\ unsubs' \in [Sub -> [S!Goroutine -> Unsubs]] /\ unsubs'[s][g] = "swap"
          /\ \A h \in S!Goroutine : h # g => unsubs'[s][h] = unsubs[s][h]
          /\ \A x \in Sub \ {s} : unsubs'[x] = unsubs[x]
      BY <2>1, UnsubMoved DEF SubTypes, Unsubs
    <2>7. SubTypes'
      BY <2>1, <2>4, <2>5, <2>6 DEF SubTypes
    <2>8. UnsubOk(s) /\ SendOk(s) /\ FireOk(s)
      BY DEF SubsOk
    <2>9. UnsubOk(s)'
      BY <2>1, <2>3, <2>4, <2>6, <2>8 DEF UnsubOk, S!Goroutine
    <2>10. SendOk(s)'
      BY <2>1, <2>3, <2>4, <2>8 DEF SendOk
    <2>11. FireOk(s)'
      BY <2>1, <2>3, <2>4, <2>5, <2>6, <2>8 DEF FireOk, Over, S!Goroutine
    <2>12. \A x \in Sub : (UnsubOk(x) /\ SendOk(x) /\ FireOk(x))'
      <3>1. \A x \in Sub \ {s} : /\ sub'[x] = sub[x] /\ caller'[x] = caller[x]
                                 /\ unsubs'[x] = unsubs[x] /\ event'[x] = event[x]
        BY <2>1, <2>4, <2>5, <2>6
      <3>2. lateFire \subseteq lateFire' /\ reader' = reader
        BY <2>1
      <3> QED
        BY <3>1, <3>2, <2>9, <2>10, <2>11, OneSub
    <2>13. ASSUME NEW x \in Sub PROVE StoredOk(x)'
      <3>1. /\ event'[x] = event[x] /\ eose'[x] = eose[x]
            /\ sub'[x].storedwg = sub[x].storedwg /\ sub'[x].eosed = sub[x].eosed
        BY <2>1, <2>3, <2>4
      <3> QED
        BY <3>1, StoredKept DEF SubsOk
    <2> QED
      BY <2>7, <2>12, <2>13 DEF SubsOk
  <1>4. CASE S!UnsubSwap(s, g)
    <2>1. /\ unsubs[s][g] = "swap"
          /\ sub' = [sub EXCEPT ![s] = [sub[s] EXCEPT !.live = FALSE]]
          /\ unsubs' = [unsubs EXCEPT ![s][g] = "delete"]
          /\ UNCHANGED <<reader, event, eose, caller, lateFire>>
      BY <1>4 DEF S!UnsubSwap, S!UnsubAt, S!UnsubGoto
    <2>2. PICK w : w = [sub[s] EXCEPT !.live = FALSE]
      OBVIOUS
    <2>3. /\ w \in Subscriptions
          /\ w.live = FALSE /\ w.eosed = sub[s].eosed /\ w.cancelled = sub[s].cancelled
          /\ w.closed = sub[s].closed /\ w.storedwg = sub[s].storedwg /\ w.mu = sub[s].mu
      <3>1. sub[s] \in Subscriptions
        BY DEF SubTypes
      <3> QED
        BY ONLY <3>1, <2>2 DEF Subscriptions
    <2>4. /\ sub' \in [Sub -> Subscriptions] /\ sub'[s] = w
          /\ \A x \in Sub \ {s} : sub'[x] = sub[x]
      BY <2>1, <2>2, <2>3, SubOverwritten DEF SubTypes
    <2>5. caller' = caller
      BY <2>1
    <2>6. /\ unsubs' \in [Sub -> [S!Goroutine -> Unsubs]] /\ unsubs'[s][g] = "delete"
          /\ \A h \in S!Goroutine : h # g => unsubs'[s][h] = unsubs[s][h]
          /\ \A x \in Sub \ {s} : unsubs'[x] = unsubs[x]
      BY <2>1, UnsubMoved DEF SubTypes, Unsubs
    <2>7. SubTypes'
      BY <2>1, <2>4, <2>5, <2>6 DEF SubTypes
    <2>8. UnsubOk(s) /\ SendOk(s) /\ FireOk(s)
      BY DEF SubsOk
    <2>9. UnsubOk(s)'
      BY <2>1, <2>3, <2>4, <2>6, <2>8 DEF UnsubOk, S!Goroutine
    <2>10. SendOk(s)'
      BY <2>1, <2>3, <2>4, <2>8 DEF SendOk
    <2>11. FireOk(s)'
      <3>1. Over(s)'
        BY <2>1, <2>3, <2>4, <2>8 DEF UnsubOk, Over
      <3> QED
        BY <3>1, <2>1, <2>5, <2>8 DEF FireOk
    <2>12. \A x \in Sub : (UnsubOk(x) /\ SendOk(x) /\ FireOk(x))'
      <3>1. \A x \in Sub \ {s} : /\ sub'[x] = sub[x] /\ caller'[x] = caller[x]
                                 /\ unsubs'[x] = unsubs[x] /\ event'[x] = event[x]
        BY <2>1, <2>4, <2>5, <2>6
      <3>2. lateFire \subseteq lateFire' /\ reader' = reader
        BY <2>1
      <3> QED
        BY <3>1, <3>2, <2>9, <2>10, <2>11, OneSub
    <2>13. ASSUME NEW x \in Sub PROVE StoredOk(x)'
      <3>1. /\ event'[x] = event[x] /\ eose'[x] = eose[x]
            /\ sub'[x].storedwg = sub[x].storedwg /\ sub'[x].eosed = sub[x].eosed
        BY <2>1, <2>3, <2>4
      <3> QED
        BY <3>1, StoredKept DEF SubsOk
    <2> QED
      BY <2>7, <2>12, <2>13 DEF SubsOk
  <1>5. CASE S!UnsubDelete(s, g)
    <2>1. SubTypes'
      BY <1>5 DEF S!UnsubDelete, S!UnsubAt, S!UnsubGoto, S!Goroutine, SubTypes, Subscriptions, Callers, Unsubs
    <2>2. ASSUME NEW x \in Sub PROVE (UnsubOk(x) /\ SendOk(x) /\ FireOk(x))'
      BY <1>5 DEF S!UnsubDelete, S!UnsubAt, S!UnsubGoto, S!Goroutine, SubTypes, Subscriptions, Callers, Unsubs, SubsOk, UnsubOk, SendOk, FireOk, Over
    <2>3. ASSUME NEW x \in Sub PROVE StoredOk(x)'
      <3>1. /\ event' = event /\ eose'[x] = eose[x]
            /\ sub'[x].storedwg = sub[x].storedwg /\ sub'[x].eosed = sub[x].eosed
        BY <1>5 DEF S!UnsubDelete, S!UnsubAt, S!UnsubGoto, S!Goroutine, SubTypes, Subscriptions, Callers, Unsubs
      <3> QED
        BY <3>1, StoredKept DEF SubsOk
    <2> QED
      BY <2>1, <2>2, <2>3 DEF SubsOk
  <1>6. CASE S!CloseEvents(s)
    <2>1. /\ unsubs[s]["start"] = "closeEvents"
          /\ sub[s].mu = S!Free
          /\ sub' = [sub EXCEPT ![s] = [sub[s] EXCEPT !.closed = TRUE]]
          /\ unsubs' = [unsubs EXCEPT ![s]["start"] = "ended"]
          /\ UNCHANGED <<reader, event, eose, caller, lateFire>>
      BY <1>6 DEF S!CloseEvents, S!UnsubAt, S!UnsubGoto
    <2>2. PICK w : w = [sub[s] EXCEPT !.closed = TRUE]
      OBVIOUS
    <2>3. /\ w \in Subscriptions
          /\ w.live = sub[s].live /\ w.eosed = sub[s].eosed /\ w.cancelled = sub[s].cancelled
          /\ w.closed = TRUE /\ w.storedwg = sub[s].storedwg /\ w.mu = sub[s].mu
      <3>1. sub[s] \in Subscriptions
        BY DEF SubTypes
      <3> QED
        BY ONLY <3>1, <2>2 DEF Subscriptions
    <2>4. /\ sub' \in [Sub -> Subscriptions] /\ sub'[s] = w
          /\ \A x \in Sub \ {s} : sub'[x] = sub[x]
      BY <2>1, <2>2, <2>3, SubOverwritten DEF SubTypes
    <2>5. caller' = caller
      BY <2>1
    <2>6. /\ unsubs' \in [Sub -> [S!Goroutine -> Unsubs]] /\ unsubs'[s]["start"] = "ended"
          /\ \A h \in S!Goroutine : h # "start" => unsubs'[s][h] = unsubs[s][h]
          /\ \A x \in Sub \ {s} : unsubs'[x] = unsubs[x]
      <3>1. "start" \in S!Goroutine /\ "ended" \in Unsubs
        BY DEF S!Goroutine, Unsubs
      <3> QED
        BY <3>1, <2>1, UnsubMoved DEF SubTypes
    <2>7. SubTypes'
      BY <2>1, <2>4, <2>5, <2>6 DEF SubTypes
    <2>8. UnsubOk(s) /\ SendOk(s) /\ FireOk(s)
      BY DEF SubsOk
    <2>9. UnsubOk(s)'
      BY <2>1, <2>3, <2>4, <2>6, <2>8 DEF UnsubOk, S!Goroutine
    <2>10. SendOk(s)'
      BY <2>1, <2>3, <2>4, <2>8, InstancesAssumption
        DEF SendOk, S!EventsAssumption, S!Free, S!Index
    <2>11. FireOk(s)'
      BY <2>1, <2>3, <2>4, <2>5, <2>6, <2>8 DEF FireOk, Over, S!Goroutine
    <2>12. \A x \in Sub : (UnsubOk(x) /\ SendOk(x) /\ FireOk(x))'
      <3>1. \A x \in Sub \ {s} : /\ sub'[x] = sub[x] /\ caller'[x] = caller[x]
                                 /\ unsubs'[x] = unsubs[x] /\ event'[x] = event[x]
        BY <2>1, <2>4, <2>5, <2>6
      <3>2. lateFire \subseteq lateFire' /\ reader' = reader
        BY <2>1
      <3> QED
        BY <3>1, <3>2, <2>9, <2>10, <2>11, OneSub
    <2>13. ASSUME NEW x \in Sub PROVE StoredOk(x)'
      <3>1. /\ event'[x] = event[x] /\ eose'[x] = eose[x]
            /\ sub'[x].storedwg = sub[x].storedwg /\ sub'[x].eosed = sub[x].eosed
        BY <2>1, <2>3, <2>4
      <3> QED
        BY <3>1, StoredKept DEF SubsOk
    <2> QED
      BY <2>7, <2>12, <2>13 DEF SubsOk
  <1>7. CASE S!ClosedReason(s)
    <2>1. /\ unsubs[s]["closed"] = "live"
          /\ sub' = [sub EXCEPT ![s] = [sub[s] EXCEPT !.live = FALSE]]
          /\ unsubs' = [unsubs EXCEPT ![s]["closed"] = "cancel"]
          /\ UNCHANGED <<reader, event, eose, caller, lateFire>>
      BY <1>7 DEF S!ClosedReason, S!UnsubAt, S!UnsubGoto
    <2>2. PICK w : w = [sub[s] EXCEPT !.live = FALSE]
      OBVIOUS
    <2>3. /\ w \in Subscriptions
          /\ w.live = FALSE /\ w.eosed = sub[s].eosed /\ w.cancelled = sub[s].cancelled
          /\ w.closed = sub[s].closed /\ w.storedwg = sub[s].storedwg /\ w.mu = sub[s].mu
      <3>1. sub[s] \in Subscriptions
        BY DEF SubTypes
      <3> QED
        BY ONLY <3>1, <2>2 DEF Subscriptions
    <2>4. /\ sub' \in [Sub -> Subscriptions] /\ sub'[s] = w
          /\ \A x \in Sub \ {s} : sub'[x] = sub[x]
      BY <2>1, <2>2, <2>3, SubOverwritten DEF SubTypes
    <2>5. caller' = caller
      BY <2>1
    <2>6. /\ unsubs' \in [Sub -> [S!Goroutine -> Unsubs]] /\ unsubs'[s]["closed"] = "cancel"
          /\ \A h \in S!Goroutine : h # "closed" => unsubs'[s][h] = unsubs[s][h]
          /\ \A x \in Sub \ {s} : unsubs'[x] = unsubs[x]
      <3>1. "closed" \in S!Goroutine /\ "cancel" \in Unsubs
        BY DEF S!Goroutine, Unsubs
      <3> QED
        BY <3>1, <2>1, UnsubMoved DEF SubTypes
    <2>7. SubTypes'
      BY <2>1, <2>4, <2>5, <2>6 DEF SubTypes
    <2>8. UnsubOk(s) /\ SendOk(s) /\ FireOk(s)
      BY DEF SubsOk
    <2>9. UnsubOk(s)'
      BY <2>1, <2>3, <2>4, <2>6, <2>8 DEF UnsubOk, S!Goroutine
    <2>10. SendOk(s)'
      BY <2>1, <2>3, <2>4, <2>8 DEF SendOk
    <2>11. FireOk(s)'
      BY <2>1, <2>3, <2>4, <2>5, <2>6, <2>8 DEF FireOk, Over, S!Goroutine
    <2>12. \A x \in Sub : (UnsubOk(x) /\ SendOk(x) /\ FireOk(x))'
      <3>1. \A x \in Sub \ {s} : /\ sub'[x] = sub[x] /\ caller'[x] = caller[x]
                                 /\ unsubs'[x] = unsubs[x] /\ event'[x] = event[x]
        BY <2>1, <2>4, <2>5, <2>6
      <3>2. lateFire \subseteq lateFire' /\ reader' = reader
        BY <2>1
      <3> QED
        BY <3>1, <3>2, <2>9, <2>10, <2>11, OneSub
    <2>13. ASSUME NEW x \in Sub PROVE StoredOk(x)'
      <3>1. /\ event'[x] = event[x] /\ eose'[x] = eose[x]
            /\ sub'[x].storedwg = sub[x].storedwg /\ sub'[x].eosed = sub[x].eosed
        BY <2>1, <2>3, <2>4
      <3> QED
        BY <3>1, StoredKept DEF SubsOk
    <2> QED
      BY <2>7, <2>12, <2>13 DEF SubsOk
  <1> QED
    BY <1>1, <1>2, <1>3, <1>4, <1>5, <1>6, <1>7

\* The connection ends, and the writer ends the subscriptions it finds.
LEMMA LinkSteps ==
    ASSUME SubTypes, SubsOk, S!Sweep \/ S!LinkEnds
    PROVE  SubTypes' /\ SubsOk'
  <1>1. CASE S!Sweep
    <2>1. SubTypes'
      BY <1>1 DEF S!Sweep, S!Goroutine, SubTypes, Subscriptions, Callers, Unsubs
    <2>2. ASSUME NEW x \in Sub PROVE (UnsubOk(x) /\ SendOk(x) /\ FireOk(x))'
      BY <1>1 DEF S!Sweep, S!Goroutine, SubTypes, Subscriptions, Callers, Unsubs, SubsOk, UnsubOk, SendOk, FireOk, Over
    <2>3. ASSUME NEW x \in Sub PROVE StoredOk(x)'
      <3>1. /\ event' = event /\ eose'[x] = eose[x]
            /\ sub'[x].storedwg = sub[x].storedwg /\ sub'[x].eosed = sub[x].eosed
        BY <1>1 DEF S!Sweep, S!Goroutine, SubTypes, Subscriptions, Callers, Unsubs
      <3> QED
        BY <3>1, StoredKept DEF SubsOk
    <2> QED
      BY <2>1, <2>2, <2>3 DEF SubsOk
  <1>2. CASE S!LinkEnds
    <2>1. SubTypes'
      BY <1>2 DEF S!LinkEnds, SubTypes, Subscriptions, Callers, Unsubs
    <2>2. ASSUME NEW x \in Sub PROVE (UnsubOk(x) /\ SendOk(x) /\ FireOk(x))'
      BY <1>2 DEF S!LinkEnds, SubTypes, Subscriptions, Callers, Unsubs, SubsOk, UnsubOk, SendOk, FireOk, Over
    <2>3. ASSUME NEW x \in Sub PROVE StoredOk(x)'
      <3>1. /\ event' = event /\ eose'[x] = eose[x]
            /\ sub'[x].storedwg = sub[x].storedwg /\ sub'[x].eosed = sub[x].eosed
        BY <1>2 DEF S!LinkEnds, SubTypes, Subscriptions, Callers, Unsubs
      <3> QED
        BY <3>1, StoredKept DEF SubsOk
    <2> QED
      BY <2>1, <2>2, <2>3 DEF SubsOk
  <1> QED
    BY <1>1, <1>2

\* The steps of the reader that answer no event.
LEMMA ReaderSteps ==
    ASSUME SubTypes, SubsOk, NEW s \in Sub, NEW g \in S!Goroutine,
           \/ S!ReadEvent(s)
           \/ S!ReadClosed(s)
           \/ S!ReadCount(s)
           \/ S!CountResult(s)
    PROVE  SubTypes' /\ SubsOk'
  <1>1. CASE S!ReadEvent(s)
    <2>1. SubTypes'
      BY <1>1 DEF S!ReadEvent, S!Read, S!ReaderGoto, SubTypes, Subscriptions, Callers, Unsubs
    <2>2. ASSUME NEW x \in Sub PROVE (UnsubOk(x) /\ SendOk(x) /\ FireOk(x))'
      BY <1>1 DEF S!ReadEvent, S!Read, S!ReaderGoto, SubTypes, Subscriptions, Callers, Unsubs, SubsOk, UnsubOk, SendOk, FireOk, Over
    <2>3. ASSUME NEW x \in Sub PROVE StoredOk(x)'
      <3>1. /\ event' = event /\ eose'[x] = eose[x]
            /\ sub'[x].storedwg = sub[x].storedwg /\ sub'[x].eosed = sub[x].eosed
        BY <1>1 DEF S!ReadEvent, S!Read, S!ReaderGoto, SubTypes, Subscriptions, Callers, Unsubs
      <3> QED
        BY <3>1, StoredKept DEF SubsOk
    <2> QED
      BY <2>1, <2>2, <2>3 DEF SubsOk
  <1>2. CASE S!ReadClosed(s)
    <2>1. SubTypes'
      BY <1>2 DEF S!ReadClosed, S!Read, S!ReaderGoto, S!Goroutine, SubTypes, Subscriptions, Callers, Unsubs
    <2>2. ASSUME NEW x \in Sub PROVE (UnsubOk(x) /\ SendOk(x) /\ FireOk(x))'
      BY <1>2 DEF S!ReadClosed, S!Read, S!ReaderGoto, S!Goroutine, SubTypes, Subscriptions, Callers, Unsubs, SubsOk, UnsubOk, SendOk, FireOk, Over
    <2>3. ASSUME NEW x \in Sub PROVE StoredOk(x)'
      <3>1. /\ event' = event /\ eose'[x] = eose[x]
            /\ sub'[x].storedwg = sub[x].storedwg /\ sub'[x].eosed = sub[x].eosed
        BY <1>2 DEF S!ReadClosed, S!Read, S!ReaderGoto, S!Goroutine, SubTypes, Subscriptions, Callers, Unsubs
      <3> QED
        BY <3>1, StoredKept DEF SubsOk
    <2> QED
      BY <2>1, <2>2, <2>3 DEF SubsOk
  <1>3. CASE S!ReadCount(s)
    <2>1. SubTypes'
      BY <1>3 DEF S!ReadCount, S!Read, S!ReaderGoto, SubTypes, Subscriptions, Callers, Unsubs
    <2>2. ASSUME NEW x \in Sub PROVE (UnsubOk(x) /\ SendOk(x) /\ FireOk(x))'
      BY <1>3 DEF S!ReadCount, S!Read, S!ReaderGoto, SubTypes, Subscriptions, Callers, Unsubs, SubsOk, UnsubOk, SendOk, FireOk, Over
    <2>3. ASSUME NEW x \in Sub PROVE StoredOk(x)'
      <3>1. /\ event' = event /\ eose'[x] = eose[x]
            /\ sub'[x].storedwg = sub[x].storedwg /\ sub'[x].eosed = sub[x].eosed
        BY <1>3 DEF S!ReadCount, S!Read, S!ReaderGoto, SubTypes, Subscriptions, Callers, Unsubs
      <3> QED
        BY <3>1, StoredKept DEF SubsOk
    <2> QED
      BY <2>1, <2>2, <2>3 DEF SubsOk
  <1>4. CASE S!CountResult(s)
    <2>1. SubTypes'
      BY <1>4 DEF S!CountResult, S!ReaderGoto, S!CallerGoto, S!Begin, S!Goroutine, SubTypes, Subscriptions, Callers, Unsubs
    <2>2. ASSUME NEW x \in Sub PROVE (UnsubOk(x) /\ SendOk(x) /\ FireOk(x))'
      BY <1>4 DEF S!CountResult, S!ReaderGoto, S!CallerGoto, S!Begin, S!Goroutine, SubTypes, Subscriptions, Callers, Unsubs, SubsOk, UnsubOk, SendOk, FireOk, Over
    <2>3. ASSUME NEW x \in Sub PROVE StoredOk(x)'
      <3>1. /\ event' = event /\ eose'[x] = eose[x]
            /\ sub'[x].storedwg = sub[x].storedwg /\ sub'[x].eosed = sub[x].eosed
        BY <1>4 DEF S!CountResult, S!ReaderGoto, S!CallerGoto, S!Begin, S!Goroutine, SubTypes, Subscriptions, Callers, Unsubs
      <3> QED
        BY <3>1, StoredKept DEF SubsOk
    <2> QED
      BY <2>1, <2>2, <2>3 DEF SubsOk
  <1> QED
    BY <1>1, <1>2, <1>3, <1>4

\* One event of a subscription becomes c.
LEMMA StoringMoves ==
    ASSUME NEW evs \in [S!Index -> Sendings], NEW i \in S!Index, NEW c \in Sendings
    PROVE  /\ Storing(evs) \subseteq S!Index /\ IsFiniteSet(Storing(evs))
           /\ Cardinality(Storing(evs)) \in Nat
           /\ Cardinality(Storing([evs EXCEPT ![i] = c])) =
                Cardinality(Storing(evs)) + (IF Counted(c) THEN 1 ELSE 0)
                                          - (IF Counted(evs[i]) THEN 1 ELSE 0)
  <1> DEFINE new == [evs EXCEPT ![i] = c]
  <1>1. Storing(evs) \subseteq S!Index /\ IsFiniteSet(Storing(evs))
    <2>1. IsFiniteSet(S!Index)
      BY InstancesAssumption, FS_Interval DEF S!EventsAssumption, S!Index
    <2> QED
      BY <2>1, FS_Subset DEF Storing
  <1>2. Cardinality(Storing(evs)) \in Nat
    BY <1>1, FS_CardinalityType
  <1>3. \A j \in S!Index : new[j] = IF j = i THEN c ELSE evs[j]
    OBVIOUS
  <1> HIDE DEF new
  <1>4. CASE Counted(c) /\ ~Counted(evs[i])
    <2>1. Storing(new) = Storing(evs) \cup {i} /\ i \notin Storing(evs)
      BY <1>3, <1>4 DEF Storing
    <2>2. Cardinality(Storing(new)) = Cardinality(Storing(evs)) + 1
      BY <1>1, <2>1, FS_AddElement
    <2> QED
      BY <1>1, <1>2, <1>4, <2>2 DEF new
  <1>5. CASE ~Counted(c) /\ Counted(evs[i])
    <2>1. Storing(new) = Storing(evs) \ {i} /\ i \in Storing(evs)
      BY <1>3, <1>5 DEF Storing
    <2>2. Cardinality(Storing(new)) = Cardinality(Storing(evs)) - 1
      BY <1>1, <2>1, FS_RemoveElement
    <2> QED
      BY <1>1, <1>2, <1>5, <2>2 DEF new
  <1>6. CASE Counted(c) <=> Counted(evs[i])
    <2>1. Storing(new) = Storing(evs)
      BY <1>3, <1>6 DEF Storing
    <2> QED
      BY <1>1, <1>2, <1>6, <2>1 DEF new
  <1> QED
    BY <1>4, <1>5, <1>6

\* StoredOk when event i of x becomes c, and the WaitGroup follows.
LEMMA StoredMoved ==
    ASSUME SubTypes, NEW x \in Sub, StoredOk(x), NEW i \in S!Index, NEW c \in Sendings,
           event'[x] = [event[x] EXCEPT ![i] = c], eose'[x] = eose[x],
           sub'[x].eosed = sub[x].eosed,
           c.stored = c.added, c.pc # "none", sub[x].eosed /\ Counted(c) => Counted(event[x][i]),
           sub'[x].storedwg = sub[x].storedwg + (IF Counted(c) THEN 1 ELSE 0)
                                              - (IF Counted(event[x][i]) THEN 1 ELSE 0)
    PROVE  StoredOk(x)'
  <1>1. event[x] \in [S!Index -> Sendings]
    BY DEF SubTypes
  <1>2. sub'[x].storedwg = Cardinality(Storing(event'[x]))
    BY <1>1, StoringMoves DEF StoredOk
  <1>3. \A j \in S!Index : event'[x][j] = IF j = i THEN c ELSE event[x][j]
    BY <1>1
  <1>4. \A j \in S!Index :
            /\ event'[x][j].stored = event'[x][j].added
            /\ event'[x][j].stored => event'[x][j].pc # "none"
    BY <1>3 DEF StoredOk
  <1>5. eose'[x] = "signalled" => Storing(event'[x]) = {}
    BY <1>3 DEF StoredOk, Storing
  <1> QED
    BY <1>2, <1>4, <1>5 DEF StoredOk

\* The goroutine of an event ends, and leaves the mutex.
LEMMA EndedStep ==
    ASSUME SubTypes, SubsOk, NEW s \in Sub, NEW i \in S!Index, NEW l \in {"received", "dropped"},
           S!Ended(s, i, l), event[s][i].pc \in {"lock", "send"},
           \A j \in S!Index : event[s][j].pc = "send" => j = i,
           l = "dropped" => Over(s)
    PROVE  SubTypes' /\ SubsOk'
  <1> DEFINE c == [event[s][i] EXCEPT !.pc = l]
  <1>1. /\ event' = [event EXCEPT ![s] = [event[s] EXCEPT ![i] = c]]
        /\ sub' = [sub EXCEPT ![s].mu = S!Free,
                              ![s].storedwg = @ - (IF event[s][i].added THEN 1 ELSE 0)]
        /\ UNCHANGED <<reader, caller, unsubs, eose, lateFire>>
    BY DEF S!Ended
  <1>12. UNCHANGED <<reader, caller, unsubs, eose, lateFire>>
    BY <1>1
  <1>2. /\ c \in Sendings /\ c.pc = l
        /\ c.stored = event[s][i].stored /\ c.added = event[s][i].added
    <2>1. event[s][i] \in Sendings
      BY DEF SubTypes
    <2> QED
      BY <2>1 DEF Sendings
  <1> HIDE DEF c
  <1>3. SubTypes'
    <2>1. sub' \in [Sub -> Subscriptions]
      <3> DEFINE n == IF event[s][i].added THEN 1 ELSE 0
      <3>1. n \in Int
        OBVIOUS
      <3>2. sub' = [sub EXCEPT ![s].mu = S!Free, ![s].storedwg = @ - n]
        BY <1>1
      <3> HIDE DEF n
      <3> DEFINE w == [sub[s] EXCEPT !.mu = S!Free, !.storedwg = @ - n]
      <3>3. sub' = [sub EXCEPT ![s] = w]
        BY <3>2
      <3>4. w \in Subscriptions
        <4>1. sub[s] \in Subscriptions
          BY DEF SubTypes
        <4>2. sub[s].storedwg - n \in Int
          BY <3>1, <4>1 DEF Subscriptions
        <4> QED
          BY <4>1, <4>2 DEF Subscriptions, S!Free
      <3> HIDE DEF w
      <3> QED
        BY <3>3, <3>4 DEF SubTypes
    <2>2. event' \in [Sub -> [S!Index -> Sendings]]
      BY <1>1, <1>2 DEF SubTypes
    <2> QED
      BY <1>1, <2>1, <2>2 DEF SubTypes
  <1>4. \A x \in Sub : /\ sub'[x].live = sub[x].live /\ sub'[x].eosed = sub[x].eosed
                       /\ sub'[x].cancelled = sub[x].cancelled /\ sub'[x].closed = sub[x].closed
                       /\ x # s => sub'[x] = sub[x] /\ event'[x] = event[x]
    BY <1>1 DEF SubTypes, Subscriptions
  <1>5. event'[s] = [event[s] EXCEPT ![i] = c]
    BY <1>1 DEF SubTypes
  <1>6. \A j \in S!Index : event'[s][j] = IF j = i THEN c ELSE event[s][j]
    BY <1>5 DEF SubTypes
  <1>11. \A j \in S!Index : event'[s][j].pc # "send"
    <2>1. c.pc # "send"
      BY <1>2
    <2> QED
      BY <1>6, <2>1
  <1>7. ASSUME NEW x \in Sub PROVE UnsubOk(x)'
    BY <1>1, <1>4 DEF SubsOk, UnsubOk
  <1>8. ASSUME NEW x \in Sub PROVE SendOk(x)'
    <2>1. CASE x = s
      BY <1>11, <2>1 DEF SendOk
    <2>2. CASE x # s
      BY <1>4, <1>12, <2>2 DEF SendOk, SubsOk
    <2> QED
      BY <2>1, <2>2
  <1>9. ASSUME NEW x \in Sub PROVE FireOk(x)'
    <2>1. Over(x)' = Over(x)
      BY <1>1, <1>4 DEF Over
    <2>2. CASE x = s
      <3>1. \A j \in S!Index : /\ event'[s][j].pc # "none" => caller[s] \in {"subscribed", "left"}
                               /\ event'[s][j].pc = "dropped" => Over(s)
        BY <1>2, <1>6 DEF FireOk, SubsOk
      <3> QED
        BY <1>4, <1>12, <2>1, <2>2, <3>1 DEF FireOk, SubsOk
    <2>3. CASE x # s
      BY <1>4, <1>12, <2>1, <2>3 DEF FireOk, SubsOk
    <2> QED
      BY <2>2, <2>3
  <1>10. ASSUME NEW x \in Sub PROVE StoredOk(x)'
    <2>1. CASE x = s
      <3>1. sub'[s].storedwg = sub[s].storedwg - (IF event[s][i].added THEN 1 ELSE 0)
        BY <1>1 DEF SubTypes, Subscriptions
      <3>2. ~Counted(c) /\ (Counted(event[s][i]) <=> event[s][i].added)
        BY <1>2 DEF Counted
      <3>3. sub'[s].storedwg = sub[s].storedwg + (IF Counted(c) THEN 1 ELSE 0)
                                               - (IF Counted(event[s][i]) THEN 1 ELSE 0)
        BY <3>1, <3>2 DEF SubTypes, Subscriptions
      <3>4. c.stored = c.added /\ c.pc # "none" /\ StoredOk(s)
        BY <1>2 DEF SubsOk, StoredOk
      <3> QED
        BY <1>1, <1>2, <1>4, <1>5, <2>1, <3>2, <3>3, <3>4, StoredMoved
    <2>2. CASE x # s
      BY <1>1, <1>4, <2>2, StoredKept DEF SubsOk
    <2> QED
      BY <2>1, <2>2
  <1> QED
    BY <1>3, <1>7, <1>8, <1>9, <1>10 DEF SubsOk

\* The goroutines of the events.
LEMMA EventSteps ==
    ASSUME SubTypes, SubsOk, NEW s \in Sub, NEW i \in S!Index,
           \/ S!EventSkipped(s, i)
           \/ S!EventReceived(s, i)
           \/ S!EventGivesUp(s, i)
           \/ S!EventPanics(s, i)
    PROVE  SubTypes' /\ SubsOk' /\ (panicked' => panicked \/ lateFire' # {})
  <1>1. \A j \in S!Index : event[s][j].pc = "send" => sub[s].mu = j
    BY DEF SubsOk, SendOk
  <1>2. CASE S!EventSkipped(s, i)
    <2>1. \A j \in S!Index : event[s][j].pc # "send"
      BY <1>1, <1>2, InstancesAssumption
      DEF S!EventSkipped, S!Locked, S!Free, S!Index, S!EventsAssumption
    <2>2. Over(s)
      BY <1>2 DEF S!EventSkipped, S!Locked, SubsOk, FireOk
    <2> QED
      BY <1>2, <2>1, <2>2, EndedStep DEF S!EventSkipped, S!Locked
  <1>3. CASE S!EventReceived(s, i)
    BY <1>1, <1>3, EndedStep DEF S!EventReceived
  <1>4. CASE S!EventGivesUp(s, i)
    BY <1>1, <1>4, EndedStep DEF S!EventGivesUp, Over
  <1>5. CASE S!EventPanics(s, i)
    <2>1. event[s][i].pc = "send" /\ sub[s].closed /\ S!Ended(s, i, "dropped")
      BY <1>5 DEF S!EventPanics
    <2>2. Over(s)
      BY <2>1 DEF SubsOk, UnsubOk, Over
    <2>3. s \in lateFire
      BY <2>1 DEF SubsOk, SendOk
    <2>4. lateFire' = lateFire
      BY <2>1 DEF S!Ended
    <2> QED
      BY <1>1, <2>1, <2>2, <2>3, <2>4, EndedStep
  <1> QED
    BY <1>2, <1>3, <1>4, <1>5

\* The goroutine of an event takes the mutex, and finds the subscription live.
LEMMA EventLocksStep ==
    ASSUME SubTypes, SubsOk, NEW s \in Sub, NEW i \in S!Index, S!EventLocks(s, i)
    PROVE  SubTypes' /\ SubsOk'
  <1> DEFINE c == [event[s][i] EXCEPT !.pc = "send"]
  <1>1. /\ event' = [event EXCEPT ![s] = [event[s] EXCEPT ![i] = c]]
        /\ sub' = [sub EXCEPT ![s].mu = i]
        /\ UNCHANGED <<reader, caller, unsubs, eose, lateFire>>
        /\ event[s][i].pc = "lock" /\ sub[s].mu = 0 /\ sub[s].live
    BY DEF S!EventLocks, S!MayLock, S!Locked, S!Free
  <1>2. UNCHANGED <<reader, caller, unsubs, eose, lateFire>>
    BY <1>1
  <1>3. /\ c \in Sendings /\ c.pc = "send"
        /\ c.stored = event[s][i].stored /\ c.added = event[s][i].added
    <2>1. event[s][i] \in Sendings
      BY DEF SubTypes
    <2> QED
      BY <2>1 DEF Sendings
  <1> HIDE DEF c
  <1>4. i \in Nat /\ i # 0
    BY InstancesAssumption DEF S!Index, S!EventsAssumption
  <1>5. SubTypes'
    BY <1>1, <1>3, <1>4 DEF SubTypes, Subscriptions
  <1>6. \A x \in Sub : /\ sub'[x].live = sub[x].live /\ sub'[x].eosed = sub[x].eosed
                       /\ sub'[x].cancelled = sub[x].cancelled /\ sub'[x].closed = sub[x].closed
                       /\ sub'[x].storedwg = sub[x].storedwg
                       /\ x # s => sub'[x] = sub[x] /\ event'[x] = event[x]
    BY <1>1 DEF SubTypes, Subscriptions
  <1>7. sub'[s].mu = i
    BY <1>1 DEF SubTypes, Subscriptions
  <1>8. event'[s] = [event[s] EXCEPT ![i] = c]
    BY <1>1 DEF SubTypes
  <1>9. \A j \in S!Index : event'[s][j] = IF j = i THEN c ELSE event[s][j]
    BY <1>8 DEF SubTypes
  <1>10. ASSUME NEW x \in Sub PROVE UnsubOk(x)'
    BY <1>2, <1>6 DEF SubsOk, UnsubOk
  <1>11. ASSUME NEW x \in Sub PROVE SendOk(x)'
    <2>1. CASE x = s
      <3>1. \A j \in S!Index : event[s][j].pc # "send"
        <4>1. \A j \in S!Index : j # 0
          BY InstancesAssumption DEF S!Index, S!EventsAssumption
        <4> QED
          BY <1>1, <4>1 DEF SubsOk, SendOk
      <3>2. \A j \in S!Index : event'[s][j].pc = "send" => j = i
        BY <1>9, <3>1
      <3>3. sub[s].closed => s \in lateFire
        BY <1>1 DEF SubsOk, UnsubOk
      <3> QED
        BY <1>2, <1>6, <1>7, <2>1, <3>2, <3>3 DEF SendOk
    <2>2. CASE x # s
      BY <1>2, <1>6, <2>2 DEF SendOk, SubsOk
    <2> QED
      BY <2>1, <2>2
  <1>12. ASSUME NEW x \in Sub PROVE FireOk(x)'
    <2>1. Over(x)' = Over(x)
      BY <1>2, <1>6 DEF Over
    <2>2. CASE x = s
      <3>1. \A j \in S!Index : /\ event'[s][j].pc # "none" => caller[s] \in {"subscribed", "left"}
                               /\ event'[s][j].pc = "dropped" => Over(s)
        BY <1>1, <1>3, <1>9 DEF FireOk, SubsOk
      <3> QED
        BY <1>2, <1>6, <2>1, <2>2, <3>1 DEF FireOk, SubsOk
    <2>3. CASE x # s
      BY <1>2, <1>6, <2>1, <2>3 DEF FireOk, SubsOk
    <2> QED
      BY <2>2, <2>3
  <1>13. ASSUME NEW x \in Sub PROVE StoredOk(x)'
    <2>1. CASE x = s
      <3>1. Counted(c) <=> Counted(event[s][i])
        BY <1>1, <1>3 DEF Counted
      <3>2. sub'[s].storedwg = sub[s].storedwg + (IF Counted(c) THEN 1 ELSE 0)
                                               - (IF Counted(event[s][i]) THEN 1 ELSE 0)
        BY <1>6, <3>1 DEF SubTypes, Subscriptions
      <3>3. c.stored = c.added /\ c.pc # "none" /\ StoredOk(s)
        BY <1>3 DEF SubsOk, StoredOk
      <3> QED
        BY <1>2, <1>3, <1>6, <1>8, <2>1, <3>1, <3>2, <3>3, StoredMoved
    <2>2. CASE x # s
      BY <1>2, <1>6, <2>2, StoredKept DEF SubsOk
    <2> QED
      BY <2>1, <2>2
  <1> QED
    BY <1>5, <1>10, <1>11, <1>12, <1>13 DEF SubsOk

\* dispatchEvent starts the goroutine of an event.
LEMMA DispatchStep ==
    ASSUME SubTypes, SubsOk, S!DispatchEvent
    PROVE  SubTypes' /\ SubsOk'
  <1>1. PICK s \in reader.sub, i \in S!Index :
            /\ event[s][i].pc = "none"
            /\ event' = [event EXCEPT ![s][i] = [pc |-> "lock", stored |-> ~sub[s].eosed,
                                                 added |-> ~sub[s].eosed]]
            /\ sub' = [sub EXCEPT ![s].storedwg = @ + (IF sub[s].eosed THEN 0 ELSE 1)]
    BY DEF S!DispatchEvent
  <1>2. /\ reader.pc = "event" /\ reader' = [pc |-> "read", sub |-> {}]
        /\ UNCHANGED <<caller, unsubs, eose, lateFire>>
    BY DEF S!DispatchEvent, S!ReaderGoto
  <1>3. s \in Sub /\ sub[s] \in Subscriptions
    BY DEF SubTypes
  <1> DEFINE b == ~sub[s].eosed
             c == [pc |-> "lock", stored |-> b, added |-> b]
             n == IF sub[s].eosed THEN 0 ELSE 1
  <1>4. /\ event' = [event EXCEPT ![s] = [event[s] EXCEPT ![i] = c]]
        /\ sub' = [sub EXCEPT ![s].storedwg = @ + n]
    BY <1>1
  <1>5. /\ c \in Sendings /\ c.pc = "lock" /\ c.stored = c.added /\ c.added = ~sub[s].eosed
        /\ n \in Int /\ n = IF c.added THEN 1 ELSE 0
    <2>1. b \in BOOLEAN /\ n \in Int /\ n = IF b THEN 1 ELSE 0
      BY <1>3 DEF Subscriptions
    <2>2. b = ~sub[s].eosed
      OBVIOUS
    <2> HIDE DEF b, n
    <2>3. c \in Sendings /\ c.pc = "lock" /\ c.stored = b /\ c.added = b
      BY <2>1 DEF Sendings
    <2> HIDE DEF c
    <2> QED
      BY <2>1, <2>2, <2>3
  <1> HIDE DEF b, c, n
  <1>6. SubTypes'
    <2>1. event' \in [Sub -> [S!Index -> Sendings]]
      BY <1>3, <1>4, <1>5 DEF SubTypes
    <2>2. sub' \in [Sub -> Subscriptions]
      <3> DEFINE w == [sub[s] EXCEPT !.storedwg = @ + n]
      <3>1. w \in Subscriptions
        BY <1>3, <1>5 DEF Subscriptions
      <3>2. sub' = [sub EXCEPT ![s] = w]
        BY <1>4
      <3> HIDE DEF w
      <3> QED
        BY <3>1, <3>2 DEF SubTypes
    <2> QED
      BY <1>2, <2>1, <2>2 DEF SubTypes
  <1>7. \A x \in Sub : /\ sub'[x].live = sub[x].live /\ sub'[x].eosed = sub[x].eosed
                       /\ sub'[x].cancelled = sub[x].cancelled /\ sub'[x].closed = sub[x].closed
                       /\ sub'[x].mu = sub[x].mu
                       /\ x # s => sub'[x] = sub[x] /\ event'[x] = event[x]
    BY <1>3, <1>4 DEF SubTypes, Subscriptions
  <1>8. event'[s] = [event[s] EXCEPT ![i] = c] /\ sub'[s].storedwg = sub[s].storedwg + n
    BY <1>3, <1>4 DEF SubTypes, Subscriptions
  <1>9. \A j \in S!Index : event'[s][j] = IF j = i THEN c ELSE event[s][j]
    BY <1>3, <1>8 DEF SubTypes
  <1>10. ASSUME NEW x \in Sub PROVE UnsubOk(x)'
    BY <1>2, <1>7 DEF SubsOk, UnsubOk
  <1>11. ASSUME NEW x \in Sub PROVE SendOk(x)'
    <2>1. CASE x = s
      <3>1. \A j \in S!Index : event'[s][j].pc = "send" => event[s][j].pc = "send"
        BY <1>5, <1>9
      <3> QED
        BY <1>2, <1>7, <2>1, <3>1 DEF SendOk, SubsOk
    <2>2. CASE x # s
      BY <1>2, <1>7, <2>2 DEF SendOk, SubsOk
    <2> QED
      BY <2>1, <2>2
  <1>12. ASSUME NEW x \in Sub PROVE FireOk(x)'
    <2>1. Over(x)' = Over(x) /\ reader'.pc # "event"
      BY <1>2, <1>7 DEF Over
    <2>2. CASE x = s
      <3>1. caller[s] \in {"subscribed", "left"}
        BY <1>2, <1>3 DEF FireOk, SubsOk
      <3>2. \A j \in S!Index : event'[s][j].pc = "dropped" => Over(s)
        BY <1>3, <1>5, <1>9 DEF FireOk, SubsOk
      <3> QED
        BY <1>2, <1>7, <2>1, <2>2, <3>1, <3>2 DEF FireOk, SubsOk
    <2>3. CASE x # s
      BY <1>2, <1>7, <2>1, <2>3 DEF FireOk, SubsOk
    <2> QED
      BY <2>2, <2>3
  <1>13. ASSUME NEW x \in Sub PROVE StoredOk(x)'
    <2>1. CASE x = s
      <3>1. ~Counted(event[s][i]) /\ (Counted(c) <=> c.added)
        BY <1>1, <1>5 DEF Counted
      <3>2. sub'[s].storedwg = sub[s].storedwg + (IF Counted(c) THEN 1 ELSE 0)
                                               - (IF Counted(event[s][i]) THEN 1 ELSE 0)
        BY <1>3, <1>5, <1>8, <3>1 DEF Subscriptions
      <3>3. c.pc # "none" /\ StoredOk(s) /\ ~(sub[s].eosed /\ Counted(c))
        BY <1>3, <1>5, <3>1 DEF SubsOk
      <3> QED
        BY <1>2, <1>3, <1>5, <1>7, <1>8, <2>1, <3>2, <3>3, StoredMoved
    <2>2. CASE x # s
      BY <1>2, <1>7, <2>2, StoredKept DEF SubsOk
    <2> QED
      BY <2>1, <2>2
  <1> QED
    BY <1>6, <1>10, <1>11, <1>12, <1>13 DEF SubsOk

\* EOSE arrives, and is signalled when nobody stores.
LEMMA EoseSteps ==
    ASSUME SubTypes, SubsOk, NEW s \in Sub,
           S!ReadEose(s) \/ S!EoseSignalled(s)
    PROVE  SubTypes' /\ SubsOk'
  <1>1. CASE S!EoseSignalled(s)
    <2>1. /\ eose[s] = "wait" /\ sub[s].storedwg = 0 /\ eose' = [eose EXCEPT ![s] = "signalled"]
          /\ UNCHANGED <<reader, sub, caller, unsubs, event, lateFire>>
      BY <1>1 DEF S!EoseSignalled
    <2>2. SubTypes'
      BY <2>1 DEF SubTypes
    <2>3. Storing(event[s]) = {}
      <3>1. event[s] \in [S!Index -> Sendings] /\ IsFiniteSet(S!Index)
        BY InstancesAssumption, FS_Interval DEF SubTypes, S!EventsAssumption, S!Index
      <3>2. IsFiniteSet(Storing(event[s]))
        BY <3>1, FS_Subset DEF Storing
      <3> QED
        BY <2>1, <3>2, FS_EmptySet DEF SubsOk, StoredOk
    <2>4. ASSUME NEW x \in Sub PROVE (UnsubOk(x) /\ SendOk(x) /\ FireOk(x))'
      BY <2>1 DEF SubsOk, UnsubOk, SendOk, FireOk, Over
    <2>5. ASSUME NEW x \in Sub PROVE StoredOk(x)'
      <3>1. eose'[x] = IF x = s THEN "signalled" ELSE eose[x]
        BY <2>1 DEF SubTypes
      <3> QED
        BY <2>1, <2>3, <3>1 DEF SubsOk, StoredOk
    <2> QED
      BY <2>2, <2>4, <2>5 DEF SubsOk
  <1>2. CASE S!ReadEose(s)
    <2>1. UNCHANGED <<reader, caller, unsubs, event, lateFire>>
      BY <1>2 DEF S!ReadEose
    <2>2. CASE s \in known /\ ~sub[s].eosed
      <3>1. sub' = [sub EXCEPT ![s].eosed = TRUE] /\ eose' = [eose EXCEPT ![s] = "wait"]
        BY <1>2, <2>2 DEF S!ReadEose
      <3>2. PICK w : w = [sub[s] EXCEPT !.eosed = TRUE]
        OBVIOUS
      <3>3. /\ w \in Subscriptions
            /\ w.live = sub[s].live /\ w.mu = sub[s].mu /\ w.cancelled = sub[s].cancelled
            /\ w.closed = sub[s].closed /\ w.storedwg = sub[s].storedwg /\ w.eosed
        <4>1. sub[s] \in Subscriptions
          BY DEF SubTypes
        <4> QED
          BY ONLY <4>1, <3>2 DEF Subscriptions
      <3>4. /\ sub' \in [Sub -> Subscriptions] /\ sub'[s] = w
            /\ \A x \in Sub \ {s} : sub'[x] = sub[x]
        BY <3>1, <3>2, <3>3, SubOverwritten DEF SubTypes
      <3>6. \A x \in Sub : eose'[x] = IF x = s THEN "wait" ELSE eose[x]
        BY <3>1 DEF SubTypes
      <3>7. SubTypes'
        <4>1. eose' \in [Sub -> {"none", "wait", "signalled"}]
          BY <3>1 DEF SubTypes
        <4> QED
          BY <2>1, <3>4, <4>1 DEF SubTypes
      <3>8. \A x \in Sub : (UnsubOk(x) /\ SendOk(x) /\ FireOk(x))'
        <4>1. UnsubOk(s) /\ SendOk(s) /\ FireOk(s)
          BY DEF SubsOk
        <4>2. UnsubOk(s)'
          BY <2>1, <3>3, <3>4, <4>1 DEF UnsubOk
        <4>3. SendOk(s)'
          BY <2>1, <3>3, <3>4, <4>1 DEF SendOk
        <4>4. FireOk(s)'
          BY <2>1, <3>3, <3>4, <4>1 DEF FireOk, Over
        <4> QED
          BY <2>1, <3>4, <4>2, <4>3, <4>4, OneSub
      <3>9. ASSUME NEW x \in Sub PROVE StoredOk(x)'
        <4>1. event' = event /\ StoredOk(x)
          BY <2>1 DEF SubsOk
        <4>2. CASE x = s
          BY <3>3, <3>4, <3>6, <4>1, <4>2 DEF StoredOk
        <4>3. CASE x # s
          BY <3>4, <3>6, <4>1, <4>3 DEF StoredOk
        <4> QED
          BY <4>2, <4>3
      <3> QED
        BY <3>7, <3>8, <3>9 DEF SubsOk
    <2>3. CASE ~(s \in known /\ ~sub[s].eosed)
      <3>1. sub' = sub /\ eose' = eose
        BY <1>2, <2>3 DEF S!ReadEose
      <3>2. SubTypes'
        BY <2>1, <3>1 DEF SubTypes
      <3>3. ASSUME NEW x \in Sub
            PROVE  (UnsubOk(x) /\ SendOk(x) /\ FireOk(x))' /\ StoredOk(x)'
        BY <2>1, <3>1, OkKept, StoredKept DEF SubsOk
      <3> QED
        BY <3>2, <3>3 DEF SubsOk
    <2> QED
      BY <2>2, <2>3
  <1> QED
    BY <1>1, <1>2

\* Only a send on a closed channel panics.
LEMMA PanicSteps ==
    ASSUME S!Next, \A s \in Sub, i \in S!Index : ~S!EventPanics(s, i)
    PROVE  panicked' = panicked
  <1>1. ASSUME S!LinkEnds \/ S!Sweep \/ S!DispatchEvent
        PROVE  panicked' = panicked
    BY <1>1 DEF S!LinkEnds, S!Sweep, S!DispatchEvent
  <1>2. ASSUME NEW s \in Sub,
               S!PrepareSubscription(s) \/ S!CallerStep(s) \/ S!ContextDone(s) \/ S!CallerUnsubs(s)
        PROVE  panicked' = panicked
    BY <1>2 DEF S!PrepareSubscription, S!CallerStep, S!CheckConnection, S!FireLive,
                S!FireWrite, S!ContextDone, S!CallerUnsubs
  <1>3. ASSUME NEW s \in Sub, S!UnsubStep(s) \/ S!ClosedReason(s) \/ S!EoseSignalled(s)
        PROVE  panicked' = panicked
    BY <1>3 DEF S!UnsubStep, S!Start, S!CloseEvents, S!UnsubCancel, S!UnsubSwap, S!UnsubDelete,
                S!ClosedReason, S!EoseSignalled
  <1>4. ASSUME NEW s \in Sub, S!ReaderStep(s) PROVE panicked' = panicked
    BY <1>4 DEF S!ReaderStep, S!ReadEvent, S!ReadEose, S!ReadClosed, S!ReadCount, S!CountResult
  <1>5. ASSUME NEW s \in Sub, NEW i \in S!Index,
               S!EventSkipped(s, i) \/ S!EventLocks(s, i) \/ S!EventGivesUp(s, i)
               \/ S!EventReceived(s, i)
        PROVE  panicked' = panicked
    BY <1>5 DEF S!EventSkipped, S!EventLocks, S!EventGivesUp, S!EventReceived
  <1>6. ASSUME NEW s \in Sub, S!EventStep(s) PROVE panicked' = panicked
    BY <1>5, <1>6 DEF S!EventStep
  <1> QED
    BY <1>1, <1>2, <1>3, <1>4, <1>5, <1>6 DEF S!Next

\* Every step of the subscriptions keeps the invariant.
LEMMA SubStep ==
    ASSUME SubTypes, SubsOk, S!Next
    PROVE  SubTypes' /\ SubsOk' /\ (panicked' => lateFire' # {})
  <1>1. ~panicked
    BY DEF S!Next
  <1>2. panicked' => lateFire' # {}
    BY <1>1, EventSteps, PanicSteps
  <1>3. CASE S!LinkEnds \/ S!Sweep \/ S!DispatchEvent
    BY <1>2, <1>3, LinkSteps, DispatchStep
  <1>4. ASSUME NEW s \in Sub,
               \/ S!PrepareSubscription(s) \/ S!CallerStep(s) \/ S!ContextDone(s)
               \/ S!CallerUnsubs(s) \/ S!UnsubStep(s) \/ S!ReaderStep(s) \/ S!ClosedReason(s)
               \/ S!EoseSignalled(s)
        PROVE  SubTypes' /\ SubsOk'
    <2>1. "start" \in S!Goroutine
      BY DEF S!Goroutine
    <2> QED
      BY <1>4, <2>1, CallerSteps, UnsubSteps, ReaderSteps, EoseSteps
      DEF S!CallerStep, S!UnsubStep, S!ReaderStep
  <1>5. ASSUME NEW s \in Sub, NEW i \in S!Index, S!EventReceived(s, i)
        PROVE  SubTypes' /\ SubsOk'
    BY <1>5, EventSteps
  <1>6. ASSUME NEW s \in Sub, S!EventStep(s)
        PROVE  SubTypes' /\ SubsOk'
    BY <1>6, EventSteps, EventLocksStep DEF S!EventStep
  <1> QED
    BY <1>2, <1>3, <1>4, <1>5, <1>6 DEF S!Next

\* The invariant holds of every state, whichever part runs.
LEMMA SubAlways == Spec => []SubInv
  <1>1. Init => SubInv
    <2> SUFFICES ASSUME S!Connected, part = "subscription" => ~panicked PROVE SubInv
      BY DEF Init, S!Init
    <2>1. SubTypes
      BY InstancesAssumption
      DEF S!Connected, SubTypes, Subscriptions, Callers, Unsubs, Sendings, S!Goroutine, S!Index,
          S!Free
    <2>2. ASSUME NEW x \in Sub PROVE UnsubOk(x) /\ SendOk(x) /\ FireOk(x)
      BY DEF S!Connected, UnsubOk, SendOk, FireOk, Over, S!Goroutine
    <2>3. ASSUME NEW x \in Sub PROVE StoredOk(x)
      <3>1. Storing(event[x]) = {}
        BY DEF S!Connected, Storing, Counted
      <3> QED
        BY <3>1, FS_EmptySet DEF S!Connected, StoredOk
    <2> QED
      BY <2>1, <2>2, <2>3 DEF SubInv, SubsOk, Panics
  <1>2. SubInv /\ [Next]_vars => SubInv'
    <2> SUFFICES ASSUME SubInv, [Next]_vars PROVE SubInv'
      OBVIOUS
    <2>1. CASE part = "subscription" /\ S!Next
      BY <2>1, SubStep DEF SubInv, Panics
    <2>2. CASE UNCHANGED <<part, subVars>>
      <3>1. UNCHANGED <<part, reader, sub, caller, unsubs, event, eose, panicked, lateFire>>
        BY <2>2 DEF subVars
      <3> QED
        BY <3>1 DEF SubInv, SubTypes, SubsOk, UnsubOk, SendOk, FireOk, Over, StoredOk, Panics
    <2> QED
      BY <2>1, <2>2 DEF Next, vars
  <1> QED
    BY <1>1, <1>2, PTL DEF Spec

\* When EndOfStoredEvents fires, the caller has received every event that the
\* relay sent before EOSE, unless the subscription is over (subscription.go:96-127):
\* the WaitGroup counts the stored events that are still on their way.
THEOREM EoseAlwaysAfterStored == Spec => []EoseAfterStored
  <1>1. SubInv => EoseAfterStored
    <2> SUFFICES ASSUME SubInv, NEW x \in Sub, eose[x] = "signalled",
                        NEW i \in S!Index, event[x][i].stored
                 PROVE  event[x][i].pc = "received" \/ Over(x)
      BY DEF EoseAfterStored, S!EoseAfterStored, Over
    <2>1. event[x][i].pc \in {"none", "lock", "send", "received", "dropped"}
      BY DEF SubInv, SubTypes, Sendings
    <2>2. event[x][i].pc # "none"
      BY DEF SubInv, SubsOk, StoredOk
    <2>3. event[x][i].pc \notin {"lock", "send"}
      BY DEF SubInv, SubsOk, StoredOk, Storing, Counted
    <2>4. event[x][i].pc = "dropped" => Over(x)
      BY DEF SubInv, SubsOk, FireOk
    <2> QED
      BY <2>1, <2>2, <2>3, <2>4
  <1> QED
    BY <1>1, SubAlways, PTL

\* An event is sent on a closed channel only if the subscription was fired after
\* its context had been cancelled (subscription.go:81-118): the mutex and live
\* guard the channel otherwise.
THEOREM OnlyLateFireAlwaysPanics == Spec => []OnlyLateFirePanics
  <1>1. SubInv => OnlyLateFirePanics
    BY DEF SubInv, Panics, OnlyLateFirePanics, S!OnlyLateFirePanics
  <1> QED
    BY <1>1, SubAlways, PTL

=============================================================================
