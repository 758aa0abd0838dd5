---------------------------- MODULE BatchProofs ----------------------------
(***************************************************************************)
(* Proofs about the batch manager, for any tables, any number of timers    *)
(* and callbacks, and any bounds.                                          *)
(***************************************************************************)
EXTENDS BatchManager, SequenceTheorems, TLAPS

Callbacks == [pc : {"free", "armed", "fired", "plan", "write", "status"},
              todo : SUBSET (Tables \X Copies), text : Seq(Tables \X Copies),
              got : {"none", "old", "latest"}]

\* A spec's version is bounded by the number of edits; a callback that writes the
\* migration or the statuses has a table in it.
Typed ==
    /\ TypeOK
    /\ \A t \in Tables : tbl[t].spec <= edits + 1
    /\ \A i \in Timers : proc[i].pc \in {"write", "status"} => proc[i].text # <<>>

LEMMA CallbackTypes ==
    /\ Free \in Callbacks /\ Armed \in Callbacks
    /\ Free.pc = "free" /\ Armed.pc = "armed"
    /\ NotPending \notin Copies
    /\ MaxVersion \in Nat
  <1>1. MaxVersion \in Nat
    BY BatchAssumption DEF MaxVersion
  <1>2. NotPending \notin Copies
    BY <1>1 DEF NotPending, Copies, Versions
  <1>3. <<>> \in Seq(Tables \X Copies) /\ {} \in SUBSET (Tables \X Copies)
    OBVIOUS
  <1>4. Free \in Callbacks /\ Free.pc = "free"
    BY <1>3 DEF Free, Callbacks
  <1>5. Armed \in Callbacks /\ Armed.pc = "armed"
    BY <1>4 DEF Armed, Callbacks
  <1> QED
    BY <1>1, <1>2, <1>4, <1>5

\* What a batch's name says of the tables planned.
LEMMA BatchNames ==
    ASSUME NEW text \in Seq(Tables \X Copies)
    PROVE  /\ BatchSHA(text) \in Seq(Tables \X Versions)
           /\ DOMAIN BatchSHA(text) = DOMAIN text
           /\ \A k \in DOMAIN text : BatchSHA(text)[k] = <<text[k][1], text[k][2].spec>>
  <1>1. \A k \in DOMAIN text : text[k] \in Tables \X Copies
    OBVIOUS
  <1>2. \A k \in DOMAIN text : <<text[k][1], text[k][2].spec>> \in Tables \X Versions
    BY <1>1 DEF Copies
  <1>3. DOMAIN text = 1..Len(text) /\ Len(text) \in Nat
    OBVIOUS
  <1> QED
    BY <1>2, <1>3 DEF BatchSHA

\* Taking the first of several tables.
LEMMA TailFacts ==
    ASSUME NEW text \in Seq(Tables \X Copies), text # <<>>
    PROVE  /\ Head(text) = text[1] /\ 1 \in DOMAIN text /\ Head(text) \in Tables \X Copies
           /\ Tail(text) \in Seq(Tables \X Copies)
           /\ Len(text) # 1 => Tail(text) # <<>>
           /\ \A k \in DOMAIN Tail(text) : k + 1 \in DOMAIN text /\ Tail(text)[k] = text[k + 1]
  <1>1. Len(text) \in Nat /\ Len(text) # 0 /\ DOMAIN text = 1..Len(text)
    BY EmptySeq
  <1>2. Tail(text) \in Seq(Tables \X Copies) /\ Len(Tail(text)) = Len(text) - 1
    BY HeadTailProperties
  <1>3. \A k \in 1..Len(Tail(text)) : Tail(text)[k] = text[k + 1]
    BY HeadTailProperties
  <1>4. Head(text) = text[1] /\ 1 \in DOMAIN text
    BY <1>1
  <1>5. DOMAIN Tail(text) = 1..(Len(text) - 1)
    BY <1>2
  <1> QED
    <2>1. Len(text) # 1 => Tail(text) # <<>>
      <3> DEFINE rest == Tail(text)
      <3>1. rest \in Seq(Tables \X Copies) /\ Len(rest) = Len(text) - 1
        BY <1>2
      <3>2. rest = <<>> => Len(rest) = 0
        BY EmptySeq
      <3> HIDE DEF rest
      <3>3. Len(text) # 1 => rest # <<>>
        BY <1>1, <3>1, <3>2
      <3> QED
        BY <3>3 DEF rest
    <2>2. \A k \in DOMAIN Tail(text) : k + 1 \in DOMAIN text /\ Tail(text)[k] = text[k + 1]
      BY <1>1, <1>2, <1>3, <1>5
    <2>3. Head(text) \in Tables \X Copies
      BY HeadTailProperties
    <2> QED
      BY <1>2, <1>4, <2>1, <2>2, <2>3

LEMMA StoppedTypes ==
    ASSUME TypeOK
    PROVE  /\ Stopped \in [Timers -> Callbacks]
           /\ \A i \in Timers : Stopped[i] = proc[i] \/ Stopped[i] = Free
  BY CallbackTypes DEF TypeOK, Stopped, Callbacks

\* A status is recorded only onto the copy it was made from.
LEMMA RecordedTypes ==
    ASSUME Typed, NEW t \in Tables, NEW c \in Copies, NEW a
    PROVE  /\ Recorded(t, c, a) \in [Tables -> Copies]
           /\ \A u \in Tables : Recorded(t, c, a)[u].spec = tbl[u].spec
           /\ \A u \in Tables :
                 Recorded(t, c, a)[u].sha = tbl[u].sha \/ (u = t /\ Recorded(t, c, a)[u].sha = c.spec)
  <1>1. tbl \in [Tables -> Copies]
    BY DEF Typed, TypeOK
  <1>2. c.spec \in 0..MaxVersion
    BY CallbackTypes DEF Copies, Versions
  <1>3. [tbl[t] EXCEPT !.sha = c.spec] \in Copies
    BY <1>1, <1>2 DEF Copies
  <1>4. CASE ~(a = "ok" /\ tbl[t] = c)
    BY <1>1, <1>4 DEF Recorded
  <1>5. CASE a = "ok" /\ tbl[t] = c
    <2>1. Recorded(t, c, a) = [tbl EXCEPT ![t] = [tbl[t] EXCEPT !.sha = c.spec]]
      BY <1>5 DEF Recorded
    <2>2. /\ [tbl[t] EXCEPT !.sha = c.spec].spec = tbl[t].spec
          /\ [tbl[t] EXCEPT !.sha = c.spec].sha = c.spec
      BY <1>1 DEF Copies
    <2> QED
      BY <1>1, <1>3, <2>1, <2>2
  <1> QED
    BY <1>4, <1>5

\* A write of a migration changes nothing of a callback but what it has read.
LEMMA OutdatedTypes ==
    ASSUME TypeOK, NEW n
    PROVE  /\ Outdated(n) \in [Timers -> Callbacks]
           /\ \A i \in Timers :
                 /\ Outdated(n)[i].pc = proc[i].pc /\ Outdated(n)[i].todo = proc[i].todo
                 /\ Outdated(n)[i].text = proc[i].text
                 /\ Outdated(n)[i].got # "none" => proc[i].got # "none"
  <1>1. proc \in [Timers -> Callbacks]
    BY DEF TypeOK, Callbacks
  <1> SUFFICES ASSUME NEW i \in Timers
               PROVE  /\ Outdated(n)[i] \in Callbacks
                      /\ Outdated(n)[i].pc = proc[i].pc /\ Outdated(n)[i].todo = proc[i].todo
                      /\ Outdated(n)[i].text = proc[i].text
                      /\ Outdated(n)[i].got # "none" => proc[i].got # "none"
    BY DEF Outdated
  <1> DEFINE old == [proc[i] EXCEPT !.got = "old"]
  <1>2. /\ old \in Callbacks /\ old.pc = proc[i].pc /\ old.todo = proc[i].todo /\ old.text = proc[i].text
    BY <1>1 DEF Callbacks
  <1>3. Outdated(n)[i] = proc[i] \/ (Outdated(n)[i] = old /\ proc[i].got = "latest")
    BY DEF Outdated
  <1> HIDE DEF old
  <1> QED
    BY <1>1, <1>2, <1>3

LEMMA GotTypes ==
    ASSUME NEW n
    PROVE  Got(n) \in {"none", "old", "latest"} /\ (Got(n) # "none" => n \in migs)
  BY DEF Got

LEMMA InitTyped == Init => Typed
  <1> SUFFICES ASSUME Init PROVE Typed
    OBVIOUS
  <1>1. [spec |-> 1, sha |-> 0] \in Copies
    BY BatchAssumption DEF Copies, Versions, MaxVersion
  <1>2. proc \in [Timers -> Callbacks] /\ \A i \in Timers : proc[i].pc = "free"
    BY CallbackTypes DEF Init
  <1>3. edits \in 0..MaxEdits /\ resyncs \in 0..MaxResyncs
        /\ restarts \in 0..MaxRestarts /\ errors \in 0..MaxErrors
    BY BatchAssumption DEF Init
  <1>4. deployed \in [Tables -> 0..MaxVersion]
    BY CallbackTypes DEF Init
  <1>5. TypeOK
    BY <1>1, <1>2, <1>3, <1>4 DEF Init, TypeOK, Callbacks
  <1> QED
    BY <1>2, <1>5 DEF Init, Typed

\* Steps that leave the bounds, the history and the server alone.
LEMMA QueueTyped ==
    ASSUME Typed, NEW t \in Tables, SkipTable(t) \/ QueueTable(t)
    PROVE  Typed'
  <1>1. CASE SkipTable(t)
    BY <1>1 DEF Typed, TypeOK, SkipTable, server, cache, bounds
  <1>2. CASE QueueTable(t)
    <2>1. PICK i \in Timers : Stopped[i].pc = "free" /\ proc' = [Stopped EXCEPT ![i] = Armed] /\ timer' = i
      BY <1>2 DEF QueueTable
    <2>2. proc' \in [Timers -> Callbacks] /\ \A j \in Timers : proc'[j].pc \in {"write", "status"} => proc'[j].text # <<>>
      BY <2>1, StoppedTypes, CallbackTypes DEF Typed
    <2>3. pending' \in [Tables -> Copies \cup {NotPending}] /\ queue' \in SUBSET Tables
      BY <1>2 DEF Typed, TypeOK, QueueTable
    <2> QED
      BY <1>2, <2>1, <2>2, <2>3 DEF Typed, TypeOK, Callbacks, QueueTable, server, cache, bounds
  <1> QED
    BY <1>1, <1>2

\* Steps of timer or callback i that change nothing but its own state.
LEMMA OwnStepTyped ==
    ASSUME Typed, NEW i \in Timers, NEW q \in Callbacks,
           q.pc \in {"write", "status"} => q.text # <<>>,
           proc' = [proc EXCEPT ![i] = q],
           UNCHANGED <<server, cache, queue, pending, timer, inSync, bounds>>
    PROVE  Typed'
  <1>1. proc' \in [Timers -> Callbacks] /\ \A j \in Timers : proc'[j].pc \in {"write", "status"} => proc'[j].text # <<>>
    BY DEF Typed, TypeOK, Callbacks
  <1> QED
    BY <1>1 DEF Typed, TypeOK, Callbacks, server, cache, bounds

LEMMA CallbackTyped ==
    ASSUME Typed, NEW i \in Timers, Fire(i) \/ Callback(i) \/ Failure(i)
    PROVE  Typed'
  <1> DEFINE p == proc[i]
  <1>1. p \in Callbacks /\ proc \in [Timers -> Callbacks]
    BY DEF Typed, TypeOK, Callbacks
  <1>2. CASE Fire(i)
    <2>1. [p EXCEPT !.pc = "fired"] \in Callbacks /\ [p EXCEPT !.pc = "fired"].pc = "fired"
      BY <1>1 DEF Callbacks
    <2> QED
      BY <1>2, <2>1, OwnStepTyped DEF Fire
  <1>3. CASE processBatch(i)
    <2> DEFINE taken == {<<t, pending[t]>> : t \in Pending}
               q == IF Pending = {} THEN Free ELSE [Free EXCEPT !.pc = "plan", !.todo = taken]
    <2>1. taken \subseteq Tables \X Copies
      BY DEF Typed, TypeOK, Pending
    <2>2. q \in Callbacks /\ q.pc \notin {"write", "status"}
      BY <2>1, CallbackTypes DEF Callbacks, Free
    <2>3. proc' = [proc EXCEPT ![i] = q]
      BY <1>3 DEF processBatch
    <2>4. proc' \in [Timers -> Callbacks] /\ \A j \in Timers : proc'[j].pc \in {"write", "status"} => proc'[j].text # <<>>
      BY <1>1, <2>2, <2>3 DEF Typed
    <2> QED
      BY <1>3, <2>4 DEF Typed, TypeOK, Callbacks, processBatch, server, cache, bounds
  <1>4. ASSUME NEW x \in p.todo, PlanInSync(i, x[1], x[2]) PROVE Typed'
    <2>1. x[1] \in Tables /\ x[2] \in Copies
      BY <1>1 DEF Callbacks
    <2> DEFINE q == [p EXCEPT !.todo = @ \ {<<x[1], x[2]>>}]
    <2>2. q \in Callbacks /\ q.pc = "plan"
      BY <1>1, <1>4 DEF Callbacks, PlanInSync
    <2>3. proc' = [proc EXCEPT ![i] = q]
      BY <1>1, <1>4 DEF PlanInSync
    <2>4. proc' \in [Timers -> Callbacks] /\ \A j \in Timers : proc'[j].pc \in {"write", "status"} => proc'[j].text # <<>>
      BY <1>1, <2>2, <2>3 DEF Typed
    <2>5. tbl' \in [Tables -> Copies] /\ \A t \in Tables : tbl'[t].spec = tbl[t].spec
      BY <1>4, <2>1, RecordedTypes DEF PlanInSync
    <2>6. inSync' \in SUBSET (Tables \X Versions)
      BY <1>4, <2>1 DEF PlanInSync, Typed, TypeOK, Copies
    <2> QED
      BY <1>4, <2>4, <2>5, <2>6 DEF Typed, TypeOK, Callbacks, PlanInSync, cache, bounds
  <1>5. ASSUME NEW x \in p.todo, PlanStatements(i, x[1], x[2]) PROVE Typed'
    <2>1. x[1] \in Tables /\ x[2] \in Copies
      BY <1>1 DEF Callbacks
    <2> DEFINE q == [p EXCEPT !.todo = @ \ {<<x[1], x[2]>>}, !.text = Append(@, <<x[1], x[2]>>)]
    <2>2. Append(p.text, <<x[1], x[2]>>) \in Seq(Tables \X Copies)
      BY <1>1, <2>1 DEF Callbacks
    <2>3. q \in Callbacks /\ q.pc = "plan"
      BY <1>1, <1>5, <2>2 DEF Callbacks, PlanStatements
    <2>4. proc' = [proc EXCEPT ![i] = q]
      BY <1>1, <1>5 DEF PlanStatements
    <2> QED
      BY <1>5, <2>3, <2>4, OwnStepTyped DEF PlanStatements
  <1>6. CASE EndEmpty(i)
    BY <1>6, CallbackTypes, OwnStepTyped DEF EndEmpty
  <1>7. CASE WriteBatch(i)
    <2> DEFINE q == [p EXCEPT !.pc = "status", !.got = "none"]
               n == BatchSHA(p.text)
    <2>1. q \in Callbacks /\ q.text # <<>>
      BY <1>1, <1>7 DEF Callbacks, WriteBatch, Typed
    <2>2. proc' = [Outdated(n) EXCEPT ![i] = q]
      BY <1>7 DEF WriteBatch
    <2>3. proc' \in [Timers -> Callbacks] /\ \A j \in Timers : proc'[j].pc \in {"write", "status"} => proc'[j].text # <<>>
      <3>1. Outdated(n) \in [Timers -> Callbacks]
            /\ \A j \in Timers : Outdated(n)[j].pc = proc[j].pc /\ Outdated(n)[j].text = proc[j].text
        BY OutdatedTypes DEF Typed
      <3> HIDE DEF q, n
      <3> QED
        BY <2>1, <2>2, <3>1 DEF Typed
    <2>4. n \in Seq(Tables \X Versions)
      BY <1>1, BatchNames DEF Callbacks
    <2>5. /\ migs' = migs \cup {n} /\ applied' = applied \ {n}
          /\ stale' \subseteq stale \cup {n} /\ unseen' \subseteq unseen \cup {n}
      BY <1>7 DEF WriteBatch
    <2>6. /\ migs' \in SUBSET Seq(Tables \X Versions)
          /\ applied' \in SUBSET migs' /\ unseen' \in SUBSET migs' /\ stale' \in SUBSET migs'
      BY <2>4, <2>5 DEF Typed, TypeOK
    <2> QED
      BY <1>7, <2>3, <2>6 DEF Typed, TypeOK, Callbacks, WriteBatch, bounds
  <1>8. CASE WriteRefused(i)
    BY <1>8, CallbackTypes, OwnStepTyped DEF WriteRefused, Abandon, bounds
  <1>9. CASE RecordStatus(i)
    <2> DEFINE first == Head(p.text)
               q == IF Len(p.text) = 1 THEN Free ELSE [p EXCEPT !.text = Tail(p.text)]
    <2>1. p.text \in Seq(Tables \X Copies) /\ p.text # <<>>
      BY <1>1, <1>9 DEF Callbacks, Typed, RecordStatus
    <2>2. first \in Tables \X Copies /\ Tail(p.text) \in Seq(Tables \X Copies)
          /\ (Len(p.text) # 1 => Tail(p.text) # <<>>)
      BY <2>1, TailFacts
    <2>3. q \in Callbacks /\ (q.pc \in {"write", "status"} => q.text # <<>>)
      BY <1>1, <2>2, CallbackTypes DEF Callbacks
    <2>4. proc' = [proc EXCEPT ![i] = q]
      BY <1>1, <1>9 DEF RecordStatus
    <2>5. proc' \in [Timers -> Callbacks] /\ \A j \in Timers : proc'[j].pc \in {"write", "status"} => proc'[j].text # <<>>
      BY <1>1, <2>3, <2>4 DEF Typed
    <2>6. tbl' \in [Tables -> Copies] /\ \A t \in Tables : tbl'[t].spec = tbl[t].spec
      <3>1. PICK t \in Tables, c \in Copies : first = <<t, c>>
        BY <2>2
      <3>2. PICK a \in StatusAnswers : tbl' = Recorded(t, c, a)
        BY <1>9, <3>1 DEF RecordStatus
      <3> QED
        BY <3>2, RecordedTypes
    <2> QED
      BY <1>9, <2>5, <2>6 DEF Typed, TypeOK, Callbacks, RecordStatus, cache, bounds
  <1>10. CASE BatchError(i)
    <2>1. proc' \in [Timers -> Callbacks] /\ \A j \in Timers : proc'[j].pc \in {"write", "status"} => proc'[j].text # <<>>
      BY <1>1, <1>10, CallbackTypes DEF Typed, BatchError, Abandon
    <2>2. errors' \in 0..MaxErrors
      BY <1>10, BatchAssumption DEF Typed, TypeOK, BatchError
    <2> QED
      BY <1>10, <2>1, <2>2 DEF Typed, TypeOK, Callbacks, BatchError, Abandon, server, cache
  <1>11. ASSUME NEW x \in p.todo, PlanError(i, x[1], x[2]) PROVE Typed'
    <2> DEFINE q == [p EXCEPT !.todo = @ \ {<<x[1], x[2]>>}]
    <2>1. q \in Callbacks /\ q.pc = "plan"
      BY <1>1, <1>11 DEF Callbacks, PlanError
    <2>2. proc' = [proc EXCEPT ![i] = q]
      BY <1>1, <1>11 DEF PlanError
    <2>3. proc' \in [Timers -> Callbacks] /\ \A j \in Timers : proc'[j].pc \in {"write", "status"} => proc'[j].text # <<>>
      BY <1>1, <2>1, <2>2 DEF Typed
    <2>4. errors' \in 0..MaxErrors
      BY <1>11, BatchAssumption DEF Typed, TypeOK, PlanError
    <2> QED
      BY <1>11, <2>3, <2>4 DEF Typed, TypeOK, Callbacks, PlanError, server, cache
  <1>12. CASE GetMigration(i)
    <2> DEFINE q == [p EXCEPT !.pc = "write", !.got = Got(BatchSHA(p.text))]
    <2>1. Got(BatchSHA(p.text)) \in {"none", "old", "latest"}
      BY GotTypes
    <2>2. q \in Callbacks /\ q.text # <<>> /\ proc' = [proc EXCEPT ![i] = q]
      BY <1>1, <1>12, <2>1 DEF Callbacks, GetMigration
    <2> HIDE DEF q
    <2> QED
      BY <1>12, <2>2, OwnStepTyped DEF GetMigration
  <1> QED
    BY <1>2, <1>3, <1>4, <1>5, <1>6, <1>7, <1>8, <1>9, <1>10, <1>11, <1>12 DEF Callback, Failure

\* The environment: users, informers, the migration controller, restarts.
LEMMA EnvironmentTyped ==
    ASSUME Typed,
           \/ \E t \in Tables : EditTable(t) \/ DeliverTable(t)
           \/ \E n \in migs : DeliverMigration(n) \/ Apply(n)
           \/ Resync \/ Restart
    PROVE  Typed'
  <1>1. ASSUME NEW t \in Tables, EditTable(t) PROVE Typed'
    <2>1. edits' \in 0..MaxEdits /\ edits' = edits + 1 /\ edits < MaxEdits
      BY <1>1, BatchAssumption DEF Typed, TypeOK, EditTable
    <2>2. tbl \in [Tables -> Copies] /\ tbl[t].spec \in Nat /\ tbl[t].spec + 1 \in Versions
      <3>1. tbl \in [Tables -> Copies] /\ tbl[t].spec \in Versions /\ tbl[t].spec <= edits + 1
        BY DEF Typed, TypeOK, Copies
      <3>2. edits \in Nat /\ edits + 1 < MaxVersion /\ MaxVersion \in Nat
        BY <2>1, BatchAssumption DEF Typed, TypeOK, MaxVersion
      <3> QED
        BY <3>1, <3>2 DEF Versions
    <2>3. [tbl[t] EXCEPT !.spec = tbl[t].spec + 1] \in Copies
      BY <2>2 DEF Copies
    <2>4. tbl' = [tbl EXCEPT ![t] = [tbl[t] EXCEPT !.spec = tbl[t].spec + 1]]
      BY <1>1, <2>2 DEF EditTable
    <2>5. tbl' \in [Tables -> Copies]
      BY <2>2, <2>3, <2>4
    <2>6. \A u \in Tables : tbl'[u].spec <= edits' + 1
      <3> SUFFICES ASSUME NEW u \in Tables PROVE tbl'[u].spec <= edits' + 1
        OBVIOUS
      <3>1. tbl[u].spec <= edits + 1 /\ tbl[u].spec \in Nat /\ edits \in Nat
        BY CallbackTypes, BatchAssumption DEF Typed, TypeOK, Copies, Versions
      <3>2. tbl'[u].spec = tbl[u].spec \/ tbl'[u].spec = tbl[u].spec + 1
        BY <2>2, <2>4 DEF Copies
      <3> QED
        BY <2>1, <3>1, <3>2
    <2> QED
      BY <1>1, <2>1, <2>5, <2>6 DEF Typed, TypeOK, EditTable, cache
  <1>2. ASSUME NEW t \in Tables, DeliverTable(t) PROVE Typed'
    BY <1>2 DEF Typed, TypeOK, DeliverTable, server, bounds
  <1>3. ASSUME NEW n \in migs, DeliverMigration(n) PROVE Typed'
    BY <1>3 DEF Typed, TypeOK, DeliverMigration, server, bounds
  <1>4. ASSUME NEW n \in migs, Apply(n) PROVE Typed'
    <2>1. n \in Seq(Tables \X Versions)
      BY DEF Typed, TypeOK
    <2>2. \A k \in DOMAIN n : n[k] \in Tables \X Versions
      BY <2>1
    <2>3. \A t \in Tables : VersionIn(n, t) \subseteq 0..MaxVersion
      BY <2>2, CallbackTypes DEF VersionIn, Versions
    <2>4. ASSUME NEW t \in Tables, VersionIn(n, t) # {}
          PROVE  (CHOOSE v \in VersionIn(n, t) : TRUE) \in 0..MaxVersion
      <3>1. (CHOOSE v \in VersionIn(n, t) : TRUE) \in VersionIn(n, t)
        BY <2>4
      <3> QED
        BY <2>3, <3>1
    <2>5. deployed' \in [Tables -> 0..MaxVersion]
      BY <1>4, <2>4 DEF Typed, TypeOK, Apply
    <2>6. applied' \in SUBSET migs /\ stale' \in SUBSET migs
      BY <1>4 DEF Typed, TypeOK, Apply
    <2>7. proc' \in [Timers -> Callbacks] /\ \A j \in Timers : proc'[j].pc \in {"write", "status"} => proc'[j].text # <<>>
      BY <1>4, OutdatedTypes DEF Typed, Apply
    <2> QED
      BY <1>4, <2>5, <2>6, <2>7 DEF Typed, TypeOK, Callbacks, Apply, bounds
  <1>5. CASE Resync
    <2>1. resyncs' \in 0..MaxResyncs
      BY <1>5, BatchAssumption DEF Typed, TypeOK, Resync
    <2> QED
      BY <1>5, <2>1 DEF Typed, TypeOK, Resync, server, cache
  <1>6. CASE Restart
    <2>1. restarts' \in 0..MaxRestarts
      BY <1>6, BatchAssumption DEF Typed, TypeOK, Restart
    <2>2. proc' \in [Timers -> Callbacks] /\ \A i \in Timers : proc'[i].pc = "free"
      BY <1>6, CallbackTypes DEF Restart
    <2> QED
      BY <1>6, <2>1, <2>2 DEF Typed, TypeOK, Callbacks, Restart, server
  <1> QED
    BY <1>1, <1>2, <1>3, <1>4, <1>5, <1>6

LEMMA NextTyped == Typed /\ [Next]_vars => Typed'
  <1> SUFFICES ASSUME Typed, [Next]_vars PROVE Typed'
    OBVIOUS
  <1>1. CASE Next
    BY <1>1, QueueTyped, CallbackTyped, EnvironmentTyped DEF Next, Reconcile
  <1>2. CASE UNCHANGED vars
    BY <1>2 DEF Typed, TypeOK, vars, server, cache, bounds
  <1> QED
    BY <1>1, <1>2

LEMMA AlwaysTyped == Spec => []Typed
  BY InitTyped, NextTyped, PTL DEF Spec

(* Type correctness: whatever the callbacks copied, planned and recorded     *)
(* stays what batch.go declares it to be.                                    *)
THEOREM BatchTypeCorrect == Spec => []TypeOK
  <1>1. Typed => TypeOK
    BY DEF Typed
  <1> QED
    BY <1>1, AlwaysTyped, PTL

(***************************************************************************)
(* Pending tables are watched.  The invariant is inductive as it stands:   *)
(* QueueTable frees one timer and arms another, a timer that fires still   *)
(* has to take the tables, and the callback that takes them takes all.     *)
(***************************************************************************)
LEMMA WatchedStep == Typed /\ PendingIsWatched /\ [Next]_vars => PendingIsWatched'
  <1> SUFFICES ASSUME Typed, PendingIsWatched, [Next]_vars PROVE PendingIsWatched'
    OBVIOUS
  <1> USE DEF PendingIsWatched
  <1>0. proc \in [Timers -> Callbacks] /\ pending \in [Tables -> Copies \cup {NotPending}]
    BY DEF Typed, TypeOK, Callbacks
  \* A step that leaves pending alone and neither stops nor runs a timer.
  <1>1. ASSUME UNCHANGED pending,
               \A i \in Timers : proc[i].pc \in {"armed", "fired"} => proc'[i].pc \in {"armed", "fired"}
        PROVE  PendingIsWatched'
    BY <1>1 DEF Pending
  <1>3. ASSUME NEW t \in Tables, QueueTable(t) PROVE PendingIsWatched'
    <2>1. PICK i \in Timers : proc' = [Stopped EXCEPT ![i] = Armed]
      BY <1>3 DEF QueueTable
    <2>2. proc'[i].pc = "armed"
      BY <2>1, StoppedTypes, CallbackTypes DEF Typed
    <2> QED
      BY <2>2
  <1>4. ASSUME NEW i \in Timers, Fire(i) PROVE PendingIsWatched'
    <2>1. \A j \in Timers : proc[j].pc \in {"armed", "fired"} => proc'[j].pc \in {"armed", "fired"}
      BY <1>0, <1>4 DEF Fire, Callbacks
    <2> QED
      BY <1>1, <1>4, <2>1 DEF Fire
  <1>5. ASSUME NEW i \in Timers, processBatch(i) PROVE PendingIsWatched'
    BY <1>5 DEF processBatch, Pending
  <1>6. ASSUME NEW i \in Timers, NEW x \in proc[i].todo,
               PlanInSync(i, x[1], x[2]) \/ PlanStatements(i, x[1], x[2]) \/ PlanError(i, x[1], x[2])
        PROVE  PendingIsWatched'
    <2>1. \A j \in Timers : proc[j].pc \in {"armed", "fired"} => proc'[j].pc \in {"armed", "fired"}
      BY <1>0, <1>6 DEF PlanInSync, PlanStatements, PlanError, Callbacks
    <2> QED
      BY <1>1, <1>6, <2>1 DEF PlanInSync, PlanStatements, PlanError
  <1>7. ASSUME NEW i \in Timers,
               \/ EndEmpty(i) \/ GetMigration(i) \/ WriteBatch(i) \/ WriteRefused(i)
               \/ RecordStatus(i) \/ BatchError(i)
        PROVE  PendingIsWatched'
    <2>1. \A j \in Timers : proc[j].pc \in {"armed", "fired"} => proc'[j].pc \in {"armed", "fired"}
      <3>1. CASE WriteBatch(i)
        BY <1>0, <3>1, OutdatedTypes DEF WriteBatch, Callbacks, Typed
      <3>2. CASE GetMigration(i)
        BY <1>0, <3>2 DEF GetMigration, Callbacks
      <3> QED
        BY <1>0, <1>7, <3>1, <3>2 DEF EndEmpty, WriteRefused, RecordStatus, BatchError, Abandon, Callbacks
    <2> QED
      BY <1>1, <1>7, <2>1 DEF EndEmpty, GetMigration, WriteBatch, WriteRefused, RecordStatus, BatchError, Abandon
  <1>8. CASE Restart
    BY <1>8 DEF Restart, Pending
  <1>9. ASSUME \/ Resync
               \/ \E t \in Tables : SkipTable(t) \/ EditTable(t) \/ DeliverTable(t)
               \/ \E n \in migs : DeliverMigration(n)
               \/ UNCHANGED vars
        PROVE  PendingIsWatched'
    <2>1. UNCHANGED <<pending, proc>>
      BY <1>9 DEF Resync, SkipTable, EditTable, DeliverTable, DeliverMigration, vars
    <2> QED
      BY <1>1, <2>1
  <1>10. ASSUME NEW n \in migs, Apply(n) PROVE PendingIsWatched'
    BY <1>1, <1>10, OutdatedTypes DEF Apply, Typed
  <1> QED
    BY <1>3, <1>4, <1>5, <1>6, <1>7, <1>8, <1>9, <1>10 DEF Next, Reconcile, Callback, Failure

(* However timers are stopped after they fired and forgotten by a callback   *)
(* that is not theirs (batch.go:111-145), pending tables always have a timer *)
(* running or a callback on its way.                                         *)
THEOREM PendingAlwaysWatched == Spec => []PendingIsWatched
  <1>1. Init => PendingIsWatched
    BY DEF Init, PendingIsWatched, Pending
  <1> QED
    BY <1>1, WatchedStep, AlwaysTyped, PTL DEF Spec

(***************************************************************************)
(* No table is forgotten.  Five steps could forget one.  The early return  *)
(* on a recorded SHA: what is recorded was handled, which rests on the     *)
(* statuses a callback has left to write being those of a migration that   *)
(* is there.  The end of the statuses: the same.  The refusal of the       *)
(* migration's write: it is refused only when a migration of that name,    *)
(* hence of these tables at these specs, is there, also when the callback  *)
(* read it before.  Stopping a timer and starting another: a timer holds   *)
(* no tables.  An edit: the cache is never ahead of the Table.             *)
(***************************************************************************)
RecordedMeansHandled == \A t \in Tables : tbl[t].sha # 0 => Handled(t, tbl[t].sha)

StatusesAreBatched ==
    \A i \in Timers : proc[i].pc = "status" =>
        \A k \in DOMAIN proc[i].text : Batched(proc[i].text[k][1], proc[i].text[k][2].spec)

WhatWasReadIsThere == \A i \in Timers : proc[i].got # "none" => BatchSHA(proc[i].text) \in migs

\* A timer holds no tables, and a callback that writes has planned them all.
TimersHoldNothing ==
    \A i \in Timers :
        /\ proc[i].pc \notin {"plan", "write", "status"} => proc[i].todo = {} /\ proc[i].text = <<>>
        /\ proc[i].pc \in {"write", "status"} => proc[i].todo = {}
        /\ proc[i].pc # "write" => proc[i].got = "none"

CacheIsBehind == \A t \in Tables : cached[t].spec <= tbl[t].spec

Handling == RecordedMeansHandled /\ StatusesAreBatched /\ WhatWasReadIsThere /\ TimersHoldNothing

\* Migrations are never deleted, and what was found in sync is not forgotten.
HistoryGrows == migs \subseteq migs' /\ inSync \subseteq inSync'

LEMMA HandledStays ==
    ASSUME HistoryGrows
    PROVE  \A t, v : (Batched(t, v) => Batched(t, v)') /\ (Handled(t, v) => Handled(t, v)')
  BY DEF HistoryGrows, Batched, Handled

\* A step that records no SHA, and in which no callback starts on its statuses or
\* reads a migration.
LEMMA NothingRecorded ==
    ASSUME Typed, Handling, HistoryGrows,
           \A t \in Tables : tbl'[t].sha = tbl[t].sha,
           \A i \in Timers : \/ /\ proc'[i].pc = proc[i].pc /\ proc'[i].todo = proc[i].todo
                                /\ proc'[i].text = proc[i].text
                                /\ proc'[i].got # "none" => proc[i].got # "none"
                             \/ /\ proc'[i].pc \in {"free", "armed", "fired"} /\ proc'[i].todo = {}
                                /\ proc'[i].text = <<>> /\ proc'[i].got = "none"
                             \/ proc'[i].pc = "plan" /\ proc'[i].got = "none"
    PROVE  Handling'
  <1>1. RecordedMeansHandled'
    BY HandledStays DEF Handling, RecordedMeansHandled
  <1>2. StatusesAreBatched'
    BY HandledStays DEF Handling, StatusesAreBatched
  <1>3. WhatWasReadIsThere'
    <2> SUFFICES ASSUME NEW i \in Timers, proc'[i].got # "none" PROVE BatchSHA(proc'[i].text) \in migs'
      BY DEF WhatWasReadIsThere
    <2>1. proc'[i].text = proc[i].text /\ proc[i].got # "none"
      OBVIOUS
    <2>2. BatchSHA(proc[i].text) \in migs
      BY <2>1 DEF Handling, WhatWasReadIsThere
    <2> QED
      BY <2>1, <2>2 DEF HistoryGrows
  <1>4. TimersHoldNothing'
    <2> SUFFICES ASSUME NEW i \in Timers
                 PROVE  /\ proc'[i].pc \notin {"plan", "write", "status"} =>
                               proc'[i].todo = {} /\ proc'[i].text = <<>>
                        /\ proc'[i].pc \in {"write", "status"} => proc'[i].todo = {}
                        /\ proc'[i].pc # "write" => proc'[i].got = "none"
      BY DEF TimersHoldNothing
    <2> QED
      BY DEF Handling, TimersHoldNothing
  <1> QED
    BY <1>1, <1>2, <1>3, <1>4 DEF Handling

\* Recording the SHA of a copy that was handled.
LEMMA HandledRecorded ==
    ASSUME Typed, RecordedMeansHandled, HistoryGrows, NEW t \in Tables, NEW c \in Copies, NEW a,
           tbl' = Recorded(t, c, a), Handled(t, c.spec)'
    PROVE  RecordedMeansHandled'
  <1>1. \A u \in Tables : tbl'[u].sha = tbl[u].sha \/ (u = t /\ tbl'[u].sha = c.spec)
    <2>1. \A u \in Tables :
             Recorded(t, c, a)[u].sha = tbl[u].sha \/ (u = t /\ Recorded(t, c, a)[u].sha = c.spec)
      BY RecordedTypes
    <2> QED
      BY <2>1
  <1> SUFFICES ASSUME NEW u \in Tables, NEW v, v = tbl'[u].sha, v # 0 PROVE Handled(u, v)'
    BY DEF RecordedMeansHandled
  <1>2. CASE tbl'[u].sha = tbl[u].sha
    BY <1>2, HandledStays DEF RecordedMeansHandled
  <1>3. CASE u = t /\ tbl'[u].sha = c.spec
    BY <1>3
  <1> QED
    BY <1>1, <1>2, <1>3

LEMMA HandlingStep == Typed /\ Handling /\ [Next]_vars => Handling'
  <1> SUFFICES ASSUME Typed, Handling, [Next]_vars PROVE Handling'
    OBVIOUS
  <1>0. proc \in [Timers -> Callbacks] /\ tbl \in [Tables -> Copies] /\ TimersHoldNothing
    BY DEF Typed, TypeOK, Callbacks, Handling
  <1>a. /\ Free \in Callbacks /\ Free.pc = "free" /\ Free.todo = {} /\ Free.text = <<>> /\ Free.got = "none"
        /\ Armed \in Callbacks /\ Armed.pc = "armed" /\ Armed.todo = {} /\ Armed.text = <<>>
        /\ Armed.got = "none"
    BY CallbackTypes DEF Free, Armed
  <1>1. ASSUME NEW t \in Tables, QueueTable(t) PROVE Handling'
    <2>1. PICK i \in Timers : proc' = [Stopped EXCEPT ![i] = Armed]
      BY <1>1 DEF QueueTable
    <2>2. \A j \in Timers : proc'[j] = proc[j] \/ proc'[j] = Free \/ proc'[j] = Armed
      BY <2>1, StoppedTypes DEF Typed
    <2>3. UNCHANGED <<tbl, migs, inSync>>
      BY <1>1 DEF QueueTable, server
    <2> QED
      BY <1>a, <2>2, <2>3, NothingRecorded DEF HistoryGrows
  <1>2. ASSUME NEW i \in Timers,
               \/ Fire(i) \/ processBatch(i) \/ EndEmpty(i) \/ WriteRefused(i) \/ BatchError(i)
        PROVE  Handling'
    <2>1. PICK q : /\ proc' = [proc EXCEPT ![i] = q]
                   /\ \/ q.pc = "fired" /\ q.todo = {} /\ q.text = <<>> /\ q.got = "none"
                      \/ q.pc = "plan" /\ q.got = "none"
                      \/ q = Free
      <3>1. CASE Fire(i)
        <4> DEFINE q == [proc[i] EXCEPT !.pc = "fired"]
        <4>1. proc' = [proc EXCEPT ![i] = q]
          BY <1>0, <3>1 DEF Fire
        <4>2. q.pc = "fired" /\ q.todo = {} /\ q.text = <<>> /\ q.got = "none"
          BY <1>0, <3>1 DEF Callbacks, Fire, TimersHoldNothing
        <4> QED
          BY <4>1, <4>2
      <3>2. CASE processBatch(i)
        <4> DEFINE full == [Free EXCEPT !.pc = "plan", !.todo = {<<t, pending[t]>> : t \in Pending}]
                   q == IF Pending = {} THEN Free ELSE full
        <4>1. proc' = [proc EXCEPT ![i] = q]
          BY <3>2 DEF processBatch
        <4>2. full.pc = "plan" /\ full.got = "none"
          BY DEF Free
        <4> HIDE DEF full
        <4> QED
          BY <4>1, <4>2
      <3>3. CASE EndEmpty(i) \/ WriteRefused(i) \/ BatchError(i)
        <4>1. proc' = [proc EXCEPT ![i] = Free]
          BY <3>3 DEF EndEmpty, WriteRefused, BatchError, Abandon
        <4> QED
          BY <4>1
      <3> QED
        BY <1>2, <3>1, <3>2, <3>3
    <2>2. proc'[i] = q /\ \A j \in Timers : j # i => proc'[j] = proc[j]
      BY <1>0, <2>1
    <2>3. UNCHANGED <<tbl, migs, inSync>>
      BY <1>2 DEF Fire, processBatch, EndEmpty, WriteRefused, BatchError, Abandon, server
    <2> QED
      BY <1>a, <2>1, <2>2, <2>3, NothingRecorded DEF HistoryGrows
  <1>3. ASSUME NEW i \in Timers, NEW x \in proc[i].todo,
               PlanStatements(i, x[1], x[2]) \/ PlanError(i, x[1], x[2])
        PROVE  Handling'
    <2>1. /\ proc'[i].pc = "plan" /\ proc'[i].got = "none"
          /\ \A j \in Timers : j # i => proc'[j] = proc[j]
      <3>1. CASE PlanStatements(i, x[1], x[2])
        BY <1>0, <3>1 DEF PlanStatements, Callbacks, TimersHoldNothing
      <3>2. CASE PlanError(i, x[1], x[2])
        BY <1>0, <3>2 DEF PlanError, Callbacks, TimersHoldNothing
      <3> QED
        BY <1>3, <3>1, <3>2
    <2>2. UNCHANGED <<tbl, migs, inSync>>
      BY <1>3 DEF PlanStatements, PlanError, server
    <2> QED
      BY <2>1, <2>2, NothingRecorded DEF HistoryGrows
  <1>4. ASSUME NEW i \in Timers, NEW x \in proc[i].todo, PlanInSync(i, x[1], x[2])
        PROVE  Handling'
    <2>1. PICK t \in Tables, c \in Copies : x = <<t, c>>
      BY <1>0 DEF Callbacks
    <2>2. /\ proc'[i].pc = "plan" /\ proc'[i].got = "none"
          /\ \A j \in Timers : j # i => proc'[j] = proc[j]
      BY <1>0, <1>4 DEF PlanInSync, Callbacks, TimersHoldNothing
    <2>3. PICK a \in StatusAnswers :
            /\ tbl' = Recorded(t, c, a) /\ UNCHANGED migs
            /\ inSync' = inSync \cup {<<t, c.spec>>}
      BY <1>4, <2>1 DEF PlanInSync
    <2>4. RecordedMeansHandled'
      BY <2>3, HandledRecorded DEF Handling, HistoryGrows, Handled
    <2>5. StatusesAreBatched'
      BY <2>2, <2>3 DEF Handling, StatusesAreBatched, Batched
    <2>6. WhatWasReadIsThere'
      BY <2>2, <2>3 DEF Handling, WhatWasReadIsThere, BatchSHA
    <2>7. TimersHoldNothing'
      BY <1>0, <2>2 DEF TimersHoldNothing
    <2> QED
      BY <2>4, <2>5, <2>6, <2>7 DEF Handling
  <1>5. ASSUME NEW i \in Timers, GetMigration(i) PROVE Handling'
    <2> DEFINE text == proc[i].text
    <2>1. /\ proc'[i].pc = "write" /\ proc'[i].todo = {} /\ proc'[i].text = text
          /\ proc'[i].got = Got(BatchSHA(text))
          /\ \A j \in Timers : j # i => proc'[j] = proc[j]
      BY <1>0, <1>5 DEF GetMigration, Callbacks
    <2>2. UNCHANGED <<tbl, migs, inSync>>
      BY <1>5 DEF GetMigration, server
    <2>3. RecordedMeansHandled' /\ StatusesAreBatched'
      BY <2>1, <2>2 DEF Handling, RecordedMeansHandled, StatusesAreBatched, Handled, Batched
    <2>4. WhatWasReadIsThere'
      <3>1. Got(BatchSHA(text)) # "none" => BatchSHA(text) \in migs
        BY GotTypes
      <3> QED
        BY <2>1, <2>2, <3>1 DEF Handling, WhatWasReadIsThere
    <2>5. TimersHoldNothing'
      BY <1>0, <2>1 DEF TimersHoldNothing
    <2> QED
      BY <2>3, <2>4, <2>5 DEF Handling
  <1>6. ASSUME NEW i \in Timers, WriteBatch(i) PROVE Handling'
    <2> DEFINE text == proc[i].text
               q == [proc[i] EXCEPT !.pc = "status", !.got = "none"]
    <2>0. text \in Seq(Tables \X Copies)
      BY <1>0 DEF Callbacks
    <2>1. q.pc = "status" /\ q.todo = {} /\ q.text = text /\ q.got = "none"
      BY <1>0, <1>6 DEF Callbacks, WriteBatch, TimersHoldNothing
    <2>2. /\ proc'[i] = q
          /\ \A j \in Timers : j # i => proc'[j] = Outdated(BatchSHA(text))[j]
      BY <1>6, OutdatedTypes DEF WriteBatch, Typed
    <2>3. \A j \in Timers : /\ j # i => proc'[j].pc = proc[j].pc /\ proc'[j].todo = proc[j].todo
                            /\ j # i => proc'[j].text = proc[j].text
                            /\ j # i => (proc'[j].got # "none" => proc[j].got # "none")
      BY <2>2, OutdatedTypes DEF Typed
    <2>4. migs' = migs \cup {BatchSHA(text)} /\ UNCHANGED <<tbl, inSync>>
      BY <1>6 DEF WriteBatch
    <2>5. HistoryGrows
      BY <2>4 DEF HistoryGrows
    <2>6. RecordedMeansHandled'
      BY <2>4, <2>5, HandledStays DEF Handling, RecordedMeansHandled
    <2>7. StatusesAreBatched'
      <3>1. \A k \in DOMAIN text : \A t, v : t = text[k][1] /\ v = text[k][2].spec => Batched(t, v)'
        <4>1. /\ DOMAIN BatchSHA(text) = DOMAIN text
              /\ \A k \in DOMAIN text : BatchSHA(text)[k] = <<text[k][1], text[k][2].spec>>
          <5> HIDE DEF text
          <5> QED
            BY <2>0, BatchNames
        <4>2. BatchSHA(text) \in migs'
          BY <2>4
        <4> SUFFICES ASSUME NEW k \in DOMAIN text, NEW t, NEW v, t = text[k][1] /\ v = text[k][2].spec
                     PROVE  \E n \in migs' : \E l \in DOMAIN n : n[l] = <<t, v>>
          BY DEF Batched
        <4>3. k \in DOMAIN BatchSHA(text) /\ BatchSHA(text)[k] = <<t, v>>
          BY <4>1
        <4> QED
          BY <4>2, <4>3
      <3> SUFFICES ASSUME NEW j \in Timers, proc'[j].pc = "status", NEW k \in DOMAIN proc'[j].text,
                          NEW t, NEW v, t = proc'[j].text[k][1], v = proc'[j].text[k][2].spec
                   PROVE  Batched(t, v)'
        BY DEF StatusesAreBatched
      <3>2. CASE j = i
        BY <2>1, <2>2, <3>1, <3>2
      <3>3. CASE j # i
        <4>1. Batched(t, v)
          BY <2>3, <3>3 DEF Handling, StatusesAreBatched
        <4> QED
          BY <2>5, <4>1, HandledStays
      <3> QED
        BY <3>2, <3>3
    <2>8. WhatWasReadIsThere'
      BY <2>1, <2>2, <2>3, <2>4 DEF Handling, WhatWasReadIsThere
    <2>9. TimersHoldNothing'
      <3> HIDE DEF q
      <3> QED
        BY <1>0, <2>1, <2>2, <2>3 DEF TimersHoldNothing
    <2> QED
      BY <2>6, <2>7, <2>8, <2>9 DEF Handling
  <1>7. ASSUME NEW i \in Timers, RecordStatus(i) PROVE Handling'
    <2> DEFINE text == proc[i].text
    <2>1. text \in Seq(Tables \X Copies) /\ text # <<>> /\ proc[i].pc = "status"
      BY <1>0, <1>7 DEF Callbacks, Typed, RecordStatus
    <2>2. PICK t \in Tables, c \in Copies : Head(text) = <<t, c>> /\ text[1] = <<t, c>> /\ 1 \in DOMAIN text
      BY <2>1, TailFacts
    <2>3. PICK a \in StatusAnswers : tbl' = Recorded(t, c, a) /\ UNCHANGED <<migs, inSync>>
      BY <1>7, <2>2 DEF RecordStatus
    <2>4. Handled(t, c.spec)'
      <3>1. Batched(text[1][1], text[1][2].spec)
        BY <2>1, <2>2 DEF Handling, StatusesAreBatched
      <3> QED
        BY <2>2, <2>3, <3>1 DEF Handled, Batched
    <2>5. RecordedMeansHandled'
      BY <2>3, <2>4, HandledRecorded DEF Handling, HistoryGrows
    <2>6. /\ \A j \in Timers : j # i => proc'[j] = proc[j]
          /\ \/ proc'[i] = Free
             \/ /\ proc'[i].pc = "status" /\ proc'[i].text = Tail(text)
                /\ proc'[i].todo = {} /\ proc'[i].got = "none"
      BY <1>0, <1>7 DEF RecordStatus, Callbacks, TimersHoldNothing
    <2>7. StatusesAreBatched'
      <3> SUFFICES ASSUME NEW j \in Timers, proc'[j].pc = "status", NEW k \in DOMAIN proc'[j].text,
                          NEW u, NEW v, u = proc'[j].text[k][1], v = proc'[j].text[k][2].spec
                   PROVE  Batched(u, v)
        BY <2>3 DEF StatusesAreBatched, Batched
      <3>1. CASE j # i
        BY <2>6, <3>1 DEF Handling, StatusesAreBatched
      <3>2. CASE j = i
        <4>1. k + 1 \in DOMAIN text /\ proc'[j].text[k] = text[k + 1]
          BY <1>a, <2>1, <2>6, <3>2, TailFacts
        <4> QED
          BY <2>1, <4>1 DEF Handling, StatusesAreBatched
      <3> QED
        BY <3>1, <3>2
    <2>8. WhatWasReadIsThere'
      BY <1>a, <2>3, <2>6 DEF Handling, WhatWasReadIsThere, BatchSHA
    <2>9. TimersHoldNothing'
      BY <1>0, <1>a, <2>6 DEF TimersHoldNothing
    <2> QED
      BY <2>5, <2>7, <2>8, <2>9 DEF Handling
  <1>8. ASSUME NEW t \in Tables, EditTable(t) PROVE Handling'
    <2>1. \A u \in Tables : tbl'[u].sha = tbl[u].sha
      BY <1>0, <1>8 DEF EditTable, Copies
    <2> QED
      BY <1>8, <2>1, NothingRecorded DEF EditTable, HistoryGrows
  <1>9. ASSUME Restart PROVE Handling'
    <2>1. \A i \in Timers : proc'[i] = Free
      BY <1>9 DEF Restart
    <2> QED
      BY <1>9, <1>a, <2>1, NothingRecorded DEF Restart, server, HistoryGrows
  <1>10. ASSUME NEW n \in migs, Apply(n) PROVE Handling'
    BY <1>10, OutdatedTypes, NothingRecorded DEF Apply, Typed, HistoryGrows
  <1>11. ASSUME \/ Resync
                \/ \E t \in Tables : SkipTable(t) \/ DeliverTable(t)
                \/ \E n \in migs : DeliverMigration(n)
                \/ UNCHANGED vars
         PROVE  Handling'
    <2>1. UNCHANGED <<tbl, migs, inSync, proc>>
      BY <1>11 DEF Resync, SkipTable, DeliverTable, DeliverMigration, vars, server
    <2> QED
      BY <2>1, NothingRecorded DEF HistoryGrows
  <1> QED
    BY <1>1, <1>2, <1>3, <1>4, <1>5, <1>6, <1>7, <1>8, <1>9, <1>10, <1>11
       DEF Next, Reconcile, Callback, Failure

LEMMA BehindStep == Typed /\ CacheIsBehind /\ [Next]_vars => CacheIsBehind'
  <1> SUFFICES ASSUME Typed, CacheIsBehind, [Next]_vars PROVE CacheIsBehind'
    OBVIOUS
  <1>0. /\ tbl \in [Tables -> Copies] /\ cached \in [Tables -> Copies]
        /\ \A t \in Tables : tbl[t].spec \in Nat /\ cached[t].spec \in Nat
    BY CallbackTypes DEF Typed, TypeOK, Copies, Versions
  <1>1. ASSUME cached' = cached, \A t \in Tables : tbl'[t].spec \in Nat /\ tbl[t].spec <= tbl'[t].spec
        PROVE  CacheIsBehind'
    BY <1>0, <1>1 DEF CacheIsBehind
  <1>2. ASSUME NEW t \in Tables, EditTable(t) PROVE CacheIsBehind'
    <2>1. tbl'[t].spec = tbl[t].spec + 1 /\ \A u \in Tables : u # t => tbl'[u] = tbl[u]
      BY <1>0, <1>2 DEF EditTable, Copies
    <2>2. cached' = cached
      BY <1>2 DEF EditTable, cache
    <2> QED
      BY <1>0, <1>1, <2>1, <2>2
  <1>3. ASSUME NEW t \in Tables, NEW c \in Copies, NEW a, tbl' = Recorded(t, c, a), cached' = cached
        PROVE  CacheIsBehind'
    <2>1. \A u \in Tables : Recorded(t, c, a)[u].spec = tbl[u].spec
      BY RecordedTypes
    <2> QED
      BY <1>0, <1>1, <1>3, <2>1
  <1>4. ASSUME NEW i \in Timers, NEW x \in proc[i].todo, PlanInSync(i, x[1], x[2]) PROVE CacheIsBehind'
    <2>1. PICK t \in Tables, c \in Copies : x = <<t, c>>
      BY DEF Typed, TypeOK
    <2> QED
      BY <1>3, <1>4, <2>1 DEF PlanInSync, cache
  <1>5. ASSUME NEW i \in Timers, RecordStatus(i) PROVE CacheIsBehind'
    <2>1. proc[i].text \in Seq(Tables \X Copies) /\ proc[i].text # <<>>
      BY <1>5 DEF RecordStatus, Typed, TypeOK
    <2>2. PICK t \in Tables, c \in Copies : Head(proc[i].text) = <<t, c>>
      BY <2>1, TailFacts
    <2> QED
      BY <1>3, <1>5, <2>2 DEF RecordStatus, cache
  <1>6. ASSUME NEW t \in Tables, DeliverTable(t) PROVE CacheIsBehind'
    BY <1>0, <1>6 DEF DeliverTable, server, CacheIsBehind
  <1>7. ASSUME Restart PROVE CacheIsBehind'
    BY <1>0, <1>7 DEF Restart, server, CacheIsBehind
  <1>8. ASSUME \/ Resync
               \/ \E t \in Tables : SkipTable(t) \/ QueueTable(t)
               \/ \E n \in migs : DeliverMigration(n) \/ Apply(n)
               \/ UNCHANGED vars
        PROVE  CacheIsBehind'
    <2>1. UNCHANGED <<tbl, cached>>
      BY <1>8 DEF Resync, SkipTable, QueueTable, DeliverMigration, Apply, vars, server, cache
    <2> QED
      BY <2>1 DEF CacheIsBehind
  <1>9. ASSUME NEW i \in Timers,
               \/ Fire(i) \/ processBatch(i) \/ EndEmpty(i) \/ GetMigration(i) \/ WriteBatch(i)
               \/ WriteRefused(i) \/ Failure(i)
               \/ \E x \in proc[i].todo : PlanStatements(i, x[1], x[2])
        PROVE  CacheIsBehind'
    <2>1. UNCHANGED <<tbl, cached>>
      BY <1>9 DEF Fire, processBatch, EndEmpty, GetMigration, WriteBatch, WriteRefused, Failure, BatchError,
                  Abandon, PlanError, PlanStatements, server, cache
    <2> QED
      BY <2>1 DEF CacheIsBehind
  <1> QED
    BY <1>2, <1>4, <1>5, <1>6, <1>7, <1>8, <1>9 DEF Next, Reconcile, Callback

\* A version leaves a callback's hands only by being handled, by a failure or in
\* a restart.
LEMMA HeldStays ==
    ASSUME Typed, Handling, [Next]_vars, errors' = 0, ~Restart,
           NEW t \in Tables, NEW v, NEW i \in Timers, Holds(proc[i], t, v)
    PROVE  Handled(t, v)' \/ Holds(proc'[i], t, v)
  <1>0. proc \in [Timers -> Callbacks] /\ TimersHoldNothing /\ errors \in Nat
    BY BatchAssumption DEF Typed, TypeOK, Callbacks, Handling
  <1>1. proc[i].pc \in {"plan", "write", "status"}
    BY <1>0 DEF TimersHoldNothing, Holds
  <1>2. ASSUME proc'[i].todo = proc[i].todo, proc'[i].text = proc[i].text PROVE Holds(proc'[i], t, v)
    BY <1>2 DEF Holds
  <1>3. ASSUME NEW u \in Tables, QueueTable(u) PROVE Holds(proc'[i], t, v)
    <2>1. PICK j \in Timers : Stopped[j].pc = "free" /\ proc' = [Stopped EXCEPT ![j] = Armed]
      BY <1>3 DEF QueueTable
    <2>2. Stopped[i] = proc[i]
      BY <1>0, <1>1 DEF Stopped
    <2>3. proc'[i] = proc[i]
      BY <1>1, <2>1, <2>2, StoppedTypes DEF Typed
    <2> QED
      BY <2>3
  <1>4. ASSUME NEW j \in Timers, j # i, Fire(j) \/ Callback(j) \/ Failure(j) PROVE Holds(proc'[i], t, v)
    <2>1. CASE WriteBatch(j)
      <3>1. proc'[i] = Outdated(BatchSHA(proc[j].text))[i]
        BY <1>4, <2>1, OutdatedTypes DEF WriteBatch, Typed
      <3> QED
        BY <1>2, <3>1, OutdatedTypes DEF Typed
    <2>2. CASE ~WriteBatch(j)
      <3>1. proc'[i] = proc[i]
        BY <1>0, <1>4, <2>2 DEF Callback, Failure, Fire, processBatch, EndEmpty, GetMigration, WriteRefused,
                    RecordStatus, BatchError, Abandon, PlanInSync, PlanError, PlanStatements
      <3> QED
        BY <3>1
    <2> QED
      BY <2>1, <2>2
  <1>5. ASSUME NEW y \in proc[i].todo, PlanInSync(i, y[1], y[2])
        PROVE  Handled(t, v)' \/ Holds(proc'[i], t, v)
    <2>1. PICK u \in Tables, c \in Copies : y = <<u, c>>
      BY <1>0 DEF Callbacks
    <2>2. /\ proc'[i].todo = proc[i].todo \ {<<u, c>>} /\ proc'[i].text = proc[i].text
          /\ <<u, c.spec>> \in inSync'
      BY <1>0, <1>5, <2>1 DEF PlanInSync, Callbacks
    <2>3. CASE u = t /\ c.spec = v
      BY <2>2, <2>3 DEF Handled
    <2>4. CASE ~(u = t /\ c.spec = v)
      BY <2>2, <2>4 DEF Holds
    <2> QED
      BY <2>3, <2>4
  <1>6. ASSUME NEW y \in proc[i].todo, PlanStatements(i, y[1], y[2]) PROVE Holds(proc'[i], t, v)
    <2>1. PICK u \in Tables, c \in Copies : y = <<u, c>>
      BY <1>0 DEF Callbacks
    <2> DEFINE text == Append(proc[i].text, <<u, c>>)
    <2>2. proc'[i].todo = proc[i].todo \ {<<u, c>>} /\ proc'[i].text = text
      BY <1>0, <1>6, <2>1 DEF PlanStatements, Callbacks
    <2>3. /\ \A k \in DOMAIN proc[i].text : k \in DOMAIN text /\ text[k] = proc[i].text[k]
          /\ \E k \in DOMAIN text : text[k] = <<u, c>>
      <3>1. proc[i].text \in Seq(Tables \X Copies) /\ Len(proc[i].text) \in Nat
        BY <1>0 DEF Callbacks
      <3>2. DOMAIN text = 1..Len(proc[i].text) + 1 /\ text[Len(proc[i].text) + 1] = <<u, c>>
        BY <3>1
      <3>3. \A k \in 1..Len(proc[i].text) : text[k] = proc[i].text[k]
        BY <3>1
      <3>4. DOMAIN proc[i].text = 1..Len(proc[i].text)
        BY <3>1
      <3>5. Len(proc[i].text) + 1 \in DOMAIN text /\ DOMAIN proc[i].text \subseteq DOMAIN text
        BY <3>1, <3>2, <3>4
      <3> HIDE DEF text
      <3> QED
        BY <3>2, <3>3, <3>4, <3>5
    <2> HIDE DEF text
    <2>4. CASE \E x \in proc[i].todo : x[1] = t /\ x[2].spec = v
      <3>1. PICK x \in proc[i].todo : x[1] = t /\ x[2].spec = v
        BY <2>4
      <3>2. CASE x = <<u, c>>
        BY <2>2, <2>3, <3>1, <3>2 DEF Holds
      <3>3. CASE x # <<u, c>>
        BY <2>2, <3>1, <3>3 DEF Holds
      <3> QED
        BY <3>2, <3>3
    <2>5. CASE \E k \in DOMAIN proc[i].text : proc[i].text[k][1] = t /\ proc[i].text[k][2].spec = v
      BY <2>2, <2>3, <2>5 DEF Holds
    <2> QED
      BY <2>4, <2>5 DEF Holds
  <1>7. ~EndEmpty(i)
    BY DEF EndEmpty, Holds
  <1>8. ASSUME GetMigration(i) \/ WriteBatch(i) PROVE Holds(proc'[i], t, v)
    <2>1. proc'[i].todo = proc[i].todo /\ proc'[i].text = proc[i].text
      <3>1. CASE WriteBatch(i)
        <4> DEFINE q == [proc[i] EXCEPT !.pc = "status", !.got = "none"]
        <4>1. q.todo = proc[i].todo /\ q.text = proc[i].text
          BY <1>0 DEF Callbacks
        <4>2. proc'[i] = q
          BY <3>1, OutdatedTypes DEF WriteBatch, Typed
        <4> QED
          BY <4>1, <4>2
      <3>2. CASE GetMigration(i)
        BY <1>0, <3>2 DEF GetMigration, Callbacks
      <3> QED
        BY <1>8, <3>1, <3>2
    <2> QED
      BY <1>2, <2>1
  \* The refusal: the migration that is there has this table at this version.
  <1>9. ASSUME WriteRefused(i) PROVE Handled(t, v)'
    <2> DEFINE text == proc[i].text
    <2>1. /\ proc[i].pc = "write" /\ BatchSHA(text) \in migs /\ UNCHANGED migs
      <3>1. proc[i].pc = "write" /\ ~WriteAccepted(i) /\ UNCHANGED migs
        BY <1>9 DEF WriteRefused, Abandon, server
      <3>2. proc[i].got = "none" => BatchSHA(text) \in migs
        BY <3>1 DEF WriteAccepted
      <3>3. proc[i].got # "none" => BatchSHA(text) \in migs
        BY DEF Handling, WhatWasReadIsThere
      <3> QED
        BY <3>1, <3>2, <3>3
    <2>2. PICK k \in DOMAIN text : text[k][1] = t /\ text[k][2].spec = v
      BY <1>0, <2>1 DEF Holds, TimersHoldNothing
    <2>3. text \in Seq(Tables \X Copies)
      BY <1>0 DEF Callbacks
    <2>4. k \in DOMAIN BatchSHA(text) /\ BatchSHA(text)[k] = <<t, v>>
      BY <2>2, <2>3, BatchNames
    <2>5. BatchSHA(text) \in migs'
      BY <2>1
    <2> HIDE DEF text
    <2> QED
      BY <2>4, <2>5 DEF Handled, Batched
  <1>10. ASSUME RecordStatus(i) PROVE Handled(t, v)' \/ Holds(proc'[i], t, v)
    <2> DEFINE text == proc[i].text
    <2>1. proc[i].pc = "status" /\ UNCHANGED <<migs, inSync>>
      BY <1>10 DEF RecordStatus
    <2>2. PICK k \in DOMAIN text : text[k][1] = t /\ text[k][2].spec = v
      BY <1>0, <2>1 DEF Holds, TimersHoldNothing
    <2>3. Batched(text[k][1], text[k][2].spec)
      BY <2>1 DEF Handling, StatusesAreBatched
    <2> QED
      BY <2>1, <2>2, <2>3 DEF Handled, Batched
  <1>11. ~BatchError(i) /\ \A y \in proc[i].todo : ~PlanError(i, y[1], y[2])
    BY <1>0 DEF BatchError, PlanError
  <1>12. ~Fire(i) /\ ~processBatch(i)
    BY <1>1 DEF Fire, processBatch
  <1>13. ASSUME \/ Resync
                \/ \E u \in Tables : SkipTable(u) \/ EditTable(u) \/ DeliverTable(u)
                \/ \E n \in migs : DeliverMigration(n)
                \/ UNCHANGED vars
         PROVE  Holds(proc'[i], t, v)
    BY <1>13 DEF Resync, SkipTable, EditTable, DeliverTable, DeliverMigration, vars
  <1>14. ASSUME NEW n \in migs, Apply(n) PROVE Holds(proc'[i], t, v)
    BY <1>2, <1>14, OutdatedTypes DEF Apply, Typed
  <1>15. ASSUME Callback(i) PROVE Handled(t, v)' \/ Holds(proc'[i], t, v)
    BY <1>5, <1>6, <1>7, <1>8, <1>9, <1>10, <1>12, <1>15 DEF Callback
  <1>16. ~Failure(i)
    BY <1>11 DEF Failure
  <1> QED
    BY <1>3, <1>4, <1>12, <1>13, <1>14, <1>15, <1>16 DEF Next, Reconcile

\* Tables leave the queue only by being reconciled, what the cache learns is
\* queued, and what is pending is replaced by what the cache has, or taken.
LEMMA QueueSteps ==
    ASSUME Typed, [Next]_vars, NEW t \in Tables
    PROVE  /\ t \in queue => t \in queue' \/ SkipTable(t) \/ QueueTable(t)
           /\ cached'[t] # cached[t] => t \in queue'
           /\ pending'[t] # pending[t] => Restart \/ QueueTable(t) \/ \E i \in Timers : processBatch(i)
  <1>0. cached \in [Tables -> Copies] /\ pending \in [Tables -> Copies \cup {NotPending}]
    BY DEF Typed, TypeOK
  <1>1. ASSUME NEW u \in Tables, Reconcile(u) \/ EditTable(u) \/ DeliverTable(u)
        PROVE  /\ t \in queue => t \in queue' \/ SkipTable(t) \/ QueueTable(t)
               /\ cached'[t] # cached[t] => t \in queue'
               /\ pending'[t] # pending[t] => QueueTable(t)
    <2>1. CASE SkipTable(u)
      BY <2>1 DEF SkipTable, cache
    <2>2. CASE QueueTable(u)
      <3>1. /\ queue' = queue \ {u} /\ cached' = cached
            /\ pending' = [pending EXCEPT ![u] = cached[u]]
        BY <2>2 DEF QueueTable, cache
      <3>2. CASE u = t
        BY <2>2, <3>1, <3>2
      <3>3. CASE u # t
        BY <1>0, <3>1, <3>3
      <3> QED
        BY <3>2, <3>3
    <2>3. CASE EditTable(u)
      BY <2>3 DEF EditTable, cache
    <2>4. CASE DeliverTable(u)
      BY <1>0, <2>4 DEF DeliverTable
    <2> QED
      BY <1>1, <2>1, <2>2, <2>3, <2>4 DEF Reconcile
  <1>2. ASSUME NEW i \in Timers, Fire(i) \/ Callback(i) \/ Failure(i)
        PROVE  UNCHANGED <<queue, cached>> /\ (UNCHANGED pending \/ processBatch(i))
    BY <1>2 DEF Callback, Failure, Fire, processBatch, EndEmpty, GetMigration, WriteBatch, WriteRefused,
                RecordStatus, BatchError, Abandon, PlanInSync, PlanError, PlanStatements, cache
  <1>3. ASSUME \E n \in migs : DeliverMigration(n) \/ Apply(n) PROVE UNCHANGED <<queue, cached, pending>>
    BY <1>3 DEF DeliverMigration, Apply
  <1>4. CASE Resync
    BY <1>4 DEF Resync, cache
  <1>5. CASE Restart
    BY <1>5 DEF Restart
  <1>6. CASE UNCHANGED vars
    BY <1>6 DEF vars, cache
  <1> QED
    BY <1>1, <1>2, <1>3, <1>4, <1>5, <1>6 DEF Next

\* A Table changes by an edit, or its present spec is recorded.
LEMMA TableSteps ==
    ASSUME Typed, [Next]_vars, NEW t \in Tables
    PROVE  /\ tbl'[t].spec = tbl[t].spec \/ tbl'[t].spec = tbl[t].spec + 1
           /\ tbl'[t].spec = tbl[t].spec => tbl'[t] = tbl[t] \/ tbl'[t].sha = tbl'[t].spec
  <1>0. tbl \in [Tables -> Copies] /\ proc \in [Timers -> Callbacks] /\ tbl[t].spec \in Nat
    BY CallbackTypes DEF Typed, TypeOK, Callbacks, Copies, Versions
  <1>1. ASSUME NEW u \in Tables, EditTable(u)
        PROVE  tbl'[t] = tbl[t] \/ tbl'[t].spec = tbl[t].spec + 1
    BY <1>0, <1>1 DEF EditTable, Copies
  <1>2. ASSUME NEW u \in Tables, NEW c \in Copies, NEW a, tbl' = Recorded(u, c, a)
        PROVE  tbl'[t] = tbl[t] \/ (tbl'[t].spec = tbl[t].spec /\ tbl'[t].sha = tbl[t].spec)
    <2>1. CASE a = "ok" /\ tbl[u] = c
      <3>1. tbl' = [tbl EXCEPT ![u] = [tbl[u] EXCEPT !.sha = c.spec]]
        BY <1>2, <2>1 DEF Recorded
      <3>2. /\ [tbl[u] EXCEPT !.sha = c.spec].spec = tbl[u].spec
            /\ [tbl[u] EXCEPT !.sha = c.spec].sha = c.spec
        BY <1>0 DEF Copies
      <3> QED
        BY <1>0, <2>1, <3>1, <3>2
    <2>2. CASE ~(a = "ok" /\ tbl[u] = c)
      BY <1>2, <2>2 DEF Recorded
    <2> QED
      BY <2>1, <2>2
  <1>3. ASSUME NEW i \in Timers, NEW x \in proc[i].todo, PlanInSync(i, x[1], x[2])
        PROVE  \E u \in Tables, c \in Copies, a \in StatusAnswers : tbl' = Recorded(u, c, a)
    <2>1. PICK u \in Tables, c \in Copies : x = <<u, c>>
      BY <1>0 DEF Callbacks
    <2> QED
      BY <1>3, <2>1 DEF PlanInSync
  <1>4. ASSUME NEW i \in Timers, RecordStatus(i)
        PROVE  \E u \in Tables, c \in Copies, a \in StatusAnswers : tbl' = Recorded(u, c, a)
    <2>1. proc[i].text \in Seq(Tables \X Copies) /\ proc[i].text # <<>>
      BY <1>0, <1>4 DEF RecordStatus, Typed, Callbacks
    <2>2. PICK u \in Tables, c \in Copies : Head(proc[i].text) = <<u, c>>
      BY <2>1, TailFacts
    <2> QED
      BY <1>4, <2>2 DEF RecordStatus
  <1>5. ASSUME \/ Resync \/ Restart \/ UNCHANGED vars
               \/ \E u \in Tables : SkipTable(u) \/ QueueTable(u) \/ DeliverTable(u)
               \/ \E n \in migs : DeliverMigration(n) \/ Apply(n)
        PROVE  tbl' = tbl
    BY <1>5 DEF Resync, Restart, SkipTable, QueueTable, DeliverTable, DeliverMigration, Apply, vars, server
  <1>6. ASSUME NEW i \in Timers,
               \/ Fire(i) \/ processBatch(i) \/ EndEmpty(i) \/ GetMigration(i) \/ WriteBatch(i)
               \/ WriteRefused(i) \/ Failure(i)
               \/ \E x \in proc[i].todo : PlanStatements(i, x[1], x[2])
        PROVE  tbl' = tbl
    BY <1>6 DEF Fire, processBatch, EndEmpty, GetMigration, WriteBatch, WriteRefused, Failure, BatchError,
                Abandon, PlanError, PlanStatements, server
  <1>7. \/ tbl'[t] = tbl[t] \/ tbl'[t].spec = tbl[t].spec + 1
        \/ tbl'[t].spec = tbl[t].spec /\ tbl'[t].sha = tbl[t].spec
    BY <1>1, <1>2, <1>3, <1>4, <1>5, <1>6 DEF Next, Reconcile, Callback
  <1> QED
    BY <1>0, <1>7

LEMMA HistorySteps == ASSUME [Next]_vars PROVE HistoryGrows /\ (errors' = errors \/ errors' = errors + 1)
  <1>1. ASSUME NEW i \in Timers, Fire(i) \/ Callback(i) \/ Failure(i)
        PROVE  HistoryGrows /\ (errors' = errors \/ errors' = errors + 1)
    BY <1>1 DEF Fire, Callback, Failure, processBatch, EndEmpty, GetMigration, WriteBatch, WriteRefused,
                RecordStatus, BatchError, Abandon, PlanInSync, PlanError, PlanStatements, server, bounds,
                HistoryGrows
  <1>2. ASSUME \/ Resync \/ Restart \/ UNCHANGED vars
               \/ \E u \in Tables : SkipTable(u) \/ QueueTable(u) \/ DeliverTable(u) \/ EditTable(u)
               \/ \E n \in migs : DeliverMigration(n) \/ Apply(n)
        PROVE  UNCHANGED <<migs, inSync, errors>>
    BY <1>2 DEF Resync, Restart, SkipTable, QueueTable, DeliverTable, EditTable, DeliverMigration, Apply,
                vars, server, bounds
  <1> QED
    BY <1>1, <1>2 DEF Next, Reconcile, HistoryGrows

LEMMA ForgottenStep ==
    ASSUME Typed, Typed', Handling, Handling', CacheIsBehind, NoTableForgotten, [Next]_vars
    PROVE  NoTableForgotten'
  <1> SUFFICES ASSUME errors' = 0, NEW t \in Tables, NEW v, v = tbl'[t].spec,
                      ~Handled(t, v)', t \notin queue', cached'[t] = tbl'[t]
               PROVE  pending'[t].spec = v \/ \E i \in Timers : Holds(proc'[i], t, v)
    BY DEF NoTableForgotten
  <1>0. /\ tbl \in [Tables -> Copies] /\ cached \in [Tables -> Copies]
        /\ tbl[t].spec \in Nat /\ cached[t].spec \in Nat /\ tbl[t].spec # 0
        /\ pending \in [Tables -> Copies \cup {NotPending}]
        /\ proc \in [Timers -> Callbacks] /\ errors \in Nat
        /\ tbl'[t].sha \in Nat /\ tbl'[t].spec # 0
    <2>1. /\ tbl \in [Tables -> Copies] /\ tbl' \in [Tables -> Copies] /\ cached \in [Tables -> Copies]
          /\ pending \in [Tables -> Copies \cup {NotPending}] /\ errors \in 0..MaxErrors
      BY DEF Typed, TypeOK
    <2>2. proc \in [Timers -> Callbacks]
      BY DEF Typed, TypeOK, Callbacks
    <2>3. \A c \in Copies : c.spec \in Nat /\ c.spec # 0 /\ c.sha \in Nat
      BY CallbackTypes DEF Copies, Versions
    <2> QED
      BY <2>1, <2>2, <2>3, BatchAssumption
  <1>1. cached[t] = cached'[t]
    BY QueueSteps
  <1>2. tbl'[t] = tbl[t] /\ cached[t] = tbl[t] /\ v = tbl[t].spec
    <2>1. cached[t].spec <= tbl[t].spec
      BY DEF CacheIsBehind
    <2>2. tbl'[t].spec = tbl[t].spec
      BY <1>0, <1>1, <2>1, TableSteps
    <2>3. tbl'[t].sha # v
      BY <1>0 DEF Handling, RecordedMeansHandled
    <2> QED
      BY <1>1, <2>2, <2>3, TableSteps
  <1>3. errors = 0 /\ ~Handled(t, v)
    BY <1>0, HistorySteps, HandledStays
  <1>4. ~Restart
    BY DEF Restart
  <1>5. CASE t \in queue
    <2>1. SkipTable(t) \/ QueueTable(t)
      BY <1>5, QueueSteps
    <2>2. ~SkipTable(t)
      BY <1>0, <1>2, <1>3 DEF SkipTable, Handling, RecordedMeansHandled
    <2>3. pending'[t] = cached[t]
      BY <1>0, <2>1, <2>2 DEF QueueTable
    <2> QED
      BY <1>2, <2>3
  <1>6. CASE pending[t].spec = v
    <2>1. CASE pending'[t] = pending[t]
      BY <1>6, <2>1
    <2>2. CASE QueueTable(t)
      <3>1. pending'[t] = cached[t]
        BY <1>0, <2>2 DEF QueueTable
      <3> QED
        BY <1>2, <3>1
    <2>3. ASSUME NEW i \in Timers, processBatch(i) PROVE Holds(proc'[i], t, v)
      <3>1. t \in Pending
        BY <1>0, <1>2, <1>6 DEF Pending, NotPending
      <3>2. proc'[i] = [Free EXCEPT !.pc = "plan", !.todo = {<<u, pending[u]>> : u \in Pending}]
        BY <1>0, <2>3, <3>1 DEF processBatch
      <3>3. proc'[i].todo = {<<u, pending[u]>> : u \in Pending}
        BY <3>2 DEF Free
      <3>4. <<t, pending[t]>> \in proc'[i].todo
        BY <3>1, <3>3
      <3> QED
        BY <1>6, <3>4 DEF Holds
    <2> QED
      BY <1>4, <2>1, <2>2, <2>3, QueueSteps
  <1>7. ASSUME NEW i \in Timers, Holds(proc[i], t, v) PROVE Holds(proc'[i], t, v)
    BY <1>4, <1>7, HeldStays
  <1>8. \/ t \in queue \/ pending[t].spec = v
        \/ \E i \in Timers : Holds(proc[i], t, v)
    BY <1>2, <1>3 DEF NoTableForgotten
  <1> QED
    BY <1>5, <1>6, <1>7, <1>8

LEMMA InitRemembered == Init => Handling /\ CacheIsBehind /\ NoTableForgotten
  <1> SUFFICES ASSUME Init PROVE Handling /\ CacheIsBehind /\ NoTableForgotten
    OBVIOUS
  <1>1. \A i \in Timers : proc[i] = Free
    BY DEF Init
  <1>2. Free.todo = {} /\ Free.text = <<>> /\ Free.pc = "free" /\ Free.got = "none"
    BY DEF Free
  <1>3. Handling
    BY <1>1, <1>2 DEF Init, Handling, RecordedMeansHandled, StatusesAreBatched, WhatWasReadIsThere,
                      TimersHoldNothing
  <1>4. CacheIsBehind /\ NoTableForgotten
    BY DEF Init, CacheIsBehind, NoTableForgotten
  <1> QED
    BY <1>3, <1>4

(* processBatch has emptied the pending tables and every error after it is   *)
(* only logged (batch.go:111-145), and the reconciles that queued them have  *)
(* returned; still, unless planning or a write fails, no order of edits,     *)
(* late timers, overlapping callbacks, refused migrations, statuses refused  *)
(* or not served, and restarts leaves the latest spec of a Table in nobody's *)
(* hands before a batch has handled it.  It holds for every StatusAnswers.   *)
THEOREM NoTableIsForgotten == Spec => []NoTableForgotten
  <1>1. Init => Typed /\ Handling /\ CacheIsBehind /\ NoTableForgotten
    BY InitTyped, InitRemembered
  <1>2. /\ Typed /\ Handling /\ CacheIsBehind /\ NoTableForgotten /\ [Next]_vars
        => (Typed /\ Handling /\ CacheIsBehind /\ NoTableForgotten)'
    BY NextTyped, HandlingStep, BehindStep, ForgottenStep
  <1> QED
    BY <1>1, <1>2, PTL DEF Spec
=============================================================================
