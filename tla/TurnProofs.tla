----------------------------- MODULE TurnProofs -----------------------------
(***************************************************************************)
(* Theorems about Turn, for every set of turns, every set of pods and      *)
(* every bound: type correctness, and the safety invariants of a turn      *)
(* that hold whatever interleaving, failure, crash or rebalance occurs.    *)
(* In the second half, what becomes of a turn: an accepted response stays  *)
(* protected by its marker when requests end before the response deadline, *)
(* its answer is deleted only for a client or an accepted turn, and a      *)
(* reply stands against timeouts and late errors unless two pods cross on  *)
(* its row (CrossPod), which one pod, with its one event loop, never does. *)
(***************************************************************************)
EXTENDS TurnInvariant, TLAPS

-----------------------------------------------------------------------------
(* Facts about the store. *)

\* The two ids of a turn are distinct message ids.
LEMMA IdsAreMessages ==
    ASSUME NEW t \in Turns
    PROVE  /\ RequestId(t) \in MsgId
           /\ ResponseId(t) \in MsgId
           /\ RequestId(t) # ResponseId(t)
BY DEF RequestId, ResponseId, MsgId

\* Ids of different turns differ.
LEMMA IdsAreInjective ==
    ASSUME NEW t \in Turns, NEW u \in Turns
    PROVE  /\ RequestId(t) # ResponseId(u)
           /\ RequestId(t) = RequestId(u) => t = u
           /\ ResponseId(t) = ResponseId(u) => t = u
BY DEF RequestId, ResponseId

\* create_message_direct and delete keep the table a table of rows.
LEMMA RowTypes ==
    ASSUME StoreTypeOK, NEW m,
           NEW s \in Senders, NEW st \in Statuses, NEW c \in Contents
    PROVE  /\ WithRow(m, s, st, c) \in [MsgId -> Row]
           /\ WithDeleted(m) \in [MsgId -> Row]
BY DEF StoreTypeOK, WithRow, WithDeleted, Row, Statuses

-----------------------------------------------------------------------------
(* Type correctness, one lemma per component. *)

\* A bounded failure, or none, keeps the count of failures a number.
LEMMA FaultsTyped ==
    ASSUME faults \in Nat, Fault \/ NoFault
    PROVE  faults' \in Nat
BY DEF Fault, NoFault

\* Taking, keeping or giving back the event loop of a pod.
LEMMA LoopTyped ==
    ASSUME loop \in [Pods -> Tasks], NEW p, NEW x \in Tasks, UNCHANGED loop \/ Keep(p, x)
    PROVE  loop' \in [Pods -> Tasks]
BY DEF Keep

\* Moving a handler to another step.
LEMMA GotoTyped ==
    ASSUME hpc \in [Turns -> HandlerSteps], NEW t, NEW x \in HandlerSteps, Goto(t, x)
    PROVE  hpc' \in [Turns -> HandlerSteps]
BY DEF Goto

\* A step of a request handler, or a client's delete, keeps the types.
LEMMA HandlersTyped ==
    ASSUME TypeOK, Handlers, UNCHANGED <<consumerVars, timeoutVars>>
    PROVE  TypeOK'
<1> USE DEF TypeOK, StoreTypeOK, HandlerTypeOK, storeVars, handlerVars
<1>a. ASSUME NEW m PROVE WithDeleted(m) \in [MsgId -> Row]
  BY RowTypes DEF Senders, Statuses, Contents
<1>f. Fault \/ NoFault => faults' \in Nat
  BY FaultsTyped
<1>l. ASSUME NEW p, UNCHANGED loop \/ Keep(p, "handler") \/ Yield(p)
      PROVE  loop' \in [Pods -> Tasks]
  BY <1>l, LoopTyped DEF Yield, Tasks
<1>0. log' = log => ConsumerTypeOK' /\ OffsetsOK' /\ TimeoutTypeOK'
  BY DEF ConsumerTypeOK, OffsetsOK, Handled, TimeoutTypeOK, consumerVars, timeoutVars
<1>1. ASSUME NEW t \in Turns, HandlerStep(t) PROVE TypeOK'
  <2> USE <1>0, <1>f
  <2>a. ResponseId(t) \in MsgId
    BY IdsAreMessages
  <2>b. WithRow(ResponseId(t), "assistant", "pending", "") \in [MsgId -> Row]
    BY RowTypes DEF Senders, Statuses, Contents
  <2>c. StagedRows(t) \in [MsgId -> Row]
    BY RowTypes DEF StagedRows, Senders, Statuses, Contents
  <2>g. ASSUME NEW x \in HandlerSteps, Goto(t, x) PROVE hpc' \in [Turns -> HandlerSteps]
    BY <2>g, GotoTyped
  <2>l. UNCHANGED loop \/ Keep(hpod[t], "handler") \/ Yield(hpod[t]) => loop' \in [Pods -> Tasks]
    BY <1>l
  <2>1. CASE BeginSend(t)
    BY <2>1, <2>g DEF BeginSend, HandlerSteps
  <2>2. ASSUME NEW m \in MsgId, BeginRegenerate(t, m) PROVE TypeOK'
    BY <2>2, <2>g DEF BeginRegenerate, HandlerSteps
  <2>3. CASE PlacePending(t)
    BY <2>b, <2>3, <2>g DEF PlacePending, HandlerSteps
  <2>4. CASE RegisterKey(t)
    BY <2>a, <2>4, <2>g DEF RegisterKey, HandlerSteps
  <2>5. CASE RegisterDeadline(t)
    BY <2>a, <2>5, <2>g DEF RegisterDeadline, HandlerSteps
  <2>6. CASE Stage(t)
    BY <2>c, <2>6, <2>g, <2>l DEF Stage, HandlerSteps
  <2>7. CASE Replace(t)
    BY <1>a, <2>7, <2>g, <2>l DEF Replace, HandlerSteps
  <2>8. CASE ClearKey(t)
    BY <2>8, <2>g DEF ClearKey, AfterClear, HandlerSteps
  <2>9. CASE ClearZset(t)
    BY <2>9, <2>g DEF ClearZset, AfterClear, HandlerSteps
  <2>10. CASE Unplace(t)
    BY <1>a, <2>10, <2>g DEF Unplace, HandlerSteps
  <2>11. CASE Discard(t)
    BY <1>a, <2>11, <2>g, <2>l DEF Discard, HandlerSteps
  <2> QED
    BY <1>1, <2>1, <2>2, <2>3, <2>4, <2>5, <2>6, <2>7, <2>8, <2>9, <2>10, <2>11 DEF HandlerStep
<1>2. ASSUME NEW p \in Pods, NEW m \in MsgId, DeleteMessage(p, m) PROVE TypeOK'
  BY <1>0, <1>a, <1>2 DEF DeleteMessage
<1> QED
  BY <1>1, <1>2 DEF Handlers

\* The event a busy consumer handles is one of the partition.
LEMMA HandledIsEvent ==
    ASSUME TypeOK, NEW p \in Pods, cpc[p] # "idle"
    PROVE  coff[p] \in 1..Len(log) /\ Handled(p) \in Event
BY DEF TypeOK, StoreTypeOK, ConsumerTypeOK, OffsetsOK, Handled

\* A consumer that goes on with its event, or gives it up.
LEMMA BusyOffsets ==
    ASSUME TypeOK, NEW p \in Pods, cpc[p] \notin {"idle", "commit"},
           NEW x \in ConsumerSteps \ {"idle"}, ConsumerGoto(p, x),
           UNCHANGED <<log, pos, committed, coff>>
    PROVE  OffsetsOK'
BY DEF TypeOK, StoreTypeOK, ConsumerTypeOK, OffsetsOK, ConsumerGoto, Handled

\* A consumer that is done with its event, with offsets in order.
LEMMA IdleOffsets ==
    ASSUME TypeOK, NEW p \in Pods, ConsumerGoto(p, "idle"), Forget(p), log' = log,
           committed' < pos', pos' <= Len(log) + 1
    PROVE  OffsetsOK'
BY DEF TypeOK, StoreTypeOK, ConsumerTypeOK, OffsetsOK, ConsumerGoto, Forget, Handled

\* A step of a consumer keeps the types.
LEMMA ConsumerTyped ==
    ASSUME TypeOK, NEW p \in Pods, ConsumerStep(p), UNCHANGED <<handlerVars, timeoutVars>>
    PROVE  TypeOK'
<1> USE DEF GiveUp
<1>f. Fault \/ NoFault => faults' \in Nat
  BY FaultsTyped DEF TypeOK, StoreTypeOK
<1>l. UNCHANGED loop \/ Keep(p, "consumer") \/ Yield(p) => loop' \in [Pods -> Tasks]
  BY LoopTyped DEF TypeOK, StoreTypeOK, Yield, Tasks
<1>g. ASSUME NEW x \in ConsumerSteps, ConsumerGoto(p, x) PROVE cpc' \in [Pods -> ConsumerSteps]
  BY <1>g DEF TypeOK, ConsumerTypeOK, ConsumerGoto
<1>o. UNCHANGED coff \/ Deliver(p) \/ Forget(p) => coff' \in [Pods -> Nat]
  BY DEF TypeOK, ConsumerTypeOK, Deliver, Forget
<1>b. ASSUME NEW x \in ConsumerSteps \ {"idle"}, cpc[p] \notin {"idle", "commit"}, ConsumerGoto(p, x),
             UNCHANGED <<log, pos, committed, coff>>
      PROVE  OffsetsOK'
  BY <1>b, BusyOffsets
<1>i. ConsumerGoto(p, "idle") /\ Forget(p) /\ log' = log /\ committed' < pos' /\ pos' <= Len(log) + 1
        => OffsetsOK'
  BY IdleOffsets
<1>0. HandlerTypeOK' /\ TimeoutTypeOK'
  BY DEF TypeOK, HandlerTypeOK, TimeoutTypeOK, handlerVars, timeoutVars
<1>1. CASE Poll(p)
  <2>1. log[pos] \in Event
    BY <1>1 DEF Poll, TypeOK, StoreTypeOK, ConsumerTypeOK
  <2>2. StoreTypeOK' /\ ConsumerTypeOK'
    BY <1>f, <1>l, <1>g, <1>o, <1>1 DEF Poll, TypeOK, StoreTypeOK, ConsumerTypeOK, ConsumerSteps
  <2>3. OffsetsOK'
    <3>0. pos \in 1..Len(log) /\ log' = log /\ pos' = pos + 1 /\ committed' = committed
      BY <1>1 DEF Poll, TypeOK, StoreTypeOK, ConsumerTypeOK
    <3>1. ASSUME NEW x \in {"guard", "commit"}, ConsumerGoto(p, x), Deliver(p),
                 x = "guard" => log[pos].msg # NoMsg
          PROVE  OffsetsOK'
      <4>1. x = "guard" => log[pos].msg \in MsgId
        BY <2>1, <3>1 DEF Event
      <4>2. /\ coff' = [coff EXCEPT ![p] = pos]
            /\ cpc' = [cpc EXCEPT ![p] = x]
            /\ coff \in [Pods -> Nat] /\ cpc \in [Pods -> ConsumerSteps] /\ Len(log) \in Nat
        BY <3>1 DEF Deliver, ConsumerGoto, TypeOK, StoreTypeOK, ConsumerTypeOK
      <4>3. committed' < pos' /\ pos' <= Len(log') + 1
        BY <3>0, <4>2 DEF TypeOK, ConsumerTypeOK, OffsetsOK
      <4>4. ASSUME NEW q \in Pods
            PROVE  /\ coff'[q] <= Len(log') /\ (cpc'[q] = "idle" <=> coff'[q] = 0)
                   /\ cpc'[q] \notin {"idle", "commit"} => log'[coff'[q]].msg \in MsgId
        BY <3>0, <3>1, <4>1, <4>2 DEF TypeOK, OffsetsOK, Handled
      <4> QED BY <4>3, <4>4 DEF OffsetsOK, Handled
    <3>2. CASE ConsumerGoto(p, "idle") /\ Forget(p)
      BY <1>1, <1>i, <3>2 DEF Poll, TypeOK, StoreTypeOK, ConsumerTypeOK, OffsetsOK
    <3> QED BY <1>1, <3>1, <3>2 DEF Poll, Event
  <2> QED BY <1>0, <2>2, <2>3 DEF TypeOK
<1>2. CASE Guard(p)
  <2>1. StoreTypeOK' /\ ConsumerTypeOK'
    BY <1>f, <1>l, <1>g, <1>o, <1>2 DEF Guard, TypeOK, StoreTypeOK, ConsumerTypeOK, ConsumerSteps
  <2>2. OffsetsOK'
    BY <1>b, <1>i, <1>2 DEF Guard, TypeOK, ConsumerTypeOK, OffsetsOK, ConsumerSteps
  <2> QED BY <1>0, <2>1, <2>2 DEF TypeOK
<1>3. CASE WriteAnswer(p)
  <2>1. Handled(p) \in Event
    BY <1>3, HandledIsEvent DEF WriteAnswer
  <2>2. AnswerRows(Handled(p)) \in [MsgId -> Row]
    <3> DEFINE st == IF IsError(Handled(p)) THEN "failed" ELSE "sent"
    <3>1. st \in Statuses /\ "assistant" \in Senders /\ Handled(p).content \in Contents
      BY <2>1 DEF Statuses, Senders, Contents, Event
    <3>2. StoreTypeOK
      BY DEF TypeOK
    <3> QED BY <3>1, <3>2, RowTypes DEF AnswerRows
  <2>3. StoreTypeOK' /\ ConsumerTypeOK'
    BY <1>f, <1>l, <1>g, <1>o, <1>3, <2>2 DEF WriteAnswer, TypeOK, StoreTypeOK, ConsumerTypeOK, ConsumerSteps
  <2>4. OffsetsOK'
    BY <1>b, <1>i, <1>3 DEF WriteAnswer, TypeOK, ConsumerTypeOK, OffsetsOK, ConsumerSteps
  <2> QED BY <1>0, <2>3, <2>4 DEF TypeOK
<1>4. CASE ConsumerClearKey(p)
  <2>1. StoreTypeOK' /\ ConsumerTypeOK'
    BY <1>f, <1>l, <1>g, <1>o, <1>4 DEF ConsumerClearKey, TypeOK, StoreTypeOK, ConsumerTypeOK, ConsumerSteps
  <2>2. OffsetsOK'
    BY <1>b, <1>i, <1>4 DEF ConsumerClearKey, TypeOK, ConsumerTypeOK, OffsetsOK, ConsumerSteps
  <2> QED BY <1>0, <2>1, <2>2 DEF TypeOK
<1>5. CASE ConsumerClearZset(p)
  <2>1. StoreTypeOK' /\ ConsumerTypeOK'
    BY <1>f, <1>l, <1>g, <1>o, <1>5 DEF ConsumerClearZset, TypeOK, StoreTypeOK, ConsumerTypeOK, ConsumerSteps
  <2>2. OffsetsOK'
    BY <1>b, <1>i, <1>5 DEF ConsumerClearZset, TypeOK, ConsumerTypeOK, OffsetsOK, ConsumerSteps
  <2> QED BY <1>0, <2>1, <2>2 DEF TypeOK
<1>6. CASE PublishFinal(p)
  <2>1. Handled(p).msg \in MsgId
    BY <1>6 DEF PublishFinal, TypeOK, OffsetsOK
  <2>2. StoreTypeOK' /\ ConsumerTypeOK'
    BY <1>f, <1>l, <1>g, <1>o, <1>6, <2>1 DEF PublishFinal, Push, Terminal, TypeOK, StoreTypeOK, ConsumerTypeOK, ConsumerSteps
  <2>3. OffsetsOK'
    BY <1>b, <1>i, <1>6 DEF PublishFinal, TypeOK, ConsumerTypeOK, OffsetsOK, ConsumerSteps
  <2> QED BY <1>0, <2>2, <2>3 DEF TypeOK
<1>7. CASE SaveInbox(p)
  <2>1. Handled(p).msg \in MsgId
    BY <1>7 DEF SaveInbox, TypeOK, OffsetsOK
  <2>2. StoreTypeOK' /\ ConsumerTypeOK'
    BY <1>f, <1>l, <1>g, <1>o, <1>7, <2>1 DEF SaveInbox, TypeOK, StoreTypeOK, ConsumerTypeOK, ConsumerSteps
  <2>3. OffsetsOK'
    BY <1>b, <1>i, <1>7 DEF SaveInbox, TypeOK, ConsumerTypeOK, OffsetsOK, ConsumerSteps
  <2> QED BY <1>0, <2>2, <2>3 DEF TypeOK
<1>8. CASE Commit(p)
  <2>1. StoreTypeOK' /\ ConsumerTypeOK'
    BY <1>f, <1>l, <1>g, <1>o, <1>8 DEF Commit, Delivered, TypeOK, StoreTypeOK, ConsumerTypeOK, ConsumerSteps
  <2>2. OffsetsOK'
    BY <1>b, <1>i, <1>8 DEF Commit, Delivered, TypeOK, ConsumerTypeOK, OffsetsOK, ConsumerSteps
  <2> QED BY <1>0, <2>1, <2>2 DEF TypeOK
<1>9. CASE Rebalance(p)
  <2>1. StoreTypeOK' /\ ConsumerTypeOK'
    BY <1>f, <1>l, <1>g, <1>o, <1>9 DEF Rebalance, TypeOK, StoreTypeOK, ConsumerTypeOK, ConsumerSteps
  <2>2. OffsetsOK'
    BY <1>9 DEF Rebalance, TypeOK, StoreTypeOK, ConsumerTypeOK, OffsetsOK, Handled
  <2> QED BY <1>0, <2>1, <2>2 DEF TypeOK
<1> QED
  BY <1>1, <1>2, <1>3, <1>4, <1>5, <1>6, <1>7, <1>8, <1>9 DEF ConsumerStep

\* A step of a timeout worker keeps the types.
LEMMA TimeoutTyped ==
    ASSUME TypeOK, NEW p \in Pods, TimeoutStep(p), UNCHANGED <<handlerVars, consumerVars>>
    PROVE  TypeOK'
<1> USE DEF TypeOK, StoreTypeOK, storeVars, LeaveEntry
<1>0. log' = log => HandlerTypeOK' /\ ConsumerTypeOK' /\ OffsetsOK'
  BY DEF HandlerTypeOK, ConsumerTypeOK, OffsetsOK, Handled, handlerVars, consumerVars
<1>f. Fault \/ NoFault => faults' \in Nat
  BY FaultsTyped
<1>l. UNCHANGED loop \/ Keep(p, "timeout") \/ Yield(p) => loop' \in [Pods -> Tasks]
  BY LoopTyped DEF Yield, Tasks
<1>g. ASSUME NEW x \in TimeoutSteps, NEW m \in MsgId, TimeoutGoto(p, x), tid' = [tid EXCEPT ![p] = m]
      PROVE  TimeoutTypeOK'
  BY <1>g DEF TimeoutGoto, TimeoutTypeOK
<1>h. ASSUME NEW x \in TimeoutSteps, tpc[p] # "idle", TimeoutGoto(p, x), UNCHANGED tid
      PROVE  TimeoutTypeOK'
  BY <1>h DEF TimeoutGoto, TimeoutTypeOK
<1>e. TimeoutGoto(p, "idle") /\ tid' = [tid EXCEPT ![p] = NoMsg] => TimeoutTypeOK'
  BY DEF TimeoutGoto, TimeoutSteps, TimeoutTypeOK
<1>w. WithRow(tid[p], "assistant", "failed", "error") \in [MsgId -> Row]
  BY RowTypes DEF Senders, Statuses, Contents
<1> USE <1>0, <1>f, <1>l
<1>1. ASSUME NEW m \in MsgId, TakeExpired(p, m) PROVE TypeOK'
  BY <1>1, <1>g DEF TakeExpired, TimeoutSteps
<1>2. CASE CheckCompleted(p)
  BY <1>2, <1>h DEF CheckCompleted, TimeoutSteps
<1>3. CASE WriteTimeout(p)
  BY <1>3, <1>h, <1>e, <1>w DEF WriteTimeout, TimeoutSteps
<1>4. CASE PublishTimeout(p)
  <2>1. tid[p] \in MsgId
    BY <1>4 DEF PublishTimeout, TimeoutTypeOK
  <2> QED BY <1>4, <1>h, <2>1 DEF PublishTimeout, Push, Terminal, TimeoutSteps
<1>5. CASE RemoveKey(p)
  BY <1>5, <1>h, <1>e DEF RemoveKey, TimeoutSteps
<1>6. CASE RemoveEntry(p)
  BY <1>6, <1>e DEF RemoveEntry, TimeoutSteps
<1>7. CASE EntryFails(p)
  BY <1>7, <1>e DEF EntryFails, TimeoutSteps
<1> QED
  BY <1>1, <1>2, <1>3, <1>4, <1>5, <1>6, <1>7 DEF TimeoutStep

\* A new event at the end of the partition disturbs no consumer.
LEMMA LogGrows ==
    ASSUME TypeOK, NEW e \in Event, log' = Append(log, e), UNCHANGED <<pos, committed, coff, cpc>>
    PROVE  log' \in Seq(Event) /\ OffsetsOK'
<1>1. log \in Seq(Event) /\ Len(log) \in Nat
  BY DEF TypeOK, StoreTypeOK
<1>2. /\ log' \in Seq(Event)
      /\ Len(log') = Len(log) + 1
      /\ \A i \in 1..Len(log) : log'[i] = log[i]
  BY <1>1
<1>3. ASSUME NEW p \in Pods
      PROVE  /\ coff'[p] <= Len(log') /\ (cpc'[p] = "idle" <=> coff'[p] = 0)
             /\ cpc'[p] \notin {"idle", "commit"} => log'[coff'[p]].msg \in MsgId
  BY <1>1, <1>2, HandledIsEvent DEF TypeOK, ConsumerTypeOK, OffsetsOK, Handled
<1>4. committed' < pos' /\ pos' <= Len(log') + 1
  BY <1>1, <1>2 DEF TypeOK, ConsumerTypeOK, OffsetsOK
<1> QED BY <1>2, <1>3, <1>4 DEF OffsetsOK, Handled

\* A step of the environment keeps the types.
LEMMA EnvironmentTyped ==
    ASSUME TypeOK, Environment
    PROVE  TypeOK'
<1>1. ASSUME NEW t \in Turns, Relay(t) PROVE TypeOK'
  BY <1>1 DEF Relay, OffsetsOK, Handled, TypeOK, StoreTypeOK, HandlerTypeOK, ConsumerTypeOK, TimeoutTypeOK,
     handlerVars, consumerVars, timeoutVars
<1>2. ASSUME NEW t \in Turns, DeadlinePasses(t) PROVE TypeOK'
  BY <1>2, IdsAreMessages DEF DeadlinePasses, OffsetsOK, Handled, TypeOK, StoreTypeOK, HandlerTypeOK, ConsumerTypeOK, TimeoutTypeOK,
     handlerVars, consumerVars, timeoutVars
<1>3. ASSUME NEW t \in Turns, KeyExpires(t) PROVE TypeOK'
  BY <1>3 DEF KeyExpires, OffsetsOK, Handled, TypeOK, StoreTypeOK, HandlerTypeOK, ConsumerTypeOK, TimeoutTypeOK,
     handlerVars, consumerVars, timeoutVars
<1>4. ASSUME NEW t \in Turns, NEW how \in Addressing, NEW c \in {"", "reply", "error"},
             LlmReply(t, how, c)
      PROVE  TypeOK'
  <2>1. [msg |-> Addressee(t, how), content |-> c] \in Event
    BY AddressingAssumption DEF Addressee, Event, MsgId
  <2>2. log' \in Seq(Event) /\ OffsetsOK'
    BY <1>4, <2>1, LogGrows DEF LlmReply, consumerVars
  <2> QED BY <1>4, <2>2 DEF LlmReply, TypeOK, StoreTypeOK, HandlerTypeOK, ConsumerTypeOK,
     TimeoutTypeOK, handlerVars, consumerVars, timeoutVars
<1>5. ASSUME NEW p \in Pods, Crash(p) PROVE TypeOK'
  <2>1. hpc' \in [Turns -> HandlerSteps]
    BY <1>5 DEF Crash, HandlersDie, HandlerSteps, TypeOK, HandlerTypeOK
  <2>2. StoreTypeOK'
    BY <1>5, FaultsTyped, LoopTyped DEF Crash, Yield, Tasks, TypeOK, StoreTypeOK
  <2>3. pos' \in Nat \ {0} /\ committed' < pos' /\ pos' <= Len(log) + 1
    BY <1>5 DEF Crash, ConsumerDies, OffsetsOK, TypeOK, StoreTypeOK, ConsumerTypeOK
  <2>4. OffsetsOK'
    BY <1>5, <2>3, IdleOffsets DEF Crash, ConsumerDies
  <2>5. ConsumerTypeOK'
    BY <1>5, <2>3 DEF Crash, ConsumerDies, ConsumerGoto, Forget, ConsumerSteps, TypeOK, ConsumerTypeOK
  <2>6. TimeoutTypeOK'
    BY <1>5 DEF Crash, TimeoutDies, LeaveEntry, TimeoutGoto, TimeoutSteps, TypeOK, TimeoutTypeOK
  <2> QED BY <1>5, <2>1, <2>2, <2>4, <2>5, <2>6 DEF Crash, TypeOK, HandlerTypeOK
<1> QED
  BY <1>1, <1>2, <1>3, <1>4, <1>5 DEF Environment

\* Type correctness: whatever fails and however the pods interleave, every
\* table, marker, offset and program counter keeps its type, the group never
\* commits past what was delivered, and a busy consumer handles an event of
\* the partition.
THEOREM TypeCorrect == Spec => []TypeOK
<1>1. Init => TypeOK
  <2>1. StoreInit => StoreTypeOK
    <3>1. NoRow \in Row
      BY DEF NoRow, Row, Senders, Statuses, Contents
    <3>2. <<>> \in Seq(Event)
      OBVIOUS
    <3> QED BY <3>1, <3>2 DEF StoreInit, StoreTypeOK, Tasks
  <2>2. HandlerInit => HandlerTypeOK
    BY DEF HandlerInit, HandlerTypeOK, HandlerSteps
  <2>3. StoreInit /\ ConsumerInit => ConsumerTypeOK /\ OffsetsOK
    BY DEF StoreInit, ConsumerInit, ConsumerTypeOK, OffsetsOK, ConsumerSteps
  <2>4. TimeoutInit => TimeoutTypeOK
    BY DEF TimeoutInit, TimeoutTypeOK, TimeoutSteps
  <2> QED BY <2>1, <2>2, <2>3, <2>4 DEF Init, TypeOK
<1>2. TypeOK /\ [Next]_vars => TypeOK'
  <2> SUFFICES ASSUME TypeOK, [Next]_vars PROVE TypeOK'
    OBVIOUS
  <2>1. CASE UNCHANGED vars
    BY <2>1 DEF vars, storeVars, handlerVars, consumerVars, timeoutVars, TypeOK, StoreTypeOK, HandlerTypeOK,
       ConsumerTypeOK, OffsetsOK, Handled, TimeoutTypeOK
  <2>2. CASE Next
    BY <2>2, HandlersTyped, ConsumerTyped, TimeoutTyped, EnvironmentTyped DEF Next
  <2> QED BY <2>1, <2>2
<1> QED BY <1>1, <1>2, PTL DEF Spec

-----------------------------------------------------------------------------
(* What a step may do to the message table. *)

Placing(t) == hpc[t] \in Opening /\ rows' = WithRow(ResponseId(t), "assistant", "pending", "")
Asking(t) == /\ hpc[t] \in Opening
             /\ replaces[t] = NoMsg
             /\ rows' = WithRow(RequestId(t), "user", "sent", "prompt")
Answering(m, st, c) == rows[m].sender # "user" /\ rows' = WithRow(m, "assistant", st, c)

RowStep ==
    \/ UNCHANGED rows
    \/ \E m \in MsgId : rows' = WithDeleted(m)
    \/ \E t \in Turns : Placing(t) \/ Asking(t)
    \/ \E m \in MsgId, st \in {"sent", "failed"}, c \in Contents : Answering(m, st, c)

\* A handler writes placeholders and requests while it opens the response;
\* every other statement of it, and of a client's delete, is a soft delete.
LEMMA HandlerRows ==
    ASSUME TypeOK, Handlers
    PROVE  RowStep
<1>1. ASSUME NEW t \in Turns, HandlerStep(t) PROVE RowStep
  <2> DEFINE D == \E m \in MsgId : rows' = WithDeleted(m)
  <2>0. ResponseId(t) \in MsgId
    BY IdsAreMessages
  <2>1. CASE PlacePending(t)
    BY <2>1 DEF PlacePending, RowStep, Placing, Opening
  <2>2. CASE Stage(t)
    BY <2>2 DEF Stage, StagedRows, RowStep, Placing, Asking, Opening
  <2>3. CASE Replace(t)
    <3>1. CASE rows' = WithDeleted(replaces[t])
      <4>1. CASE replaces[t] \in MsgId
        BY <3>1, <4>1 DEF RowStep
      <4>2. CASE replaces[t] \notin MsgId
        <5>1. rows' = rows
          BY <3>1, <4>2 DEF WithDeleted, TypeOK, StoreTypeOK
        <5> QED BY <5>1 DEF RowStep
      <4> QED BY <4>1, <4>2
    <3>2. CASE rows' = rows
      BY <3>2 DEF RowStep
    <3> QED BY <2>3, <3>1, <3>2 DEF Replace
  <2>4. CASE Unplace(t)
    BY <2>0, <2>4 DEF Unplace, RowStep
  <2>5. CASE Discard(t)
    BY <2>0, <2>5 DEF Discard, RowStep
  <2>6. CASE BeginSend(t) \/ (\E m \in MsgId : BeginRegenerate(t, m))
    BY <2>6 DEF BeginSend, BeginRegenerate, RowStep, storeVars
  <2>7. CASE RegisterKey(t) \/ RegisterDeadline(t) \/ ClearKey(t) \/ ClearZset(t)
    BY <2>7 DEF RegisterKey, RegisterDeadline, ClearKey, ClearZset, RowStep
  <2> QED BY <1>1, <2>1, <2>2, <2>3, <2>4, <2>5, <2>6, <2>7 DEF HandlerStep
<1>2. ASSUME NEW p \in Pods, NEW m \in MsgId, DeleteMessage(p, m) PROVE RowStep
  BY <1>2 DEF DeleteMessage, RowStep
<1> QED BY <1>1, <1>2 DEF Handlers

\* A consumer writes an outcome, and only over a row its guard accepted.
LEMMA ConsumerRows ==
    ASSUME TypeOK, WriteIsGuarded, NEW p \in Pods, ConsumerStep(p)
    PROVE  RowStep
<1>1. CASE WriteAnswer(p)
  <2>1. Handled(p) \in Event /\ Handled(p).msg \in MsgId
    BY <1>1, HandledIsEvent DEF WriteAnswer, TypeOK, OffsetsOK
  <2>2. rows[Handled(p).msg].sender # "user"
    BY <1>1 DEF WriteAnswer, WriteIsGuarded
  <2>3. Handled(p).content \in Contents
    BY <2>1 DEF Event, Contents
  <2> DEFINE st == IF IsError(Handled(p)) THEN "failed" ELSE "sent"
  <2>4. st \in {"sent", "failed"}
    OBVIOUS
  <2>5. rows' = rows \/ Answering(Handled(p).msg, st, Handled(p).content)
    BY <1>1, <2>2 DEF WriteAnswer, AnswerRows, Answering
  <2> QED BY <2>1, <2>3, <2>4, <2>5 DEF RowStep
<1>2. CASE ~WriteAnswer(p)
  BY <1>2 DEF ConsumerStep, Poll, Guard, ConsumerClearKey, ConsumerClearZset, PublishFinal, SaveInbox,
     Commit, Rebalance, RowStep
<1> QED BY <1>1, <1>2

\* The timeout worker writes a failure, and only under a response id.
LEMMA TimeoutRows ==
    ASSUME TypeOK, ResponsesAreAssistants, MarkersNameResponses, NEW p \in Pods, TimeoutStep(p)
    PROVE  RowStep
<1>1. CASE WriteTimeout(p)
  <2>1. tid[p] \in Responses /\ tid[p] \in MsgId
    BY <1>1 DEF WriteTimeout, MarkersNameResponses, TypeOK, TimeoutTypeOK
  <2>2. Answering(tid[p], "failed", "error")
    BY <1>1, <2>1 DEF WriteTimeout, Answering, ResponsesAreAssistants
  <2> QED BY <2>1, <2>2 DEF RowStep, Contents
<1>2. CASE ~WriteTimeout(p)
  BY <1>2 DEF TimeoutStep, TakeExpired, CheckCompleted, PublishTimeout, RemoveKey, RemoveEntry, EntryFails,
     RowStep, storeVars
<1> QED BY <1>1, <1>2

\* Every step changes the message table in one of the ways of RowStep.
LEMMA RowsChange ==
    ASSUME TypeOK, TurnInv, Next
    PROVE  RowStep
<1>1. CASE Environment
  BY <1>1 DEF Environment, Relay, DeadlinePasses, KeyExpires, LlmReply, Crash, RowStep
<1> QED BY <1>1, HandlerRows, ConsumerRows, TimeoutRows DEF Next, TurnInv

\* A row becomes a user's only while the send that owns it opens.
LEMMA SenderKept ==
    ASSUME TypeOK, RowStep, NEW m \in MsgId, rows[m].sender # "user"
    PROVE  \/ rows'[m].sender # "user"
           \/ \E t \in Turns : m = RequestId(t) /\ hpc[t] \in Opening
<1> USE DEF TypeOK, StoreTypeOK, Row
<1>1. ASSUME NEW n \in MsgId, rows' = WithDeleted(n) PROVE rows'[m].sender = rows[m].sender
  BY <1>1 DEF WithDeleted
<1>2. ASSUME NEW t \in Turns, Placing(t) PROVE rows'[m].sender # "user"
  BY <1>2 DEF Placing, WithRow
<1>3. ASSUME NEW t \in Turns, Asking(t), m # RequestId(t) PROVE rows'[m].sender # "user"
  BY <1>3 DEF Asking, WithRow
<1>4. ASSUME NEW n \in MsgId, NEW st, NEW c, Answering(n, st, c) PROVE rows'[m].sender # "user"
  BY <1>4 DEF Answering, WithRow
<1> QED BY <1>1, <1>2, <1>3, <1>4 DEF RowStep, Asking

\* A stored outcome is only forgotten while its own turn opens.
LEMMA StoredKept ==
    ASSUME TypeOK, RowStep, NEW m \in MsgId, Stored(m)
    PROVE  Stored(m)' \/ \E t \in Turns : m = ResponseId(t) /\ hpc[t] \in Opening
<1> USE DEF TypeOK, StoreTypeOK, Row, Stored
<1>1. ASSUME NEW n \in MsgId, rows' = WithDeleted(n) PROVE Stored(m)'
  BY <1>1 DEF WithDeleted
<1>2. ASSUME NEW t \in Turns, Placing(t), m # ResponseId(t) PROVE Stored(m)'
  BY <1>2 DEF Placing, WithRow
<1>3. ASSUME NEW t \in Turns, Asking(t) PROVE Stored(m)'
  BY <1>3 DEF Asking, WithRow
<1>4. ASSUME NEW n \in MsgId, NEW st \in {"sent", "failed"}, NEW c, Answering(n, st, c) PROVE Stored(m)'
  BY <1>4 DEF Answering, WithRow
<1> QED BY <1>1, <1>2, <1>3, <1>4 DEF RowStep, Placing

\* No step but a soft delete touches the row of a send that was staged.
IsPrompt(m) == /\ rows[m].sender = "user"
               /\ rows[m].content = "prompt"
               /\ rows[m].status \in {"sent", "deleted"}

\* The row of a send, once there, stays the user's prompt.
LEMMA PromptKept ==
    ASSUME TypeOK, RowStep, NEW u \in Turns, IsPrompt(RequestId(u))
    PROVE  IsPrompt(RequestId(u))'
<1> DEFINE m == RequestId(u)
<1>0. m \in MsgId /\ \A t \in Turns : m # ResponseId(t)
  BY IdsAreMessages, IdsAreInjective
<1> USE DEF TypeOK, StoreTypeOK, Row, IsPrompt
<1> HIDE DEF m
<1>1. ASSUME NEW n \in MsgId, rows' = WithDeleted(n), IsPrompt(m) PROVE IsPrompt(m)'
  BY <1>0, <1>1 DEF WithDeleted
<1>2. ASSUME NEW t \in Turns, Placing(t), IsPrompt(m) PROVE IsPrompt(m)'
  BY <1>0, <1>2 DEF Placing, WithRow
<1>3. ASSUME NEW t \in Turns, Asking(t), IsPrompt(m) PROVE IsPrompt(m)'
  BY <1>0, <1>3 DEF Asking, WithRow
<1>4. ASSUME NEW n \in MsgId, NEW st \in {"sent", "failed"}, NEW c, Answering(n, st, c), IsPrompt(m)
      PROVE  IsPrompt(m)'
  BY <1>0, <1>4 DEF Answering, WithRow
<1>5. IsPrompt(m) => IsPrompt(m)'
  BY <1>1, <1>2, <1>3, <1>4 DEF RowStep
<1> QED BY <1>5 DEF m

-----------------------------------------------------------------------------
(* The order in which a turn is staged, published and answered. *)

\* Only Stage(t) stages a turn; staged and published never go back.
LEMMA OutboxStep ==
    ASSUME TypeOK, OpeningIsUnstaged, Next, NEW t \in Turns
    PROVE  /\ outbox[t] = "published" => outbox'[t] = "published"
           /\ outbox[t] # "none" => outbox'[t] # "none"
           /\ outbox'[t] # "none" /\ outbox[t] = "none" =>
                 rows' = StagedRows(t) /\ hpc[t] = "stage" /\ hpc'[t] \notin Opening
<1> USE DEF TypeOK, StoreTypeOK, HandlerTypeOK
<1> DEFINE Goal == /\ outbox[t] = "published" => outbox'[t] = "published"
                   /\ outbox[t] # "none" => outbox'[t] # "none"
                   /\ outbox'[t] # "none" /\ outbox[t] = "none" =>
                         rows' = StagedRows(t) /\ hpc[t] = "stage" /\ hpc'[t] \notin Opening
<1>1. ASSUME NEW u \in Turns, Stage(u) PROVE Goal
  <2>1. outbox[u] = "none"
    BY <1>1 DEF Stage, OpeningIsUnstaged, Opening
  <2>2. CASE u = t
    BY <1>1, <2>1, <2>2 DEF Stage, Goto, Opening
  <2>3. CASE u # t
    BY <1>1, <2>3 DEF Stage
  <2> QED BY <2>2, <2>3
<1>2. ASSUME NEW u \in Turns, Relay(u) PROVE Goal
  BY <1>2 DEF Relay
<1>3. CASE UNCHANGED outbox
  BY <1>3
<1>4. ASSUME NEW u \in Turns, HandlerStep(u), ~Stage(u) PROVE UNCHANGED outbox
  BY <1>4 DEF HandlerStep, BeginSend, BeginRegenerate, PlacePending, RegisterKey, RegisterDeadline,
     Replace, ClearKey, ClearZset, Unplace, Discard, storeVars
<1>5. CASE Handlers
  BY <1>1, <1>3, <1>4, <1>5 DEF Handlers, DeleteMessage
<1>6. ASSUME NEW p \in Pods, ConsumerStep(p) PROVE UNCHANGED outbox
  BY <1>6 DEF ConsumerStep, Poll, Guard, WriteAnswer, ConsumerClearKey, ConsumerClearZset, PublishFinal,
     SaveInbox, Commit, Rebalance
<1>7. ASSUME NEW p \in Pods, TimeoutStep(p) PROVE UNCHANGED outbox
  BY <1>7 DEF TimeoutStep, TakeExpired, CheckCompleted, WriteTimeout, PublishTimeout, RemoveKey,
     RemoveEntry, EntryFails, storeVars
<1>8. CASE Environment
  BY <1>2, <1>3, <1>8 DEF Environment, DeadlinePasses, KeyExpires, LlmReply, Crash
<1> QED BY <1>3, <1>5, <1>6, <1>7, <1>8 DEF Next

\* A handler never goes back to opening, and opening ends with the staging.
LEMMA OpeningStep ==
    ASSUME TypeOK, Next, NEW t \in Turns, hpc'[t] \in Opening
    PROVE  hpc[t] \in Opening
<1> USE DEF TypeOK, HandlerTypeOK
<1>1. ASSUME NEW u \in Turns, HandlerStep(u) PROVE hpc[t] \in Opening
  <2>1. CASE hpc[t] \notin Opening /\ t # u
    BY <1>1, <2>1 DEF HandlerStep, BeginSend, BeginRegenerate, PlacePending, RegisterKey, RegisterDeadline,
       Stage, Replace, ClearKey, ClearZset, Unplace, Discard, Goto
  <2>2. CASE hpc[t] \notin Opening /\ t = u
    <3>1. CASE Replace(t) \/ Unplace(t) \/ Discard(t)
      BY <3>1 DEF Replace, Unplace, Discard, Goto, Opening
    <3>2. CASE ClearKey(t) \/ ClearZset(t)
      BY <3>2 DEF ClearKey, ClearZset, AfterClear, Goto, Opening
    <3> QED BY <1>1, <2>2, <3>1, <3>2 DEF HandlerStep, BeginSend, BeginRegenerate, PlacePending,
               RegisterKey, RegisterDeadline, Stage, Opening
  <2> QED BY <2>1, <2>2
<1>2. CASE Handlers
  BY <1>1, <1>2 DEF Handlers, DeleteMessage, handlerVars
<1>3. CASE UNCHANGED hpc
  BY <1>3
<1>4. ASSUME NEW p \in Pods, Crash(p) PROVE hpc[t] \in Opening
  BY <1>4 DEF Crash, HandlersDie, Opening
<1>5. CASE Environment
  BY <1>3, <1>4, <1>5 DEF Environment, Relay, DeadlinePasses, KeyExpires, LlmReply, handlerVars
<1> QED BY <1>2, <1>3, <1>5 DEF Next, handlerVars

\* A handler that still opens its response has staged nothing.
LEMMA OpeningInv ==
    ASSUME TypeOK, OpeningIsUnstaged, Next
    PROVE  OpeningIsUnstaged'
BY OutboxStep, OpeningStep DEF OpeningIsUnstaged

\* Only llm-service writes the partition.
LEMMA LogStep ==
    ASSUME Next
    PROVE  \/ UNCHANGED log
           \/ \E t \in Turns, how \in Addressing, c \in {"", "reply", "error"} : LlmReply(t, how, c)
<1>1. CASE Handlers
  BY <1>1 DEF Handlers, HandlerStep, BeginSend, BeginRegenerate, PlacePending, RegisterKey, RegisterDeadline,
     Stage, Replace, ClearKey, ClearZset, Unplace, Discard, DeleteMessage, storeVars
<1>2. ASSUME NEW p \in Pods, ConsumerStep(p) PROVE UNCHANGED log
  BY <1>2 DEF ConsumerStep, Poll, Guard, WriteAnswer, ConsumerClearKey, ConsumerClearZset, PublishFinal,
     SaveInbox, Commit, Rebalance
<1>3. ASSUME NEW p \in Pods, TimeoutStep(p) PROVE UNCHANGED log
  BY <1>3 DEF TimeoutStep, TakeExpired, CheckCompleted, WriteTimeout, PublishTimeout, RemoveKey,
     RemoveEntry, EntryFails, storeVars
<1>4. CASE Environment
  BY <1>4 DEF Environment, Relay, DeadlinePasses, KeyExpires, Crash
<1> QED BY <1>1, <1>2, <1>3, <1>4 DEF Next

\* An event of llm-service answers a published request or names nothing.
LEMMA ReplyStep ==
    ASSUME NEW t \in Turns, NEW how \in Addressing, NEW c \in {"", "reply", "error"}, LlmReply(t, how, c)
    PROVE  \E e \in Event : /\ log' = Append(log, e)
                            /\ e.msg \in Ids(t) \cup {NoMsg}
                            /\ outbox[t] = "published" /\ UNCHANGED outbox
<1> DEFINE e == [msg |-> Addressee(t, how), content |-> c]
<1>1. Addressee(t, how) \in Ids(t) \cup {NoMsg}
  BY AddressingAssumption DEF Addressee, Ids, RequestId, ResponseId
<1>2. Ids(t) \subseteq MsgId
  BY IdsAreMessages DEF Ids
<1>3. e \in Event
  BY <1>1, <1>2 DEF Event
<1>4. e.msg \in Ids(t) \cup {NoMsg}
  BY <1>1
<1> QED BY <1>3, <1>4 DEF LlmReply

\* The partition is append-only, so events keep their offset.
LEMMA AppendKeeps ==
    ASSUME TypeOK, NEW e \in Event, log' = Append(log, e)
    PROVE  /\ Len(log) \in Nat /\ Len(log') = Len(log) + 1 /\ log'[Len(log) + 1] = e
           /\ \A i \in 1..Len(log) : log'[i] = log[i]
<1>1. log \in Seq(Event)
  BY DEF TypeOK, StoreTypeOK
<1> QED BY <1>1

\* No step changes or removes an event of the partition.
LEMMA LogKept ==
    ASSUME TypeOK, Next
    PROVE  /\ Len(log) \in Nat /\ Len(log') \in Nat /\ Len(log) <= Len(log')
           /\ \A i \in 1..Len(log) : log'[i] = log[i]
<1>1. Len(log) \in Nat
  BY DEF TypeOK, StoreTypeOK
<1>2. ASSUME NEW e \in Event, log' = Append(log, e)
      PROVE  Len(log') = Len(log) + 1 /\ \A i \in 1..Len(log) : log'[i] = log[i]
  BY <1>2, AppendKeeps
<1>3. UNCHANGED log \/ \E e \in Event : log' = Append(log, e)
  BY LogStep, ReplyStep
<1> QED BY <1>1, <1>2, <1>3

\* Every event of the partition still answers a published request.
LEMMA AnsweredInv ==
    ASSUME TypeOK, OpeningIsUnstaged, AnsweredWasPublished, Next
    PROVE  AnsweredWasPublished'
<1> SUFFICES ASSUME NEW u \in Turns, NEW i \in 1..Len(log'), log'[i].msg \in Ids(u)
             PROVE  outbox'[u] = "published"
  BY DEF AnsweredWasPublished, Ids
<1>1. CASE UNCHANGED log
  BY <1>1, OutboxStep DEF AnsweredWasPublished
<1>2. ASSUME NEW t \in Turns, NEW e \in Event, log' = Append(log, e), e.msg \in Ids(t) \cup {NoMsg},
             outbox[t] = "published", UNCHANGED outbox
      PROVE  outbox'[u] = "published"
  <2>1. CASE i \in 1..Len(log)
    BY <2>1, LogKept, OutboxStep DEF AnsweredWasPublished
  <2>2. CASE i \notin 1..Len(log)
    <3>1. log'[i] = e
      BY <1>2, <2>2, AppendKeeps
    <3>2. e.msg \in MsgId /\ e.msg # NoMsg
      BY <3>1, IdsAreMessages, TurnsAssumption DEF Ids
    <3>3. t = u
      BY <1>2, <3>1, <3>2, IdsAreInjective DEF Ids
    <3> QED BY <1>2, <3>3
  <2> QED BY <2>1, <2>2
<1> QED BY <1>1, <1>2, LogStep, ReplyStep

\* Only a consumer at its last step writes the inbox.
LEMMA InboxStep ==
    ASSUME Next, NEW m \in inbox', m \notin inbox
    PROVE  \E p \in Pods : cpc[p] = "save" /\ m = Handled(p).msg /\ UNCHANGED <<rows, outbox>>
<1>1. CASE Handlers
  BY <1>1 DEF Handlers, HandlerStep, BeginSend, BeginRegenerate, PlacePending, RegisterKey, RegisterDeadline,
     Stage, Replace, ClearKey, ClearZset, Unplace, Discard, DeleteMessage, storeVars
<1>2. ASSUME NEW p \in Pods, ConsumerStep(p)
      PROVE  cpc[p] = "save" /\ m = Handled(p).msg /\ UNCHANGED <<rows, outbox>>
  BY <1>2 DEF ConsumerStep, Poll, Guard, WriteAnswer, ConsumerClearKey, ConsumerClearZset, PublishFinal,
     SaveInbox, Commit, Rebalance
<1>3. ASSUME NEW p \in Pods, TimeoutStep(p) PROVE UNCHANGED inbox
  BY <1>3 DEF TimeoutStep, TakeExpired, CheckCompleted, WriteTimeout, PublishTimeout, RemoveKey,
     RemoveEntry, EntryFails, storeVars
<1>4. CASE Environment
  BY <1>4 DEF Environment, Relay, DeadlinePasses, KeyExpires, LlmReply, Crash
<1> QED BY <1>1, <1>2, <1>3, <1>4 DEF Next

\* An event that is being handled answers a published request.
LEMMA HandledWasPublished ==
    ASSUME TypeOK, AnsweredWasPublished, NEW p \in Pods, cpc[p] # "idle",
           NEW t \in Turns, Handled(p).msg \in Ids(t)
    PROVE  outbox[t] = "published"
BY HandledIsEvent DEF AnsweredWasPublished, Handled

\* So does every inbox entry.
LEMMA InboxPublishedInv ==
    ASSUME TypeOK, TurnInv, Next
    PROVE  InboxWasPublished'
<1> SUFFICES ASSUME NEW t \in Turns, NEW m \in Ids(t), m \in inbox'
             PROVE  outbox'[t] = "published"
  BY DEF InboxWasPublished, Ids
<1>1. CASE m \in inbox
  BY <1>1, OutboxStep DEF InboxWasPublished, TurnInv
<1>2. CASE m \notin inbox
  BY <1>2, InboxStep, HandledWasPublished DEF TurnInv
<1> QED BY <1>1, <1>2

-----------------------------------------------------------------------------
(* Markers, and what a consumer knows at each of its steps. *)

\* Markers, and the entries being processed, still name responses.
LEMMA MarkersInv ==
    ASSUME TypeOK, MarkersNameResponses, Next
    PROVE  MarkersNameResponses'
<1> USE DEF MarkersNameResponses
<1>1. CASE Handlers /\ UNCHANGED <<consumerVars, timeoutVars>>
  <2>0. UNCHANGED <<tpc, tid>>
    BY <1>1 DEF timeoutVars
  <2>1. ASSUME NEW t \in Turns, HandlerStep(t) PROVE MarkersNameResponses'
    <3>1. ResponseId(t) \in Responses
      BY DEF Responses
    <3>2. CASE RegisterKey(t)
      BY <2>0, <3>1, <3>2 DEF RegisterKey
    <3>3. CASE RegisterDeadline(t)
      BY <2>0, <3>1, <3>3 DEF RegisterDeadline
    <3>4. CASE ClearKey(t) \/ ClearZset(t)
      BY <2>0, <3>4 DEF ClearKey, ClearZset
    <3>5. CASE ~(RegisterKey(t) \/ RegisterDeadline(t) \/ ClearKey(t) \/ ClearZset(t))
      <4>1. UNCHANGED <<key, zset, due>>
        BY <2>1, <3>5 DEF HandlerStep, BeginSend, BeginRegenerate, PlacePending, Stage, Replace, Unplace,
           Discard, storeVars
      <4> QED BY <2>0, <4>1
    <3> QED BY <3>2, <3>3, <3>4, <3>5
  <2>2. ASSUME NEW p \in Pods, NEW m \in MsgId, DeleteMessage(p, m) PROVE MarkersNameResponses'
    BY <2>0, <2>2 DEF DeleteMessage
  <2> QED BY <1>1, <2>1, <2>2 DEF Handlers
<1>2. ASSUME NEW p \in Pods, ConsumerStep(p), UNCHANGED <<handlerVars, timeoutVars>>
      PROVE  MarkersNameResponses'
  <2>1. key' \subseteq key /\ zset' \subseteq zset /\ due' = due
    BY <1>2 DEF ConsumerStep, Poll, Guard, WriteAnswer, ConsumerClearKey, ConsumerClearZset, PublishFinal,
       SaveInbox, Commit, Rebalance
  <2> QED BY <1>2, <2>1 DEF timeoutVars
<1>3. ASSUME NEW p \in Pods, TimeoutStep(p) PROVE MarkersNameResponses'
  <2>1. key' \subseteq key /\ zset' \subseteq zset /\ due' = due
    BY <1>3 DEF TimeoutStep, TakeExpired, CheckCompleted, WriteTimeout, PublishTimeout, RemoveKey,
       RemoveEntry, EntryFails, storeVars
  <2>2. ASSUME NEW q \in Pods, tpc'[q] # "idle" PROVE tid'[q] \in due
    <3>1. CASE \E m \in MsgId : TakeExpired(p, m)
      BY <2>2, <3>1 DEF TakeExpired, TimeoutGoto, TypeOK, TimeoutTypeOK
    <3>2. CASE ~(\E m \in MsgId : TakeExpired(p, m))
      BY <1>3, <2>2, <3>2 DEF TimeoutStep, CheckCompleted, WriteTimeout, PublishTimeout, RemoveKey,
         RemoveEntry, EntryFails, LeaveEntry, TimeoutGoto, TypeOK, TimeoutTypeOK
    <3> QED BY <3>1, <3>2
  <2> QED BY <2>1, <2>2
<1>4. CASE Environment
  <2>1. ASSUME NEW t \in Turns, Relay(t) \/ DeadlinePasses(t) \/ KeyExpires(t) PROVE MarkersNameResponses'
    BY <2>1 DEF Relay, DeadlinePasses, KeyExpires, timeoutVars, Responses
  <2>2. ASSUME NEW p \in Pods, Crash(p) PROVE MarkersNameResponses'
    BY <2>2 DEF Crash, TimeoutDies, LeaveEntry, TimeoutGoto, TypeOK, TimeoutTypeOK
  <2>3. ASSUME NEW t \in Turns, NEW how, NEW c, LlmReply(t, how, c) PROVE MarkersNameResponses'
    BY <2>3 DEF LlmReply, timeoutVars
  <2> QED BY <1>4, <2>1, <2>2, <2>3 DEF Environment
<1> QED BY <1>1, <1>2, <1>3, <1>4 DEF Next

\* How a consumer comes to the steps that act on what it has read.
Clearing == {"clearKey", "clearZset", "publish", "save"}

\* How a consumer comes to the write, and to what follows it.
LEMMA ConsumerMoves ==
    ASSUME TypeOK, NEW p \in Pods, ConsumerStep(p), NEW q \in Pods
    PROVE  /\ cpc'[q] = "write" =>
                /\ coff'[q] = coff[q]
                /\ \/ cpc[q] = "write"
                   \/ /\ cpc[q] = "guard" /\ Writable(Handled(q).msg) /\ UNCHANGED rows
                      /\ ~(IsError(Handled(q)) /\ AlreadyAnswered(Handled(q).msg))
           /\ cpc'[q] \in Clearing =>
                /\ coff'[q] = coff[q]
                /\ \/ cpc[q] \in Clearing
                   \/ /\ cpc[q] = "guard" /\ UNCHANGED rows
                      /\ IsError(Handled(q)) /\ AlreadyAnswered(Handled(q).msg)
                   \/ cpc[q] = "write" /\ rows' = AnswerRows(Handled(q))
<1> USE DEF TypeOK, ConsumerTypeOK, Clearing, ConsumerGoto
<1>1. CASE Poll(p)
  BY <1>1 DEF Poll, GiveUp, Deliver, Forget
<1>2. CASE Guard(p)
  BY <1>2 DEF Guard, GiveUp, Forget
<1>3. CASE WriteAnswer(p)
  BY <1>3 DEF WriteAnswer, GiveUp, Forget
<1>4. CASE ConsumerClearKey(p) \/ ConsumerClearZset(p) \/ PublishFinal(p)
  BY <1>4 DEF ConsumerClearKey, ConsumerClearZset, PublishFinal
<1>5. CASE SaveInbox(p)
  BY <1>5 DEF SaveInbox, GiveUp, Forget
<1>6. CASE Commit(p) \/ Rebalance(p)
  BY <1>6 DEF Commit, Rebalance, Forget
<1> QED BY <1>1, <1>2, <1>3, <1>4, <1>5, <1>6 DEF ConsumerStep

\* No other step moves a busy consumer; a crash makes it idle.
LEMMA ConsumerFrame ==
    ASSUME TypeOK, Next, ~(\E p \in Pods : ConsumerStep(p)), NEW q \in Pods, cpc'[q] # "idle"
    PROVE  cpc'[q] = cpc[q] /\ coff'[q] = coff[q]
<1> USE DEF TypeOK, ConsumerTypeOK
<1>1. ASSUME NEW p \in Pods, Crash(p) PROVE cpc'[q] = cpc[q] /\ coff'[q] = coff[q]
  BY <1>1 DEF Crash, ConsumerDies, ConsumerGoto, Forget
<1>2. CASE Environment
  BY <1>1, <1>2 DEF Environment, Relay, DeadlinePasses, KeyExpires, LlmReply, consumerVars
<1> QED BY <1>2 DEF Next, consumerVars

\* The event a consumer handles stays what it is.
LEMMA HandledKept ==
    ASSUME TypeOK, Next, NEW q \in Pods, cpc[q] # "idle", coff'[q] = coff[q]
    PROVE  Handled(q)' = Handled(q)
BY HandledIsEvent, LogKept DEF Handled

\* The row of an event being handled is out of reach of its own handler.
LEMMA HandledIsOpened ==
    ASSUME TypeOK, TurnInv, NEW q \in Pods, cpc[q] # "idle", NEW t \in Turns, Handled(q).msg \in Ids(t)
    PROVE  hpc[t] \notin Opening
BY HandledWasPublished DEF TurnInv, OpeningIsUnstaged

\* A row found writable does not become a user's before the write.
LEMMA WriteInv ==
    ASSUME TypeOK, TurnInv, Next
    PROVE  WriteIsGuarded'
<1> SUFFICES ASSUME NEW q \in Pods, cpc'[q] = "write"
             PROVE  rows'[Handled(q)'.msg].sender # "user"
  BY DEF WriteIsGuarded
<1>1. /\ coff'[q] = coff[q]
      /\ \/ cpc[q] = "write"
         \/ cpc[q] = "guard" /\ Writable(Handled(q).msg) /\ UNCHANGED rows
  BY ConsumerMoves, ConsumerFrame
<1>2. Handled(q)' = Handled(q) /\ Handled(q).msg \in MsgId
  BY <1>1, HandledKept DEF TypeOK, OffsetsOK
<1>3. CASE cpc[q] = "write"
  <2>1. rows[Handled(q).msg].sender # "user"
    BY <1>3 DEF TurnInv, WriteIsGuarded
  <2>2. ASSUME NEW t \in Turns, Handled(q).msg = RequestId(t) PROVE hpc[t] \notin Opening
    BY <1>3, <2>2, HandledIsOpened DEF Ids
  <2> QED BY <1>2, <2>1, <2>2, RowsChange, SenderKept
<1>4. CASE Writable(Handled(q).msg) /\ UNCHANGED rows
  BY <1>2, <1>4 DEF Writable, GetMessage, TypeOK, StoreTypeOK, Row
<1> QED BY <1>1, <1>3, <1>4

\* A stored outcome is not forgotten while its markers are cleared.
LEMMA ClearedInv ==
    ASSUME TypeOK, TurnInv, Next
    PROVE  ClearedIsStored'
<1> SUFFICES ASSUME NEW q \in Pods, cpc'[q] \in Clearing
             PROVE  rows'[Handled(q)'.msg].status \notin {"absent", "pending"}
  BY DEF ClearedIsStored, Clearing, Stored
<1>1. /\ coff'[q] = coff[q]
      /\ \/ cpc[q] \in Clearing
         \/ cpc[q] = "guard" /\ AlreadyAnswered(Handled(q).msg) /\ UNCHANGED rows
         \/ cpc[q] = "write" /\ rows' = AnswerRows(Handled(q))
  BY ConsumerMoves, ConsumerFrame DEF Clearing
<1>2. Handled(q)' = Handled(q) /\ Handled(q).msg \in MsgId
  BY <1>1, HandledKept DEF TypeOK, OffsetsOK, Clearing
<1>3. CASE cpc[q] \in Clearing
  <2>1. Stored(Handled(q).msg)
    BY <1>3 DEF TurnInv, ClearedIsStored, Clearing
  <2>2. ASSUME NEW t \in Turns, Handled(q).msg = ResponseId(t) PROVE hpc[t] \notin Opening
    BY <1>3, <2>2, HandledIsOpened DEF Ids, Clearing
  <2>3. rows'[Handled(q).msg].status \notin {"absent", "pending"}
    BY <1>2, <2>1, <2>2, RowsChange, StoredKept DEF Stored
  <2> QED BY <1>2, <2>3
<1>4. CASE AlreadyAnswered(Handled(q).msg) /\ UNCHANGED rows
  BY <1>2, <1>4 DEF AlreadyAnswered, GetMessage, TypeOK, StoreTypeOK, Row
<1>5. CASE rows' = AnswerRows(Handled(q))
  BY <1>2, <1>5 DEF AnswerRows, WithRow, TypeOK, StoreTypeOK
<1> QED BY <1>1, <1>3, <1>4, <1>5

\* No step turns a response row into a user's.
LEMMA AssistantsInv ==
    ASSUME TypeOK, TurnInv, Next
    PROVE  ResponsesAreAssistants'
<1> SUFFICES ASSUME NEW u \in Turns PROVE rows'[ResponseId(u)].sender # "user"
  BY DEF ResponsesAreAssistants, Responses
<1>1. rows[ResponseId(u)].sender # "user"
  BY DEF TurnInv, ResponsesAreAssistants, Responses
<1> QED BY <1>1, RowsChange, SenderKept, IdsAreMessages, IdsAreInjective

\* A turn becomes a regeneration before anything of it is staged.
LEMMA ReplacesStep ==
    ASSUME TypeOK, Next, NEW t \in Turns, replaces'[t] = NoMsg
    PROVE  replaces[t] = NoMsg
<1> USE DEF TypeOK, HandlerTypeOK
<1>1. ASSUME NEW u \in Turns, NEW m \in MsgId, BeginRegenerate(u, m) PROVE replaces[t] = NoMsg
  BY <1>1, TurnsAssumption DEF BeginRegenerate
<1>2. CASE Handlers
  BY <1>1, <1>2 DEF Handlers, HandlerStep, BeginSend, PlacePending, RegisterKey, RegisterDeadline,
     Stage, Replace, ClearKey, ClearZset, Unplace, Discard, DeleteMessage, handlerVars
<1>3. CASE Environment
  BY <1>3 DEF Environment, Relay, DeadlinePasses, KeyExpires, LlmReply, Crash, handlerVars
<1> QED BY <1>2, <1>3 DEF Next, handlerVars

\* No step takes a staged prompt from its user.
LEMMA UserRowsInv ==
    ASSUME TypeOK, TurnInv, Next
    PROVE  UserRowsIntact'
<1> SUFFICES ASSUME NEW t \in Turns, replaces'[t] = NoMsg, outbox'[t] # "none"
             PROVE  IsPrompt(RequestId(t))'
  BY DEF UserRowsIntact, IsPrompt
<1>0. replaces[t] = NoMsg
  BY ReplacesStep
<1>1. CASE outbox[t] # "none"
  <2>1. IsPrompt(RequestId(t))
    BY <1>0, <1>1 DEF TurnInv, UserRowsIntact, IsPrompt
  <2> QED BY <2>1, RowsChange, PromptKept
<1>2. CASE outbox[t] = "none"
  <2>1. rows' = WithRow(RequestId(t), "user", "sent", "prompt")
    BY <1>0, <1>2, OutboxStep DEF TurnInv, StagedRows
  <2> QED BY <2>1, IdsAreMessages DEF WithRow, IsPrompt, TypeOK, StoreTypeOK
<1> QED BY <1>1, <1>2

\* Every inbox entry still has its outcome stored.
LEMMA InboxInv ==
    ASSUME TypeOK, TurnInv, Next
    PROVE  InboxMeansAnswered'
<1> SUFFICES ASSUME NEW m \in inbox' PROVE rows'[m].status \notin {"absent", "pending"}
  BY DEF InboxMeansAnswered
<1>1. CASE m \in inbox
  <2>1. m \in MsgId /\ Stored(m)
    BY <1>1 DEF TurnInv, InboxMeansAnswered, Stored, TypeOK, StoreTypeOK
  <2>2. ASSUME NEW t \in Turns, m = ResponseId(t) PROVE hpc[t] \notin Opening
    BY <1>1, <2>2 DEF TurnInv, InboxWasPublished, OpeningIsUnstaged, Ids
  <2> QED BY <2>1, <2>2, RowsChange, StoredKept DEF Stored
<1>2. CASE m \notin inbox
  BY <1>2, InboxStep DEF TurnInv, ClearedIsStored, Stored
<1> QED BY <1>1, <1>2

\* TurnInv is inductive.
LEMMA TurnInvStep ==
    ASSUME TypeOK, TurnInv, Next
    PROVE  TurnInv'
<1>1. OpeningIsUnstaged /\ AnsweredWasPublished /\ MarkersNameResponses
  BY DEF TurnInv
<1> QED BY <1>1, OpeningInv, AnsweredInv, InboxPublishedInv, AssistantsInv, MarkersInv, WriteInv, ClearedInv,
           UserRowsInv, InboxInv DEF TurnInv

\* TurnInv holds at the start.
LEMMA TurnInvInit == Init => TurnInv
<1> SUFFICES ASSUME Init PROVE TurnInv
  OBVIOUS
<1> USE DEF Init, StoreInit, HandlerInit, ConsumerInit, TimeoutInit
<1>1. OpeningIsUnstaged /\ InboxWasPublished /\ MarkersNameResponses /\ WriteIsGuarded /\ ClearedIsStored
  BY DEF OpeningIsUnstaged, InboxWasPublished, MarkersNameResponses, WriteIsGuarded, ClearedIsStored
<1>2. AnsweredWasPublished
  BY DEF AnsweredWasPublished
<1>3. ResponsesAreAssistants
  BY IdsAreMessages DEF ResponsesAreAssistants, Responses, NoRow
<1>4. UserRowsIntact /\ InboxMeansAnswered
  BY DEF UserRowsIntact, InboxMeansAnswered
<1> QED BY <1>1, <1>2, <1>3, <1>4 DEF TurnInv

\* Stuttering changes nothing.
LEMMA TurnInvStutter ==
    ASSUME TurnInv, UNCHANGED vars
    PROVE  TurnInv'
BY DEF vars, storeVars, handlerVars, consumerVars, timeoutVars, TurnInv, OpeningIsUnstaged,
   AnsweredWasPublished, InboxWasPublished, ResponsesAreAssistants, MarkersNameResponses, WriteIsGuarded,
   ClearedIsStored, UserRowsIntact, InboxMeansAnswered, Stored, Handled

\* The inductive invariant holds: a turn is opened, staged, published and
\* answered in that order, whatever fails in between.
THEOREM TurnInvariantHolds == Spec => []TurnInv
<1>1. TypeOK /\ TurnInv /\ [Next]_vars => TurnInv'
  BY TurnInvStep, TurnInvStutter
<1> QED BY <1>1, TurnInvInit, TypeCorrect, PTL DEF Spec

\* The row of a staged send stays the user's, with its text, whatever
\* response id llm-service echoes (_is_writable_assistant_row).
THEOREM UserRowsStayIntact == Spec => []UserRowsIntact
<1>1. TurnInv => UserRowsIntact
  BY DEF TurnInv
<1> QED BY <1>1, TurnInvariantHolds, PTL

\* A response in the inbox has its outcome stored: skipping a redelivered
\* final event never loses the answer (_handle_chat_response_generated).
THEOREM InboxImpliesAnswered == Spec => []InboxMeansAnswered
<1>1. TurnInv => InboxMeansAnswered
  BY DEF TurnInv
<1> QED BY <1>1, TurnInvariantHolds, PTL


-----------------------------------------------------------------------------
(* How handlers move. *)

\* A request that ended stays ended.
LEMMA EndedStays ==
    ASSUME TypeOK, Next, NEW t \in Turns, hpc[t] \in Ended \ {"idle"}
    PROVE  hpc'[t] = hpc[t]
<1> USE DEF TypeOK, HandlerTypeOK, Ended
<1>1. ASSUME NEW u \in Turns, HandlerStep(u) PROVE hpc'[t] = hpc[t]
  <2>1. u # t
    BY <1>1 DEF HandlerStep, BeginSend, BeginRegenerate, PlacePending, RegisterKey, RegisterDeadline,
       Stage, Replace, ClearKey, ClearZset, Unplace, Discard
  <2> QED BY <1>1, <2>1 DEF HandlerStep, BeginSend, BeginRegenerate, PlacePending, RegisterKey,
             RegisterDeadline, Stage, Replace, ClearKey, ClearZset, Unplace, Discard, Goto
<1>2. CASE Handlers
  BY <1>1, <1>2 DEF Handlers, DeleteMessage, handlerVars
<1>3. CASE Environment
  BY <1>3 DEF Environment, Relay, DeadlinePasses, KeyExpires, LlmReply, Crash, HandlersDie, handlerVars
<1> QED BY <1>2, <1>3 DEF Next, handlerVars

\* Where a handler comes from: the marker is complete when it stages, and
\* only a successful batch makes the turn accepted.
LEMMA HandlerMoves ==
    ASSUME TypeOK, Next, NEW t \in Turns
    PROVE  /\ Accepted(t)' => Accepted(t) \/ (hpc[t] = "stage" /\ UNCHANGED <<key, zset>>)
           /\ hpc'[t] = "stage" =>
                \/ hpc[t] = "stage"
                \/ hpc[t] = "zadd" /\ ResponseId(t) \in zset' /\ UNCHANGED key
           /\ hpc'[t] = "zadd" => hpc[t] = "zadd" \/ ResponseId(t) \in key'
           /\ hpc'[t] \in {"idle", "place", "set"} => hpc[t] \in {"idle", "place", "set"}
<1> DEFINE G == /\ Accepted(t)' => Accepted(t) \/ (hpc[t] = "stage" /\ UNCHANGED <<key, zset>>)
                /\ hpc'[t] = "stage" =>
                     \/ hpc[t] = "stage"
                     \/ hpc[t] = "zadd" /\ ResponseId(t) \in zset' /\ UNCHANGED key
                /\ hpc'[t] = "zadd" => hpc[t] = "zadd" \/ ResponseId(t) \in key'
                /\ hpc'[t] \in {"idle", "place", "set"} => hpc[t] \in {"idle", "place", "set"}
<1> USE DEF TypeOK, HandlerTypeOK, Accepted
<1>1. CASE hpc'[t] = hpc[t]
  BY <1>1
<1>2. ASSUME NEW u \in Turns, HandlerStep(u) PROVE G
  <2>1. CASE u # t
    <3>1. hpc'[t] = hpc[t]
      BY <1>2, <2>1 DEF HandlerStep, BeginSend, BeginRegenerate, PlacePending, RegisterKey, RegisterDeadline,
         Stage, Replace, ClearKey, ClearZset, Unplace, Discard, Goto
    <3> QED BY <1>1, <3>1
  <2>2. CASE BeginSend(t) \/ (\E m \in MsgId : BeginRegenerate(t, m)) \/ PlacePending(t)
    BY <2>2 DEF BeginSend, BeginRegenerate, PlacePending, Goto
  <2>3. CASE RegisterKey(t)
    BY <2>3 DEF RegisterKey, Goto
  <2>4. CASE RegisterDeadline(t)
    BY <2>4 DEF RegisterDeadline, Goto
  <2>5. CASE Stage(t)
    BY <2>5 DEF Stage, Goto
  <2>6. CASE Replace(t) \/ Unplace(t) \/ Discard(t)
    BY <2>6 DEF Replace, Unplace, Discard, Goto
  <2>7. CASE ClearKey(t) \/ ClearZset(t)
    BY <2>7 DEF ClearKey, ClearZset, AfterClear, Goto
  <2> QED BY <1>2, <2>1, <2>2, <2>3, <2>4, <2>5, <2>6, <2>7 DEF HandlerStep
<1>3. CASE Handlers
  BY <1>1, <1>2, <1>3 DEF Handlers, DeleteMessage, handlerVars
<1>4. ASSUME NEW p \in Pods, Crash(p) PROVE G
  BY <1>4 DEF Crash, HandlersDie, Ended
<1>5. CASE Environment
  BY <1>1, <1>4, <1>5 DEF Environment, Relay, DeadlinePasses, KeyExpires, LlmReply, handlerVars
<1> QED BY <1>1, <1>3, <1>5 DEF Next, handlerVars

-----------------------------------------------------------------------------
(* Who removes a marker, and who adds one. *)

\* The DEL of a compensation, of a consumer and of a worker, or the TTL.
LEMMA KeyRemoved ==
    ASSUME TypeOK, Next, NEW m \in key, m \notin key'
    PROVE  \/ \E t \in Turns : m = ResponseId(t) /\ hpc[t] \in {"clearKey", "discardKey"}
           \/ \E q \in Pods : cpc[q] = "clearKey" /\ m = Handled(q).msg
           \/ \E q \in Pods : tpc[q] = "del" /\ m = tid[q]
           \/ KeyMayExpire /\ m \in due
<1>1. ASSUME NEW t \in Turns, HandlerStep(t)
      PROVE  m = ResponseId(t) /\ hpc[t] \in {"clearKey", "discardKey"}
  BY <1>1 DEF HandlerStep, BeginSend, BeginRegenerate, PlacePending, RegisterKey, RegisterDeadline,
     Stage, Replace, ClearKey, ClearZset, Unplace, Discard, storeVars
<1>2. CASE Handlers
  BY <1>1, <1>2 DEF Handlers, DeleteMessage
<1>3. ASSUME NEW p \in Pods, ConsumerStep(p) PROVE cpc[p] = "clearKey" /\ m = Handled(p).msg
  BY <1>3 DEF ConsumerStep, Poll, Guard, WriteAnswer, ConsumerClearKey, ConsumerClearZset, PublishFinal,
     SaveInbox, Commit, Rebalance
<1>4. ASSUME NEW p \in Pods, TimeoutStep(p) PROVE tpc[p] = "del" /\ m = tid[p]
  BY <1>4 DEF TimeoutStep, TakeExpired, CheckCompleted, WriteTimeout, PublishTimeout, RemoveKey,
     RemoveEntry, EntryFails, storeVars
<1>5. CASE Environment
  BY <1>5 DEF Environment, Relay, DeadlinePasses, KeyExpires, LlmReply, Crash
<1> QED BY <1>2, <1>3, <1>4, <1>5 DEF Next

\* The ZREM of a compensation, of a consumer and of a worker.
LEMMA ZsetRemoved ==
    ASSUME TypeOK, Next, NEW m \in zset, m \notin zset'
    PROVE  \/ \E t \in Turns : m = ResponseId(t) /\ hpc[t] \in {"clearZset", "discardZset"}
           \/ \E q \in Pods : cpc[q] = "clearZset" /\ m = Handled(q).msg
           \/ \E q \in Pods : tpc[q] = "zrem" /\ m = tid[q]
<1>1. ASSUME NEW t \in Turns, HandlerStep(t)
      PROVE  m = ResponseId(t) /\ hpc[t] \in {"clearZset", "discardZset"}
  BY <1>1 DEF HandlerStep, BeginSend, BeginRegenerate, PlacePending, RegisterKey, RegisterDeadline,
     Stage, Replace, ClearKey, ClearZset, Unplace, Discard, storeVars
<1>2. CASE Handlers
  BY <1>1, <1>2 DEF Handlers, DeleteMessage
<1>3. ASSUME NEW p \in Pods, ConsumerStep(p) PROVE cpc[p] = "clearZset" /\ m = Handled(p).msg
  BY <1>3 DEF ConsumerStep, Poll, Guard, WriteAnswer, ConsumerClearKey, ConsumerClearZset, PublishFinal,
     SaveInbox, Commit, Rebalance
<1>4. ASSUME NEW p \in Pods, TimeoutStep(p) PROVE tpc[p] = "zrem" /\ m = tid[p]
  BY <1>4 DEF TimeoutStep, TakeExpired, CheckCompleted, WriteTimeout, PublishTimeout, RemoveKey,
     RemoveEntry, EntryFails, storeVars
<1>5. CASE Environment
  BY <1>5 DEF Environment, Relay, DeadlinePasses, KeyExpires, LlmReply, Crash
<1> QED BY <1>2, <1>3, <1>4, <1>5 DEF Next

\* The ZADD of a handler.
LEMMA ZsetAdded ==
    ASSUME TypeOK, Next, NEW m \in zset', m \notin zset
    PROVE  \E t \in Turns : m = ResponseId(t) /\ hpc[t] = "zadd" /\ hpc'[t] \notin {"idle", "place", "set"}
<1>1. ASSUME NEW t \in Turns, HandlerStep(t) PROVE RegisterDeadline(t) /\ m = ResponseId(t)
  BY <1>1 DEF HandlerStep, BeginSend, BeginRegenerate, PlacePending, RegisterKey, RegisterDeadline,
     Stage, Replace, ClearKey, ClearZset, Unplace, Discard, storeVars
<1>2. ASSUME NEW t \in Turns, RegisterDeadline(t)
      PROVE  hpc[t] = "zadd" /\ hpc'[t] \notin {"idle", "place", "set"}
  BY <1>2 DEF RegisterDeadline, Goto, TypeOK, HandlerTypeOK
<1>3. CASE Handlers
  BY <1>1, <1>2, <1>3 DEF Handlers, DeleteMessage
<1>4. ASSUME NEW p \in Pods, ConsumerStep(p) PROVE zset' \subseteq zset
  BY <1>4 DEF ConsumerStep, Poll, Guard, WriteAnswer, ConsumerClearKey, ConsumerClearZset, PublishFinal,
     SaveInbox, Commit, Rebalance
<1>5. ASSUME NEW p \in Pods, TimeoutStep(p) PROVE zset' \subseteq zset
  BY <1>5 DEF TimeoutStep, TakeExpired, CheckCompleted, WriteTimeout, PublishTimeout, RemoveKey,
     RemoveEntry, EntryFails, storeVars
<1>6. CASE Environment
  BY <1>6 DEF Environment, Relay, DeadlinePasses, KeyExpires, LlmReply, Crash
<1> QED BY <1>3, <1>4, <1>5, <1>6 DEF Next

\* Deadlines only pass.
LEMMA DueStep ==
    ASSUME TypeOK, Next
    PROVE  /\ due \subseteq due'
           /\ \A m \in due' \ due :
                 \E t \in Turns : m = ResponseId(t) /\ m \in zset /\ (SlowHandlers \/ ~Live(t)) /\ UNCHANGED hpc
<1>1. CASE UNCHANGED due
  BY <1>1
<1>2. CASE Handlers
  BY <1>1, <1>2 DEF Handlers, HandlerStep, BeginSend, BeginRegenerate, PlacePending, RegisterKey,
     RegisterDeadline, Stage, Replace, ClearKey, ClearZset, Unplace, Discard, DeleteMessage, storeVars
<1>3. ASSUME NEW p \in Pods, ConsumerStep(p) PROVE UNCHANGED due
  BY <1>3 DEF ConsumerStep, Poll, Guard, WriteAnswer, ConsumerClearKey, ConsumerClearZset, PublishFinal,
     SaveInbox, Commit, Rebalance
<1>4. ASSUME NEW p \in Pods, TimeoutStep(p) PROVE UNCHANGED due
  BY <1>4 DEF TimeoutStep, TakeExpired, CheckCompleted, WriteTimeout, PublishTimeout, RemoveKey,
     RemoveEntry, EntryFails, storeVars
<1>5. CASE Environment
  BY <1>1, <1>5 DEF Environment, Relay, DeadlinePasses, KeyExpires, LlmReply, Crash, handlerVars
<1> QED BY <1>1, <1>2, <1>3, <1>4, <1>5 DEF Next

\* A row becomes pending only while its own turn opens.
LEMMA PendingStep ==
    ASSUME TypeOK, RowStep, NEW m \in MsgId, rows'[m].status = "pending"
    PROVE  \/ rows[m].status = "pending"
           \/ \E t \in Turns : m = ResponseId(t) /\ hpc[t] \in Opening
<1> USE DEF TypeOK, StoreTypeOK, Row
<1>1. ASSUME NEW n \in MsgId, rows' = WithDeleted(n) PROVE rows[m].status = "pending"
  BY <1>1 DEF WithDeleted
<1>2. ASSUME NEW t \in Turns, Placing(t), m # ResponseId(t) PROVE rows[m].status = "pending"
  BY <1>2 DEF Placing, WithRow
<1>3. ASSUME NEW t \in Turns, Asking(t) PROVE rows[m].status = "pending"
  BY <1>3 DEF Asking, WithRow
<1>4. ASSUME NEW n \in MsgId, NEW st \in {"sent", "failed"}, NEW c, Answering(n, st, c)
      PROVE  rows[m].status = "pending"
  BY <1>4 DEF Answering, WithRow
<1> QED BY <1>1, <1>2, <1>3, <1>4 DEF RowStep, Placing

\* How a worker comes to the steps that remove a marker.
LEMMA TimeoutMoves ==
    ASSUME TypeOK, NEW p \in Pods, TimeoutStep(p), NEW q \in Pods
    PROVE  /\ tpc'[q] \in {"publish", "del"} =>
                /\ tid'[q] = tid[q]
                /\ \/ tpc[q] \in {"publish", "del"}
                   \/ tpc[q] = "check" /\ Completed(tid[q]) /\ UNCHANGED rows
                   \/ tpc[q] = "write" /\ rows' = WithRow(tid[q], "assistant", "failed", "error")
           /\ tpc'[q] = "zrem" =>
                \/ tid'[q] = tid[q] /\ tpc[q] \in {"zrem", "del"}
                \/ tid'[q] \in due \ key /\ UNCHANGED rows
<1> USE DEF TypeOK, TimeoutTypeOK, TimeoutGoto
<1>1. ASSUME NEW m \in MsgId, TakeExpired(p, m)
      PROVE  /\ tpc'[q] \in {"publish", "del"} => tid'[q] = tid[q] /\ tpc[q] \in {"publish", "del"}
             /\ tpc'[q] = "zrem" => \/ tid'[q] = tid[q] /\ tpc[q] \in {"zrem", "del"}
                                    \/ tid'[q] \in due \ key /\ UNCHANGED rows
  BY <1>1 DEF TakeExpired, storeVars
<1>2. CASE CheckCompleted(p)
  BY <1>2 DEF CheckCompleted
<1>3. CASE WriteTimeout(p)
  BY <1>3 DEF WriteTimeout, LeaveEntry
<1>4. CASE PublishTimeout(p) \/ RemoveKey(p)
  BY <1>4 DEF PublishTimeout, RemoveKey, LeaveEntry
<1>5. CASE RemoveEntry(p) \/ EntryFails(p)
  BY <1>5 DEF RemoveEntry, EntryFails, LeaveEntry
<1> QED BY <1>1, <1>2, <1>3, <1>4, <1>5 DEF TimeoutStep

\* No other step moves a busy worker; a crash makes it idle.
LEMMA TimeoutFrame ==
    ASSUME TypeOK, Next, ~(\E p \in Pods : TimeoutStep(p)), NEW q \in Pods, tpc'[q] # "idle"
    PROVE  tpc'[q] = tpc[q] /\ tid'[q] = tid[q]
<1> USE DEF TypeOK, TimeoutTypeOK
<1>1. ASSUME NEW p \in Pods, Crash(p) PROVE tpc'[q] = tpc[q] /\ tid'[q] = tid[q]
  BY <1>1 DEF Crash, TimeoutDies, LeaveEntry, TimeoutGoto
<1>2. CASE Environment
  BY <1>1, <1>2 DEF Environment, Relay, DeadlinePasses, KeyExpires, LlmReply, timeoutVars
<1> QED BY <1>2 DEF Next, timeoutVars

-----------------------------------------------------------------------------
(* The protection invariant. *)

\* A due marker belongs to a request that ended, so its row is never
\* reopened: what is not pending stays so.
LEMMA DueIsSettled ==
    ASSUME TypeOK, TurnInv, DueIsEnded, Next, NEW m \in due, rows[m].status # "pending"
    PROVE  rows'[m].status # "pending"
<1>1. m \in MsgId
  BY DEF TypeOK, StoreTypeOK
<1>2. ASSUME NEW t \in Turns, m = ResponseId(t) PROVE hpc[t] \notin Opening
  BY <1>2 DEF DueIsEnded, Ended, Opening
<1> QED BY <1>1, <1>2, RowsChange, PendingStep

\* A deadline passes only after its request has ended.
LEMMA DueInv ==
    ASSUME ~SlowHandlers, TypeOK, TurnInv, ProtectionInv, Next
    PROVE  DueIsEnded'
<1> SUFFICES ASSUME NEW t \in Turns
             PROVE  /\ ResponseId(t) \in zset' => hpc'[t] \notin {"idle", "place", "set"}
                    /\ ResponseId(t) \in due' => hpc'[t] \in Ended \ {"idle"}
  BY DEF DueIsEnded
<1>1. ASSUME ResponseId(t) \in zset' PROVE hpc'[t] \notin {"idle", "place", "set"}
  <2>1. CASE ResponseId(t) \in zset
    BY <2>1, HandlerMoves DEF ProtectionInv, DueIsEnded
  <2>2. CASE ResponseId(t) \notin zset
    BY <1>1, <2>2, ZsetAdded, IdsAreInjective
  <2> QED BY <2>1, <2>2
<1>2. ASSUME ResponseId(t) \in due' PROVE hpc'[t] \in Ended \ {"idle"}
  <2>1. CASE ResponseId(t) \in due
    BY <2>1, EndedStays DEF ProtectionInv, DueIsEnded
  <2>2. CASE ResponseId(t) \notin due
    BY <1>2, <2>2, DueStep, IdsAreInjective DEF ProtectionInv, DueIsEnded, Live
  <2> QED BY <2>1, <2>2
<1> QED BY <1>1, <1>2

\* Nobody removes half a marker of a turn that is about to be staged.
LEMMA MarkedInv ==
    ASSUME ~SlowHandlers, TypeOK, TurnInv, ProtectionInv, Next
    PROVE  StagingIsMarked'
<1> SUFFICES ASSUME NEW t \in Turns
             PROVE  /\ hpc'[t] \in {"zadd", "stage"} => ResponseId(t) \in key'
                    /\ hpc'[t] = "stage" => ResponseId(t) \in zset'
  BY DEF StagingIsMarked
<1> DEFINE m == ResponseId(t)
<1>0. ASSUME hpc[t] \in {"zadd", "stage"}
      PROVE  /\ \A u \in Turns : m = ResponseId(u) => hpc[u] \in {"zadd", "stage"}
             /\ \A q \in Pods : cpc[q] # "idle" => Handled(q).msg # m
             /\ \A q \in Pods : tpc[q] # "idle" => tid[q] # m
             /\ m \notin due
  <2>1. m \notin due
    BY <1>0 DEF ProtectionInv, DueIsEnded, Ended
  <2>2. ASSUME NEW q \in Pods, cpc[q] # "idle" PROVE Handled(q).msg # m
    BY <1>0, <2>2, HandledIsOpened DEF Ids, Opening
  <2>3. ASSUME NEW q \in Pods, tpc[q] # "idle" PROVE tid[q] # m
    BY <2>1, <2>3 DEF TurnInv, MarkersNameResponses
  <2>4. ASSUME NEW u \in Turns, m = ResponseId(u) PROVE hpc[u] \in {"zadd", "stage"}
    BY <1>0, <2>4, IdsAreInjective
  <2> QED BY <2>1, <2>2, <2>3, <2>4
<1>1. ASSUME hpc[t] \in {"zadd", "stage"} PROVE m \in key'
  <2>1. m \in key
    BY <1>1 DEF ProtectionInv, StagingIsMarked
  <2> HIDE DEF m
  <2> QED BY <1>0, <1>1, <2>1, KeyRemoved
<1>2. ASSUME hpc[t] = "stage" PROVE m \in zset'
  <2>1. m \in zset
    BY <1>2 DEF ProtectionInv, StagingIsMarked
  <2> HIDE DEF m
  <2> QED BY <1>0, <1>2, <2>1, ZsetRemoved
<1> QED BY <1>1, <1>2, HandlerMoves

\* The timeout worker is still right about an entry when it removes it.
LEMMA RemovedInv ==
    ASSUME ~SlowHandlers, TypeOK, TurnInv, ProtectionInv, Next
    PROVE  RemovedIsSettled'
<1> SUFFICES ASSUME NEW q \in Pods
             PROVE  /\ tpc'[q] \in {"publish", "del"} => rows'[tid'[q]].status # "pending"
                    /\ tpc'[q] = "zrem" =>
                          \/ KeyMayExpire
                          \/ rows'[tid'[q]].status # "pending"
                          \/ \A t \in Turns : tid'[q] = ResponseId(t) => ~Accepted(t)'
  BY DEF RemovedIsSettled, Accepted
<1>0. /\ tpc'[q] \in {"publish", "del"} =>
           /\ tid'[q] = tid[q]
           /\ \/ tpc[q] \in {"publish", "del"}
              \/ tpc[q] = "check" /\ Completed(tid[q]) /\ UNCHANGED rows
              \/ tpc[q] = "write" /\ rows' = WithRow(tid[q], "assistant", "failed", "error")
      /\ tpc'[q] = "zrem" =>
           \/ tid'[q] = tid[q] /\ tpc[q] \in {"zrem", "del"}
           \/ tid'[q] \in due \ key /\ UNCHANGED rows
  BY TimeoutMoves, TimeoutFrame
<1>d. DueIsEnded
  BY DEF ProtectionInv
<1>1. ASSUME tpc'[q] \in {"publish", "del"} PROVE rows'[tid'[q]].status # "pending"
  <2>1. tid'[q] = tid[q] /\ tid[q] \in due /\ tid[q] \in MsgId
    BY <1>0, <1>1 DEF TurnInv, MarkersNameResponses, TypeOK, TimeoutTypeOK
  <2>2. CASE tpc[q] \in {"publish", "del"}
    BY <1>d, <2>1, <2>2, DueIsSettled DEF ProtectionInv, RemovedIsSettled
  <2>3. CASE Completed(tid[q]) /\ UNCHANGED rows
    BY <2>1, <2>3 DEF Completed, GetMessage, TypeOK, StoreTypeOK, Row
  <2>4. CASE rows' = WithRow(tid[q], "assistant", "failed", "error")
    BY <2>1, <2>4 DEF WithRow, TypeOK, StoreTypeOK
  <2> QED BY <1>0, <1>1, <2>2, <2>3, <2>4
<1>2. ASSUME tpc'[q] = "zrem", ~KeyMayExpire, rows'[tid'[q]].status = "pending",
             NEW t \in Turns, tid'[q] = ResponseId(t)
      PROVE  ~Accepted(t)'
  <2>1. ASSUME ResponseId(t) \in due, ~Accepted(t) PROVE ~Accepted(t)'
    BY <1>d, <2>1, EndedStays DEF DueIsEnded, Accepted
  <2>2. CASE tid'[q] = tid[q] /\ tpc[q] \in {"zrem", "del"}
    <3>1. tid[q] \in due
      BY <2>2 DEF TurnInv, MarkersNameResponses
    <3>2. rows[tid[q]].status = "pending"
      BY <1>2, <1>d, <2>2, <3>1, DueIsSettled
    <3>3. ~Accepted(t)
      BY <1>2, <2>2, <3>2 DEF ProtectionInv, RemovedIsSettled
    <3> QED BY <1>2, <2>1, <2>2, <3>1, <3>3
  <2>3. CASE tid'[q] \in due \ key /\ UNCHANGED rows
    <3>1. ~Accepted(t)
      BY <1>2, <2>3 DEF ProtectionInv, StagedIsProtected
    <3> QED BY <1>2, <2>1, <2>3, <3>1
  <2> QED BY <1>0, <1>2, <2>2, <2>3
<1> QED BY <1>1, <1>2

\* No step takes a half of the marker from an accepted turn that waits.
LEMMA ProtectedInv ==
    ASSUME ~SlowHandlers, TypeOK, TurnInv, ProtectionInv, Next
    PROVE  StagedIsProtected'
<1> SUFFICES ASSUME NEW t \in Turns, Accepted(t)', rows'[ResponseId(t)].status = "pending",
                    KeyMayExpire => ResponseId(t) \notin due'
             PROVE  ResponseId(t) \in key' /\ ResponseId(t) \in zset'
  BY DEF StagedIsProtected, Accepted
<1> DEFINE m == ResponseId(t)
<1>0. m \in MsgId /\ (KeyMayExpire => m \notin due)
  BY IdsAreMessages, DueStep
<1>1. CASE Accepted(t)
  <2>1. rows[m].status = "pending"
    <3>1. ASSUME NEW u \in Turns, m = ResponseId(u) PROVE hpc[u] \notin Opening
      BY <1>1, <3>1, IdsAreInjective DEF Accepted, Opening
    <3> QED BY <1>0, <3>1, RowsChange, PendingStep
  <2>2. m \in key /\ m \in zset
    BY <1>0, <1>1, <2>1 DEF ProtectionInv, StagedIsProtected
  <2>3. ASSUME NEW u \in Turns, m = ResponseId(u)
        PROVE  hpc[u] \notin {"clearKey", "discardKey", "clearZset", "discardZset"}
    BY <1>1, <2>3, IdsAreInjective DEF Accepted
  <2>4. ASSUME NEW q \in Pods, cpc[q] \in {"clearKey", "clearZset"} PROVE m # Handled(q).msg
    BY <2>1, <2>4 DEF TurnInv, ClearedIsStored, Stored
  <2>5. ASSUME NEW q \in Pods, tpc[q] = "del" PROVE m # tid[q]
    BY <2>1, <2>5 DEF ProtectionInv, RemovedIsSettled
  <2>6. ASSUME NEW q \in Pods, tpc[q] = "zrem" PROVE m # tid[q]
    <3>1. tid[q] \in due
      BY <2>6 DEF TurnInv, MarkersNameResponses
    <3> QED BY <1>0, <1>1, <2>1, <2>6, <3>1 DEF ProtectionInv, RemovedIsSettled
  <2> HIDE DEF m
  <2>7. m \in key'
    BY <1>0, <2>2, <2>3, <2>4, <2>5, KeyRemoved
  <2>8. m \in zset'
    BY <2>2, <2>3, <2>4, <2>6, ZsetRemoved
  <2> QED BY <2>7, <2>8 DEF m
<1>2. CASE ~Accepted(t)
  BY <1>2, HandlerMoves DEF ProtectionInv, StagingIsMarked
<1> QED BY <1>1, <1>2

\* At the start nothing is registered.
LEMMA ProtectionInit == Init => ProtectionInv
BY DEF Init, StoreInit, HandlerInit, TimeoutInit, ProtectionInv, StagingIsMarked, DueIsEnded,
   RemovedIsSettled, StagedIsProtected, Accepted

\* Stuttering changes nothing.
LEMMA ProtectionStutter ==
    ASSUME ProtectionInv, UNCHANGED vars
    PROVE  ProtectionInv'
BY DEF vars, storeVars, handlerVars, timeoutVars, ProtectionInv, StagingIsMarked, DueIsEnded,
   RemovedIsSettled, StagedIsProtected, Accepted

\* If requests end before the response deadline, an accepted turn that still
\* waits has both halves of its marker (until its TTL): no compensation,
\* consumer or timeout worker, on any pod, takes one away.
THEOREM StagedStaysProtected == ~SlowHandlers => (Spec => []StagedIsProtected)
<1> SUFFICES ASSUME ~SlowHandlers PROVE Spec => []StagedIsProtected
  OBVIOUS
<1>1. TypeOK /\ TurnInv /\ ProtectionInv /\ [Next]_vars => ProtectionInv'
  <2>1. ASSUME TypeOK, TurnInv, ProtectionInv, Next PROVE ProtectionInv'
    BY <2>1, DueInv, MarkedInv, RemovedInv, ProtectedInv DEF ProtectionInv
  <2> QED BY <2>1, ProtectionStutter
<1>2. ProtectionInv => StagedIsProtected
  BY DEF ProtectionInv
<1> QED BY <1>1, <1>2, ProtectionInit, TypeCorrect, TurnInvariantHolds, PTL DEF Spec

-----------------------------------------------------------------------------
(* Who may delete the answer of an accepted turn. *)

\* A turn that gave up or died is never accepted.
LEMMA OpenBefore ==
    ASSUME TypeOK, Next, NEW u \in Turns, OpenOrAccepted(u)'
    PROVE  OpenOrAccepted(u)
<1> USE DEF TypeOK, HandlerTypeOK, OpenOrAccepted, Opening
<1>1. ASSUME NEW t \in Turns, HandlerStep(t) PROVE OpenOrAccepted(u)
  <2>1. CASE BeginSend(t) \/ (\E m \in MsgId : BeginRegenerate(t, m)) \/ PlacePending(t) \/ RegisterKey(t)
    BY <2>1 DEF BeginSend, BeginRegenerate, PlacePending, RegisterKey, Goto
  <2>2. CASE RegisterDeadline(t) \/ Stage(t) \/ Replace(t)
    BY <2>2 DEF RegisterDeadline, Stage, Replace, Goto
  <2>3. CASE ClearKey(t) \/ ClearZset(t) \/ Unplace(t) \/ Discard(t)
    BY <2>3 DEF ClearKey, ClearZset, Unplace, Discard, AfterClear, Goto
  <2> QED BY <1>1, <2>1, <2>2, <2>3 DEF HandlerStep
<1>2. CASE Handlers
  BY <1>1, <1>2 DEF Handlers, DeleteMessage, handlerVars
<1>3. CASE Environment
  BY <1>3 DEF Environment, Relay, DeadlinePasses, KeyExpires, LlmReply, Crash, HandlersDie, handlerVars
<1> QED BY <1>2, <1>3 DEF Next, handlerVars

\* What a turn replaces is chosen when it begins.
LEMMA ReplacesKept ==
    ASSUME TypeOK, Next, NEW t \in Turns, hpc[t] # "idle"
    PROVE  replaces'[t] = replaces[t] /\ hpc'[t] # "idle"
<1> USE DEF TypeOK, HandlerTypeOK
<1>1. ASSUME NEW u \in Turns, HandlerStep(u) PROVE replaces'[t] = replaces[t] /\ hpc'[t] # "idle"
  BY <1>1 DEF HandlerStep, BeginSend, BeginRegenerate, PlacePending, RegisterKey, RegisterDeadline,
     Stage, Replace, ClearKey, ClearZset, Unplace, Discard, AfterClear, Goto
<1>2. CASE Handlers
  BY <1>1, <1>2 DEF Handlers, DeleteMessage, handlerVars
<1>3. CASE Environment
  BY <1>3 DEF Environment, Relay, DeadlinePasses, KeyExpires, LlmReply, Crash, HandlersDie, handlerVars
<1> QED BY <1>2, <1>3 DEF Next, handlerVars

\* An accepted turn stays accepted: only its pod can die on it.
LEMMA AcceptedStays ==
    ASSUME TypeOK, Next, NEW t \in Turns, Accepted(t)
    PROVE  Accepted(t)'
<1> USE DEF TypeOK, HandlerTypeOK, Accepted
<1>1. ASSUME NEW u \in Turns, HandlerStep(u) PROVE Accepted(t)'
  BY <1>1 DEF HandlerStep, BeginSend, BeginRegenerate, PlacePending, RegisterKey, RegisterDeadline,
     Stage, Replace, ClearKey, ClearZset, Unplace, Discard, Goto
<1>2. CASE Handlers
  BY <1>1, <1>2 DEF Handlers, DeleteMessage, handlerVars
<1>3. CASE Environment
  BY <1>3 DEF Environment, Relay, DeadlinePasses, KeyExpires, LlmReply, Crash, HandlersDie, Ended, handlerVars
<1> QED BY <1>2, <1>3 DEF Next, handlerVars

\* A client's deletion is remembered.
LEMMA WithdrawnStep ==
    ASSUME Next
    PROVE  withdrawn \subseteq withdrawn'
<1>1. CASE Handlers
  BY <1>1 DEF Handlers, HandlerStep, BeginSend, BeginRegenerate, PlacePending, RegisterKey, RegisterDeadline,
     Stage, Replace, ClearKey, ClearZset, Unplace, Discard, DeleteMessage, storeVars
<1>2. ASSUME NEW p \in Pods, ConsumerStep(p) PROVE UNCHANGED withdrawn
  BY <1>2 DEF ConsumerStep, Poll, Guard, WriteAnswer, ConsumerClearKey, ConsumerClearZset, PublishFinal,
     SaveInbox, Commit, Rebalance
<1>3. ASSUME NEW p \in Pods, TimeoutStep(p) PROVE UNCHANGED withdrawn
  BY <1>3 DEF TimeoutStep, TakeExpired, CheckCompleted, WriteTimeout, PublishTimeout, RemoveKey,
     RemoveEntry, EntryFails, storeVars
<1>4. CASE Environment
  BY <1>4 DEF Environment, Relay, DeadlinePasses, KeyExpires, LlmReply, Crash
<1> QED BY <1>1, <1>2, <1>3, <1>4 DEF Next

\* A row becomes deleted for a client, for the turn that replaces it, or
\* with the turn that owns it.
LEMMA WhoDeletes ==
    ASSUME TypeOK, TurnInv, Next, NEW u \in Turns,
           rows[ResponseId(u)].status # "deleted", rows'[ResponseId(u)].status = "deleted"
    PROVE  \/ ResponseId(u) \in withdrawn'
           \/ \E t \in Turns : hpc[t] = "replace" /\ replaces[t] = ResponseId(u)
           \/ ~OpenOrAccepted(u)
<1> DEFINE m == ResponseId(u)
<1>0. m \in MsgId
  BY IdsAreMessages
<1> USE DEF TypeOK, StoreTypeOK, Row
<1>1. ASSUME NEW t \in Turns, HandlerStep(t)
      PROVE  \/ hpc[t] = "replace" /\ replaces[t] = m
             \/ ~OpenOrAccepted(u)
  <2>0. ASSUME NEW n, n # m, rows' = WithDeleted(n) PROVE FALSE
    BY <1>0, <2>0 DEF WithDeleted
  <2>r. ASSUME NEW n, NEW s, NEW st, NEW c, st # "deleted", rows' = WithRow(n, s, st, c) PROVE FALSE
    BY <1>0, <2>r DEF WithRow
  <2>1. CASE PlacePending(t)
    BY <2>r, <2>1 DEF PlacePending
  <2>2. CASE Stage(t)
    <3>1. StagedRows(t) # rows'
      BY <2>r DEF StagedRows
    <3> QED BY <2>2, <3>1 DEF Stage
  <2>3. CASE Replace(t)
    BY <2>0, <2>3 DEF Replace
  <2>4. CASE Unplace(t) \/ Discard(t)
    <3>1. t = u
      BY <2>0, <2>4, IdsAreInjective DEF Unplace, Discard
    <3> QED BY <2>4, <3>1 DEF Unplace, Discard, OpenOrAccepted, Opening
  <2>5. CASE ~(PlacePending(t) \/ Stage(t) \/ Replace(t) \/ Unplace(t) \/ Discard(t))
    BY <1>1, <2>5 DEF HandlerStep, BeginSend, BeginRegenerate, RegisterKey, RegisterDeadline, ClearKey,
       ClearZset, storeVars
  <2> QED BY <2>1, <2>2, <2>3, <2>4, <2>5
<1>2. ASSUME NEW p \in Pods, NEW n \in MsgId, DeleteMessage(p, n) PROVE m \in withdrawn'
  BY <1>0, <1>2 DEF DeleteMessage, WithDeleted
<1>3. ASSUME NEW p \in Pods, ConsumerStep(p) PROVE FALSE
  <2>1. CASE WriteAnswer(p)
    BY <1>0, <2>1 DEF WriteAnswer, AnswerRows, WithRow
  <2>2. CASE ~WriteAnswer(p)
    BY <1>3, <2>2 DEF ConsumerStep, Poll, Guard, ConsumerClearKey, ConsumerClearZset, PublishFinal, SaveInbox,
       Commit, Rebalance
  <2> QED BY <2>1, <2>2
<1>4. ASSUME NEW p \in Pods, TimeoutStep(p) PROVE FALSE
  BY <1>0, <1>4 DEF TimeoutStep, TakeExpired, CheckCompleted, WriteTimeout, PublishTimeout, RemoveKey,
     RemoveEntry, EntryFails, WithRow, storeVars
<1>5. CASE Environment
  BY <1>5 DEF Environment, Relay, DeadlinePasses, KeyExpires, LlmReply, Crash
<1> QED BY <1>1, <1>2, <1>3, <1>4, <1>5 DEF Next, Handlers

\* DeletedIsReplaced is inductive beside TurnInv.
LEMMA ReplacedInv ==
    ASSUME TypeOK, TurnInv, DeletedIsReplaced, Next
    PROVE  DeletedIsReplaced'
<1> SUFFICES ASSUME NEW u \in Turns, OpenOrAccepted(u)', rows'[ResponseId(u)].status = "deleted",
                    ResponseId(u) \notin withdrawn'
             PROVE  \E t \in Turns : replaces'[t] = ResponseId(u) /\ Accepted(t)'
  BY DEF DeletedIsReplaced
<1>1. OpenOrAccepted(u) /\ ResponseId(u) \notin withdrawn
  BY OpenBefore, WithdrawnStep
<1>2. \E t \in Turns : replaces[t] = ResponseId(u) /\ Accepted(t)
  BY <1>1, WhoDeletes DEF DeletedIsReplaced, Accepted
<1> QED BY <1>2, AcceptedStays, ReplacesKept DEF Accepted

\* A regeneration that was not staged costs the user nothing: whatever batch
\* fails and whichever pod dies, the answer of an accepted turn is deleted
\* by its client or by an accepted turn that replaces it.
THEOREM ReplacedOnlyByAcceptedTurns == Spec => []ReplacedOnlyByAccepted
<1>1. Init => DeletedIsReplaced
  <2> SUFFICES ASSUME Init, NEW u \in Turns PROVE rows[ResponseId(u)].status # "deleted"
    BY DEF DeletedIsReplaced
  <2> QED BY IdsAreMessages DEF Init, StoreInit, NoRow
<1>2. TypeOK /\ TurnInv /\ DeletedIsReplaced /\ [Next]_vars => DeletedIsReplaced'
  <2>1. DeletedIsReplaced /\ UNCHANGED vars => DeletedIsReplaced'
    BY DEF DeletedIsReplaced, OpenOrAccepted, Accepted, vars, storeVars, handlerVars
  <2> QED BY <2>1, ReplacedInv
<1>3. DeletedIsReplaced => ReplacedOnlyByAccepted
  BY DEF DeletedIsReplaced, ReplacedOnlyByAccepted, OpenOrAccepted, Accepted
<1> QED BY <1>1, <1>2, <1>3, TypeCorrect, TurnInvariantHolds, PTL DEF Spec
-----------------------------------------------------------------------------
(* The event loop of a pod. *)

Holding == {"replace", "discard"}

\* A handler takes the loop when it is free and gives back its own.
LEMMA HandlersKeep ==
    ASSUME TypeOK, LoopIsKept, Handlers, UNCHANGED <<consumerVars, timeoutVars>>
    PROVE  LoopIsKept'
<1> USE DEF TypeOK, StoreTypeOK, HandlerTypeOK, LoopIsKept
<1>0. UNCHANGED <<cpc, tpc>>
  BY DEF consumerVars, timeoutVars
<1>1. ASSUME NEW t \in Turns, HandlerStep(t) PROVE LoopIsKept'
  <2>0. UNCHANGED hpod /\ hpod[t] \in Pods
    BY <1>1 DEF HandlerStep, BeginSend, BeginRegenerate, PlacePending, RegisterKey, RegisterDeadline,
       Stage, Replace, ClearKey, ClearZset, Unplace, Discard
  <2>1. ASSUME NEW x \in HandlerSteps \ Holding, Goto(t, x), UNCHANGED loop PROVE LoopIsKept'
    BY <1>0, <2>0, <2>1 DEF Goto, Holding
  <2>2. ASSUME NEW x \in Holding, Goto(t, x), Free(hpod[t]), Keep(hpod[t], "handler") PROVE LoopIsKept'
    BY <1>0, <2>0, <2>2 DEF Goto, Holding, Free, Keep
  <2>3. ASSUME NEW x \in HandlerSteps \ Holding, hpc[t] \in Holding, Goto(t, x), Yield(hpod[t]) PROVE LoopIsKept'
    BY <1>0, <2>0, <2>3 DEF Goto, Holding, Yield, Keep
  <2>4. CASE BeginSend(t) \/ (\E m \in MsgId : BeginRegenerate(t, m)) \/ PlacePending(t) \/ RegisterKey(t)
    BY <2>1, <2>4 DEF BeginSend, BeginRegenerate, PlacePending, RegisterKey, storeVars, HandlerSteps, Holding
  <2>5. CASE RegisterDeadline(t) \/ Unplace(t)
    BY <2>1, <2>5 DEF RegisterDeadline, Unplace, HandlerSteps, Holding
  <2>6. CASE ClearKey(t) \/ ClearZset(t)
    <3>1. \E x \in HandlerSteps \ Holding : Goto(t, x)
      BY <2>6 DEF ClearKey, ClearZset, AfterClear, HandlerSteps, Holding
    <3> QED BY <2>1, <2>6, <3>1 DEF ClearKey, ClearZset
  <2>7. CASE Stage(t)
    BY <2>1, <2>2, <2>7 DEF Stage, HandlerSteps, Holding
  <2>8. CASE Replace(t) \/ Discard(t)
    BY <2>3, <2>8 DEF Replace, Discard, HandlerSteps, Holding
  <2> QED BY <1>1, <2>4, <2>5, <2>6, <2>7, <2>8 DEF HandlerStep
<1>2. ASSUME NEW p \in Pods, NEW m \in MsgId, DeleteMessage(p, m) PROVE LoopIsKept'
  BY <1>0, <1>2 DEF DeleteMessage, handlerVars
<1> QED BY <1>1, <1>2 DEF Handlers

\* So does a consumer.
LEMMA ConsumerKeeps ==
    ASSUME TypeOK, LoopIsKept, NEW p \in Pods, ConsumerStep(p), UNCHANGED <<handlerVars, timeoutVars>>
    PROVE  LoopIsKept'
<1> USE DEF TypeOK, StoreTypeOK, HandlerTypeOK, ConsumerTypeOK, LoopIsKept
<1>0. UNCHANGED <<hpc, hpod, tpc>>
  BY DEF handlerVars, timeoutVars
<1>1. ASSUME NEW x \in ConsumerSteps, ConsumerGoto(p, x), UNCHANGED loop,
             x \in {"guard", "write"} => cpc[p] \in {"guard", "write"}
      PROVE  LoopIsKept'
  BY <1>0, <1>1 DEF ConsumerGoto
<1>2. ASSUME NEW x \in ConsumerSteps \ {"guard", "write"}, ConsumerGoto(p, x), Yield(p),
             Free(p) \/ cpc[p] \in {"guard", "write"}
      PROVE  LoopIsKept'
  BY <1>0, <1>2 DEF ConsumerGoto, Free, Yield, Keep
<1>3. ASSUME ConsumerGoto(p, "guard"), Keep(p, "consumer"), Free(p) PROVE LoopIsKept'
  BY <1>0, <1>3 DEF ConsumerGoto, Free, Keep
<1> USE DEF ConsumerSteps, GiveUp
<1>4. CASE Poll(p)
  BY <1>1, <1>2, <1>3, <1>4 DEF Poll
<1>5. CASE Guard(p)
  BY <1>1, <1>2, <1>5 DEF Guard
<1>6. CASE WriteAnswer(p)
  BY <1>2, <1>6 DEF WriteAnswer
<1>7. CASE ConsumerClearKey(p) \/ ConsumerClearZset(p) \/ PublishFinal(p) \/ Commit(p)
  BY <1>1, <1>7 DEF ConsumerClearKey, ConsumerClearZset, PublishFinal, Commit
<1>8. CASE SaveInbox(p)
  BY <1>1, <1>2, <1>8 DEF SaveInbox
<1>9. CASE Rebalance(p)
  BY <1>0, <1>9 DEF Rebalance
<1> QED BY <1>4, <1>5, <1>6, <1>7, <1>8, <1>9 DEF ConsumerStep

\* And a timeout worker.
LEMMA TimeoutKeeps ==
    ASSUME TypeOK, LoopIsKept, NEW p \in Pods, TimeoutStep(p), UNCHANGED <<handlerVars, consumerVars>>
    PROVE  LoopIsKept'
<1> USE DEF TypeOK, StoreTypeOK, HandlerTypeOK, TimeoutTypeOK, LoopIsKept
<1>0. UNCHANGED <<hpc, hpod, cpc>>
  BY DEF handlerVars, consumerVars
<1>1. ASSUME NEW x \in TimeoutSteps \ {"write"}, TimeoutGoto(p, x), UNCHANGED loop PROVE LoopIsKept'
  BY <1>0, <1>1 DEF TimeoutGoto
<1>2. ASSUME NEW x \in TimeoutSteps \ {"write"}, TimeoutGoto(p, x), Yield(p), Free(p) \/ loop[p] = "timeout"
      PROVE  LoopIsKept'
  BY <1>0, <1>2 DEF TimeoutGoto, Free, Yield, Keep
<1>3. ASSUME TimeoutGoto(p, "write"), Keep(p, "timeout"), Free(p) PROVE LoopIsKept'
  BY <1>0, <1>3 DEF TimeoutGoto, Free, Keep
<1> USE DEF TimeoutSteps, LeaveEntry
<1>4. ASSUME NEW m \in MsgId, TakeExpired(p, m) PROVE LoopIsKept'
  BY <1>1, <1>4 DEF TakeExpired, storeVars
<1>5. CASE CheckCompleted(p)
  BY <1>1, <1>3, <1>5 DEF CheckCompleted
<1>6. CASE WriteTimeout(p)
  BY <1>2, <1>6 DEF WriteTimeout
<1>7. CASE PublishTimeout(p) \/ RemoveKey(p) \/ RemoveEntry(p)
  BY <1>1, <1>7 DEF PublishTimeout, RemoveKey, RemoveEntry
<1>8. CASE EntryFails(p)
  BY <1>2, <1>8 DEF EntryFails, Free
<1> QED BY <1>4, <1>5, <1>6, <1>7, <1>8 DEF TimeoutStep

\* A task between two Cassandra calls keeps the loop of its pod.
LEMMA LoopInv ==
    ASSUME TypeOK, LoopIsKept, Next
    PROVE  LoopIsKept'
<1>1. ASSUME NEW p \in Pods, Crash(p) PROVE LoopIsKept'
  BY <1>1 DEF Crash, HandlersDie, ConsumerDies, ConsumerGoto, TimeoutDies, LeaveEntry, TimeoutGoto, Yield, Keep,
     Ended, LoopIsKept, TypeOK, StoreTypeOK, HandlerTypeOK, ConsumerTypeOK, TimeoutTypeOK
<1>2. CASE Environment /\ ~(\E p \in Pods : Crash(p))
  <2>1. UNCHANGED <<loop, hpc, hpod, cpc, tpc>>
    BY <1>2 DEF Environment, Relay, DeadlinePasses, KeyExpires, LlmReply, handlerVars, consumerVars, timeoutVars
  <2> QED BY <2>1 DEF LoopIsKept
<1> QED BY <1>1, <1>2, HandlersKeep, ConsumerKeeps, TimeoutKeeps DEF Next, Environment
-----------------------------------------------------------------------------
(* What two pods can cross, and what stands when they do not. *)

\* A row on record stays on record.
LEMMA CrossedGrows ==
    ASSUME CrossNext, NEW m, m \in crossed
    PROVE  m \in crossed'
BY DEF CrossNext

\* A row that a task is still to write is as it was, or on record.
LEMMA RowCrossed ==
    ASSUME CrossNext, NEW m \in MsgId, StillToWrite(m), m \notin crossed'
    PROVE  rows'[m] = rows[m] /\ m \notin crossed
BY DEF CrossNext, Crossing

\* A worker comes to its write from a check that found no completed reply.
LEMMA WorkerMoves ==
    ASSUME TypeOK, Next, NEW q \in Pods, tpc'[q] = "write"
    PROVE  /\ tid'[q] = tid[q]
           /\ \/ tpc[q] = "write"
              \/ tpc[q] = "check" /\ ~Completed(tid[q]) /\ UNCHANGED rows
<1> USE DEF TypeOK, TimeoutTypeOK, TimeoutGoto
<1>1. ASSUME NEW p \in Pods, TimeoutStep(p)
      PROVE  /\ tid'[q] = tid[q]
             /\ \/ tpc[q] = "write"
                \/ tpc[q] = "check" /\ ~Completed(tid[q]) /\ UNCHANGED rows
  <2>1. CASE CheckCompleted(p)
    BY <2>1 DEF CheckCompleted
  <2>2. ASSUME NEW m \in MsgId, TakeExpired(p, m) PROVE tid'[q] = tid[q] /\ tpc[q] = "write"
    BY <2>2 DEF TakeExpired
  <2>3. CASE WriteTimeout(p) \/ PublishTimeout(p) \/ RemoveKey(p) \/ RemoveEntry(p) \/ EntryFails(p)
    BY <2>3 DEF WriteTimeout, PublishTimeout, RemoveKey, RemoveEntry, EntryFails, LeaveEntry
  <2> QED BY <1>1, <2>1, <2>2, <2>3 DEF TimeoutStep
<1> QED BY <1>1, TimeoutFrame

\* What was checked before a write is true at the write, or on record.
LEMMA CheckInv ==
    ASSUME TypeOK, CheckStands, CrossNext
    PROVE  CheckStands'
<1>n. Next
  BY DEF CrossNext
<1>1. ASSUME NEW p \in Pods, cpc'[p] = "write", IsError(Handled(p))', (Handled(p).msg)' \notin crossed'
      PROVE  ~AlreadyAnswered(Handled(p).msg)'
  <2>1. /\ coff'[p] = coff[p]
        /\ \/ cpc[p] = "write"
           \/ /\ cpc[p] = "guard" /\ UNCHANGED rows
              /\ ~(IsError(Handled(p)) /\ AlreadyAnswered(Handled(p).msg))
    BY <1>n, <1>1, ConsumerMoves, ConsumerFrame
  <2>2. Handled(p)' = Handled(p) /\ IsError(Handled(p)) /\ Handled(p).msg \in MsgId
    BY <1>n, <1>1, <2>1, HandledKept DEF IsError, TypeOK, OffsetsOK
  <2>3. PICK m \in MsgId : m = Handled(p).msg /\ m = Handled(p)'.msg /\ m \notin crossed'
    BY <1>1, <2>2
  <2>4. rows'[m] = rows[m] /\ m \notin crossed
    <3>1. CASE cpc[p] = "write"
      <4>1. StillToWrite(m)
        BY <1>1, <2>3, <3>1 DEF StillToWrite
      <4> QED BY <2>3, <4>1, RowCrossed
    <3>2. CASE UNCHANGED rows
      BY <2>3, <3>2, CrossedGrows
    <3> QED BY <2>1, <3>1, <3>2
  <2>5. ~AlreadyAnswered(m)
    BY <2>1, <2>2, <2>3, <2>4 DEF CheckStands
  <2> QED BY <2>2, <2>3, <2>4, <2>5 DEF AlreadyAnswered, GetMessage
<1>2. ASSUME NEW p \in Pods, tpc'[p] = "write", tid'[p] \notin crossed' PROVE ~Completed(tid[p])'
  <2>1. /\ tid'[p] = tid[p] /\ tid[p] \in MsgId
        /\ \/ tpc[p] = "write"
           \/ tpc[p] = "check" /\ ~Completed(tid[p]) /\ UNCHANGED rows
    BY <1>n, <1>2, WorkerMoves DEF TypeOK, TimeoutTypeOK
  <2>2. PICK m \in MsgId : m = tid[p] /\ m = tid'[p] /\ m \notin crossed'
    BY <1>2, <2>1
  <2>3. rows'[m] = rows[m] /\ m \notin crossed
    <3>1. CASE tpc[p] = "write"
      <4>1. StillToWrite(m)
        BY <1>2, <2>2, <3>1 DEF StillToWrite
      <4> QED BY <2>2, <4>1, RowCrossed
    <3>2. CASE UNCHANGED rows
      BY <2>2, <3>2, CrossedGrows
    <3> QED BY <2>1, <3>1, <3>2
  <2>4. ~Completed(m)
    BY <2>1, <2>2, <2>3 DEF CheckStands
  <2> QED BY <2>2, <2>3, <2>4 DEF Completed, GetMessage
<1> QED BY <1>1, <1>2 DEF CheckStands

\* Nobody turns a stored reply into a failure, unless it was crossed.
LEMMA ReplyNotFailed ==
    ASSUME TypeOK, CheckStands, Next, NEW m \in MsgId,
           rows[m].sender = "assistant", rows[m].status = "sent", rows[m].content # "",
           m \notin crossed
    PROVE  rows'[m].status # "failed"
<1> USE DEF TypeOK, StoreTypeOK, Row
<1>d. ASSUME NEW n, rows' = WithDeleted(n) PROVE rows'[m].status # "failed"
  BY <1>d DEF WithDeleted
<1>r. ASSUME NEW n, NEW s, NEW st, NEW c, st # "failed", rows' = WithRow(n, s, st, c)
      PROVE  rows'[m].status # "failed"
  BY <1>r DEF WithRow
<1>1. ASSUME NEW t \in Turns, HandlerStep(t) PROVE rows'[m].status # "failed"
  <2>1. CASE PlacePending(t)
    BY <1>r, <2>1 DEF PlacePending
  <2>2. CASE Stage(t)
    <3>1. rows' = StagedRows(t) => rows'[m].status # "failed"
      BY <1>r DEF StagedRows
    <3> QED BY <2>2, <3>1 DEF Stage
  <2>3. CASE Replace(t) \/ Unplace(t) \/ Discard(t)
    BY <1>d, <2>3 DEF Replace, Unplace, Discard
  <2>4. CASE ~(PlacePending(t) \/ Stage(t) \/ Replace(t) \/ Unplace(t) \/ Discard(t))
    BY <1>1, <2>4 DEF HandlerStep, BeginSend, BeginRegenerate, RegisterKey, RegisterDeadline, ClearKey,
       ClearZset, storeVars
  <2> QED BY <2>1, <2>2, <2>3, <2>4
<1>2. ASSUME NEW p \in Pods, NEW n \in MsgId, DeleteMessage(p, n) PROVE rows'[m].status # "failed"
  BY <1>d, <1>2 DEF DeleteMessage
<1>3. ASSUME NEW p \in Pods, ConsumerStep(p) PROVE rows'[m].status # "failed"
  <2>1. CASE WriteAnswer(p)
    <3>1. CASE IsError(Handled(p))
      <4>1. Handled(p).msg \in crossed \/ ~AlreadyAnswered(Handled(p).msg)
        BY <2>1, <3>1 DEF WriteAnswer, CheckStands
      <4>2. Handled(p).msg # m
        BY <4>1 DEF AlreadyAnswered, GetMessage
      <4> QED BY <2>1, <4>2 DEF WriteAnswer, AnswerRows, WithRow
    <3>2. CASE ~IsError(Handled(p))
      BY <1>r, <2>1, <3>2 DEF WriteAnswer, AnswerRows
    <3> QED BY <3>1, <3>2
  <2>2. CASE ~WriteAnswer(p)
    BY <1>3, <2>2 DEF ConsumerStep, Poll, Guard, ConsumerClearKey, ConsumerClearZset, PublishFinal, SaveInbox,
       Commit, Rebalance
  <2> QED BY <2>1, <2>2
<1>4. ASSUME NEW p \in Pods, TimeoutStep(p) PROVE rows'[m].status # "failed"
  <2>1. CASE WriteTimeout(p)
    <3>1. tid[p] \in crossed \/ ~Completed(tid[p])
      BY <2>1 DEF WriteTimeout, CheckStands
    <3>2. tid[p] # m
      BY <3>1 DEF Completed, GetMessage
    <3> QED BY <2>1, <3>2 DEF WriteTimeout, WithRow
  <2>2. CASE ~WriteTimeout(p)
    BY <1>4, <2>2 DEF TimeoutStep, TakeExpired, CheckCompleted, PublishTimeout, RemoveKey, RemoveEntry,
       EntryFails, storeVars
  <2> QED BY <2>1, <2>2
<1>5. CASE Environment
  BY <1>5 DEF Environment, Relay, DeadlinePasses, KeyExpires, LlmReply, Crash
<1> QED BY <1>1, <1>2, <1>3, <1>4, <1>5 DEF Next, Handlers

-----------------------------------------------------------------------------
(* The reply stands. *)

\* How a turn comes to its compensations.
LEMMA CompensationMoves ==
    ASSUME TypeOK, Next, NEW t \in Turns
    PROVE  /\ hpc'[t] = "idle" => hpc[t] = "idle" /\ replaces'[t] = replaces[t]
           /\ hpc'[t] \in {"clearKey", "clearZset", "unplace"} =>
                hpc[t] \in {"set", "zadd", "clearKey", "clearZset", "unplace"}
           /\ hpc'[t] = "discard" =>
                \/ hpc[t] = "discard"
                \/ hpc[t] = "stage" /\ Handlers /\ UNCHANGED <<inbox, log, cpc, coff>>
<1> DEFINE G == /\ hpc'[t] = "idle" => hpc[t] = "idle" /\ replaces'[t] = replaces[t]
                /\ hpc'[t] \in {"clearKey", "clearZset", "unplace"} =>
                     hpc[t] \in {"set", "zadd", "clearKey", "clearZset", "unplace"}
                /\ hpc'[t] = "discard" =>
                     \/ hpc[t] = "discard"
                     \/ hpc[t] = "stage" /\ Handlers /\ UNCHANGED <<inbox, log, cpc, coff>>
<1> USE DEF TypeOK, HandlerTypeOK
<1>1. CASE hpc'[t] = hpc[t] /\ replaces'[t] = replaces[t]
  BY <1>1
<1>2. ASSUME NEW u \in Turns, HandlerStep(u), UNCHANGED consumerVars PROVE G
  <2>1. CASE u # t
    <3>1. hpc'[t] = hpc[t] /\ replaces'[t] = replaces[t]
      BY <1>2, <2>1 DEF HandlerStep, BeginSend, BeginRegenerate, PlacePending, RegisterKey, RegisterDeadline,
         Stage, Replace, ClearKey, ClearZset, Unplace, Discard, Goto
    <3> QED BY <1>1, <3>1
  <2>2. CASE BeginSend(t) \/ (\E m \in MsgId : BeginRegenerate(t, m)) \/ PlacePending(t)
    BY <2>2 DEF BeginSend, BeginRegenerate, PlacePending, Goto
  <2>3. CASE RegisterKey(t) \/ RegisterDeadline(t)
    BY <2>3 DEF RegisterKey, RegisterDeadline, Goto
  <2>4. CASE Stage(t)
    <3>1. Handlers
      BY <1>2, <2>1 DEF Handlers
    <3> QED BY <1>2, <2>4, <3>1 DEF Stage, Goto, consumerVars
  <2>5. CASE Replace(t) \/ Unplace(t) \/ Discard(t)
    BY <2>5 DEF Replace, Unplace, Discard, Goto
  <2>6. CASE ClearKey(t) \/ ClearZset(t)
    BY <2>6 DEF ClearKey, ClearZset, AfterClear, Goto
  <2> QED BY <1>2, <2>1, <2>2, <2>3, <2>4, <2>5, <2>6 DEF HandlerStep
<1>3. CASE Handlers /\ UNCHANGED consumerVars
  BY <1>1, <1>2, <1>3 DEF Handlers, DeleteMessage, handlerVars
<1>4. ASSUME NEW p \in Pods, Crash(p) PROVE G
  BY <1>4 DEF Crash, HandlersDie, Ended
<1>5. CASE Environment
  BY <1>1, <1>4, <1>5 DEF Environment, Relay, DeadlinePasses, KeyExpires, LlmReply, handlerVars
<1> QED BY <1>1, <1>3, <1>5 DEF Next, handlerVars

\* Only an answer to a published request brings a response to "sent".
LEMMA SentWasPublished ==
    ASSUME TypeOK, TurnInv, Next, NEW t \in Turns,
           rows[ResponseId(t)].status # "sent", rows'[ResponseId(t)].status = "sent"
    PROVE  outbox[t] = "published"
<1> DEFINE r == ResponseId(t)
<1>0. r \in MsgId /\ \A u \in Turns : RequestId(u) # r
  BY IdsAreMessages, IdsAreInjective
<1> USE DEF TypeOK, StoreTypeOK
<1>d. ASSUME NEW n, rows' = WithDeleted(n) PROVE FALSE
  BY <1>0, <1>d DEF WithDeleted
<1>r. ASSUME NEW n, NEW s, NEW st, NEW c, n # r \/ st # "sent", rows' = WithRow(n, s, st, c) PROVE FALSE
  BY <1>0, <1>r DEF WithRow
<1>1. ASSUME NEW u \in Turns, HandlerStep(u) PROVE FALSE
  <2>1. CASE PlacePending(u)
    BY <1>r, <2>1 DEF PlacePending
  <2>2. CASE Stage(u)
    <3>1. rows' # StagedRows(u)
      BY <1>0, <1>r DEF StagedRows
    <3> QED BY <2>2, <3>1 DEF Stage
  <2>3. CASE Replace(u) \/ Unplace(u) \/ Discard(u)
    BY <1>d, <2>3 DEF Replace, Unplace, Discard
  <2>4. CASE ~(PlacePending(u) \/ Stage(u) \/ Replace(u) \/ Unplace(u) \/ Discard(u))
    BY <1>1, <2>4 DEF HandlerStep, BeginSend, BeginRegenerate, RegisterKey, RegisterDeadline, ClearKey,
       ClearZset, storeVars
  <2> QED BY <2>1, <2>2, <2>3, <2>4
<1>2. ASSUME NEW p \in Pods, NEW n \in MsgId, DeleteMessage(p, n) PROVE FALSE
  BY <1>d, <1>2 DEF DeleteMessage
<1>3. ASSUME NEW p \in Pods, ConsumerStep(p) PROVE outbox[t] = "published"
  <2>1. CASE WriteAnswer(p)
    <3>1. Handled(p).msg = r
      BY <1>r, <2>1 DEF WriteAnswer, AnswerRows
    <3>2. cpc[p] # "idle" /\ Handled(p).msg \in Ids(t)
      BY <2>1, <3>1 DEF WriteAnswer, Ids
    <3> QED BY <3>2, HandledWasPublished DEF TurnInv
  <2>2. CASE ~WriteAnswer(p)
    BY <1>3, <2>2 DEF ConsumerStep, Poll, Guard, ConsumerClearKey, ConsumerClearZset, PublishFinal, SaveInbox,
       Commit, Rebalance
  <2> QED BY <2>1, <2>2
<1>4. ASSUME NEW p \in Pods, TimeoutStep(p) PROVE FALSE
  <2>1. CASE WriteTimeout(p)
    BY <1>r, <2>1 DEF WriteTimeout
  <2>2. CASE ~WriteTimeout(p)
    BY <1>4, <2>2 DEF TimeoutStep, TakeExpired, CheckCompleted, PublishTimeout, RemoveKey, RemoveEntry,
       EntryFails, storeVars
  <2> QED BY <2>1, <2>2
<1>5. CASE Environment
  BY <1>5 DEF Environment, Relay, DeadlinePasses, KeyExpires, LlmReply, Crash
<1> QED BY <1>1, <1>2, <1>3, <1>4, <1>5 DEF Next, Handlers

\* TurnStarts is kept.
LEMMA StartsInv ==
    ASSUME TypeOK, TurnInv, TurnStarts, CrossNext
    PROVE  TurnStarts'
<1>n. Next
  BY DEF CrossNext
<1> SUFFICES ASSUME NEW t \in Turns
             PROVE  /\ hpc'[t] = "idle" => replaces'[t] = NoMsg
                    /\ hpc'[t] \in {"clearKey", "clearZset", "unplace"} => outbox'[t] = "none"
                    /\ outbox'[t] = "none" => rows'[ResponseId(t)].status # "sent"
                    /\ hpc'[t] = "discard" =>
                         ResponseId(t) \in crossed' \/ rows'[ResponseId(t)].status # "sent"
  BY DEF TurnStarts, ResponseId
<1>1. hpc'[t] = "idle" => replaces'[t] = NoMsg
  BY <1>n, CompensationMoves DEF TurnStarts
<1>2. ASSUME hpc'[t] \in {"clearKey", "clearZset", "unplace"} PROVE outbox'[t] = "none"
  <2>1. hpc[t] \in {"set", "zadd", "clearKey", "clearZset", "unplace"}
    BY <1>n, <1>2, CompensationMoves
  <2>2. outbox[t] = "none"
    BY <2>1 DEF TurnStarts, TurnInv, OpeningIsUnstaged, Opening
  <2> QED BY <1>n, <2>1, <2>2, OutboxStep DEF TurnInv
<1>3. ASSUME outbox'[t] = "none" PROVE rows'[ResponseId(t)].status # "sent"
  <2>1. outbox[t] = "none"
    BY <1>n, <1>3, OutboxStep DEF TurnInv
  <2>2. rows[ResponseId(t)].status # "sent"
    BY <2>1 DEF TurnStarts
  <2> QED BY <1>n, <2>1, <2>2, SentWasPublished
<1>4. ASSUME hpc'[t] = "discard", hpc[t] = "discard", ResponseId(t) \notin crossed'
      PROVE  rows'[ResponseId(t)].status # "sent"
  <2>1. StillToWrite(ResponseId(t)) /\ ResponseId(t) \in MsgId
    BY <1>4, IdsAreMessages DEF StillToWrite
  <2>2. rows'[ResponseId(t)] = rows[ResponseId(t)] /\ ResponseId(t) \notin crossed
    BY <1>4, <2>1, RowCrossed
  <2> QED BY <1>4, <2>2 DEF TurnStarts
<1>5. ASSUME hpc[t] = "stage" PROVE rows'[ResponseId(t)].status # "sent"
  <2>1. outbox[t] = "none"
    BY <1>5 DEF TurnInv, OpeningIsUnstaged, Opening
  <2>2. rows[ResponseId(t)].status # "sent"
    BY <2>1 DEF TurnStarts
  <2> QED BY <1>n, <2>1, <2>2, SentWasPublished
<1> QED BY <1>n, <1>1, <1>2, <1>3, <1>4, <1>5, CompensationMoves

\* A response that only a reply was sent for has been one all along.
LEMMA OnlyRepliedBefore ==
    ASSUME TypeOK, TurnStarts, CrossNext, NEW m \in MsgId, OnlyReplied(m)'
    PROVE  OnlyReplied(m)
<1>n. Next
  BY DEF CrossNext
<1>1. m \notin withdrawn \cup crossed
  BY <1>n, WithdrawnStep, CrossedGrows DEF OnlyReplied
<1>2. ASSUME NEW i \in 1..Len(log), log[i].msg = m PROVE log[i].content = "reply"
  <2>1. i \in 1..Len(log') /\ log'[i] = log[i]
    BY <1>n, LogKept
  <2> QED BY <1>2, <2>1 DEF OnlyReplied
<1>3. ASSUME NEW t \in Turns PROVE replaces[t] # m
  BY <1>n, ReplacesKept, TurnsAssumption DEF OnlyReplied, TurnStarts
<1> QED BY <1>1, <1>2, <1>3 DEF OnlyReplied

\* A reply that stands goes on standing, unless it is withdrawn, replaced or
\* followed by another outcome.
LEMMA RepliedKept ==
    ASSUME TypeOK, TurnInv, CheckStands, TurnStarts, CrossNext,
           NEW m \in MsgId, Replied(m), OnlyReplied(m)',
           \A t \in Turns : m \in Ids(t) => outbox[t] = "published"
    PROVE  Replied(m)'
<1> USE DEF TypeOK, StoreTypeOK
<1>0. OnlyReplied(m) /\ m \notin crossed
  BY OnlyRepliedBefore DEF OnlyReplied
<1>n. Next
  BY DEF CrossNext
<1>d. ASSUME NEW n, n # m, rows' = WithDeleted(n) PROVE Replied(m)'
  BY <1>d DEF WithDeleted, Replied
<1>r. ASSUME NEW n, n # m, NEW s, NEW st, NEW c, rows' = WithRow(n, s, st, c) PROVE Replied(m)'
  BY <1>r DEF WithRow, Replied
<1>u. rows' = rows => Replied(m)'
  BY DEF Replied
<1>1. ASSUME NEW t \in Turns, HandlerStep(t) PROVE Replied(m)'
  <2>0. hpc[t] \in Opening \cup {"unplace"} => m \notin Ids(t)
    BY DEF TurnInv, OpeningIsUnstaged, TurnStarts
  <2>1. CASE PlacePending(t)
    <3>1. m # ResponseId(t)
      BY <2>0, <2>1 DEF PlacePending, Opening, Ids
    <3> QED BY <1>r, <1>u, <2>1, <3>1 DEF PlacePending
  <2>2. CASE Stage(t)
    <3>1. m # ResponseId(t) /\ m # RequestId(t)
      BY <2>0, <2>2 DEF Stage, Opening, Ids
    <3>2. rows' = StagedRows(t) => Replied(m)'
      BY <1>r, <3>1 DEF StagedRows
    <3> QED BY <1>u, <2>2, <3>2 DEF Stage
  <2>3. CASE Replace(t)
    <3>1. replaces[t] # m
      BY <1>0 DEF OnlyReplied
    <3> QED BY <1>d, <1>u, <2>3, <3>1 DEF Replace
  <2>4. CASE Unplace(t) \/ Discard(t)
    <3>1. m # ResponseId(t)
      BY <1>0, <2>0, <2>4 DEF Unplace, Discard, Ids, TurnStarts, Replied
    <3> QED BY <1>d, <1>u, <2>4, <3>1 DEF Unplace, Discard
  <2>5. CASE ~(PlacePending(t) \/ Stage(t) \/ Replace(t) \/ Unplace(t) \/ Discard(t))
    BY <1>1, <1>u, <2>5 DEF HandlerStep, BeginSend, BeginRegenerate, RegisterKey, RegisterDeadline, ClearKey,
       ClearZset, storeVars
  <2> QED BY <2>1, <2>2, <2>3, <2>4, <2>5
<1>2. ASSUME NEW p \in Pods, NEW n \in MsgId, DeleteMessage(p, n) PROVE Replied(m)'
  BY <1>d, <1>2 DEF DeleteMessage, OnlyReplied
<1>3. ASSUME NEW p \in Pods, ConsumerStep(p) PROVE Replied(m)'
  <2>1. CASE WriteAnswer(p)
    <3>1. coff[p] \in 1..Len(log)
      BY <2>1, HandledIsEvent DEF WriteAnswer
    <3>2. CASE Handled(p).msg = m
      <4>1. Handled(p).content = "reply"
        BY <1>0, <3>1, <3>2 DEF OnlyReplied, Handled
      <4>2. AnswerRows(Handled(p))[m] = [sender |-> "assistant", status |-> "sent", content |-> "reply"]
        BY <3>2, <4>1 DEF AnswerRows, WithRow, IsError
      <4> QED BY <1>u, <2>1, <4>2 DEF WriteAnswer, Replied
    <3>3. CASE Handled(p).msg # m
      BY <1>r, <1>u, <2>1, <3>3 DEF WriteAnswer, AnswerRows
    <3> QED BY <3>2, <3>3
  <2>2. CASE ~WriteAnswer(p)
    BY <1>3, <1>u, <2>2 DEF ConsumerStep, Poll, Guard, ConsumerClearKey, ConsumerClearZset, PublishFinal,
       SaveInbox, Commit, Rebalance
  <2> QED BY <2>1, <2>2
<1>4. ASSUME NEW p \in Pods, TimeoutStep(p) PROVE Replied(m)'
  <2>1. CASE WriteTimeout(p)
    <3>1. tid[p] \in crossed \/ ~Completed(tid[p])
      BY <2>1 DEF WriteTimeout, CheckStands
    <3>2. tid[p] # m
      BY <1>0, <3>1 DEF Completed, GetMessage, Replied
    <3> QED BY <1>r, <2>1, <3>2 DEF WriteTimeout
  <2>2. CASE ~WriteTimeout(p)
    BY <1>4, <1>u, <2>2 DEF TimeoutStep, TakeExpired, CheckCompleted, PublishTimeout, RemoveKey, RemoveEntry,
       EntryFails, storeVars
  <2> QED BY <2>1, <2>2
<1>5. CASE Environment
  BY <1>5, <1>u DEF Environment, Relay, DeadlinePasses, KeyExpires, LlmReply, Crash
<1> QED BY <1>n, <1>1, <1>2, <1>3, <1>4, <1>5 DEF Next, Handlers

\* The reply of a handled event stands, from the write on.
LEMMA ReplyInv ==
    ASSUME TypeOK, TurnInv, CrossInv, CrossNext
    PROVE  ReplyStands'
<1> USE DEF CrossInv
<1>n. Next
  BY DEF CrossNext
<1>1. ASSUME NEW p \in Pods, cpc'[p] \in Clearing, OnlyReplied(Handled(p).msg)'
      PROVE  Replied(Handled(p).msg)'
  <2>1. /\ coff'[p] = coff[p]
        /\ \/ cpc[p] \in Clearing
           \/ /\ cpc[p] = "guard" /\ UNCHANGED rows
              /\ IsError(Handled(p)) /\ AlreadyAnswered(Handled(p).msg)
           \/ cpc[p] = "write" /\ rows' = AnswerRows(Handled(p))
    BY <1>n, <1>1, ConsumerMoves, ConsumerFrame DEF Clearing
  <2>2. cpc[p] \notin {"idle", "commit"}
    BY <2>1 DEF Clearing
  <2>h. Handled(p)' = Handled(p) /\ Handled(p).msg \in MsgId /\ coff[p] \in 1..Len(log)
    BY <1>n, <2>1, <2>2, HandledKept, HandledIsEvent DEF TypeOK, OffsetsOK
  <2>3. PICK m \in MsgId : m = Handled(p).msg /\ m = Handled(p)'.msg
    BY <2>h
  <2>4. OnlyReplied(m)' /\ OnlyReplied(m)
    BY <1>1, <2>3, OnlyRepliedBefore DEF OnlyReplied
  <2>5. Handled(p).content = "reply"
    BY <2>h, <2>3, <2>4 DEF OnlyReplied, Handled
  <2>6. Replied(m)'
    <3>1. CASE cpc[p] \in Clearing
      <4>1. Replied(m)
        BY <2>3, <2>4, <3>1 DEF ReplyStands, Clearing
      <4>2. \A t \in Turns : m \in Ids(t) => outbox[t] = "published"
        BY <2>2, <2>3, HandledWasPublished DEF TurnInv
      <4> QED BY <2>4, <4>1, <4>2, RepliedKept
    <3>2. CASE IsError(Handled(p))
      BY <2>5, <3>2 DEF IsError
    <3>3. CASE rows' = AnswerRows(Handled(p))
      <4>1. AnswerRows(Handled(p))[m] = [sender |-> "assistant", status |-> "sent", content |-> "reply"]
        BY <2>3, <2>5 DEF AnswerRows, WithRow, IsError, TypeOK, StoreTypeOK
      <4> QED BY <2>3, <3>3, <4>1 DEF Replied
    <3> QED BY <2>1, <3>1, <3>2, <3>3
  <2> QED BY <2>3, <2>6 DEF Replied
<1>2. ASSUME NEW m \in inbox', OnlyReplied(m)' PROVE Replied(m)'
  <2>1. CASE m \in inbox
    <3>1. m \in MsgId
      BY <2>1 DEF TypeOK, StoreTypeOK
    <3>2. Replied(m)
      BY <1>2, <2>1, <3>1, OnlyRepliedBefore DEF ReplyStands
    <3>3. \A t \in Turns : m \in Ids(t) => outbox[t] = "published"
      BY <2>1 DEF TurnInv, InboxWasPublished
    <3> QED BY <1>2, <3>1, <3>2, <3>3, RepliedKept
  <2>2. CASE m \notin inbox
    <3>1. PICK p \in Pods : cpc[p] = "save" /\ m = Handled(p).msg /\ UNCHANGED <<rows, outbox>>
      BY <1>n, <2>2, InboxStep
    <3>2. m \in MsgId
      BY <3>1 DEF TypeOK, OffsetsOK
    <3>3. Replied(m)
      BY <1>2, <3>1, <3>2, OnlyRepliedBefore DEF ReplyStands
    <3> QED BY <3>1, <3>3 DEF Replied
  <2> QED BY <2>1, <2>2
<1> QED BY <1>1, <1>2 DEF ReplyStands, Clearing

\* The record is only a record: the behaviours are those of Turn.
LEMMA RecordsOnly == CrossSpec => Spec
<1>1. CrossInit => Init
  BY DEF CrossInit
<1>2. [CrossNext]_crossVars => [Next]_vars
  BY DEF CrossNext, crossVars
<1> QED BY <1>1, <1>2, PTL DEF CrossSpec, Spec

\* In any number of pods the invariant of the record holds.
LEMMA CrossInvHolds == CrossSpec => []CrossInv
<1>1. CrossInit => CrossInv
  <2>1. CrossInit => CheckStands
    BY DEF CrossInit, Init, ConsumerInit, TimeoutInit, CheckStands
  <2>2. CrossInit => TurnStarts
    <3> SUFFICES ASSUME CrossInit PROVE TurnStarts
      OBVIOUS
    <3>1. \A t \in Turns : rows[ResponseId(t)].status # "sent"
      BY IdsAreMessages DEF CrossInit, Init, StoreInit, NoRow
    <3>2. \A t \in Turns : hpc[t] = "idle" /\ replaces[t] = NoMsg
      BY DEF CrossInit, Init, HandlerInit
    <3> QED BY <3>1, <3>2 DEF TurnStarts
  <2>3. CrossInit => ReplyStands
    BY DEF CrossInit, Init, StoreInit, ConsumerInit, ReplyStands
  <2> QED BY <2>1, <2>2, <2>3 DEF CrossInv
<1>2. TypeOK /\ TurnInv /\ CrossInv /\ [CrossNext]_crossVars => CrossInv'
  <2>1. ASSUME TypeOK, TurnInv, CrossInv, CrossNext PROVE CrossInv'
    <3>1. CheckStands /\ TurnStarts
      BY <2>1 DEF CrossInv
    <3> QED BY <2>1, <3>1, CheckInv, StartsInv, ReplyInv DEF CrossInv
  <2>2. ASSUME CrossInv, UNCHANGED crossVars PROVE CrossInv'
    <3> USE <2>2 DEF crossVars, vars, storeVars, handlerVars, consumerVars, timeoutVars, CrossInv
    <3>1. CheckStands'
      BY DEF CheckStands, IsError, Handled, AlreadyAnswered, Completed, GetMessage
    <3>2. TurnStarts'
      BY DEF TurnStarts
    <3>3. ReplyStands'
      BY DEF ReplyStands, OnlyReplied, Replied, Handled
    <3> QED BY <3>1, <3>2, <3>3
  <2> QED BY <2>1, <2>2
<1> QED BY <1>1, <1>2, RecordsOnly, TypeCorrect, TurnInvariantHolds, PTL DEF CrossSpec

\* A stored reply is turned into a failure only when another task changed
\* its row between the read and the write of the worker or the consumer, for
\* any number of pods.
THEOREM OnlyCrossingFails == CrossSpec => FailedOnlyWhenCrossed
<1>1. TypeOK /\ CrossInv /\ [CrossNext]_crossVars =>
        [\A m \in MsgId : /\ rows[m].sender = "assistant"
                          /\ rows[m].status = "sent"
                          /\ rows[m].content # ""
                          => rows'[m].status # "failed" \/ m \in crossed]_rows
  BY ReplyNotFailed DEF CrossInv, CrossNext, crossVars, vars, storeVars
<1> QED BY <1>1, CrossInvHolds, RecordsOnly, TypeCorrect, PTL DEF CrossSpec, FailedOnlyWhenCrossed

\* A reply that comes after the timeout still wins, and one that came before
\* is kept, in any number of pods: once its event is handled the reply
\* stands, unless another outcome was sent, a client deleted or replaced it,
\* or its row was crossed.
THEOREM HandledRepliesStand == CrossSpec => []HandledReplyStands
<1>1. CrossInv => HandledReplyStands
  BY DEF CrossInv, ReplyStands, HandledReplyStands, OnlyReplied, Replied
<1> QED BY <1>1, CrossInvHolds, PTL

-----------------------------------------------------------------------------
(* Only tasks of different pods cross. *)

\* While a task is about to write, nobody else of its pod changes the row.
LEMMA NobodyCrosses ==
    ASSUME TypeOK, OnePod, LoopIsKept, Next
    PROVE  Crossing = {}
<1> SUFFICES ASSUME NEW m \in MsgId, StillToWrite(m) PROVE rows' = rows
  BY DEF Crossing
<1> USE DEF OnePod, LoopIsKept, TypeOK, HandlerTypeOK, ConsumerTypeOK, TimeoutTypeOK, Free
<1>0. \/ /\ \A p \in Pods : cpc[p] = "write" /\ cpc'[p] = "write" /\ loop[p] = "consumer"
      \/ /\ \A p \in Pods : tpc[p] = "write" /\ tpc'[p] = "write" /\ loop[p] = "timeout"
      \/ /\ \A p \in Pods : loop[p] = "handler"
         /\ \E t \in Turns : /\ hpc[t] = "discard" /\ hpc'[t] = "discard"
                             /\ \A u \in Turns \ {t} : hpc[u] \notin Holding
  <2>1. \A p, q \in Pods : p = q
    OBVIOUS
  <2>2. ASSUME NEW t \in Turns, hpc[t] = "discard" PROVE /\ \A p \in Pods : loop[p] = "handler"
                                                         /\ \A u \in Turns \ {t} : hpc[u] \notin Holding
    <3>1. \A u \in Turns : hpod[u] = hpod[t] /\ hpod[t] \in Pods
      OBVIOUS
    <3> QED BY <2>2, <3>1 DEF Holding
  <2> QED BY <2>1, <2>2 DEF StillToWrite
<1>1. ASSUME NEW t \in Turns, HandlerStep(t) PROVE rows' = rows
  <2>1. hpod[t] \in Pods
    OBVIOUS
  <2>2. CASE loop[hpod[t]] # "handler"
    <3>1. loop[hpod[t]] # "free" /\ hpc[t] \notin Holding
      BY <1>0, <2>1, <2>2 DEF Holding
    <3> QED BY <1>1, <3>1 DEF HandlerStep, BeginSend, BeginRegenerate, PlacePending, RegisterKey,
               RegisterDeadline, Stage, Replace, ClearKey, ClearZset, Unplace, Discard, Holding
  <2>3. CASE loop[hpod[t]] = "handler"
    <3>1. PICK u \in Turns : hpc'[u] = "discard" /\ \A v \in Turns \ {u} : hpc[v] \notin Holding
      BY <1>0, <2>1, <2>3
    <3>2. CASE Replace(t) \/ Discard(t)
      <4>1. t = u
        BY <3>1, <3>2 DEF Replace, Discard, Holding
      <4> QED BY <3>1, <3>2, <4>1 DEF Replace, Discard, Goto
    <3>3. CASE ~(Replace(t) \/ Discard(t))
      BY <1>1, <2>3, <3>3 DEF HandlerStep, BeginSend, BeginRegenerate, PlacePending, RegisterKey,
         RegisterDeadline, Stage, ClearKey, ClearZset, Unplace
    <3> QED BY <3>2, <3>3
  <2> QED BY <2>2, <2>3
<1>2. ASSUME NEW q \in Pods, NEW n \in MsgId, DeleteMessage(q, n) PROVE rows' = rows
  BY <1>0, <1>2 DEF DeleteMessage
<1>3. ASSUME NEW q \in Pods, ConsumerStep(q) PROVE rows' = rows
  <2>1. CASE WriteAnswer(q)
    BY <1>0, <2>1 DEF WriteAnswer, ConsumerGoto, GiveUp
  <2>2. CASE ~WriteAnswer(q)
    BY <1>3, <2>2 DEF ConsumerStep, Poll, Guard, ConsumerClearKey, ConsumerClearZset, PublishFinal, SaveInbox,
       Commit, Rebalance
  <2> QED BY <2>1, <2>2
<1>4. ASSUME NEW q \in Pods, TimeoutStep(q) PROVE rows' = rows
  <2>1. CASE WriteTimeout(q)
    BY <1>0, <2>1 DEF WriteTimeout, TimeoutGoto, LeaveEntry
  <2>2. CASE ~WriteTimeout(q)
    BY <1>4, <2>2 DEF TimeoutStep, TakeExpired, CheckCompleted, PublishTimeout, RemoveKey, RemoveEntry,
       EntryFails, storeVars
  <2> QED BY <2>1, <2>2
<1>5. CASE Environment
  BY <1>5 DEF Environment, Relay, DeadlinePasses, KeyExpires, LlmReply, Crash
<1> QED BY <1>1, <1>2, <1>3, <1>4, <1>5 DEF Next, Handlers

\* Nothing is ever crossed in a single pod: the event loop, which the task
\* keeps from its read to its write, shuts out every other task of the pod.
\* With OnlyCrossingFails, a failure over a reply takes two pods.
THEOREM OnePodCrossesNothing == OnePod => (CrossSpec => [](crossed = {}))
<1> SUFFICES ASSUME OnePod PROVE CrossSpec => [](crossed = {})
  OBVIOUS
<1>1. CrossInit => LoopIsKept /\ crossed = {}
  BY DEF CrossInit, Init, StoreInit, HandlerInit, ConsumerInit, TimeoutInit, LoopIsKept
<1>2. TypeOK /\ (LoopIsKept /\ crossed = {}) /\ [CrossNext]_crossVars => (LoopIsKept /\ crossed = {})'
  <2>1. ASSUME TypeOK, LoopIsKept, crossed = {}, CrossNext PROVE (LoopIsKept /\ crossed = {})'
    <3>1. Next
      BY <2>1 DEF CrossNext
    <3> QED BY <2>1, <3>1, LoopInv, NobodyCrosses DEF CrossNext
  <2>2. ASSUME LoopIsKept, UNCHANGED crossVars PROVE LoopIsKept' /\ crossed' = crossed
    BY <2>2 DEF LoopIsKept, crossVars, vars, storeVars, handlerVars, consumerVars, timeoutVars
  <2> QED BY <2>1, <2>2
<1> QED BY <1>1, <1>2, RecordsOnly, TypeCorrect, PTL DEF CrossSpec
=============================================================================
