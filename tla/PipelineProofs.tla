--------------------------- MODULE PipelineProofs ---------------------------
(***************************************************************************)
(* Theorems about the metrics Pipeline keeps, for every program, reducer   *)
(* and middleware and any number of threads and workers: the gauge and its *)
(* maximum are exact, and the counters add up.                             *)
(*                                                                         *)
(* That a send and the metrics StoreImpl::dispatch sets once more after it *)
(* are two steps is what the invariant, PInv, is about: dispatch_tx is     *)
(* locked in between (Locked), so that nothing else has entered the        *)
(* channel when the thread comes to them (Latest).  Close() takes the      *)
(* sender out of dispatch_tx only when nobody has it locked, and sends     *)
(* Exit when nobody can lock and use it any more.                          *)
(*                                                                         *)
(* That counters only grow (OnlyGaugesMayFall) needs the types of what is  *)
(* added to them (Measured); the length of a list of effects is a number   *)
(* as long as reducers and middlewares return lists (WellTyped).           *)
(***************************************************************************)
EXTENDS Pipeline, SequenceLemmas, TLAPS

\* The fields of the metrics.
Fields == Counters \cup Times

-----------------------------------------------------------------------------
(* The metrics *)

\* A new record of metrics has all fields, with nothing in them.
LEMMA NoFields ==
  /\ DOMAIN NoMetrics = Fields
  /\ \A c \in Counters : NoMetrics[c] = 0
  /\ \A d \in Times : NoMetrics[d] = NoTime
BY DEF NoMetrics, Fields, Counters, Times

\* A counter that an operation adds to, the others being left alone.
Adds(m, n, c, count) ==
  /\ DOMAIN n = Fields
  /\ \A f \in Fields \ {c} : n[f] = m[f]
  /\ n[c] = m[c] + count

\* What the operations of CountMetrics do that count.
LEMMA CountersAdd ==
  ASSUME NEW m, DOMAIN m = Fields, NEW k
  PROVE  /\ Adds(m, ActionReceived(m), "action_received", 1)
         /\ Adds(m, ActionDropped(m), "action_dropped", 1)
         /\ Adds(m, ErrorOccurred(m), "error_occurred", 1)
         /\ Adds(m, StateNotified(m), "state_notified", 1)
         /\ Adds(m, EffectIssued(m, k), "effect_issued", k)
         /\ Adds(m, EffectExecuted(m, k), "effect_executed", k)
<1> USE DEF Adds, Fields, Counters, Times
<1>1. Adds(m, ActionReceived(m), "action_received", 1)
  BY DEF ActionReceived
<1>2. Adds(m, ActionDropped(m), "action_dropped", 1)
  BY DEF ActionDropped
<1>3. Adds(m, ErrorOccurred(m), "error_occurred", 1)
  BY DEF ErrorOccurred
<1>4. Adds(m, StateNotified(m), "state_notified", 1)
  BY DEF StateNotified
<1>5. Adds(m, EffectIssued(m, k), "effect_issued", k)
  BY DEF EffectIssued
<1>6. Adds(m, EffectExecuted(m, k), "effect_executed", k)
  BY DEF EffectExecuted
<1> QED
  BY <1>1, <1>2, <1>3, <1>4, <1>5, <1>6

\* A counter that is added to, and a time that goes with it.
AddsTimed(m, n, c, count, t, d) ==
  /\ DOMAIN n = Fields
  /\ \A f \in Fields \ {c, t} : n[f] = m[f]
  /\ n[c] = m[c] + count
  /\ n[t] = Timed(m[t], d)

\* What those do that measure a duration as well.
LEMMA TimesAdd ==
  ASSUME NEW m, DOMAIN m = Fields, NEW d, NEW k
  PROVE  /\ AddsTimed(m, ActionReduced(m, d),
                      "action_reduced", 1, "reducer_time", d)
         /\ AddsTimed(m, MiddlewareExecuted(m, d),
                      "middleware_executed", 1, "middleware_time", d)
         /\ AddsTimed(m, SubscriberNotified(m, k, d),
                      "subscriber_notified", k, "subscriber_time", d)
<1> USE DEF AddsTimed, Fields, Counters, Times
<1>1. AddsTimed(m, ActionReduced(m, d),
                "action_reduced", 1, "reducer_time", d)
  BY DEF ActionReduced
<1>2. AddsTimed(m, MiddlewareExecuted(m, d),
                "middleware_executed", 1, "middleware_time", d)
  BY DEF MiddlewareExecuted
<1>3. AddsTimed(m, SubscriberNotified(m, k, d),
                "subscriber_notified", k, "subscriber_time", d)
  BY DEF SubscriberNotified
<1> QED
  BY <1>1, <1>2, <1>3

\* The gauge and its maximum.
LEMMA SizeSet ==
  ASSUME NEW m, DOMAIN m = Fields, NEW k
  PROVE  /\ DOMAIN QueueSize(m, k) = Fields
         /\ \A f \in Fields \ {"remaining_queue", "remaining_queue_max"} :
              QueueSize(m, k)[f] = m[f]
         /\ QueueSize(m, k).remaining_queue = k
         /\ QueueSize(m, k).remaining_queue_max =
              IF k > m.remaining_queue_max THEN k ELSE m.remaining_queue_max
BY DEF Fields, Counters, Times, QueueSize

-----------------------------------------------------------------------------
(* The channel *)

\* Whatever a sequence is made of, it is one of its elements.
LEMMA OfItself ==
  ASSUME NEW S, NEW q \in Seq(S)
  PROVE  q \in Seq(ToSet(q))
<1>1. q \in [1 .. Len(q) -> S] /\ Len(q) \in Nat
  BY LenProperties
<1>2. q \in [1 .. Len(q) -> ToSet(q)]
  BY <1>1 DEF ToSet
<1> QED
  BY <1>1, <1>2, SeqDef

\* It is one of any larger set as well.
LEMMA OfMore ==
  ASSUME NEW S, NEW T, S \subseteq T, NEW q \in Seq(S)
  PROVE  q \in Seq(T)
<1>1. q \in [1 .. Len(q) -> S] /\ Len(q) \in Nat
  BY LenProperties
<1>2. q \in [1 .. Len(q) -> T]
  BY <1>1
<1> QED
  BY <1>1, <1>2, SeqDef

\* How many items the queue holds, and what is remembered of it.
Lengths ==
  /\ queue \in Seq(ToSet(queue)) /\ sent \in Nat
  /\ latest \in Nat /\ longest \in Nat /\ latest <= longest

\* A send makes the queue longer, or drops one action and counts it.
LEMMA EnterFacts ==
  ASSUME Lengths, NEW op, Enters(op)
  PROVE  /\ Lengths'
         /\ sent' = sent + 1 /\ latest' = Len(queue')
         /\ longest' = IF latest' > longest THEN latest' ELSE longest
         /\ \/ /\ metrics' = QueueSize(metrics, latest')
               /\ Len(queue') = Len(queue) + 1
            \/ /\ metrics' = QueueSize(ActionDropped(metrics), latest')
               /\ Len(queue') = Len(queue)
<1> DEFINE x == [op |-> op]
           S == ToSet(queue) \cup {x}
<1>1. /\ queue' = QueueWith(op) /\ sent' = sent + 1 /\ latest' = Len(queue')
      /\ longest' = IF Len(queue') > longest THEN Len(queue') ELSE longest
      /\ metrics' = QueueSize(IF Channel!HasRoom(queue) THEN metrics
                              ELSE ActionDropped(metrics), Len(QueueWith(op)))
      /\ Channel!HasRoom(queue) \/ Channel!Victims(queue) # {}
  BY DEF Enters, Counted, Channel!Blocks
<1>2. queue \in Seq(S) /\ x \in S /\ Len(queue) \in Nat
  BY OfMore, LenProperties DEF Lengths
<1>3. CASE Channel!HasRoom(queue)
  <2>1. queue' = Append(queue, x)
    BY <1>1, <1>3 DEF QueueWith
  <2>2. queue' \in Seq(S) /\ Len(queue') = Len(queue) + 1
    BY <1>2, <2>1, AppendProperties
  <2>3. queue' \in Seq(ToSet(queue'))
    BY <2>2, OfItself
  <2>4. metrics' = QueueSize(metrics, latest')
    BY <1>1, <1>3
  <2> QED
    BY <1>1, <1>2, <2>2, <2>3, <2>4 DEF Lengths
<1>4. CASE ~Channel!HasRoom(queue)
  <2> DEFINE i == CHOOSE i \in Channel!Victims(queue) : TRUE
             r == RemoveAt(queue, i)
  <2>1. i \in 1 .. Len(queue)
    <3>1. i \in Channel!Victims(queue)
      BY <1>1, <1>4
    <3>2. Channel!Victims(queue) \subseteq DOMAIN queue
      BY DEF Channel!Victims
    <3> QED
      BY <1>2, <3>1, <3>2, LenProperties
  <2> HIDE DEF i
  <2>2. r \in Seq(S) /\ Len(r) = Len(queue) - 1
    BY <1>2, <2>1, RemoveAtProperties
  <2>3. queue' = Append(r, x)
    BY <1>1, <1>4 DEF QueueWith, i
  <2> HIDE DEF r
  <2>4. queue' \in Seq(S) /\ Len(queue') = Len(queue)
    BY <1>2, <2>2, <2>3, AppendProperties
  <2>5. queue' \in Seq(ToSet(queue'))
    BY <2>4, OfItself
  <2>6. metrics' = QueueSize(ActionDropped(metrics), latest')
    BY <1>1, <1>4
  <2> QED
    BY <1>1, <1>2, <2>4, <2>5, <2>6 DEF Lengths
<1> QED
  BY <1>3, <1>4


-----------------------------------------------------------------------------
(* The inductive invariant *)

\* Who has dispatch_tx locked, once the send is through: nobody after close(),
\* and one thread at most.
Locked ==
  /\ txLock = {t \in Threads : pc[t] = "dispatched"}
  /\ \A t, u \in txLock : t = u
  /\ ~txOpen => txLock = {}
  /\ \A t \in Threads : pc[t] = "exit" => ~txOpen
  /\ DOMAIN pc = Threads /\ DOMAIN remains = Threads

\* Nothing has entered since the send of a thread that is still at the metrics.
Latest == \A t \in txLock : remains[t] = latest

\* The gauge and its maximum are what is remembered of the queue.
Gauges ==
  /\ DOMAIN metrics = Fields
  /\ metrics.remaining_queue = latest
  /\ metrics.remaining_queue_max = longest

\* What has been sent is in the queue, or was counted when it left it.
Counts ==
  /\ metrics.action_received \in Nat /\ metrics.action_dropped \in Nat
  /\ sent = metrics.action_received + metrics.action_dropped + Len(queue)

\* What do_effect has issued and not yet counted as executed.
Effects ==
  /\ rpc \in {"recv", "notify"} =>
       metrics.effect_issued = metrics.effect_executed
  /\ rpc = "effects" =>
       metrics.effect_issued =
         metrics.effect_executed + Len(current.outcome.result.effects)

\* All of this is preserved by every step.
PInv == Lengths /\ Locked /\ Latest /\ Gauges /\ Counts /\ Effects

\* It holds of a new store.
LEMMA InitInv == Init => PInv
<1> SUFFICES ASSUME Init PROVE PInv
  OBVIOUS
<1>1. /\ metrics = NoMetrics /\ queue = <<>> /\ sent = 0 /\ latest = 0
      /\ longest = 0 /\ rpc = "recv" /\ txOpen = TRUE /\ txLock = {}
      /\ pc = [t \in Threads |-> "run"] /\ remains = [t \in Threads |-> 0]
  BY DEF Init
<1>2. Lengths
  BY <1>1, EmptySeq DEF Lengths
<1>3. Locked /\ Latest
  BY <1>1 DEF Locked, Latest
<1>4. /\ DOMAIN metrics = Fields /\ \A c \in Counters : metrics[c] = 0
  BY <1>1, NoFields
<1>5. Gauges
  BY <1>1, <1>4 DEF Gauges, Counters
<1>6. Counts
  <2>1. Len(queue) = 0
    BY <1>1, EmptySeq
  <2> QED
    BY <1>1, <1>4, <2>1 DEF Counts, Counters
<1>7. Effects
  BY <1>1, <1>4 DEF Effects, Counters
<1> QED
  BY <1>2, <1>3, <1>5, <1>6, <1>7 DEF PInv

-----------------------------------------------------------------------------
(* What the kinds of steps keep *)

\* A send: nobody has dispatch_tx, unless the step itself takes it.
LEMMA SendKeeps ==
  ASSUME PInv, txLock = {}, NEW op, Enters(op),
         UNCHANGED <<rpc, current>>,
         Locked', Latest'
  PROVE  PInv'
<1>1. /\ Lengths' /\ sent' = sent + 1 /\ latest' = Len(queue')
      /\ longest' = IF latest' > longest THEN latest' ELSE longest
      /\ \/ /\ metrics' = QueueSize(metrics, latest')
            /\ Len(queue') = Len(queue) + 1
         \/ /\ metrics' = QueueSize(ActionDropped(metrics), latest')
            /\ Len(queue') = Len(queue)
  BY EnterFacts DEF PInv
<1>2. /\ Len(queue) \in Nat /\ DOMAIN metrics = Fields
      /\ metrics.remaining_queue_max = longest
  BY LenProperties DEF PInv, Lengths, Gauges
<1>3. PICK m : /\ metrics' = QueueSize(m, latest') /\ DOMAIN m = Fields
               /\ \/ m = metrics /\ Len(queue') = Len(queue) + 1
                  \/ /\ Adds(metrics, m, "action_dropped", 1)
                     /\ Len(queue') = Len(queue)
  <2>1. Adds(metrics, ActionDropped(metrics), "action_dropped", 1)
    BY <1>2, CountersAdd
  <2> QED
    BY <1>1, <1>2, <2>1 DEF Adds
<1>4. /\ \A f \in Fields \ {"action_dropped"} : m[f] = metrics[f]
      /\ \/ /\ m.action_dropped = metrics.action_dropped
            /\ Len(queue') = Len(queue) + 1
         \/ /\ m.action_dropped = metrics.action_dropped + 1
            /\ Len(queue') = Len(queue)
  BY <1>3 DEF Adds
<1>5. /\ DOMAIN metrics' = Fields
      /\ \A f \in Fields \ {"remaining_queue", "remaining_queue_max"} :
           metrics'[f] = m[f]
      /\ metrics'.remaining_queue = latest'
      /\ metrics'.remaining_queue_max =
           IF latest' > m.remaining_queue_max THEN latest'
           ELSE m.remaining_queue_max
  BY <1>3, SizeSet
<1>6. Gauges'
  BY <1>1, <1>2, <1>4, <1>5 DEF Gauges, Fields, Counters
<1>7. Counts'
  <2>1. /\ metrics'.action_received = metrics.action_received
        /\ metrics'.action_dropped = m.action_dropped
    BY <1>4, <1>5 DEF Fields, Counters
  <2>2. Len(queue') \in Nat
    BY <1>1, <1>2
  <2>3. /\ metrics.action_received \in Nat /\ metrics.action_dropped \in Nat
        /\ sent = metrics.action_received + metrics.action_dropped + Len(queue)
    BY DEF PInv, Counts
  <2>4. metrics'.action_received \in Nat /\ metrics'.action_dropped \in Nat
    BY <1>4, <2>1, <2>3
  <2>5. sent' = metrics'.action_received + metrics'.action_dropped + Len(queue')
    <3> DEFINE a == metrics.action_received
               b == metrics.action_dropped
    <3>0. a \in Nat /\ b \in Nat /\ sent' = (a + b + Len(queue)) + 1
      BY <1>1, <2>3
    <3> HIDE DEF a, b
    <3>1. CASE /\ m.action_dropped = metrics.action_dropped
               /\ Len(queue') = Len(queue) + 1
      <4>1. metrics'.action_received = a /\ metrics'.action_dropped = b
        BY <2>1, <3>1 DEF a, b
      <4> QED
        BY <1>2, <3>0, <3>1, <4>1
    <3>2. CASE /\ m.action_dropped = metrics.action_dropped + 1
               /\ Len(queue') = Len(queue)
      <4>1. metrics'.action_received = a /\ metrics'.action_dropped = b + 1
        BY <2>1, <3>2 DEF a, b
      <4> QED
        BY <1>2, <3>0, <3>2, <4>1
    <3> QED
      BY <1>4, <3>1, <3>2
  <2> QED
    BY <2>4, <2>5 DEF Counts
<1>8. Effects'
  BY <1>4, <1>5 DEF PInv, Effects, Fields, Counters
<1> QED
  BY <1>1, <1>6, <1>7, <1>8 DEF PInv

\* The metrics may change but for what the invariant says of them.
OtherMetrics ==
  /\ DOMAIN metrics' = Fields
  /\ \A f \in {"remaining_queue", "remaining_queue_max", "action_received",
               "action_dropped", "effect_issued", "effect_executed"} :
       metrics'[f] = metrics[f]

\* A step that leaves the channel and these counters alone.
LEMMA QuietKeeps ==
  ASSUME PInv, UNCHANGED <<queue, sent, longest, latest>>, OtherMetrics,
         Locked', Latest', Effects'
  PROVE  PInv'
<1>1. Lengths'
  BY DEF PInv, Lengths
<1>2. Gauges'
  BY DEF PInv, Gauges, OtherMetrics
<1>3. Counts'
  BY DEF PInv, Counts, OtherMetrics
<1> QED
  BY <1>1, <1>2, <1>3 DEF PInv

\* A turn of the reducer thread begins: it takes an item, and counts it.
LEMMA RecvKeeps ==
  ASSUME PInv, queue # <<>>, queue' = Tail(queue),
         UNCHANGED <<sent, longest, latest>>,
         DOMAIN metrics' = Fields,
         metrics'.action_received = metrics.action_received + 1,
         \A f \in {"remaining_queue", "remaining_queue_max", "action_dropped"} :
           metrics'[f] = metrics[f],
         Locked', Latest', Effects'
  PROVE  PInv'
<1>1. /\ queue' \in Seq(ToSet(queue)) /\ Len(queue) \in Nat \ {0}
      /\ Len(queue') = Len(queue) - 1
  BY HeadTailProperties, LenProperties, EmptySeq DEF PInv, Lengths
<1>2. Lengths'
  BY <1>1, OfItself DEF PInv, Lengths
<1>3. Gauges'
  BY DEF PInv, Gauges
<1>4. Counts'
  <2>1. /\ metrics.action_received \in Nat /\ metrics.action_dropped \in Nat
        /\ sent = metrics.action_received + metrics.action_dropped + Len(queue)
    BY DEF PInv, Counts
  <2>2. metrics'.action_dropped = metrics.action_dropped
    OBVIOUS
  <2>3. sent' = metrics'.action_received + metrics'.action_dropped + Len(queue')
    BY <1>1, <2>1, <2>2
  <2> QED
    BY <2>1, <2>2, <2>3 DEF Counts
<1> QED
  BY <1>2, <1>3, <1>4 DEF PInv

\* A thread goes on that has dispatch_tx not locked, and locks it not.
LEMMA LockKeeps ==
  ASSUME Locked, Latest, NEW t \in Threads, pc[t] # "dispatched", NEW v,
         pc' = [pc EXCEPT ![t] = v], v \notin {"dispatched", "exit"},
         UNCHANGED <<txOpen, txLock, remains>>,
         latest' = latest \/ txLock = {}
  PROVE  Locked' /\ Latest'
<1>1. \A u \in Threads : pc'[u] = IF u = t THEN v ELSE pc[u]
  BY DEF Locked
<1>2. \A u \in Threads : pc'[u] = "dispatched" <=> pc[u] = "dispatched"
  BY <1>1
<1>3. Locked'
  BY <1>1, <1>2 DEF Locked
<1>4. Latest'
  BY DEF Latest
<1> QED
  BY <1>3, <1>4

\* Nobody moves who could have it locked.
LEMMA LockStays ==
  ASSUME Locked, Latest, UNCHANGED <<txOpen, txLock, pc, remains>>,
         latest' = latest \/ txLock = {}
  PROVE  Locked' /\ Latest'
BY DEF Locked, Latest

\* The metrics are left alone, ...
LEMMA SameMetrics ==
  ASSUME PInv, UNCHANGED metrics
  PROVE  OtherMetrics
BY DEF PInv, Gauges, OtherMetrics

\* ... or count something else, ...
LEMMA CountedOther ==
  ASSUME PInv, NEW c, NEW k, Adds(metrics, metrics', c, k),
         c \in {"error_occurred", "state_notified"}
  PROVE  OtherMetrics
BY DEF PInv, Gauges, OtherMetrics, Adds, Fields, Counters

\* ... and so is where the reducer thread is.
LEMMA EffectsStay ==
  ASSUME Effects, OtherMetrics, UNCHANGED <<rpc, current>>
  PROVE  Effects'
BY DEF Effects, OtherMetrics

-----------------------------------------------------------------------------
(* The steps of the threads *)

\* dispatch: its send, the metrics after it, and its failure.
LEMMA DispatchKeeps ==
  ASSUME PInv, NEW t \in Threads,
         DispatchSend(t) \/ DispatchReturns(t) \/ DispatchFails(t)
  PROVE  PInv'
<1>0. Locked /\ Latest /\ Lengths /\ Gauges /\ Effects
  BY DEF PInv
<1>1. CASE DispatchSend(t)
  <2>1. /\ txLock = {} /\ txOpen /\ Enters(Arg(t)) /\ txLock' = {t}
        /\ remains' = [remains EXCEPT ![t] = Len(queue')]
        /\ pc' = [pc EXCEPT ![t] = "dispatched"]
        /\ UNCHANGED <<txOpen, rpc, current>>
    BY <1>1 DEF DispatchSend, reducer
  <2>2. latest' = Len(queue')
    BY <2>1 DEF Enters
  <2>3. \A u \in Threads : pc'[u] = "dispatched" <=> u = t
    BY <1>0, <2>1 DEF Locked
  <2>4. Locked'
    BY <1>0, <2>1, <2>3 DEF Locked
  <2>5. Latest'
    BY <1>0, <2>1, <2>2 DEF Latest, Locked
  <2> QED
    BY <2>1, <2>4, <2>5, SendKeeps
<1>2. CASE DispatchReturns(t)
  <2>1. /\ pc[t] = "dispatched" /\ metrics' = QueueSize(metrics, remains[t])
        /\ txLock' = txLock \ {t} /\ pc' = [pc EXCEPT ![t] = "run"]
        /\ UNCHANGED <<queue, txOpen, sent, longest, latest, remains, rpc,
                       current>>
    BY <1>2 DEF DispatchReturns, Returns, reducer
  <2>2. t \in txLock /\ remains[t] = latest
    BY <1>0, <2>1 DEF Locked, Latest
  <2>3. OtherMetrics
    <3>1. /\ DOMAIN metrics' = Fields
          /\ \A f \in Fields \ {"remaining_queue", "remaining_queue_max"} :
               metrics'[f] = metrics[f]
          /\ metrics'.remaining_queue = latest
          /\ metrics'.remaining_queue_max =
               IF latest > metrics.remaining_queue_max THEN latest
               ELSE metrics.remaining_queue_max
      BY <1>0, <2>1, <2>2, SizeSet DEF Gauges
    <3>2. metrics'.remaining_queue_max = metrics.remaining_queue_max
      BY <1>0, <3>1 DEF Lengths, Gauges
    <3> QED
      BY <1>0, <3>1, <3>2 DEF Gauges, OtherMetrics, Fields, Counters
  <2>4. \A u \in Threads : pc'[u] = IF u = t THEN "run" ELSE pc[u]
    BY <1>0, <2>1 DEF Locked
  <2>5. Locked' /\ Latest'
    BY <1>0, <2>1, <2>2, <2>4 DEF Locked, Latest
  <2> QED
    BY <1>0, <2>1, <2>3, <2>5, EffectsStay, QuietKeeps
<1>3. CASE DispatchFails(t)
  <2>1. /\ pc[t] = "run" /\ pc' = [pc EXCEPT ![t] = "run"]
        /\ metrics' = ErrorOccurred(metrics)
        /\ UNCHANGED <<queue, txOpen, txLock, sent, longest, latest, remains,
                       rpc, current>>
    BY <1>3 DEF DispatchFails, Calls, Returns, Refused, reducer
  <2>2. OtherMetrics
    BY <1>0, <2>1, CountersAdd, CountedOther DEF Gauges
  <2>3. Locked' /\ Latest'
    BY <1>0, <2>1, LockKeeps
  <2> QED
    BY <1>0, <2>1, <2>2, <2>3, EffectsStay, QuietKeeps
<1> QED
  BY <1>1, <1>2, <1>3

\* The calls that send one operation, or find that they cannot.
LEMMA SendingKeeps ==
  ASSUME PInv, NEW t \in Threads, pc[t] = "run", txLock = {},
         pc' = [pc EXCEPT ![t] = "run"],
         UNCHANGED <<txOpen, txLock, rpc, current, remains>>,
         NEW op,
         Enters(op) \/ UNCHANGED <<queue, sent, longest, latest, metrics>>
  PROVE  PInv'
<1>0. Locked /\ Latest /\ Effects
  BY DEF PInv
<1>1. Locked' /\ Latest'
  BY <1>0, LockKeeps
<1>2. CASE Enters(op)
  BY <1>1, <1>2, SendKeeps
<1>3. CASE UNCHANGED <<queue, sent, longest, latest, metrics>>
  BY <1>0, <1>1, <1>3, SameMetrics, EffectsStay, QuietKeeps
<1> QED
  BY <1>2, <1>3

\* dispatch through a Dispatcher, add_subscriber, query_state.
LEMMA CallKeeps ==
  ASSUME PInv, NEW t \in Threads,
         Send(t) \/ AddSubscriber(t) \/ QueryState(t)
  PROVE  PInv'
<1>1. CASE Send(t)
  BY <1>1, SendingKeeps DEF Send, Calls, Returns, Refused, reducer
<1>2. CASE AddSubscriber(t)
  BY <1>2, SendingKeeps DEF AddSubscriber, Calls, Returns, Refused, reducer
<1>3. CASE QueryState(t)
  BY <1>3, SendingKeeps DEF QueryState, Calls, Returns, Refused, reducer
<1> QED
  BY <1>1, <1>2, <1>3

\* The calls that do not come to the channel.
LEMMA OtherCallKeeps ==
  ASSUME PInv, NEW t \in Threads,
         \/ Unsubscribe(t) \/ DispatchTask(t) \/ TakePool(t) \/ JoinPool(t)
         \/ Goes(t)
  PROVE  PInv'
<1>0. Locked /\ Latest /\ Effects
  BY DEF PInv
<1>1. /\ pc[t] \in {"run", "pool", "join"}
      /\ \E v \in {"run", "join"} : pc' = [pc EXCEPT ![t] = v]
      /\ UNCHANGED <<queue, txOpen, txLock, sent, longest, latest, remains, rpc,
                     current, metrics>>
  BY DEF Unsubscribe, DispatchTask, TakePool, JoinPool, Goes, May, Calls,
         Returns, channel, reducer, threads
<1>2. Locked' /\ Latest'
  BY <1>0, <1>1, LockKeeps
<1> QED
  BY <1>0, <1>1, <1>2, SameMetrics, EffectsStay, QuietKeeps

\* close: the sender is taken, then Exit sent.
LEMMA CloseKeeps ==
  ASSUME PInv, NEW t \in Threads, Close(t) \/ SendExit(t)
  PROVE  PInv'
<1>0. Locked /\ Latest /\ Effects
  BY DEF PInv
<1>1. CASE Close(t)
  <2>1. /\ pc[t] = "run" /\ txLock = {} /\ txOpen' = FALSE
        /\ \E v \in {"exit", "pool"} : pc' = [pc EXCEPT ![t] = v]
        /\ UNCHANGED <<queue, txLock, sent, longest, latest, remains, rpc,
                       current, metrics>>
    BY <1>1 DEF Close, Calls, reducer
  <2>2. Locked' /\ Latest'
    BY <1>0, <2>1 DEF Locked, Latest
  <2> QED
    BY <1>0, <2>1, <2>2, SameMetrics, EffectsStay, QuietKeeps
<1>2. CASE SendExit(t)
  <2>1. /\ pc[t] = "exit" /\ pc' = [pc EXCEPT ![t] = "pool"]
        /\ \/ Enters(Control("Exit"))
           \/ UNCHANGED <<queue, sent, longest, latest, metrics>>
        /\ UNCHANGED <<txOpen, txLock, remains, rpc, current>>
    BY <1>2 DEF SendExit, reducer
  <2>2. txLock = {}
    BY <1>0, <2>1 DEF Locked
  <2>3. Locked' /\ Latest'
    <3>1. pc[t] # "dispatched" /\ "pool" \notin {"dispatched", "exit"}
      BY <2>1
    <3>2. /\ pc' = [pc EXCEPT ![t] = "pool"]
          /\ UNCHANGED <<txOpen, txLock, remains>>
      BY <2>1
    <3> QED
      BY <1>0, <2>2, <3>1, <3>2, LockKeeps
  <2>4. CASE Enters(Control("Exit"))
    BY <2>1, <2>2, <2>3, <2>4, SendKeeps
  <2>5. CASE UNCHANGED <<queue, sent, longest, latest, metrics>>
    BY <1>0, <2>1, <2>3, <2>5, SameMetrics, EffectsStay, QuietKeeps
  <2> QED
    BY <2>1, <2>4, <2>5
<1> QED
  BY <1>1, <1>2

-----------------------------------------------------------------------------
(* The steps of the reducer thread *)

\* do_reduce: what is issued is what the outcome has.
LEMMA ReduceKeeps ==
  ASSUME PInv, RecvAction
  PROVE  PInv'
<1>1. PICK d, e \in program.durations : Reduce(Head(queue).op, d, e)
  BY DEF RecvAction
<1>2. /\ rpc = "recv" /\ queue # <<>> /\ queue' = Tail(queue)
      /\ UNCHANGED <<txOpen, txLock, sent, longest, latest, pc, remains>>
  BY DEF RecvAction, threads
<1>3. Locked' /\ Latest'
  BY <1>2, LockStays DEF PInv
<1> DEFINE received == ActionReceived(metrics)
           outcome == current'.outcome
<1>4. PICK m, time :
        /\ m = received \/ m = ActionReduced(received, d)
        /\ \/ /\ metrics' = EffectIssued(MiddlewareExecuted(m, time),
                                         Len(outcome.result.effects))
              /\ rpc' = "effects"
           \/ metrics' = m /\ rpc' \in {"recv", "dead"}
  <2> DEFINE out == Decorated(Store.middlewares, Store.reducers, state,
                              Head(queue).op)
             reduced == IF out.reduced = <<>> THEN received
                        ELSE ActionReduced(received, d)
             t == IF out.reduced = <<>> THEN e ELSE d + e
  <2>1. /\ current' = [action |-> Head(queue).op, before |-> state,
                       outcome |-> out, count |-> 0]
        /\ \/ /\ metrics' = EffectIssued(MiddlewareExecuted(reduced, t),
                                         Len(out.result.effects))
              /\ rpc' = "effects"
           \/ metrics' = reduced /\ (rpc' = rpc \/ rpc' = "dead")
    BY <1>1 DEF Reduce
  <2>2. outcome = out
    BY <2>1
  <2> HIDE DEF out, t
  <2> QED
    BY <1>2, <2>1, <2>2
<1> HIDE DEF outcome
<1>5. DOMAIN metrics = Fields
  BY DEF PInv, Gauges
<1>6. Adds(metrics, received, "action_received", 1)
  BY <1>5, CountersAdd
<1>7. /\ DOMAIN m = Fields
      /\ \A f \in Fields \ {"action_received", "action_reduced",
                            "reducer_time"} : m[f] = metrics[f]
      /\ m.action_received = metrics.action_received + 1
  <2>1. /\ DOMAIN received = Fields
        /\ \A f \in Fields \ {"action_received"} : received[f] = metrics[f]
        /\ received.action_received = metrics.action_received + 1
    BY <1>6 DEF Adds
  <2>2. AddsTimed(received, ActionReduced(received, d),
                  "action_reduced", 1, "reducer_time", d)
    BY <2>1, TimesAdd
  <2> HIDE DEF received
  <2>3. CASE m = received
    BY <2>1, <2>3
  <2>4. CASE m = ActionReduced(received, d)
    BY <2>1, <2>2, <2>4 DEF AddsTimed, Fields, Counters
  <2> QED
    BY <1>4, <2>3, <2>4
<1> DEFINE n == MiddlewareExecuted(m, time)
           issued == EffectIssued(n, Len(outcome.result.effects))
<1>8. /\ AddsTimed(m, n, "middleware_executed", 1, "middleware_time", time)
      /\ Adds(n, issued, "effect_issued", Len(outcome.result.effects))
  BY <1>7, TimesAdd, CountersAdd DEF AddsTimed
<1>9. /\ DOMAIN metrics' = Fields
      /\ metrics'.action_received = metrics.action_received + 1
      /\ \A f \in {"remaining_queue", "remaining_queue_max", "action_dropped",
                   "effect_executed"} : metrics'[f] = metrics[f]
  BY <1>4, <1>7, <1>8 DEF Adds, AddsTimed, Fields, Counters
<1>10. \/ /\ rpc' = "effects"
          /\ metrics'.effect_issued =
               metrics.effect_issued + Len(outcome.result.effects)
       \/ /\ rpc' \in {"recv", "dead"}
          /\ metrics'.effect_issued = metrics.effect_issued
  BY <1>4, <1>7, <1>8 DEF Adds, AddsTimed, Fields, Counters
<1>11. Effects'
  BY <1>2, <1>9, <1>10 DEF PInv, Effects, outcome
<1> QED
  BY <1>2, <1>3, <1>9, <1>11, RecvKeeps

\* The operations that are not actions.
LEMMA RecvControlKeeps ==
  ASSUME PInv, RecvAddSubscriber \/ RecvStateFunction \/ RecvExit
  PROVE  PInv'
<1>1. /\ rpc = "recv" /\ queue # <<>> /\ queue' = Tail(queue)
      /\ metrics' = ActionReceived(metrics) /\ rpc' \in {"recv", "ended"}
      /\ UNCHANGED <<txOpen, txLock, sent, longest, latest, pc, remains>>
  BY DEF RecvAddSubscriber, RecvStateFunction, RecvExit, threads, reducer
<1>2. Locked' /\ Latest'
  BY <1>1, LockStays DEF PInv
<1>3. Adds(metrics, metrics', "action_received", 1)
  BY <1>1, CountersAdd DEF PInv, Gauges
<1>4. Effects'
  BY <1>1, <1>3 DEF PInv, Effects, Adds, Fields, Counters
<1>5. /\ DOMAIN metrics' = Fields
      /\ metrics'.action_received = metrics.action_received + 1
      /\ \A f \in {"remaining_queue", "remaining_queue_max", "action_dropped"} :
           metrics'[f] = metrics[f]
  BY <1>3 DEF Adds, Fields, Counters
<1> QED
  BY <1>1, <1>2, <1>4, <1>5, RecvKeeps

\* do_effect's end: what was issued is counted as executed.
LEMMA UpdateKeeps ==
  ASSUME PInv, UpdateState
  PROVE  PInv'
<1> DEFINE k == Len(current.outcome.result.effects)
           executed == EffectExecuted(metrics, k)
<1>1. /\ rpc = "effects" /\ rpc' \in {"recv", "notify"}
      /\ metrics' = executed \/ metrics' = StateNotified(executed)
      /\ UNCHANGED <<queue, txOpen, txLock, sent, longest, latest, pc, remains>>
  BY DEF UpdateState, channel, threads
<1> HIDE DEF k
<1>2. Adds(metrics, executed, "effect_executed", k)
  BY CountersAdd DEF PInv, Gauges
<1>3. Adds(executed, StateNotified(executed), "state_notified", 1)
  BY <1>2, CountersAdd DEF Adds
<1>4. /\ DOMAIN metrics' = Fields
      /\ \A f \in {"remaining_queue", "remaining_queue_max", "action_received",
                   "action_dropped", "effect_issued"} :
           metrics'[f] = metrics[f]
      /\ metrics'.effect_executed = metrics.effect_executed + k
  BY <1>1, <1>2, <1>3 DEF Adds, Fields, Counters
<1>5. metrics.effect_issued = metrics.effect_executed + k
  BY <1>1 DEF PInv, Effects, k
<1>6. Effects'
  BY <1>1, <1>4, <1>5 DEF Effects
<1>7. Locked' /\ Latest'
  BY <1>1, LockStays DEF PInv
<1>8. Lengths'
  BY <1>1 DEF PInv, Lengths
<1>9. Gauges' /\ Counts'
  BY <1>1, <1>4 DEF PInv, Gauges, Counts
<1> QED
  BY <1>6, <1>7, <1>8, <1>9 DEF PInv

\* do_effect until its end, and do_notify.
LEMMA NotifyKeeps ==
  ASSUME PInv, IssueEffect \/ Notify \/ NotifyDone
  PROVE  PInv'
<1>0. Locked /\ Latest /\ Effects /\ DOMAIN metrics = Fields
  BY DEF PInv, Gauges
<1>1. CASE IssueEffect
  <2>1. UNCHANGED <<queue, txOpen, txLock, sent, longest, latest, pc, remains,
                    rpc, current, metrics>>
    BY <1>1 DEF IssueEffect, channel, threads
  <2> QED
    BY <1>0, <2>1, LockStays, SameMetrics, EffectsStay, QuietKeeps
<1>2. CASE Notify
  <2>1. /\ rpc = "notify"
        /\ UNCHANGED <<queue, txOpen, txLock, sent, longest, latest, pc,
                       remains, rpc, metrics>>
    BY <1>2 DEF Notify, channel, threads
  <2>2. Effects'
    BY <1>0, <2>1 DEF Effects
  <2> QED
    BY <1>0, <2>1, <2>2, LockStays, SameMetrics, QuietKeeps
<1>3. CASE NotifyDone
  <2>1. /\ rpc = "notify" /\ rpc' = "recv"
        /\ \E d : metrics' = SubscriberNotified(metrics, current.count, d)
        /\ UNCHANGED <<queue, txOpen, txLock, sent, longest, latest, pc,
                       remains>>
    BY <1>3 DEF NotifyDone, channel, threads
  <2>2. OtherMetrics
    BY <1>0, <2>1, TimesAdd DEF OtherMetrics, AddsTimed, Fields, Counters
  <2>3. Effects'
    BY <1>0, <2>1, <2>2 DEF Effects, OtherMetrics
  <2> QED
    BY <1>0, <2>1, <2>2, <2>3, LockStays, QuietKeeps
<1> QED
  BY <1>1, <1>2, <1>3

-----------------------------------------------------------------------------
(* The steps of the pool's threads *)

\* A task that dispatches sends as the others do.
LEMMA WorkerKeeps ==
  ASSUME PInv, NEW w \in Workers, Worker(w)
  PROVE  PInv'
<1>0. Locked /\ Latest /\ Effects
  BY DEF PInv
<1>1. CASE StartTask(w) \/ EndTask(w)
  <2>1. UNCHANGED <<queue, txOpen, txLock, sent, longest, latest, pc, remains,
                    rpc, current, metrics>>
    BY <1>1 DEF StartTask, EndTask, channel, threads, reducer
  <2> QED
    BY <1>0, <2>1, LockStays, SameMetrics, EffectsStay, QuietKeeps
<1>2. CASE TaskDispatches(w)
  <2>1. /\ txLock = {}
        /\ UNCHANGED <<txOpen, txLock, pc, remains, rpc, current>>
        /\ \/ Enters(Head(task[w]).action)
           \/ UNCHANGED <<queue, sent, longest, latest, metrics>>
    BY <1>2 DEF TaskDispatches, Refused, threads, reducer
  <2>2. Locked' /\ Latest'
    BY <1>0, <2>1, LockStays
  <2>3. CASE Enters(Head(task[w]).action)
    BY <2>1, <2>2, <2>3, SendKeeps
  <2>4. CASE UNCHANGED <<queue, sent, longest, latest, metrics>>
    BY <1>0, <2>1, <2>2, <2>4, SameMetrics, EffectsStay, QuietKeeps
  <2> QED
    BY <2>1, <2>3, <2>4
<1> QED
  BY <1>1, <1>2 DEF Worker

-----------------------------------------------------------------------------
(* Theorems *)

\* Every step of a thread, the reducer thread or a worker keeps it.
LEMMA StepKeeps == PInv /\ [Next]_vars => PInv'
<1> SUFFICES ASSUME PInv, [Next]_vars PROVE PInv'
  OBVIOUS
<1>1. ASSUME NEW t \in Threads, Thread(t) PROVE PInv'
  BY <1>1, DispatchKeeps, CallKeeps, OtherCallKeeps, CloseKeeps DEF Thread
<1>2. CASE Reducer
  BY <1>2, ReduceKeeps, RecvControlKeeps, UpdateKeeps, NotifyKeeps DEF Reducer
<1>3. ASSUME NEW w \in Workers, Worker(w) PROVE PInv'
  BY <1>3, WorkerKeeps
<1>4. CASE UNCHANGED vars
  BY <1>4 DEF vars, channel, threads, reducer, PInv, Lengths, Locked, Latest,
              Gauges, Counts, Effects
<1> QED
  BY <1>1, <1>2, <1>3, <1>4 DEF Next

\* PInv is an invariant of Pipeline.
THEOREM PipelineInvariance == Spec => []PInv
BY InitInv, StepKeeps, PTL DEF Spec

\* The gauge of the channel is the length after the latest send, and its maximum
\* the longest the channel has been, in every interleaving of the two times a
\* dispatch sets them.
THEOREM GaugesAreExact == Spec => []GaugesExact
<1>1. PInv => GaugesExact
  BY DEF PInv, Gauges, GaugesExact
<1> QED
  BY <1>1, PipelineInvariance, PTL

\* Every operation that entered the channel is counted as received, counted as
\* dropped or still queued; every effect issued is counted as executed.
THEOREM NothingUncounted == Spec => []CountersAddUp
<1>1. PInv => CountersAddUp
  BY DEF PInv, Counts, Effects, CountersAddUp
<1> QED
  BY <1>1, PipelineInvariance, PTL

-----------------------------------------------------------------------------
(* What the metrics may do *)

\* Counters are numbers, times three of them.
MetricsType(m) ==
  /\ DOMAIN m = Fields
  /\ \A c \in Counters : m[c] \in Nat
  /\ \A t \in Times : m[t] \in [max : Nat, min : Nat, total : Nat]

\* From m to n no counter and no time has become less, but for the gauge and the
\* minima.
Grows(m, n) ==
  /\ \A c \in Counters \ {"remaining_queue"} : n[c] >= m[c]
  /\ \A t \in Times : n[t].max >= m[t].max /\ n[t].total >= m[t].total

\* One operation after the other.
LEMMA GrowsOn ==
  ASSUME NEW m, NEW n, NEW o, MetricsType(m), MetricsType(n), MetricsType(o),
         Grows(m, n), Grows(n, o)
  PROVE  Grows(m, o)
<1>1. ASSUME NEW c \in Counters \ {"remaining_queue"} PROVE o[c] >= m[c]
  <2>1. m[c] \in Nat /\ n[c] \in Nat /\ o[c] \in Nat
    BY DEF MetricsType
  <2>2. n[c] >= m[c] /\ o[c] >= n[c]
    BY DEF Grows
  <2> QED
    BY <2>1, <2>2
<1>2. ASSUME NEW t \in Times
      PROVE  o[t].max >= m[t].max /\ o[t].total >= m[t].total
  <2>1. /\ m[t].max \in Nat /\ n[t].max \in Nat /\ o[t].max \in Nat
        /\ m[t].total \in Nat /\ n[t].total \in Nat /\ o[t].total \in Nat
    BY DEF MetricsType
  <2>2. /\ n[t].max >= m[t].max /\ o[t].max >= n[t].max
        /\ n[t].total >= m[t].total /\ o[t].total >= n[t].total
    BY DEF Grows
  <2> QED
    BY <2>1, <2>2
<1> QED
  BY <1>1, <1>2 DEF Grows

\* A duration makes a sum and a maximum greater, if anything.
LEMMA TimedGrows ==
  ASSUME NEW t \in [max : Nat, min : Nat, total : Nat], NEW d \in Nat
  PROVE  /\ Timed(t, d) \in [max : Nat, min : Nat, total : Nat]
         /\ Timed(t, d).max >= t.max /\ Timed(t, d).total >= t.total
BY DEF Timed

\* Counting lets the metrics grow, ...
LEMMA AddsGrows ==
  ASSUME NEW m, NEW n, NEW c \in Counters \ {"remaining_queue"}, NEW k \in Nat,
         MetricsType(m), Adds(m, n, c, k)
  PROVE  MetricsType(n) /\ Grows(m, n)
<1>1. /\ DOMAIN n = Fields /\ c \notin Times /\ m[c] \in Nat
      /\ \A f \in Fields \ {c} : n[f] = m[f]
      /\ n[c] = m[c] + k
  BY DEF Adds, MetricsType, Counters, Times
<1>2. \A f \in Counters : n[f] \in Nat /\ (f = c \/ n[f] = m[f])
  BY <1>1 DEF MetricsType, Fields
<1>3. \A t \in Times : n[t] = m[t]
  BY <1>1 DEF Fields
<1>4. ASSUME NEW f \in Counters PROVE n[f] >= m[f]
  <2>1. m[f] \in Nat
    BY DEF MetricsType
  <2> QED
    BY <1>1, <1>2, <2>1
<1>5. \A t \in Times : m[t].max \in Nat /\ m[t].total \in Nat
  BY DEF MetricsType
<1>6. MetricsType(n)
  BY <1>1, <1>2, <1>3 DEF MetricsType
<1> QED
  BY <1>3, <1>4, <1>5, <1>6 DEF Grows

\* ... measuring does, ...
LEMMA AddsTimedGrows ==
  ASSUME NEW m, NEW n, NEW c \in Counters \ {"remaining_queue"}, NEW k \in Nat,
         NEW s \in Times, NEW d \in Nat,
         MetricsType(m), AddsTimed(m, n, c, k, s, d)
  PROVE  MetricsType(n) /\ Grows(m, n)
<1>1. /\ DOMAIN n = Fields /\ c \notin Times /\ s \notin Counters
      /\ m[c] \in Nat
      /\ \A f \in Fields \ {c, s} : n[f] = m[f]
      /\ n[c] = m[c] + k /\ n[s] = Timed(m[s], d)
  BY DEF AddsTimed, MetricsType, Counters, Times
<1>2. \A f \in Counters : n[f] \in Nat /\ (f = c \/ n[f] = m[f])
  BY <1>1 DEF MetricsType, Fields
<1>3. ASSUME NEW f \in Counters PROVE n[f] >= m[f]
  <2>1. m[f] \in Nat
    BY DEF MetricsType
  <2> QED
    BY <1>1, <1>2, <2>1
<1>4. ASSUME NEW t \in Times
      PROVE  /\ n[t] \in [max : Nat, min : Nat, total : Nat]
             /\ n[t].max >= m[t].max /\ n[t].total >= m[t].total
  <2>1. m[t] \in [max : Nat, min : Nat, total : Nat]
    BY DEF MetricsType
  <2>2. CASE t = s
    <3>1. /\ Timed(m[t], d) \in [max : Nat, min : Nat, total : Nat]
          /\ Timed(m[t], d).max >= m[t].max
          /\ Timed(m[t], d).total >= m[t].total
      BY <2>1, TimedGrows
    <3>2. n[t] = Timed(m[t], d)
      BY <1>1, <2>2
    <3> QED
      BY <3>1, <3>2
  <2>3. CASE t # s
    <3>1. n[t] = m[t]
      BY <1>1, <2>3 DEF Fields
    <3>2. m[t].max \in Nat /\ m[t].total \in Nat
      BY <2>1
    <3> QED
      BY <2>1, <3>1, <3>2
  <2> QED
    BY <2>2, <2>3
<1>5. MetricsType(n)
  BY <1>1, <1>2, <1>4 DEF MetricsType
<1> QED
  BY <1>3, <1>4, <1>5 DEF Grows

\* ... and the gauge does, which is not looked at, and its maximum.
LEMMA SizeGrows ==
  ASSUME NEW m, NEW k \in Nat, MetricsType(m)
  PROVE  MetricsType(QueueSize(m, k)) /\ Grows(m, QueueSize(m, k))
<1> DEFINE n == QueueSize(m, k)
<1>1. /\ DOMAIN n = Fields
      /\ \A f \in Fields \ {"remaining_queue", "remaining_queue_max"} :
           n[f] = m[f]
      /\ n.remaining_queue = k
      /\ n.remaining_queue_max =
           IF k > m.remaining_queue_max THEN k ELSE m.remaining_queue_max
  BY SizeSet DEF MetricsType
<1> HIDE DEF n
<1>2. /\ m.remaining_queue_max \in Nat /\ n.remaining_queue_max \in Nat
      /\ n.remaining_queue_max >= m.remaining_queue_max
  BY <1>1 DEF MetricsType, Counters
<1>3. ASSUME NEW f \in Counters
      PROVE  n[f] \in Nat /\ (f # "remaining_queue" => n[f] >= m[f])
  <2>1. m[f] \in Nat
    BY DEF MetricsType
  <2>2. CASE f \in {"remaining_queue", "remaining_queue_max"}
    BY <1>1, <1>2, <2>2
  <2>3. CASE f \notin {"remaining_queue", "remaining_queue_max"}
    <3>1. n[f] = m[f]
      BY <1>1, <2>3 DEF Fields
    <3> QED
      BY <2>1, <3>1
  <2> QED
    BY <2>2, <2>3
<1>4. ASSUME NEW t \in Times
      PROVE  /\ n[t] = m[t]
             /\ n[t].max >= m[t].max /\ n[t].total >= m[t].total
  <2>1. n[t] = m[t]
    BY <1>1 DEF Fields, Times
  <2>2. m[t].max \in Nat /\ m[t].total \in Nat
    BY DEF MetricsType
  <2> QED
    BY <2>1, <2>2
<1>5. MetricsType(n)
  BY <1>1, <1>3, <1>4 DEF MetricsType
<1> QED
  BY <1>3, <1>4, <1>5 DEF Grows, n

\* So does every operation that counts a number and measures a duration.
LEMMA GrowsBy ==
  ASSUME NEW m, MetricsType(m)
  PROVE  /\ MetricsType(ActionReceived(m)) /\ Grows(m, ActionReceived(m))
         /\ MetricsType(ActionDropped(m)) /\ Grows(m, ActionDropped(m))
         /\ MetricsType(ErrorOccurred(m)) /\ Grows(m, ErrorOccurred(m))
         /\ MetricsType(StateNotified(m)) /\ Grows(m, StateNotified(m))
         /\ \A k \in Nat :
              /\ MetricsType(EffectIssued(m, k)) /\ Grows(m, EffectIssued(m, k))
              /\ MetricsType(EffectExecuted(m, k))
              /\ Grows(m, EffectExecuted(m, k))
         /\ \A d \in Nat :
              /\ MetricsType(ActionReduced(m, d))
              /\ Grows(m, ActionReduced(m, d))
              /\ MetricsType(MiddlewareExecuted(m, d))
              /\ Grows(m, MiddlewareExecuted(m, d))
         /\ \A k, d \in Nat :
              /\ MetricsType(SubscriberNotified(m, k, d))
              /\ Grows(m, SubscriberNotified(m, k, d))
<1>1. DOMAIN m = Fields
  BY DEF MetricsType
<1>2. /\ {"action_received", "action_dropped", "error_occurred",
          "state_notified", "effect_issued", "effect_executed",
          "action_reduced", "middleware_executed", "subscriber_notified"}
          \subseteq Counters \ {"remaining_queue"}
      /\ {"reducer_time", "middleware_time", "subscriber_time"} \subseteq Times
  BY DEF Counters, Times
<1>3. /\ MetricsType(ActionReceived(m)) /\ Grows(m, ActionReceived(m))
      /\ MetricsType(ActionDropped(m)) /\ Grows(m, ActionDropped(m))
      /\ MetricsType(ErrorOccurred(m)) /\ Grows(m, ErrorOccurred(m))
      /\ MetricsType(StateNotified(m)) /\ Grows(m, StateNotified(m))
  BY <1>1, <1>2, CountersAdd, AddsGrows
<1>4. ASSUME NEW k \in Nat
      PROVE  /\ MetricsType(EffectIssued(m, k)) /\ Grows(m, EffectIssued(m, k))
             /\ MetricsType(EffectExecuted(m, k))
             /\ Grows(m, EffectExecuted(m, k))
  BY <1>1, <1>2, CountersAdd, AddsGrows
<1>5. ASSUME NEW d \in Nat
      PROVE  /\ MetricsType(ActionReduced(m, d))
             /\ Grows(m, ActionReduced(m, d))
             /\ MetricsType(MiddlewareExecuted(m, d))
             /\ Grows(m, MiddlewareExecuted(m, d))
  BY <1>1, <1>2, TimesAdd, AddsTimedGrows
<1>6. ASSUME NEW k \in Nat, NEW d \in Nat
      PROVE  /\ MetricsType(SubscriberNotified(m, k, d))
             /\ Grows(m, SubscriberNotified(m, k, d))
  BY <1>1, <1>2, TimesAdd, AddsTimedGrows
<1> QED
  BY <1>3, <1>4, <1>5, <1>6

-----------------------------------------------------------------------------
(* What the steps do to them *)

\* The types the metrics have, and where the durations come from.
Measured ==
  /\ program \in Programs
  /\ MetricsType(metrics)

\* How many effects the outcome of the action at work has.
Issued == Len(current.outcome.result.effects)

\* A new store has counted nothing.
LEMMA InitMeasured == Init => Measured
<1> SUFFICES ASSUME Init PROVE Measured
  OBVIOUS
<1>1. metrics = NoMetrics /\ program \in Programs
  BY DEF Init
<1>2. MetricsType(NoMetrics)
  BY NoFields DEF MetricsType, NoTime
<1> QED
  BY <1>1, <1>2 DEF Measured

\* Durations are numbers.
LEMMA Durations ==
  ASSUME Measured
  PROVE  program.durations \subseteq Nat
BY DurationsAssumption DEF Measured

\* A send lets the metrics grow.
LEMMA EnterGrows ==
  ASSUME PInv, MetricsType(metrics), NEW op, Enters(op)
  PROVE  MetricsType(metrics') /\ Grows(metrics, metrics')
<1>1. /\ latest' \in Nat
      /\ \/ metrics' = QueueSize(metrics, latest')
         \/ metrics' = QueueSize(ActionDropped(metrics), latest')
  BY EnterFacts DEF PInv, Lengths
<1>2. CASE metrics' = QueueSize(metrics, latest')
  BY <1>1, <1>2, SizeGrows
<1>3. CASE metrics' = QueueSize(ActionDropped(metrics), latest')
  <2> DEFINE m == ActionDropped(metrics)
  <2>1. MetricsType(m) /\ Grows(metrics, m)
    BY GrowsBy
  <2> HIDE DEF m
  <2>2. MetricsType(QueueSize(m, latest')) /\ Grows(m, QueueSize(m, latest'))
    BY <1>1, <2>1, SizeGrows
  <2>3. metrics' = QueueSize(m, latest')
    BY <1>3 DEF m
  <2> QED
    BY <2>1, <2>2, <2>3, GrowsOn
<1> QED
  BY <1>1, <1>2, <1>3

\* Nothing has become less when nothing has changed.
LEMMA GrowsNot ==
  ASSUME NEW m, MetricsType(m)
  PROVE  Grows(m, m)
<1>1. ASSUME NEW c \in Counters PROVE m[c] >= m[c]
  BY DEF MetricsType
<1>2. ASSUME NEW t \in Times
      PROVE  m[t].max >= m[t].max /\ m[t].total >= m[t].total
  <2>1. m[t].max \in Nat /\ m[t].total \in Nat
    BY DEF MetricsType
  <2> QED
    BY <2>1
<1> QED
  BY <1>1, <1>2 DEF Grows

\* The threads and the workers send, or count an error, or set the gauge.
LEMMA ThreadGrows ==
  ASSUME PInv, MetricsType(metrics),
         (\E t \in Threads : Thread(t)) \/ (\E w \in Workers : Worker(w))
  PROVE  /\ MetricsType(metrics') /\ Grows(metrics, metrics')
         /\ UNCHANGED <<program, current>>
<1>1. ASSUME NEW t \in Threads, DispatchReturns(t)
      PROVE  MetricsType(metrics') /\ Grows(metrics, metrics')
  <2>1. pc[t] = "dispatched" /\ metrics' = QueueSize(metrics, remains[t])
    BY <1>1 DEF DispatchReturns
  <2>2. remains[t] = latest /\ latest \in Nat
    BY <2>1 DEF PInv, Locked, Latest, Lengths
  <2> QED
    BY <2>1, <2>2, SizeGrows
<1>2. ASSUME NEW t \in Threads, Thread(t), ~DispatchReturns(t)
      PROVE  \/ \E op : Enters(op)
             \/ metrics' = ErrorOccurred(metrics)
             \/ metrics' = metrics
  <2>1. CASE DispatchSend(t) \/ DispatchFails(t)
    BY <2>1 DEF DispatchSend, DispatchFails
  <2>2. CASE Send(t) \/ AddSubscriber(t) \/ QueryState(t)
    BY <2>2 DEF Send, AddSubscriber, QueryState
  <2>3. CASE SendExit(t)
    BY <2>3 DEF SendExit
  <2>4. CASE \/ Unsubscribe(t) \/ DispatchTask(t) \/ Close(t) \/ TakePool(t)
             \/ JoinPool(t) \/ Goes(t)
    BY <2>4 DEF Unsubscribe, DispatchTask, Close, TakePool, JoinPool, Goes
  <2> QED
    BY <1>2, <2>1, <2>2, <2>3, <2>4 DEF Thread
<1>3. ASSUME NEW w \in Workers, Worker(w)
      PROVE  (\E op : Enters(op)) \/ metrics' = metrics
  BY <1>3 DEF Worker, StartTask, EndTask, TaskDispatches
<1>4. ASSUME \/ \E op : Enters(op)
             \/ metrics' = ErrorOccurred(metrics)
             \/ metrics' = metrics
      PROVE  MetricsType(metrics') /\ Grows(metrics, metrics')
  BY <1>4, EnterGrows, GrowsBy, GrowsNot
<1>5. ASSUME NEW t \in Threads, Thread(t) PROVE UNCHANGED <<program, current>>
  <2>1. CASE DispatchSend(t) \/ DispatchReturns(t) \/ DispatchFails(t)
    BY <2>1 DEF DispatchSend, DispatchReturns, DispatchFails, reducer
  <2>2. CASE Send(t) \/ AddSubscriber(t) \/ QueryState(t) \/ SendExit(t)
    BY <2>2 DEF Send, AddSubscriber, QueryState, SendExit, reducer
  <2>3. CASE \/ Unsubscribe(t) \/ DispatchTask(t) \/ Close(t) \/ TakePool(t)
             \/ JoinPool(t) \/ Goes(t)
    BY <2>3 DEF Unsubscribe, DispatchTask, Close, TakePool, JoinPool, Goes,
                reducer
  <2> QED
    BY <1>5, <2>1, <2>2, <2>3 DEF Thread
<1>6. ASSUME NEW w \in Workers, Worker(w) PROVE UNCHANGED <<program, current>>
  BY <1>6 DEF Worker, StartTask, EndTask, TaskDispatches, reducer
<1>7. MetricsType(metrics') /\ Grows(metrics, metrics')
  BY <1>1, <1>2, <1>3, <1>4
<1> QED
  BY <1>5, <1>6, <1>7

\* do_reduce counts the action and the effects it issues.
LEMMA ReduceGrows ==
  ASSUME Measured, RecvAction, Issued' \in Nat
  PROVE  Measured' /\ Grows(metrics, metrics')
<1>1. PICK d, e \in program.durations : Reduce(Head(queue).op, d, e)
  BY DEF RecvAction
<1>2. d \in Nat /\ e \in Nat /\ d + e \in Nat /\ MetricsType(metrics)
  BY Durations DEF Measured
<1>3. program' = program
  BY DEF RecvAction
<1> DEFINE received == ActionReceived(metrics)
<1>4. MetricsType(received) /\ Grows(metrics, received)
  BY <1>2, GrowsBy
<1>5. PICK m, time :
        /\ time \in Nat
        /\ m = received \/ m = ActionReduced(received, d)
        /\ \/ metrics' = EffectIssued(MiddlewareExecuted(m, time), Issued')
           \/ metrics' = m
  <2> DEFINE out == Decorated(Store.middlewares, Store.reducers, state,
                              Head(queue).op)
             reduced == IF out.reduced = <<>> THEN received
                        ELSE ActionReduced(received, d)
             t == IF out.reduced = <<>> THEN e ELSE d + e
  <2>1. /\ current' = [action |-> Head(queue).op, before |-> state,
                       outcome |-> out, count |-> 0]
        /\ \/ metrics' = EffectIssued(MiddlewareExecuted(reduced, t),
                                      Len(out.result.effects))
           \/ metrics' = reduced
    BY <1>1 DEF Reduce
  <2>2. Issued' = Len(out.result.effects) /\ t \in Nat
    BY <1>2, <2>1 DEF Issued
  <2>3. reduced = received \/ reduced = ActionReduced(received, d)
    OBVIOUS
  <2> HIDE DEF out, t, reduced
  <2> QED
    BY <2>1, <2>2, <2>3
<1> HIDE DEF received
<1>6. MetricsType(m) /\ Grows(metrics, m)
  <2>1. MetricsType(ActionReduced(received, d))
          /\ Grows(received, ActionReduced(received, d))
    BY <1>2, <1>4, GrowsBy
  <2> QED
    BY <1>2, <1>4, <1>5, <2>1, GrowsOn
<1> DEFINE n == MiddlewareExecuted(m, time)
           o == EffectIssued(n, Issued')
<1>7. MetricsType(n) /\ Grows(m, n)
  BY <1>5, <1>6, GrowsBy
<1>8. MetricsType(o) /\ Grows(n, o)
  BY <1>7, GrowsBy
<1> HIDE DEF n, o
<1>9. Grows(metrics, o)
  BY <1>2, <1>6, <1>7, <1>8, GrowsOn
<1>10. metrics' = o \/ metrics' = m
  BY <1>5 DEF n, o
<1>11. MetricsType(metrics') /\ Grows(metrics, metrics')
  BY <1>6, <1>8, <1>9, <1>10
<1>12. program' \in Programs
  BY <1>3 DEF Measured
<1> QED
  BY <1>5, <1>11, <1>12 DEF Measured

\* The other steps of the reducer thread.
LEMMA ReducerGrows ==
  ASSUME Measured, Issued \in Nat, current.count \in Nat, Reducer,
         ~RecvAction
  PROVE  Measured' /\ Grows(metrics, metrics')
<1>0. MetricsType(metrics)
  BY DEF Measured
<1>1. CASE RecvAddSubscriber \/ RecvStateFunction \/ RecvExit
  <2>1. /\ metrics' = ActionReceived(metrics)
        /\ UNCHANGED <<program, current>>
    BY <1>1 DEF RecvAddSubscriber, RecvStateFunction, RecvExit, reducer
  <2> QED
    BY <1>0, <2>1, GrowsBy DEF Measured
<1>2. CASE IssueEffect
  <2>1. UNCHANGED <<program, current, metrics>>
    BY <1>2 DEF IssueEffect
  <2> QED
    BY <1>0, <2>1, GrowsNot DEF Measured
<1>3. CASE UpdateState
  <2> DEFINE m == EffectExecuted(metrics, Issued)
  <2>1. /\ metrics' = m \/ metrics' = StateNotified(m)
        /\ UNCHANGED program
    BY <1>3 DEF UpdateState, Issued
  <2>2. MetricsType(m) /\ Grows(metrics, m)
    BY <1>0, GrowsBy
  <2> HIDE DEF m
  <2>3. MetricsType(StateNotified(m)) /\ Grows(m, StateNotified(m))
    BY <2>2, GrowsBy
  <2>4. MetricsType(metrics') /\ Grows(metrics, metrics')
    BY <1>0, <2>1, <2>2, <2>3, GrowsOn
  <2> QED
    BY <2>1, <2>4 DEF Measured
<1>4. CASE Notify
  <2>1. UNCHANGED <<program, metrics>>
    BY <1>4 DEF Notify
  <2> QED
    BY <1>0, <2>1, GrowsNot DEF Measured
<1>5. CASE NotifyDone
  <2>1. /\ \E d \in program.durations :
              metrics' = SubscriberNotified(metrics, current.count, d)
        /\ UNCHANGED program
    BY <1>5 DEF NotifyDone
  <2> QED
    BY <1>0, <2>1, Durations, GrowsBy DEF Measured
<1> QED
  BY <1>1, <1>2, <1>3, <1>4, <1>5 DEF Reducer

\* Every step lets the metrics grow.
LEMMA NextGrows ==
  ASSUME PInv, Measured, Issued \in Nat, Issued' \in Nat,
         current.count \in Nat, [Next]_vars
  PROVE  Measured' /\ Grows(metrics, metrics')
<1>1. CASE (\E t \in Threads : Thread(t)) \/ (\E w \in Workers : Worker(w))
  BY <1>1, ThreadGrows DEF Measured
<1>2. CASE Reducer
  BY <1>2, ReduceGrows, ReducerGrows
<1>3. CASE UNCHANGED vars
  <2>1. UNCHANGED <<program, current, metrics>>
    BY <1>3 DEF vars, reducer
  <2> QED
    BY <2>1, GrowsNot DEF Measured
<1> QED
  BY <1>1, <1>2, <1>3 DEF Next

\* Two records of which the later one has grown can be subtracted, but for the
\* gauge and the minima.
LEMMA NoUnderflow ==
  ASSUME NEW m, NEW n, MetricsType(m), MetricsType(n), Grows(m, n)
  PROVE  Underflows(n, m) \subseteq
           ({<<"remaining_queue", "count">>} \cup (Times \X {"min"}))
<1>1. ASSUME NEW c \in Counters, n[c] < m[c] PROVE c = "remaining_queue"
  <2>1. n[c] \in Nat /\ m[c] \in Nat
    BY DEF MetricsType
  <2> QED
    BY <1>1, <2>1 DEF Grows
<1>2. ASSUME NEW t \in Times, NEW f \in {"max", "min", "total"},
             n[t][f] < m[t][f]
      PROVE  f = "min"
  <2>1. /\ n[t].max \in Nat /\ m[t].max \in Nat
        /\ n[t].total \in Nat /\ m[t].total \in Nat
    BY DEF MetricsType
  <2>2. n[t].max >= m[t].max /\ n[t].total >= m[t].total
    BY DEF Grows
  <2> QED
    BY <1>2, <2>1, <2>2
<1>3. ASSUME NEW u \in Times \X {"max", "min", "total"},
             n[u[1]][u[2]] < m[u[1]][u[2]]
      PROVE  u \in Times \X {"min"}
  <2>1. u[1] \in Times /\ u[2] \in {"max", "min", "total"} /\ u = <<u[1], u[2]>>
    OBVIOUS
  <2>2. u[2] = "min"
    BY <1>2, <1>3, <2>1
  <2> QED
    BY <2>1, <2>2
<1> QED
  BY <1>1, <1>3 DEF Underflows

\* As long as reducers and middlewares return lists of effects, and the list of
\* subscribers has a length, no counter ever falls, so that a snapshot minus an
\* earlier one does not underflow but in the gauge and in the minima.
THEOREM OnlyGaugesMayFall == Spec /\ []WellTyped => OnlyGaugesFall
<1>1. WellTyped => Issued \in Nat /\ current.count \in Nat
  BY LenProperties DEF WellTyped, Issued
<1>2. Init => Measured
  BY InitMeasured
<1>3. PInv /\ Measured /\ WellTyped /\ WellTyped' /\ [Next]_vars => Measured'
  <2>1. WellTyped' => Issued' \in Nat
    BY LenProperties DEF WellTyped, Issued
  <2> QED
    BY <1>1, <2>1, NextGrows
<1>4. PInv /\ Measured /\ WellTyped /\ WellTyped' /\ [Next]_vars
        => [Underflows(metrics', metrics) \subseteq
              ({<<"remaining_queue", "count">>} \cup (Times \X {"min"}))]_vars
  <2>1. WellTyped' => Issued' \in Nat
    BY LenProperties DEF WellTyped, Issued
  <2>2. ASSUME PInv, Measured, WellTyped, WellTyped', [Next]_vars
        PROVE  Underflows(metrics', metrics) \subseteq
                 ({<<"remaining_queue", "count">>} \cup (Times \X {"min"}))
    <3>1. Measured' /\ Grows(metrics, metrics')
      BY <1>1, <2>1, <2>2, NextGrows
    <3>2. MetricsType(metrics) /\ MetricsType(metrics')
      BY <2>2, <3>1 DEF Measured
    <3> QED
      BY <3>1, <3>2, NoUnderflow
  <2> QED
    BY <2>2
<1> QED
  BY <1>2, <1>3, <1>4, PipelineInvariance, PTL DEF Spec, OnlyGaugesFall

=============================================================================
