-------------------------- MODULE StoreImplProofs --------------------------
(***************************************************************************)
(* Theorems about StoreImpl, for every set of clients and workers, every   *)
(* capacity and policy, and any number of calls: senders exclude each      *)
(* other although close() sends Exit without dispatch_tx, and Exit is the  *)
(* last item of the channel.                                               *)
(*                                                                         *)
(* The inductive invariant says who may be in the channel's send (Locks)   *)
(* and divides the life of the channel in three phases (Phases): the store *)
(* is open, or Exit is on its way, and there is no Exit in the queue; Exit *)
(* closes the queue and nobody sends; or Exit is read and the queue empty. *)
(***************************************************************************)
EXTENDS StoreImpl, SequenceLemmas

Sending(t) == pc[t] = "sending"
SendsExit(t) == Sending(t) /\ call[t].kind \in Closing
NobodySends == \A t \in Threads : ~Sending(t)

CallTypes == [kind : Calls \cup {"none"}, op : ActionOps \cup {NoOp},
              sub : Nat]

\* The types the argument needs; a thread on its way to the channel carries
\* Exit exactly when it closes the store.
Types ==
  /\ queue \in Seq(Items)
  /\ txOpen \in BOOLEAN
  /\ tasks \in Seq(Actions \cup {NoAction})
  /\ effects \in Seq(Actions \cup {NoAction})
  /\ rpc \in ReducerPcs
  /\ rpc = "reduce" => cur.op \in Actions
  /\ pc \in [Threads -> Pcs]
  /\ call \in [Threads -> CallTypes]
  /\ calls \in [Threads -> Nat]
  /\ nextId \in Nat
  /\ \A t \in Threads :
       pc[t] \in {"lock", "sending"} =>
         /\ call[t].op \in ActionOps
         /\ call[t].op = Exit <=> call[t].kind \in Closing

\* Who may be inside the channel's send: the owner of dispatch_tx, while the
\* sender is there, or the one thread that has taken the sender out.
Locks ==
  /\ \A t \in Threads : txLock = t <=> Sending(t) /\ ~SendsExit(t)
  /\ txOpen => \A t \in Threads : ~SendsExit(t)
  /\ ~txOpen => txLock = NoOne
  /\ \A t, u \in Threads : SendsExit(t) /\ SendsExit(u) => t = u

\* The items that are not Exit.
Live == { x \in Items : x.op # Exit }
Ended == {"clear", "done"}

Running ==
  /\ rpc \notin Ended
  /\ queue \in Seq(Live)
  /\ txOpen \/ \E t \in Threads : SendsExit(t)

Finishing ==
  /\ rpc \notin Ended
  /\ ~txOpen /\ NobodySends
  /\ \E q \in Seq(Live), x \in Items : queue = Append(q, x) /\ x.op = Exit

Finished ==
  /\ rpc \in Ended
  /\ ~txOpen /\ NobodySends
  /\ queue = <<>>

Phases == Running \/ Finishing \/ Finished

IInv == Types /\ Locks /\ Phases

-----------------------------------------------------------------------------
(* The channel *)

\* The operators of the abstract channel are those of Backpressure.
LEMMA ChannelDefs ==
  /\ \A q : Channel!HasRoom(q) <=> HasRoom(q)
  /\ \A q : Channel!Victims(q) = Victims(q)
  /\ \A q, i : Channel!RemoveAt(q, i) = RemoveAt(q, i)
BY DEF Channel!HasRoom, HasRoom, Channel!Victims, Victims,
       Channel!Droppable, Droppable, Channel!RemoveAt, RemoveAt

\* An accepted item goes to the end of what was in the queue, or was left there
\* by the policy.
LEMMA AcceptProperties ==
  ASSUME NEW S, queue \in Seq(S), NEW x,
         Channel!Accept(x) \/ Channel!AcceptDropping(x)
  PROVE  \E q \in Seq(S) : queue' = Append(q, x)
<1>1. CASE Channel!Accept(x)
  BY <1>1 DEF Channel!Accept
<1>2. CASE Channel!AcceptDropping(x)
  <2>1. PICK i \in Channel!Victims(queue) :
          queue' = Append(Channel!RemoveAt(queue, i), x)
    BY <1>2 DEF Channel!AcceptDropping
  <2>2. i \in Victims(queue) /\ queue' = Append(RemoveAt(queue, i), x)
    BY <2>1, ChannelDefs
  <2>3. i \in 1 .. Len(queue)
    BY <2>2, LenProperties DEF Victims
  <2>4. RemoveAt(queue, i) \in Seq(S)
    BY <2>3, RemoveAtProperties
  <2> QED
    BY <2>2, <2>4
<1> QED
  BY <1>1, <1>2

-----------------------------------------------------------------------------
(* Types *)

\* A new store has its types.
LEMMA InitTypes == ASSUME Init PROVE Types
<1>1. \A S : <<>> \in Seq(S)
  BY EmptySeq
<1>2. /\ pc \in [Threads -> Pcs]
      /\ call \in [Threads -> CallTypes]
      /\ calls \in [Threads -> Nat]
      /\ nextId \in Nat
  BY DEF Init, Pcs, CallTypes, NoCall, NoSub
<1>3. \A t \in Threads : pc[t] \notin {"lock", "sending"}
  BY DEF Init
<1> QED
  BY <1>1, <1>2, <1>3 DEF Init, Types, Channel!ChannelInit, ReducerPcs

\* Beginning a call keeps the types, if the operation fits the kind.
LEMMA BeginTypes ==
  ASSUME Types, NEW t \in Threads, NEW k \in Calls, NEW o \in ActionOps,
         NEW x \in Nat, Begin(t, k, o, x, "lock"),
         o = Exit <=> k \in Closing
  PROVE  /\ pc' \in [Threads -> Pcs]
         /\ call' \in [Threads -> CallTypes]
         /\ calls' \in [Threads -> Nat]
         /\ \A u \in Threads :
              pc'[u] \in {"lock", "sending"} =>
                /\ call'[u].op \in ActionOps
                /\ call'[u].op = Exit <=> call'[u].kind \in Closing
<1>1. [kind |-> k, op |-> o, sub |-> x] \in CallTypes
  BY DEF CallTypes
<1>2. /\ pc' = [pc EXCEPT ![t] = "lock"]
      /\ call' = [call EXCEPT ![t] = [kind |-> k, op |-> o, sub |-> x]]
      /\ calls' = [calls EXCEPT ![t] = @ + 1]
  BY DEF Begin
<1>3. /\ pc' \in [Threads -> Pcs]
      /\ call' \in [Threads -> CallTypes]
      /\ calls' \in [Threads -> Nat]
  BY <1>1, <1>2 DEF Types, Pcs
<1>4. ASSUME NEW u \in Threads, pc'[u] \in {"lock", "sending"}
      PROVE  /\ call'[u].op \in ActionOps
             /\ call'[u].op = Exit <=> call'[u].kind \in Closing
  <2>1. CASE u = t
    BY <1>2, <2>1 DEF Types
  <2>2. CASE u # t
    BY <1>2, <1>4, <2>2 DEF Types
  <2> QED
    BY <2>1, <2>2
<1> QED
  BY <1>3, <1>4

\* Going on within a call, or returning from it, keeps the types.
LEMMA GotoTypes ==
  ASSUME Types, NEW t \in Threads, NEW p \in Pcs,
         pc' = [pc EXCEPT ![t] = p],
         \/ UNCHANGED call /\ (p \in {"lock", "sending"} => pc[t] = "lock")
         \/ call' = [call EXCEPT ![t] = NoCall] /\ p = "idle"
  PROVE  /\ pc' \in [Threads -> Pcs]
         /\ call' \in [Threads -> CallTypes]
         /\ \A u \in Threads :
              pc'[u] \in {"lock", "sending"} =>
                /\ call'[u].op \in ActionOps
                /\ call'[u].op = Exit <=> call'[u].kind \in Closing
<1>1. NoCall \in CallTypes
  BY DEF NoCall, CallTypes, NoSub
<1>2. pc' \in [Threads -> Pcs] /\ call' \in [Threads -> CallTypes]
  BY <1>1 DEF Types
<1>3. ASSUME NEW u \in Threads, pc'[u] \in {"lock", "sending"}
      PROVE  call'[u] = call[u] /\ pc[u] \in {"lock", "sending"}
  <2>1. CASE u = t
    BY <1>3, <2>1 DEF Types
  <2>2. CASE u # t
    BY <1>3, <2>2 DEF Types
  <2> QED
    BY <2>1, <2>2
<1> QED
  BY <1>2, <1>3 DEF Types

\* The operations the threads send.
LEMMA OpFacts ==
  /\ Actions \subseteq ActionOps
  /\ {AddSubscriber, StateFunction, Exit} \subseteq ActionOps
  /\ Exit \notin Actions /\ Exit # AddSubscriber /\ Exit # StateFunction
  /\ {"dispatch", "add", "query"} \cap Closing = {}
  /\ Closing \subseteq Calls /\ {"dispatch", "add", "query"} \subseteq Calls
  /\ Subs \subseteq Nat /\ NoSub \in Nat
BY StoreAssumption, BackpressureAssumption
  DEF ActionOps, Closing, Calls, Subs, NoSub

\* What a thread sends is an item, and Exit exactly when it closes the store.
LEMMA ItemType ==
  ASSUME Types, NEW t \in Threads, Sending(t)
  PROVE  /\ Item(t) \in Items
         /\ Item(t).op = Exit <=> SendsExit(t)
BY DEF Types, Sending, SendsExit, Item, Items

\* No call of a client breaks the types.
LEMMA ClientTypes ==
  ASSUME Types, NEW c \in Clients, ClientCalls(c)
  PROVE  Types'
<1> USE DEF Types
<1>1. c \in Threads
  BY DEF Threads
<1>2. ASSUME NEW a \in Actions, CallDispatch(c, a)
      PROVE  Types'
  <2>1. Begin(c, "dispatch", a, NoSub, "lock")
    BY <1>2 DEF CallDispatch, ClientBegins
  <2> QED
    BY <1>1, <1>2, <2>1, OpFacts, BeginTypes
      DEF CallDispatch, channel, fields, gates, reducer
<1>3. CASE CallAddSubscriber(c)
  <2>1. /\ Begin(c, "add", AddSubscriber, nextId, "lock")
        /\ nextId' = nextId + 1
    BY <1>3 DEF CallAddSubscriber, ClientBegins
  <2> QED
    BY <1>1, <1>3, <2>1, OpFacts, BeginTypes
      DEF CallAddSubscriber, channel, gates, reducer
<1>4. CASE CallQueryState(c)
  <2>1. Begin(c, "query", StateFunction, NoSub, "lock")
    BY <1>4 DEF CallQueryState, ClientBegins
  <2> QED
    BY <1>1, <1>4, <2>1, OpFacts, BeginTypes
      DEF CallQueryState, channel, gates, reducer
<1>5. ASSUME NEW kind \in Closing, CallClose(c, kind)
      PROVE  Types'
  <2>1. Begin(c, kind, Exit, NoSub, "lock")
    BY <1>5 DEF CallClose, ClientBegins
  <2> QED
    BY <1>1, <1>5, <2>1, OpFacts, BeginTypes
      DEF CallClose, channel, fields, gates, reducer
<1>6. ASSUME NEW x \in Subs, Unsubscribe(c, x)
      PROVE  Types'
  BY <1>1, <1>6 DEF Unsubscribe, channel, gates, reducer
<1> QED
  BY <1>2, <1>3, <1>4, <1>5, <1>6 DEF ClientCalls

\* No step of a thread at dispatch_tx or in the channel breaks the types.
LEMMA ThreadTypes ==
  ASSUME Types, NEW t \in Threads, ThreadStep(t)
  PROVE  Types'
<1> USE DEF Types, Goto, Return
<1>1. CASE LockTx(t)
  BY <1>1, GotoTypes DEF LockTx, channel, fields, reducer, Pcs
<1>2. CASE FindClosed(t)
  BY <1>2, GotoTypes DEF FindClosed, channel, gates, reducer, Pcs
<1>3. CASE TakeTx(t)
  BY <1>3, GotoTypes DEF TakeTx, channel, fields, reducer, Pcs
<1>4. CASE FindTaken(t)
  BY <1>4, GotoTypes DEF FindTaken, channel, fields, gates, reducer, Pcs
<1>5. CASE Send(t)
  <2>1. Item(t) \in Items
    BY <1>5, ItemType DEF Send, Sending
  <2>2. PICK q \in Seq(Items) : queue' = Append(q, Item(t))
    <3>1. Channel!Accept(Item(t)) \/ Channel!AcceptDropping(Item(t))
      BY <1>5 DEF Send
    <3> QED
      BY <3>1, AcceptProperties
  <2>3. queue' \in Seq(Items)
    BY <2>1, <2>2, AppendProperties
  <2>4. \/ pc' = [pc EXCEPT ![t] = "pool"] /\ UNCHANGED call
        \/ pc' = [pc EXCEPT ![t] = "idle"] /\ call' = [call EXCEPT ![t] = NoCall]
    BY <1>5 DEF Send
  <2> QED
    BY <1>5, <2>3, <2>4, GotoTypes DEF Send, fields, reducer, Pcs
<1> QED
  BY <1>1, <1>2, <1>3, <1>4, <1>5 DEF ThreadStep

\* No step at the pool breaks the types.
LEMMA PoolTypes ==
  ASSUME Types,
         \/ \E c \in Clients : PoolStep(c)
         \/ \E w \in Workers : RunTask(w)
  PROVE  Types'
<1> USE DEF Types, Goto, Return
<1>1. ASSUME NEW c \in Clients, TakePool(c)
      PROVE  Types'
  <2>1. \/ pc' = [pc EXCEPT ![c] = "join"] /\ UNCHANGED call
        \/ pc' = [pc EXCEPT ![c] = "idle"] /\ call' = [call EXCEPT ![c] = NoCall]
    BY <1>1 DEF TakePool, StopReturns
  <2> QED
    BY <1>1, <2>1, GotoTypes DEF TakePool, channel, fields, reducer, Pcs, Threads
<1>2. ASSUME NEW c \in Clients, Join(c)
      PROVE  Types'
  BY <1>2, GotoTypes
    DEF Join, StopReturns, channel, fields, gates, reducer, Pcs, Threads
<1>3. ASSUME NEW w \in Workers, RunTask(w)
      PROVE  Types'
  <2>1. /\ Head(tasks) \in Actions \cup {NoAction}
        /\ tasks' \in Seq(Actions \cup {NoAction})
    BY <1>3, HeadTailProperties DEF RunTask
  <2>2. CASE Head(tasks) = NoAction
    BY <1>3, <2>1, <2>2
      DEF RunTask, channel, fields, gates, reducer, threads
  <2>3. CASE Head(tasks) # NoAction
    <3>1. Begin(w, "dispatch", Head(tasks), NoSub, "lock")
      BY <1>3, <2>3 DEF RunTask
    <3>2. w \in Threads /\ Head(tasks) \in Actions
      BY <2>1, <2>3 DEF Threads
    <3> QED
      BY <1>3, <2>1, <3>1, <3>2, OpFacts, BeginTypes
        DEF RunTask, channel, fields, gates, reducer
  <2> QED
    BY <2>2, <2>3
<1> QED
  BY <1>1, <1>2, <1>3 DEF PoolStep

\* The reducer thread knows every operation, and ends on Exit alone.
LEMMA HandlerProperties ==
  ASSUME NEW o \in ActionOps
  PROVE  /\ Handler(o) \in ReducerPcs
         /\ Handler(o) = "reduce" => o \in Actions
         /\ Handler(o) \in Ended <=> o = Exit
<1>1. o \in Actions \/ o \in {AddSubscriber, StateFunction, Exit}
  BY StoreAssumption DEF ActionOps
<1>2. CASE o \in Actions
  BY <1>2, OpFacts, StoreAssumption, BackpressureAssumption
    DEF Handler, ReducerPcs, Ended
<1>3. CASE o \in {AddSubscriber, StateFunction, Exit}
  <2>1. o \notin Actions
    BY <1>3, StoreAssumption, BackpressureAssumption
  <2> QED
    BY <1>3, <2>1, StoreAssumption DEF Handler, ReducerPcs, Ended
<1> QED
  BY <1>1, <1>2, <1>3

\* No step of the reducer thread breaks the types.
LEMMA ReducerTypes == ASSUME Types, ReducerStep PROVE Types'
<1> USE DEF Types, ReducerPcs
<1>1. CASE Recv
  <2>1. queue # <<>> /\ queue' = Tail(queue)
    BY <1>1 DEF Recv, Channel!Deliver
  <2>2. Head(queue) \in Items /\ queue' \in Seq(Items)
    BY <2>1, HeadTailProperties
  <2>3. Head(queue).op \in ActionOps
    BY <2>2 DEF Items
  <2>4. /\ rpc' \in ReducerPcs
        /\ rpc' = "reduce" => cur'.op \in Actions
    BY <1>1, <2>3, HandlerProperties DEF Recv
  <2> QED
    BY <1>1, <2>2, <2>4 DEF Recv, fields, gates, threads
<1>2. CASE Reduce
  <2>1. effects' \in Seq(Actions \cup {NoAction}) /\ rpc' \in {"recv", "effects"}
    BY <1>2, StoreAssumption DEF Reduce
  <2> QED
    BY <1>2, <2>1 DEF Reduce, channel, fields, gates, threads
<1>3. CASE IssueEffect
  <2>1. /\ Head(effects) \in Actions \cup {NoAction}
        /\ effects' \in Seq(Actions \cup {NoAction})
    BY <1>3, HeadTailProperties DEF IssueEffect
  <2>2. tasks' \in Seq(Actions \cup {NoAction})
    <3>1. PICK e \in Actions \cup {NoAction} :
            tasks' = tasks \/ tasks' = Append(tasks, e)
      BY <1>3, <2>1 DEF IssueEffect
    <3>2. Append(tasks, e) \in Seq(Actions \cup {NoAction})
      BY AppendProperties
    <3> QED
      BY <3>1, <3>2
  <2> QED
    BY <1>3, <2>1, <2>2 DEF IssueEffect, channel, fields, gates, threads
<1>4. CASE UpdateState
  BY <1>4 DEF UpdateState, channel, gates, threads
<1>5. CASE Snapshot
  BY <1>5 DEF Snapshot, NotifyRest, channel, fields, gates, threads
<1>6. CASE Notify
  BY <1>6 DEF Notify, NotifyRest, channel, fields, gates, threads
<1>7. CASE DoSubscribe
  BY <1>7 DEF DoSubscribe, channel, gates, threads
<1>8. CASE DoStateFunction
  BY <1>8 DEF DoStateFunction, channel, gates, threads
<1>9. CASE ClearSubscribers
  BY <1>9 DEF ClearSubscribers, channel, gates, threads
<1> QED
  BY <1>1, <1>2, <1>3, <1>4, <1>5, <1>6, <1>7, <1>8, <1>9 DEF ReducerStep

\* No step of the store breaks the types.
LEMMA TypesStep == ASSUME Types, [Next]_vars PROVE Types'
<1>1. CASE UNCHANGED vars
  BY <1>1 DEF Types, vars, channel, fields, gates, reducer, threads
<1> QED
  BY <1>1, ClientTypes, ThreadTypes, PoolTypes, ReducerTypes DEF Next

-----------------------------------------------------------------------------
(* Who is in the channel *)

\* What the steps that neither enter nor leave the channel leave alone.
Quiet ==
  /\ UNCHANGED <<txOpen, txLock>>
  /\ \A t \in Threads : Sending(t)' <=> Sending(t)
  /\ \A t \in Threads : SendsExit(t)' <=> SendsExit(t)

\* Every step of the store is quiet, or locks dispatch_tx, or takes the sender,
\* or is a send.
LEMMA QuietSteps ==
  ASSUME Types, [Next]_vars
  PROVE  \/ Quiet
         \/ \E t \in Threads : LockTx(t) \/ TakeTx(t) \/ Send(t)
<1> USE DEF Quiet, Sending, SendsExit
<1>1. ASSUME NEW t \in Threads, pc[t] # "sending", pc'[t] # "sending",
             UNCHANGED <<txOpen, txLock>>,
             \A u \in Threads \ {t} : pc'[u] = pc[u] /\ call'[u] = call[u]
      PROVE  Quiet
  BY <1>1
<1>2. ASSUME NEW c \in Clients, ClientCalls(c)
      PROVE  Quiet
  <2>1. CASE \E x \in Subs : Unsubscribe(c, x)
    BY <2>1 DEF Unsubscribe, gates
  <2>2. CASE ~\E x \in Subs : Unsubscribe(c, x)
    <3>1. /\ \E k, o, x : Begin(c, k, o, x, "lock")
          /\ UNCHANGED gates
      BY <1>2, <2>2
        DEF ClientCalls, CallDispatch, CallAddSubscriber, CallQueryState,
            CallClose, ClientBegins
    <3> QED
      BY <1>1, <3>1 DEF Begin, gates, Threads, Types
  <2> QED
    BY <2>1, <2>2
<1>3. ASSUME NEW t \in Threads, FindClosed(t) \/ FindTaken(t)
      PROVE  Quiet
  <2>1. /\ pc[t] = "lock"
        /\ UNCHANGED gates
        /\ \E p \in {"idle", "pool"} : pc' = [pc EXCEPT ![t] = p]
        /\ UNCHANGED call \/ call' = [call EXCEPT ![t] = NoCall]
    BY <1>3 DEF FindClosed, FindTaken, Goto, Return
  <2> QED
    BY <1>1, <2>1 DEF gates, Types
<1>4. ASSUME NEW c \in Clients, PoolStep(c)
      PROVE  Quiet
  <2>1. /\ pc[c] \in {"pool", "join"}
        /\ UNCHANGED <<txOpen, txLock>>
        /\ \E p \in {"idle", "join"} : pc' = [pc EXCEPT ![c] = p]
        /\ UNCHANGED call \/ call' = [call EXCEPT ![c] = NoCall]
    BY <1>4 DEF PoolStep, TakePool, Join, StopReturns, Goto, Return, gates
  <2> QED
    BY <1>1, <2>1 DEF Threads, Types
<1>5. ASSUME NEW w \in Workers, RunTask(w)
      PROVE  Quiet
  <2>1. CASE UNCHANGED threads
    BY <1>5, <2>1 DEF RunTask, gates, threads
  <2>2. CASE Begin(w, "dispatch", Head(tasks), NoSub, "lock")
    BY <1>1, <1>5, <2>2 DEF RunTask, Begin, gates, Threads, Types
  <2> QED
    BY <1>5, <2>1, <2>2 DEF RunTask
<1>6. CASE ReducerStep
  <2>1. UNCHANGED <<gates, threads>>
    BY <1>6 DEF ReducerStep, Recv, Reduce, IssueEffect, UpdateState,
                Snapshot, Notify, DoSubscribe, DoStateFunction,
                ClearSubscribers
  <2> QED
    BY <2>1 DEF gates, threads
<1>7. CASE UNCHANGED vars
  BY <1>7 DEF vars, gates, threads
<1> QED
  BY <1>2, <1>3, <1>4, <1>5, <1>6, <1>7 DEF Next, ThreadStep

\* No step lets a second thread into the channel's send.
LEMMA LocksStep == ASSUME Types, Locks, [Next]_vars PROVE Locks'
<1> USE DEF Sending, SendsExit
<1>1. CASE Quiet
  BY <1>1 DEF Quiet, Locks
<1>2. ASSUME NEW t \in Threads, LockTx(t)
      PROVE  Locks'
  BY <1>2, StoreAssumption DEF LockTx, Goto, Types, Locks
<1>3. ASSUME NEW t \in Threads, TakeTx(t)
      PROVE  Locks'
  BY <1>3, StoreAssumption DEF TakeTx, Goto, Types, Locks
<1>4. ASSUME NEW t \in Threads, Send(t)
      PROVE  Locks'
  <2>1. /\ UNCHANGED txOpen
        /\ txLock' = IF txLock = t THEN NoOne ELSE txLock
        /\ pc[t] = "sending"
        /\ \E p \in {"idle", "pool"} : pc' = [pc EXCEPT ![t] = p]
        /\ UNCHANGED call \/ call' = [call EXCEPT ![t] = NoCall]
    BY <1>4 DEF Send, Goto, Return
  <2>2. ~Sending(t)' /\ ~SendsExit(t)'
    BY <2>1 DEF Types
  <2>3. \A u \in Threads \ {t} :
          (Sending(u)' <=> Sending(u)) /\ (SendsExit(u)' <=> SendsExit(u))
    BY <2>1 DEF Types
  <2> QED
    BY <2>1, <2>2, <2>3, StoreAssumption DEF Locks
<1> QED
  BY <1>1, <1>2, <1>3, <1>4, QuietSteps

\* Whoever holds dispatch_tx excludes every other sender, and so does whoever
\* has taken the sender out of it.
LEMMA OneInside == ASSUME Locks PROVE OneSenderInside
BY StoreAssumption DEF Locks, OneSenderInside, Sending, SendsExit

-----------------------------------------------------------------------------
(* What is in the channel *)

\* The steps that do not touch the queue, and do not begin or end the reducer
\* thread's last step.
SameQueue == UNCHANGED queue /\ (rpc \in Ended <=> rpc' \in Ended)

\* Only a send and two steps of the reducer thread touch the queue or end it.
LEMMA QueueSteps ==
  ASSUME [Next]_vars
  PROVE  \/ SameQueue
         \/ \E t \in Threads : Send(t)
         \/ Recv
<1> USE DEF SameQueue, Ended
<1>1. ASSUME NEW c \in Clients, ClientCalls(c) \/ PoolStep(c)
      PROVE  SameQueue
  BY <1>1 DEF ClientCalls, PoolStep, CallDispatch, CallAddSubscriber,
              CallQueryState, CallClose, Unsubscribe, TakePool, Join,
              channel, reducer
<1>2. ASSUME NEW t \in Threads, ThreadStep(t), ~Send(t)
      PROVE  SameQueue
  BY <1>2 DEF ThreadStep, LockTx, FindClosed, TakeTx, FindTaken, channel,
              reducer
<1>3. ASSUME NEW w \in Workers, RunTask(w)
      PROVE  SameQueue
  BY <1>3 DEF RunTask, channel, reducer
<1>4. CASE ReducerStep /\ ~Recv
  BY <1>4 DEF ReducerStep, Reduce, IssueEffect, UpdateState, Snapshot, Notify,
              NotifyRest, DoSubscribe, DoStateFunction, ClearSubscribers,
              channel
<1>5. CASE UNCHANGED vars
  BY <1>5 DEF vars, channel, reducer
<1> QED
  BY <1>1, <1>2, <1>3, <1>4, <1>5 DEF Next

\* A send while the store runs: an item that is not Exit leaves it running, Exit
\* finishes it.
LEMMA SendPhases ==
  ASSUME IInv, NEW t \in Threads, Send(t)
  PROVE  Phases'
<1>1. Sending(t) /\ Running
  BY DEF IInv, Send, Sending, Phases, Finishing, Finished, NobodySends
<1>2. Item(t) \in Items /\ (Item(t).op = Exit <=> SendsExit(t))
  BY <1>1, ItemType DEF IInv
<1>3. PICK q \in Seq(Live) : queue' = Append(q, Item(t))
  <2>1. Channel!Accept(Item(t)) \/ Channel!AcceptDropping(Item(t))
    BY DEF Send
  <2> QED
    BY <1>1, <2>1, AcceptProperties DEF Running
<1>4. rpc' \notin Ended /\ UNCHANGED txOpen
  BY <1>1 DEF Running, Send, reducer
<1>5. \A u \in Threads : ~Sending(u)'
  <2>1. \A u \in Threads : Sending(u) => u = t
    BY <1>1, OneInside DEF IInv, OneSenderInside, Sending
  <2>2. \E p \in {"idle", "pool"} : pc' = [pc EXCEPT ![t] = p]
    BY DEF Send, Goto, Return
  <2> QED
    BY <2>1, <2>2 DEF IInv, Types, Sending
<1>6. CASE SendsExit(t)
  <2>1. ~txOpen
    BY <1>6 DEF IInv, Locks
  <2> QED
    BY <1>2, <1>3, <1>4, <1>5, <1>6, <2>1 DEF Phases, Finishing, NobodySends
<1>7. CASE ~SendsExit(t)
  <2>1. txOpen
    BY <1>1, <1>7, StoreAssumption DEF IInv, Locks
  <2>2. Item(t) \in Live
    BY <1>2, <1>7 DEF Live
  <2>3. queue' \in Seq(Live)
    BY <1>3, <2>2, AppendProperties
  <2> QED
    BY <1>4, <2>1, <2>3 DEF Phases, Running
<1> QED
  BY <1>6, <1>7

\* What the reducer thread reads: Exit only as the last item of a store that is
\* finishing, which leaves the queue empty.
LEMMA RecvPhases == ASSUME IInv, Recv PROVE Phases'
<1>1. /\ queue # <<>> /\ queue' = Tail(queue)
      /\ rpc' = Handler(Head(queue).op)
      /\ UNCHANGED <<gates, threads>>
  BY DEF Recv, Channel!Deliver
<1>2. /\ UNCHANGED txOpen
      /\ \A t \in Threads : (Sending(t)' <=> Sending(t))
                            /\ (SendsExit(t)' <=> SendsExit(t))
  BY <1>1 DEF gates, threads, Sending, SendsExit
<1>3. \A x \in Items : Handler(x.op) \in Ended <=> x.op = Exit
  BY HandlerProperties DEF Items
<1>4. CASE Running
  <2>1. Head(queue) \in Live /\ queue' \in Seq(Live)
    BY <1>1, <1>4, HeadTailProperties DEF Running
  <2>2. rpc' \notin Ended
    BY <1>1, <1>3, <2>1 DEF Live
  <2> QED
    BY <1>2, <1>4, <2>1, <2>2 DEF Phases, Running
<1>5. CASE Finishing
  <2>1. PICK q \in Seq(Live), x \in Items : queue = Append(q, x) /\ x.op = Exit
    BY <1>5 DEF Finishing
  <2>2. CASE q = <<>>
    <3>1. Head(queue) = x /\ queue' = <<>>
      BY <1>1, <2>1, <2>2
    <3> QED
      BY <1>1, <1>2, <1>3, <1>5, <2>1, <3>1
        DEF Phases, Finishing, Finished, NobodySends
  <2>3. CASE q # <<>>
    <3>1. /\ Head(queue) = Head(q)
          /\ queue' = Append(Tail(q), x)
      BY <1>1, <2>1, <2>3
    <3>2. Head(q) \in Live /\ Tail(q) \in Seq(Live)
      BY <2>3, HeadTailProperties
    <3>3. rpc' \notin Ended
      BY <1>1, <1>3, <3>1, <3>2 DEF Live
    <3> QED
      BY <1>2, <1>5, <2>1, <3>1, <3>2, <3>3
        DEF Phases, Finishing, NobodySends
  <2> QED
    BY <2>2, <2>3
<1>6. CASE Finished
  BY <1>1, <1>6 DEF Finished
<1> QED
  BY <1>4, <1>5, <1>6 DEF IInv, Phases

\* No step leaves the three phases.
LEMMA PhasesStep == ASSUME IInv, [Next]_vars PROVE Phases'
<1>1. ASSUME SameQueue, Quiet
      PROVE  Phases'
  BY <1>1 DEF IInv, Phases, Running, Finishing, Finished, NobodySends,
              SameQueue, Quiet
<1>2. ASSUME SameQueue, NEW t \in Threads, LockTx(t)
      PROVE  Phases'
  BY <1>2 DEF LockTx, SameQueue, IInv, Phases, Running, Finishing, Finished
<1>3. ASSUME SameQueue, NEW t \in Threads, TakeTx(t)
      PROVE  Phases'
  <2>1. SendsExit(t)'
    BY <1>3 DEF TakeTx, Goto, IInv, Types, SendsExit, Sending
  <2> QED
    BY <1>3, <2>1 DEF TakeTx, SameQueue, IInv, Phases, Running, Finishing,
                      Finished
<1> QED
  BY <1>1, <1>2, <1>3, QuietSteps, QueueSteps, SendPhases, RecvPhases DEF IInv

-----------------------------------------------------------------------------
(* Theorems *)

\* The inductive invariant holds of the store, whoever calls it.
THEOREM Invariance == Spec => []IInv
<1>1. Init => IInv
  <2>1. ASSUME Init
        PROVE  Locks /\ Running
    <3>1. /\ txOpen /\ txLock = NoOne /\ queue = <<>> /\ rpc = "recv"
          /\ \A t \in Threads : ~Sending(t)
      BY <2>1 DEF Init, Channel!ChannelInit, Sending
    <3> QED
      BY <3>1, StoreAssumption, EmptySeq
        DEF Locks, Running, SendsExit, Ended
  <2> QED
    BY <2>1, InitTypes DEF IInv, Phases
<1>2. IInv /\ [Next]_vars => IInv'
  BY TypesStep, LocksStep, PhasesStep DEF IInv
<1> QED
  BY <1>1, <1>2, PTL DEF Spec

\* dispatch, add_subscriber, query_state and close never meet in the channel,
\* whatever the number of threads: close() sends Exit without dispatch_tx, but
\* only after it has taken the one sender out.
THEOREM SendersExclusive == Spec => []OneSenderInside
<1>1. IInv => OneSenderInside
  BY OneInside DEF IInv
<1> QED
  BY <1>1, Invariance, PTL

\* When the reducer thread has read Exit the channel is empty and nobody is
\* inside it, for any number of closes, dispatches and effects: an action that
\* was accepted is reduced, or dropped by the policy.
THEOREM ExitIsLast == Spec => []NothingAfterExit
<1>1. IInv => NothingAfterExit
  BY DEF IInv, Phases, Running, Finishing, Finished, NothingAfterExit,
         NobodySends, Sending, Ended
<1> QED
  BY <1>1, Invariance, PTL
=============================================================================
