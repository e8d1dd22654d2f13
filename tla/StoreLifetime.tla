--------------------------- MODULE StoreLifetime ---------------------------
(***************************************************************************)
(* Who keeps a StoreImpl alive, and how it is dropped: the strong and weak *)
(* references of src/store_impl.rs and src/dispatcher.rs.                  *)
(*                                                                         *)
(* Clients have a handle each.  The reducer thread has its own for as long *)
(* as it runs, as has the task of an Effect::Function; a WeakDispatcher    *)
(* gets one for the time of a dispatch.  Whoever gives the last one up     *)
(* runs Drop: a client, or a thread of the pool that Drop then joins.      *)
(*                                                                         *)
(* A reducer, a middleware or on_notify may panic, which ends the reducer  *)
(* thread without Exit.  The channel blocks when full; a send is the one   *)
(* of MpscQueue: a test of closed, then a push or a wait.  Definitions     *)
(* marked "Faulty" stand in for the one after them (see StoreImpl).        *)
(***************************************************************************)
EXTENDS Integers, Sequences

CONSTANTS
  Clients,     \* threads with a handle of the store
  Reducer,     \* the reducer thread, a thread of the pool
  Workers,     \* the other threads of the pool
  Capacity,    \* of the dispatch channel
  MaxCalls,    \* bound on the calls of each client
  MaxEffects,  \* bound on the effects that are issued
  NoOne

Threads == Clients \cup Workers \cup {Reducer}

ASSUME LifetimeAssumption ==
  /\ Clients \cap Workers = {}
  /\ Reducer \notin Clients \cup Workers
  /\ NoOne \notin Threads
  /\ Capacity \in Nat \ {0}

VARIABLES
  holding,    \* the threads with a strong reference
  alive,      \* whether the store is "alive", "dropping" or "dropped"
  queue, txOpen, txLock,  \* the dispatch channel, dispatch_tx and its mutex
  closed,     \* whether its receiver is closed
  poolOpen,   \* whether the store has its pool
  tasks,      \* the tasks queued in the pool
  pc, op,     \* where each thread is, in which call
  calls,      \* how many calls each client has begun
  effects,    \* how many effects have been issued
  panicked,   \* history: the reducer thread has ended by a panic
  failed      \* history: a close() has returned Err

channel == <<queue, txOpen, txLock, closed>>
pool == <<poolOpen, tasks>>
bounds == <<calls, effects>>
vars == <<holding, alive, channel, pool, pc, op, bounds, panicked, failed>>

\* Faulty Init: the reducer thread has a weak reference.
InitWeak ==
  /\ holding = Clients /\ alive = "alive"
  /\ queue = <<>> /\ txOpen = TRUE /\ txLock = NoOne /\ closed = FALSE
  /\ poolOpen = TRUE /\ tasks = <<>>
  /\ pc = [t \in Threads |-> IF t = Reducer THEN "recv" ELSE "idle"]
  /\ op = [t \in Threads |-> "none"]
  /\ calls = [c \in Clients |-> 0] /\ effects = 0
  /\ panicked = FALSE /\ failed = FALSE

Init ==
  /\ holding = Clients \cup {Reducer} /\ alive = "alive"
  /\ queue = <<>> /\ txOpen = TRUE /\ txLock = NoOne /\ closed = FALSE
  /\ poolOpen = TRUE /\ tasks = <<>>
  /\ pc = [t \in Threads |-> IF t = Reducer THEN "recv" ELSE "idle"]
  /\ op = [t \in Threads |-> "none"]
  /\ calls = [c \in Clients |-> 0] /\ effects = 0
  /\ panicked = FALSE /\ failed = FALSE

Goto(t, next_pc) == pc' = [pc EXCEPT ![t] = next_pc]

-----------------------------------------------------------------------------
(* References *)

\* A task of an Effect::Function has a strong reference, queued or running.
InTasks == \E i \in DOMAIN tasks : tasks[i] = "function"

Held == holding # {} \/ InTasks

\* t gives up its reference; the last one drops the store: close(), then
\* stop_with_timeout(), whose own close() finds the sender taken.
Release(t, next_pc) ==
  /\ holding' = holding \ {t}
  /\ IF holding \ {t} = {} /\ ~InTasks
       THEN /\ alive' = "dropping"
            /\ op' = [op EXCEPT ![t] = "drop"]
            /\ Goto(t, "tx")
       ELSE Goto(t, next_pc) /\ UNCHANGED <<alive, op>>

\* Where t goes when its call returns.
Home(t) ==
  CASE t \in Clients /\ op[t] # "drop" -> "idle"
    [] t \in Clients /\ op[t] = "drop" -> "gone"
    [] t \in Workers /\ op[t] # "drop" -> "release"
    [] t \in Workers /\ op[t] = "drop" -> "idle"
    [] t = Reducer                     -> "rx"

Return(t) ==
  /\ Goto(t, Home(t))
  /\ op' = [op EXCEPT ![t] = "none"]
  /\ alive' = IF op[t] = "drop" THEN "dropped" ELSE alive

-----------------------------------------------------------------------------
(* Calls *)

Call(c, kind) ==
  /\ pc[c] = "idle" /\ c \in holding
  /\ calls[c] < MaxCalls
  /\ calls' = [calls EXCEPT ![c] = @ + 1]
  /\ op' = [op EXCEPT ![c] = kind]
  /\ Goto(c, "tx")
  /\ UNCHANGED <<holding, alive, channel, pool, effects, panicked, failed>>

\* A client lets go of its handle.
DropHandle(c) ==
  /\ pc[c] = "idle" /\ c \in holding
  /\ Release(c, "gone")
  /\ UNCHANGED <<channel, pool, bounds, panicked, failed>>

\* The end of what t does with dispatch_tx: stop and Drop go on to the pool.
AfterTx(t) ==
  IF op[t] \in {"stop", "drop"}
    THEN Goto(t, "pool") /\ UNCHANGED <<alive, op>>
    ELSE Return(t)

\* Faulty TakeTx: close() clones the sender.
CloneTx(t) ==
  /\ pc[t] = "tx"
  /\ txLock = NoOne
  /\ txOpen
  /\ IF op[t] = "dispatch" THEN txLock' = t ELSE UNCHANGED txLock
  /\ Goto(t, "test")
  /\ UNCHANGED <<holding, alive, queue, txOpen, closed, pool, op, bounds,
                 panicked, failed>>

\* dispatch keeps dispatch_tx locked for the send; close() takes the sender.
TakeTx(t) ==
  /\ pc[t] = "tx"
  /\ txLock = NoOne
  /\ txOpen
  /\ IF op[t] = "dispatch" THEN txLock' = t /\ UNCHANGED txOpen
                           ELSE txOpen' = FALSE /\ UNCHANGED txLock
  /\ Goto(t, "test")
  /\ UNCHANGED <<holding, alive, queue, closed, pool, op, bounds, panicked,
                 failed>>

\* dispatch_tx is None: dispatch returns Err, close() Ok.
FindTaken(t) ==
  /\ pc[t] = "tx"
  /\ txLock = NoOne
  /\ ~txOpen
  /\ AfterTx(t)
  /\ UNCHANGED <<holding, channel, pool, bounds, panicked, failed>>

Unlocked(t) == IF txLock = t THEN NoOne ELSE txLock

TestClosed(t) ==
  /\ pc[t] = "test"
  /\ ~closed
  /\ Goto(t, "send")
  /\ UNCHANGED <<holding, alive, channel, pool, op, bounds, panicked, failed>>

\* The channel is closed: close() says "try it later".
SendFails(t) ==
  /\ pc[t] = "test"
  /\ closed
  /\ txLock' = Unlocked(t)
  /\ failed' = (failed \/ op[t] # "dispatch")
  /\ AfterTx(t)
  /\ UNCHANGED <<holding, queue, txOpen, closed, pool, bounds, panicked>>

\* Faulty Push: no look at the length of the queue.
PushUnchecked(t) ==
  /\ pc[t] \in {"send", "wait"}
  /\ queue' = Append(queue, IF op[t] = "dispatch" THEN "Action" ELSE "Exit")
  /\ txLock' = Unlocked(t)
  /\ AfterTx(t)
  /\ UNCHANGED <<holding, txOpen, closed, pool, bounds, panicked, failed>>

Push(t) ==
  /\ pc[t] \in {"send", "wait"}
  /\ Len(queue) < Capacity
  /\ queue' = Append(queue, IF op[t] = "dispatch" THEN "Action" ELSE "Exit")
  /\ txLock' = Unlocked(t)
  /\ AfterTx(t)
  /\ UNCHANGED <<holding, txOpen, closed, pool, bounds, panicked, failed>>

Wait(t) ==
  /\ pc[t] = "send"
  /\ Len(queue) >= Capacity
  /\ Goto(t, "wait")
  /\ UNCHANGED <<holding, alive, channel, pool, op, bounds, panicked, failed>>

\* The pool, unless another stop has taken it.
TakePool(t) ==
  /\ pc[t] = "pool"
  /\ poolOpen' = FALSE
  /\ IF poolOpen THEN Goto(t, "join") /\ UNCHANGED <<alive, op>>
                 ELSE Return(t)
  /\ UNCHANGED <<holding, channel, tasks, bounds, panicked, failed>>

\* shutdown_join: the threads of the pool have run all tasks.
Join(t) ==
  /\ pc[t] = "join"
  /\ tasks = <<>>
  /\ pc[Reducer] = "ended" /\ \A w \in Workers : pc[w] = "idle"
  /\ Return(t)
  /\ UNCHANGED <<holding, channel, pool, bounds, panicked, failed>>

\* Faulty JoinTimesOut: Drop waits like stop().
JoinAlways(t) == Join(t)

\* shutdown_join_timeout: Drop does not wait for longer than 5 s.
JoinTimesOut(t) ==
  /\ pc[t] = "join"
  /\ op[t] = "drop"
  /\ Return(t)
  /\ UNCHANGED <<holding, channel, pool, bounds, panicked, failed>>

-----------------------------------------------------------------------------
(* The reducer thread *)

Recv ==
  /\ pc[Reducer] = "recv"
  /\ queue # <<>>
  /\ queue' = Tail(queue)
  /\ Goto(Reducer, IF Head(queue) = "Exit" THEN "release" ELSE "reduce")
  /\ UNCHANGED <<holding, alive, txOpen, txLock, closed, pool, op, bounds,
                 panicked, failed>>

\* The rest of what an action does: do_reduce, do_notify.
Reduced ==
  /\ pc[Reducer] = "reduce"
  /\ Goto(Reducer, "recv")
  /\ UNCHANGED <<holding, alive, channel, pool, op, bounds, panicked, failed>>

\* do_effect: a task of the pool, if it is there, which has the store
\* ("function") or a WeakDispatcher ("thunk").
IssueEffect(kind) ==
  /\ pc[Reducer] = "reduce"
  /\ effects < MaxEffects
  /\ effects' = effects + 1
  /\ tasks' = IF poolOpen THEN Append(tasks, kind) ELSE tasks
  /\ UNCHANGED <<holding, alive, channel, poolOpen, pc, op, calls, panicked,
                 failed>>

Panic ==
  /\ pc[Reducer] = "reduce"
  /\ panicked' = TRUE
  /\ Goto(Reducer, "release")
  /\ UNCHANGED <<holding, alive, channel, pool, op, bounds, failed>>

\* The end of reducer_thread, or its unwinding: middleware_deco and store_impl
\* are dropped before the parameter rx ...
ReleaseStore ==
  /\ pc[Reducer] = "release"
  /\ Release(Reducer, "rx")
  /\ UNCHANGED <<channel, pool, bounds, panicked, failed>>

\* ... which closes the channel and wakes the sender that waits now.
DropReceiver ==
  /\ pc[Reducer] = "rx"
  /\ closed' = TRUE
  /\ pc' = [t \in Threads |-> CASE t = Reducer     -> "ended"
                                [] pc[t] = "wait"  -> "test"
                                [] OTHER           -> pc[t]]
  /\ UNCHANGED <<holding, alive, queue, txOpen, txLock, pool, op, bounds,
                 panicked, failed>>

-----------------------------------------------------------------------------
(* The workers of the pool *)

TakeTask(w) ==
  /\ pc[w] = "idle"
  /\ tasks # <<>>
  /\ tasks' = Tail(tasks)
  /\ IF Head(tasks) = "function"
       THEN holding' = holding \cup {w} /\ Goto(w, "function")
       ELSE Goto(w, "upgrade") /\ UNCHANGED holding
  /\ UNCHANGED <<alive, channel, poolOpen, op, bounds, panicked, failed>>

\* The function returns an action, which is dispatched ...
FunctionDispatches(w) ==
  /\ pc[w] = "function"
  /\ op' = [op EXCEPT ![w] = "dispatch"]
  /\ Goto(w, "tx")
  /\ UNCHANGED <<holding, alive, channel, pool, bounds, panicked, failed>>

\* ... or something else.
FunctionEnds(w) ==
  /\ pc[w] = "function"
  /\ Goto(w, "release")
  /\ UNCHANGED <<holding, alive, channel, pool, op, bounds, panicked, failed>>

\* WeakDispatcher::dispatch: upgrade() succeeds as long as anybody has the
\* store.
Upgrade(w) ==
  /\ pc[w] = "upgrade"
  /\ IF Held
       THEN /\ holding' = holding \cup {w}
            /\ op' = [op EXCEPT ![w] = "dispatch"]
            /\ Goto(w, "tx")
       ELSE Goto(w, "idle") /\ UNCHANGED <<holding, op>>
  /\ UNCHANGED <<alive, channel, pool, bounds, panicked, failed>>

\* The closure, or the upgraded reference, is dropped.
ReleaseTask(w) ==
  /\ pc[w] = "release"
  /\ Release(w, "idle")
  /\ UNCHANGED <<channel, pool, bounds, panicked, failed>>

-----------------------------------------------------------------------------
InCall(t) ==
  \/ TakeTx(t) \/ FindTaken(t) \/ TestClosed(t) \/ SendFails(t)
  \/ Push(t) \/ Wait(t) \/ TakePool(t) \/ Join(t) \/ JoinTimesOut(t)

Reduce ==
  \/ Recv \/ Reduced \/ Panic \/ ReleaseStore \/ DropReceiver
  \/ \E kind \in {"function", "thunk"} : IssueEffect(kind)

Work(w) ==
  \/ TakeTask(w) \/ FunctionDispatches(w) \/ FunctionEnds(w)
  \/ Upgrade(w) \/ ReleaseTask(w)

Next ==
  \/ \E c \in Clients :
       \/ \E kind \in {"dispatch", "close", "stop"} : Call(c, kind)
       \/ DropHandle(c)
  \/ \E t \in Threads : InCall(t)
  \/ Reduce
  \/ \E w \in Workers : Work(w)

Spec == Init /\ [][Next]_vars

\* A thread that can go on does, and a timeout expires; nobody has to call
\* anything, or to let go of its handle.
Fairness ==
  /\ \A t \in Threads : WF_vars(InCall(t))
  /\ WF_vars(Reduce)
  /\ \A w \in Workers : WF_vars(Work(w))

FairSpec == Spec /\ Fairness

-----------------------------------------------------------------------------
(* Properties *)

Steps == {"idle", "tx", "test", "send", "wait", "pool", "join", "gone",
          "recv", "reduce", "release", "rx", "ended", "function", "upgrade"}

\* Every variable has its type; the channel keeps within its capacity.
TypeOK ==
  /\ holding \subseteq Threads
  /\ alive \in {"alive", "dropping", "dropped"}
  /\ queue \in Seq({"Action", "Exit"}) /\ Len(queue) <= Capacity
  /\ txOpen \in BOOLEAN /\ txLock \in Threads \cup {NoOne}
  /\ closed \in BOOLEAN /\ poolOpen \in BOOLEAN
  /\ tasks \in Seq({"function", "thunk"})
  /\ pc \in [Threads -> Steps]
  /\ op \in [Threads -> {"none", "dispatch", "close", "stop", "drop"}]
  /\ calls \in [Clients -> Nat] /\ effects \in Nat
  /\ panicked \in BOOLEAN /\ failed \in BOOLEAN

\* Drop comes after everything else: when it runs, the reducer thread has left
\* its loop, nobody but one thread, which runs Drop, is in a call, and no effect
\* can get hold of the store any more.
DropComesLast ==
  alive # "alive" =>
    /\ pc[Reducer] \notin {"recv", "reduce", "release"}
    /\ ~Held
    /\ \A t \in Threads : op[t] # "none" => op[t] = "drop"
    /\ \A t, u \in Threads : op[t] = "drop" /\ op[u] = "drop" => t = u

\* Drop has nothing to send: unless the reducer thread has panicked, Exit was
\* sent before, by a close(), and Drop cannot block in the channel.
DropFindsTaken ==
  \A t \in Threads :
    op[t] = "drop" /\ pc[t] \in {"test", "send", "wait"} => panicked

\* close() fails, "try it later", only when the reducer thread is gone by a
\* panic, so that a later close(), which finds no sender and returns Ok, has
\* nothing left to close.  This is against the doc of close() and stop(), that
\* Err "can be happened when the queue is full": with a full queue they wait.
FailsAfterPanic == failed => panicked /\ closed

\* A sender waits for room that nobody is left to make: it passed the test of
\* closed before the receiver went, or it is the reducer thread itself that
\* drops the store with its receiver still there.
Stuck == \E t \in Threads : pc[t] = "wait" /\ (closed \/ t = Reducer)

\* A store that was closed, or whose reducer thread has panicked, is dropped
\* when the clients have let go of it, even by a thread of the pool it joins;
\* unless a panic has left a sender behind.
DroppedInTheEnd ==
  <>[](holding \cap Clients = {} /\ (~txOpen \/ panicked)) =>
    <>(alive = "dropped") \/ <>[](panicked /\ Stuck)

=============================================================================
