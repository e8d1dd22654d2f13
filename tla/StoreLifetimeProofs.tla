------------------------ MODULE StoreLifetimeProofs ------------------------
(***************************************************************************)
(* Theorems about StoreLifetime, for every set of clients and workers,     *)
(* every capacity and any number of calls and effects: Drop runs once and  *)
(* after everything else, finds the sender taken unless the reducer thread *)
(* has panicked, and close() fails after a panic only.                     *)
(*                                                                         *)
(* The inductive invariant says what a thread that is somewhere must have  *)
(* (Positions), that nobody gets hold of a store whose references are gone *)
(* (References), and that the sender is taken by one thread and Exit sent  *)
(* by it before the reducer thread ends otherwise than by a panic (Ends).  *)
(***************************************************************************)
EXTENDS StoreLifetime, TLAPS

InStore == {"tx", "test", "send", "wait", "pool", "join"}

\* A thread is in a call exactly when it is between the first and the last
\* step of one; a call but Drop, and a thread about to give up its reference,
\* has one.
Position(t) ==
  /\ op[t] = "none" <=> pc[t] \notin InStore
  /\ op[t] \in {"dispatch", "close", "stop"} => t \in holding
  /\ pc[t] \in {"recv", "reduce", "release", "function"} => t \in holding

Positions == \A t \in Threads : Position(t)

\* When the store is being dropped nobody has it, and one thread drops it.
References ==
  /\ alive # "alive" => ~Held
  /\ \A t \in Threads : op[t] = "drop" => alive # "alive"
  /\ \A t, u \in Threads : op[t] = "drop" /\ op[u] = "drop" => t = u

\* The thread that has taken the sender, and is on its way to send Exit.
SendsExit(t) == pc[t] \in {"test", "send", "wait"} /\ op[t] # "dispatch"

ExitSent == ~txOpen /\ \A t \in Threads : ~SendsExit(t)

Working == pc[Reducer] \in {"recv", "reduce"}

Ends ==
  /\ txOpen => \A t \in Threads : ~SendsExit(t)
  /\ \A t, u \in Threads : SendsExit(t) /\ SendsExit(u) => t = u
  /\ \A i \in DOMAIN queue : queue[i] = "Exit" => ExitSent
  /\ ~Working => panicked \/ ExitSent
  /\ closed => pc[Reducer] = "ended"
  /\ failed => panicked /\ closed

IInv == TypeOK /\ Positions /\ References /\ Ends

-----------------------------------------------------------------------------
(* Types *)

Kinds == {"none", "dispatch", "close", "stop", "drop"}

\* The variables the ends of the calls change.
LocalTypes ==
  /\ pc \in [Threads -> Steps]
  /\ op \in [Threads -> Kinds]
  /\ alive \in {"alive", "dropping", "dropped"}

\* Where a call leads back to: the reducer thread drops its receiver next, and
\* a thread of the pool that has dispatched gives up its reference.
LEMMA HomeProperties ==
  ASSUME NEW t \in Threads
  PROVE  /\ Home(t) \in {"idle", "gone", "release", "rx"}
         /\ t = Reducer => Home(t) = "rx"
         /\ Home(t) = "release" => t \in Workers /\ op[t] # "drop"
<1>1. CASE t \in Clients
  BY <1>1, LifetimeAssumption DEF Home
<1>2. CASE t \in Workers
  BY <1>2, LifetimeAssumption DEF Home
<1>3. CASE t = Reducer
  BY <1>3, LifetimeAssumption DEF Home
<1>4. QED
  BY <1>1, <1>2, <1>3 DEF Threads

\* Return, AfterTx and Release keep the types of what they change.
LEMMA ReturnType ==
  ASSUME LocalTypes, NEW t \in Threads, Return(t)
  PROVE  LocalTypes'
BY HomeProperties DEF LocalTypes, Return, Goto, Steps, Kinds

LEMMA AfterTxType ==
  ASSUME LocalTypes, NEW t \in Threads, AfterTx(t)
  PROVE  LocalTypes'
<1>1. CASE op[t] \in {"stop", "drop"}
  BY <1>1 DEF LocalTypes, AfterTx, Goto, Steps
<1>2. CASE op[t] \notin {"stop", "drop"}
  BY <1>2, ReturnType DEF AfterTx
<1>3. QED
  BY <1>1, <1>2

LEMMA ReleaseType ==
  ASSUME LocalTypes, holding \subseteq Threads, NEW t \in Threads,
         NEW next_pc \in {"gone", "rx", "idle"}, Release(t, next_pc)
  PROVE  LocalTypes' /\ holding' \subseteq Threads
<1>1. CASE holding \ {t} = {} /\ ~InTasks
  BY <1>1 DEF LocalTypes, Release, Goto, Steps, Kinds
<1>2. CASE ~(holding \ {t} = {} /\ ~InTasks)
  BY <1>2 DEF LocalTypes, Release, Goto, Steps
<1>3. QED
  BY <1>1, <1>2

LEMMA InitTypeOK == ASSUME Init PROVE TypeOK
<1>1. holding \subseteq Threads /\ txLock \in Threads \cup {NoOne}
  BY DEF Init, Threads
<1>2. pc \in [Threads -> Steps] /\ op \in [Threads -> Kinds]
  BY DEF Init, Steps, Kinds
<1>3. queue \in Seq({"Action", "Exit"}) /\ Len(queue) <= Capacity
  BY LifetimeAssumption DEF Init
<1>4. tasks \in Seq({"function", "thunk"})
  BY DEF Init
<1>5. calls \in [Clients -> Nat] /\ effects \in Nat
  BY DEF Init
<1>6. QED
  BY <1>1, <1>2, <1>3, <1>4, <1>5, Zenon DEF Init, TypeOK, Kinds

LEMMA InCallTypes ==
  ASSUME TypeOK, NEW t \in Threads, InCall(t)
  PROVE  TypeOK'
<1> USE DEF TypeOK
<1>1. LocalTypes
  BY DEF LocalTypes, Kinds
<1>2. CASE TakeTx(t)
  <2>1. txOpen' \in BOOLEAN /\ txLock' \in Threads \cup {NoOne}
    BY <1>2 DEF TakeTx
  <2>2. QED
    BY <1>2, <2>1 DEF TakeTx, pool, bounds, Goto, Steps
<1>3. CASE FindTaken(t)
  BY <1>1, <1>3, AfterTxType DEF FindTaken, channel, pool, bounds, LocalTypes, Kinds
<1>4. CASE TestClosed(t)
  BY <1>4 DEF TestClosed, channel, pool, bounds, Goto, Steps
<1>5. CASE SendFails(t)
  BY <1>1, <1>5, AfterTxType
     DEF SendFails, Unlocked, pool, bounds, LocalTypes, Kinds
<1>6. CASE Push(t)
  <2>1. queue' \in Seq({"Action", "Exit"}) /\ Len(queue') <= Capacity
    BY <1>6, LifetimeAssumption DEF Push
  <2>2. QED
    BY <1>1, <1>6, <2>1, AfterTxType
       DEF Push, Unlocked, pool, bounds, LocalTypes, Kinds
<1>7. CASE Wait(t)
  BY <1>7 DEF Wait, channel, pool, bounds, Goto, Steps
<1>8. CASE TakePool(t)
  <2>1. LocalTypes'
    <3>1. CASE poolOpen
      BY <1>1, <1>8, <3>1 DEF TakePool, LocalTypes, Goto, Steps
    <3>2. CASE ~poolOpen
      BY <1>1, <1>8, <3>2, ReturnType DEF TakePool
    <3>3. QED
      BY <3>1, <3>2
  <2>2. QED
    BY <1>8, <2>1 DEF TakePool, channel, bounds, LocalTypes, Kinds
<1>9. CASE Join(t)
  BY <1>1, <1>9, ReturnType DEF Join, channel, pool, bounds, LocalTypes, Kinds
<1>10. CASE JoinTimesOut(t)
  BY <1>1, <1>10, ReturnType
     DEF JoinTimesOut, channel, pool, bounds, LocalTypes, Kinds
<1>11. QED
  BY <1>2, <1>3, <1>4, <1>5, <1>6, <1>7, <1>8, <1>9, <1>10 DEF InCall

LEMMA ClientTypes ==
  ASSUME TypeOK, NEW c \in Clients
  PROVE  /\ \A kind \in {"dispatch", "close", "stop"} :
              Call(c, kind) => TypeOK'
         /\ DropHandle(c) => TypeOK'
<1> USE DEF TypeOK
<1>1. LocalTypes /\ c \in Threads
  BY DEF LocalTypes, Kinds, Threads
<1>2. ASSUME NEW kind \in {"dispatch", "close", "stop"}, Call(c, kind)
      PROVE  TypeOK'
  BY <1>1, <1>2 DEF Call, channel, pool, Goto, Steps
<1>3. ASSUME DropHandle(c) PROVE TypeOK'
  BY <1>1, <1>3, ReleaseType
     DEF DropHandle, channel, pool, bounds, LocalTypes, Kinds
<1>4. QED
  BY <1>2, <1>3

LEMMA ReduceTypes == ASSUME TypeOK, Reduce PROVE TypeOK'
<1> USE DEF TypeOK
<1>1. LocalTypes /\ Reducer \in Threads
  BY DEF LocalTypes, Kinds, Threads
<1>2. CASE Recv
  <2>1. queue' \in Seq({"Action", "Exit"}) /\ Len(queue') <= Capacity
    BY <1>2, LifetimeAssumption DEF Recv
  <2>2. QED
    BY <1>1, <1>2, <2>1 DEF Recv, pool, bounds, Goto, Steps
<1>3. CASE Reduced
  BY <1>1, <1>3 DEF Reduced, channel, pool, bounds, Goto, Steps
<1>4. CASE Panic
  BY <1>1, <1>4 DEF Panic, channel, pool, bounds, Goto, Steps
<1>5. CASE ReleaseStore
  BY <1>1, <1>5, ReleaseType
     DEF ReleaseStore, channel, pool, bounds, LocalTypes, Kinds
<1>6. CASE DropReceiver
  <2>1. pc' \in [Threads -> Steps]
    BY <1>6 DEF DropReceiver, Steps
  <2>2. QED
    BY <1>6, <2>1 DEF DropReceiver, pool, bounds
<1>7. ASSUME NEW kind \in {"function", "thunk"}, IssueEffect(kind)
      PROVE  TypeOK'
  BY <1>7 DEF IssueEffect, channel
<1>8. QED
  BY <1>2, <1>3, <1>4, <1>5, <1>6, <1>7 DEF Reduce

LEMMA WorkTypes == ASSUME TypeOK, NEW w \in Workers, Work(w) PROVE TypeOK'
<1> USE DEF TypeOK
<1>1. LocalTypes /\ w \in Threads
  BY DEF LocalTypes, Kinds, Threads
<1>2. CASE TakeTask(w)
  <2>1. tasks' \in Seq({"function", "thunk"})
    BY <1>2 DEF TakeTask
  <2>2. QED
    BY <1>1, <1>2, <2>1 DEF TakeTask, channel, bounds, Goto, Steps
<1>3. CASE FunctionDispatches(w)
  BY <1>1, <1>3 DEF FunctionDispatches, channel, pool, bounds, Goto, Steps
<1>4. CASE FunctionEnds(w)
  BY <1>1, <1>4 DEF FunctionEnds, channel, pool, bounds, Goto, Steps
<1>5. CASE Upgrade(w)
  BY <1>1, <1>5 DEF Upgrade, channel, pool, bounds, Goto, Steps
<1>6. CASE ReleaseTask(w)
  BY <1>1, <1>6, ReleaseType
     DEF ReleaseTask, channel, pool, bounds, LocalTypes, Kinds
<1>7. QED
  BY <1>2, <1>3, <1>4, <1>5, <1>6 DEF Work

LEMMA TypeStep == ASSUME TypeOK, [Next]_vars PROVE TypeOK'
<1>1. CASE UNCHANGED vars
  BY <1>1 DEF vars, channel, pool, bounds, TypeOK
<1>2. CASE Next
  BY <1>2, InCallTypes, ClientTypes, ReduceTypes, WorkTypes DEF Next
<1>3. QED
  BY <1>1, <1>2

\* Every variable of the store's lifetime keeps its type, and the dispatch
\* channel its capacity.
THEOREM TypeCorrectness == Spec => []TypeOK
<1>1. Init => TypeOK
  BY InitTypeOK
<1>2. TypeOK /\ [Next]_vars => TypeOK'
  BY TypeStep
<1>3. QED
  BY <1>1, <1>2, PTL DEF Spec

-----------------------------------------------------------------------------
(* What the steps of one thread leave to the others *)

OthersStay(t) ==
  \A u \in Threads \ {t} : pc'[u] = pc[u] /\ op'[u] = op[u]

LEMMA ReturnProperties ==
  ASSUME LocalTypes, NEW t \in Threads, Return(t)
  PROVE  /\ OthersStay(t)
         /\ pc'[t] = Home(t) /\ op'[t] = "none"
         /\ alive' = IF op[t] = "drop" THEN "dropped" ELSE alive
BY DEF LocalTypes, OthersStay, Return, Goto

LEMMA AfterTxProperties ==
  ASSUME LocalTypes, NEW t \in Threads, AfterTx(t)
  PROVE  /\ OthersStay(t)
         /\ \/ pc'[t] = "pool" /\ op'[t] = op[t] /\ op[t] \in {"stop", "drop"}
               /\ alive' = alive
            \/ op[t] # "drop" /\ pc'[t] = Home(t) /\ op'[t] = "none"
               /\ alive' = alive
<1>1. CASE op[t] \in {"stop", "drop"}
  BY <1>1 DEF LocalTypes, OthersStay, AfterTx, Goto
<1>2. CASE op[t] \notin {"stop", "drop"}
  BY <1>2, ReturnProperties DEF AfterTx
<1>3. QED
  BY <1>1, <1>2

LEMMA ReleaseProperties ==
  ASSUME LocalTypes, NEW t \in Threads,
         NEW next_pc \in {"gone", "rx", "idle"}, Release(t, next_pc)
  PROVE  /\ OthersStay(t)
         /\ holding' = holding \ {t}
         /\ \/ /\ holding' = {} /\ ~InTasks
               /\ pc'[t] = "tx" /\ op'[t] = "drop" /\ alive' = "dropping"
            \/ /\ holding' # {} \/ InTasks
               /\ pc'[t] = next_pc /\ op'[t] = op[t] /\ alive' = alive
<1>1. CASE holding \ {t} = {} /\ ~InTasks
  BY <1>1 DEF LocalTypes, OthersStay, Release, Goto
<1>2. CASE ~(holding \ {t} = {} /\ ~InTasks)
  BY <1>2 DEF LocalTypes, OthersStay, Release, Goto
<1>3. QED
  BY <1>1, <1>2

\* The threads are told apart by where they can be.
LEMMA ThreadKinds ==
  /\ Reducer \in Threads
  /\ \A c \in Clients : c \in Threads /\ c # Reducer
  /\ \A w \in Workers : w \in Threads /\ w # Reducer
BY LifetimeAssumption DEF Threads

LEMMA LocalTypesHold == ASSUME TypeOK PROVE LocalTypes
BY DEF TypeOK, LocalTypes, Kinds

-----------------------------------------------------------------------------
(* Positions *)

LEMMA AfterTxPositions ==
  ASSUME LocalTypes, Positions, NEW t \in Threads, pc[t] \in InStore,
         AfterTx(t), holding' = holding
  PROVE  Positions'
<1>1. OthersStay(t)
  BY AfterTxProperties
<1>2. op[t] \in {"dispatch", "close", "stop", "drop"}
  BY DEF Positions, Position, LocalTypes, Kinds
<1>3. ASSUME NEW u \in Threads, u # t PROVE Position(u)'
  BY <1>1, <1>3 DEF Positions, Position, OthersStay
<1>4. Position(t)'
  <2>1. CASE pc'[t] = "pool" /\ op'[t] = op[t]
    BY <1>2, <2>1 DEF Positions, Position, InStore
  <2>2. CASE op[t] # "drop" /\ pc'[t] = Home(t) /\ op'[t] = "none"
    BY <1>2, <2>2, HomeProperties DEF Positions, Position, InStore
  <2>3. QED
    BY <2>1, <2>2, AfterTxProperties
<1>5. QED
  BY <1>3, <1>4 DEF Positions

LEMMA ReturnPositions ==
  ASSUME LocalTypes, Positions, NEW t \in Threads, pc[t] \in InStore,
         Return(t), holding' = holding
  PROVE  Positions'
<1>1. OthersStay(t) /\ pc'[t] = Home(t) /\ op'[t] = "none"
  BY ReturnProperties
<1>2. op[t] \in {"dispatch", "close", "stop", "drop"}
  BY DEF Positions, Position, LocalTypes, Kinds
<1>3. ASSUME NEW u \in Threads, u # t PROVE Position(u)'
  BY <1>1, <1>3 DEF Positions, Position, OthersStay
<1>4. Position(t)'
  BY <1>1, <1>2, HomeProperties DEF Positions, Position, InStore
<1>5. QED
  BY <1>3, <1>4 DEF Positions

LEMMA ReleasePositions ==
  ASSUME LocalTypes, Positions, NEW t \in Threads,
         pc[t] \in {"idle", "release"},
         NEW next_pc \in {"gone", "rx", "idle"}, Release(t, next_pc)
  PROVE  Positions'
<1>1. OthersStay(t) /\ holding' = holding \ {t}
  BY ReleaseProperties
<1>2. op[t] = "none"
  BY DEF Positions, Position, InStore
<1>3. ASSUME NEW u \in Threads, u # t PROVE Position(u)'
  BY <1>1, <1>3 DEF Positions, Position, OthersStay
<1>4. Position(t)'
  BY <1>2, ReleaseProperties DEF Positions, Position, InStore
<1>5. QED
  BY <1>3, <1>4 DEF Positions

\* A step within a call.
LEMMA InsidePositions ==
  ASSUME LocalTypes, Positions, NEW t \in Threads, pc[t] \in InStore,
         NEW next_pc \in InStore, Goto(t, next_pc), op' = op,
         holding' = holding
  PROVE  Positions'
BY DEF LocalTypes, Positions, Position, Goto, InStore

LEMMA InCallPositions ==
  ASSUME TypeOK, Positions, NEW t \in Threads, InCall(t)
  PROVE  Positions'
<1> USE LocalTypesHold DEF InStore
<1>1. CASE TakeTx(t) \/ TestClosed(t) \/ Wait(t)
  BY <1>1, InsidePositions DEF TakeTx, TestClosed, Wait
<1>2. CASE FindTaken(t) \/ SendFails(t) \/ Push(t)
  BY <1>2, AfterTxPositions DEF FindTaken, SendFails, Push
<1>3. CASE TakePool(t)
  BY <1>3, InsidePositions, ReturnPositions DEF TakePool
<1>4. CASE Join(t) \/ JoinTimesOut(t)
  BY <1>4, ReturnPositions DEF Join, JoinTimesOut
<1>5. QED
  BY <1>1, <1>2, <1>3, <1>4 DEF InCall

LEMMA ClientPositions ==
  ASSUME TypeOK, Positions, NEW c \in Clients
  PROVE  /\ \A kind \in {"dispatch", "close", "stop"} :
              Call(c, kind) => Positions'
         /\ DropHandle(c) => Positions'
<1>1. LocalTypes /\ c \in Threads
  BY LocalTypesHold, ThreadKinds
<1>2. ASSUME NEW kind \in {"dispatch", "close", "stop"}, Call(c, kind)
      PROVE  Positions'
  BY <1>1, <1>2 DEF Call, Positions, Position, LocalTypes, Goto, InStore
<1>3. ASSUME DropHandle(c) PROVE Positions'
  BY <1>1, <1>3, ReleasePositions DEF DropHandle
<1>4. QED
  BY <1>2, <1>3

LEMMA ReducePositions == ASSUME TypeOK, Positions, Reduce PROVE Positions'
<1>1. LocalTypes /\ Reducer \in Threads
  BY LocalTypesHold, ThreadKinds
<1>2. CASE Recv \/ Reduced \/ Panic
  BY <1>1, <1>2
     DEF Recv, Reduced, Panic, Positions, Position, LocalTypes, Goto, InStore
<1>3. CASE ReleaseStore
  BY <1>1, <1>3, ReleasePositions DEF ReleaseStore
<1>4. CASE DropReceiver
  <2>1. pc' = [t \in Threads |-> CASE t = Reducer     -> "ended"
                                   [] pc[t] = "wait"  -> "test"
                                   [] OTHER           -> pc[t]]
        /\ pc[Reducer] = "rx" /\ op' = op /\ holding' = holding
    BY <1>4 DEF DropReceiver
  <2>2. ASSUME NEW u \in Threads PROVE Position(u)'
    BY <1>1, <2>1, <2>2 DEF Positions, Position, LocalTypes, InStore
  <2>3. QED
    BY <2>2 DEF Positions
<1>5. ASSUME NEW kind \in {"function", "thunk"}, IssueEffect(kind)
      PROVE  Positions'
  BY <1>5 DEF IssueEffect, Positions, Position
<1>6. QED
  BY <1>2, <1>3, <1>4, <1>5 DEF Reduce

LEMMA WorkPositions ==
  ASSUME TypeOK, Positions, NEW w \in Workers, Work(w)
  PROVE  Positions'
<1>1. LocalTypes /\ w \in Threads
  BY LocalTypesHold, ThreadKinds
<1>2. CASE TakeTask(w)
  BY <1>1, <1>2 DEF TakeTask, Positions, Position, LocalTypes, Goto, InStore
<1>3. CASE FunctionDispatches(w) \/ FunctionEnds(w)
  BY <1>1, <1>3 DEF FunctionDispatches, FunctionEnds, Positions, Position,
                    LocalTypes, Goto, InStore
<1>4. CASE Upgrade(w)
  BY <1>1, <1>4 DEF Upgrade, Positions, Position, LocalTypes, Goto, InStore
<1>5. CASE ReleaseTask(w)
  BY <1>1, <1>5, ReleasePositions DEF ReleaseTask
<1>6. QED
  BY <1>2, <1>3, <1>4, <1>5 DEF Work

LEMMA PositionsStep == ASSUME TypeOK, Positions, [Next]_vars PROVE Positions'
<1>1. CASE UNCHANGED vars
  BY <1>1 DEF vars, Positions, Position
<1>2. CASE Next
  BY <1>2, InCallPositions, ClientPositions, ReducePositions, WorkPositions
     DEF Next
<1>3. QED
  BY <1>1, <1>2

-----------------------------------------------------------------------------
(* References *)

\* A call ends, if it is Drop with the store dropped, and takes no reference.
LEMMA InCallReferences ==
  ASSUME TypeOK, References, NEW t \in Threads, InCall(t)
  PROVE  References'
<1>1. LocalTypes
  BY LocalTypesHold
<1>2. Held' = Held
  BY DEF InCall, TakeTx, FindTaken, TestClosed, SendFails, Push, Wait,
         TakePool, Join, JoinTimesOut, pool, Held, InTasks
<1>3. CASE op' = op /\ alive' = alive
  BY <1>2, <1>3 DEF References
<1>4. CASE AfterTx(t)
  BY <1>1, <1>2, <1>4, AfterTxProperties DEF References, OthersStay
<1>5. CASE Return(t)
  BY <1>1, <1>2, <1>5, ReturnProperties DEF References, OthersStay
<1>6. QED
  BY <1>3, <1>4, <1>5
     DEF InCall, TakeTx, FindTaken, TestClosed, SendFails, Push, Wait,
         TakePool, Join, JoinTimesOut

\* Who gives up the last reference finds the store alive.
LEMMA ReleaseReferences ==
  ASSUME LocalTypes, References, NEW t \in holding, t \in Threads,
         NEW next_pc \in {"gone", "rx", "idle"}, Release(t, next_pc),
         tasks' = tasks
  PROVE  References'
<1>1. alive = "alive" /\ \A u \in Threads : op[u] # "drop"
  BY DEF References, Held
<1>2. OthersStay(t) /\ holding' = holding \ {t}
  BY ReleaseProperties
<1>3. CASE holding' = {} /\ ~InTasks /\ op'[t] = "drop" /\ alive' = "dropping"
  BY <1>1, <1>2, <1>3 DEF References, OthersStay, Held, InTasks
<1>4. CASE op'[t] = op[t] /\ alive' = alive
  BY <1>1, <1>2, <1>4 DEF References, OthersStay
<1>5. QED
  BY <1>3, <1>4, ReleaseProperties

LEMMA ReferencesStep ==
  ASSUME TypeOK, Positions, References, [Next]_vars
  PROVE  References'
<1>1. LocalTypes /\ Reducer \in Threads
  BY LocalTypesHold, ThreadKinds
<1>2. CASE UNCHANGED vars
  BY <1>2 DEF vars, pool, References, Held, InTasks
<1>3. ASSUME NEW t \in Threads, InCall(t) PROVE References'
  BY <1>3, InCallReferences
<1>4. ASSUME NEW c \in Clients PROVE
        /\ \A kind \in {"dispatch", "close", "stop"} :
             Call(c, kind) => References'
        /\ DropHandle(c) => References'
  <2>1. ASSUME NEW kind \in {"dispatch", "close", "stop"}, Call(c, kind)
        PROVE  References'
    BY <1>1, <2>1, ThreadKinds DEF Call, LocalTypes, References, Held
  <2>2. ASSUME DropHandle(c) PROVE References'
    BY <1>1, <2>2, ThreadKinds, ReleaseReferences DEF DropHandle, pool
  <2>3. QED
    BY <2>1, <2>2
<1>5. CASE Reduce
  <2>1. CASE Recv \/ Reduced \/ Panic \/ DropReceiver
    BY <2>1 DEF Recv, Reduced, Panic, DropReceiver, pool, References, Held,
                InTasks
  <2>2. CASE ReleaseStore
    BY <1>1, <2>2, ReleaseReferences
       DEF ReleaseStore, pool, Positions, Position
  <2>3. ASSUME NEW kind \in {"function", "thunk"}, IssueEffect(kind)
        PROVE  References'
    <3>1. Held
      BY <1>1, <2>3 DEF IssueEffect, Positions, Position, Held
    <3>2. QED
      BY <2>3, <3>1 DEF IssueEffect, References
  <2>4. QED
    BY <1>5, <2>1, <2>2, <2>3 DEF Reduce
<1>6. ASSUME NEW w \in Workers, Work(w) PROVE References'
  <2>1. CASE TakeTask(w)
    <3>1. Head(tasks) = tasks[1] /\ 1 \in DOMAIN tasks
      BY <2>1 DEF TakeTask, TypeOK
    <3>2. CASE Head(tasks) = "function"
      BY <2>1, <3>1, <3>2 DEF TakeTask, References, Held, InTasks
    <3>3. CASE Head(tasks) # "function"
      <4>1. InTasks' => InTasks
        BY <2>1 DEF TakeTask, InTasks, TypeOK
      <4>2. QED
        BY <2>1, <3>3, <4>1 DEF TakeTask, References, Held
    <3>4. QED
      BY <3>2, <3>3
  <2>2. CASE FunctionDispatches(w) \/ FunctionEnds(w)
    <3>1. Held
      BY <2>2, ThreadKinds
         DEF FunctionDispatches, FunctionEnds, Positions, Position, Held
    <3>2. QED
      BY <1>1, <2>2, <3>1, ThreadKinds
         DEF FunctionDispatches, FunctionEnds, LocalTypes, References
  <2>3. CASE Upgrade(w)
    <3>1. CASE Held
      BY <1>1, <2>3, <3>1, ThreadKinds DEF Upgrade, LocalTypes, References
    <3>2. CASE ~Held
      BY <2>3, <3>2 DEF Upgrade, pool, References, Held, InTasks
    <3>3. QED
      BY <3>1, <3>2
  <2>4. CASE ReleaseTask(w)
    BY <1>1, <2>4, ThreadKinds, ReleaseReferences
       DEF ReleaseTask, pool, Positions, Position
  <2>5. QED
    BY <1>6, <2>1, <2>2, <2>3, <2>4 DEF Work
<1>7. QED
  BY <1>2, <1>3, <1>4, <1>5, <1>6 DEF Next

-----------------------------------------------------------------------------
(* Ends *)

\* The steps that neither send Exit nor receive it, and end nothing.
LEMMA QuietEnds ==
  ASSUME Ends, UNCHANGED <<queue, txOpen, closed, panicked, failed>>,
         \A t \in Threads : SendsExit(t)' => SendsExit(t),
         Working => Working',
         pc[Reducer] = "ended" => pc'[Reducer] = "ended"
  PROVE  Ends'
BY DEF Ends, ExitSent

\* When t is done with the channel, it is not on its way to send Exit.
LEMMA AfterTxEnds ==
  ASSUME LocalTypes, NEW t \in Threads, pc[t] \in InStore, AfterTx(t)
  PROVE  /\ ~SendsExit(t)'
         /\ \A u \in Threads \ {t} : SendsExit(u)' = SendsExit(u)
         /\ ~Working' <=> ~Working
         /\ pc[Reducer] = "ended" => pc'[Reducer] = "ended"
<1>1. OthersStay(t) /\ pc'[t] \in {"pool", "idle", "gone", "release", "rx"}
  BY AfterTxProperties, HomeProperties
<1>2. QED
  BY <1>1, ThreadKinds DEF SendsExit, OthersStay, Working, InStore

LEMMA ReturnEnds ==
  ASSUME LocalTypes, NEW t \in Threads, pc[t] \in InStore, Return(t)
  PROVE  /\ \A u \in Threads : SendsExit(u)' => SendsExit(u)
         /\ Working => Working'
         /\ pc[Reducer] = "ended" => pc'[Reducer] = "ended"
<1>1. OthersStay(t) /\ pc'[t] \in {"idle", "gone", "release", "rx"}
  BY ReturnProperties, HomeProperties
<1>2. QED
  BY <1>1, ThreadKinds DEF SendsExit, OthersStay, Working, InStore

LEMMA ReleaseEnds ==
  ASSUME LocalTypes, NEW t \in Threads, pc[t] \in {"idle", "release"},
         NEW next_pc \in {"gone", "rx", "idle"}, Release(t, next_pc)
  PROVE  /\ \A u \in Threads : SendsExit(u)' => SendsExit(u)
         /\ Working => Working'
         /\ pc[Reducer] = "ended" => pc'[Reducer] = "ended"
<1>1. OthersStay(t) /\ pc'[t] \in {"tx", "gone", "rx", "idle"}
  BY ReleaseProperties
<1>2. QED
  BY <1>1, ThreadKinds DEF SendsExit, OthersStay, Working

LEMMA InCallEnds ==
  ASSUME TypeOK, Ends, NEW t \in Threads, InCall(t)
  PROVE  Ends'
<1>1. LocalTypes /\ Reducer \in Threads
  BY LocalTypesHold, ThreadKinds
<1>2. CASE TakeTx(t)
  <2>1. \A u \in Threads \ {t} : SendsExit(u)' = SendsExit(u)
    BY <1>1, <1>2 DEF TakeTx, Goto, SendsExit, LocalTypes
  <2>2. op[t] = "dispatch" => txOpen' = txOpen /\ ~SendsExit(t)'
    BY <1>2 DEF TakeTx, SendsExit
  <2>3. op[t] # "dispatch" => ~txOpen'
    BY <1>2 DEF TakeTx
  <2>4. /\ Working' = Working
        /\ UNCHANGED <<queue, closed, panicked, failed>>
        /\ pc[Reducer] = "ended" => pc'[Reducer] = "ended"
    BY <1>1, <1>2 DEF TakeTx, Goto, Working, LocalTypes
  <2>5. txOpen /\ \A u \in Threads : ~SendsExit(u)
    BY <1>2 DEF TakeTx, Ends
  <2>6. (\A i \in DOMAIN queue : queue[i] # "Exit") /\ (~Working => panicked)
    BY <2>5 DEF Ends, ExitSent
  <2>7. QED
    BY <2>1, <2>2, <2>3, <2>4, <2>5, <2>6 DEF Ends, ExitSent
<1>3. CASE FindTaken(t)
  BY <1>1, <1>3, AfterTxEnds, QuietEnds DEF FindTaken, channel, InStore
<1>4. CASE TestClosed(t) \/ Wait(t)
  <2>1. /\ \A u \in Threads : SendsExit(u)' => SendsExit(u)
        /\ Working => Working'
        /\ pc[Reducer] = "ended" => pc'[Reducer] = "ended"
    BY <1>1, <1>4 DEF TestClosed, Wait, Goto, SendsExit, Working, LocalTypes
  <2>2. QED
    BY <1>4, <2>1, QuietEnds DEF TestClosed, Wait, channel
<1>5. CASE SendFails(t)
  <2>1. op[t] # "dispatch" => panicked
    BY <1>1, <1>5 DEF SendFails, Ends, ExitSent, SendsExit, Working
  <2>2. UNCHANGED <<queue, txOpen, closed, panicked>> /\ closed
    BY <1>5 DEF SendFails
  <2>3. failed' => panicked
    BY <1>5, <2>1 DEF SendFails, Ends
  <2>4. QED
    BY <1>1, <1>5, <2>2, <2>3, AfterTxEnds
       DEF SendFails, InStore, Ends, ExitSent
<1>6. CASE Push(t)
  <2>1. /\ ~SendsExit(t)'
        /\ \A u \in Threads \ {t} : SendsExit(u)' = SendsExit(u)
        /\ ~Working' <=> ~Working
        /\ pc[Reducer] = "ended" => pc'[Reducer] = "ended"
    BY <1>1, <1>6, AfterTxEnds DEF Push, InStore
  <2>2. UNCHANGED <<txOpen, closed, panicked, failed>>
    BY <1>6 DEF Push
  <2>3. ExitSent => ExitSent'
    BY <2>1, <2>2 DEF ExitSent
  <2>4. op[t] # "dispatch" => ExitSent'
    BY <1>6, <2>1, <2>2 DEF Push, SendsExit, Ends, ExitSent
  <2>5. ASSUME NEW i \in DOMAIN queue', queue'[i] = "Exit"
        PROVE  ExitSent'
    <3>1. CASE op[t] # "dispatch"
      BY <2>4, <3>1
    <3>2. CASE op[t] = "dispatch"
      <4>1. queue' = Append(queue, "Action") /\ queue \in Seq({"Action", "Exit"})
        BY <1>6, <3>2 DEF Push, TypeOK
      <4>2. i \in DOMAIN queue /\ queue[i] = "Exit"
        BY <2>5, <4>1
      <4>3. QED
        BY <2>3, <4>2 DEF Ends
    <3>3. QED
      BY <3>1, <3>2
  <2>6. QED
    BY <2>1, <2>2, <2>3, <2>5 DEF Ends, ExitSent
<1>7. CASE TakePool(t)
  <2>1. CASE poolOpen
    <3>1. /\ \A u \in Threads : SendsExit(u)' => SendsExit(u)
          /\ Working => Working'
          /\ pc[Reducer] = "ended" => pc'[Reducer] = "ended"
      BY <1>1, <1>7, <2>1 DEF TakePool, Goto, SendsExit, Working, LocalTypes
    <3>2. QED
      BY <1>7, <3>1, QuietEnds DEF TakePool, channel
  <2>2. CASE ~poolOpen
    BY <1>1, <1>7, <2>2, ReturnEnds, QuietEnds DEF TakePool, channel, InStore
  <2>3. QED
    BY <2>1, <2>2
<1>8. CASE Join(t) \/ JoinTimesOut(t)
  BY <1>1, <1>8, ReturnEnds, QuietEnds
     DEF Join, JoinTimesOut, channel, InStore
<1>9. QED
  BY <1>2, <1>3, <1>4, <1>5, <1>6, <1>7, <1>8 DEF InCall

LEMMA ClientEnds ==
  ASSUME TypeOK, Ends, NEW c \in Clients
  PROVE  /\ \A kind \in {"dispatch", "close", "stop"} : Call(c, kind) => Ends'
         /\ DropHandle(c) => Ends'
<1>1. LocalTypes /\ c \in Threads /\ c # Reducer /\ Reducer \in Threads
  BY LocalTypesHold, ThreadKinds
<1>2. ASSUME NEW kind \in {"dispatch", "close", "stop"}, Call(c, kind)
      PROVE  Ends'
  <2>1. /\ \A u \in Threads : SendsExit(u)' => SendsExit(u)
        /\ pc'[Reducer] = pc[Reducer]
    BY <1>1, <1>2 DEF Call, Goto, SendsExit, LocalTypes
  <2>2. QED
    BY <1>2, <2>1, QuietEnds DEF Call, channel, Working
<1>3. ASSUME DropHandle(c) PROVE Ends'
  BY <1>1, <1>3, ReleaseEnds, QuietEnds DEF DropHandle, channel
<1>4. QED
  BY <1>2, <1>3

LEMMA RecvEnds == ASSUME TypeOK, Ends, Recv PROVE Ends'
<1>1. \A u \in Threads : SendsExit(u)' = SendsExit(u)
  BY DEF Recv, Goto, SendsExit, TypeOK
<1>2. UNCHANGED <<txOpen, closed, panicked, failed>> /\ ExitSent' = ExitSent
  BY <1>1 DEF Recv, ExitSent
<1>3. ~Working' => ExitSent'
  <2>1. Head(queue) = queue[1] /\ 1 \in DOMAIN queue
    BY DEF Recv, TypeOK
  <2>2. Head(queue) # "Exit" => Working'
    BY ThreadKinds DEF Recv, Goto, Working, TypeOK
  <2>3. QED
    BY <1>2, <2>1, <2>2 DEF Ends
<1>4. \A i \in DOMAIN queue' : queue'[i] = "Exit" => ExitSent'
  <2>1. \A i \in DOMAIN queue' : i + 1 \in DOMAIN queue
                                 /\ queue'[i] = queue[i + 1]
    BY DEF Recv, TypeOK
  <2>2. QED
    BY <1>2, <2>1 DEF Ends
<1>5. ~closed
  BY DEF Recv, Ends
<1>6. QED
  BY <1>1, <1>2, <1>3, <1>4, <1>5 DEF Ends

LEMMA ReduceEnds == ASSUME TypeOK, Ends, Reduce PROVE Ends'
<1>1. LocalTypes /\ Reducer \in Threads
  BY LocalTypesHold, ThreadKinds
<1>2. CASE Recv
  BY <1>2, RecvEnds
<1>3. CASE Reduced
  <2>1. (\A u \in Threads : SendsExit(u)' => SendsExit(u)) /\ Working'
    BY <1>1, <1>3 DEF Reduced, Goto, SendsExit, Working, LocalTypes
  <2>2. QED
    BY <1>3, <2>1, QuietEnds DEF Reduced, channel
<1>4. CASE Panic
  <2>1. \A u \in Threads : SendsExit(u)' = SendsExit(u)
    BY <1>1, <1>4 DEF Panic, Goto, SendsExit, LocalTypes
  <2>2. ~closed /\ panicked' /\ UNCHANGED <<queue, txOpen, closed, failed>>
    BY <1>4 DEF Panic, channel, Ends
  <2>3. QED
    BY <2>1, <2>2 DEF Ends, ExitSent
<1>5. CASE ReleaseStore
  BY <1>1, <1>5, ReleaseEnds, QuietEnds DEF ReleaseStore, channel
<1>6. CASE DropReceiver
  <2>1. pc' = [t \in Threads |-> CASE t = Reducer     -> "ended"
                                   [] pc[t] = "wait"  -> "test"
                                   [] OTHER           -> pc[t]]
        /\ pc[Reducer] = "rx" /\ op' = op
    BY <1>6 DEF DropReceiver
  <2>2. /\ \A u \in Threads : SendsExit(u)' <=> SendsExit(u)
        /\ ~Working /\ pc'[Reducer] = "ended"
    BY <1>1, <2>1 DEF SendsExit, Working
  <2>3. UNCHANGED <<queue, txOpen, panicked, failed>> /\ closed'
    BY <1>6 DEF DropReceiver
  <2>4. QED
    BY <2>2, <2>3 DEF Ends, ExitSent
<1>7. ASSUME NEW kind \in {"function", "thunk"}, IssueEffect(kind)
      PROVE  Ends'
  BY <1>7, QuietEnds DEF IssueEffect, channel, SendsExit, Working
<1>8. QED
  BY <1>2, <1>3, <1>4, <1>5, <1>6, <1>7 DEF Reduce

LEMMA WorkEnds ==
  ASSUME TypeOK, Ends, NEW w \in Workers, Work(w)
  PROVE  Ends'
<1>1. LocalTypes /\ w \in Threads /\ w # Reducer /\ Reducer \in Threads
  BY LocalTypesHold, ThreadKinds
<1>2. CASE ReleaseTask(w)
  BY <1>1, <1>2, ReleaseEnds, QuietEnds DEF ReleaseTask, channel
<1>3. CASE ~ReleaseTask(w)
  <2>1. /\ \A u \in Threads : SendsExit(u)' => SendsExit(u)
        /\ pc'[Reducer] = pc[Reducer]
    BY <1>1, <1>3 DEF Work, TakeTask, FunctionDispatches, FunctionEnds,
                      Upgrade, Goto, SendsExit, LocalTypes
  <2>2. UNCHANGED <<queue, txOpen, closed, panicked, failed>>
    BY <1>3 DEF Work, TakeTask, FunctionDispatches, FunctionEnds, Upgrade,
                channel
  <2>3. QED
    BY <2>1, <2>2, QuietEnds DEF Working
<1>4. QED
  BY <1>2, <1>3

LEMMA EndsStep == ASSUME TypeOK, Ends, [Next]_vars PROVE Ends'
<1>1. CASE UNCHANGED vars
  BY <1>1, QuietEnds DEF vars, channel, SendsExit, Working
<1>2. CASE Next
  BY <1>2, InCallEnds, ClientEnds, ReduceEnds, WorkEnds DEF Next
<1>3. QED
  BY <1>1, <1>2

-----------------------------------------------------------------------------
(* The theorems *)

LEMMA InitIInv == ASSUME Init PROVE IInv
<1>1. Positions /\ References
  BY LifetimeAssumption
     DEF Init, Positions, Position, InStore, References, Threads
<1>2. Ends
  <2>1. \A t \in Threads : ~SendsExit(t)
    BY DEF Init, SendsExit
  <2>2. Working
    BY ThreadKinds DEF Init, Working
  <2>3. queue = <<>> /\ ~closed /\ ~failed
    BY DEF Init
  <2>4. QED
    BY <2>1, <2>2, <2>3 DEF Ends
<1>3. QED
  BY <1>1, <1>2, InitTypeOK DEF IInv

\* The invariant behind the theorems that follow: what a thread must have where
\* it is, that a store without references stays so, and how Exit is sent.
THEOREM Invariance == Spec => []IInv
<1>1. Init => IInv
  BY InitIInv
<1>2. IInv /\ [Next]_vars => IInv'
  BY TypeStep, PositionsStep, ReferencesStep, EndsStep DEF IInv
<1>3. QED
  BY <1>1, <1>2, PTL DEF Spec

\* When the store is being dropped, no thread is where it would need it.
LEMMA LastReference ==
  ASSUME IInv, alive # "alive"
  PROVE  /\ pc[Reducer] \notin {"recv", "reduce", "release"}
         /\ \A t \in Threads : op[t] # "none" => op[t] = "drop"
<1>1. holding = {}
  BY DEF IInv, References, Held
<1>2. QED
  BY <1>1, ThreadKinds DEF IInv, Positions, Position, TypeOK

\* Whoever runs Drop, and however the store came to be let go of, the reducer
\* thread has left its loop and nobody else uses the store, or can again.
THEOREM DropIsLast == Spec => []DropComesLast
<1>1. IInv => DropComesLast
  BY LastReference DEF DropComesLast, IInv, References
<1>2. QED
  BY <1>1, Invariance, PTL

\* The close() of Drop has nothing to send and cannot block, unless the reducer
\* thread has panicked.
THEOREM DropHasNothingToSend == Spec => []DropFindsTaken
<1>1. IInv => DropFindsTaken
  <2>1. SUFFICES ASSUME IInv, NEW t \in Threads, op[t] = "drop",
                        pc[t] \in {"test", "send", "wait"}
                 PROVE  panicked
    BY DEF DropFindsTaken
  <2>2. ~Working
    BY <2>1, LastReference DEF IInv, References, Working
  <2>3. QED
    BY <2>1, <2>2 DEF IInv, Ends, ExitSent, SendsExit
<1>2. QED
  BY <1>1, Invariance, PTL

\* close() answers "try it later" after a panic only.
THEOREM CloseFailsAfterPanic == Spec => []FailsAfterPanic
<1>1. IInv => FailsAfterPanic
  BY DEF IInv, Ends, FailsAfterPanic
<1>2. QED
  BY <1>1, Invariance, PTL

=============================================================================
