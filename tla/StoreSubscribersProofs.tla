----------------------- MODULE StoreSubscribersProofs -----------------------
(***************************************************************************)
(* Theorems about StoreSubscribers, for any number of clients, subscribers *)
(* and calls and every capacity of the channels: a subscriber's channel    *)
(* has one sender inside at most, and once the reducer thread has ended so *)
(* has the thread of every channeled subscriber that was on the list.      *)
(*                                                                         *)
(* The inductive invariant, SInv, says where each thread may be and whom   *)
(* it deals with there (Places), whose the list is while it is being told  *)
(* off (Owners), that the reducer notifies with a version and has a        *)
(* subscriber's tx locked for it, which is not taken then (Notifying),     *)
(* that an iterator comes to unsubscribe when it has dropped its receiver  *)
(* or the reducer thread ends, and so never sends to itself (Iterating),   *)
(* and that nobody leaves the list whose thread has not ended (Listing).   *)
(***************************************************************************)
EXTENDS StoreSubscribers, SequenceLemmas

\* Inside the send into a subscriber's channel, and inside on_unsubscribe.
Sending == {"send", "wait"}
Off == {"off", "send", "wait", "giveUp", "join", "told"}

\* In a call for a subscriber.
Dealing == {"push", "undo", "lockAdding", "lockSubs"} \cup Off

\* The reducer is at the head of rest.
Telling == {"notify"} \cup Off

\* The reducer tells everybody that it is over, or has done so.
Clearing == subsLock = Reducer \/ pc[Reducer] = "done"

\* Where threads may be, and whom they deal with there.
Places ==
  /\ \A t \in Clients \cup Channeled :
       /\ pc[t] \notin {"next", "close", "failed", "notifyAll"}
       /\ pc[t] \in Dealing \/ op[t] = "AddSubscriber"
            => target[t] \in Channeled
  /\ \A x \in Iterators : pc[x] \notin {"callback", "send", "wait", "giveUp",
                                        "join"}
  /\ pc[Reducer] \in Telling \cup
       {"recv", "snapshot", "lockAdding", "lockSubs", "clear", "done"}
  /\ pc[Reducer] \in Telling => rest # <<>>
  /\ \A t \in Threads : pc[t] \in {"push", "lockTx", "sendOp"} => op[t] # "none"

\* Who tells a subscriber that it is over has subscribers locked.
Owners ==
  /\ \A t \in Threads \ {Reducer} : pc[t] \in Off => subsLock = t
  /\ pc[Reducer] \in {"off", "join", "told"} => subsLock = Reducer
  /\ subsLock = Reducer => pc[Reducer] \in Off

\* What the reducer notifies with is a version, and the tx of the subscriber it
\* sends to is there; who sends Exit has taken it.
Notifying ==
  /\ \/ pc[Reducer] \in {"snapshot", "notify"}
     \/ pc[Reducer] \in {"send", "wait", "giveUp"} /\ subsLock # Reducer
     => version # Exit
  /\ \A x \in Channeled :
       /\ feedLock[x] = Reducer <=>
            /\ pc[Reducer] \in Sending /\ subsLock # Reducer
            /\ Head(rest) = x
       /\ feedLock[x] = Reducer => x \notin ending
  /\ \A t \in Threads :
       pc[t] \in Sending /\ subsLock = t /\ Target(t) \in Channeled
         => Target(t) \in ending

\* An iterator unsubscribes when it has dropped its receiver, or the reducer
\* thread clears the list.
Iterating ==
  \A x \in Iterators :
    /\ pc[x] \in {"off", "notifyAll"} => x \in closed
    /\ Exit \in ToSet(feed[x]) => Clearing
    /\ pc[x] \in {"lockAdding", "lockSubs"} => x \in closed \/ Clearing

\* A channeled subscriber that was on the list still is, or its thread has ended;
\* who has been told is an iterator or has ended; and while the reducer thread
\* clears the list it has still to tell those that have not.
Listing ==
  /\ \A x \in Channeled :
       base[x] # Unlisted => x \in ToSet(subscribers) \/ pc[x] = "ended"
  /\ \A t \in Threads : pc[t] = "told" =>
       \/ Target(t) \in Iterators \/ pc[Target(t)] = "ended"
       \/ t # Reducer /\ Target(t) \notin ToSet(subscribers)
  /\ subsLock = Reducer =>
       \A x \in Channeled \cap ToSet(subscribers) :
         x \in ToSet(rest) \/ pc[x] = "ended"
  /\ pc[Reducer] = "done" => subscribers = <<>>

SInv == TypeOK /\ Places /\ Owners /\ Notifying /\ Iterating /\ Listing

-----------------------------------------------------------------------------
(* Threads and the subscribers they deal with *)

\* The kinds of threads.
LEMMA Kinds ==
  /\ Reducer \in Threads /\ Reducer \notin Clients \cup Subs
  /\ Channeled \cap Iterators = {} /\ Clients \cap Subs = {}
  /\ NoOne \notin Threads
  /\ Subs = Channeled \cup Iterators
  /\ Threads = Clients \cup Subs \cup {Reducer}
BY SubscribersAssumption DEF Subs, Threads

\* Whom a thread deals with: the reducer with the head of rest, an iterator with
\* itself, and clients and callbacks with a channeled subscriber.
LEMMA TargetType ==
  ASSUME TypeOK, Places, NEW t \in Threads,
         \/ t = Reducer /\ pc[t] \in Telling
         \/ t # Reducer /\ (pc[t] \in Dealing \/ op[t] = "AddSubscriber")
  PROVE  /\ Target(t) \in Subs
         /\ t = Reducer => Target(t) = Head(rest)
         /\ t \in Iterators => Target(t) = t
         /\ t \in Clients \cup Channeled =>
              Target(t) = target[t] /\ Target(t) \in Channeled
<1>1. CASE t = Reducer
  <2>1. rest \in Seq(Subs) /\ rest # <<>>
    BY <1>1, Kinds DEF Places, TypeOK
  <2>2. Head(rest) \in Subs
    BY <2>1, HeadTailProperties
  <2> QED
    BY <1>1, <2>2, Kinds DEF Target
<1>2. CASE t \in Iterators
  BY <1>2, Kinds DEF Target
<1>3. CASE t \in Clients \cup Channeled
  BY <1>3, Kinds DEF Target, Places
<1> QED
  BY <1>1, <1>2, <1>3, Kinds

\* Where a call returns to.
LEMMA HomeType ==
  ASSUME NEW t \in Clients \cup Subs
  PROVE  /\ t \in Clients => Home(t) = "idle"
         /\ t \in Channeled => Home(t) = "callback"
         /\ t \in Iterators => Home(t) = "next"
BY Kinds DEF Home

\* Whoever removes a subscriber leaves the others on the list.
LEMMA WithoutProperties ==
  ASSUME NEW S, NEW q \in Seq(S), NEW x
  PROVE  /\ Without(q, x) \in Seq(S)
         /\ ToSet(q) \ {x} \subseteq ToSet(Without(q, x))
         /\ ToSet(Without(q, x)) \subseteq ToSet(q)
<1>1. CASE x \notin ToSet(q)
  BY <1>1 DEF Without
<1>2. CASE x \in ToSet(q)
  <2> DEFINE n == CHOOSE i \in DOMAIN q : q[i] = x
             r == RemoveAt(q, n)
  <2>1. n \in 1 .. Len(q) /\ q[n] = x /\ Len(q) \in Nat
    BY <1>2, LenProperties DEF ToSet
  <2>2. Without(q, x) = r
    BY <1>2 DEF Without
  <2> HIDE DEF n
  <2>3. /\ r \in Seq(S) /\ Len(r) = Len(q) - 1
        /\ \A j \in 1 .. Len(q) - 1 : r[j] = IF j < n THEN q[j] ELSE q[j + 1]
    BY <2>1, RemoveAtProperties
  <2> HIDE DEF r
  <2>4. /\ ToSet(q) = {q[j] : j \in 1 .. Len(q)}
        /\ ToSet(r) = {r[j] : j \in 1 .. Len(r)}
    BY <2>3, ToSetProperties
  <2>5. ASSUME NEW i \in 1 .. Len(q), q[i] # x
        PROVE  q[i] \in ToSet(r)
    <3>1. CASE i < n
      BY <2>1, <2>3, <2>4, <3>1
    <3>2. CASE n < i
      <4>1. i - 1 \in 1 .. Len(r) /\ r[i - 1] = q[i]
        BY <2>1, <2>3, <3>2
      <4> QED
        BY <2>4, <4>1
    <3> QED
      BY <2>1, <2>5, <3>1, <3>2
  <2>6. ASSUME NEW j \in 1 .. Len(r)
        PROVE  r[j] \in ToSet(q)
    <3>1. CASE j < n
      BY <2>1, <2>3, <2>4, <3>1
    <3>2. CASE n <= j
      <4>1. j + 1 \in 1 .. Len(q) /\ r[j] = q[j + 1]
        BY <2>1, <2>3, <3>2
      <4> QED
        BY <2>4, <4>1
    <3> QED
      BY <2>1, <2>3, <3>1, <3>2
  <2> QED
    BY <2>2, <2>3, <2>4, <2>5, <2>6
<1> QED
  BY <1>1, <1>2

\* A thread that may call and is not inside a call.
LEMMA Callers ==
  ASSUME Places, NEW t \in Clients \cup Channeled, pc[t] = Home(t)
  PROVE  t \in Threads /\ t # Reducer /\ t \notin Iterators
         /\ pc[t] \in {"idle", "callback"}
BY Kinds, HomeType

\* What is sent into a subscriber's channel.
LEMMA MsgType ==
  ASSUME TypeOK, Owners, Notifying,
         NEW t \in Threads, pc[t] \in Sending \cup {"giveUp"}
  PROVE  /\ Msg(t) \in Nat
         /\ Msg(t) = Exit <=> subsLock = t
         /\ Msg(t) # Exit => t = Reducer
BY Kinds DEF TypeOK, Owners, Notifying, Msg, Exit, Sending, Off

-----------------------------------------------------------------------------
(* Types *)

\* The invariant holds of a store nobody has called.
LEMMA InitSound == Init => SInv
<1> SUFFICES ASSUME Init PROVE SInv
  OBVIOUS
<1> USE Kinds, SubscribersAssumption DEF Init
<1>1. TypeOK
  BY DEF TypeOK, Steps, Unlisted
<1>2. Places
  BY DEF Places, Telling, Off, Dealing
<1>3. Owners
  BY DEF Owners, Off
<1>4. Notifying
  BY DEF Notifying, Sending, Exit
<1>5. Iterating
  <2>1. <<>> \in Seq(Nat) /\ ToSet(<<>>) = {}
    BY ToSetProperties, EmptySeq
  <2> QED
    BY <2>1 DEF Iterating
<1>6. Listing
  BY DEF Listing
<1> QED
  BY <1>1, <1>2, <1>3, <1>4, <1>5, <1>6 DEF SInv

\* A call's end, a notification's and a send's leave every thread at a step.
LEMMA PcParts ==
  ASSUME TypeOK, Places, Owners, Notifying
  PROVE  /\ \A t \in Threads, s \in Steps :
              Goto(t, s) => pc' \in [Threads -> Steps]
         /\ \A t \in Clients \cup Subs : Return(t) =>
              /\ pc' \in [Threads -> Steps]
              /\ op' \in [Threads -> {"none", "Action", "AddSubscriber", "Exit"}]
              /\ target' \in [Clients \cup Channeled -> Channeled \cup {NoOne}]
         /\ \A seq \in Seq(Subs) : NotifyRest(seq) =>
              pc' \in [Threads -> Steps] /\ rest' \in Seq(Subs)
         /\ rest # <<>> => Tail(rest) \in Seq(Subs)
         /\ \A t \in Threads :
              pc[t] \in Sending \cup {"giveUp"} /\ AfterSend(t) =>
                pc' \in [Threads -> Steps] /\ rest' \in Seq(Subs)
<1>1. ASSUME NEW t \in Threads, NEW s \in Steps, Goto(t, s)
      PROVE  pc' \in [Threads -> Steps]
  BY <1>1 DEF Goto, TypeOK
<1>2. ASSUME NEW t \in Clients \cup Subs, Return(t)
      PROVE  /\ pc' \in [Threads -> Steps]
             /\ op' \in [Threads -> {"none", "Action", "AddSubscriber", "Exit"}]
             /\ target' \in [Clients \cup Channeled -> Channeled \cup {NoOne}]
  <2>1. Home(t) \in Steps /\ t \in Threads
    BY HomeType, Kinds DEF Steps
  <2>2. pc' \in [Threads -> Steps]
    BY <1>1, <1>2, <2>1 DEF Return
  <2> QED
    BY <1>2, <2>1, <2>2 DEF TypeOK, Return
<1>3. ASSUME NEW seq \in Seq(Subs), NotifyRest(seq)
      PROVE  pc' \in [Threads -> Steps] /\ rest' \in Seq(Subs)
  <2>1. {"recv", "notify"} \subseteq Steps
    BY DEF Steps
  <2> QED
    BY <1>1, <1>3, <2>1, Kinds DEF NotifyRest
<1>4. rest # <<>> => Tail(rest) \in Seq(Subs)
  BY HeadTailProperties DEF TypeOK
<1>5. ASSUME NEW t \in Threads, pc[t] \in Sending \cup {"giveUp"}, AfterSend(t)
      PROVE  pc' \in [Threads -> Steps] /\ rest' \in Seq(Subs)
  <2>1. CASE Msg(t) # Exit
    <3>1. t = Reducer /\ rest # <<>>
      BY <1>5, <2>1, MsgType DEF Places, Telling, Off, Sending
    <3> QED
      BY <1>3, <1>4, <1>5, <2>1, <3>1 DEF AfterSend
  <2>2. CASE Msg(t) = Exit
    <3>1. {"join", "told"} \subseteq Steps
      BY DEF Steps
    <3> QED
      BY <1>1, <1>5, <2>2, <3>1 DEF AfterSend, TypeOK
  <2> QED
    BY <2>1, <2>2
<1> QED
  BY <1>1, <1>2, <1>3, <1>4, <1>5

\* Every step keeps the types.
LEMMA TypesKept ==
  ASSUME TypeOK, Places, Owners, Notifying, [Next]_vars
  PROVE  TypeOK'
<1> USE DEF dispatchTx, lists, feeds, locals, history
<1>s. {"idle", "unborn", "recv", "push", "lockTx", "sendOp", "undo",
       "lockAdding", "lockSubs", "off", "send", "wait", "giveUp", "join",
       "told", "callback", "next", "close", "failed", "notifyAll",
       "snapshot", "notify", "clear", "done", "ended"} \subseteq Steps
  BY DEF Steps
<1>t. \A t \in Threads :
        \/ t = Reducer /\ pc[t] \in Telling
        \/ t # Reducer /\ (pc[t] \in Dealing \/ op[t] = "AddSubscriber")
        => Target(t) \in Subs
  BY TargetType
<1>c. \A t \in Threads :
        pc[t] \in {"push", "lockTx", "sendOp", "undo"}
          => t \in Clients \cup Subs
  BY Kinds DEF Places, Telling, Off
<1>1. ASSUME NEW t \in Clients \cup Channeled, Calling(t)
      PROVE  TypeOK'
  <2> USE Kinds
  <2>a. ASSUME calls' = [calls EXCEPT ![t] = @ + 1]
        PROVE  calls' \in [Clients \cup Channeled -> Nat]
    BY <2>a DEF TypeOK
  <2>b. ASSUME NEW o \in {"Action", "AddSubscriber", "Exit"},
               op' = [op EXCEPT ![t] = o]
        PROVE  op' \in [Threads -> {"none", "Action", "AddSubscriber", "Exit"}]
    BY <2>b DEF TypeOK
  <2>c. ASSUME NEW x \in Channeled, target' = [target EXCEPT ![t] = x]
        PROVE  target' \in [Clients \cup Channeled -> Channeled \cup {NoOne}]
    BY <2>c DEF TypeOK
  <2>d. /\ op \in [Threads -> {"none", "Action", "AddSubscriber", "Exit"}]
        /\ target \in [Clients \cup Channeled -> Channeled \cup {NoOne}]
    BY DEF TypeOK
  <2>e. ASSUME UNCHANGED <<version, dispatchTx, lists, feeds, held, rest,
                           history>>,
               pc' \in [Threads -> Steps],
               calls' \in [Clients \cup Channeled -> Nat],
               op' \in [Threads -> {"none", "Action", "AddSubscriber", "Exit"}],
               target' \in [Clients \cup Channeled -> Channeled \cup {NoOne}]
        PROVE  TypeOK'
    BY <2>e DEF TypeOK
  <2>1. CASE CallDispatch(t)
    <3>1. pc' \in [Threads -> Steps]
      BY <1>s, <2>1, PcParts DEF CallDispatch, Begin
    <3> QED
      BY <2>1, <2>a, <2>b, <2>d, <2>e, <3>1 DEF CallDispatch, Begin
  <2>2. CASE CallClose(t)
    <3>1. pc' \in [Threads -> Steps]
      BY <1>s, <2>2, PcParts DEF CallClose, Begin
    <3> QED
      BY <2>2, <2>a, <2>b, <2>d, <2>e, <3>1 DEF CallClose, Begin
  <2>3. ASSUME NEW x \in Channeled, CallUnsubscribe(t, x)
        PROVE  TypeOK'
    <3>1. pc' \in [Threads -> Steps]
      BY <1>s, <2>3, PcParts DEF CallUnsubscribe, Begin
    <3> QED
      BY <2>3, <2>a, <2>c, <2>d, <2>e, <3>1 DEF CallUnsubscribe, Begin
  <2>4. ASSUME NEW x \in Channeled, CallSubscribed(t, x)
        PROVE  TypeOK'
    <3>1. pc' \in [Threads -> Steps]
      BY <1>s, <2>4 DEF TypeOK, CallSubscribed
    <3> QED
      BY <2>4, <2>a, <2>b, <2>c, <2>e, <3>1 DEF CallSubscribed
  <2> QED
    BY <1>1, <2>1, <2>2, <2>3, <2>4 DEF Calling
<1>2. ASSUME NEW x \in Iterators, CallIter(x)
      PROVE  TypeOK'
  <2>1. pc' \in [Threads -> Steps] /\ x \in Threads
    BY <1>s, <1>2, Kinds, PcParts DEF CallIter
  <2> QED
    BY <1>2, <2>1 DEF TypeOK, CallIter
<1>3. ASSUME NEW t \in Threads, PushAdding(t)
      PROVE  TypeOK'
  <2>1. t # Reducer /\ Target(t) \in Subs
    BY <1>3, <1>c, <1>t, Kinds DEF PushAdding, Dealing
  <2>2. adding' \in Seq(Subs)
    BY <1>3, <2>1, AppendProperties DEF PushAdding, TypeOK
  <2>3. pc' \in [Threads -> Steps]
    BY <1>s, <1>3, PcParts DEF PushAdding
  <2> QED
    BY <1>3, <2>2, <2>3 DEF TypeOK, PushAdding
<1>4. ASSUME NEW t \in Threads, LockTx(t)
      PROVE  TypeOK'
  <2>1. pc' \in [Threads -> Steps]
    BY <1>s, <1>4, PcParts DEF LockTx
  <2> QED
    BY <1>4, <2>1 DEF TypeOK, LockTx
<1>5. ASSUME NEW t \in Threads, FindClosed(t)
      PROVE  TypeOK'
  <2>1. t \in Clients \cup Subs
    BY <1>5, <1>c DEF FindClosed
  <2>2. /\ pc' \in [Threads -> Steps]
        /\ op' \in [Threads -> {"none", "Action", "AddSubscriber", "Exit"}]
        /\ target' \in [Clients \cup Channeled -> Channeled \cup {NoOne}]
    BY <1>s, <1>5, <2>1, PcParts DEF FindClosed, TypeOK
  <2> QED
    BY <1>5, <2>2 DEF TypeOK, FindClosed
<1>6. ASSUME NEW t \in Threads, UndoAdding(t)
      PROVE  TypeOK'
  <2>1. t \in Clients \cup Subs
    BY <1>6, <1>c DEF UndoAdding
  <2>2. /\ pc' \in [Threads -> Steps]
        /\ op' \in [Threads -> {"none", "Action", "AddSubscriber", "Exit"}]
        /\ target' \in [Clients \cup Channeled -> Channeled \cup {NoOne}]
    BY <1>s, <1>6, <2>1, PcParts DEF UndoAdding, TypeOK
  <2>3. adding' \in Seq(Subs)
    BY <1>6, WithoutProperties DEF UndoAdding, TypeOK
  <2> QED
    BY <1>6, <2>2, <2>3 DEF TypeOK, UndoAdding
<1>7. ASSUME NEW t \in Threads, SendOp(t)
      PROVE  TypeOK'
  <2>1. t \in Clients \cup Subs /\ t # Reducer
    BY <1>7, <1>c, Kinds DEF SendOp
  <2>2. /\ pc' \in [Threads -> Steps]
        /\ op' \in [Threads -> {"none", "Action", "AddSubscriber", "Exit"}]
        /\ target' \in [Clients \cup Channeled -> Channeled \cup {NoOne}]
    BY <1>7, <2>1, PcParts DEF SendOp
  <2>3. op[t] \in {"Action", "AddSubscriber", "Exit"}
    BY <1>7 DEF SendOp, TypeOK, Places
  <2>4. /\ queue' \in Seq({"Action", "AddSubscriber", "Exit"})
        /\ Len(queue') <= Capacity
    BY <1>7, <2>3, AppendProperties, LenProperties, SubscribersAssumption
      DEF SendOp, TypeOK
  <2>5. held' \subseteq Subs
    BY <1>7, <1>t, <2>1 DEF SendOp, TypeOK
  <2> QED
    BY <1>7, <2>2, <2>4, <2>5 DEF TypeOK, SendOp
<1>8. ASSUME NEW t \in Threads, LockAdding(t)
      PROVE  TypeOK'
  <2>1. adding' \in Seq(Subs)
    BY <1>8, WithoutProperties DEF LockAdding, TypeOK
  <2>2. pc' \in [Threads -> Steps]
    BY <1>s, <1>8, PcParts DEF LockAdding
  <2> QED
    BY <1>8, <2>1, <2>2 DEF TypeOK, LockAdding
<1>9. ASSUME NEW t \in Threads, LockSubscribers(t)
      PROVE  TypeOK'
  <2>1. pc' \in [Threads -> Steps]
    BY <1>s, <1>9, PcParts DEF LockSubscribers
  <2> QED
    BY <1>9, <2>1 DEF TypeOK, LockSubscribers
<1>10. ASSUME NEW t \in Threads, Unsubscribed(t)
       PROVE  TypeOK'
  <2>1. t \in Clients \cup Subs
    BY <1>10, Kinds DEF Unsubscribed
  <2>2. /\ pc' \in [Threads -> Steps]
        /\ op' \in [Threads -> {"none", "Action", "AddSubscriber", "Exit"}]
        /\ target' \in [Clients \cup Channeled -> Channeled \cup {NoOne}]
    BY <1>s, <1>10, <2>1, PcParts DEF Unsubscribed, TypeOK
  <2>3. subscribers' \in Seq(Subs)
    BY <1>10, WithoutProperties DEF Unsubscribed, TypeOK
  <2> QED
    BY <1>10, <2>2, <2>3 DEF TypeOK, Unsubscribed
<1>11. ASSUME NEW t \in Threads, OffChanneled(t)
       PROVE  TypeOK'
  <2>1. pc' \in [Threads -> Steps]
    BY <1>s, <1>11, PcParts DEF OffChanneled
  <2>2. ending' \subseteq Subs
    BY <1>11, Kinds DEF OffChanneled, TypeOK
  <2> QED
    BY <1>11, <2>1, <2>2 DEF TypeOK, OffChanneled
<1>12. ASSUME NEW t \in Threads, OffIterator(t) \/ Joined(t)
       PROVE  TypeOK'
  <2>1. pc' \in [Threads -> Steps]
    BY <1>s, <1>12, PcParts DEF OffIterator, Joined
  <2> QED
    BY <1>12, <2>1 DEF TypeOK, OffIterator, Joined
<1>13. ASSUME NEW t \in Threads, FeedPush(t)
       PROVE  TypeOK'
  <2> DEFINE x == Target(t)
  <2>1. /\ pc[t] \in Sending \cup {"giveUp"}
        /\ \/ t = Reducer /\ pc[t] \in Telling
           \/ t # Reducer /\ pc[t] \in Dealing
    BY <1>13 DEF FeedPush, Sending, Dealing, Telling, Off
  <2>2. x \in Subs /\ Msg(t) \in Nat
    BY <1>t, <2>1, MsgType
  <2>3. /\ feed' = [feed EXCEPT ![x] = Append(@, Msg(t))]
        /\ Len(feed[x]) < FeedCapacity
    BY <1>13 DEF FeedPush
  <2>4. /\ Append(feed[x], Msg(t)) \in Seq(Nat)
        /\ Len(Append(feed[x], Msg(t))) <= FeedCapacity
    BY <2>2, <2>3, AppendProperties, LenProperties, SubscribersAssumption
      DEF TypeOK
  <2>5. /\ feed' \in [Subs -> Seq(Nat)]
        /\ \A y \in Subs : Len(feed'[y]) <= FeedCapacity
    BY <2>2, <2>3, <2>4 DEF TypeOK
  <2>6. feedLock' \in [Channeled -> {Reducer, NoOne}] /\ ending' \subseteq Subs
    BY <1>13, <2>2 DEF FeedPush, TypeOK
  <2>7. pc' \in [Threads -> Steps] /\ rest' \in Seq(Subs)
    BY <1>13, <2>1, PcParts DEF FeedPush
  <2> QED
    BY <1>13, <2>5, <2>6, <2>7 DEF TypeOK, FeedPush
<1>14. ASSUME NEW t \in Threads, FeedWait(t)
       PROVE  TypeOK'
  <2>1. pc' \in [Threads -> Steps]
    BY <1>s, <1>14, PcParts DEF FeedWait
  <2> QED
    BY <1>14, <2>1 DEF TypeOK, FeedWait
<1>15. ASSUME NEW t \in Threads, FeedGiveUp(t)
       PROVE  TypeOK'
  <2>1. pc' \in [Threads -> Steps] /\ rest' \in Seq(Subs)
    BY <1>15, PcParts DEF FeedGiveUp
  <2> QED
    BY <1>15, <2>1 DEF TypeOK, FeedGiveUp
<1>16. ASSUME NEW x \in Subs, LoopRecv(x) \/ IterNext(x)
       PROVE  TypeOK'
  <2>1. x \in Threads /\ feed[x] # <<>> /\ feed' = [feed EXCEPT ![x] = Tail(@)]
    BY <1>16, Kinds DEF LoopRecv, IterNext
  <2>2. /\ Head(feed[x]) \in Nat /\ Tail(feed[x]) \in Seq(Nat)
        /\ Len(Tail(feed[x])) <= FeedCapacity
    BY <2>1, HeadTailProperties, LenProperties, SubscribersAssumption DEF TypeOK
  <2>3. Append(views[x], Head(feed[x])) \in Seq(Nat)
    BY <2>2, AppendProperties DEF TypeOK
  <2>4. /\ feed' \in [Subs -> Seq(Nat)]
        /\ \A y \in Subs : Len(feed'[y]) <= FeedCapacity
    BY <2>1, <2>2 DEF TypeOK
  <2>5. views' \in [Subs -> Seq(Nat)]
    BY <1>16, <2>3 DEF TypeOK, LoopRecv, IterNext
  <2>6. pc' \in [Threads -> Steps]
    BY <1>s, <1>16, <2>1, PcParts DEF LoopRecv, IterNext
  <2>7. held' \subseteq Subs
    BY <1>16 DEF TypeOK, LoopRecv, IterNext
  <2>8. UNCHANGED <<version, dispatchTx, lists, feedLock, ending, closed,
                    locals, base>>
    BY <1>16 DEF LoopRecv, IterNext
  <2> QED
    BY <2>4, <2>5, <2>6, <2>7, <2>8 DEF TypeOK
<1>17. ASSUME NEW x \in Subs, CallbackReturns(x) \/ IterCallNext(x)
       PROVE  TypeOK'
  <2>1. pc' \in [Threads -> Steps]
    BY <1>s, <1>17, Kinds, PcParts DEF CallbackReturns, IterCallNext
  <2> QED
    BY <1>17, <2>1 DEF TypeOK, CallbackReturns, IterCallNext
<1>18. ASSUME NEW x \in Subs, IterClose(x)
       PROVE  TypeOK'
  <2>1. pc' \in [Threads -> Steps]
    BY <1>s, <1>18, Kinds, PcParts DEF IterClose
  <2>2. closed' \subseteq Iterators
    BY <1>18, Kinds DEF IterClose, Places, TypeOK
  <2> QED
    BY <1>18, <2>1, <2>2 DEF TypeOK, IterClose
<1>19. ASSUME NEW x \in Subs, IterNotifyAll(x)
       PROVE  TypeOK'
  <2>1. pc' \in [Threads -> Steps]
    BY <1>s, <1>19 DEF IterNotifyAll, TypeOK
  <2>2. held' \subseteq Subs
    BY <1>19 DEF IterNotifyAll, TypeOK
  <2> QED
    BY <1>19, <2>1, <2>2 DEF TypeOK, IterNotifyAll
<1>20. CASE Recv
  <2>1. /\ Head(queue) \in {"Action", "AddSubscriber", "Exit"}
        /\ queue' \in Seq({"Action", "AddSubscriber", "Exit"})
        /\ Len(queue') <= Capacity
    BY <1>20, HeadTailProperties, LenProperties, SubscribersAssumption
      DEF TypeOK, Recv
  <2>2. pc' \in [Threads -> Steps]
    BY <1>s, <1>20, <2>1, Kinds, PcParts DEF Recv
  <2>3. version' \in Nat
    BY <1>20 DEF TypeOK, Recv
  <2> QED
    BY <1>20, <2>1, <2>2, <2>3 DEF TypeOK, Recv
<1>21. CASE Snapshot
  <2>1. pc' \in [Threads -> Steps] /\ rest' \in Seq(Subs)
    BY <1>21, PcParts DEF Snapshot, TypeOK
  <2> QED
    BY <1>21, <2>1 DEF TypeOK, Snapshot
<1>22. CASE NotifyChanneled \/ NotifyIterator
  <2>1. rest # <<>>
    BY <1>22 DEF NotifyChanneled, NotifyIterator, Places, Telling
  <2>2. pc' \in [Threads -> Steps] /\ rest' \in Seq(Subs)
    <3>1. /\ Tail(rest) \in Seq(Subs)
          /\ \A seq \in Seq(Subs) : NotifyRest(seq) =>
               pc' \in [Threads -> Steps] /\ rest' \in Seq(Subs)
          /\ Goto(Reducer, "send") => pc' \in [Threads -> Steps]
      BY <1>s, <2>1, Kinds, PcParts
    <3> QED
      BY <1>22, <3>1 DEF NotifyChanneled, NotifyIterator, TypeOK
  <2>3. feedLock' \in [Channeled -> {Reducer, NoOne}]
    BY <1>22 DEF NotifyChanneled, NotifyIterator, TypeOK
  <2> QED
    BY <1>22, <2>2, <2>3 DEF TypeOK, NotifyChanneled, NotifyIterator
<1>23. CASE LockNewSubscribers
  <2>1. pc' \in [Threads -> Steps]
    BY <1>s, <1>23, Kinds, PcParts DEF LockNewSubscribers
  <2> QED
    BY <1>23, <2>1, Kinds DEF TypeOK, LockNewSubscribers
<1>24. CASE DoSubscribe
  <2>1. pc' \in [Threads -> Steps]
    BY <1>s, <1>24, Kinds, PcParts DEF DoSubscribe
  <2>2. {adding', subscribers'} \subseteq Seq(Subs)
    BY <1>24, ConcatProperties, EmptySeq DEF DoSubscribe, TypeOK
  <2>3. base' \in [Subs -> Nat \cup {Unlisted}]
    BY <1>24 DEF DoSubscribe, TypeOK
  <2> QED
    BY <1>24, <2>1, <2>2, <2>3 DEF TypeOK, DoSubscribe
<1>25. CASE ClearSubscribers \/ ClearTold
  <2>1. PICK seq \in Seq(Subs) : ClearRest(seq)
    BY <1>25, PcParts
      DEF ClearSubscribers, ClearTold, Places, Telling, Off, TypeOK
  <2>2. pc' \in [Threads -> Steps]
    BY <1>s, <2>1, Kinds, PcParts DEF ClearRest
  <2>3. rest' \in Seq(Subs) /\ subscribers' \in Seq(Subs)
    BY <2>1, EmptySeq DEF ClearRest, TypeOK
  <2> QED
    BY <2>1, <2>2, <2>3, Kinds DEF TypeOK, ClearRest
<1>26. CASE UNCHANGED vars
  BY <1>26 DEF TypeOK, vars
<1> QED
  BY <1>1, <1>2, <1>3, <1>4, <1>5, <1>6, <1>7, <1>8, <1>9, <1>10, <1>11, <1>12,
     <1>13, <1>14, <1>15, <1>16, <1>17, <1>18, <1>19, <1>20, <1>21, <1>22,
     <1>23, <1>24, <1>25, <1>26
  DEF Next, Step, Consume, Reduce

-----------------------------------------------------------------------------
(* Places *)

\* Every step leaves every thread where it may be.
LEMMA PlacesKept ==
  ASSUME SInv, [Next]_vars
  PROVE  Places'
<1> USE DEF dispatchTx, lists, feeds, locals, history, Goto
<1>i. TypeOK /\ Places /\ Owners /\ Notifying /\ Iterating
  BY DEF SInv
<1>p. /\ pc \in [Threads -> Steps]
      /\ target \in [Clients \cup Channeled -> Channeled \cup {NoOne}]
      /\ op \in [Threads -> {"none", "Action", "AddSubscriber", "Exit"}]
  BY <1>i DEF TypeOK
<1>1. ASSUME NEW t \in Clients \cup Channeled, CallDispatch(t) \/ CallClose(t)
      PROVE  Places'
  BY <1>1, <1>i, <1>p, Kinds
    DEF Places, CallDispatch, CallClose, Begin, Dealing, Telling, Off
<1>2. ASSUME NEW t \in Clients \cup Channeled, NEW x \in Channeled,
             CallUnsubscribe(t, x)
      PROVE  Places'
  BY <1>2, <1>i, <1>p, Kinds
    DEF Places, CallUnsubscribe, Begin, Dealing, Telling, Off
<1>3. ASSUME NEW t \in Clients \cup Channeled, NEW x \in Channeled,
             CallSubscribed(t, x)
      PROVE  Places'
  BY <1>3, <1>i, <1>p, Kinds, Callers
    DEF Places, CallSubscribed, Dealing, Telling, Off
<1>4. ASSUME NEW x \in Iterators, CallIter(x)
      PROVE  Places'
  BY <1>4, <1>i, <1>p, Kinds DEF Places, CallIter, Dealing, Telling, Off
<1>c. ASSUME NEW t \in Threads, pc[t] \in {"push", "lockTx", "sendOp", "undo"}
      PROVE  t \in Clients \cup Subs /\ t # Reducer
  BY <1>c, <1>i, Kinds DEF Places, Telling, Off
<1>r. ASSUME NEW t \in Clients \cup Subs, Return(t), UNCHANGED rest
      PROVE  Places'
  BY <1>r, <1>i, <1>p, Kinds, HomeType DEF Places, Return, Dealing, Telling, Off
<1>5. ASSUME NEW t \in Threads, PushAdding(t) \/ LockTx(t)
      PROVE  Places'
  <2>1. /\ pc[t] \in {"push", "lockTx"}
        /\ \E s \in {"lockTx", "sendOp"} : Goto(t, s)
        /\ UNCHANGED <<op, target, rest>>
    BY <1>5 DEF PushAdding, LockTx
  <2> QED
    BY <2>1, <1>c, <1>i, <1>p, Kinds DEF Places, Dealing, Telling, Off
<1>6. ASSUME NEW t \in Threads, FindClosed(t)
      PROVE  Places'
  BY <1>6, <1>c, <1>r, <1>i, <1>p, Kinds
    DEF Places, FindClosed, Dealing, Telling, Off
<1>7. ASSUME NEW t \in Threads, UndoAdding(t)
      PROVE  Places'
  BY <1>7, <1>c, <1>r, <1>i, <1>p, Kinds
    DEF Places, UndoAdding, Dealing, Telling, Off
<1>8. ASSUME NEW t \in Threads, SendOp(t)
      PROVE  Places'
  BY <1>8, <1>c, <1>r DEF SendOp
<1>9. ASSUME NEW t \in Threads, LockAdding(t)
      PROVE  Places'
  BY <1>9, <1>i, <1>p, Kinds DEF Places, LockAdding, Dealing, Telling, Off
<1>10. ASSUME NEW t \in Threads, LockSubscribers(t)
       PROVE  Places'
  BY <1>10, <1>i, <1>p, Kinds DEF Places, LockSubscribers, Dealing, Telling, Off
<1>11. ASSUME NEW t \in Threads, Unsubscribed(t)
       PROVE  Places'
  BY <1>11, <1>r, <1>i, <1>p, Kinds
    DEF Places, Unsubscribed, Dealing, Telling, Off
<1>12. ASSUME NEW t \in Threads, OffChanneled(t)
       PROVE  Places'
  <2>1. t \notin Iterators
    BY <1>12, <1>i, Kinds, TargetType DEF OffChanneled, Dealing, Off
  <2> QED
    BY <1>12, <1>i, <1>p, <2>1, Kinds
      DEF Places, OffChanneled, Dealing, Telling, Off
<1>13. ASSUME NEW t \in Threads, OffIterator(t)
       PROVE  Places'
  <2>1. t \in Iterators => Target(t) \in closed
    BY <1>13, <1>i, Kinds, TargetType DEF OffIterator, Dealing, Off, Iterating
  <2> QED
    BY <1>13, <1>i, <1>p, <2>1, Kinds
      DEF Places, OffIterator, Dealing, Telling, Off
<1>14. ASSUME NEW t \in Threads, Joined(t) \/ FeedWait(t)
       PROVE  Places'
  BY <1>14, <1>i, <1>p, Kinds
    DEF Places, Joined, FeedWait, Dealing, Telling, Off
<1>n. ASSUME NEW seq, NotifyRest(seq), UNCHANGED <<op, target>>
      PROVE  Places'
  BY <1>n, <1>i, <1>p, Kinds DEF Places, NotifyRest, Dealing, Telling, Off
<1>15. ASSUME NEW t \in Threads, pc[t] \in Sending \cup {"giveUp"},
              AfterSend(t), UNCHANGED <<op, target>>
       PROVE  Places'
  <2>1. CASE Msg(t) # Exit
    BY <1>15, <1>n, <2>1 DEF AfterSend
  <2>2. CASE Msg(t) = Exit
    BY <1>15, <1>i, <1>p, <2>2, Kinds
      DEF Places, AfterSend, Sending, Dealing, Telling, Off
  <2> QED
    BY <2>1, <2>2
<1>16. ASSUME NEW t \in Threads, FeedPush(t) \/ FeedGiveUp(t)
       PROVE  Places'
  BY <1>15, <1>16 DEF FeedPush, FeedGiveUp, Sending
<1>17. ASSUME NEW x \in Subs, LoopRecv(x)
       PROVE  Places'
  BY <1>17, <1>i, <1>p, Kinds DEF Places, LoopRecv, Dealing, Telling, Off
<1>18. ASSUME NEW x \in Subs, IterNext(x)
       PROVE  Places'
  BY <1>18, <1>i, <1>p, Kinds DEF Places, IterNext, Dealing, Telling, Off
<1>19. ASSUME NEW x \in Subs,
              CallbackReturns(x) \/ IterCallNext(x) \/ IterClose(x)
       PROVE  Places'
  BY <1>19, <1>i, <1>p, Kinds
    DEF Places, CallbackReturns, IterCallNext, IterClose, Dealing, Telling, Off
<1>20. ASSUME NEW x \in Subs, IterNotifyAll(x)
       PROVE  Places'
  <2>1. x \in Iterators
    BY <1>20, <1>i, Kinds DEF Places, IterNotifyAll
  <2>2. pc'[x] \in {"lockAdding", "ended"}
    BY <1>20, <2>1, Kinds DEF IterNotifyAll
  <2>3. ASSUME NEW t \in Threads \ {x}
        PROVE  pc'[t] = pc[t] \/ (pc[t] = "wait" /\ pc'[t] = "giveUp")
    BY <1>20 DEF IterNotifyAll
  <2>4. UNCHANGED <<op, target, rest>>
    BY <1>20 DEF IterNotifyAll
  <2>5. ASSUME NEW t \in Threads, t # x
        PROVE  /\ pc'[t] \in Dealing => pc[t] \in Dealing
               /\ pc'[t] \in Telling => pc[t] \in Telling
    <3>1. CASE pc'[t] = pc[t]
      BY <3>1
    <3>2. CASE pc[t] = "wait"
      BY <3>2 DEF Dealing, Telling, Off
    <3> QED
      BY <2>3, <2>5, <3>1, <3>2
  <2>6. ASSUME NEW t \in Clients \cup Channeled
        PROVE  /\ pc'[t] \notin {"next", "close", "failed", "notifyAll"}
               /\ pc'[t] \in Dealing \/ op'[t] = "AddSubscriber"
                    => target'[t] \in Channeled
    <3>1. t \in Threads /\ t # x
      BY <2>1, Kinds
    <3> QED
      BY <1>i, <2>3, <2>4, <2>5, <3>1 DEF Places
  <2>7. ASSUME NEW y \in Iterators
        PROVE  pc'[y] \notin {"callback", "send", "wait", "giveUp", "join"}
    BY <1>i, <2>2, <2>3, Kinds DEF Places
  <2>8. /\ pc'[Reducer] \in Telling \cup
             {"recv", "snapshot", "lockAdding", "lockSubs", "clear", "done"}
        /\ pc'[Reducer] \in Telling => rest' # <<>>
    <3>1. Reducer \in Threads /\ Reducer # x /\ "giveUp" \in Telling
      BY Kinds DEF Telling, Off
    <3> QED
      BY <1>i, <2>3, <2>4, <2>5, <3>1 DEF Places
  <2>9. ASSUME NEW t \in Threads, pc'[t] \in {"push", "lockTx", "sendOp"}
        PROVE  op'[t] # "none"
    BY <1>i, <2>2, <2>3, <2>4, <2>9 DEF Places
  <2> QED
    BY <2>6, <2>7, <2>8, <2>9 DEF Places
<1>21. CASE Recv
  <2>1. Head(queue) \in {"Action", "AddSubscriber", "Exit"}
    BY <1>21, <1>i, HeadTailProperties DEF TypeOK, Recv
  <2>2. \E s \in {"snapshot", "lockAdding", "clear"} : Goto(Reducer, s)
    BY <1>21, <2>1 DEF Recv
  <2>3. UNCHANGED <<op, target>>
    BY <1>21 DEF Recv
  <2> QED
    BY <1>i, <1>p, <2>2, <2>3, Kinds DEF Places, Dealing, Telling, Off
<1>22. CASE Snapshot
  BY <1>22, <1>n DEF Snapshot
<1>23. CASE NotifyChanneled \/ NotifyIterator
  BY <1>23, <1>n, <1>i, <1>p, Kinds
    DEF Places, NotifyChanneled, NotifyIterator, Dealing, Telling, Off
<1>24. CASE LockNewSubscribers \/ DoSubscribe
  BY <1>24, <1>i, <1>p, Kinds
    DEF Places, LockNewSubscribers, DoSubscribe, Dealing, Telling, Off
<1>25. CASE ClearSubscribers \/ ClearTold
  <2>1. PICK seq : ClearRest(seq)
    BY <1>25 DEF ClearSubscribers, ClearTold
  <2> QED
    BY <1>i, <1>p, <2>1, Kinds DEF Places, ClearRest, Dealing, Telling, Off
<1>26. CASE UNCHANGED vars
  BY <1>26, <1>i DEF Places, vars
<1> QED
  BY <1>1, <1>2, <1>3, <1>4, <1>5, <1>6, <1>7, <1>8, <1>9, <1>10, <1>11, <1>12,
     <1>13, <1>14, <1>16, <1>17, <1>18, <1>19, <1>20, <1>21, <1>22, <1>23,
     <1>24, <1>25, <1>26
  DEF Next, Calling, Step, Consume, Reduce

-----------------------------------------------------------------------------
(* Steps *)

\* A step of neither the reducer thread nor of one inside on_unsubscribe.
Quiet ==
  /\ UNCHANGED <<version, subscribers, subsLock, rest, base, feedLock, ending>>
  /\ pc'[Reducer] = pc[Reducer]
  /\ \A t \in Threads : pc'[t] \in Off => pc'[t] = pc[t]
  /\ \A t \in Clients \cup Channeled : pc'[t] \in Off => target'[t] = target[t]
  /\ \A x \in Channeled : pc[x] = "ended" => pc'[x] = "ended"

\* A call's end is no step of the reducer.
LEMMA ReturnQuiet ==
  ASSUME TypeOK, NEW t \in Clients \cup Subs, Return(t), pc[t] # "ended"
  PROVE  /\ pc'[Reducer] = pc[Reducer]
         /\ \A u \in Threads : pc'[u] \in Off => u # t /\ pc'[u] = pc[u]
         /\ \A u \in Clients \cup Channeled : u # t => target'[u] = target[u]
         /\ \A x \in Channeled : pc[x] = "ended" => pc'[x] = "ended"
<1>1. t \in Threads /\ t # Reducer /\ Home(t) \notin Off
  BY HomeType, Kinds DEF Off
<1>2. /\ pc \in [Threads -> Steps] /\ pc' = [pc EXCEPT ![t] = Home(t)]
      /\ target' = [u \in Clients \cup Channeled |->
                     IF u = t THEN NoOne ELSE target[u]]
  BY DEF TypeOK, Return, Goto
<1> QED
  BY <1>1, <1>2, Kinds

\* Every other step is one of on_notify, of unsubscribe, or of the reducer.
LEMMA QuietSteps ==
  ASSUME TypeOK, Places, [Next]_vars
  PROVE  \/ Quiet
         \/ \E t \in Threads :
              \/ LockSubscribers(t) \/ Unsubscribed(t)
              \/ OffChanneled(t) \/ OffIterator(t) \/ Joined(t)
              \/ FeedPush(t) \/ FeedWait(t) \/ FeedGiveUp(t)
         \/ \E x \in Subs : IterNotifyAll(x)
         \/ Reduce
<1> USE DEF dispatchTx, lists, feeds, locals, history, Goto
<1>p. /\ pc \in [Threads -> Steps]
      /\ target \in [Clients \cup Channeled -> Channeled \cup {NoOne}]
  BY DEF TypeOK
\* One thread moves, or two.
<1>m. ASSUME NEW t \in Threads, NEW s, t # Reducer, s \notin Off, Goto(t, s),
             pc[t] # "ended",
             UNCHANGED <<version, subscribers, subsLock, rest, base, feedLock,
                         ending>>,
             \A u \in Clients \cup Channeled : u # t => target'[u] = target[u]
      PROVE  Quiet
  BY <1>m, <1>p, Kinds DEF Quiet
<1>c. ASSUME NEW t \in Threads, pc[t] \in {"push", "lockTx", "sendOp", "undo"}
      PROVE  t \in Clients \cup Subs /\ t # Reducer
  BY <1>c, Kinds DEF Places, Telling, Off
<1>1. ASSUME NEW t \in Clients \cup Channeled, CallDispatch(t) \/ CallClose(t)
      PROVE  Quiet
  BY <1>1, <1>m, Callers, Kinds DEF CallDispatch, CallClose, Begin, Off
<1>2. ASSUME NEW t \in Clients \cup Channeled, NEW x \in Channeled,
             CallUnsubscribe(t, x)
      PROVE  Quiet
  BY <1>2, <1>m, <1>p, Callers, Kinds DEF CallUnsubscribe, Begin, Off
<1>3. ASSUME NEW t \in Clients \cup Channeled, NEW x \in Channeled,
             CallSubscribed(t, x)
      PROVE  Quiet
  BY <1>3, <1>p, Callers, Kinds DEF CallSubscribed, Quiet, Off
<1>4. ASSUME NEW x \in Iterators, CallIter(x)
      PROVE  Quiet
  BY <1>4, <1>m, Kinds DEF CallIter, Off
<1>5. ASSUME NEW t \in Threads, PushAdding(t) \/ LockTx(t)
      PROVE  Quiet
  BY <1>5, <1>c, <1>m, Kinds DEF PushAdding, LockTx, Off
<1>6. ASSUME NEW t \in Threads, FindClosed(t) \/ UndoAdding(t) \/ SendOp(t)
      PROVE  Quiet
  <2>1. /\ t \in Clients \cup Subs /\ t # Reducer /\ pc[t] # "ended"
        /\ UNCHANGED <<version, subscribers, subsLock, rest, base, feedLock,
                       ending>>
    BY <1>6, <1>c DEF FindClosed, UndoAdding, SendOp
  <2>2. \/ Return(t)
        \/ UNCHANGED target /\ \E s \in {"undo", "failed"} : Goto(t, s)
    BY <1>6 DEF FindClosed, UndoAdding, SendOp
  <2>3. CASE Return(t)
    BY <2>1, <2>3, ReturnQuiet DEF Quiet
  <2>4. CASE UNCHANGED target /\ \E s \in {"undo", "failed"} : Goto(t, s)
    BY <1>m, <2>1, <2>4 DEF Off
  <2> QED
    BY <2>2, <2>3, <2>4
<1>7. ASSUME NEW t \in Threads, LockAdding(t)
      PROVE  Quiet
  BY <1>7, <1>m, Kinds DEF LockAdding, Off
<1>8. ASSUME NEW x \in Subs,
             \/ LoopRecv(x) \/ CallbackReturns(x) \/ IterCallNext(x)
             \/ IterNext(x) \/ IterClose(x)
      PROVE  Quiet
  <2>1. /\ \E s \in {"ended", "callback", "recv", "next", "lockAdding",
                      "notifyAll"} : Goto(x, s)
        /\ pc[x] # "ended"
        /\ UNCHANGED <<version, subscribers, subsLock, rest, base, feedLock,
                       ending, target>>
    BY <1>8
      DEF LoopRecv, CallbackReturns, IterCallNext, IterNext, IterClose
  <2> QED
    BY <1>m, <2>1, Kinds DEF Off
<1>9. CASE UNCHANGED vars
  BY <1>9 DEF vars, Quiet
<1> QED
  BY <1>1, <1>2, <1>3, <1>4, <1>5, <1>6, <1>7, <1>8, <1>9
  DEF Next, Calling, Step, Consume

-----------------------------------------------------------------------------
(* Owners *)

\* Every step leaves subscribers to whoever tells that it is over.
LEMMA OwnersKept ==
  ASSUME SInv, [Next]_vars
  PROVE  Owners'
<1> USE DEF dispatchTx, lists, feeds, locals, history, Goto
<1>i. TypeOK /\ Places /\ Owners /\ Notifying /\ pc \in [Threads -> Steps]
  BY DEF SInv, TypeOK
\* The reducer, with subscribers unlocked or locked by another thread.
<1>r. ASSUME NEW s, s \notin {"off", "join", "told"}, Goto(Reducer, s),
             UNCHANGED subsLock, subsLock # Reducer
      PROVE  Owners'
  BY <1>i, <1>r DEF Owners
<1>o. ASSUME pc[Reducer] \notin Off PROVE subsLock # Reducer
  BY <1>i, <1>o DEF Owners
<1>1. CASE Quiet
  BY <1>i, <1>1 DEF Owners, Quiet
<1>2. ASSUME NEW t \in Threads, LockSubscribers(t)
      PROVE  Owners'
  BY <1>2, <1>i, Kinds DEF Owners, LockSubscribers, Off
<1>3. ASSUME NEW t \in Threads, Unsubscribed(t)
      PROVE  Owners'
  <2>1. t \in Clients \cup Subs /\ subsLock = t /\ subsLock' = NoOne
    BY <1>3, <1>i, Kinds DEF Owners, Unsubscribed, Off
  <2>2. /\ pc'[Reducer] = pc[Reducer]
        /\ \A u \in Threads : pc'[u] \in Off => u # t /\ pc[u] \in Off
    <3>1. Return(t) \/ \E s \in {"ended", "close"} : Goto(t, s)
      BY <1>3 DEF Unsubscribed
    <3>2. pc[t] # "ended"
      BY <1>3 DEF Unsubscribed
    <3> QED
      BY <1>i, <2>1, <3>1, <3>2, ReturnQuiet, Kinds DEF Off
  <2> QED
    BY <1>i, <2>1, <2>2, Kinds DEF Owners
<1>4. ASSUME NEW t \in Threads, OffChanneled(t) \/ OffIterator(t) \/ Joined(t)
      PROVE  Owners'
  <2>1. pc[t] \in Off /\ UNCHANGED subsLock /\ \E s \in Off : Goto(t, s)
    BY <1>4 DEF OffChanneled, OffIterator, Joined, Off
  <2>2. t = Reducer => subsLock = Reducer
    BY <1>4, <1>i DEF OffChanneled, OffIterator, Joined, Owners
  <2> QED
    BY <1>i, <2>1, <2>2 DEF Owners
<1>5. ASSUME NEW t \in Threads, FeedPush(t) \/ FeedGiveUp(t)
      PROVE  Owners'
  <2>1. /\ pc[t] \in Sending \cup {"giveUp"} /\ pc[t] \in Off
        /\ AfterSend(t) /\ UNCHANGED subsLock
    BY <1>5 DEF FeedPush, FeedGiveUp, Sending, Off
  <2>2. CASE Msg(t) # Exit
    <3>1. t = Reducer /\ subsLock # Reducer
      BY <1>i, <2>1, <2>2, MsgType
    <3> QED
      BY <1>r, <2>1, <2>2, <3>1 DEF AfterSend, NotifyRest
  <2>3. CASE Msg(t) = Exit
    <3>1. subsLock = t
      BY <1>i, <2>1, <2>3, MsgType
    <3>2. \E s \in {"join", "told"} : Goto(t, s)
      BY <2>1, <2>3 DEF AfterSend
    <3> QED
      BY <1>i, <2>1, <3>1, <3>2, Kinds DEF Owners, Off
  <2> QED
    BY <2>2, <2>3
<1>6. ASSUME NEW t \in Threads, FeedWait(t)
      PROVE  Owners'
  BY <1>6, <1>i DEF FeedWait, Owners, Off
<1>7. ASSUME NEW x \in Subs, IterNotifyAll(x)
      PROVE  Owners'
  <2>1. UNCHANGED subsLock /\ pc'[x] \notin Off /\ x # Reducer
    BY <1>7, Kinds DEF IterNotifyAll, Off
  <2>2. ASSUME NEW t \in Threads \ {x}
        PROVE  pc'[t] = pc[t] \/ (pc[t] = "wait" /\ pc'[t] = "giveUp")
    BY <1>7 DEF IterNotifyAll
  <2>3. ASSUME NEW t \in Threads \ {Reducer}, pc'[t] \in Off
        PROVE  pc[t] \in Off
    BY <2>1, <2>2, <2>3 DEF Off
  <2>4. pc'[Reducer] \in {"off", "join", "told"} => pc[Reducer] = pc'[Reducer]
    BY <2>1, <2>2, Kinds
  <2>5. pc[Reducer] \in Off => pc'[Reducer] \in Off
    BY <2>1, <2>2, Kinds DEF Off
  <2> QED
    BY <1>i, <2>1, <2>3, <2>4, <2>5 DEF Owners
<1>8. CASE Recv
  <2>1. Head(queue) \in {"Action", "AddSubscriber", "Exit"}
    BY <1>8, <1>i, HeadTailProperties DEF TypeOK, Recv
  <2>2. /\ \E s \in {"snapshot", "lockAdding", "clear"} : Goto(Reducer, s)
        /\ UNCHANGED subsLock
    BY <1>8, <2>1 DEF Recv
  <2> QED
    BY <1>8, <1>o, <1>r, <2>2 DEF Off, Recv
<1>9. CASE Snapshot \/ NotifyChanneled \/ NotifyIterator \/ LockNewSubscribers
           \/ DoSubscribe
  <2>1. /\ pc[Reducer] \notin Off /\ UNCHANGED subsLock
        /\ \E s \in {"recv", "notify", "send", "lockSubs"} : Goto(Reducer, s)
    BY <1>9 DEF Snapshot, NotifyChanneled, NotifyIterator, LockNewSubscribers,
                DoSubscribe, NotifyRest, Off
  <2> QED
    BY <1>o, <1>r, <2>1
<1>10. CASE ClearSubscribers \/ ClearTold
  <2>1. PICK seq : ClearRest(seq)
    BY <1>10 DEF ClearSubscribers, ClearTold
  <2>2. subsLock \in {NoOne, Reducer}
    BY <1>10, <1>i DEF ClearSubscribers, ClearTold, Owners
  <2> QED
    BY <1>i, <2>1, <2>2, Kinds DEF Owners, ClearRest, Off
<1> QED
  BY <1>1, <1>2, <1>3, <1>4, <1>5, <1>6, <1>7, <1>8, <1>9, <1>10, <1>i,
     QuietSteps
  DEF Reduce

-----------------------------------------------------------------------------
(* Notifying *)

\* No step takes a tx that on_notify has locked, or locks one that is taken.
LEMMA NotifyingKept ==
  ASSUME SInv, [Next]_vars
  PROVE  Notifying'
<1> USE DEF dispatchTx, lists, feeds, locals, history, Goto
<1>i. TypeOK /\ Places /\ Owners /\ Notifying
  BY DEF SInv
<1>p. /\ pc \in [Threads -> Steps] /\ version \in Nat
      /\ feedLock \in [Channeled -> {Reducer, NoOne}]
  BY <1>i DEF TypeOK
\* Not the reducer: who is sending was, with the same mutex, to the same one.
<1>q. ASSUME UNCHANGED <<version, rest, feedLock, ending>>,
             pc'[Reducer] = pc[Reducer],
             subsLock' = Reducer <=> subsLock = Reducer,
             \A t \in Threads : pc'[t] \in Sending /\ subsLock' = t =>
               /\ pc[t] \in Sending /\ subsLock = t
               /\ t \in Clients \cup Channeled => target'[t] = target[t]
      PROVE  Notifying'
  <2>1. ASSUME NEW t \in Threads, pc'[t] \in Sending, subsLock' = t
        PROVE  pc[t] \in Sending /\ subsLock = t /\ Target(t)' = Target(t)
    BY <1>q, <2>1, Kinds DEF Target
  <2> QED
    BY <1>i, <1>q, <2>1 DEF Notifying
\* The reducer, which is not sending afterwards.
<1>r. ASSUME pc'[Reducer] \notin Sending,
             \A x \in Channeled : feedLock'[x] # Reducer,
             \/ version' # Exit
             \/ pc'[Reducer] \notin {"snapshot", "notify", "giveUp"}
             \/ pc'[Reducer] = "giveUp" /\ subsLock' = Reducer,
             UNCHANGED <<ending, target>>,
             \A t \in Threads \ {Reducer} :
               /\ pc'[t] = pc[t]
               /\ subsLock' = t => subsLock = t
      PROVE  Notifying'
  <2>1. ASSUME NEW t \in Threads, pc'[t] \in Sending, subsLock' = t
        PROVE  pc[t] \in Sending /\ subsLock = t /\ Target(t)' = Target(t)
    BY <1>r, <2>1, Kinds DEF Target
  <2>2. \A t \in Threads :
          /\ pc'[t] \in Sending /\ subsLock' = t
          /\ Target(t)' \in Channeled
          => Target(t)' \in ending'
    BY <1>i, <1>r, <2>1 DEF Notifying
  <2>3. \/ pc'[Reducer] \in {"snapshot", "notify"}
        \/ pc'[Reducer] \in {"send", "wait", "giveUp"} /\ subsLock' # Reducer
        => version' # Exit
    BY <1>r DEF Sending
  <2>4. \A x \in Channeled :
       /\ feedLock'[x] = Reducer <=>
            /\ pc'[Reducer] \in Sending /\ subsLock' # Reducer
            /\ Head(rest') = x
       /\ feedLock'[x] = Reducer => x \notin ending'
    BY <1>r
  <2> QED
    BY <2>2, <2>3, <2>4 DEF Notifying
\* Only a sender that notifies has a tx locked.
<1>f. ASSUME pc[Reducer] \notin Sending \/ subsLock = Reducer
      PROVE  \A x \in Channeled : feedLock[x] # Reducer
  BY <1>i, <1>f DEF Notifying
<1>1. CASE Quiet
  BY <1>1, <1>q, Kinds DEF Quiet, Sending, Off
<1>2. ASSUME NEW t \in Threads, LockSubscribers(t)
      PROVE  Notifying'
  BY <1>2, <1>p, <1>q, Kinds DEF LockSubscribers, Sending
<1>3. ASSUME NEW t \in Threads, Unsubscribed(t)
      PROVE  Notifying'
  <2>1. /\ t \in Clients \cup Subs /\ t # Reducer
        /\ subsLock = t /\ subsLock' = NoOne
    BY <1>3, <1>i, Kinds DEF Owners, Unsubscribed, Off
  <2>2. pc'[Reducer] = pc[Reducer]
    <3>1. /\ pc[t] # "ended"
          /\ Return(t) \/ \E s \in {"ended", "close"} : Goto(t, s)
      BY <1>3 DEF Unsubscribed
    <3> QED
      BY <1>i, <1>p, <2>1, <3>1, ReturnQuiet, Kinds
  <2>3. UNCHANGED <<version, rest, feedLock, ending>>
    BY <1>3 DEF Unsubscribed
  <2> QED
    BY <1>q, <2>1, <2>2, <2>3, Kinds
<1>4. ASSUME NEW t \in Threads, OffChanneled(t)
      PROVE  Notifying'
  <2> DEFINE x == Target(t)
  <2>1. /\ subsLock = t /\ x \in Channeled /\ feedLock[x] = NoOne
        /\ ending' = ending \cup {x}
        /\ UNCHANGED <<version, rest, feedLock, target, subsLock>>
        /\ \A u \in Threads \ {t} : pc'[u] = pc[u]
    BY <1>4, <1>i, <1>p DEF OffChanneled, Owners, Off
  <2>2. Target(t)' = x
    BY <2>1 DEF Target
  <2> HIDE DEF x
  <2>3. \A u \in Threads :
          pc'[u] \in Sending /\ subsLock' = u => Target(u)' \in ending'
    BY <2>1, <2>2
  <2>4. \A y \in Channeled :
          /\ feedLock'[y] = Reducer <=>
               /\ pc'[Reducer] \in Sending /\ subsLock' # Reducer
               /\ Head(rest') = y
          /\ feedLock'[y] = Reducer => y \notin ending'
    BY <1>i, <1>f, <2>1, Kinds DEF Notifying
  <2>5. \/ pc'[Reducer] \in {"snapshot", "notify"}
        \/ pc'[Reducer] \in {"send", "wait", "giveUp"} /\ subsLock' # Reducer
        => version' # Exit
    <3>1. CASE t = Reducer
      BY <1>4, <1>p, <2>1, <3>1, Kinds DEF OffChanneled
    <3>2. CASE t # Reducer
      BY <1>i, <2>1, <3>2, Kinds DEF Notifying
    <3> QED
      BY <3>1, <3>2
  <2> QED
    BY <2>3, <2>4, <2>5 DEF Notifying
<1>5. ASSUME NEW t \in Threads, OffIterator(t)
      PROVE  Notifying'
  <2>1. /\ subsLock = t /\ Target(t) \in Iterators
        /\ UNCHANGED <<version, rest, feedLock, ending, target, subsLock>>
        /\ \A u \in Threads \ {t} : pc'[u] = pc[u]
        /\ pc'[t] \in {"told", "send"}
    BY <1>5, <1>i, <1>p DEF OffIterator, Owners, Off
  <2>2. Target(t)' = Target(t)
    BY <2>1 DEF Target
  <2>3. \A u \in Threads :
          pc'[u] \in Sending /\ subsLock' = u => Target(u)' \notin Channeled
    BY <2>1, <2>2, Kinds
  <2>4. \A y \in Channeled :
          /\ feedLock'[y] = Reducer <=>
               /\ pc'[Reducer] \in Sending /\ subsLock' # Reducer
               /\ Head(rest') = y
          /\ feedLock'[y] = Reducer => y \notin ending'
    BY <1>i, <1>f, <2>1, Kinds DEF Notifying
  <2>5. \/ pc'[Reducer] \in {"snapshot", "notify"}
        \/ pc'[Reducer] \in {"send", "wait", "giveUp"} /\ subsLock' # Reducer
        => version' # Exit
    BY <1>i, <2>1, Kinds DEF Notifying
  <2> QED
    BY <2>3, <2>4, <2>5 DEF Notifying
<1>6. ASSUME NEW t \in Threads, Joined(t)
      PROVE  Notifying'
  <2>1. /\ subsLock = t
        /\ UNCHANGED <<version, rest, feedLock, ending, target, subsLock>>
        /\ pc' = [pc EXCEPT ![t] = "told"] /\ pc[t] = "join"
    BY <1>6, <1>i DEF Joined, Owners, Off
  <2>2. CASE t = Reducer
    BY <1>f, <1>p, <1>r, <2>1, <2>2, Kinds DEF Sending
  <2>3. CASE t # Reducer
    BY <1>p, <1>q, <2>1, <2>3, Kinds DEF Sending
  <2> QED
    BY <2>2, <2>3

<1>7. ASSUME NEW t \in Threads, FeedPush(t) \/ FeedGiveUp(t)
      PROVE  Notifying'
  <2> DEFINE x == Target(t)
  <2>1. /\ pc[t] \in Sending \cup {"giveUp"} /\ pc[t] \in Off /\ AfterSend(t)
        /\ UNCHANGED <<version, subsLock, target>>
    BY <1>7 DEF FeedPush, FeedGiveUp, Sending, Off
  <2>2. CASE Msg(t) # Exit
    <3>1. t = Reducer /\ subsLock # Reducer /\ version # Exit
      BY <1>i, <2>1, <2>2, MsgType DEF Notifying, Sending
    <3>2. /\ \E s \in {"recv", "notify"} : Goto(Reducer, s)
          /\ UNCHANGED ending
      BY <1>7, <2>1, <2>2, <3>1 DEF AfterSend, NotifyRest, FeedPush, FeedGiveUp
    <3>3. \A y \in Channeled : feedLock'[y] # Reducer
      <4>1. CASE FeedPush(t)
        BY <3>1, <4>1, Kinds DEF FeedPush
      <4>2. CASE FeedGiveUp(t)
        BY <1>f, <3>1, <4>2 DEF FeedGiveUp, Sending
      <4> QED
        BY <1>7, <4>1, <4>2
    <3> QED
      BY <1>p, <1>r, <2>1, <3>1, <3>2, <3>3, Kinds DEF Sending
  <2>3. CASE Msg(t) = Exit
    <3>1. subsLock = t
      BY <1>i, <2>1, <2>3, MsgType
    <3>2. /\ \E s \in {"join", "told"} : Goto(t, s)
          /\ UNCHANGED rest
      BY <2>1, <2>3 DEF AfterSend
    <3>3. \A y \in Channeled :
            feedLock'[y] = Reducer => t # Reducer /\ feedLock[y] = Reducer
      BY <1>7, <1>f, <3>1, Kinds DEF FeedPush, FeedGiveUp
    <3>4. \A y \in Channeled : t # Reducer => feedLock'[y] = feedLock[y]
      BY <1>7, <1>p, <3>1, Kinds DEF FeedPush, FeedGiveUp
    <3>5. /\ ending \subseteq ending'
          /\ \A y \in Channeled : y \in ending' => y \in ending
      BY <1>7, <1>i, <3>1 DEF FeedPush, FeedGiveUp, Notifying, Sending
    <3>6. ASSUME NEW u \in Threads, pc'[u] \in Sending, subsLock' = u
          PROVE  FALSE
      BY <1>p, <2>1, <3>1, <3>2, <3>6 DEF Sending
    <3>7. \A y \in Channeled :
            /\ feedLock'[y] = Reducer <=>
                 /\ pc'[Reducer] \in Sending /\ subsLock' # Reducer
                 /\ Head(rest') = y
            /\ feedLock'[y] = Reducer => y \notin ending'
      <4>1. CASE t = Reducer
        BY <2>1, <3>1, <3>3, <4>1
      <4>2. CASE t # Reducer
        BY <1>i, <1>p, <2>1, <3>2, <3>4, <3>5, <4>2, Kinds DEF Notifying
      <4> QED
        BY <4>1, <4>2
    <3>8. \/ pc'[Reducer] \in {"snapshot", "notify"}
          \/ pc'[Reducer] \in {"send", "wait", "giveUp"} /\ subsLock' # Reducer
          => version' # Exit
      BY <1>i, <1>p, <2>1, <3>1, <3>2, Kinds DEF Notifying
    <3> QED
      BY <3>6, <3>7, <3>8 DEF Notifying
  <2> QED
    BY <2>2, <2>3
<1>8. ASSUME NEW t \in Threads, FeedWait(t)
      PROVE  Notifying'
  <2>1. /\ pc' = [pc EXCEPT ![t] = "wait"] /\ pc[t] = "send"
        /\ UNCHANGED <<version, rest, feedLock, ending, target, subsLock>>
    BY <1>8 DEF FeedWait
  <2>2. \A u \in Threads :
          (pc'[u] \in Sending <=> pc[u] \in Sending) /\ Target(u)' = Target(u)
    BY <1>p, <2>1 DEF Sending, Target
  <2>3. /\ pc'[Reducer] \in {"snapshot", "notify"} => pc[Reducer] = pc'[Reducer]
        /\ pc'[Reducer] \in {"send", "wait", "giveUp"}
             => pc[Reducer] \in {"send", "wait", "giveUp"}
    BY <1>p, <2>1, Kinds
  <2> QED
    BY <1>i, <2>1, <2>2, <2>3, Kinds DEF Notifying
<1>9. ASSUME NEW x \in Subs, IterNotifyAll(x)
      PROVE  Notifying'
  <2>1. /\ x \in Iterators /\ x # Reducer /\ pc'[x] \notin Sending
        /\ UNCHANGED <<version, rest, feedLock, ending, target, subsLock>>
    BY <1>9, <1>i, Kinds DEF IterNotifyAll, Places, Sending
  <2>2. ASSUME NEW t \in Threads \ {x}
        PROVE  \/ pc'[t] = pc[t]
               \/ pc[t] = "wait" /\ pc'[t] = "giveUp" /\ Target(t) = x
    BY <1>9 DEF IterNotifyAll
  <2>3. ASSUME NEW t \in Threads, pc'[t] \in Sending
        PROVE  pc[t] \in Sending /\ Target(t)' = Target(t)
    BY <2>1, <2>2, <2>3 DEF Sending, Target
  <2>4. CASE pc'[Reducer] = pc[Reducer]
    BY <1>q, <2>1, <2>3, <2>4
  <2>5. CASE /\ pc[Reducer] = "wait" /\ pc'[Reducer] = "giveUp"
             /\ Target(Reducer) = x
    <3>1. Head(rest) \notin Channeled
      BY <2>1, <2>5, Kinds DEF Target
    <3>2. \A y \in Channeled : feedLock[y] # Reducer
      BY <1>i, <3>1 DEF Notifying
    <3>3. \A t \in Threads :
            /\ pc'[t] \in Sending /\ subsLock' = t
            /\ Target(t)' \in Channeled
            => Target(t)' \in ending'
      BY <1>i, <2>1, <2>3 DEF Notifying
    <3>4. pc'[Reducer] \notin Sending
      BY <2>5 DEF Sending
    <3>5. subsLock' # Reducer => version' # Exit
      BY <1>i, <2>1, <2>5 DEF Notifying
    <3> QED
      BY <2>1, <2>5, <3>2, <3>3, <3>4, <3>5 DEF Notifying
  <2> QED
    BY <2>1, <2>2, <2>4, <2>5, Kinds
<1>10. CASE Recv
  <2>1. Head(queue) \in {"Action", "AddSubscriber", "Exit"}
    BY <1>10, <1>i, HeadTailProperties DEF TypeOK, Recv
  <2>2. \/ pc' = [pc EXCEPT ![Reducer] = "snapshot"] /\ version' = version + 1
        \/ \E s \in {"lockAdding", "clear"} : Goto(Reducer, s)
    BY <1>10, <2>1 DEF Recv
  <2>3. UNCHANGED <<ending, target, feedLock, subsLock>> /\ pc[Reducer] = "recv"
    BY <1>10 DEF Recv
  <2> QED
    BY <1>f, <1>p, <1>r, <2>2, <2>3, Kinds DEF Sending, Exit
<1>11. CASE Snapshot \/ LockNewSubscribers \/ DoSubscribe
  <2>1. /\ pc[Reducer] \notin Sending
        /\ UNCHANGED <<version, ending, target, feedLock, subsLock>>
        /\ \/ /\ pc[Reducer] = "snapshot"
              /\ \E s \in {"recv", "notify"} : Goto(Reducer, s)
           \/ \E s \in {"recv", "lockSubs"} : Goto(Reducer, s)
    BY <1>11 DEF Snapshot, LockNewSubscribers, DoSubscribe, NotifyRest, Sending
  <2>2. pc[Reducer] = "snapshot" => version # Exit
    BY <1>i DEF Notifying
  <2> QED
    BY <1>f, <1>p, <1>r, <2>1, <2>2, Kinds DEF Sending
<1>n. ASSUME pc[Reducer] = "notify", NotifyRest(Tail(rest)),
             UNCHANGED <<version, ending, target, feedLock, subsLock>>
      PROVE  Notifying'
  <2>1. \E s \in {"recv", "notify"} : Goto(Reducer, s)
    BY <1>n DEF NotifyRest
  <2>2. version # Exit
    BY <1>i, <1>n DEF Notifying
  <2> QED
    BY <1>f, <1>n, <1>p, <1>r, <2>1, <2>2, Kinds DEF Sending
\* The reducer begins to send to x.
<1>b. ASSUME pc[Reducer] = "notify", Goto(Reducer, "send"),
             UNCHANGED <<version, ending, target, rest, subsLock>>,
             \A y \in Channeled :
               /\ feedLock'[y] = Reducer <=> Head(rest) = y
               /\ feedLock'[y] = Reducer => y \notin ending
      PROVE  Notifying'
  <2>1. version # Exit /\ subsLock # Reducer
    BY <1>i, <1>b DEF Notifying, Owners, Off
  <2>2. pc'[Reducer] = "send" /\ \A t \in Threads \ {Reducer} : pc'[t] = pc[t]
    BY <1>b, <1>p, Kinds
  <2>3. ASSUME NEW t \in Threads, pc'[t] \in Sending, subsLock' = t
        PROVE  pc[t] \in Sending /\ subsLock = t /\ Target(t)' = Target(t)
    BY <1>b, <2>1, <2>2, <2>3 DEF Target
  <2>4. \A t \in Threads :
          /\ pc'[t] \in Sending /\ subsLock' = t
          /\ Target(t)' \in Channeled
          => Target(t)' \in ending'
    BY <1>i, <1>b, <2>3 DEF Notifying
  <2>5. \A y \in Channeled :
          /\ feedLock'[y] = Reducer <=>
               /\ pc'[Reducer] \in Sending /\ subsLock' # Reducer
               /\ Head(rest') = y
          /\ feedLock'[y] = Reducer => y \notin ending'
    BY <1>b, <2>1, <2>2 DEF Sending
  <2> QED
    BY <1>b, <2>1, <2>4, <2>5 DEF Notifying
<1>12. CASE NotifyChanneled
  <2>1. CASE NotifyRest(Tail(rest)) /\ UNCHANGED feedLock
    BY <1>12, <1>n, <2>1 DEF NotifyChanneled
  <2>2. CASE /\ Head(rest) \notin ending
             /\ feedLock' = [feedLock EXCEPT ![Head(rest)] = Reducer]
             /\ Goto(Reducer, "send") /\ UNCHANGED rest
    <3>1. \A y \in Channeled : feedLock[y] # Reducer
      BY <1>12, <1>f DEF NotifyChanneled, Sending
    <3>2. \A y \in Channeled : feedLock'[y] = Reducer <=> Head(rest) = y
      BY <1>12, <1>p, <2>2, <3>1 DEF NotifyChanneled
    <3> QED
      BY <1>12, <1>b, <2>2, <3>2 DEF NotifyChanneled
  <2> QED
    BY <1>12, <2>1, <2>2 DEF NotifyChanneled
<1>13. CASE NotifyIterator
  <2>1. CASE NotifyRest(Tail(rest))
    BY <1>13, <1>n, <2>1 DEF NotifyIterator
  <2>2. CASE Goto(Reducer, "send") /\ UNCHANGED rest
    <3>1. \A y \in Channeled : feedLock[y] # Reducer
      BY <1>13, <1>f DEF NotifyIterator, Sending
    <3> QED
      BY <1>13, <1>b, <2>2, <3>1, Kinds DEF NotifyIterator
  <2> QED
    BY <1>13, <2>1, <2>2 DEF NotifyIterator
<1>14. CASE ClearSubscribers \/ ClearTold
  <2>1. PICK seq : ClearRest(seq)
    BY <1>14 DEF ClearSubscribers, ClearTold
  <2>2. pc[Reducer] \notin Sending
    BY <1>14 DEF ClearSubscribers, ClearTold, Sending
  <2>3. \E s \in {"done", "off"} : Goto(Reducer, s)
    BY <2>1 DEF ClearRest
  <2>4. UNCHANGED <<ending, target, feedLock>> /\ subsLock' \in {NoOne, Reducer}
    BY <2>1 DEF ClearRest
  <2> QED
    BY <1>f, <1>p, <1>r, <2>2, <2>3, <2>4, Kinds DEF Sending
<1> QED
  BY <1>1, <1>2, <1>3, <1>4, <1>5, <1>6, <1>7, <1>8, <1>9, <1>10, <1>11, <1>12,
     <1>13, <1>14, <1>i, QuietSteps
  DEF Reduce

-----------------------------------------------------------------------------
(* Iterating *)

\* Once the reducer thread clears the list it goes on to do so, and ends.
LEMMA ClearingLasts ==
  ASSUME TypeOK, Places, Owners, Notifying, Clearing, [Next]_vars
  PROVE  Clearing'
<1> USE DEF dispatchTx, lists, feeds, locals, history, Goto
<1>p. pc \in [Threads -> Steps]
  BY DEF TypeOK
<1>1. CASE Quiet
  BY <1>1 DEF Quiet, Clearing
\* The mutex stays with the reducer, or the reducer has ended.
<1>2. ASSUME NEW t \in Threads,
             \/ LockSubscribers(t) \/ Unsubscribed(t)
             \/ OffChanneled(t) \/ OffIterator(t) \/ Joined(t)
             \/ FeedPush(t) \/ FeedWait(t) \/ FeedGiveUp(t)
      PROVE  Clearing'
  <2>1. CASE subsLock = Reducer
    BY <1>2, <2>1, Kinds
      DEF LockSubscribers, Unsubscribed, OffChanneled, OffIterator, Joined,
          FeedPush, FeedWait, FeedGiveUp, Owners, Off, Clearing
  <2>2. CASE pc[Reducer] = "done"
    <3>1. t # Reducer /\ t \in Clients \cup Subs
      BY <1>2, <2>2, Kinds
        DEF LockSubscribers, Unsubscribed, OffChanneled, OffIterator, Joined,
            FeedPush, FeedWait, FeedGiveUp
    <3>2. pc[t] # "ended" /\ (Return(t) \/ \E s : Goto(t, s))
      <4>1. CASE FeedPush(t) \/ FeedGiveUp(t)
        <5>1. AfterSend(t) /\ pc[t] \in Sending \cup {"giveUp"}
          BY <4>1 DEF FeedPush, FeedGiveUp, Sending
        <5>2. Msg(t) = Exit
          BY <3>1, <5>1, MsgType
        <5> QED
          BY <5>1, <5>2 DEF AfterSend, Sending
      <4> QED
        BY <1>2, <4>1
          DEF LockSubscribers, Unsubscribed, OffChanneled, OffIterator, Joined,
              FeedWait
    <3> QED
      BY <1>p, <2>2, <3>1, <3>2, ReturnQuiet, Kinds DEF Clearing
  <2> QED
    BY <2>1, <2>2 DEF Clearing
<1>3. ASSUME NEW x \in Subs, IterNotifyAll(x)
      PROVE  Clearing'
  <2>1. UNCHANGED subsLock /\ x # Reducer
    BY <1>3, Kinds DEF IterNotifyAll
  <2>2. pc[Reducer] = "done" => pc'[Reducer] = "done"
    BY <1>3, <2>1, Kinds DEF IterNotifyAll
  <2> QED
    BY <2>1, <2>2 DEF Clearing
<1>4. CASE Reduce
  <2>1. CASE ClearTold
    BY <1>p, <2>1, Kinds DEF ClearTold, ClearRest, Clearing
  <2>2. pc[Reducer] \notin Off \cup {"done"} => ~Clearing
    BY DEF Clearing, Owners
  <2> QED
    BY <1>4, <2>1, <2>2
      DEF Reduce, Recv, Snapshot, NotifyChanneled, NotifyIterator,
          LockNewSubscribers, DoSubscribe, ClearSubscribers, Off
<1> QED
  BY <1>1, <1>2, <1>3, <1>4, QuietSteps

\* No step makes an iterator unsubscribe that has its receiver while the reducer
\* thread goes on.
LEMMA IteratingKept ==
  ASSUME SInv, [Next]_vars
  PROVE  Iterating'
<1> SUFFICES ASSUME NEW x \in Iterators
             PROVE  /\ pc'[x] \in {"off", "notifyAll"} => x \in closed'
                    /\ Exit \in ToSet(feed'[x]) => Clearing'
                    /\ pc'[x] \in {"lockAdding", "lockSubs"}
                         => x \in closed' \/ Clearing'
  BY DEF Iterating
<1> DEFINE Goal == /\ pc'[x] \in {"off", "notifyAll"} => x \in closed'
                   /\ Exit \in ToSet(feed'[x]) => Clearing'
                   /\ pc'[x] \in {"lockAdding", "lockSubs"}
                        => x \in closed' \/ Clearing'
<1> USE DEF dispatchTx, lists, feeds, locals, history, Goto
<1>i. TypeOK /\ Places /\ Owners /\ Notifying /\ Iterating /\ Listing
  BY DEF SInv
<1>p. pc \in [Threads -> Steps] /\ feed \in [Subs -> Seq(Nat)]
  BY <1>i DEF TypeOK
<1>x. /\ x \in Threads /\ x \in Subs
      /\ x # Reducer /\ x \notin Clients \cup Channeled
  BY Kinds
<1>l. Clearing => Clearing'
  BY <1>i, ClearingLasts
<1>q. ASSUME closed \subseteq closed',
             ToSet(feed'[x]) \subseteq ToSet(feed[x]) \/ Clearing'
               \/ Exit \notin ToSet(feed'[x]),
             \/ pc'[x] = pc[x]
             \/ pc'[x] \in {"off", "notifyAll"} /\ x \in closed'
             \/ /\ pc'[x] \in {"lockAdding", "lockSubs"}
                /\ \/ pc[x] \in {"lockAdding", "notifyAll"}
                   \/ Exit \in ToSet(feed[x])
             \/ pc'[x] \notin {"off", "notifyAll", "lockAdding", "lockSubs"}
      PROVE  Goal
  BY <1>i, <1>l, <1>q DEF Iterating
<1>1. ASSUME NEW t \in Clients \cup Channeled, Calling(t)
      PROVE  Goal
  <2>1. UNCHANGED <<closed, feed>> /\ pc'[x] = pc[x]
    BY <1>1, <1>p, <1>x, Kinds
      DEF Calling, CallDispatch, CallClose, CallUnsubscribe, CallSubscribed,
          Begin
  <2> QED
    BY <1>q, <2>1
<1>2. ASSUME NEW y \in Iterators, CallIter(y)
      PROVE  Goal
  <2>1. UNCHANGED <<closed, feed>> /\ (pc'[x] = pc[x] \/ pc'[x] = "push")
    BY <1>2, <1>p, <1>x DEF CallIter
  <2> QED
    BY <1>q, <2>1
<1>3. ASSUME NEW t \in Threads,
             \/ PushAdding(t) \/ LockTx(t) \/ FindClosed(t) \/ UndoAdding(t)
             \/ SendOp(t) \/ Unsubscribed(t)
      PROVE  Goal
  <2>1. /\ UNCHANGED <<closed, feed>>
        /\ \/ Return(t)
           \/ \E s \in {"lockTx", "sendOp", "undo", "failed", "ended",
                        "close"} : Goto(t, s)
    BY <1>3
      DEF PushAdding, LockTx, FindClosed, UndoAdding, SendOp, Unsubscribed
  <2>2. \/ pc'[x] = pc[x]
        \/ pc'[x] \in {"next", "lockTx", "sendOp", "undo", "failed", "ended",
                       "close"}
    BY <1>p, <1>x, <2>1, HomeType DEF Return
  <2> QED
    BY <1>q, <2>1, <2>2
<1>4. ASSUME NEW t \in Threads, LockAdding(t)
      PROVE  Goal
  <2>1. /\ UNCHANGED <<closed, feed>>
        /\ \/ pc'[x] = pc[x]
           \/ pc'[x] = "lockSubs" /\ pc[x] = "lockAdding"
    BY <1>4, <1>p, <1>x DEF LockAdding
  <2> QED
    BY <1>q, <2>1
<1>5. ASSUME NEW t \in Threads, LockSubscribers(t)
      PROVE  Goal
  <2>1. UNCHANGED <<closed, feed>>
    BY <1>5 DEF LockSubscribers
  <2>2. ASSUME t = x, pc'[x] = "off"
        PROVE  x \in closed
    <3>1. x \in ToSet(subscribers) /\ subsLock = NoOne /\ pc[x] = "lockSubs"
      BY <1>5, <1>p, <1>x, <2>2, Kinds DEF LockSubscribers, Target
    <3>2. subscribers # <<>>
      BY <1>i, <3>1, ToSetProperties DEF TypeOK
    <3>3. ~Clearing
      BY <1>i, <3>1, <3>2, Kinds DEF Clearing, Listing
    <3> QED
      BY <1>i, <3>1, <3>3 DEF Iterating
  <2>3. pc'[x] = pc[x] \/ (t = x /\ pc'[x] \in {"off", "told"})
    BY <1>5, <1>p, <1>x DEF LockSubscribers
  <2> QED
    BY <1>q, <2>1, <2>2, <2>3
<1>6. ASSUME NEW t \in Threads,
             \/ OffChanneled(t) \/ OffIterator(t) \/ Joined(t)
             \/ FeedWait(t) \/ FeedGiveUp(t)
      PROVE  Goal
  <2>1. /\ UNCHANGED <<closed, feed>>
        /\ \E s \in {"join", "send", "told", "wait", "recv", "notify"} :
             Goto(t, s) \/ Goto(Reducer, s)
    BY <1>6 DEF OffChanneled, OffIterator, Joined, FeedWait, FeedGiveUp,
                AfterSend, NotifyRest
  <2>2. \/ pc'[x] = pc[x]
        \/ pc'[x] \in {"join", "send", "told", "wait", "recv", "notify"}
    BY <1>p, <1>x, <2>1
  <2> QED
    BY <1>q, <2>1, <2>2
<1>7. ASSUME NEW t \in Threads, FeedPush(t)
      PROVE  Goal
  <2>1. /\ UNCHANGED closed /\ pc[t] \in Sending
        /\ feed' = [feed EXCEPT ![Target(t)] = Append(@, Msg(t))]
        /\ \E s \in {"join", "told", "recv", "notify"} :
             Goto(t, s) \/ Goto(Reducer, s)
    BY <1>7 DEF FeedPush, AfterSend, NotifyRest, Sending
  <2>2. pc'[x] = pc[x] \/ pc'[x] \in {"join", "told", "recv", "notify"}
    BY <1>p, <1>x, <2>1
  <2>3. CASE Target(t) # x
    BY <1>p, <1>q, <1>x, <2>1, <2>2, <2>3
  <2>4. CASE Target(t) = x
    <3>1. t \notin Clients \cup Channeled /\ t \notin Iterators
      BY <1>i, <1>x, <2>1, <2>4, TargetType, Kinds
        DEF Sending, Dealing, Off, Places
    <3>2. t = Reducer
      BY <3>1, Kinds
    <3>3. Msg(t) \in Nat /\ (Msg(t) = Exit <=> subsLock = Reducer)
      BY <1>i, <2>1, <3>2, MsgType
    <3>4. ToSet(feed'[x]) = ToSet(feed[x]) \cup {Msg(t)}
      <4>1. feed'[x] = Append(feed[x], Msg(t)) /\ feed[x] \in Seq(Nat)
        BY <1>p, <1>x, <2>1, <2>4
      <4> QED
        BY <3>3, <4>1, AppendSet
    <3>5. Msg(t) = Exit => Clearing'
      BY <1>l, <3>3 DEF Clearing
    <3>6. ToSet(feed'[x]) \subseteq ToSet(feed[x]) \/ Clearing'
            \/ Exit \notin ToSet(feed'[x])
      BY <1>i, <1>l, <3>4, <3>5 DEF Iterating
    <3> QED
      BY <1>q, <2>1, <2>2, <3>6
  <2> QED
    BY <2>3, <2>4
<1>8. ASSUME NEW y \in Subs, LoopRecv(y) \/ IterNext(y)
      PROVE  Goal
  <2>1. /\ UNCHANGED closed /\ feed[y] # <<>>
        /\ feed' = [feed EXCEPT ![y] = Tail(@)]
    BY <1>8 DEF LoopRecv, IterNext
  <2>2. /\ ToSet(Tail(feed[y])) \subseteq ToSet(feed[y])
        /\ Head(feed[y]) \in ToSet(feed[y])
    BY <1>p, <2>1, TailSet
  <2>3. ToSet(feed'[x]) \subseteq ToSet(feed[x])
    BY <1>p, <1>x, <2>1, <2>2
  <2>4. \/ pc'[x] = pc[x]
        \/ pc'[x] \in {"ended", "callback", "next"}
        \/ pc'[x] = "lockAdding" /\ Exit \in ToSet(feed[x])
    BY <1>8, <1>p, <1>x, <2>2 DEF LoopRecv, IterNext
  <2> QED
    BY <1>q, <2>1, <2>3, <2>4
<1>9. ASSUME NEW y \in Subs, CallbackReturns(y) \/ IterCallNext(y)
      PROVE  Goal
  <2>1. UNCHANGED <<closed, feed>> /\ (pc'[x] = pc[x] \/ pc'[x] = "recv")
    BY <1>9, <1>p, <1>x DEF CallbackReturns, IterCallNext
  <2> QED
    BY <1>q, <2>1
<1>10. ASSUME NEW y \in Subs, IterClose(y)
       PROVE  Goal
  <2>1. /\ closed' = closed \cup {y} /\ UNCHANGED feed
        /\ pc'[x] = pc[x] \/ (y = x /\ pc'[x] = "notifyAll")
    BY <1>10, <1>p, <1>x DEF IterClose
  <2> QED
    BY <1>q, <2>1
<1>11. ASSUME NEW y \in Subs, IterNotifyAll(y)
       PROVE  Goal
  <2>1. UNCHANGED <<closed, feed>>
    BY <1>11 DEF IterNotifyAll
  <2>2. \/ pc'[x] \in {"ended", "giveUp"} \/ pc'[x] = pc[x]
        \/ pc'[x] = "lockAdding" /\ pc[x] = "notifyAll"
    BY <1>11, <1>x DEF IterNotifyAll
  <2> QED
    BY <1>q, <2>1, <2>2
<1>12. CASE Reduce
  <2>1. UNCHANGED <<closed, feed>> /\ \E s : Goto(Reducer, s)
    BY <1>12 DEF Reduce, Recv, Snapshot, NotifyChanneled, NotifyIterator,
                 LockNewSubscribers, DoSubscribe, ClearSubscribers, ClearTold,
                 ClearRest, NotifyRest
  <2> QED
    BY <1>p, <1>q, <1>x, <2>1
<1>13. CASE UNCHANGED vars
  BY <1>13, <1>q DEF vars
<1> QED
  BY <1>1, <1>2, <1>3, <1>4, <1>5, <1>6, <1>7, <1>8, <1>9, <1>10, <1>11, <1>12,
     <1>13
  DEF Next, Step, Consume

-----------------------------------------------------------------------------
(* Listing *)

\* No step takes a subscriber off the list whose thread has not ended.
LEMMA ListingKept ==
  ASSUME SInv, [Next]_vars
  PROVE  Listing'
<1> USE DEF dispatchTx, lists, feeds, locals, history, Goto
<1>i. TypeOK /\ Places /\ Owners /\ Notifying /\ Listing
  BY DEF SInv
<1>p. /\ pc \in [Threads -> Steps] /\ base \in [Subs -> Nat \cup {Unlisted}]
      /\ subscribers \in Seq(Subs) /\ adding \in Seq(Subs) /\ rest \in Seq(Subs)
  BY <1>i DEF TypeOK
\* Nobody is listed, taken off the list or told.
<1>q. ASSUME UNCHANGED <<subscribers, base, rest>>,
             \A x \in Channeled : pc[x] = "ended" => pc'[x] = "ended",
             \A t \in Threads : pc'[t] = "told" =>
               /\ pc[t] = "told"
               /\ t \in Clients \cup Channeled => target'[t] = target[t],
             subsLock' = Reducer => subsLock = Reducer,
             pc'[Reducer] = "done" => pc[Reducer] = "done"
      PROVE  Listing'
  <2>1. ASSUME NEW t \in Threads, pc'[t] = "told"
        PROVE  /\ pc[t] = "told" /\ Target(t)' = Target(t)
               /\ Target(t) \in Subs
    <3>1. pc[t] = "told" /\ Target(t)' = Target(t)
      BY <1>q, <2>1, Kinds DEF Target
    <3> QED
      BY <1>i, <3>1, TargetType DEF Dealing, Telling, Off
  <2>2. ASSUME NEW t \in Threads, pc'[t] = "told"
        PROVE  \/ Target(t)' \in Iterators \/ pc'[Target(t)'] = "ended"
               \/ t # Reducer /\ Target(t)' \notin ToSet(subscribers')
    BY <1>i, <1>q, <2>1, <2>2, Kinds DEF Listing
  <2> QED
    BY <1>i, <1>q, <2>2 DEF Listing
<1>1. CASE Quiet
  BY <1>1, <1>q, Kinds DEF Quiet, Off
<1>2. ASSUME NEW t \in Threads, LockSubscribers(t)
      PROVE  Listing'
  <2>1. /\ UNCHANGED <<subscribers, base, rest, target>> /\ t # Reducer
        /\ subsLock' = t /\ subsLock = NoOne
        /\ pc' = [pc EXCEPT ![t] = IF Target(t) \in ToSet(subscribers)
                                     THEN "off" ELSE "told"]
        /\ pc[t] = "lockSubs"
    BY <1>2 DEF LockSubscribers
  <2>2. \A u \in Threads : Target(u)' = Target(u)
    BY <2>1 DEF Target
  <2>3. \A x \in Channeled : pc[x] = "ended" => pc'[x] = "ended"
    BY <1>p, <2>1
  <2>4. ASSUME NEW u \in Threads, pc'[u] = "told"
        PROVE  \/ Target(u)' \in Iterators \/ pc'[Target(u)'] = "ended"
               \/ u # Reducer /\ Target(u)' \notin ToSet(subscribers')
    <3>1. CASE u = t
      BY <1>p, <2>1, <2>2, <2>4, <3>1
    <3>2. CASE u # t
      <4>1. pc[u] = "told"
        BY <1>p, <2>1, <2>4, <3>2
      <4>2. Target(u) \in Subs
        BY <1>i, <4>1, TargetType DEF Dealing, Telling, Off
      <4> QED
        BY <1>i, <2>1, <2>2, <2>3, <4>1, <4>2, Kinds DEF Listing
    <3> QED
      BY <3>1, <3>2
  <2>5. pc'[Reducer] = pc[Reducer]
    BY <1>p, <2>1, Kinds
  <2> QED
    BY <1>i, <2>1, <2>3, <2>4, <2>5, Kinds DEF Listing
<1>3. ASSUME NEW t \in Threads, Unsubscribed(t)
      PROVE  Listing'
  <2> DEFINE x == Target(t)
  <2>1. /\ t \in Clients \cup Subs /\ t # Reducer
        /\ subsLock = t /\ subsLock' = NoOne
        /\ pc[t] = "told" /\ subscribers' = Without(subscribers, x)
        /\ UNCHANGED <<base, rest>>
    BY <1>3, <1>i, Kinds DEF Owners, Unsubscribed, Off
  <2>2. /\ pc'[Reducer] = pc[Reducer]
        /\ \A u \in Threads : pc'[u] \in Off => u # t /\ pc'[u] = pc[u]
        /\ \A y \in Channeled : pc[y] = "ended" => pc'[y] = "ended"
    <3>1. Return(t) \/ \E s \in {"ended", "close"} : Goto(t, s)
      BY <1>3 DEF Unsubscribed
    <3> QED
      BY <1>i, <1>p, <2>1, <3>1, ReturnQuiet, Kinds DEF Off
  <2>3. \A u \in Threads : pc'[u] = "told" => u = Reducer
    BY <1>i, <2>1, <2>2 DEF Owners, Off
  <2>4. pc[Reducer] # "told"
    BY <1>i, <2>1 DEF Owners
  <2>5. /\ ToSet(subscribers) \ {x} \subseteq ToSet(subscribers')
        /\ ToSet(subscribers') \subseteq ToSet(subscribers)
        /\ subscribers' \in Seq(Subs)
    BY <1>p, <2>1, WithoutProperties
  <2>6. x \in Iterators \/ pc[x] = "ended" \/ x \notin ToSet(subscribers)
    BY <1>i, <2>1 DEF Listing
  <2>7. ASSUME NEW y \in Channeled, base[y] # Unlisted
        PROVE  y \in ToSet(subscribers') \/ pc'[y] = "ended"
    <3>1. y \in ToSet(subscribers) \/ pc[y] = "ended"
      BY <1>i, <2>7 DEF Listing
    <3> QED
      BY <2>2, <2>5, <2>6, <3>1, Kinds
  <2>8. pc'[Reducer] = "done" => subscribers' = <<>>
    <3>1. ASSUME subscribers = <<>> PROVE subscribers' = <<>>
      <4>1. ToSet(subscribers) = {}
        BY <1>p, <3>1, ToSetProperties
      <4>2. ToSet(subscribers') = {}
        BY <2>5, <4>1
      <4> QED
        BY <2>5, <4>2, ToSetProperties
    <3> QED
      BY <1>i, <2>2, <3>1 DEF Listing
  <2> QED
    BY <2>1, <2>2, <2>3, <2>4, <2>7, <2>8, Kinds DEF Listing
<1>4. ASSUME NEW t \in Threads, OffChanneled(t) \/ FeedWait(t)
      PROVE  Listing'
  <2>1. /\ UNCHANGED <<subscribers, base, rest, subsLock, target>>
        /\ \E s \in {"join", "send", "wait"} : Goto(t, s)
        /\ pc[t] # "ended"
    BY <1>4 DEF OffChanneled, FeedWait
  <2> QED
    BY <1>p, <1>q, <2>1, Kinds
\* Who was told is an iterator, or its thread has ended.
<1>t. ASSUME NEW t \in Threads, pc[t] \in Off, Goto(t, "told"),
             Target(t) \in Iterators \/ pc[Target(t)] = "ended",
             UNCHANGED <<subscribers, base, rest, subsLock, target>>
      PROVE  Listing'
  <2>1. /\ \A u \in Threads : Target(u)' = Target(u)
        /\ \A x \in Channeled : pc[x] = "ended" => pc'[x] = "ended"
        /\ pc'[Reducer] = "done" => pc[Reducer] = "done"
    BY <1>p, <1>t, Kinds DEF Target, Off
  <2>2. ASSUME NEW u \in Threads, pc'[u] = "told"
        PROVE  \/ Target(u)' \in Iterators \/ pc'[Target(u)'] = "ended"
               \/ u # Reducer /\ Target(u)' \notin ToSet(subscribers')
    <3>1. u = t \/ pc[u] = "told"
      BY <1>p, <1>t, <2>2
    <3>2. Target(u) \in Subs
      BY <1>i, <1>t, <3>1, TargetType DEF Dealing, Telling, Off
    <3> QED
      BY <1>i, <1>t, <2>1, <3>1, <3>2, Kinds DEF Listing
  <2> QED
    BY <1>i, <1>t, <2>1, <2>2 DEF Listing
<1>5. ASSUME NEW t \in Threads, OffIterator(t) \/ Joined(t)
      PROVE  Listing'
  <2>1. CASE Goto(t, "told")
    BY <1>5, <1>t, <2>1 DEF OffIterator, Joined, Off
  <2>2. CASE pc[t] = "off" /\ Goto(t, "send")
    BY <1>5, <1>p, <1>q, <2>2, Kinds DEF OffIterator, Joined
  <2> QED
    BY <1>5, <2>1, <2>2 DEF OffIterator, Joined
<1>n. ASSUME NEW seq, NotifyRest(seq), subsLock # Reducer,
             UNCHANGED <<subscribers, base, subsLock, target>>
      PROVE  Listing'
  <2>1. /\ \A t \in Threads \ {Reducer} :
             pc'[t] = pc[t] /\ Target(t)' = Target(t)
        /\ pc'[Reducer] \in {"recv", "notify"}
    BY <1>n, <1>p, Kinds DEF NotifyRest, Target
  <2>2. \A x \in Channeled : pc'[x] = pc[x]
    BY <2>1, Kinds
  <2>3. ASSUME NEW t \in Threads, pc'[t] = "told"
        PROVE  \/ Target(t)' \in Iterators \/ pc'[Target(t)'] = "ended"
               \/ t # Reducer /\ Target(t)' \notin ToSet(subscribers')
    <3>1. t # Reducer /\ pc[t] = "told" /\ Target(t)' = Target(t)
      BY <2>1, <2>3
    <3>2. Target(t) \in Subs
      BY <1>i, <3>1, TargetType DEF Dealing, Off
    <3> QED
      BY <1>i, <1>n, <2>2, <3>1, <3>2, Kinds DEF Listing
  <2> QED
    BY <1>i, <1>n, <2>1, <2>2, <2>3 DEF Listing
<1>6. ASSUME NEW t \in Threads, FeedPush(t) \/ FeedGiveUp(t)
      PROVE  Listing'
  <2>1. /\ pc[t] \in Sending \cup {"giveUp"} /\ pc[t] \in Off /\ AfterSend(t)
        /\ UNCHANGED <<subscribers, base, subsLock, target>>
    BY <1>6 DEF FeedPush, FeedGiveUp, Sending, Off
  <2>2. CASE Msg(t) # Exit
    BY <1>i, <1>n, <2>1, <2>2, MsgType DEF AfterSend
  <2>3. CASE Msg(t) = Exit /\ Target(t) \in Channeled
    <3>1. /\ pc' = [pc EXCEPT ![t] = "join"] /\ UNCHANGED rest
      BY <2>1, <2>3 DEF AfterSend
    <3>2. pc[t] # "ended"
      BY <2>1 DEF Off
    <3> QED
      BY <1>p, <1>q, <2>1, <3>1, <3>2, Kinds
  <2>4. CASE Msg(t) = Exit /\ Target(t) \notin Channeled
    <3>1. Target(t) \in Iterators
      BY <1>i, <2>1, <2>4, TargetType, Kinds DEF Dealing, Telling
    <3>2. Goto(t, "told") /\ UNCHANGED rest
      BY <2>1, <2>4 DEF AfterSend
    <3> QED
      BY <1>t, <2>1, <3>1, <3>2
  <2> QED
    BY <2>2, <2>3, <2>4
<1>7. ASSUME NEW x \in Subs, IterNotifyAll(x)
      PROVE  Listing'
  <2>1. /\ UNCHANGED <<subscribers, base, rest, subsLock, target>>
        /\ x \in Iterators /\ pc'[x] \in {"lockAdding", "ended"}
    BY <1>7, <1>i, Kinds DEF IterNotifyAll, Places
  <2>2. ASSUME NEW t \in Threads \ {x}
        PROVE  pc'[t] = pc[t] \/ (pc[t] = "wait" /\ pc'[t] = "giveUp")
    BY <1>7 DEF IterNotifyAll
  <2>3. \A y \in Channeled : pc[y] = "ended" => pc'[y] = "ended"
    BY <2>1, <2>2, Kinds
  <2>4. \A t \in Threads : pc'[t] = "told" => pc[t] = "told"
    BY <2>1, <2>2
  <2>5. pc'[Reducer] = "done" => pc[Reducer] = "done"
    BY <2>1, <2>2, Kinds
  <2> QED
    BY <1>q, <2>1, <2>3, <2>4, <2>5
<1>o. ASSUME pc[Reducer] \notin Off PROVE subsLock # Reducer
  BY <1>i, <1>o DEF Owners
<1>8. CASE Recv
  <2>1. Head(queue) \in {"Action", "AddSubscriber", "Exit"}
    BY <1>8, <1>i, HeadTailProperties DEF TypeOK, Recv
  <2>2. /\ \E s \in {"snapshot", "lockAdding", "clear"} : Goto(Reducer, s)
        /\ UNCHANGED <<subscribers, base, rest, subsLock, target>>
    BY <1>8, <2>1 DEF Recv
  <2> QED
    BY <1>p, <1>q, <2>2, Kinds
<1>9. CASE Snapshot
  BY <1>9, <1>n, <1>o DEF Snapshot, Off
<1>10. CASE NotifyChanneled \/ NotifyIterator
  <2>1. CASE NotifyRest(Tail(rest))
    BY <1>10, <1>n, <1>o, <2>1 DEF NotifyChanneled, NotifyIterator, Off
  <2>2. CASE Goto(Reducer, "send") /\ UNCHANGED rest
    <3>1. UNCHANGED <<subscribers, base, subsLock, target>>
      BY <1>10 DEF NotifyChanneled, NotifyIterator
    <3> QED
      BY <1>p, <1>q, <2>2, <3>1, Kinds
  <2> QED
    BY <1>10, <2>1, <2>2 DEF NotifyChanneled, NotifyIterator
<1>11. CASE LockNewSubscribers
  <2>1. /\ \E s \in {"recv", "lockSubs"} : Goto(Reducer, s)
        /\ UNCHANGED <<subscribers, base, rest, subsLock, target>>
    BY <1>11 DEF LockNewSubscribers
  <2> QED
    BY <1>p, <1>q, <2>1, Kinds
<1>12. CASE DoSubscribe
  <2>1. /\ subscribers' = subscribers \o adding /\ subsLock = NoOne
        /\ pc' = [pc EXCEPT ![Reducer] = "recv"]
        /\ base' = [x \in Subs |->
                     IF x \in ToSet(adding) \ closed THEN version ELSE base[x]]
        /\ UNCHANGED <<rest, subsLock, target>>
    BY <1>12 DEF DoSubscribe
  <2>2. ToSet(subscribers') = ToSet(subscribers) \cup ToSet(adding)
    BY <1>p, <2>1, ConcatSet
  <2>3. \A t \in Threads : pc'[t] # "told"
    <3>1. \A t \in Threads \ {Reducer} : pc[t] # "told"
      BY <1>i, <2>1, Kinds DEF Owners, Off
    <3> QED
      BY <1>p, <2>1, <3>1
  <2>4. /\ \A x \in Channeled : pc'[x] = pc[x]
        /\ pc'[Reducer] = "recv"
    BY <1>p, <2>1, Kinds
  <2>5. ASSUME NEW x \in Channeled, base'[x] # Unlisted
        PROVE  x \in ToSet(subscribers') \/ pc'[x] = "ended"
    BY <1>i, <2>1, <2>2, <2>4, <2>5, Kinds DEF Listing
  <2>6. subsLock' # Reducer
    BY <2>1, Kinds
  <2> QED
    BY <2>3, <2>4, <2>5, <2>6 DEF Listing
\* What is left to tell, and who has been told.
<1>c. ASSUME NEW seq \in Seq(Subs), ClearRest(seq),
             \A x \in Channeled \cap ToSet(subscribers) :
               x \in ToSet(seq) \/ pc[x] = "ended",
             subsLock \in {NoOne, Reducer}
      PROVE  Listing'
  <2>1. /\ rest' = seq /\ UNCHANGED <<base, target>>
        /\ pc' = [pc EXCEPT ![Reducer] = IF seq = <<>> THEN "done" ELSE "off"]
        /\ subscribers' = IF seq = <<>> THEN <<>> ELSE subscribers
    BY <1>c DEF ClearRest
  <2>2. \A x \in Channeled : pc'[x] = pc[x]
    BY <1>p, <2>1, Kinds
  <2>3. \A t \in Threads : pc'[t] # "told"
    <3>1. \A t \in Threads \ {Reducer} : pc[t] # "told"
      BY <1>i, <1>c, Kinds DEF Owners, Off
    <3> QED
      BY <1>p, <2>1, <3>1
  <2>4. ASSUME NEW x \in Channeled, base[x] # Unlisted
        PROVE  x \in ToSet(subscribers') \/ pc'[x] = "ended"
    <3>1. seq = <<>> => ToSet(seq) = {}
      BY <1>c, ToSetProperties
    <3>2. x \in ToSet(subscribers) \/ pc[x] = "ended"
      BY <1>i, <2>4 DEF Listing
    <3> QED
      BY <1>c, <2>1, <2>2, <3>1, <3>2
  <2>5. subsLock' = Reducer =>
          \A x \in Channeled \cap ToSet(subscribers') :
            x \in ToSet(rest') \/ pc'[x] = "ended"
    <3>1. subsLock' = Reducer => seq # <<>>
      BY <1>c, Kinds DEF ClearRest
    <3> QED
      BY <1>c, <2>1, <2>2, <3>1
  <2>6. pc'[Reducer] = "done" => subscribers' = <<>>
    BY <1>p, <2>1, Kinds
  <2> QED
    BY <2>1, <2>3, <2>4, <2>5, <2>6 DEF Listing
<1>13. CASE ClearSubscribers
  BY <1>13, <1>c, <1>p DEF ClearSubscribers
<1>14. CASE ClearTold
  <2>1. subsLock = Reducer /\ rest # <<>> /\ Target(Reducer) = Head(rest)
    BY <1>14, <1>i, TargetType, Kinds
      DEF ClearTold, Owners, Places, Telling, Off
  <2>2. Head(rest) \in Iterators \/ pc[Head(rest)] = "ended"
    BY <1>14, <1>i, <2>1, Kinds DEF ClearTold, Listing
  <2>3. /\ Tail(rest) \in Seq(Subs)
        /\ ToSet(rest) = {Head(rest)} \cup ToSet(Tail(rest))
    BY <1>p, <2>1, TailSet
  <2>4. ASSUME NEW x \in Channeled \cap ToSet(subscribers)
        PROVE  x \in ToSet(Tail(rest)) \/ pc[x] = "ended"
    BY <1>i, <2>1, <2>2, <2>3, Kinds DEF Listing
  <2> QED
    BY <1>14, <1>c, <2>1, <2>3, <2>4 DEF ClearTold
<1> QED
  BY <1>1, <1>2, <1>3, <1>4, <1>5, <1>6, <1>7, <1>8, <1>9, <1>10, <1>11, <1>12,
     <1>13, <1>14, <1>i, QuietSteps
  DEF Reduce

-----------------------------------------------------------------------------
(* Theorems *)

\* The inductive invariant holds, whoever calls the store.
THEOREM Invariance == Spec => []SInv
<1>1. SInv /\ [Next]_vars => SInv'
  BY TypesKept, PlacesKept, OwnersKept, NotifyingKept, IteratingKept,
     ListingKept
    DEF SInv
<1> QED
  BY <1>1, InitSound, PTL DEF Spec

\* Every variable keeps its type and every channel its capacity, for any number
\* of clients, channeled subscribers and iterators, whatever they call.
THEOREM SubscriberTypes == Spec => []TypeOK
<1>1. SInv => TypeOK
  BY DEF SInv
<1> QED
  BY <1>1, Invariance, PTL

\* However on_notify, from a clone of the list, and on_unsubscribe, from
\* whichever thread, interleave: two of them are never inside the send into the
\* same channel.
THEOREM FeedsSafe == Spec => []OneSenderPerFeed
<1>1. ASSUME SInv, NEW t \in Threads, NEW u \in Threads,
             pc[t] \in Sending, pc[u] \in Sending, Target(t) = Target(u),
             u # Reducer
      PROVE  t = u
  <2>1. TypeOK /\ Places /\ Owners /\ Notifying
    BY <1>1 DEF SInv
  <2>2. subsLock = u
    BY <1>1, <2>1 DEF Owners, Sending, Off
  <2>3. CASE t # Reducer
    BY <1>1, <2>1, <2>2, <2>3 DEF Owners, Sending, Off
  <2>4. CASE t = Reducer
    <3>1. u \in Clients \cup Channeled
      BY <1>1, <2>1, Kinds DEF Places, Sending
    <3>2. Target(u) \in Channeled
      <4>1. pc[u] \in Dealing
        BY <1>1 DEF Sending, Dealing, Off
      <4> QED
        BY <1>1, <2>1, <3>1, <4>1, TargetType
    <3>3. Head(rest) = Target(u) /\ subsLock # Reducer
      BY <1>1, <2>2, <2>4, Kinds DEF Target
    <3>4. feedLock[Target(u)] = Reducer
      BY <1>1, <2>1, <2>4, <3>2, <3>3 DEF Notifying
    <3> QED
      BY <1>1, <2>1, <2>2, <3>2, <3>4 DEF Notifying
  <2> QED
    BY <2>3, <2>4
<1>2. SInv => OneSenderPerFeed
  BY <1>1 DEF OneSenderPerFeed, Sending
<1> QED
  BY <1>2, Invariance, PTL

\* clear_subscribers joins the thread of every subscriber on the list, and
\* unsubscribe that of each that left it: when the reducer thread has ended, no
\* thread of a subscriber that was ever on the list is left.
THEOREM NoThreadLeft == Spec => []EndedWithReducer
<1>1. SInv => EndedWithReducer
  BY ToSetProperties, EmptySeq DEF SInv, Listing, EndedWithReducer, ToSet
<1> QED
  BY <1>1, Invariance, PTL

=============================================================================
