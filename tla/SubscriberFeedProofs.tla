------------------------ MODULE SubscriberFeedProofs ------------------------
(***************************************************************************)
(* StoreSubscribers implements SubscriberFeed, for any number of clients,  *)
(* subscribers and calls and every capacity of the channels: whoever       *)
(* dispatches, unsubscribes or closes the store meanwhile, a subscriber    *)
(* with a channel of its own receives all states while it is listed, in    *)
(* order, and then its end.                                                *)
(*                                                                         *)
(* The inductive invariant, FInv, adds to that of StoreSubscribersProofs   *)
(* that the lists hold nobody twice (Lists), that a subscriber is put on   *)
(* them once (Joining) and has been sent nothing before it is listed       *)
(* (Unserved), that its channel brings one end, and it leaves the list     *)
(* only when that is on its way (Ending, Removing), and how many states    *)
(* have been sent to who is listed (UpToDate).                             *)
(***************************************************************************)
EXTENDS StoreSubscribersProofs, WellFoundedInduction

\* Nobody is twice on a list, or on adding_subscribers and on subscribers.
Lists ==
  /\ IsInjective(adding) /\ IsInjective(subscribers) /\ IsInjective(rest)
  /\ ToSet(adding) \cap ToSet(subscribers) = {}

\* A subscriber is pushed to adding_subscribers once, and drained once.
Joining ==
  /\ \A x \in ToSet(adding) : base[x] = Unlisted /\ pc[x] # "unborn"
  /\ \A x \in Subs : pc[x] = "unborn" => base[x] = Unlisted
  /\ \A t \in Threads : pc[t] = "push" =>
       /\ Target(t) \notin ToSet(adding)
       /\ base[Target(t)] = Unlisted /\ pc[Target(t)] # "unborn"
       /\ \A u \in Threads : pc[u] = "push" /\ Target(u) = Target(t) => u = t

\* Before it is listed, nobody deals with a subscriber but itself.
Unserved ==
  \A x \in Subs : base[x] = Unlisted /\ x \notin closed =>
    /\ x \notin ToSet(subscribers) \cup ToSet(rest) \cup ending
    /\ feed[x] = <<>> /\ views[x] = <<>>

\* The end of a subscriber: Exit, or the receiver that is dropped.
Ending ==
  /\ \A x \in Subs : Exit \in ToSet(feed[x]) => x \in ending
  /\ \A x \in Iterators :
       /\ pc[x] \in Leaving => x \in ending \cup closed
       /\ x \in closed => pc[x] \in Leaving \ {"close"}
       /\ pc[x] = "ended" => x \in closed
       /\ x \in ending => Exit \in ToSet(feed[x]) \/ pc[x] \in Leaving
  /\ \A x \in Channeled :
       /\ pc[x] = "ended" => x \in ending /\ feed[x] = <<>>
       /\ \A i \in DOMAIN feed[x] : feed[x][i] = Exit => i = Len(feed[x])
  /\ \A t \in Threads :
       pc[t] \in Sending /\ subsLock = t /\ Target(t) \in Channeled =>
         Exit \notin ToSet(feed[Target(t)]) /\ pc[Target(t)] # "ended"

\* Nobody is taken off the list whose end is not on its way.
Removing ==
  /\ \A t \in Threads \ {Reducer} :
       pc[t] = "off" => Target(t) \in ToSet(subscribers)
  /\ ToSet(rest) \subseteq ToSet(subscribers) \cup ending \cup closed
  /\ subsLock = Reducer =>
       ToSet(subscribers) \subseteq ToSet(rest) \cup ending \cup closed
  /\ pc[Reducer] = "giveUp" => Head(rest) \in closed
  /\ pc[Reducer] \in {"join", "told"} => Head(rest) \in ending \cup closed

\* The reducer has still to send x the present state.
Owes(x) ==
  \/ pc[Reducer] = "snapshot"
  \/ /\ pc[Reducer] \in {"notify", "send", "wait", "giveUp"}
     /\ subsLock # Reducer
     /\ x \in ToSet(rest)

Sent(x) == views[x] \o Pending(x)

\* Who is listed has been sent all states since but the one it is owed.
UpToDate ==
  \A x \in Subs : Phase(x) = "on" =>
    /\ base[x] # Unlisted
    /\ base[x] + Len(Sent(x)) + (IF Owes(x) THEN 1 ELSE 0) = version

FInv == SInv /\ Lists /\ Joining /\ Unserved /\ Ending /\ Removing /\ UpToDate

-----------------------------------------------------------------------------
(* What is pending in a channel *)

\* A set of natural numbers has a least element.
LEMMA LeastNatural ==
  ASSUME NEW T \in SUBSET Nat, T # {}
  PROVE  \E n \in T : \A m \in T : n <= m
<1> DEFINE R == {ss \in Nat \X Nat : ss[1] < ss[2]}
<1>1. IsWellFoundedOn(R, Nat)
  BY NatLessThanWellFounded DEF OpToRel
<1> HIDE DEF R
<1>2. PICK n \in T : \A m \in T : ~(<<m, n>> \in R)
  BY <1>1, WFMin
<1>3. ASSUME NEW m \in T PROVE n <= m
  <2>1. n \in Nat /\ m \in Nat /\ <<m, n>> \in Nat \X Nat
    OBVIOUS
  <2>2. ~(m < n)
    BY <1>2, <2>1 DEF R
  <2> QED
    BY <2>1, <2>2
<1> QED
  BY <1>3

\* The part of a channel before Exit.
Upto(q) ==
  LET exits == {i \in DOMAIN q : q[i] = Exit} IN
  IF exits = {} THEN q
  ELSE SubSeq(q, 1, (CHOOSE i \in exits : \A j \in exits : i <= j) - 1)

LEMMA PendingUpto ==
  ASSUME NEW x
  PROVE  /\ Pending(x) = IF x \in Iterators /\ pc[x] \in Leaving
                           THEN <<>> ELSE Upto(feed[x])
         /\ Pending(x)' = IF x \in Iterators /\ pc'[x] \in Leaving
                            THEN <<>> ELSE Upto(feed'[x])
BY DEF Pending, Upto

\* It ends where Exit is first, ...
LEMMA UptoLen ==
  ASSUME NEW q \in Seq(Nat)
  PROVE  \E n \in 0 .. Len(q) :
           /\ \A j \in 1 .. n : q[j] # Exit
           /\ n < Len(q) => q[n + 1] = Exit
<1> DEFINE exits == {i \in DOMAIN q : q[i] = Exit}
<1>1. DOMAIN q = 1 .. Len(q) /\ Len(q) \in Nat
  BY LenProperties
<1>2. CASE exits = {}
  <2>1. Len(q) \in 0 .. Len(q) /\ \A j \in 1 .. Len(q) : q[j] # Exit
    BY <1>1, <1>2
  <2> QED
    BY <1>1, <2>1
<1>3. CASE exits # {}
  <2>1. PICK i \in exits : \A j \in exits : i <= j
    <3>1. exits \in SUBSET Nat
      BY <1>1
    <3> HIDE DEF exits
    <3> QED
      BY <1>3, <3>1, LeastNatural
  <2>2. i \in 1 .. Len(q) /\ q[i] = Exit
    BY <1>1, <2>1
  <2>3. i - 1 \in 0 .. Len(q) /\ (i - 1) + 1 = i
    BY <1>1, <2>2
  <2>4. ASSUME NEW j \in 1 .. i - 1 PROVE q[j] # Exit
    BY <1>1, <2>1, <2>2
  <2> QED
    BY <2>2, <2>3, <2>4
<1> QED
  BY <1>2, <1>3

\* ... and nowhere else.
LEMMA UptoIs ==
  ASSUME NEW q \in Seq(Nat), NEW n \in 0 .. Len(q),
         \A j \in 1 .. n : q[j] # Exit,
         n < Len(q) => q[n + 1] = Exit
  PROVE  Upto(q) = SubSeq(q, 1, n)
<1> DEFINE exits == {i \in DOMAIN q : q[i] = Exit}
           first == CHOOSE i \in exits : \A j \in exits : i <= j
<1>1. DOMAIN q = 1 .. Len(q) /\ Len(q) \in Nat
  BY LenProperties
<1>2. CASE n = Len(q)
  <2>1. exits = {}
    BY <1>1, <1>2
  <2>2. Upto(q) = q
    BY <2>1 DEF Upto
  <2> QED
    BY <1>2, <2>2, SubSeqFull
<1>3. CASE n # Len(q)
  <2>1. n + 1 \in exits /\ \A j \in exits : n + 1 <= j
    <3>1. n \in Nat /\ n < Len(q) /\ n + 1 \in 1 .. Len(q)
      <4>1. Len(q) \in Nat
        BY <1>1
      <4> QED
        BY <1>3, <4>1
    <3>2. ASSUME NEW j \in exits PROVE n + 1 <= j
      <4>1. j \in 1 .. Len(q) /\ j \notin 1 .. n
        BY <1>1, <3>2
      <4> QED
        BY <3>1, <4>1
    <3> QED
      BY <1>1, <3>1, <3>2
  <2>2. first \in exits /\ \A j \in exits : first <= j
    BY <2>1
  <2>3. first = n + 1
    <3> HIDE DEF first
    <3> QED
      BY <1>1, <2>1, <2>2
  <2>4. Upto(q) = SubSeq(q, 1, first - 1)
    BY <2>1 DEF Upto
  <2>5. first - 1 = n
    <3> HIDE DEF first
    <3> QED
      BY <2>3
  <2> QED
    BY <2>4, <2>5
<1> QED
  BY <1>2, <1>3

\* What is pending are versions of the channel.
LEMMA UptoType ==
  ASSUME NEW q \in Seq(Nat)
  PROVE  /\ Upto(q) \in Seq(Nat)
         /\ Exit \notin ToSet(q) => Upto(q) = q
<1>1. PICK n \in 0 .. Len(q) : /\ \A j \in 1 .. n : q[j] # Exit
                               /\ n < Len(q) => q[n + 1] = Exit
  BY UptoLen
<1>2. Upto(q) = SubSeq(q, 1, n)
  BY <1>1, UptoIs
<1>3. Len(q) \in Nat /\ \A i \in 1 .. n : q[i] \in Nat
  BY ElementOfSeq, LenProperties
<1>4. SubSeq(q, 1, n) \in Seq(Nat)
  BY <1>3, SubSeqProperties
<1>5. Exit \notin ToSet(q) => Upto(q) = q
  BY DEF Upto, ToSet
<1> QED
  BY <1>2, <1>4, <1>5

\* Whatever is sent behind Exit, and Exit itself, is not pending.
LEMMA UptoAppend ==
  ASSUME NEW q \in Seq(Nat), NEW v \in Nat, v = Exit \/ Exit \in ToSet(q)
  PROVE  Upto(Append(q, v)) = Upto(q)
<1> DEFINE r == Append(q, v)
<1>1. PICK n \in 0 .. Len(q) : /\ \A j \in 1 .. n : q[j] # Exit
                               /\ n < Len(q) => q[n + 1] = Exit
  BY UptoLen
<1>2. Upto(q) = SubSeq(q, 1, n)
  BY <1>1, UptoIs
<1>3. /\ r \in Seq(Nat) /\ Len(r) = Len(q) + 1 /\ Len(q) \in Nat
      /\ \A i \in 1 .. Len(q) : r[i] = q[i]
      /\ r[Len(q) + 1] = v
  BY AppendProperties, LenProperties
<1>4. ToSet(q) = {q[i] : i \in 1 .. Len(q)}
  BY ToSetProperties
<1> HIDE DEF r
<1>5. r[n + 1] = Exit
  <2>1. CASE n < Len(q)
    <3>1. n + 1 \in 1 .. Len(q)
      BY <1>3, <2>1
    <3> QED
      BY <1>1, <1>3, <2>1, <3>1
  <2>2. CASE n = Len(q)
    BY <1>1, <1>3, <1>4, <2>2
  <2> QED
    BY <1>3, <2>1, <2>2
<1>6. n \in 0 .. Len(r) /\ \A j \in 1 .. n : r[j] # Exit
  <2>1. n \in Nat /\ n <= Len(q)
    BY <1>3
  <2>2. \A j \in 1 .. n : j \in 1 .. Len(q)
    BY <1>3, <2>1
  <2>3. n \in 0 .. Len(r)
    BY <1>3, <2>1
  <2> QED
    BY <1>1, <1>3, <2>2, <2>3
<1>7. Upto(r) = SubSeq(r, 1, n)
  BY <1>3, <1>5, <1>6, UptoIs
<1>8. SubSeq(r, 1, n) = SubSeq(q, 1, n)
  <2>1. (\A i \in 1 .. n : r[i] \in Nat) /\ (\A i \in 1 .. n : q[i] \in Nat)
    <3>1. \A i \in 1 .. n : i \in 1 .. Len(q)
      BY <1>3
    <3>2. \A i \in 1 .. Len(q) : q[i] \in Nat
      BY ElementOfSeq
    <3> QED
      BY <1>3, <3>1, <3>2
  <2>2. /\ SubSeq(r, 1, n) \in Seq(Nat)
        /\ Len(SubSeq(r, 1, n)) = IF 1 <= n THEN n - 1 + 1 ELSE 0
        /\ \A i \in 1 .. n - 1 + 1 : SubSeq(r, 1, n)[i] = r[1 + i - 1]
    BY <1>3, <2>1, SubSeqProperties
  <2>3. /\ SubSeq(q, 1, n) \in Seq(Nat)
        /\ Len(SubSeq(q, 1, n)) = IF 1 <= n THEN n - 1 + 1 ELSE 0
        /\ \A i \in 1 .. n - 1 + 1 : SubSeq(q, 1, n)[i] = q[1 + i - 1]
    BY <1>3, <2>1, SubSeqProperties
  <2>4. ASSUME NEW i \in 1 .. Len(SubSeq(r, 1, n))
        PROVE  SubSeq(r, 1, n)[i] = SubSeq(q, 1, n)[i]
    <3>1. i \in 1 .. n /\ 1 + i - 1 = i
      BY <1>3, <2>2
    <3>2. SubSeq(r, 1, n)[i] = r[i] /\ SubSeq(q, 1, n)[i] = q[i]
      BY <1>3, <2>2, <2>3, <3>1
    <3> QED
      BY <1>3, <3>1, <3>2
  <2> QED
    BY <2>2, <2>3, <2>4, SeqEqual
<1> QED
  BY <1>2, <1>7, <1>8 DEF r

\* Taking a version off the channel is taking it off what is pending, and in
\* front of Exit nothing is.
LEMMA UptoTail ==
  ASSUME NEW q \in Seq(Nat), q # <<>>
  PROVE  /\ Head(q) = Exit => Upto(q) = <<>>
         /\ Head(q) # Exit => /\ Upto(q) # <<>>
                              /\ Head(Upto(q)) = Head(q)
                              /\ Tail(Upto(q)) = Upto(Tail(q))
<1>1. PICK n \in 0 .. Len(q) : /\ \A j \in 1 .. n : q[j] # Exit
                               /\ n < Len(q) => q[n + 1] = Exit
  BY UptoLen
<1>2. Upto(q) = SubSeq(q, 1, n)
  BY <1>1, UptoIs
<1>3. Len(q) \in Nat \ {0} /\ Head(q) = q[1]
  BY EmptySeq, LenProperties
<1>4. CASE Head(q) = Exit
  <2>1. n = 0
    BY <1>1, <1>3, <1>4
  <2> QED
    BY <1>2, <1>4, <2>1, SubSeqEmpty
<1>5. CASE Head(q) # Exit
  <2> DEFINE r == Tail(q)
             u == SubSeq(q, 1, n)
  <2>1. n \in 1 .. Len(q)
    BY <1>1, <1>3, <1>5
  <2>2. /\ r \in Seq(Nat) /\ Len(r) = Len(q) - 1
        /\ \A i \in 1 .. Len(q) - 1 : r[i] = q[i + 1]
    BY HeadTailProperties
  <2>3. Head(u) = q[1] /\ Tail(u) = SubSeq(q, 2, n)
    <3>1. 1 \in 1 .. Len(q) /\ n \in 1 .. Len(q) /\ 1 + 1 = 2
      BY <1>3, <2>1
    <3> QED
      BY <3>1, HeadTailOfSubSeq
  <2>4. (\A i \in 1 .. n : q[i] \in Nat) /\ (\A i \in 2 .. n : q[i] \in Nat)
    BY <1>3, <2>1, ElementOfSeq
  <2>5. u # <<>>
    <3>1. u \in Seq(Nat) /\ Len(u) = IF 1 <= n THEN n - 1 + 1 ELSE 0
      BY <2>1, <2>4, SubSeqProperties
    <3> HIDE DEF u
    <3>2. Len(u) # 0
      BY <2>1, <3>1
    <3> QED
      BY <3>1, <3>2, EmptySeq
  <2> HIDE DEF r
  <2>6. Upto(r) = SubSeq(r, 1, n - 1)
    <3>1. n - 1 \in 0 .. Len(r)
      BY <1>3, <2>1, <2>2
    <3>2. ASSUME NEW j \in 1 .. n - 1 PROVE r[j] # Exit
      <4>1. j \in 1 .. Len(q) - 1 /\ j + 1 \in 1 .. n
        BY <1>3, <2>1
      <4> QED
        BY <1>1, <2>2, <4>1
    <3>3. n - 1 < Len(r) => r[(n - 1) + 1] = Exit
      <4>1. ASSUME n - 1 < Len(r) PROVE r[n] = q[n + 1] /\ q[n + 1] = Exit
        <5>1. n < Len(q) /\ n \in 1 .. Len(q) - 1
          BY <1>3, <2>1, <2>2, <4>1
        <5> QED
          BY <1>1, <2>2, <5>1
      <4>2. (n - 1) + 1 = n
        BY <2>1
      <4> QED
        BY <4>1, <4>2
    <3> QED
      BY <2>2, <3>1, <3>2, <3>3, UptoIs
  <2>7. SubSeq(q, 2, n) = SubSeq(r, 1, n - 1)
    <3>1. \A i \in 1 .. n - 1 : r[i] \in Nat
      <4>1. \A i \in 1 .. n - 1 : i \in 1 .. Len(r)
        BY <1>3, <2>1, <2>2
      <4>2. \A i \in 1 .. Len(r) : r[i] \in Nat
        BY <2>2, ElementOfSeq
      <4> QED
        BY <4>1, <4>2
    <3>2. /\ SubSeq(q, 2, n) \in Seq(Nat)
          /\ Len(SubSeq(q, 2, n)) = IF 2 <= n THEN n - 2 + 1 ELSE 0
          /\ \A i \in 1 .. n - 2 + 1 : SubSeq(q, 2, n)[i] = q[2 + i - 1]
      BY <2>1, <2>4, SubSeqProperties
    <3>3. /\ SubSeq(r, 1, n - 1) \in Seq(Nat)
          /\ Len(SubSeq(r, 1, n - 1)) =
               IF 1 <= n - 1 THEN n - 1 - 1 + 1 ELSE 0
          /\ \A i \in 1 .. n - 1 - 1 + 1 :
               SubSeq(r, 1, n - 1)[i] = r[1 + i - 1]
      BY <2>1, <3>1, SubSeqProperties
    <3>4. ASSUME NEW i \in 1 .. Len(SubSeq(q, 2, n))
          PROVE  SubSeq(q, 2, n)[i] = SubSeq(r, 1, n - 1)[i]
      <4>1. i \in 1 .. n - 1
        <5>1. n \in Nat /\ (2 <= n \/ n = 1)
          BY <2>1
        <5> QED
          BY <3>2, <5>1
      <4>2. /\ n \in Nat /\ i \in Nat /\ i \in 1 .. Len(q) - 1
            /\ i \in 1 .. n - 2 + 1 /\ i \in 1 .. n - 1 - 1 + 1
            /\ 2 + i - 1 = i + 1 /\ 1 + i - 1 = i
        BY <1>3, <2>1, <4>1
      <4>3. SubSeq(q, 2, n)[i] = q[i + 1] /\ SubSeq(r, 1, n - 1)[i] = r[i]
        BY <3>2, <3>3, <4>2
      <4> QED
        BY <2>2, <4>2, <4>3
    <3>5. Len(SubSeq(q, 2, n)) = Len(SubSeq(r, 1, n - 1))
      BY <2>1, <3>2, <3>3
    <3> QED
      BY <3>2, <3>3, <3>4, <3>5, SeqEqual
  <2> QED
    BY <1>2, <1>3, <1>5, <2>3, <2>5, <2>6, <2>7 DEF r
<1> QED
  BY <1>4, <1>5

-----------------------------------------------------------------------------
(* Steps *)

\* A step that neither a subscriber's channel nor the lists' readers notice.
Still ==
  /\ UNCHANGED <<version, subscribers, subsLock, rest, base, views, feed,
                 ending, closed>>
  /\ pc'[Reducer] = pc[Reducer]
  /\ \A t \in Threads : pc'[t] \in Off => pc'[t] = pc[t]
  /\ \A t \in Clients \cup Channeled : pc'[t] \in Off => target'[t] = target[t]
  /\ \A x \in Subs : pc'[x] = "ended" <=> pc[x] = "ended"
  /\ \A x \in Iterators : /\ pc'[x] \in Leaving <=> pc[x] \in Leaving
                          /\ pc'[x] = "close" => pc[x] = "close"

\* Every other step is one of on_notify, of unsubscribe, of a channel's receiver
\* or of the reducer.
LEMMA StillSteps ==
  ASSUME TypeOK, Places, [Next]_vars
  PROVE  \/ Still
         \/ \E t \in Threads :
              \/ LockSubscribers(t) \/ Unsubscribed(t)
              \/ OffChanneled(t) \/ OffIterator(t) \/ Joined(t)
              \/ FeedPush(t) \/ FeedWait(t) \/ FeedGiveUp(t)
         \/ \E x \in Subs :
              LoopRecv(x) \/ IterNext(x) \/ IterClose(x) \/ IterNotifyAll(x)
         \/ Reduce
<1> USE DEF dispatchTx, lists, feeds, locals, history, Goto
<1>p. /\ pc \in [Threads -> Steps]
      /\ target \in [Clients \cup Channeled -> Channeled \cup {NoOne}]
  BY DEF TypeOK
\* One thread moves, or two.
<1>m. ASSUME NEW t \in Threads, NEW s, t # Reducer,
             s \notin Off \cup Leaving, pc[t] \notin Leaving, Goto(t, s),
             UNCHANGED <<version, subscribers, subsLock, rest, base, views,
                         feed, ending, closed>>,
             \A u \in Clients \cup Channeled : u # t => target'[u] = target[u]
      PROVE  Still
  <2>1. "ended" \in Leaving /\ "close" \in Leaving
    BY DEF Leaving
  <2> QED
    BY <1>m, <1>p, <2>1, Kinds DEF Still
<1>c. ASSUME NEW t \in Threads, pc[t] \in {"push", "lockTx", "sendOp", "undo"}
      PROVE  t \in Clients \cup Subs /\ t # Reducer /\ pc[t] \notin Leaving
  BY <1>c, Kinds DEF Places, Telling, Off, Leaving
<1>1. ASSUME NEW t \in Clients \cup Channeled, CallDispatch(t) \/ CallClose(t)
      PROVE  Still
  BY <1>1, <1>m, Callers, Kinds
    DEF CallDispatch, CallClose, Begin, Off, Leaving
<1>2. ASSUME NEW t \in Clients \cup Channeled, NEW x \in Channeled,
             CallUnsubscribe(t, x)
      PROVE  Still
  <2>1. /\ t \in Threads /\ t # Reducer /\ t \notin Iterators
        /\ pc[t] \notin {"ended"} /\ pc' = [pc EXCEPT ![t] = "lockAdding"]
        /\ target' = [target EXCEPT ![t] = x]
        /\ UNCHANGED <<version, subscribers, subsLock, rest, base, views, feed,
                       ending, closed>>
    BY <1>2, Callers DEF CallUnsubscribe, Begin
  <2> QED
    BY <1>p, <2>1, Kinds DEF Still, Off
<1>3. ASSUME NEW t \in Clients \cup Channeled, NEW x \in Channeled,
             CallSubscribed(t, x)
      PROVE  Still
  <2>1. /\ t \in Threads /\ t # Reducer /\ t \notin Iterators
        /\ pc[t] \notin {"ended"} /\ pc[x] = "unborn"
        /\ pc' = [pc EXCEPT ![t] = "push", ![x] = "recv"]
        /\ target' = [target EXCEPT ![t] = x]
        /\ UNCHANGED <<version, subscribers, subsLock, rest, base, views, feed,
                       ending, closed>>
    BY <1>3, Callers DEF CallSubscribed
  <2> QED
    BY <1>p, <2>1, Kinds DEF Still, Off
<1>4. ASSUME NEW x \in Iterators, CallIter(x)
      PROVE  Still
  BY <1>4, <1>m, Kinds DEF CallIter, Off, Leaving
<1>5. ASSUME NEW t \in Threads, PushAdding(t) \/ LockTx(t)
      PROVE  Still
  BY <1>5, <1>c, <1>m, Kinds DEF PushAdding, LockTx, Off, Leaving
<1>6. ASSUME NEW t \in Threads, FindClosed(t) \/ UndoAdding(t) \/ SendOp(t)
      PROVE  Still
  <2>1. /\ t \in Clients \cup Subs /\ t # Reducer /\ pc[t] \notin Leaving
        /\ UNCHANGED <<version, subscribers, subsLock, rest, base, views, feed,
                       ending, closed>>
    BY <1>6, <1>c DEF FindClosed, UndoAdding, SendOp
  <2>2. \/ Return(t)
        \/ UNCHANGED target /\ \E s \in {"undo", "failed"} : Goto(t, s)
    BY <1>6 DEF FindClosed, UndoAdding, SendOp
  <2>3. CASE Return(t)
    <3>1. /\ Goto(t, Home(t)) /\ Home(t) \notin Off \cup Leaving
          /\ t \in Threads
      BY <2>1, <2>3, HomeType, Kinds DEF Return, Off, Leaving
    <3>2. \A u \in Clients \cup Channeled : u # t => target'[u] = target[u]
      BY <1>p, <2>3 DEF Return
    <3> QED
      BY <1>m, <2>1, <3>1, <3>2
  <2>4. CASE UNCHANGED target /\ \E s \in {"undo", "failed"} : Goto(t, s)
    BY <1>m, <2>1, <2>4 DEF Off, Leaving
  <2> QED
    BY <2>2, <2>3, <2>4
<1>7. ASSUME NEW t \in Threads, LockAdding(t)
      PROVE  Still
  <2>1. /\ t # Reducer /\ pc[t] = "lockAdding"
        /\ pc' = [pc EXCEPT ![t] = "lockSubs"]
        /\ UNCHANGED <<version, subscribers, subsLock, rest, base, views, feed,
                       ending, closed, target>>
    BY <1>7 DEF LockAdding
  <2> QED
    BY <1>p, <2>1, Kinds DEF Still, Off, Leaving
<1>8. ASSUME NEW x \in Subs, CallbackReturns(x) \/ IterCallNext(x)
      PROVE  Still
  BY <1>8, <1>m, Kinds DEF CallbackReturns, IterCallNext, Off, Leaving
<1>9. CASE UNCHANGED vars
  BY <1>9 DEF vars, Still
<1> QED
  BY <1>1, <1>2, <1>3, <1>4, <1>5, <1>6, <1>7, <1>8, <1>9
  DEF Next, Calling, Step, Consume

\* Who begins to subscribe, or was not there before.
LEMMA PushSteps ==
  ASSUME TypeOK, Places, [Next]_vars, NEW t \in Threads,
         pc'[t] \in {"push", "unborn"}
  PROVE  \/ /\ pc'[t] = pc[t]
            /\ t \in Clients \cup Channeled => target'[t] = target[t]
         \/ t \in Clients \cup Channeled
            /\ \E x \in Channeled : CallSubscribed(t, x)
         \/ t \in Iterators /\ CallIter(t)
<1> USE DEF dispatchTx, lists, feeds, locals, history, Goto
<1> DEFINE Same == /\ pc'[t] = pc[t]
                   /\ t \in Clients \cup Channeled => target'[t] = target[t]
<1>p. /\ pc \in [Threads -> Steps]
      /\ target \in [Clients \cup Channeled -> Channeled \cup {NoOne}]
  BY DEF TypeOK
<1>m. ASSUME NEW u \in Threads, NEW s, s \notin {"push", "unborn"}, Goto(u, s),
             \A v \in Clients \cup Channeled : v # u => target'[v] = target[v]
      PROVE  Same
  BY <1>m, <1>p
<1>r. ASSUME NEW u \in Clients \cup Subs, Return(u)
      PROVE  Same
  <2>1. Home(u) \notin {"push", "unborn"} /\ u \in Threads
    BY HomeType, Kinds
  <2>2. \A v \in Clients \cup Channeled : v # u => target'[v] = target[v]
    BY <1>p, <1>r DEF Return
  <2> QED
    BY <1>m, <1>r, <2>1, <2>2 DEF Return
<1>1. ASSUME NEW u \in Clients \cup Channeled,
             CallDispatch(u) \/ CallClose(u)
               \/ \E x \in Channeled : CallUnsubscribe(u, x)
      PROVE  Same
  BY <1>1, <1>m, <1>p, Kinds
    DEF CallDispatch, CallClose, CallUnsubscribe, Begin
<1>2. ASSUME NEW u \in Clients \cup Channeled, NEW x \in Channeled,
             CallSubscribed(u, x), u # t
      PROVE  Same
  BY <1>2, <1>p, Kinds DEF CallSubscribed
<1>3. ASSUME NEW y \in Iterators, CallIter(y), y # t
      PROVE  Same
  BY <1>3, <1>p, Kinds DEF CallIter
<1>4. ASSUME NEW u \in Threads, Step(u)
      PROVE  Same
  <2>1. CASE FindClosed(u) \/ UndoAdding(u) \/ SendOp(u) \/ Unsubscribed(u)
    <3>1. \/ Return(u)
          \/ /\ \E s \in {"undo", "failed", "ended", "close"} : Goto(u, s)
             /\ UNCHANGED target
      BY <2>1 DEF FindClosed, UndoAdding, SendOp, Unsubscribed
    <3>2. u \in Clients \cup Subs
      BY <2>1, Kinds
        DEF FindClosed, UndoAdding, SendOp, Unsubscribed, Places, Telling, Off
    <3> QED
      BY <1>m, <1>r, <3>1, <3>2
  <2>2. CASE FeedPush(u) \/ FeedGiveUp(u)
    <3>1. /\ \E s \in {"join", "told", "recv", "notify"} :
               Goto(u, s) \/ Goto(Reducer, s)
          /\ UNCHANGED target
      BY <2>2 DEF FeedPush, FeedGiveUp, AfterSend, NotifyRest
    <3> QED
      BY <1>m, <3>1, Kinds
  <2>3. CASE \/ PushAdding(u) \/ LockTx(u) \/ LockAdding(u)
             \/ LockSubscribers(u) \/ OffChanneled(u) \/ OffIterator(u)
             \/ Joined(u) \/ FeedWait(u)
    BY <1>m, <2>3
      DEF PushAdding, LockTx, LockAdding, LockSubscribers, OffChanneled,
          OffIterator, Joined, FeedWait
  <2> QED
    BY <1>4, <2>1, <2>2, <2>3 DEF Step
<1>5. ASSUME NEW y \in Subs, Consume(y)
      PROVE  Same
  <2>1. CASE IterNotifyAll(y)
    <3>1. /\ UNCHANGED target
          /\ \/ pc'[t] = pc[t] \/ pc'[t] \in {"lockAdding", "ended", "giveUp"}
      BY <2>1 DEF IterNotifyAll
    <3> QED
      BY <3>1
  <2> QED
    BY <1>5, <1>m, <2>1, Kinds
      DEF Consume, LoopRecv, CallbackReturns, IterCallNext, IterNext, IterClose
<1>6. CASE Reduce
  <2>1. CASE Recv
    <3>1. Head(queue) \in {"Action", "AddSubscriber", "Exit"}
      BY <2>1, HeadTailProperties DEF TypeOK, Recv
    <3>2. /\ \E s \in {"snapshot", "lockAdding", "clear"} : Goto(Reducer, s)
          /\ UNCHANGED target
      BY <2>1, <3>1 DEF Recv
    <3> QED
      BY <1>m, <3>2, Kinds
  <2>2. CASE ~Recv
    <3>1. /\ \E s \in {"recv", "notify", "send", "lockSubs", "done", "off"} :
               Goto(Reducer, s)
          /\ UNCHANGED target
      BY <1>6, <2>2
        DEF Reduce, Snapshot, NotifyChanneled, NotifyIterator,
            LockNewSubscribers, DoSubscribe, ClearSubscribers, ClearTold,
            ClearRest, NotifyRest
    <3> QED
      BY <1>m, <3>1, Kinds
  <2> QED
    BY <2>1, <2>2
<1>7. CASE UNCHANGED vars
  BY <1>7 DEF vars
<1> QED
  BY <1>1, <1>2, <1>3, <1>4, <1>5, <1>6, <1>7 DEF Next, Calling

-----------------------------------------------------------------------------
(* Lists *)

\* Removing a subscriber leaves the others distinct.
LEMMA WithoutInjective ==
  ASSUME NEW S, NEW q \in Seq(S), NEW x, IsInjective(q)
  PROVE  IsInjective(Without(q, x))
<1>1. CASE x \notin ToSet(q)
  BY <1>1 DEF Without
<1>2. CASE x \in ToSet(q)
  <2> DEFINE n == CHOOSE i \in DOMAIN q : q[i] = x
  <2>1. n \in 1 .. Len(q)
    BY <1>2, LenProperties DEF ToSet
  <2>2. Without(q, x) = RemoveAt(q, n)
    BY <1>2 DEF Without
  <2> HIDE DEF n
  <2> QED
    BY <2>1, <2>2, RemoveAtInjective
<1> QED
  BY <1>1, <1>2

\* Who is about to be pushed to adding_subscribers is on no list.
LEMMA PushedFresh ==
  ASSUME SInv, Joining, Unserved, Ending, NEW t \in Threads, pc[t] = "push"
  PROVE  /\ t # Reducer /\ Target(t) \in Subs /\ Target(t) \notin closed
         /\ Target(t) \notin ToSet(adding) \cup ToSet(subscribers)
<1>1. TypeOK /\ Places /\ closed \subseteq Iterators
  BY DEF SInv, TypeOK
<1>2. t # Reducer
  BY <1>1 DEF Places, Telling, Off
<1>3. /\ Target(t) \in Subs
      /\ t \in Iterators => Target(t) = t
      /\ t \in Clients \cup Channeled => Target(t) \in Channeled
  BY <1>1, <1>2, TargetType DEF Dealing
<1>4. Target(t) \notin closed
  BY <1>1, <1>2, <1>3, Kinds DEF Ending, Leaving
<1> QED
  BY <1>2, <1>3, <1>4 DEF Joining, Unserved

\* Every step leaves the lists without repetition.
LEMMA ListsKept ==
  ASSUME FInv, [Next]_vars
  PROVE  Lists'
<1> USE DEF dispatchTx, lists, feeds, locals, history
<1>i. SInv /\ TypeOK /\ Places /\ Lists /\ Joining /\ Unserved /\ Ending
  BY DEF FInv, SInv
<1>p. /\ adding \in Seq(Subs) /\ subscribers \in Seq(Subs)
      /\ rest \in Seq(Subs)
  BY <1>i DEF TypeOK
<1>a. /\ IsInjective(adding) /\ IsInjective(subscribers) /\ IsInjective(rest)
      /\ ToSet(adding) \cap ToSet(subscribers) = {}
  BY <1>i DEF Lists
<1>s. CASE UNCHANGED <<adding, subscribers, rest>>
  BY <1>s, <1>a DEF Lists
<1>e. IsInjective(<<>>) /\ ToSet(<<>>) = {} /\ <<>> \in Seq(Subs)
  <2>1. <<>> \in Seq(Subs) /\ ToSet(<<>>) = {}
    BY ToSetProperties, EmptySeq
  <2>2. DOMAIN <<>> = {}
    BY <2>1, EmptySeq, LenProperties
  <2> QED
    BY <2>1, <2>2 DEF IsInjective
<1>t. rest # <<>> => IsInjective(Tail(rest))
  BY <1>a, <1>p, TailSet
<1>1. ASSUME NEW t \in Threads, PushAdding(t)
      PROVE  Lists'
  <2>1. /\ Target(t) \in Subs
        /\ Target(t) \notin ToSet(adding) \cup ToSet(subscribers)
    BY <1>1, <1>i, PushedFresh DEF PushAdding
  <2>2. /\ adding' = Append(adding, Target(t))
        /\ UNCHANGED <<subscribers, rest>>
    BY <1>1 DEF PushAdding
  <2>3. /\ ToSet(adding') = ToSet(adding) \cup {Target(t)}
        /\ IsInjective(adding')
    BY <1>a, <1>p, <2>1, <2>2, AppendSet
  <2> QED
    BY <1>a, <2>1, <2>2, <2>3 DEF Lists
<1>2. ASSUME NEW t \in Threads, UndoAdding(t) \/ LockAdding(t)
      PROVE  Lists'
  <2>1. /\ adding' = Without(adding, Target(t))
        /\ UNCHANGED <<subscribers, rest>>
    BY <1>2 DEF UndoAdding, LockAdding
  <2>2. IsInjective(adding') /\ ToSet(adding') \subseteq ToSet(adding)
    BY <1>a, <1>p, <2>1, WithoutInjective, WithoutProperties
  <2> QED
    BY <1>a, <2>1, <2>2 DEF Lists
<1>3. ASSUME NEW t \in Threads, Unsubscribed(t)
      PROVE  Lists'
  <2>1. /\ subscribers' = Without(subscribers, Target(t))
        /\ UNCHANGED <<adding, rest>>
    BY <1>3 DEF Unsubscribed
  <2>2. /\ IsInjective(subscribers')
        /\ ToSet(subscribers') \subseteq ToSet(subscribers)
    BY <1>a, <1>p, <2>1, WithoutInjective, WithoutProperties
  <2> QED
    BY <1>a, <2>1, <2>2 DEF Lists
<1>n. ASSUME rest' \in {subscribers, rest, Tail(rest)},
             rest' = Tail(rest) => rest # <<>>,
             UNCHANGED <<adding, subscribers>>
      PROVE  Lists'
  BY <1>a, <1>n, <1>t DEF Lists
<1>4. ASSUME NEW t \in Threads, FeedPush(t) \/ FeedGiveUp(t)
      PROVE  Lists'
  <2>1. /\ pc[t] \in Sending \cup {"giveUp"} /\ AfterSend(t)
        /\ UNCHANGED <<adding, subscribers>>
    BY <1>4 DEF FeedPush, FeedGiveUp, Sending
  <2>2. CASE Msg(t) # Exit
    <3>1. t = Reducer /\ rest # <<>>
      BY <1>i, <2>1, <2>2, MsgType
        DEF SInv, Places, Telling, Off, Sending
    <3> QED
      BY <1>n, <2>1, <2>2, <3>1 DEF AfterSend, NotifyRest
  <2>3. CASE Msg(t) = Exit
    BY <1>s, <2>1, <2>3 DEF AfterSend
  <2> QED
    BY <2>2, <2>3
<1>5. CASE Snapshot
  BY <1>5, <1>n, <1>a DEF Snapshot, NotifyRest, Lists
<1>6. CASE NotifyChanneled \/ NotifyIterator
  <2>1. rest # <<>> /\ UNCHANGED <<adding, subscribers>>
    BY <1>6, <1>i DEF NotifyChanneled, NotifyIterator, Places, Telling
  <2>2. rest' \in {rest, Tail(rest)}
    BY <1>6 DEF NotifyChanneled, NotifyIterator, NotifyRest
  <2> QED
    BY <1>n, <2>1, <2>2
<1>7. CASE DoSubscribe
  <2>1. /\ subscribers' = subscribers \o adding /\ adding' = <<>>
        /\ UNCHANGED rest
    BY <1>7 DEF DoSubscribe
  <2>2. IsInjective(subscribers')
    BY <1>a, <1>p, <2>1, ConcatSet
  <2> QED
    BY <1>a, <1>e, <2>1, <2>2 DEF Lists
<1>8. CASE ClearSubscribers \/ ClearTold
  <2>1. PICK seq \in {subscribers, Tail(rest)} :
          ClearRest(seq) /\ IsInjective(seq)
    <3>1. ClearTold => rest # <<>>
      BY <1>i DEF ClearTold, Places, Telling, Off
    <3> QED
      BY <1>8, <1>a, <1>t, <3>1 DEF ClearSubscribers, ClearTold
  <2>2. /\ rest' = seq /\ UNCHANGED adding
        /\ subscribers' \in {<<>>, subscribers}
    BY <2>1 DEF ClearRest
  <2> QED
    BY <1>a, <1>e, <2>1, <2>2 DEF Lists
<1>9. ASSUME NEW t \in Clients \cup Channeled, Calling(t)
      PROVE  Lists'
  BY <1>9, <1>s
    DEF Calling, CallDispatch, CallClose, CallUnsubscribe, CallSubscribed
<1>10. ASSUME NEW x \in Iterators, CallIter(x)
       PROVE  Lists'
  BY <1>10, <1>s DEF CallIter
<1>11. ASSUME NEW t \in Threads,
              \/ LockTx(t) \/ FindClosed(t) \/ SendOp(t) \/ LockSubscribers(t)
              \/ OffChanneled(t) \/ OffIterator(t) \/ Joined(t) \/ FeedWait(t)
       PROVE  Lists'
  BY <1>11, <1>s
    DEF LockTx, FindClosed, SendOp, LockSubscribers, OffChanneled, OffIterator,
        Joined, FeedWait
<1>12. ASSUME NEW x \in Subs, Consume(x)
       PROVE  Lists'
  BY <1>12, <1>s
    DEF Consume, LoopRecv, CallbackReturns, IterCallNext, IterNext, IterClose,
        IterNotifyAll
<1>13. CASE Recv \/ LockNewSubscribers
  BY <1>13, <1>s DEF Recv, LockNewSubscribers
<1>14. CASE UNCHANGED vars
  BY <1>14, <1>s DEF vars
<1> QED
  BY <1>1, <1>2, <1>3, <1>4, <1>5, <1>6, <1>7, <1>8, <1>9, <1>10, <1>11, <1>12,
     <1>13, <1>14
  DEF Next, Step, Reduce

-----------------------------------------------------------------------------
(* Joining *)

\* Nobody joins the lists twice.
LEMMA JoiningKept ==
  ASSUME FInv, [Next]_vars
  PROVE  Joining'
<1> USE DEF dispatchTx, lists, feeds, locals, history
<1>i. SInv /\ TypeOK /\ Places /\ Lists /\ Joining /\ Unserved /\ Ending
  BY DEF FInv, SInv
<1>p. /\ pc \in [Threads -> Steps] /\ base \in [Subs -> Nat \cup {Unlisted}]
      /\ target \in [Clients \cup Channeled -> Channeled \cup {NoOne}]
      /\ adding \in Seq(Subs)
  BY <1>i DEF TypeOK
<1>u. ASSUME NEW t \in Threads, pc[t] = "push"
      PROVE  /\ t # Reducer /\ Target(t) \in Subs
             /\ Target(t) \notin ToSet(adding)
             /\ base[Target(t)] = Unlisted /\ pc[Target(t)] # "unborn"
             /\ t \in Clients \cup Channeled => Target(t) = target[t]
  <2>1. t # Reducer
    BY <1>i, <1>u DEF Places, Telling, Off
  <2> QED
    BY <1>i, <1>u, <2>1, TargetType DEF Joining, Dealing
<1>x. Subs \subseteq Threads /\ Reducer \notin Subs
  BY Kinds
\* Nobody begins to subscribe.
<1>q. ASSUME \A t \in Threads : pc'[t] \in {"push", "unborn"} =>
               /\ pc'[t] = pc[t]
               /\ t \in Clients \cup Channeled => target'[t] = target[t],
             ToSet(adding') \subseteq Subs,
             \A x \in ToSet(adding') :
               \/ x \in ToSet(adding)
               \/ /\ base[x] = Unlisted /\ pc[x] # "unborn"
                  /\ \A t \in Threads : pc'[t] = "push" => Target(t) # x,
             \A x \in Subs : base'[x] = base[x]
                             \/ (x \in ToSet(adding) /\ ToSet(adding') = {})
      PROVE  Joining'
  <2>1. ASSUME NEW t \in Threads, pc'[t] = "push"
        PROVE  /\ pc[t] = "push" /\ Target(t)' = Target(t)
               /\ Target(t) \in Subs
    <3>1. t # Reducer /\ pc[t] = "push" /\ Target(t) \in Subs
      BY <1>q, <1>u, <2>1
    <3> QED
      BY <1>q, <2>1, <3>1, Kinds DEF Target
  <2>2. ASSUME NEW x \in ToSet(adding')
        PROVE  base'[x] = Unlisted /\ pc'[x] # "unborn"
    <3>1. base[x] = Unlisted /\ pc[x] # "unborn" /\ x \in Subs
      BY <1>i, <1>q, <2>2 DEF Joining
    <3> QED
      BY <1>q, <1>x, <2>2, <3>1
  <2>3. ASSUME NEW x \in Subs, pc'[x] = "unborn"
        PROVE  base'[x] = Unlisted
    <3>1. pc[x] = "unborn" /\ base[x] = Unlisted /\ x \notin ToSet(adding)
      BY <1>i, <1>q, <1>x, <2>3 DEF Joining
    <3> QED
      BY <1>q, <3>1
  <2>4. ASSUME NEW t \in Threads, pc'[t] = "push"
        PROVE  /\ Target(t)' \notin ToSet(adding')
               /\ base'[Target(t)'] = Unlisted /\ pc'[Target(t)'] # "unborn"
               /\ \A u \in Threads :
                    pc'[u] = "push" /\ Target(u)' = Target(t)' => u = t
    <3>1. pc[t] = "push" /\ Target(t)' = Target(t) /\ Target(t) \in Subs
      BY <2>1, <2>4
    <3>2. /\ Target(t) \notin ToSet(adding) /\ base[Target(t)] = Unlisted
          /\ pc[Target(t)] # "unborn"
      BY <1>u, <3>1
    <3>3. base'[Target(t)] = Unlisted /\ pc'[Target(t)] # "unborn"
      BY <1>q, <1>x, <3>1, <3>2
    <3>4. Target(t) \notin ToSet(adding')
      BY <1>q, <2>4, <3>2
    <3>5. ASSUME NEW u \in Threads, pc'[u] = "push", Target(u)' = Target(t)'
          PROVE  u = t
      <4>1. pc[u] = "push" /\ Target(u) = Target(t)
        BY <2>1, <3>1, <3>5
      <4> QED
        BY <1>i, <3>1, <4>1 DEF Joining
    <3> QED
      BY <3>1, <3>3, <3>4, <3>5
  <2> QED
    BY <2>2, <2>3, <2>4 DEF Joining
\* t begins to subscribe x.
<1>b. ASSUME NEW t \in Threads, NEW x \in Subs, pc[x] = "unborn",
             pc'[t] = "push", pc'[x] # "unborn", Target(t)' = x, t # Reducer,
             UNCHANGED <<adding, base>>,
             \A u \in Threads \ {t, x} : pc'[u] = pc[u],
             x # t => pc'[x] # "push",
             \A u \in Clients \cup Channeled : u # t => target'[u] = target[u]
      PROVE  Joining'
  <2>1. base[x] = Unlisted /\ x \notin ToSet(adding)
    BY <1>b, <1>i DEF Joining
  <2>2. ASSUME NEW u \in Threads, pc'[u] = "push", u # t
        PROVE  /\ pc[u] = "push" /\ Target(u)' = Target(u)
               /\ Target(u) \in Subs /\ Target(u) # x
    <3>1. u # x /\ pc[u] = "push"
      BY <1>b, <2>2
    <3>2. u # Reducer /\ Target(u) \in Subs /\ pc[Target(u)] # "unborn"
      BY <1>u, <3>1
    <3>3. Target(u)' = Target(u)
      BY <1>b, <2>2, <3>2, Kinds DEF Target
    <3> QED
      BY <1>b, <3>1, <3>2, <3>3
  <2>3. \A y \in Subs : pc'[y] = "unborn" => pc[y] = "unborn"
    BY <1>b, <1>x
  <2>4. ASSUME NEW u \in Threads, pc'[u] = "push"
        PROVE  /\ Target(u)' \notin ToSet(adding')
               /\ base'[Target(u)'] = Unlisted /\ pc'[Target(u)'] # "unborn"
    <3>1. CASE u = t
      BY <1>b, <2>1, <3>1
    <3>2. CASE u # t
      BY <1>b, <1>u, <2>2, <2>3, <2>4, <3>2
    <3> QED
      BY <3>1, <3>2
  <2>5. ASSUME NEW u \in Threads, NEW v \in Threads, pc'[u] = "push",
               pc'[v] = "push", Target(u)' = Target(v)'
        PROVE  u = v
    <3>1. CASE u # t /\ v # t
      <4>1. pc[u] = "push" /\ pc[v] = "push" /\ Target(u) = Target(v)
        BY <2>2, <2>5, <3>1
      <4> QED
        BY <1>i, <4>1 DEF Joining
    <3>2. CASE u = t \/ v = t
      BY <1>b, <2>2, <2>5, <3>2
    <3> QED
      BY <3>1, <3>2
  <2>6. ASSUME NEW y \in ToSet(adding') PROVE base'[y] = Unlisted /\ pc'[y] # "unborn"
    <3>1. y \in Subs /\ base[y] = Unlisted /\ pc[y] # "unborn"
      BY <1>b, <1>i, <1>p, <2>6, ToSetProperties, ElementOfSeq DEF Joining
    <3> QED
      BY <1>b, <2>3, <3>1
  <2>7. \A y \in Subs : pc'[y] = "unborn" => base'[y] = Unlisted
    BY <1>b, <1>i, <2>3 DEF Joining
  <2> QED
    BY <2>4, <2>5, <2>6, <2>7 DEF Joining
<1>1. ASSUME NEW t \in Clients \cup Channeled, NEW x \in Channeled,
             CallSubscribed(t, x)
      PROVE  Joining'
  <2>1. /\ t \in Threads /\ x \in Subs /\ t # Reducer /\ t \notin Iterators
        /\ pc[t] # "unborn" /\ pc[x] = "unborn"
        /\ pc' = [pc EXCEPT ![t] = "push", ![x] = "recv"]
        /\ target' = [target EXCEPT ![t] = x]
        /\ UNCHANGED <<adding, base>>
    BY <1>1, <1>i, Callers, Kinds DEF CallSubscribed
  <2>2. t # x /\ x \in Threads
    BY <2>1, <1>x
  <2>3. Target(t)' = x
    BY <1>p, <2>1, Kinds DEF Target
  <2> QED
    BY <1>b, <1>p, <2>1, <2>2, <2>3
<1>2. ASSUME NEW x \in Iterators, CallIter(x)
      PROVE  Joining'
  <2>1. /\ x \in Threads /\ x \in Subs /\ x # Reducer /\ pc[x] = "unborn"
        /\ pc' = [pc EXCEPT ![x] = "push"]
        /\ UNCHANGED <<adding, base, target>>
    BY <1>2, Kinds DEF CallIter, Goto
  <2>2. Target(x)' = x
    BY <2>1, Kinds DEF Target
  <2> QED
    BY <1>b, <1>p, <2>1, <2>2
<1>c. ASSUME ~\E t \in Clients \cup Channeled :
                \E x \in Channeled : CallSubscribed(t, x),
             ~\E x \in Iterators : CallIter(x)
      PROVE  \A t \in Threads : pc'[t] \in {"push", "unborn"} =>
               /\ pc'[t] = pc[t]
               /\ t \in Clients \cup Channeled => target'[t] = target[t]
  BY <1>c, <1>i, PushSteps
<1>a. ToSet(adding) \subseteq Subs
  BY <1>p, ToSetProperties, ElementOfSeq
<1>3. ASSUME NEW t \in Threads, PushAdding(t),
             \A u \in Threads : pc'[u] \in {"push", "unborn"} =>
               /\ pc'[u] = pc[u]
               /\ u \in Clients \cup Channeled => target'[u] = target[u]
      PROVE  Joining'
  <2>1. /\ Target(t) \in Subs /\ base[Target(t)] = Unlisted
        /\ pc[Target(t)] # "unborn" /\ pc[t] = "push"
    BY <1>3, <1>u DEF PushAdding
  <2>2. /\ adding' = Append(adding, Target(t)) /\ UNCHANGED base
        /\ pc' = [pc EXCEPT ![t] = "lockTx"]
    BY <1>3 DEF PushAdding, Goto
  <2>3. ToSet(adding') = ToSet(adding) \cup {Target(t)}
    BY <1>p, <2>1, <2>2, AppendSet
  <2>4. \A u \in Threads : pc'[u] = "push" => u # t /\ pc[u] = "push"
    BY <1>p, <2>2
  <2>5. \A u \in Threads : pc'[u] = "push" => Target(u) # Target(t)
    BY <1>i, <2>1, <2>4 DEF Joining
  <2>6. \A x \in ToSet(adding') :
          \/ x \in ToSet(adding)
          \/ /\ base[x] = Unlisted /\ pc[x] # "unborn"
             /\ \A u \in Threads : pc'[u] = "push" => Target(u) # x
    BY <2>1, <2>3, <2>5
  <2>7. ToSet(adding') \subseteq Subs
    BY <1>a, <2>1, <2>3
  <2>8. \A x \in Subs : base'[x] = base[x]
                        \/ (x \in ToSet(adding) /\ ToSet(adding') = {})
    BY <2>2
  <2> QED
    BY <1>3, <1>q, <2>6, <2>7, <2>8
<1>4. CASE DoSubscribe /\ \A t \in Threads : pc'[t] \in {"push", "unborn"} =>
               /\ pc'[t] = pc[t]
               /\ t \in Clients \cup Channeled => target'[t] = target[t]
  <2>1. /\ adding' = <<>>
        /\ base' = [x \in Subs |->
                     IF x \in ToSet(adding) \ closed THEN version ELSE base[x]]
    BY <1>4 DEF DoSubscribe
  <2>2. ToSet(adding') = {}
    BY <2>1, ToSetProperties, EmptySeq
  <2>3. \A x \in Subs : base'[x] = base[x] \/ x \in ToSet(adding)
    BY <2>1
  <2> QED
    BY <1>4, <1>q, <2>2, <2>3
<1>5. ASSUME ToSet(adding') \subseteq ToSet(adding), UNCHANGED base,
             \A t \in Threads : pc'[t] \in {"push", "unborn"} =>
               /\ pc'[t] = pc[t]
               /\ t \in Clients \cup Channeled => target'[t] = target[t]
      PROVE  Joining'
  <2>1. \A x \in ToSet(adding') :
          \/ x \in ToSet(adding)
          \/ /\ base[x] = Unlisted /\ pc[x] # "unborn"
             /\ \A t \in Threads : pc'[t] = "push" => Target(t) # x
    BY <1>5
  <2>2. ToSet(adding') \subseteq Subs
    BY <1>5, <1>a
  <2>3. \A x \in Subs : base'[x] = base[x]
                        \/ (x \in ToSet(adding) /\ ToSet(adding') = {})
    BY <1>5
  <2> QED
    BY <1>5, <1>q, <2>1, <2>2, <2>3
\* No other step adds to adding_subscribers, or lists anybody.
<1>6. \/ ToSet(adding') \subseteq ToSet(adding) /\ UNCHANGED base
      \/ \E t \in Threads : PushAdding(t)
      \/ DoSubscribe
  <2>1. ASSUME NEW t \in Threads, UndoAdding(t) \/ LockAdding(t)
        PROVE  ToSet(adding') \subseteq ToSet(adding) /\ UNCHANGED base
    BY <1>p, <2>1, WithoutProperties DEF UndoAdding, LockAdding
  <2>2. ASSUME NEW t \in Threads, Step(t), ~PushAdding(t)
        PROVE  ToSet(adding') \subseteq ToSet(adding) /\ UNCHANGED base
    BY <2>1, <2>2
      DEF Step, LockTx, FindClosed, SendOp, LockSubscribers, Unsubscribed,
          OffChanneled, OffIterator, Joined, FeedPush, FeedWait, FeedGiveUp
  <2>3. CASE Reduce /\ ~DoSubscribe
    BY <2>3
      DEF Reduce, Recv, Snapshot, NotifyChanneled, NotifyIterator,
          LockNewSubscribers, ClearSubscribers, ClearTold, ClearRest
  <2>4. ASSUME NEW x \in Subs, Consume(x)
        PROVE  UNCHANGED <<adding, base>>
    BY <2>4
      DEF Consume, LoopRecv, CallbackReturns, IterCallNext, IterNext,
          IterClose, IterNotifyAll
  <2>5. ASSUME NEW t \in Clients \cup Channeled, Calling(t)
        PROVE  UNCHANGED <<adding, base>>
    BY <2>5
      DEF Calling, CallDispatch, CallClose, CallUnsubscribe, CallSubscribed
  <2>6. ASSUME NEW x \in Iterators, CallIter(x)
        PROVE  UNCHANGED <<adding, base>>
    BY <2>6 DEF CallIter
  <2>7. CASE UNCHANGED vars
    BY <2>7 DEF vars
  <2> QED
    BY <2>2, <2>3, <2>4, <2>5, <2>6, <2>7 DEF Next
<1> QED
  BY <1>1, <1>2, <1>3, <1>4, <1>5, <1>6, <1>c

-----------------------------------------------------------------------------
(* Unserved *)

\* Nobody sends to a subscriber that is not listed yet, or tells it off.
LEMMA UnservedKept ==
  ASSUME FInv, [Next]_vars
  PROVE  Unserved'
<1> USE DEF dispatchTx, lists, feeds, locals, history
<1>i. /\ SInv /\ TypeOK /\ Places /\ Owners /\ Notifying /\ Unserved
      /\ Removing
  BY DEF FInv, SInv
<1>p. /\ base \in [Subs -> Nat \cup {Unlisted}]
      /\ feed \in [Subs -> Seq(Nat)] /\ views \in [Subs -> Seq(Nat)]
      /\ version \in Nat
      /\ adding \in Seq(Subs) /\ subscribers \in Seq(Subs)
      /\ rest \in Seq(Subs)
  BY <1>i DEF TypeOK
<1>n. Unlisted \notin Nat
  BY DEF Unlisted
<1>r. rest # <<>> => /\ ToSet(Tail(rest)) \subseteq ToSet(rest)
                     /\ Head(rest) \in ToSet(rest)
  BY <1>p, TailSet
<1>e. ToSet(<<>>) = {}
  BY ToSetProperties, EmptySeq
\* Steps that touch nobody who is not on the list.
<1>q. ASSUME \A x \in Subs : base'[x] = base[x] \/ base'[x] \in Nat,
             closed \subseteq closed',
             \A x \in Subs : base'[x] = Unlisted /\ x \notin closed' =>
               (x \in ToSet(subscribers') => x \in ToSet(subscribers)),
             ToSet(rest') \subseteq ToSet(rest) \cup ToSet(subscribers),
             \A x \in Subs : base[x] = Unlisted /\ x \notin closed
                             /\ x \notin ToSet(subscribers) \cup ToSet(rest)
                             /\ x \notin ending /\ feed[x] = <<>> =>
               /\ x \notin ending'
               /\ feed'[x] = feed[x] /\ views'[x] = views[x]
      PROVE  Unserved'
  <2> SUFFICES ASSUME NEW x \in Subs, base'[x] = Unlisted, x \notin closed'
               PROVE  /\ x \notin ToSet(subscribers') \cup ToSet(rest')
                                    \cup ending'
                      /\ feed'[x] = <<>> /\ views'[x] = <<>>
    BY DEF Unserved
  <2>1. base[x] = Unlisted /\ x \notin closed
    BY <1>n, <1>q
  <2>2. /\ x \notin ToSet(subscribers) \cup ToSet(rest) \cup ending
        /\ feed[x] = <<>> /\ views[x] = <<>>
    BY <1>i, <2>1 DEF Unserved
  <2> QED
    BY <1>q, <2>1, <2>2
<1>k. ASSUME UNCHANGED <<base, ending, feed, views>>, closed \subseteq closed',
             ToSet(subscribers') \subseteq ToSet(subscribers),
             ToSet(rest') \subseteq ToSet(rest) \cup ToSet(subscribers)
      PROVE  Unserved'
  BY <1>k, <1>q
<1>1. CASE Still
  BY <1>1, <1>k DEF Still
<1>2. ASSUME NEW t \in Threads,
             \/ LockSubscribers(t) \/ OffIterator(t) \/ Joined(t)
             \/ FeedWait(t)
      PROVE  Unserved'
  BY <1>2, <1>k DEF LockSubscribers, OffIterator, Joined, FeedWait
<1>3. ASSUME NEW t \in Threads, Unsubscribed(t)
      PROVE  Unserved'
  <2>1. ToSet(subscribers') \subseteq ToSet(subscribers)
    BY <1>3, <1>p, WithoutProperties DEF Unsubscribed
  <2> QED
    BY <1>3, <1>k, <2>1 DEF Unsubscribed
\* Who is told off is on the list, or was when the reducer copied it, or its tx
\* is taken.
<1>t. ASSUME NEW t \in Threads, pc[t] \in {"off", "send", "wait"}
      PROVE  /\ t = Reducer => rest # <<>> /\ Target(t) = Head(rest)
             /\ Target(t) \in ToSet(subscribers) \cup ToSet(rest) \cup ending
  <2>1. CASE t = Reducer
    <3>1. rest # <<>>
      BY <1>i, <1>t, <2>1 DEF Places, Telling, Off
    <3> QED
      BY <1>r, <2>1, <3>1, Kinds DEF Target
  <2>2. CASE t # Reducer /\ pc[t] = "off"
    BY <1>i, <2>2 DEF Removing
  <2>3. CASE t # Reducer /\ pc[t] \in Sending
    <3>1. subsLock = t /\ t \in Clients \cup Channeled
      BY <1>i, <2>3, Kinds DEF Owners, Places, Sending, Off
    <3>2. Target(t) \in Channeled
      BY <1>i, <2>3, <3>1, Kinds, TargetType DEF Sending, Dealing, Off
    <3> QED
      BY <1>i, <2>3, <3>1, <3>2 DEF Notifying
  <2> QED
    BY <1>t, <2>1, <2>2, <2>3 DEF Sending
<1>4. ASSUME NEW t \in Threads, OffChanneled(t)
      PROVE  Unserved'
  <2>1. /\ UNCHANGED <<base, closed, subscribers, rest, feed, views>>
        /\ ending' = ending \cup {Target(t)} /\ pc[t] = "off"
    BY <1>4 DEF OffChanneled
  <2>2. Target(t) \in ToSet(subscribers) \cup ToSet(rest) \cup ending
    BY <1>t, <2>1
  <2> QED
    BY <1>q, <2>1, <2>2
<1>5. ASSUME NEW t \in Threads, FeedPush(t) \/ FeedGiveUp(t)
      PROVE  Unserved'
  <2>1. /\ pc[t] \in Sending \cup {"giveUp"} /\ AfterSend(t)
        /\ UNCHANGED <<base, closed, subscribers, views>>
    BY <1>5 DEF FeedPush, FeedGiveUp, Sending
  <2>2. rest' = rest \/ (rest # <<>> /\ rest' = Tail(rest))
    <3>1. CASE Msg(t) # Exit
      <4>1. t = Reducer /\ rest # <<>>
        BY <1>i, <2>1, <3>1, MsgType DEF Places, Telling, Off, Sending
      <4> QED
        BY <2>1, <3>1, <4>1 DEF AfterSend, NotifyRest
    <3>2. CASE Msg(t) = Exit
      BY <2>1, <3>2 DEF AfterSend
    <3> QED
      BY <3>1, <3>2
  <2>3. ToSet(rest') \subseteq ToSet(rest)
    BY <1>r, <2>2
  <2>4. CASE FeedGiveUp(t)
    BY <1>k, <2>1, <2>3, <2>4 DEF FeedGiveUp
  <2>5. CASE FeedPush(t)
    <3>1. Target(t) \in ToSet(subscribers) \cup ToSet(rest) \cup ending
      BY <1>t, <2>5 DEF FeedPush
    <3>2. /\ feed' = [feed EXCEPT ![Target(t)] = Append(@, Msg(t))]
          /\ ending' \subseteq ending \cup {Target(t)}
      BY <2>5 DEF FeedPush
    <3>3. \A x \in Subs : x # Target(t) => feed'[x] = feed[x]
      BY <1>p, <3>2
    <3> QED
      BY <1>q, <2>1, <2>3, <3>1, <3>2, <3>3
  <2> QED
    BY <1>5, <2>4, <2>5
<1>6. ASSUME NEW y \in Subs, LoopRecv(y) \/ IterNext(y)
      PROVE  Unserved'
  <2>1. /\ feed[y] # <<>> /\ feed' = [feed EXCEPT ![y] = Tail(@)]
        /\ \A x \in Subs : x # y => views'[x] = views[x]
        /\ UNCHANGED <<base, closed, subscribers, rest, ending>>
    BY <1>6, <1>p DEF LoopRecv, IterNext
  <2>2. \A x \in Subs : x # y => feed'[x] = feed[x]
    BY <1>p, <2>1
  <2> QED
    BY <1>q, <2>1, <2>2
<1>7. ASSUME NEW y \in Subs, IterClose(y) \/ IterNotifyAll(y)
      PROVE  Unserved'
  BY <1>7, <1>k DEF IterClose, IterNotifyAll
<1>8. CASE Recv \/ LockNewSubscribers
  BY <1>8, <1>k DEF Recv, LockNewSubscribers
<1>9. CASE Snapshot
  BY <1>9, <1>k DEF Snapshot, NotifyRest
<1>10. CASE NotifyChanneled \/ NotifyIterator
  <2>1. /\ rest # <<>> /\ rest' \in {rest, Tail(rest)}
        /\ UNCHANGED <<base, closed, subscribers, ending, feed, views>>
    BY <1>10, <1>i
      DEF NotifyChanneled, NotifyIterator, NotifyRest, Places, Telling
  <2> QED
    BY <1>k, <1>r, <2>1
<1>11. CASE DoSubscribe
  <2>1. /\ subscribers' = subscribers \o adding
        /\ base' = [x \in Subs |->
                     IF x \in ToSet(adding) \ closed THEN version ELSE base[x]]
        /\ UNCHANGED <<closed, rest, ending, feed, views>>
    BY <1>11 DEF DoSubscribe
  <2>2. ToSet(subscribers') = ToSet(subscribers) \cup ToSet(adding)
    BY <1>p, <2>1, ConcatSet
  <2>3. \A x \in Subs : base'[x] = Unlisted /\ x \notin closed'
                          => x \notin ToSet(adding)
    BY <1>n, <1>p, <2>1
  <2>4. \A x \in Subs : base'[x] = base[x] \/ base'[x] \in Nat
    BY <1>p, <2>1
  <2> QED
    BY <1>q, <2>1, <2>2, <2>3, <2>4
<1>12. CASE ClearSubscribers \/ ClearTold
  <2>1. PICK seq \in {subscribers, Tail(rest)} :
          ClearRest(seq) /\ (seq = Tail(rest) /\ seq # subscribers
                               => rest # <<>>)
    <3>1. ClearTold => rest # <<>>
      BY <1>i DEF ClearTold, Places, Telling, Off
    <3> QED
      BY <1>12, <3>1 DEF ClearSubscribers, ClearTold
  <2>2. /\ rest' = seq /\ subscribers' \in {<<>>, subscribers}
        /\ UNCHANGED <<base, closed, ending, feed, views>>
    BY <2>1 DEF ClearRest
  <2> QED
    BY <1>e, <1>k, <1>r, <2>1, <2>2
<1> QED
  BY <1>1, <1>2, <1>3, <1>4, <1>5, <1>6, <1>7, <1>8, <1>9, <1>10, <1>11, <1>12,
     <1>i, StillSteps
  DEF Reduce

-----------------------------------------------------------------------------
(* Removing *)

\* Who has been told is off the list, or its end is on its way.
LEMMA ToldOff ==
  ASSUME SInv, Ending, NEW t \in Threads, t # Reducer, pc[t] = "told"
  PROVE  /\ t \in Clients \cup Subs /\ subsLock = t
         /\ \/ Target(t) \notin ToSet(subscribers)
            \/ Target(t) \in ending \cup closed
<1>i. TypeOK /\ Places /\ Owners /\ Listing
  BY DEF SInv
<1>1. t \in Clients \cup Subs /\ subsLock = t
  BY <1>i, Kinds DEF Owners, Off
<1>2. Target(t) \in Subs /\ (Target(t) \in Iterators => Target(t) = t)
  <2>1. /\ Target(t) \in Subs
        /\ t \in Iterators => Target(t) = t
        /\ t \in Clients \cup Channeled => Target(t) \in Channeled
    BY <1>i, TargetType DEF Dealing, Off
  <2> QED
    BY <1>1, <2>1, Kinds
<1>3. \/ Target(t) \in Iterators \/ pc[Target(t)] = "ended"
      \/ Target(t) \notin ToSet(subscribers)
  BY <1>i DEF Listing
<1>4. Target(t) \in Iterators => Target(t) \in ending \cup closed
  BY <1>2 DEF Ending, Leaving
<1> QED
  BY <1>1, <1>2, <1>3, <1>4, Kinds DEF Ending

\* Who is taken off the list has been told, or is gone.
LEMMA RemovingKept ==
  ASSUME FInv, [Next]_vars
  PROVE  Removing'
<1> USE DEF dispatchTx, lists, feeds, locals, history, Goto
<1>i. /\ SInv /\ TypeOK /\ Places /\ Owners /\ Notifying /\ Iterating /\ Listing
      /\ Ending /\ Removing
  BY DEF FInv, SInv
<1>p. /\ pc \in [Threads -> Steps]
      /\ target \in [Clients \cup Channeled -> Channeled \cup {NoOne}]
      /\ adding \in Seq(Subs) /\ subscribers \in Seq(Subs)
      /\ rest \in Seq(Subs)
  BY <1>i DEF TypeOK
<1>r. rest # <<>> => ToSet(rest) = ToSet(Tail(rest)) \cup {Head(rest)}
  BY <1>p, TailSet
<1>e. ToSet(<<>>) = {}
  BY ToSetProperties, EmptySeq
\* The lists stay, and the reducer where it is.
<1>q. ASSUME UNCHANGED <<subscribers, rest>>,
             ending \subseteq ending', closed \subseteq closed',
             subsLock' = Reducer => subsLock = Reducer,
             \A t \in Threads \ {Reducer} : pc'[t] = "off" =>
               /\ pc[t] = "off"
               /\ t \in Clients \cup Channeled => target'[t] = target[t],
             pc'[Reducer] \in {"giveUp", "join", "told"}
               => pc'[Reducer] = pc[Reducer]
      PROVE  Removing'
  <2>1. ASSUME NEW t \in Threads \ {Reducer}, pc'[t] = "off"
        PROVE  Target(t)' \in ToSet(subscribers')
    <3>1. Target(t) \in ToSet(subscribers)
      BY <1>i, <1>q, <2>1 DEF Removing
    <3> QED
      BY <1>q, <2>1, <3>1, Kinds DEF Target
  <2> QED
    BY <1>i, <1>q, <2>1 DEF Removing
<1>1. CASE Still
  BY <1>1, <1>q DEF Still, Off
<1>2. ASSUME NEW t \in Threads, LockSubscribers(t)
      PROVE  Removing'
  <2>1. /\ t # Reducer /\ pc[t] = "lockSubs" /\ subsLock' = t
        /\ pc' = [pc EXCEPT ![t] = IF Target(t) \in ToSet(subscribers)
                                     THEN "off" ELSE "told"]
        /\ UNCHANGED <<subscribers, rest, ending, closed, target>>
    BY <1>2 DEF LockSubscribers
  <2>2. \A u \in Threads \ {Reducer} : Target(u)' = Target(u)
    BY <2>1 DEF Target
  <2>3. ASSUME NEW u \in Threads \ {Reducer}, pc'[u] = "off"
        PROVE  Target(u) \in ToSet(subscribers)
    BY <1>i, <1>p, <2>1, <2>3 DEF Removing
  <2>4. pc'[Reducer] = pc[Reducer]
    BY <1>p, <2>1, Kinds
  <2> QED
    BY <1>i, <2>1, <2>2, <2>3, <2>4 DEF Removing
<1>3. ASSUME NEW t \in Threads, Unsubscribed(t)
      PROVE  Removing'
  <2> DEFINE x == Target(t)
  <2>1. /\ t # Reducer /\ t \in Clients \cup Subs /\ pc[t] = "told"
        /\ subsLock = t /\ subsLock' = NoOne
        /\ subscribers' = Without(subscribers, x)
        /\ UNCHANGED <<rest, ending, closed>>
    BY <1>3, <1>i, Kinds DEF Owners, Unsubscribed, Off
  <2>2. /\ pc'[Reducer] = pc[Reducer]
        /\ \A u \in Threads \ {Reducer} : pc'[u] # "off"
    <3>1. Return(t) \/ \E s \in {"ended", "close"} : Goto(t, s)
      BY <1>3 DEF Unsubscribed
    <3>2. \A u \in Threads \ {Reducer} : pc[u] = "off" => u = t
      BY <1>i, <2>1 DEF Owners, Off
    <3>3. Home(t) # "off" /\ t \in Threads
      BY <2>1, HomeType, Kinds
    <3> QED
      BY <1>p, <2>1, <3>1, <3>2, <3>3, Kinds DEF Return
  <2>3. /\ ToSet(subscribers) \ {x} \subseteq ToSet(subscribers')
        /\ ToSet(subscribers') \subseteq ToSet(subscribers)
    BY <1>p, <2>1, WithoutProperties
  <2>4. x \notin ToSet(subscribers) \/ x \in ending \cup closed
    BY <1>3, <1>i, ToldOff DEF Unsubscribed
  <2> QED
    BY <1>i, <2>1, <2>2, <2>3, <2>4, Kinds DEF Removing
<1>4. ASSUME NEW t \in Threads, OffChanneled(t) \/ OffIterator(t) \/ Joined(t)
      PROVE  Removing'
  <2>1. /\ UNCHANGED <<subscribers, rest, closed, subsLock, target>>
        /\ ending \subseteq ending'
        /\ \E s \in {"join", "send", "told"} : Goto(t, s)
    BY <1>4 DEF OffChanneled, OffIterator, Joined
  <2>2. CASE t # Reducer
    BY <1>p, <1>q, <2>1, <2>2, Kinds
  <2>3. CASE t = Reducer
    <3>1. Target(t) = Head(rest)
      BY <2>3, Kinds DEF Target
    <3>2. pc'[Reducer] \in {"join", "told"} => Head(rest) \in ending' \cup closed
      BY <1>4, <1>i, <1>p, <2>1, <2>3, <3>1
        DEF OffChanneled, OffIterator, Joined, Removing
    <3>3. \A u \in Threads \ {Reducer} : pc'[u] = pc[u] /\ Target(u)' = Target(u)
      BY <1>p, <2>1, <2>3 DEF Target
    <3>4. pc'[Reducer] # "giveUp"
      BY <1>p, <2>1, <2>3, Kinds
    <3> QED
      BY <1>i, <2>1, <3>2, <3>3, <3>4 DEF Removing
  <2> QED
    BY <2>2, <2>3
\* The reducer goes on to notify the next.
<1>n. ASSUME NEW seq, NotifyRest(seq), subsLock # Reducer,
             ToSet(seq) \subseteq ToSet(rest) \cup ToSet(subscribers),
             UNCHANGED <<subscribers, subsLock, target, closed>>,
             ending \subseteq ending'
      PROVE  Removing'
  <2>1. \A u \in Threads \ {Reducer} : pc'[u] = pc[u] /\ Target(u)' = Target(u)
    BY <1>p, <1>n DEF NotifyRest, Target
  <2>2. pc'[Reducer] \in {"recv", "notify"} /\ rest' = seq
    BY <1>p, <1>n, Kinds DEF NotifyRest
  <2> QED
    BY <1>i, <1>n, <2>1, <2>2 DEF Removing
<1>5. ASSUME NEW t \in Threads, FeedPush(t) \/ FeedGiveUp(t)
      PROVE  Removing'
  <2>1. /\ pc[t] \in Sending \cup {"giveUp"} /\ AfterSend(t)
        /\ UNCHANGED <<subscribers, subsLock, target, closed>>
        /\ ending \subseteq ending'
    BY <1>5 DEF FeedPush, FeedGiveUp, Sending
  <2>2. CASE Msg(t) # Exit
    <3>1. t = Reducer /\ subsLock # Reducer /\ rest # <<>>
      BY <1>i, <2>1, <2>2, MsgType DEF Places, Telling, Off, Sending
    <3> QED
      BY <1>n, <1>r, <2>1, <2>2, <3>1 DEF AfterSend
  <2>3. CASE Msg(t) = Exit /\ t # Reducer
    <3>1. UNCHANGED rest /\ \E s \in {"join", "told"} : Goto(t, s)
      BY <2>1, <2>3 DEF AfterSend
    <3> QED
      BY <1>p, <1>q, <2>1, <2>3, <3>1, Kinds
  <2>4. CASE Msg(t) = Exit /\ t = Reducer
    <3>1. UNCHANGED rest /\ \E s \in {"join", "told"} : Goto(t, s)
      BY <2>1, <2>4 DEF AfterSend
    <3>2. Head(rest) \in ending' \cup closed
      <4>1. CASE FeedPush(t)
        BY <2>4, <4>1, Kinds DEF FeedPush, Target
      <4>2. CASE FeedGiveUp(t)
        BY <1>i, <2>4, <4>2 DEF FeedGiveUp, Removing
      <4> QED
        BY <1>5, <4>1, <4>2
    <3>3. \A u \in Threads \ {Reducer} : pc'[u] = pc[u] /\ Target(u)' = Target(u)
      BY <1>p, <2>1, <2>4, <3>1 DEF Target
    <3>4. pc'[Reducer] # "giveUp"
      BY <1>p, <2>4, <3>1, Kinds
    <3> QED
      BY <1>i, <2>1, <3>1, <3>2, <3>3, <3>4 DEF Removing
  <2> QED
    BY <2>2, <2>3, <2>4
<1>6. ASSUME NEW t \in Threads, FeedWait(t)
      PROVE  Removing'
  BY <1>6, <1>p, <1>q, Kinds DEF FeedWait
<1>7. ASSUME NEW y \in Subs, LoopRecv(y) \/ IterNext(y) \/ IterClose(y)
      PROVE  Removing'
  <2>1. /\ \E s \in {"ended", "callback", "lockAdding", "next", "notifyAll"} :
             Goto(y, s)
        /\ UNCHANGED <<subscribers, rest, subsLock, target, ending>>
        /\ closed \subseteq closed'
    BY <1>7 DEF LoopRecv, IterNext, IterClose
  <2> QED
    BY <1>p, <1>q, <2>1, Kinds
<1>8. ASSUME NEW y \in Subs, IterNotifyAll(y)
      PROVE  Removing'
  <2>1. /\ UNCHANGED <<subscribers, rest, subsLock, target, ending, closed>>
        /\ y # Reducer /\ y \in Iterators /\ y \in closed
    BY <1>8, <1>i, Kinds DEF IterNotifyAll, Places, Iterating
  <2>2. \A u \in Threads \ {y} : \/ pc'[u] = pc[u]
                                 \/ /\ pc[u] = "wait" /\ Target(u) = y
                                    /\ pc'[u] = "giveUp"
    BY <1>8 DEF IterNotifyAll
  <2>3. pc'[y] # "off"
    BY <1>8, Kinds DEF IterNotifyAll
  <2>4. \A u \in Threads \ {Reducer} : pc'[u] = "off" => pc[u] = "off"
    BY <2>2, <2>3
  <2>5. CASE pc'[Reducer] = pc[Reducer]
    BY <1>q, <2>1, <2>4, <2>5
  <2>6. CASE pc'[Reducer] = "giveUp" /\ Target(Reducer) = y
    <3>1. Head(rest) \in closed
      BY <2>1, <2>6 DEF Target
    <3>2. \A u \in Threads \ {Reducer} : Target(u)' = Target(u)
      BY <2>1 DEF Target
    <3> QED
      BY <1>i, <2>1, <2>4, <2>6, <3>1, <3>2 DEF Removing
  <2> QED
    BY <2>1, <2>2, <2>5, <2>6, Kinds
<1>o. ASSUME pc[Reducer] \notin Off PROVE subsLock # Reducer
  BY <1>i, <1>o DEF Owners
<1>9. CASE Recv \/ LockNewSubscribers
  <2>1. Recv => Head(queue) \in {"Action", "AddSubscriber", "Exit"}
    BY <1>i, HeadTailProperties DEF TypeOK, Recv
  <2>2. /\ \E s \in {"snapshot", "lockAdding", "clear", "recv", "lockSubs"} :
             Goto(Reducer, s)
        /\ UNCHANGED <<subscribers, rest, subsLock, target, ending, closed>>
    BY <1>9, <2>1 DEF Recv, LockNewSubscribers
  <2> QED
    BY <1>p, <1>q, <2>2, Kinds
<1>10. CASE Snapshot
  BY <1>10, <1>n, <1>o DEF Snapshot, Off
<1>11. CASE NotifyChanneled \/ NotifyIterator
  <2>1. CASE NotifyRest(Tail(rest))
    <3>1. /\ rest # <<>> /\ subsLock # Reducer
          /\ UNCHANGED <<subscribers, subsLock, target, closed, ending>>
      BY <1>11, <1>i, <1>o
        DEF NotifyChanneled, NotifyIterator, Places, Telling, Off
    <3> QED
      BY <1>n, <1>r, <2>1, <3>1
  <2>2. CASE Goto(Reducer, "send") /\ UNCHANGED rest
    <3>1. UNCHANGED <<subscribers, subsLock, target, closed, ending>>
      BY <1>11 DEF NotifyChanneled, NotifyIterator
    <3> QED
      BY <1>p, <1>q, <2>2, <3>1, Kinds
  <2> QED
    BY <1>11, <2>1, <2>2 DEF NotifyChanneled, NotifyIterator
<1>12. CASE DoSubscribe
  <2>1. /\ subscribers' = subscribers \o adding /\ subsLock = NoOne
        /\ pc' = [pc EXCEPT ![Reducer] = "recv"]
        /\ UNCHANGED <<rest, subsLock, target, ending, closed>>
    BY <1>12 DEF DoSubscribe
  <2>2. ToSet(subscribers') = ToSet(subscribers) \cup ToSet(adding)
    BY <1>p, <2>1, ConcatSet
  <2>3. \A u \in Threads \ {Reducer} : pc'[u] = pc[u] /\ Target(u)' = Target(u)
    BY <1>p, <2>1 DEF Target
  <2>4. pc'[Reducer] = "recv" /\ subsLock' # Reducer
    BY <1>p, <2>1, Kinds
  <2> QED
    BY <1>i, <2>1, <2>2, <2>3, <2>4 DEF Removing
\* What is left to tell, while nobody else is inside on_unsubscribe.
<1>c. ASSUME NEW seq \in Seq(Subs), ClearRest(seq),
             subsLock \in {NoOne, Reducer},
             ToSet(seq) \subseteq ToSet(subscribers) \cup ending \cup closed,
             ToSet(subscribers) \subseteq ToSet(seq) \cup ending \cup closed
      PROVE  Removing'
  <2>1. /\ rest' = seq /\ UNCHANGED <<target, ending, closed>>
        /\ pc' = [pc EXCEPT ![Reducer] = IF seq = <<>> THEN "done" ELSE "off"]
        /\ subscribers' = IF seq = <<>> THEN <<>> ELSE subscribers
    BY <1>c DEF ClearRest
  <2>2. \A u \in Threads \ {Reducer} : pc'[u] # "off"
    BY <1>c, <1>i, <1>p, <2>1, Kinds DEF Owners, Off
  <2>3. pc'[Reducer] \in {"done", "off"}
    BY <1>p, <2>1, Kinds
  <2>4. CASE seq = <<>>
    BY <1>e, <2>1, <2>2, <2>3, <2>4 DEF Removing
  <2>5. CASE seq # <<>>
    BY <1>c, <2>1, <2>2, <2>3, <2>5 DEF Removing
  <2> QED
    BY <2>4, <2>5
<1>13. CASE ClearSubscribers
  BY <1>13, <1>c, <1>p DEF ClearSubscribers
<1>14. CASE ClearTold
  <2>1. /\ subsLock = Reducer /\ rest # <<>> /\ pc[Reducer] = "told"
        /\ ClearRest(Tail(rest))
    BY <1>14, <1>i DEF ClearTold, Owners, Places, Telling, Off
  <2>2. Head(rest) \in ending \cup closed
    BY <1>i, <2>1 DEF Removing
  <2>3. Tail(rest) \in Seq(Subs)
    BY <1>p, <2>1, HeadTailProperties
  <2>4. /\ ToSet(Tail(rest)) \subseteq ToSet(subscribers) \cup ending \cup closed
        /\ ToSet(subscribers) \subseteq ToSet(Tail(rest)) \cup ending \cup closed
    BY <1>i, <1>r, <2>1, <2>2 DEF Removing
  <2> QED
    BY <1>c, <2>1, <2>3, <2>4
<1> QED
  BY <1>1, <1>2, <1>3, <1>4, <1>5, <1>6, <1>7, <1>8, <1>9, <1>10, <1>11, <1>12,
     <1>13, <1>14, <1>i, StillSteps
  DEF Reduce

-----------------------------------------------------------------------------
(* Ending *)

\* What is sent into a channel while it is sent, and who sends it.
LEMMA PushParts ==
  ASSUME SInv, NEW t \in Threads, FeedPush(t)
  PROVE  /\ pc[t] \in Sending /\ AfterSend(t)
         /\ Target(t) \in Subs /\ Msg(t) \in Nat
         /\ t \notin Iterators
         /\ Msg(t) = Exit <=> subsLock = t
         /\ t # Reducer => Msg(t) = Exit
         /\ t = Reducer => rest # <<>> /\ Target(t) = Head(rest)
         /\ feed' = [feed EXCEPT ![Target(t)] = Append(@, Msg(t))]
         /\ ending' = IF Msg(t) = Exit THEN ending \cup {Target(t)} ELSE ending
         /\ Msg(t) # Exit => Msg(t) = version
<1>1. TypeOK /\ Places /\ Owners /\ Notifying
  BY DEF SInv
<1>2. pc[t] \in Sending
  BY DEF FeedPush, Sending
<1>3. /\ Target(t) \in Subs
      /\ t = Reducer => rest # <<>> /\ Target(t) = Head(rest)
  BY <1>1, <1>2, TargetType DEF Places, Sending, Dealing, Telling, Off
<1>4. t \notin Iterators
  BY <1>1, <1>2 DEF Places, Sending
<1>5. /\ Msg(t) \in Nat /\ (Msg(t) = Exit <=> subsLock = t)
      /\ Msg(t) # Exit => t = Reducer
  BY <1>1, <1>2, MsgType
<1> QED
  BY <1>2, <1>3, <1>4, <1>5 DEF FeedPush, Msg

\* Every subscriber comes to its end once.
LEMMA EndingKept ==
  ASSUME FInv, [Next]_vars
  PROVE  Ending'
<1> USE DEF dispatchTx, lists, feeds, locals, history, Goto
<1>i. /\ SInv /\ TypeOK /\ Places /\ Owners /\ Notifying /\ Iterating /\ Listing
      /\ Ending /\ Removing
  BY DEF FInv, SInv
<1>p. /\ pc \in [Threads -> Steps]
      /\ target \in [Clients \cup Channeled -> Channeled \cup {NoOne}]
      /\ feed \in [Subs -> Seq(Nat)]
      /\ closed \subseteq Iterators
  BY <1>i DEF TypeOK
<1>d. ASSUME NEW q \in Seq(Nat)
      PROVE  DOMAIN q = 1 .. Len(q) /\ Len(q) \in Nat
  BY <1>d, LenProperties
\* Who tells a channeled subscriber that it is over.
<1>t. ASSUME NEW t \in Threads, pc[t] \in Off
      PROVE  /\ Target(t) \in Subs
             /\ t \in Iterators => Target(t) = t
             /\ t # Reducer => subsLock = t
  BY <1>i, <1>t, TargetType DEF Dealing, Telling, Owners
\* The channels stay as they are.
<1>q. ASSUME UNCHANGED <<feed, ending, closed>>,
             \A x \in Subs : pc'[x] = "ended" =>
               pc[x] = "ended" \/ (x \in Iterators /\ x \in closed),
             \A x \in Iterators :
               /\ pc'[x] \in Leaving <=> pc[x] \in Leaving
               /\ pc'[x] = "close" => pc[x] = "close" \/ x \notin closed,
             \A t \in Threads :
               pc'[t] \in Sending /\ subsLock' = t =>
                 pc[t] \in Sending /\ subsLock = t /\ Target(t)' = Target(t)
      PROVE  Ending'
  <2>1. \A x \in Subs : Exit \in ToSet(feed'[x]) => x \in ending'
    BY <1>i, <1>q DEF Ending
  <2>2. \A x \in Iterators :
          /\ pc'[x] \in Leaving => x \in ending' \cup closed'
          /\ x \in closed' => pc'[x] \in Leaving \ {"close"}
          /\ pc'[x] = "ended" => x \in closed'
          /\ x \in ending' => Exit \in ToSet(feed'[x]) \/ pc'[x] \in Leaving
    BY <1>i, <1>q, Kinds DEF Ending
  <2>3. \A x \in Channeled :
          /\ pc'[x] = "ended" => x \in ending' /\ feed'[x] = <<>>
          /\ \A i \in DOMAIN feed'[x] : feed'[x][i] = Exit => i = Len(feed'[x])
    BY <1>i, <1>q, Kinds DEF Ending
  <2>4. ASSUME NEW t \in Threads, pc'[t] \in Sending, subsLock' = t,
               Target(t)' \in Channeled
        PROVE  Exit \notin ToSet(feed'[Target(t)']) /\ pc'[Target(t)'] # "ended"
    <3>1. /\ pc[t] \in Sending /\ subsLock = t /\ Target(t)' = Target(t)
          /\ Target(t) \in Channeled /\ Target(t) \notin Iterators
      BY <1>q, <2>4, Kinds
    <3>2. Exit \notin ToSet(feed[Target(t)]) /\ pc[Target(t)] # "ended"
      BY <1>i, <3>1 DEF Ending
    <3> QED
      BY <1>q, <3>1, <3>2, Kinds
  <2> QED
    BY <2>1, <2>2, <2>3, <2>4 DEF Ending
<1>1. CASE Still
  <2>1. ASSUME NEW t \in Threads, pc'[t] \in Sending
        PROVE  pc[t] \in Sending /\ Target(t)' = Target(t)
    <3>1. pc'[t] \in Off
      BY <2>1 DEF Sending, Off
    <3> QED
      BY <1>1, <2>1, <3>1, Kinds DEF Still, Target
  <2> QED
    BY <1>1, <1>q, <2>1 DEF Still
\* One thread moves, and does not begin to send Exit or to leave.
<1>m. ASSUME NEW t \in Threads, NEW s, s \notin Sending \cup {"ended", "close"},
             Goto(t, s), UNCHANGED <<feed, ending, closed>>,
             subsLock' \in {subsLock, NoOne, t},
             t \in Iterators => (s \in Leaving <=> pc[t] \in Leaving),
             \A u \in Clients \cup Channeled : u # t => target'[u] = target[u],
             t = Reducer \/ UNCHANGED rest
      PROVE  Ending'
  <2>1. \A u \in Threads : u # t => Target(u)' = Target(u)
    BY <1>m, Kinds DEF Target
  <2>2. pc' = [pc EXCEPT ![t] = s]
    BY <1>m
  <2>3. \A x \in Subs : pc'[x] = "ended" => pc[x] = "ended"
    BY <1>m, <1>p, <2>2, Kinds
  <2>4. \A x \in Iterators : /\ pc'[x] \in Leaving <=> pc[x] \in Leaving
                             /\ pc'[x] = "close" => pc[x] = "close"
    BY <1>m, <1>p, <2>2, Kinds
  <2>5. \A u \in Threads : pc'[u] \in Sending /\ subsLock' = u =>
          pc[u] \in Sending /\ subsLock = u /\ Target(u)' = Target(u)
    BY <1>m, <1>p, <2>1, <2>2, Kinds
  <2> QED
    BY <1>m, <1>q, <2>3, <2>4, <2>5
<1>2. ASSUME NEW t \in Threads, LockSubscribers(t)
      PROVE  Ending'
  <2>1. /\ pc[t] = "lockSubs" /\ subsLock' = t
        /\ \E s \in {"off", "told"} : Goto(t, s)
        /\ UNCHANGED <<feed, ending, closed, target, rest>>
    BY <1>2 DEF LockSubscribers
  <2> QED
    BY <1>m, <2>1 DEF Sending, Leaving
<1>3. ASSUME NEW t \in Threads, Unsubscribed(t)
      PROVE  Ending'
  <2>1. /\ t # Reducer /\ t \in Clients \cup Subs /\ t \in Threads
        /\ pc[t] = "told" /\ subsLock' = NoOne
        /\ UNCHANGED <<feed, ending, closed, rest>>
    BY <1>3, Kinds DEF Unsubscribed
  <2>2. CASE Return(t)
    <3>1. /\ t \notin Iterators /\ Goto(t, Home(t))
          /\ Home(t) \notin Sending \cup {"ended", "close"}
          /\ \A u \in Clients \cup Channeled : u # t => target'[u] = target[u]
      <4>1. t \notin Iterators
        BY <1>3, <1>i, <1>p, <2>1, <2>2, HomeType
          DEF Unsubscribed, Return, Places
      <4> QED
        BY <1>p, <2>1, <2>2, <4>1, HomeType, Kinds DEF Return, Sending
    <3> QED
      BY <1>m, <2>1, <3>1
  <2>3. CASE t \in Iterators /\ UNCHANGED target
    <3>1. pc' = [pc EXCEPT ![t] = IF t \in closed THEN "ended" ELSE "close"]
      BY <1>3, <2>3 DEF Unsubscribed
    <3>2. \A u \in Threads : subsLock' # u
      BY <2>1, Kinds
    <3>3. \A x \in Subs : pc'[x] = "ended" =>
            pc[x] = "ended" \/ (x \in Iterators /\ x \in closed)
      BY <1>p, <2>1, <2>3, <3>1, Kinds
    <3>4. \A x \in Iterators :
            /\ pc'[x] \in Leaving <=> pc[x] \in Leaving
            /\ pc'[x] = "close" => pc[x] = "close" \/ x \notin closed
      BY <1>p, <2>1, <2>3, <3>1, Kinds DEF Leaving
    <3> QED
      BY <1>q, <2>1, <3>2, <3>3, <3>4
  <2> QED
    BY <1>3, <2>2, <2>3 DEF Unsubscribed
<1>4. ASSUME NEW t \in Threads, OffChanneled(t)
      PROVE  Ending'
  <2> DEFINE y == Target(t)
  <2>1. /\ pc[t] = "off" /\ y \in Channeled
        /\ ending' = ending \cup {y}
        /\ pc' = [pc EXCEPT ![t] = IF y \in ending THEN "join" ELSE "send"]
        /\ UNCHANGED <<feed, closed, subsLock, target, rest>>
    BY <1>4 DEF OffChanneled
  <2>2. t \notin Iterators
    BY <1>t, <2>1, Kinds DEF Off
  <2>3. \A x \in Subs : x # t => pc'[x] = pc[x]
    BY <1>p, <2>1, Kinds
  <2>4. \A x \in Subs : pc'[x] = "ended" => pc[x] = "ended"
    BY <1>p, <2>1, Kinds
  <2>5. \A u \in Threads : Target(u)' = Target(u)
    BY <2>1 DEF Target
  <2>6. \A x \in Iterators : pc'[x] = pc[x] /\ x # y
    BY <2>1, <2>2, <2>3, Kinds
  <2>7. ASSUME NEW u \in Threads, pc'[u] \in Sending, subsLock' = u,
               Target(u) \in Channeled
        PROVE  Exit \notin ToSet(feed[Target(u)]) /\ pc[Target(u)] # "ended"
    <3>1. CASE u = t
      <4>1. y \notin ending
        BY <1>p, <2>1, <2>7, <3>1 DEF Sending
      <4> QED
        BY <1>i, <2>1, <3>1, <4>1, Kinds DEF Ending
    <3>2. CASE u # t
      BY <1>i, <1>p, <2>1, <2>7, <3>2 DEF Ending
    <3> QED
      BY <3>1, <3>2
  <2>8. \A x \in Subs : Exit \in ToSet(feed'[x]) => x \in ending'
    BY <1>i, <2>1 DEF Ending
  <2>9. \A x \in Iterators :
          /\ pc'[x] \in Leaving => x \in ending' \cup closed'
          /\ x \in closed' => pc'[x] \in Leaving \ {"close"}
          /\ pc'[x] = "ended" => x \in closed'
          /\ x \in ending' => Exit \in ToSet(feed'[x]) \/ pc'[x] \in Leaving
    BY <1>i, <2>1, <2>6 DEF Ending
  <2>10. \A x \in Channeled :
          /\ pc'[x] = "ended" => x \in ending' /\ feed'[x] = <<>>
          /\ \A i \in DOMAIN feed'[x] : feed'[x][i] = Exit => i = Len(feed'[x])
    BY <1>i, <2>1, <2>4, Kinds DEF Ending
  <2>11. ASSUME NEW u \in Threads, pc'[u] \in Sending, subsLock' = u,
                Target(u)' \in Channeled
         PROVE  Exit \notin ToSet(feed'[Target(u)']) /\ pc'[Target(u)'] # "ended"
    <3>1. Exit \notin ToSet(feed[Target(u)]) /\ pc[Target(u)] # "ended"
      BY <2>5, <2>7, <2>11
    <3> QED
      BY <2>1, <2>4, <2>5, <2>11, <3>1, Kinds
  <2> HIDE DEF y
  <2> QED
    BY <2>8, <2>9, <2>10, <2>11 DEF Ending
<1>5. ASSUME NEW t \in Threads, OffIterator(t)
      PROVE  Ending'
  <2>1. /\ pc[t] = "off" /\ Target(t) \in Iterators
        /\ pc' = [pc EXCEPT ![t] = IF Target(t) \in closed THEN "told"
                                                           ELSE "send"]
        /\ UNCHANGED <<feed, ending, closed, subsLock, target, rest>>
    BY <1>5 DEF OffIterator
  <2>2. CASE Target(t) \in closed
    BY <1>m, <2>1, <2>2 DEF Sending, Leaving
  <2>3. CASE Target(t) \notin closed
    <3>1. t \notin Iterators
      BY <1>i, <1>t, <2>1, <2>3 DEF Off, Iterating
    <3>2. \A x \in Subs : pc'[x] = "ended" => pc[x] = "ended"
      BY <1>p, <2>1, <2>3, Kinds
    <3>3. \A x \in Iterators : pc'[x] = pc[x]
      BY <1>p, <2>1, <3>1, Kinds
    <3>4. \A u \in Threads : Target(u)' = Target(u)
      BY <2>1 DEF Target
    <3>5. \A x \in Iterators :
            /\ pc'[x] \in Leaving => x \in ending' \cup closed'
            /\ x \in closed' => pc'[x] \in Leaving \ {"close"}
            /\ pc'[x] = "ended" => x \in closed'
            /\ x \in ending' => Exit \in ToSet(feed'[x]) \/ pc'[x] \in Leaving
      BY <1>i, <2>1, <3>3 DEF Ending
    <3>6. \A x \in Channeled :
            /\ pc'[x] = "ended" => x \in ending' /\ feed'[x] = <<>>
            /\ \A i \in DOMAIN feed'[x] :
                 feed'[x][i] = Exit => i = Len(feed'[x])
      BY <1>i, <2>1, <3>2, Kinds DEF Ending
    <3>7. \A x \in Subs : Exit \in ToSet(feed'[x]) => x \in ending'
      BY <1>i, <2>1 DEF Ending
    <3>8. ASSUME NEW u \in Threads, pc'[u] \in Sending, subsLock' = u,
                 Target(u)' \in Channeled
          PROVE  Exit \notin ToSet(feed'[Target(u)'])
                 /\ pc'[Target(u)'] # "ended"
      <4>1. u # t /\ Target(u) \in Channeled /\ Target(u) \in Subs
        BY <2>1, <3>4, <3>8, Kinds
      <4>2. Exit \notin ToSet(feed[Target(u)]) /\ pc[Target(u)] # "ended"
        BY <1>i, <1>p, <2>1, <3>8, <4>1 DEF Ending
      <4> QED
        BY <2>1, <3>2, <3>4, <4>1, <4>2
    <3> QED
      BY <3>5, <3>6, <3>7, <3>8 DEF Ending
  <2> QED
    BY <2>2, <2>3
<1>6. ASSUME NEW t \in Threads, Joined(t)
      PROVE  Ending'
  BY <1>6, <1>i, <1>m DEF Joined, Sending, Leaving, Places
<1>7. ASSUME NEW t \in Threads, FeedWait(t)
      PROVE  Ending'
  <2>1. /\ pc[t] = "send" /\ pc' = [pc EXCEPT ![t] = "wait"] /\ t \notin Iterators
        /\ UNCHANGED <<feed, ending, closed, subsLock, target, rest>>
    BY <1>7, <1>i DEF FeedWait, Places
  <2>2. \A u \in Threads : Target(u)' = Target(u)
    BY <2>1 DEF Target
  <2>3. \A x \in Subs : pc'[x] = "ended" => pc[x] = "ended"
    BY <1>p, <2>1, Kinds
  <2>4. \A x \in Iterators : pc'[x] = pc[x]
    BY <1>p, <2>1, Kinds
  <2>5. \A u \in Threads : pc'[u] \in Sending => pc[u] \in Sending
    BY <1>p, <2>1 DEF Sending
  <2> QED
    BY <1>q, <2>1, <2>2, <2>3, <2>4, <2>5
<1>8. ASSUME NEW t \in Threads, FeedGiveUp(t)
      PROVE  Ending'
  <2>1. /\ pc[t] = "giveUp" /\ AfterSend(t) /\ t \notin Iterators
        /\ UNCHANGED <<feed, ending, closed, subsLock, target>>
    BY <1>8, <1>i DEF FeedGiveUp, Places
  <2>2. CASE Msg(t) # Exit
    <3>1. NotifyRest(Tail(rest))
      BY <2>1, <2>2 DEF AfterSend
    <3> QED
      BY <1>m, <2>1, <3>1, Kinds DEF NotifyRest, Sending, Leaving
  <2>3. CASE Msg(t) = Exit
    <3>1. UNCHANGED rest /\ \E s \in {"join", "told"} : Goto(t, s)
      BY <2>1, <2>3 DEF AfterSend
    <3> QED
      BY <1>m, <2>1, <3>1 DEF Sending
  <2> QED
    BY <2>2, <2>3
<1>9. ASSUME NEW t \in Threads, FeedPush(t)
      PROVE  Ending'
  <2> DEFINE y == Target(t)
  <2>1. /\ pc[t] \in Sending /\ AfterSend(t) /\ y \in Subs /\ Msg(t) \in Nat
        /\ t \notin Iterators
        /\ Msg(t) = Exit <=> subsLock = t
        /\ t # Reducer => Msg(t) = Exit
        /\ t = Reducer => rest # <<>> /\ y = Head(rest)
        /\ feed' = [feed EXCEPT ![y] = Append(@, Msg(t))]
        /\ ending' = IF Msg(t) = Exit THEN ending \cup {y} ELSE ending
    BY <1>9, <1>i, PushParts
  <2>2. UNCHANGED <<closed, subsLock, target>>
    BY <1>9 DEF FeedPush
  <2> HIDE DEF y
  <2>3. /\ \A u \in Threads : u # t => pc'[u] = pc[u]
        /\ pc'[t] \notin Sending \cup {"ended"}
    <3>1. CASE Msg(t) = Exit
      <4>1. \E s \in {"join", "told"} : Goto(t, s)
        BY <2>1, <3>1 DEF AfterSend
      <4> QED
        BY <1>p, <4>1 DEF Sending
    <3>2. CASE Msg(t) # Exit
      <4>1. t = Reducer /\ \E s \in {"recv", "notify"} : Goto(t, s)
        BY <2>1, <3>2 DEF AfterSend, NotifyRest
      <4> QED
        BY <1>p, <4>1 DEF Sending
    <3> QED
      BY <3>1, <3>2
  <2>4. /\ feed'[y] = Append(feed[y], Msg(t)) /\ feed[y] \in Seq(Nat)
        /\ \A x \in Subs : x # y => feed'[x] = feed[x]
    BY <1>p, <2>1
  <2>5. ToSet(feed'[y]) = ToSet(feed[y]) \cup {Msg(t)}
    BY <2>1, <2>4, AppendSet
  \* A channeled subscriber gets its only Exit now, or has none yet.
  <2>6. y \in Channeled => Exit \notin ToSet(feed[y]) /\ pc[y] # "ended"
    <3>1. CASE Msg(t) = Exit
      BY <1>i, <2>1, <3>1 DEF Ending, y
    <3>2. ASSUME Msg(t) # Exit, y \in Channeled PROVE y \notin ending
      <4>1. t = Reducer /\ subsLock # Reducer /\ Head(rest) = y
        BY <2>1, <3>2
      <4> QED
        BY <1>i, <2>1, <3>2, <4>1 DEF Notifying
    <3>3. CASE Msg(t) # Exit
      BY <1>i, <2>1, <3>2, <3>3 DEF Ending
    <3> QED
      BY <3>1, <3>3
  <2>7. \A x \in Subs : Exit \in ToSet(feed'[x]) => x \in ending'
    BY <1>i, <2>1, <2>4, <2>5 DEF Ending
  <2>8. ASSUME NEW x \in Iterators
        PROVE  /\ pc'[x] \in Leaving => x \in ending' \cup closed'
               /\ x \in closed' => pc'[x] \in Leaving \ {"close"}
               /\ pc'[x] = "ended" => x \in closed'
               /\ x \in ending' => Exit \in ToSet(feed'[x]) \/ pc'[x] \in Leaving
    <3>1. x \in Subs /\ pc'[x] = pc[x]
      BY <2>1, <2>3, Kinds
    <3>2. x \in ending' => x \in ending \/ (x = y /\ Msg(t) = Exit)
      BY <2>1
    <3> QED
      BY <1>i, <2>1, <2>2, <2>4, <2>5, <3>1, <3>2 DEF Ending
  <2>9. ASSUME NEW x \in Channeled
        PROVE  /\ pc'[x] = "ended" => x \in ending' /\ feed'[x] = <<>>
               /\ \A i \in DOMAIN feed'[x] :
                    feed'[x][i] = Exit => i = Len(feed'[x])
    <3>1. x \in Subs /\ x \in Threads /\ (pc'[x] = "ended" => pc[x] = "ended")
      BY <2>3, Kinds
    <3>2. CASE x # y
      BY <1>i, <2>1, <2>4, <3>1, <3>2 DEF Ending
    <3>3. CASE x = y
      <4>1. /\ feed'[y] \in Seq(Nat) /\ Len(feed'[y]) = Len(feed[y]) + 1
            /\ \A i \in 1 .. Len(feed[y]) : feed'[y][i] = feed[y][i]
        BY <2>1, <2>4, AppendProperties
      <4>2. \A i \in 1 .. Len(feed[y]) : feed[y][i] # Exit
        BY <2>4, <2>6, <3>3, <1>d DEF ToSet
      <4>3. DOMAIN feed'[y] = 1 .. Len(feed[y]) + 1 /\ Len(feed[y]) \in Nat
        BY <1>d, <2>4, <4>1
      <4>4. ASSUME NEW i \in DOMAIN feed'[y], feed'[y][i] = Exit
            PROVE  i = Len(feed'[y])
        <5>1. i \in 1 .. Len(feed[y]) + 1 /\ i \notin 1 .. Len(feed[y])
          BY <4>1, <4>2, <4>3, <4>4
        <5>2. Len(feed[y]) \in Nat
          BY <4>3
        <5>3. i = Len(feed[y]) + 1
          BY <5>1, <5>2
        <5> QED
          BY <4>1, <5>3
      <4> QED
        BY <2>6, <3>1, <3>3, <4>4
    <3> QED
      BY <3>2, <3>3
  <2>10. ASSUME NEW u \in Threads, pc'[u] \in Sending, subsLock' = u,
                Target(u)' \in Channeled
         PROVE  Exit \notin ToSet(feed'[Target(u)'])
                /\ pc'[Target(u)'] # "ended"
    <3>1. u # t /\ pc[u] \in Sending /\ subsLock = u
      BY <2>2, <2>3, <2>10
    <3>2. Msg(t) # Exit /\ t = Reducer
      BY <2>1, <3>1
    <3>3. Target(u)' = Target(u)
      BY <2>2, <3>1, <3>2, Kinds DEF Target
    <3>4. /\ Target(u) \in Subs /\ Target(u) \in Threads
          /\ Exit \notin ToSet(feed[Target(u)]) /\ pc[Target(u)] # "ended"
      BY <1>i, <2>10, <3>1, <3>3, Kinds DEF Ending
    <3> QED
      BY <2>3, <2>4, <2>5, <3>2, <3>3, <3>4
  <2> QED
    BY <2>7, <2>8, <2>9, <2>10 DEF Ending
<1>10. ASSUME NEW y \in Subs, LoopRecv(y) \/ IterNext(y)
       PROVE  Ending'
  <2>1. /\ pc[y] = "recv" /\ feed[y] # <<>> /\ feed[y] \in Seq(Nat)
        /\ y \in Threads
        /\ feed' = [feed EXCEPT ![y] = Tail(@)]
        /\ UNCHANGED <<ending, closed, subsLock, target, rest>>
        /\ \E s \in {"ended", "callback", "lockAdding", "next"} : Goto(y, s)
    BY <1>10, <1>p, Kinds DEF LoopRecv, IterNext
  <2>2. /\ ToSet(feed[y]) = ToSet(Tail(feed[y])) \cup {Head(feed[y])}
        /\ Tail(feed[y]) \in Seq(Nat)
        /\ Len(Tail(feed[y])) = Len(feed[y]) - 1
        /\ \A i \in 1 .. Len(Tail(feed[y])) : Tail(feed[y])[i] = feed[y][i + 1]
        /\ Head(feed[y]) = feed[y][1]
    BY <2>1, TailSet, HeadTailProperties
  <2>3. /\ feed'[y] = Tail(feed[y])
        /\ \A x \in Subs : x # y => feed'[x] = feed[x]
        /\ \A u \in Threads : u # y => pc'[u] = pc[u]
        /\ pc'[y] \notin Sending
    BY <1>p, <2>1 DEF Sending
  <2>4. \A u \in Threads : Target(u)' = Target(u)
    BY <2>1 DEF Target
  <2>5. \A x \in Subs : Exit \in ToSet(feed'[x]) => x \in ending'
    BY <1>i, <2>1, <2>2, <2>3 DEF Ending
  <2>6. ASSUME NEW x \in Iterators
        PROVE  /\ pc'[x] \in Leaving => x \in ending' \cup closed'
               /\ x \in closed' => pc'[x] \in Leaving \ {"close"}
               /\ pc'[x] = "ended" => x \in closed'
               /\ x \in ending' => Exit \in ToSet(feed'[x]) \/ pc'[x] \in Leaving
    <3>1. x \in Subs /\ x \in Threads
      BY Kinds
    <3>2. CASE x # y
      BY <1>i, <2>1, <2>3, <3>1, <3>2 DEF Ending
    <3>3. CASE x = y
      <4>1. /\ pc'[x] = IF Head(feed[x]) = Exit THEN "lockAdding" ELSE "next"
            /\ pc[x] \notin Leaving
        BY <1>10, <1>p, <3>1, <3>3, Kinds DEF LoopRecv, IterNext, Leaving
      <4>2. x \notin closed
        BY <1>i, <4>1 DEF Ending
      <4>3. x \in ending => Exit \in ToSet(feed[x])
        BY <1>i, <4>1 DEF Ending
      <4>4. Head(feed[x]) = Exit => x \in ending
        BY <1>i, <2>2, <3>1, <3>3 DEF Ending
      <4> QED
        BY <2>1, <2>2, <2>3, <3>3, <4>1, <4>2, <4>3, <4>4 DEF Leaving
    <3> QED
      BY <3>2, <3>3
  <2>7. ASSUME NEW x \in Channeled
        PROVE  /\ pc'[x] = "ended" => x \in ending' /\ feed'[x] = <<>>
               /\ \A i \in DOMAIN feed'[x] :
                    feed'[x][i] = Exit => i = Len(feed'[x])
    <3>1. x \in Subs /\ x \in Threads
      BY Kinds
    <3>2. CASE x # y
      BY <1>i, <2>1, <2>3, <3>1, <3>2 DEF Ending
    <3>3. CASE x = y
      <4>1. DOMAIN feed[x] = 1 .. Len(feed[x]) /\ Len(feed[x]) \in Nat \ {0}
        BY <1>d, <2>1, <3>3, EmptySeq
      <4>2. /\ DOMAIN feed'[x] = 1 .. Len(feed[x]) - 1
            /\ feed'[x] \in Seq(Nat) /\ Len(feed'[x]) = Len(feed[x]) - 1
        BY <1>d, <2>2, <2>3, <3>3
      <4>3. ASSUME NEW i \in DOMAIN feed'[x], feed'[x][i] = Exit
            PROVE  i = Len(feed'[x])
        <5>1. i + 1 \in DOMAIN feed[x]
          BY <4>1, <4>2, <4>3
        <5>2. feed[x][i + 1] = Exit
          <6>1. i \in 1 .. Len(Tail(feed[y]))
            BY <2>3, <3>3, <4>2, <4>3
          <6> QED
            BY <2>2, <2>3, <3>3, <4>3, <6>1
        <5>3. i + 1 = Len(feed[x])
          BY <1>i, <5>1, <5>2 DEF Ending
        <5>4. i \in Int /\ Len(feed[x]) \in Nat
          BY <4>1, <4>2, <4>3
        <5> QED
          BY <4>2, <5>3, <5>4
      <4>4. ASSUME pc'[x] = "ended" PROVE x \in ending /\ feed'[x] = <<>>
        <5>1. Head(feed[x]) = Exit
          BY <1>10, <1>p, <3>1, <3>3, <4>4, Kinds DEF LoopRecv, IterNext
        <5>2. 1 = Len(feed[x])
          <6>1. 1 \in DOMAIN feed[x] /\ feed[x][1] = Exit
            BY <2>2, <3>3, <4>1, <5>1
          <6> QED
            BY <1>i, <6>1 DEF Ending
        <5>3. Len(feed'[x]) = 0
          BY <4>2, <5>2
        <5> QED
          BY <1>i, <2>2, <3>1, <3>3, <4>2, <5>1, <5>3, EmptySeq DEF Ending
      <4> QED
        BY <2>1, <4>3, <4>4
    <3> QED
      BY <3>2, <3>3
  <2>8. ASSUME NEW u \in Threads, pc'[u] \in Sending, subsLock' = u,
               Target(u)' \in Channeled
        PROVE  Exit \notin ToSet(feed'[Target(u)'])
               /\ pc'[Target(u)'] # "ended"
    <3>1. /\ u # y /\ pc[u] \in Sending /\ subsLock = u
          /\ Target(u) \in Channeled /\ Target(u) \in Subs
          /\ Target(u) \in Threads
      BY <2>1, <2>3, <2>4, <2>8, Kinds
    <3>2. Exit \notin ToSet(feed[Target(u)]) /\ pc[Target(u)] # "ended"
      BY <1>i, <3>1 DEF Ending
    <3>3. CASE Target(u) # y
      BY <2>3, <2>4, <3>1, <3>2, <3>3
    <3>4. CASE Target(u) = y
      <4>1. Head(feed[y]) # Exit
        BY <2>2, <3>2, <3>4
      <4>2. pc'[y] # "ended"
        BY <1>10, <1>p, <2>1, <4>1 DEF LoopRecv, IterNext
      <4> QED
        BY <2>2, <2>3, <2>4, <3>2, <3>4, <4>2
    <3> QED
      BY <3>3, <3>4
  <2> QED
    BY <2>5, <2>6, <2>7, <2>8 DEF Ending
<1>11. ASSUME NEW y \in Subs, IterClose(y)
       PROVE  Ending'
  <2>1. /\ y \in Iterators /\ y \in Threads
        /\ closed' = closed \cup {y}
        /\ pc' = [pc EXCEPT ![y] = "notifyAll"]
        /\ UNCHANGED <<feed, ending, subsLock, target, rest>>
    BY <1>11, <1>i, Kinds DEF IterClose, Places
  <2>2. \A u \in Threads : Target(u)' = Target(u)
    BY <2>1 DEF Target
  <2>3. ASSUME NEW x \in Iterators
        PROVE  /\ pc'[x] \in Leaving => x \in ending' \cup closed'
               /\ x \in closed' => pc'[x] \in Leaving \ {"close"}
               /\ pc'[x] = "ended" => x \in closed'
               /\ x \in ending' => Exit \in ToSet(feed'[x]) \/ pc'[x] \in Leaving
    <3>1. CASE x # y
      BY <1>i, <1>p, <2>1, <3>1, Kinds DEF Ending
    <3>2. CASE x = y
      <4>1. pc'[x] = "notifyAll"
        BY <1>p, <2>1, <3>2
      <4> QED
        BY <2>1, <3>2, <4>1 DEF Leaving
    <3> QED
      BY <3>1, <3>2
  <2>4. \A x \in Channeled : pc'[x] = pc[x]
    BY <1>p, <2>1, Kinds
  <2>5. \A x \in Channeled :
          /\ pc'[x] = "ended" => x \in ending' /\ feed'[x] = <<>>
          /\ \A i \in DOMAIN feed'[x] : feed'[x][i] = Exit => i = Len(feed'[x])
    BY <1>i, <2>1, <2>4 DEF Ending
  <2>6. \A u \in Threads : pc'[u] \in Sending => pc'[u] = pc[u]
    BY <1>p, <2>1 DEF Sending
  <2>7. ASSUME NEW u \in Threads, pc'[u] \in Sending, subsLock' = u,
               Target(u)' \in Channeled
        PROVE  Exit \notin ToSet(feed'[Target(u)'])
               /\ pc'[Target(u)'] # "ended"
    BY <1>i, <2>1, <2>2, <2>4, <2>6, <2>7 DEF Ending
  <2>8. \A x \in Subs : Exit \in ToSet(feed'[x]) => x \in ending'
    BY <1>i, <2>1 DEF Ending
  <2> QED
    BY <2>3, <2>5, <2>7, <2>8 DEF Ending
<1>12. ASSUME NEW y \in Subs, IterNotifyAll(y)
       PROVE  Ending'
  <2>1. /\ UNCHANGED <<feed, ending, closed, subsLock, target, rest>>
        /\ y \in Iterators /\ y \in Threads /\ y \in closed
        /\ pc[y] = "notifyAll" /\ pc'[y] \in {"lockAdding", "ended"}
    BY <1>12, <1>i, Kinds DEF IterNotifyAll, Places, Iterating
  <2>2. \A u \in Threads \ {y} : \/ pc'[u] = pc[u]
                                 \/ pc[u] = "wait" /\ pc'[u] = "giveUp"
    BY <1>12 DEF IterNotifyAll
  <2>3. \A u \in Threads : Target(u)' = Target(u)
    BY <2>1 DEF Target
  <2>4. \A x \in Subs : pc'[x] = "ended" =>
          pc[x] = "ended" \/ (x \in Iterators /\ x \in closed)
    BY <2>1, <2>2, Kinds
  <2>5. \A x \in Iterators :
          /\ pc'[x] \in Leaving <=> pc[x] \in Leaving
          /\ pc'[x] = "close" => pc[x] = "close"
    BY <1>i, <2>1, <2>2, Kinds DEF Leaving, Places
  <2>6. \A u \in Threads : pc'[u] \in Sending => pc[u] \in Sending
    BY <2>1, <2>2 DEF Sending
  <2> QED
    BY <1>q, <2>1, <2>3, <2>4, <2>5, <2>6
<1>o. ASSUME pc[Reducer] \notin Off PROVE subsLock # Reducer
  BY <1>i, <1>o DEF Owners
<1>13. CASE Recv
  <2>1. Head(queue) \in {"Action", "AddSubscriber", "Exit"}
    BY <1>13, <1>i, HeadTailProperties DEF TypeOK, Recv
  <2>2. /\ \E s \in {"snapshot", "lockAdding", "clear"} : Goto(Reducer, s)
        /\ UNCHANGED <<feed, ending, closed, subsLock, target>>
    BY <1>13, <2>1 DEF Recv
  <2> QED
    BY <1>m, <2>2, Kinds DEF Sending
<1>14. CASE Snapshot \/ LockNewSubscribers \/ DoSubscribe
  <2>1. /\ \E s \in {"recv", "notify", "lockSubs"} : Goto(Reducer, s)
        /\ UNCHANGED <<feed, ending, closed, subsLock, target>>
    BY <1>14 DEF Snapshot, NotifyRest, LockNewSubscribers, DoSubscribe
  <2> QED
    BY <1>m, <2>1, Kinds DEF Sending
<1>15. CASE NotifyChanneled \/ NotifyIterator
  <2>1. /\ pc[Reducer] = "notify"
        /\ \E s \in {"recv", "notify", "send"} : Goto(Reducer, s)
        /\ UNCHANGED <<feed, ending, closed, subsLock, target>>
    BY <1>15 DEF NotifyChanneled, NotifyIterator, NotifyRest
  <2>2. subsLock # Reducer
    BY <1>o, <2>1 DEF Off
  <2>3. \A u \in Threads : u # Reducer => Target(u)' = Target(u)
    BY <2>1 DEF Target
  <2>4. \A x \in Subs : pc'[x] = pc[x]
    BY <1>p, <2>1, Kinds
  <2>5. \A u \in Threads : u # Reducer => pc'[u] = pc[u]
    BY <1>p, <2>1
  <2> QED
    BY <1>q, <2>1, <2>2, <2>3, <2>4, <2>5, Kinds
<1>16. CASE ClearSubscribers \/ ClearTold
  <2>1. PICK seq : ClearRest(seq)
    BY <1>16 DEF ClearSubscribers, ClearTold
  <2>2. /\ \E s \in {"done", "off"} : Goto(Reducer, s)
        /\ UNCHANGED <<feed, ending, closed, target>>
        /\ subsLock' \in {NoOne, Reducer}
    BY <2>1 DEF ClearRest
  <2> QED
    BY <1>m, <2>2, Kinds DEF Sending
<1> QED
  BY <1>1, <1>2, <1>3, <1>4, <1>5, <1>6, <1>7, <1>8, <1>9, <1>10, <1>11, <1>12,
     <1>13, <1>14, <1>15, <1>16, <1>i, StillSteps
  DEF Reduce

-----------------------------------------------------------------------------
(* The steps of SubscriberFeed, as StoreSubscribers takes them *)

Over(x) == x \in closed \/ pc[x] = "ended"

\* x is where it was.
Kept(x) ==
  /\ Phase(x)' = Phase(x) /\ base'[x] = base[x]
  /\ Sent(x)' = Sent(x) /\ views'[x] = views[x]
  /\ Over(x)' <=> Over(x)

\* The reducer owes x the present state if it did.
Owed(x) == Phase(x) = "on" => (Owes(x)' <=> Owes(x))

Others(x) == UNCHANGED version /\ \A y \in Subs \ {x} : Kept(y) /\ Owed(y)

Stays == UNCHANGED version /\ \A x \in Subs : Kept(x) /\ Owed(x)

Advances ==
  /\ version' = version + 1
  /\ \A x \in Subs : Kept(x) /\ ~Owes(x) /\ Owes(x)'

Joins(new) ==
  /\ UNCHANGED version
  /\ \A x \in new :
       /\ Phase(x) = "waiting" /\ Phase(x)' = "on" /\ base'[x] = version
       /\ Sent(x)' = <<>> /\ Sent(x) = <<>> /\ views'[x] = views[x]
       /\ Over(x)' <=> Over(x)
       /\ ~Owes(x)'
  /\ \A x \in Subs \ new : Kept(x) /\ Owed(x)

Sends(x) ==
  /\ Phase(x) = "on" /\ Phase(x)' = "on" /\ base'[x] = base[x]
  /\ Sent(x)' = Append(Sent(x), version) /\ views'[x] = views[x]
  /\ Over(x)' <=> Over(x)
  /\ Owes(x) /\ ~Owes(x)'

Leaves(x) ==
  /\ Phase(x) # "off" /\ Phase(x)' = "off" /\ base'[x] = base[x]
  /\ Sent(x)' = Sent(x) /\ views'[x] = views[x]
  /\ Over(x)' <=> Over(x)

Receives(x) ==
  /\ Phase(x)' = Phase(x) /\ base'[x] = base[x]
  /\ Sent(x)' = Sent(x)
  /\ Len(views[x]) < Len(Sent(x)) /\ Len(views'[x]) = Len(views[x]) + 1
  /\ ~Over(x) /\ ~Over(x)'
  /\ Owed(x)

Ends(x) ==
  /\ Phase(x) = "off" /\ Phase(x)' = "off" /\ base'[x] = base[x]
  /\ Sent(x)' = Sent(x) /\ views'[x] = views[x]
  /\ Len(views[x]) = Len(Sent(x))
  /\ ~Over(x) /\ Over(x)'

Quits(x) ==
  /\ x \in Iterators
  /\ Phase(x)' = "off" /\ base'[x] = base[x]
  /\ Sent(x)' = views[x] /\ views'[x] = views[x]
  /\ ~Over(x) /\ Over(x)'

Serves ==
  \/ Stays
  \/ Advances
  \/ \E new \in SUBSET Subs : Joins(new)
  \/ \E x \in Subs :
       /\ Others(x)
       /\ Sends(x) \/ Leaves(x) \/ Receives(x) \/ Ends(x) \/ Quits(x)

\* What has been sent to x.
LEMMA SentType ==
  ASSUME TypeOK, NEW x \in Subs
  PROVE  /\ Pending(x) \in Seq(Nat) /\ views[x] \in Seq(Nat)
         /\ Sent(x) \in Seq(Nat)
         /\ Len(views[x]) \in Nat /\ Len(Pending(x)) \in Nat
         /\ Len(Sent(x)) = Len(views[x]) + Len(Pending(x))
<1>1. feed[x] \in Seq(Nat) /\ views[x] \in Seq(Nat)
  BY DEF TypeOK
<1>2. <<>> \in Seq(Nat) /\ Upto(feed[x]) \in Seq(Nat)
  BY <1>1, UptoType
<1>3. Pending(x) \in Seq(Nat)
  BY <1>2, PendingUpto
<1>4. /\ Sent(x) \in Seq(Nat)
      /\ Len(Sent(x)) = Len(views[x]) + Len(Pending(x))
  BY <1>1, <1>3, ConcatProperties DEF Sent
<1> QED
  BY <1>1, <1>3, <1>4, LenProperties

\* Where x is in SubscriberFeed.
LEMMA Phases ==
  ASSUME TypeOK, Ending, NEW x \in Subs
  PROVE  /\ Phase(x) = "off" <=> x \in ending \cup closed
         /\ Phase(x) = "on" <=>
              x \notin ending \cup closed /\ x \in ToSet(subscribers)
         /\ Phase(x) \in {"waiting", "on", "off"}
         /\ Over(x) => Phase(x) = "off"
<1>1. pc[x] = "ended" => x \in ending \cup closed
  BY Kinds DEF Ending
<1> QED
  BY <1>1 DEF Phase, Over

\* Who is listed goes on to be sent all states.
LEMMA UpToDateKept ==
  ASSUME TypeOK, Ending, UpToDate, Serves
  PROVE  UpToDate'
<1> SUFFICES ASSUME NEW x \in Subs, Phase(x)' = "on"
             PROVE  /\ base'[x] # Unlisted
                    /\ base'[x] + Len(Sent(x)')
                         + (IF Owes(x)' THEN 1 ELSE 0) = version'
  BY DEF UpToDate
<1>t. /\ version \in Nat /\ base[x] \in Nat \cup {Unlisted}
      /\ Len(Sent(x)) \in Nat /\ Sent(x) \in Seq(Nat)
  BY SentType, LenProperties DEF TypeOK
<1>u. Phase(x) = "on" => /\ base[x] # Unlisted
                         /\ base[x] + Len(Sent(x))
                              + (IF Owes(x) THEN 1 ELSE 0) = version
  BY DEF UpToDate
<1>k. ASSUME Kept(x), Owed(x), UNCHANGED version
      PROVE  /\ base'[x] # Unlisted
             /\ base'[x] + Len(Sent(x)')
                  + (IF Owes(x)' THEN 1 ELSE 0) = version'
  BY <1>k, <1>u DEF Kept, Owed
<1>1. CASE Stays
  BY <1>1, <1>k DEF Stays
<1>2. CASE Advances
  <2>1. /\ base'[x] = base[x] /\ Sent(x)' = Sent(x) /\ version' = version + 1
        /\ ~Owes(x) /\ Owes(x)' /\ Phase(x) = "on"
    BY <1>2 DEF Advances, Kept
  <2>2. base[x] # Unlisted /\ base[x] + Len(Sent(x)) + 0 = version
    BY <1>u, <2>1
  <2>3. base[x] + Len(Sent(x)) + 1 = version + 1
    BY <1>t, <2>2
  <2> QED
    BY <2>1, <2>2, <2>3
<1>3. ASSUME NEW new \in SUBSET Subs, Joins(new)
      PROVE  /\ base'[x] # Unlisted
             /\ base'[x] + Len(Sent(x)')
                  + (IF Owes(x)' THEN 1 ELSE 0) = version'
  <2>1. CASE x \in new
    <3>1. /\ base'[x] = version /\ Sent(x)' = <<>> /\ ~Owes(x)'
          /\ version' = version
      BY <1>3, <2>1 DEF Joins
    <3>2. Len(<<>>) = 0
      OBVIOUS
    <3>3. version # Unlisted /\ version + 0 + 0 = version
      BY <1>t DEF Unlisted
    <3> QED
      BY <3>1, <3>2, <3>3
  <2>2. CASE x \notin new
    BY <1>3, <1>k, <2>2 DEF Joins
  <2> QED
    BY <2>1, <2>2
<1>4. ASSUME NEW y \in Subs, Others(y),
             Sends(y) \/ Leaves(y) \/ Receives(y) \/ Ends(y) \/ Quits(y)
      PROVE  /\ base'[x] # Unlisted
             /\ base'[x] + Len(Sent(x)')
                  + (IF Owes(x)' THEN 1 ELSE 0) = version'
  <2>1. CASE x # y
    BY <1>4, <1>k, <2>1 DEF Others
  <2>2. CASE x = y /\ Sends(y)
    <3>1. /\ base'[x] = base[x] /\ Sent(x)' = Append(Sent(x), version)
          /\ Owes(x) /\ ~Owes(x)' /\ version' = version /\ Phase(x) = "on"
      BY <1>4, <2>2 DEF Others, Sends
    <3>2. base[x] # Unlisted /\ base[x] + Len(Sent(x)) + 1 = version
      BY <1>u, <3>1
    <3>3. Len(Append(Sent(x), version)) = Len(Sent(x)) + 1
      BY <1>t, AppendProperties
    <3>4. base[x] + (Len(Sent(x)) + 1) + 0 = version
      BY <1>t, <3>2
    <3> QED
      BY <3>1, <3>2, <3>3, <3>4
  <2>3. CASE x = y /\ Receives(y)
    BY <1>4, <1>u, <2>3 DEF Others, Receives, Owed
  <2> QED
    BY <1>4, <2>1, <2>2, <2>3 DEF Leaves, Ends, Quits
<1> QED
  BY <1>1, <1>2, <1>3, <1>4 DEF Serves

-----------------------------------------------------------------------------
(* ... are steps of SubscriberFeed *)

\* What the variables of SubscriberFeed stand for.
phases == [x \in Subs |-> Phase(x)]
bases == [x \in Subs |-> IF base[x] = Unlisted THEN 0 ELSE base[x]]
sents == [x \in Subs |-> Sent(x)]
seens == [x \in Subs |-> Len(views[x])]
overs == {x \in Subs : Over(x)}

\* A step that leaves everybody but x where they were.
LEMMA OthersMap ==
  ASSUME NEW x \in Subs, Others(x)
  PROVE  /\ version' = version
         /\ \A y \in Subs \ {x} :
              /\ phases'[y] = phases[y] /\ bases'[y] = bases[y]
              /\ sents'[y] = sents[y] /\ seens'[y] = seens[y]
              /\ y \in overs' <=> y \in overs
BY DEF Others, Kept, phases, bases, sents, seens, overs

\* The state of x in SubscriberFeed.
LEMMA StateMap ==
  ASSUME NEW x \in Subs
  PROVE  /\ phases[x] = Phase(x) /\ phases'[x] = Phase(x)'
         /\ base'[x] = base[x] => bases'[x] = bases[x]
         /\ sents[x] = Sent(x) /\ sents'[x] = Sent(x)'
         /\ seens[x] = Len(views[x]) /\ seens'[x] = Len(views'[x])
         /\ x \in overs <=> Over(x)
         /\ x \in overs' <=> Over(x)'
BY DEF phases, bases, sents, seens, overs

\* What has been received is the beginning of what has been sent.
LEMMA ConcatPrefix ==
  ASSUME NEW S, NEW q \in Seq(S), NEW r \in Seq(S)
  PROVE  SubSeq(q \o r, 1, Len(q)) = q
<1> DEFINE c == q \o r
           n == Len(q)
<1>1. /\ c \in Seq(S) /\ Len(c) = Len(q) + Len(r)
      /\ \A i \in 1 .. Len(q) + Len(r) :
           c[i] = IF i <= Len(q) THEN q[i] ELSE r[i - Len(q)]
  BY ConcatProperties
<1>2. Len(q) \in Nat /\ Len(r) \in Nat
  BY LenProperties
<1> HIDE DEF c
<1>3. \A i \in 1 .. n : c[i] = q[i]
  BY <1>1, <1>2
<1>4. \A i \in 1 .. n : c[i] \in S
  BY <1>3, ElementOfSeq
<1> HIDE DEF n
<1>5. n \in Nat
  BY <1>2 DEF n
<1>6. /\ SubSeq(c, 1, n) \in Seq(S)
      /\ Len(SubSeq(c, 1, n)) = IF 1 <= n THEN n - 1 + 1 ELSE 0
      /\ \A i \in 1 .. n - 1 + 1 : SubSeq(c, 1, n)[i] = c[1 + i - 1]
  BY <1>4, <1>5, SubSeqProperties
<1>7. Len(SubSeq(c, 1, n)) = n
  BY <1>5, <1>6
<1>8. \A i \in 1 .. n : SubSeq(c, 1, n)[i] = q[i]
  <2> SUFFICES ASSUME NEW i \in 1 .. n PROVE SubSeq(c, 1, n)[i] = q[i]
    OBVIOUS
  <2>1. i \in 1 .. n - 1 + 1 /\ 1 + i - 1 = i
    BY <1>5
  <2> QED
    BY <1>3, <1>6, <2>1
<1> QED
  BY <1>6, <1>7, <1>8, SeqEqual DEF n, c

\* Every step of a feed is one of SubscriberFeed.
LEMMA ServesMaps ==
  ASSUME TypeOK, Ending, UpToDate, Serves
  PROVE  [Feeds!Next]_(Feeds!feedVars)
<1>f. /\ phases = [x \in Subs |-> phases[x]]
      /\ phases' = [x \in Subs |-> phases'[x]]
      /\ bases = [x \in Subs |-> bases[x]]
      /\ bases' = [x \in Subs |-> bases'[x]]
      /\ sents = [x \in Subs |-> sents[x]]
      /\ sents' = [x \in Subs |-> sents'[x]]
      /\ seens = [x \in Subs |-> seens[x]]
      /\ seens' = [x \in Subs |-> seens'[x]]
      /\ overs \subseteq Subs /\ overs' \subseteq Subs
  BY DEF phases, bases, sents, seens, overs
<1>m. /\ phases = [x \in Subs |-> Phase(x)]
      /\ phases' = [x \in Subs |-> Phase(x)]'
      /\ bases = [x \in Subs |-> IF base[x] = Unlisted THEN 0 ELSE base[x]]
      /\ bases' = [x \in Subs |-> IF base[x] = Unlisted THEN 0 ELSE base[x]]'
      /\ sents = [x \in Subs |-> views[x] \o Pending(x)]
      /\ sents' = [x \in Subs |-> views[x] \o Pending(x)]'
      /\ seens = [x \in Subs |-> Len(views[x])]
      /\ seens' = [x \in Subs |-> Len(views[x])]'
      /\ overs = {x \in Subs : x \in closed \/ pc[x] = "ended"}
      /\ overs' = {x \in Subs : x \in closed \/ pc[x] = "ended"}'
  BY DEF phases, bases, sents, seens, overs, Sent, Over
<1>c. ASSUME \A y \in Subs : Kept(y)
      PROVE  /\ phases' = phases /\ bases' = bases /\ sents' = sents
             /\ seens' = seens /\ overs' = overs
  <2>1. /\ \A y \in Subs : phases'[y] = phases[y]
        /\ \A y \in Subs : bases'[y] = bases[y]
        /\ \A y \in Subs : sents'[y] = sents[y]
        /\ \A y \in Subs : seens'[y] = seens[y]
        /\ \A y \in Subs : y \in overs' <=> y \in overs
    BY <1>c DEF Kept, phases, bases, sents, seens, overs
  <2>2. phases' = phases
    BY <1>f, <2>1
  <2>3. bases' = bases
    BY <1>f, <2>1
  <2>4. sents' = sents
    BY <1>f, <2>1
  <2>5. seens' = seens
    BY <1>f, <2>1
  <2>6. overs' = overs
    BY <1>f, <2>1
  <2> QED
    BY <2>2, <2>3, <2>4, <2>5, <2>6
<1>o. ASSUME NEW x \in Subs, Others(x)
      PROVE  /\ version' = version
             /\ phases' = [phases EXCEPT ![x] = Phase(x)']
             /\ base'[x] = base[x] => bases' = bases
             /\ sents' = [sents EXCEPT ![x] = Sent(x)']
             /\ seens' = [seens EXCEPT ![x] = Len(views'[x])]
             /\ Phase(x)' = Phase(x) => phases' = phases
             /\ Sent(x)' = Sent(x) => sents' = sents
             /\ Len(views'[x]) = Len(views[x]) => seens' = seens
             /\ (Over(x)' <=> Over(x)) => overs' = overs
             /\ Over(x)' => overs' = overs \cup {x}
  <2>1. /\ \A y \in Subs \ {x} : phases'[y] = phases[y]
        /\ \A y \in Subs \ {x} : bases'[y] = bases[y]
        /\ \A y \in Subs \ {x} : sents'[y] = sents[y]
        /\ \A y \in Subs \ {x} : seens'[y] = seens[y]
        /\ \A y \in Subs \ {x} : y \in overs' <=> y \in overs
    BY <1>o, OthersMap
  <2>2. /\ phases'[x] = Phase(x)' /\ phases[x] = Phase(x)
        /\ sents'[x] = Sent(x)' /\ sents[x] = Sent(x)
        /\ seens'[x] = Len(views'[x]) /\ seens[x] = Len(views[x])
        /\ base'[x] = base[x] => bases'[x] = bases[x]
        /\ x \in overs <=> Over(x)
        /\ x \in overs' <=> Over(x)'
    BY StateMap
  <2>3. phases' = [phases EXCEPT ![x] = Phase(x)']
    BY <1>f, <2>1, <2>2
  <2>4. sents' = [sents EXCEPT ![x] = Sent(x)']
    BY <1>f, <2>1, <2>2
  <2>5. seens' = [seens EXCEPT ![x] = Len(views'[x])]
    BY <1>f, <2>1, <2>2
  <2>6. base'[x] = base[x] => bases' = bases
    BY <1>f, <2>1, <2>2
  <2>7. Phase(x)' = Phase(x) => phases' = phases
    BY <1>f, <2>1, <2>2
  <2>8. Sent(x)' = Sent(x) => sents' = sents
    BY <1>f, <2>1, <2>2
  <2>9. Len(views'[x]) = Len(views[x]) => seens' = seens
    BY <1>f, <2>1, <2>2
  <2>10. (Over(x)' <=> Over(x)) => overs' = overs
    <3>1. (Over(x)' <=> Over(x)) => \A y \in Subs : y \in overs' <=> y \in overs
      BY <2>1, <2>2
    <3> QED
      BY <1>f, <3>1
  <2>11. Over(x)' => overs' = overs \cup {x}
    <3>1. Over(x)' => \A y \in Subs : y \in overs' <=> y \in overs \cup {x}
      BY <2>1, <2>2
    <3> QED
      BY <1>f, <3>1
  <2> QED
    BY <1>o, <2>3, <2>4, <2>5, <2>6, <2>7, <2>8, <2>9, <2>10,
       <2>11, OthersMap
<1>t. ASSUME NEW x \in Subs
      PROVE  /\ phases[x] = Phase(x) /\ sents[x] = Sent(x)
             /\ seens[x] = Len(views[x])
             /\ base[x] # Unlisted => bases[x] = base[x]
             /\ x \in overs <=> Over(x)
  BY DEF phases, bases, sents, seens, overs
<1>1. ASSUME NEW x \in Subs, Others(x), Sends(x)
      PROVE  Feeds!Send(x)
  <2>1. /\ phases[x] = "on" /\ bases[x] + Len(sents[x]) < version
    <3>1. /\ base[x] # Unlisted /\ base[x] + Len(Sent(x)) + 1 = version
      BY <1>1 DEF Sends, UpToDate
    <3>2. /\ base[x] \in Nat /\ Len(Sent(x)) \in Nat
      BY <3>1, SentType, LenProperties DEF TypeOK
    <3> QED
      BY <1>1, <1>t, <3>1, <3>2 DEF Sends
  <2>2. /\ phases' = phases /\ bases' = bases /\ seens' = seens
        /\ overs' = overs /\ version' = version
        /\ sents' = [sents EXCEPT ![x] = Append(@, version)]
    BY <1>1, <1>o, <1>t DEF Sends
  <2> QED
    BY <1>m, <2>1, <2>2 DEF Feeds!Send
<1>2. ASSUME NEW x \in Subs, Others(x), Leaves(x)
      PROVE  Feeds!Leave(x)
  <2>1. /\ bases' = bases /\ sents' = sents /\ seens' = seens
        /\ overs' = overs /\ version' = version /\ phases[x] # "off"
        /\ phases' = [phases EXCEPT ![x] = "off"]
    BY <1>2, <1>o, <1>t DEF Leaves
  <2> QED
    BY <1>m, <2>1 DEF Feeds!Leave
<1>3. ASSUME NEW x \in Subs, Others(x), Receives(x)
      PROVE  Feeds!Receive(x)
  <2>1. /\ phases' = phases /\ bases' = bases /\ sents' = sents
        /\ overs' = overs /\ version' = version /\ x \notin overs
        /\ seens[x] < Len(sents[x])
        /\ seens' = [seens EXCEPT ![x] = @ + 1]
    BY <1>3, <1>o, <1>t DEF Receives
  <2> QED
    BY <1>m, <2>1 DEF Feeds!Receive
<1>4. ASSUME NEW x \in Subs, Others(x), Ends(x)
      PROVE  Feeds!End(x)
  <2>1. /\ phases' = phases /\ bases' = bases /\ sents' = sents
        /\ seens' = seens /\ version' = version /\ x \notin overs
        /\ phases[x] = "off" /\ seens[x] = Len(sents[x])
        /\ overs' = overs \cup {x}
    BY <1>4, <1>o, <1>t DEF Ends
  <2> QED
    BY <1>m, <2>1 DEF Feeds!End
<1>5. ASSUME NEW x \in Subs, Others(x), Quits(x)
      PROVE  Feeds!Quit(x)
  <2>1. SubSeq(Sent(x), 1, Len(views[x])) = views[x]
    BY SentType, ConcatPrefix DEF Sent
  <2>2. /\ bases' = bases /\ seens' = seens /\ version' = version
        /\ x \in Iterators \ overs
        /\ phases' = [phases EXCEPT ![x] = "off"]
        /\ sents' = [sents EXCEPT ![x] = SubSeq(@, 1, seens[x])]
        /\ overs' = overs \cup {x}
    BY <1>5, <1>o, <1>t, <2>1 DEF Quits
  <2> QED
    BY <1>m, <2>2 DEF Feeds!Quit
<1>6. ASSUME NEW new \in SUBSET Subs, Joins(new)
      PROVE  Feeds!Join
  <2>1. \A x \in Subs : x \in new => phases[x] = "waiting"
    BY <1>6, <1>t DEF Joins
  <2>2. /\ \A x \in Subs : phases'[x] = IF x \in new THEN "on" ELSE phases[x]
        /\ \A x \in Subs : bases'[x] = IF x \in new THEN version ELSE bases[x]
        /\ \A x \in Subs : sents'[x] = sents[x]
        /\ \A x \in Subs : seens'[x] = seens[x]
        /\ \A x \in Subs : x \in overs' <=> x \in overs
    <3> SUFFICES ASSUME NEW x \in Subs
                 PROVE  /\ phases'[x] = IF x \in new THEN "on" ELSE phases[x]
                        /\ bases'[x] = IF x \in new THEN version ELSE bases[x]
                        /\ sents'[x] = sents[x] /\ seens'[x] = seens[x]
                        /\ x \in overs' <=> x \in overs
      OBVIOUS
    <3>1. CASE x \in new
      <4>1. version # Unlisted
        BY DEF TypeOK, Unlisted
      <4> QED
        BY <1>6, <3>1, <4>1 DEF Joins, phases, bases, sents, seens, overs
    <3>2. CASE x \notin new
      BY <1>6, <3>2 DEF Joins, Kept, phases, bases, sents, seens, overs
    <3> QED
      BY <3>1, <3>2
  <2>3. phases' = [x \in Subs |-> IF x \in new THEN "on" ELSE phases[x]]
    BY <1>f, <2>2
  <2>4. bases' = [x \in Subs |-> IF x \in new THEN version ELSE bases[x]]
    BY <1>f, <2>2
  <2>5. sents' = sents
    BY <1>f, <2>2
  <2>6. seens' = seens
    BY <1>f, <2>2
  <2>7. overs' = overs
    BY <1>f, <2>2
  <2>8. version' = version /\ new \in SUBSET {x \in Subs : phases[x] = "waiting"}
    BY <1>6, <2>1 DEF Joins
  <2> QED
    BY <1>m, <2>3, <2>4, <2>5, <2>6, <2>7, <2>8 DEF Feeds!Join
<1>7. ASSUME Advances
      PROVE  Feeds!Advance
  <2>1. \A x \in Subs : phases[x] = "on" => bases[x] + Len(sents[x]) = version
    <3> SUFFICES ASSUME NEW x \in Subs, phases[x] = "on"
                 PROVE  bases[x] + Len(sents[x]) = version
      OBVIOUS
    <3>1. base[x] # Unlisted /\ base[x] + Len(Sent(x)) + 0 = version
      BY <1>7, <1>t DEF Advances, UpToDate
    <3>2. base[x] \in Nat /\ Len(Sent(x)) \in Nat
      BY <3>1, SentType, LenProperties DEF TypeOK
    <3>3. base[x] + Len(Sent(x)) = version
      BY <3>1, <3>2
    <3> QED
      BY <1>t, <3>1, <3>3
  <2>2. /\ phases' = phases /\ bases' = bases /\ sents' = sents
        /\ seens' = seens /\ overs' = overs /\ version' = version + 1
    BY <1>7, <1>c DEF Advances
  <2> QED
    BY <1>m, <2>1, <2>2 DEF Feeds!Advance
<1>8. CASE Stays
  <2>1. /\ phases' = phases /\ bases' = bases /\ sents' = sents
        /\ seens' = seens /\ overs' = overs /\ version' = version
    BY <1>8, <1>c DEF Stays
  <2> QED
    BY <1>m, <2>1 DEF Feeds!feedVars
<1> QED
  BY <1>1, <1>2, <1>3, <1>4, <1>5, <1>6, <1>7, <1>8 DEF Serves, Feeds!Next

-----------------------------------------------------------------------------
(* Each step of StoreSubscribers serves *)

\* A subscriber whose channel nobody touches, and who stays on the list or off it.
LEMMA KeptIf ==
  ASSUME NEW x \in Subs, base'[x] = base[x], views'[x] = views[x],
         feed'[x] = feed[x], x \in ending' <=> x \in ending,
         x \in closed' <=> x \in closed,
         x \in closed \/ (pc'[x] = "ended" <=> pc[x] = "ended"),
         \/ x \in ending \cup closed
         \/ x \in ToSet(subscribers') <=> x \in ToSet(subscribers),
         x \in Iterators => (pc'[x] \in Leaving <=> pc[x] \in Leaving)
  PROVE  Kept(x)
<1>1. Pending(x)' = Pending(x)
  BY PendingUpto
<1>2. Phase(x)' = Phase(x)
  BY DEF Phase
<1>3. Over(x)' <=> Over(x)
  BY DEF Over
<1>4. Sent(x)' = Sent(x)
  BY <1>1 DEF Sent
<1> QED
  BY <1>2, <1>3, <1>4 DEF Kept

Notes == {"notify", "send", "wait", "giveUp"}

\* The reducer owes nobody more or less.
LEMMA OwesKept ==
  ASSUME UNCHANGED rest, subsLock' = Reducer <=> subsLock = Reducer,
         \/ pc'[Reducer] = pc[Reducer]
         \/ /\ pc[Reducer] # "snapshot" /\ pc'[Reducer] # "snapshot"
            /\ \/ pc'[Reducer] \in Notes <=> pc[Reducer] \in Notes
               \/ subsLock = Reducer
  PROVE  \A x \in Subs : Owed(x)
<1>1. \A x \in Subs : Owes(x)' <=> Owes(x)
  BY DEF Owes, Notes
<1> QED
  BY <1>1 DEF Owed

\* The reducer has notified the head of rest, and no other.
LEMMA OwesNext ==
  ASSUME TypeOK, Lists, rest # <<>>, pc[Reducer] \in Notes,
         subsLock # Reducer, UNCHANGED subsLock, NotifyRest(Tail(rest)),
         NEW y, y = Head(rest)
  PROVE  /\ y \in Subs /\ Owes(y) /\ ~Owes(y)'
         /\ \A x \in Subs : x # y => Owed(x)
<1>1. /\ rest \in Seq(Subs) /\ IsInjective(rest)
      /\ ToSet(rest) = ToSet(Tail(rest)) \cup {Head(rest)}
      /\ Head(rest) \notin ToSet(Tail(rest))
  BY TailSet DEF TypeOK, Lists
<1>2. y \in Subs
  BY <1>1, HeadTailProperties
<1>3. /\ rest' = Tail(rest)
      /\ pc'[Reducer] = IF Tail(rest) = <<>> THEN "recv" ELSE "notify"
  BY Kinds DEF NotifyRest, Goto, TypeOK
<1>4. Tail(rest) = <<>> => ToSet(Tail(rest)) = {}
  BY ToSetProperties, EmptySeq
<1>5. \A x : Owes(x) <=> x \in ToSet(rest)
  BY DEF Owes, Notes
<1>6. \A x : Owes(x)' <=> x \in ToSet(Tail(rest))
  BY <1>3, <1>4 DEF Owes
<1> QED
  BY <1>1, <1>2, <1>5, <1>6 DEF Owed

\* unsubscribe, and the end of a subscriber.
LEMMA ServesOff ==
  ASSUME FInv, NEW t \in Threads,
         \/ LockSubscribers(t) \/ Unsubscribed(t) \/ OffChanneled(t)
         \/ OffIterator(t) \/ Joined(t) \/ FeedWait(t)
  PROVE  Serves
<1> USE DEF dispatchTx, lists, feeds, locals, history, Goto
<1>i. /\ SInv /\ TypeOK /\ Places /\ Owners /\ Notifying /\ Iterating
      /\ Ending /\ Removing
  BY DEF FInv, SInv
<1>p. /\ pc \in [Threads -> Steps] /\ subscribers \in Seq(Subs)
      /\ closed \subseteq Iterators
  BY <1>i DEF TypeOK
\* t goes on to s.
<1>m. ASSUME NEW s, s # "ended", Goto(t, s), pc[t] # "ended",
             UNCHANGED <<version, base, views, feed, ending, closed, rest>>,
             \A x \in Subs : \/ x \in ending \cup closed
                             \/ x \in ToSet(subscribers')
                                  <=> x \in ToSet(subscribers),
             t \in Iterators => (s \in Leaving <=> pc[t] \in Leaving),
             subsLock' = Reducer <=> subsLock = Reducer,
             t = Reducer => /\ {pc[t], s} \cap {"snapshot"} = {}
                            /\ \/ s \in Notes <=> pc[t] \in Notes
                               \/ subsLock = Reducer
      PROVE  Serves
  <2>1. pc' = [pc EXCEPT ![t] = s]
    BY <1>m
  <2>2. ASSUME NEW x \in Subs PROVE Kept(x)
    <3>1. /\ pc'[x] = "ended" <=> pc[x] = "ended"
          /\ x \in Iterators => (pc'[x] \in Leaving <=> pc[x] \in Leaving)
      BY <1>m, <1>p, <2>1, Kinds
    <3>2. /\ base'[x] = base[x] /\ views'[x] = views[x] /\ feed'[x] = feed[x]
          /\ x \in ending' <=> x \in ending
          /\ x \in closed' <=> x \in closed
      BY <1>m
    <3> QED
      BY <1>m, <3>1, <3>2, KeptIf
  <2>3. \A x \in Subs : Owed(x)
    <3>1. \/ pc'[Reducer] = pc[Reducer]
          \/ /\ pc[Reducer] # "snapshot" /\ pc'[Reducer] # "snapshot"
             /\ \/ pc'[Reducer] \in Notes <=> pc[Reducer] \in Notes
                \/ subsLock = Reducer
      BY <1>m, <1>p, <2>1, Kinds
    <3> QED
      BY <1>m, <3>1, OwesKept
  <2> QED
    BY <1>m, <2>2, <2>3 DEF Serves, Stays
<1>1. CASE LockSubscribers(t)
  <2>1. /\ pc[t] = "lockSubs" /\ t # Reducer
        /\ subsLock = NoOne /\ subsLock' = t
        /\ \E s \in {"off", "told"} : Goto(t, s)
        /\ UNCHANGED <<version, base, views, feed, ending, closed, rest,
                       subscribers>>
    BY <1>1 DEF LockSubscribers
  <2>2. subsLock' = Reducer <=> subsLock = Reducer
    BY <2>1, Kinds
  <2> QED
    BY <1>m, <2>1, <2>2 DEF Leaving
<1>2. CASE Unsubscribed(t)
  <2> DEFINE y == Target(t)
  <2>1. /\ t # Reducer /\ pc[t] = "told" /\ subsLock' = NoOne
        /\ subscribers' = Without(subscribers, y)
        /\ UNCHANGED <<version, base, views, feed, ending, closed, rest>>
    BY <1>2 DEF Unsubscribed
  <2>2. /\ t \in Clients \cup Subs /\ subsLock = t
        /\ y \notin ToSet(subscribers) \/ y \in ending \cup closed
    BY <1>i, <2>1, ToldOff
  <2>3. /\ ToSet(subscribers) \ {y} \subseteq ToSet(subscribers')
        /\ ToSet(subscribers') \subseteq ToSet(subscribers)
    BY <1>p, <2>1, WithoutProperties
  <2>4. \A x \in Subs : \/ x \in ending \cup closed
                        \/ x \in ToSet(subscribers')
                             <=> x \in ToSet(subscribers)
    BY <2>2, <2>3
  <2>5. subsLock' = Reducer <=> subsLock = Reducer
    BY <2>1, <2>2, Kinds
  <2> HIDE DEF y
  <2>6. CASE t \notin Iterators
    <3>1. Return(t)
      BY <1>2, <2>6 DEF Unsubscribed
    <3>2. Home(t) # "ended" /\ Goto(t, Home(t))
      BY <2>2, <2>6, <3>1, HomeType, Kinds DEF Return
    <3> QED
      BY <1>m, <2>1, <2>4, <2>5, <2>6, <3>2
  <2>7. CASE t \in Iterators /\ t \notin closed
    <3>1. Goto(t, "close")
      BY <1>2, <2>7 DEF Unsubscribed
    <3>2. "close" \in Leaving /\ "told" \in Leaving
      BY DEF Leaving
    <3> QED
      BY <1>m, <2>1, <2>4, <2>5, <2>7, <3>1, <3>2
  <2>8. CASE t \in Iterators /\ t \in closed
    <3>1. pc' = [pc EXCEPT ![t] = "ended"]
      BY <1>2, <2>8 DEF Unsubscribed
    <3>2. ASSUME NEW x \in Subs PROVE Kept(x)
      <4>1. /\ x \in closed \/ (pc'[x] = "ended" <=> pc[x] = "ended")
            /\ x \in Iterators => (pc'[x] \in Leaving <=> pc[x] \in Leaving)
        BY <1>p, <2>1, <2>8, <3>1, Kinds DEF Leaving
      <4>2. /\ base'[x] = base[x] /\ views'[x] = views[x]
            /\ feed'[x] = feed[x]
            /\ x \in ending' <=> x \in ending
            /\ x \in closed' <=> x \in closed
        BY <2>1
      <4> QED
        BY <2>4, <4>1, <4>2, KeptIf
    <3>3. pc'[Reducer] = pc[Reducer]
      BY <1>p, <2>1, <3>1, Kinds
    <3>4. \A x \in Subs : Owed(x)
      BY <2>1, <2>5, <3>3, OwesKept
    <3> QED
      BY <2>1, <3>2, <3>4 DEF Serves, Stays
  <2> QED
    BY <2>6, <2>7, <2>8
<1>n. ASSUME t = Reducer, pc[t] \in {"off", "join"}
      PROVE  subsLock = Reducer
  BY <1>i, <1>n DEF Owners
<1>3. CASE OffChanneled(t)
  <2> PICK y : y = Target(t)
    OBVIOUS
  <2>1. /\ pc[t] = "off" /\ y \in Channeled /\ y \notin closed
        /\ ending' = ending \cup {y}
        /\ pc' = [pc EXCEPT ![t] = IF y \in ending THEN "join" ELSE "send"]
        /\ UNCHANGED <<version, base, views, feed, closed, rest, subsLock,
                       subscribers>>
    BY <1>3, <1>p, Kinds DEF OffChanneled
  <2>2. t \notin Iterators
    <3>1. t \in Iterators => y = t
      BY Kinds DEF Target
    <3> QED
      BY <2>1, <3>1, Kinds
  <2>3. CASE y \in ending
    <3>1. ending' = ending /\ Goto(t, "join")
      BY <2>1, <2>3
    <3> QED
      BY <1>m, <1>n, <2>1, <2>2, <3>1 DEF Notes
  <2>4. CASE y \notin ending
    <3>1. pc' = [pc EXCEPT ![t] = "send"]
      BY <2>1, <2>4
    <3>2. \A x \in Subs : /\ pc'[x] = "ended" <=> pc[x] = "ended"
                          /\ x \in Iterators => pc'[x] = pc[x]
      BY <1>p, <2>1, <2>2, <3>1, Kinds
    <3>3. ASSUME NEW x \in Subs, x # y PROVE Kept(x)
      <4>1. /\ base'[x] = base[x] /\ views'[x] = views[x]
            /\ feed'[x] = feed[x]
            /\ x \in ending' <=> x \in ending
            /\ x \in closed' <=> x \in closed
            /\ x \in ToSet(subscribers') <=> x \in ToSet(subscribers)
        BY <2>1, <3>3
      <4> QED
        BY <3>2, <4>1, KeptIf
    <3>4. pc'[Reducer] = pc[Reducer] \/ t = Reducer
      BY <1>p, <3>1, Kinds
    <3>5. t = Reducer => pc'[Reducer] = "send" /\ pc[Reducer] = "off"
      BY <1>p, <2>1, <3>1
    <3>6. \A x \in Subs : Owed(x)
      BY <1>n, <2>1, <3>4, <3>5, OwesKept
    <3>7. y \in Subs /\ y \notin Iterators
      BY <2>1, Kinds
    <3>8. Phase(y) # "off" /\ Phase(y)' = "off"
      BY <1>i, <2>1, <2>4, <3>7, Phases DEF Phase
    <3>9. Sent(y)' = Sent(y)
      BY <2>1, <3>7, PendingUpto DEF Sent
    <3>10. Over(y)' <=> Over(y)
      BY <2>1, <3>2, <3>7 DEF Over
    <3>11. Others(y) /\ Leaves(y)
      BY <2>1, <3>3, <3>6, <3>8, <3>9, <3>10 DEF Others, Leaves
    <3> QED
      BY <3>7, <3>11 DEF Serves
  <2> QED
    BY <2>3, <2>4
<1>4. CASE OffIterator(t)
  <2>1. /\ pc[t] = "off" /\ Target(t) \in Iterators
        /\ \E s \in {"told", "send"} : /\ Goto(t, s)
                                       /\ Target(t) \in closed => s = "told"
        /\ UNCHANGED <<version, base, views, feed, ending, closed, rest,
                       subsLock, subscribers>>
    BY <1>4 DEF OffIterator
  <2>2. PICK s \in {"told", "send"} :
          Goto(t, s) /\ (Target(t) \in closed => s = "told")
    BY <2>1
  <2>3. t \in Iterators => s = "told"
    <3>1. t \in Iterators => Target(t) = t
      BY Kinds DEF Target
    <3> QED
      BY <1>i, <2>1, <2>2, <3>1 DEF Iterating
  <2>4. "off" \in Leaving /\ "told" \in Leaving
    BY DEF Leaving
  <2> QED
    BY <1>m, <1>n, <2>1, <2>2, <2>3, <2>4
<1>5. CASE Joined(t)
  <2>1. /\ pc[t] = "join" /\ Goto(t, "told") /\ t \notin Iterators
        /\ UNCHANGED <<version, base, views, feed, ending, closed, rest,
                       subsLock, subscribers>>
    BY <1>5, <1>i DEF Joined, Places
  <2> QED
    BY <1>m, <1>n, <2>1
<1>6. CASE FeedWait(t)
  <2>1. /\ pc[t] = "send" /\ Goto(t, "wait") /\ t \notin Iterators
        /\ UNCHANGED <<version, base, views, feed, ending, closed, rest,
                       subsLock, subscribers>>
    BY <1>6, <1>i DEF FeedWait, Places
  <2> QED
    BY <1>m, <2>1 DEF Notes
<1> QED
  BY <1>1, <1>2, <1>3, <1>4, <1>5, <1>6

\* The send into a subscriber's channel.
LEMMA ServesSend ==
  ASSUME FInv, NEW t \in Threads, FeedPush(t)
  PROVE  Serves
<1> USE DEF dispatchTx, lists, feeds, locals, history, Goto
<1>i. /\ SInv /\ TypeOK /\ Places /\ Owners /\ Notifying /\ Lists
      /\ Ending /\ Removing /\ UpToDate
  BY DEF FInv, SInv
<1>p. /\ pc \in [Threads -> Steps] /\ feed \in [Subs -> Seq(Nat)]
      /\ version \in Nat
  BY <1>i DEF TypeOK
<1>y. PICK y : y = Target(t)
  OBVIOUS
<1>1. /\ pc[t] \in Sending /\ AfterSend(t) /\ y \in Subs /\ Msg(t) \in Nat
      /\ t \notin Iterators
      /\ Msg(t) = Exit <=> subsLock = t
      /\ t # Reducer => Msg(t) = Exit
      /\ t = Reducer => rest # <<>> /\ y = Head(rest)
      /\ feed' = [feed EXCEPT ![y] = Append(@, Msg(t))]
      /\ ending' = IF Msg(t) = Exit THEN ending \cup {y} ELSE ending
      /\ Msg(t) # Exit => Msg(t) = version
  BY <1>i, <1>y, PushParts
<1>2. UNCHANGED <<version, base, views, closed, subsLock, subscribers>>
  BY DEF FeedPush
<1>3. /\ feed'[y] = Append(feed[y], Msg(t)) /\ feed[y] \in Seq(Nat)
      /\ \A x \in Subs : x # y => feed'[x] = feed[x]
  BY <1>p, <1>1
<1>4. /\ \A u \in Threads : u # t => pc'[u] = pc[u]
      /\ \A x \in Subs : /\ pc'[x] = "ended" <=> pc[x] = "ended"
                         /\ x \in Iterators => pc'[x] = pc[x]
  <2>1. /\ \A u \in Threads : u # t => pc'[u] = pc[u]
        /\ pc'[t] # "ended"
    <3>1. CASE Msg(t) = Exit
      <4>1. \E s \in {"join", "told"} : Goto(t, s)
        BY <1>1, <3>1 DEF AfterSend
      <4> QED
        BY <1>p, <4>1
    <3>2. CASE Msg(t) # Exit
      <4>1. t = Reducer /\ \E s \in {"recv", "notify"} : Goto(t, s)
        BY <1>1, <3>2 DEF AfterSend, NotifyRest
      <4> QED
        BY <1>p, <4>1
    <3> QED
      BY <3>1, <3>2
  <2>2. pc[t] # "ended"
    BY <1>1 DEF Sending
  <2> QED
    BY <1>1, <2>1, <2>2, Kinds
<1>5. ASSUME NEW x \in Subs, x # y PROVE Kept(x)
  <2>1. /\ base'[x] = base[x] /\ views'[x] = views[x]
        /\ feed'[x] = feed[x]
        /\ x \in ending' <=> x \in ending
        /\ x \in closed' <=> x \in closed
        /\ x \in ToSet(subscribers') <=> x \in ToSet(subscribers)
    BY <1>1, <1>2, <1>3, <1>5
  <2> QED
    BY <1>4, <2>1, KeptIf
\* Exit, or a version behind it, is not pending.
<1>6. ASSUME Msg(t) = Exit \/ Phase(y) = "off"
      PROVE  Pending(y)' = Pending(y)
  <2>1. CASE y \in Iterators /\ pc[y] \in Leaving
    BY <1>4, <1>1, <2>1, PendingUpto
  <2>2. CASE ~(y \in Iterators /\ pc[y] \in Leaving)
    <3>1. /\ Pending(y) = Upto(feed[y])
          /\ Pending(y)' = Upto(Append(feed[y], Msg(t)))
      BY <1>1, <1>3, <1>4, <2>2, PendingUpto
    <3>2. Msg(t) = Exit \/ Exit \in ToSet(feed[y])
      <4>1. CASE y \in Iterators
        BY <1>1, <1>6, <1>i, <2>2, <4>1, Phases DEF Ending
      <4>2. ASSUME y \in Channeled, Msg(t) # Exit PROVE FALSE
        <5>1. t = Reducer /\ subsLock # Reducer /\ Head(rest) = y
          BY <1>1, <4>2
        <5>2. y \notin ending
          BY <1>1, <1>i, <4>2, <5>1 DEF Notifying
        <5>3. y \notin closed
          BY <1>i, <4>2, Kinds DEF TypeOK
        <5> QED
          BY <1>1, <1>6, <1>i, <4>2, <5>2, <5>3, Phases
      <4> QED
        BY <1>1, <4>1, <4>2, Kinds
    <3> QED
      BY <1>1, <1>3, <3>1, <3>2, UptoAppend
  <2> QED
    BY <2>1, <2>2
<1>7. Over(y)' <=> Over(y)
  BY <1>1, <1>2, <1>4 DEF Over
<1>8. base'[y] = base[y] /\ views'[y] = views[y]
  BY <1>2
<1>9. CASE Msg(t) = Exit
  <2>1. /\ UNCHANGED rest
        /\ pc'[Reducer] = pc[Reducer] \/ (t = Reducer /\ subsLock = Reducer)
        /\ t = Reducer => pc'[Reducer] \in {"join", "told"}
                          /\ pc[Reducer] \in Sending
    <3>1. UNCHANGED rest /\ \E s \in {"join", "told"} : Goto(t, s)
      BY <1>1, <1>9 DEF AfterSend
    <3> QED
      BY <1>1, <1>4, <1>9, <1>p, <3>1, Kinds
  <2>2. \A x \in Subs : Owed(x)
    BY <1>2, <2>1, OwesKept DEF Sending
  <2>3. Sent(y)' = Sent(y)
    BY <1>6, <1>8, <1>9 DEF Sent
  <2>4. Phase(y)' = "off"
    BY <1>1, <1>9 DEF Phase
  <2>5. CASE Phase(y) # "off"
    <3>1. Leaves(y) /\ Others(y)
      BY <1>2, <1>5, <1>7, <1>8, <2>2, <2>3, <2>4, <2>5 DEF Leaves, Others
    <3> QED
      BY <1>1, <3>1 DEF Serves
  <2>6. CASE Phase(y) = "off"
    <3>1. Kept(y)
      BY <1>7, <1>8, <2>3, <2>4, <2>6 DEF Kept
    <3>2. \A x \in Subs : Kept(x) /\ Owed(x)
      BY <1>5, <2>2, <3>1
    <3> QED
      BY <1>2, <3>2 DEF Serves, Stays
  <2> QED
    BY <2>5, <2>6
<1>10. CASE Msg(t) # Exit
  <2>1. /\ t = Reducer /\ subsLock # Reducer /\ rest # <<>> /\ y = Head(rest)
        /\ NotifyRest(Tail(rest)) /\ Msg(t) = version
        /\ pc[Reducer] \in Notes /\ ending' = ending
    BY <1>1, <1>10 DEF AfterSend, Sending, Notes
  <2>2. /\ Owes(y) /\ ~Owes(y)'
        /\ \A x \in Subs : x # y => Owed(x)
    BY <1>2, <1>i, <2>1, OwesNext
  <2>3. Others(y)
    BY <1>2, <1>5, <2>2 DEF Others
  <2>4. Phase(y)' = Phase(y)
    BY <1>1, <1>2, <1>4, <2>1 DEF Phase
  <2>5. CASE Phase(y) = "off"
    <3>1. Sent(y)' = Sent(y)
      BY <1>6, <1>8, <2>5 DEF Sent
    <3>2. Kept(y) /\ Owed(y)
      BY <1>7, <1>8, <2>4, <2>5, <3>1 DEF Kept, Owed
    <3>3. \A x \in Subs : Kept(x) /\ Owed(x)
      BY <1>5, <2>2, <3>2
    <3> QED
      BY <1>2, <3>3 DEF Serves, Stays
  <2>6. CASE Phase(y) # "off"
    <3>1. y \notin ending \cup closed /\ Phase(y) = "on"
      <4>1. y \notin ending \cup closed
        BY <1>1, <1>i, <2>6, Phases
      <4>2. y \in ToSet(rest)
        BY <1>i, <2>1, TailSet DEF TypeOK
      <4>3. y \in ToSet(subscribers)
        BY <1>i, <4>1, <4>2 DEF Removing
      <4> QED
        BY <1>1, <1>i, <4>1, <4>3, Phases
    <3>2. Exit \notin ToSet(feed[y]) /\ (y \in Iterators => pc[y] \notin Leaving)
      BY <1>1, <1>i, <3>1 DEF Ending
    <3>3. /\ Pending(y) = feed[y] /\ Pending(y)' = Append(feed[y], version)
      <4>1. Pending(y) = Upto(feed[y]) /\ Pending(y)' = Upto(feed'[y])
        BY <1>1, <1>4, <3>2, PendingUpto
      <4>2. /\ feed'[y] = Append(feed[y], version) /\ feed'[y] \in Seq(Nat)
            /\ Exit \notin ToSet(feed'[y])
        <5>1. /\ Append(feed[y], version) \in Seq(Nat)
              /\ ToSet(Append(feed[y], version))
                   = ToSet(feed[y]) \cup {version}
          BY <1>3, <1>p, AppendSet, AppendProperties
        <5> QED
          BY <1>10, <1>3, <2>1, <3>2, <5>1
      <4> QED
        BY <1>3, <3>2, <4>1, <4>2, UptoType
    <3>4. Sent(y)' = Append(Sent(y), version)
      <4>1. views[y] \in Seq(Nat)
        BY <1>1, <1>i DEF TypeOK
      <4>2. feed[y] \in Seq(Nat) /\ version \in Nat
        BY <1>3, <1>p
      <4>3. \A q \in Seq(Nat), r \in Seq(Nat), e \in Nat :
              q \o Append(r, e) = Append(q \o r, e)
        BY ConcatAppend
      <4>4. views[y] \o Append(feed[y], version)
              = Append(views[y] \o feed[y], version)
        BY <4>1, <4>2, <4>3, Zenon
      <4> QED
        BY <1>8, <3>3, <4>4 DEF Sent
    <3>5. Sends(y)
      BY <1>7, <1>8, <2>2, <2>4, <3>1, <3>4 DEF Sends
    <3> QED
      BY <1>1, <2>3, <3>5 DEF Serves
  <2> QED
    BY <2>5, <2>6
<1> QED
  BY <1>9, <1>10

\* A send that is given up is one to an iterator that is gone.
LEMMA ServesGiveUp ==
  ASSUME FInv, NEW t \in Threads, FeedGiveUp(t)
  PROVE  Serves
<1> USE DEF dispatchTx, lists, feeds, locals, history, Goto
<1>i. /\ SInv /\ TypeOK /\ Places /\ Owners /\ Notifying /\ Lists
      /\ Ending /\ Removing
  BY DEF FInv, SInv
<1>p. pc \in [Threads -> Steps]
  BY <1>i DEF TypeOK
<1>1. /\ pc[t] = "giveUp" /\ AfterSend(t) /\ t \notin Iterators
      /\ UNCHANGED <<version, base, views, feed, ending, closed, subsLock,
                     subscribers>>
  BY <1>i DEF FeedGiveUp, Places
<1>2. /\ Msg(t) = Exit <=> subsLock = t
      /\ Msg(t) # Exit => t = Reducer
  BY <1>1, <1>i, MsgType
<1>3. PICK s \in {"join", "told", "recv", "notify"} : Goto(t, s)
  BY <1>1, <1>2 DEF AfterSend, NotifyRest
<1>4. ASSUME NEW x \in Subs PROVE Kept(x)
  <2>1. /\ pc'[x] = "ended" <=> pc[x] = "ended"
        /\ x \in Iterators => pc'[x] = pc[x]
    BY <1>1, <1>3, <1>p, Kinds
  <2>2. /\ base'[x] = base[x] /\ views'[x] = views[x]
        /\ feed'[x] = feed[x]
        /\ x \in ending' <=> x \in ending
        /\ x \in closed' <=> x \in closed
        /\ x \in ToSet(subscribers') <=> x \in ToSet(subscribers)
    BY <1>1
  <2> QED
    BY <2>1, <2>2, KeptIf
<1>5. \A x \in Subs : Owed(x)
  <2>1. CASE Msg(t) = Exit
    <3>1. UNCHANGED rest /\ \E r \in {"join", "told"} : Goto(t, r)
      BY <1>1, <2>1 DEF AfterSend
    <3>2. \/ pc'[Reducer] = pc[Reducer]
          \/ /\ pc[Reducer] # "snapshot" /\ pc'[Reducer] # "snapshot"
             /\ subsLock = Reducer
      BY <1>1, <1>2, <1>p, <2>1, <3>1, Kinds
    <3> QED
      BY <1>1, <3>1, <3>2, OwesKept
  <2>2. CASE Msg(t) # Exit
    <3>1. /\ t = Reducer /\ subsLock # Reducer /\ rest # <<>>
          /\ NotifyRest(Tail(rest)) /\ pc[Reducer] \in Notes
      BY <1>1, <1>2, <1>i, <2>2 DEF AfterSend, Notes, Places, Telling, Off
    <3>2. PICK y : y = Head(rest)
      OBVIOUS
    <3>3. y \in Subs /\ \A x \in Subs : x # y => Owed(x)
      BY <1>1, <1>i, <3>1, <3>2, OwesNext
    <3>4. Phase(y) = "off"
      BY <1>1, <1>i, <3>1, <3>2, <3>3, Phases DEF Removing
    <3> QED
      BY <3>3, <3>4 DEF Owed
  <2> QED
    BY <2>1, <2>2
<1> QED
  BY <1>1, <1>4, <1>5 DEF Serves, Stays

\* What a subscriber takes off its channel it has been sent, and its end comes
\* after everything else.
LEMMA ServesReceive ==
  ASSUME FInv, Ending', NEW y \in Subs, LoopRecv(y) \/ IterNext(y)
  PROVE  Serves
<1> USE DEF dispatchTx, lists, feeds, locals, history, Goto
<1>i. TypeOK /\ Places /\ Ending
  BY DEF FInv, SInv
<1>p. /\ pc \in [Threads -> Steps] /\ feed \in [Subs -> Seq(Nat)]
      /\ views \in [Subs -> Seq(Nat)] /\ closed \subseteq Iterators
  BY <1>i DEF TypeOK
<1>1. /\ pc[y] = "recv" /\ feed[y] # <<>> /\ feed[y] \in Seq(Nat)
      /\ y \in Threads
      /\ feed' = [feed EXCEPT ![y] = Tail(@)]
      /\ UNCHANGED <<version, base, ending, closed, subsLock, subscribers,
                     rest>>
      /\ \A x \in Subs : x # y => views'[x] = views[x]
      /\ \A u \in Threads : u # y => pc'[u] = pc[u]
  BY <1>p, Kinds DEF LoopRecv, IterNext
<1>2. y \notin closed
  BY <1>1, <1>i, <1>p DEF Ending, Leaving
<1>3. /\ feed'[y] = Tail(feed[y])
      /\ \A x \in Subs : x # y => feed'[x] = feed[x]
  BY <1>1, <1>p
<1>4. ASSUME NEW x \in Subs, x # y PROVE Kept(x)
  <2>1. /\ base'[x] = base[x] /\ views'[x] = views[x]
        /\ feed'[x] = feed[x]
        /\ x \in ending' <=> x \in ending
        /\ x \in closed' <=> x \in closed
        /\ x \in ToSet(subscribers') <=> x \in ToSet(subscribers)
        /\ pc'[x] = pc[x]
    BY <1>1, <1>3, <1>4, Kinds
  <2> QED
    BY <2>1, KeptIf
<1>5. \A x \in Subs : Owed(x)
  <2>1. pc'[Reducer] = pc[Reducer]
    BY <1>1, Kinds
  <2> QED
    BY <1>1, <2>1, OwesKept
<1>6. Others(y)
  BY <1>1, <1>4, <1>5 DEF Others
<1>7. Pending(y) = Upto(feed[y]) /\ views[y] \in Seq(Nat)
      /\ base'[y] = base[y]
  BY <1>1, <1>p, PendingUpto DEF Leaving
<1>8. ~Over(y)
  BY <1>1, <1>2 DEF Over
<1>9. CASE Head(feed[y]) # Exit
  <2>1. /\ views'[y] = Append(views[y], Head(feed[y]))
        /\ pc'[y] \in {"callback", "next"}
    BY <1>9, <1>p, Kinds DEF LoopRecv, IterNext
  <2>2. Pending(y)' = Upto(Tail(feed[y]))
    BY <1>3, <2>1, PendingUpto DEF Leaving
  <2>3. /\ Pending(y) # <<>> /\ Head(Pending(y)) = Head(feed[y])
        /\ Tail(Pending(y)) = Pending(y)'
    BY <1>1, <1>7, <1>9, <2>2, UptoTail
  <2>4. Pending(y) \in Seq(Nat)
    BY <1>i, SentType
  <2>5. Append(views[y], Head(Pending(y))) \o Tail(Pending(y))
          = views[y] \o Pending(y)
    BY <1>7, <2>3, <2>4, HeadToLast
  <2>6. Sent(y)' = Sent(y)
    BY <2>1, <2>3, <2>5 DEF Sent
  <2>7. /\ Phase(y)' = Phase(y) /\ ~Over(y)'
    BY <1>1, <1>2, <1>8, <2>1 DEF Phase, Over
  <2>8. Len(views[y]) < Len(Sent(y))
    <3>1. Len(Pending(y)) \in Nat \ {0}
      BY <2>3, <2>4, EmptySeq, LenProperties
    <3> QED
      BY <1>i, <3>1, SentType
  <2>9. Len(views'[y]) = Len(views[y]) + 1
    <3>1. Head(feed[y]) \in Nat
      BY <1>1, HeadTailProperties
    <3>2. Len(Append(views[y], Head(feed[y]))) = Len(views[y]) + 1
      BY <1>7, <3>1, AppendProperties
    <3> QED
      BY <2>1, <3>2
  <2> QED
    BY <1>5, <1>6, <1>7, <1>8, <2>6, <2>7, <2>8, <2>9 DEF Receives, Serves
<1>10. CASE Head(feed[y]) = Exit
  <2>1. Pending(y) = <<>>
    BY <1>1, <1>10, <1>7, UptoTail
  <2>2. views'[y] = views[y]
    BY <1>10 DEF LoopRecv, IterNext
  <2>3. CASE y \in Iterators
    <3>1. pc'[y] = "lockAdding"
      BY <1>1, <1>10, <1>p, <2>3, Kinds DEF LoopRecv, IterNext
    <3>2. Pending(y)' = <<>>
      BY <2>3, <3>1, PendingUpto DEF Leaving
    <3>3. Kept(y)
      <4>1. Phase(y)' = Phase(y)
        BY <1>1, <3>1 DEF Phase
      <4>2. Over(y)' <=> Over(y)
        BY <1>1, <3>1 DEF Over
      <4>3. Sent(y)' = Sent(y)
        BY <2>1, <2>2, <3>2 DEF Sent
      <4> QED
        BY <1>7, <2>2, <4>1, <4>2, <4>3 DEF Kept
    <3>4. \A x \in Subs : Kept(x) /\ Owed(x)
      BY <1>4, <1>5, <3>3
    <3> QED
      BY <1>1, <3>4 DEF Serves, Stays
  <2>4. CASE y \in Channeled
    <3>1. pc'[y] = "ended"
      BY <1>1, <1>10, <1>p, <2>4, Kinds DEF LoopRecv, IterNext
    <3>2. feed'[y] = <<>> /\ y \in ending
      BY <1>1, <2>4, <3>1 DEF Ending
    <3>3. Pending(y)' = <<>>
      <4>1. <<>> \in Seq(Nat) /\ ToSet(<<>>) = {}
        BY ToSetProperties, EmptySeq
      <4>2. Upto(<<>>) = <<>>
        BY <4>1, UptoType
      <4> QED
        BY <2>4, <3>2, <4>2, Kinds, PendingUpto
    <3>4. Sent(y)' = Sent(y)
      BY <2>1, <2>2, <3>3 DEF Sent
    <3>5. Phase(y) = "off" /\ Phase(y)' = "off" /\ Over(y)'
      BY <1>1, <3>1, <3>2 DEF Phase, Over
    <3>6. Len(views[y]) = Len(Sent(y))
      <4>1. Len(<<>>) = 0
        OBVIOUS
      <4>2. Len(Sent(y)) = Len(views[y]) + 0 /\ Len(views[y]) \in Nat
        BY <1>i, <2>1, <4>1, SentType
      <4> QED
        BY <4>2
    <3>7. Ends(y)
      BY <1>7, <1>8, <2>2, <3>4, <3>5, <3>6 DEF Ends
    <3> QED
      BY <1>6, <3>7 DEF Serves
  <2> QED
    BY <2>3, <2>4, Kinds
<1> QED
  BY <1>9, <1>10

\* An iterator may go away at any time.
LEMMA ServesClose ==
  ASSUME FInv, NEW y \in Subs, IterClose(y) \/ IterNotifyAll(y)
  PROVE  Serves
<1> USE DEF dispatchTx, lists, feeds, locals, history, Goto
<1>i. TypeOK /\ Places /\ Ending /\ Iterating
  BY DEF FInv, SInv
<1>p. pc \in [Threads -> Steps]
  BY <1>i DEF TypeOK
<1>1. /\ UNCHANGED <<version, base, views, feed, ending, subsLock,
                     subscribers, rest>>
      /\ y \in Iterators /\ y \in Threads /\ y # Reducer
  BY <1>i, Kinds DEF IterClose, IterNotifyAll, Places
<1>2. CASE IterClose(y)
  <2>1. /\ closed' = closed \cup {y} /\ pc[y] \in {"next", "close", "failed"}
        /\ pc' = [pc EXCEPT ![y] = "notifyAll"]
    BY <1>2 DEF IterClose
  <2>2. y \notin closed
    BY <1>1, <1>i, <2>1 DEF Ending, Leaving
  <2>3. ASSUME NEW x \in Subs, x # y PROVE Kept(x)
    <3>1. /\ base'[x] = base[x] /\ views'[x] = views[x]
          /\ feed'[x] = feed[x]
          /\ x \in ending' <=> x \in ending
          /\ x \in closed' <=> x \in closed
          /\ x \in ToSet(subscribers') <=> x \in ToSet(subscribers)
          /\ pc'[x] = pc[x]
      BY <1>1, <1>p, <2>1, <2>3, Kinds
    <3> QED
      BY <3>1, KeptIf
  <2>4. \A x \in Subs : Owed(x)
    <3>1. pc'[Reducer] = pc[Reducer]
      BY <1>1, <1>p, <2>1, Kinds
    <3> QED
      BY <1>1, <3>1, OwesKept
  <2>5. pc'[y] = "notifyAll"
    BY <1>1, <1>p, <2>1
  <2>6. Pending(y)' = <<>>
    BY <1>1, <2>5, PendingUpto DEF Leaving
  <2>7. Sent(y)' = views[y]
    <3>1. views[y] \in Seq(Nat)
      BY <1>i DEF TypeOK
    <3>2. views[y] \o <<>> = views[y]
      BY <3>1, ConcatEmptySeq
    <3> QED
      BY <1>1, <2>6, <3>2 DEF Sent
  <2>8. Phase(y)' = "off" /\ Over(y)' /\ ~Over(y)
    BY <2>1, <2>2 DEF Phase, Over
  <2>9. Others(y) /\ Quits(y)
    BY <1>1, <2>3, <2>4, <2>7, <2>8 DEF Others, Quits
  <2> QED
    BY <2>9 DEF Serves
<1>3. CASE IterNotifyAll(y)
  <2>1. /\ UNCHANGED closed
        /\ pc' = [t \in Threads |->
                   CASE t = y -> IF y \in held THEN "lockAdding" ELSE "ended"
                     [] pc[t] = "wait" /\ Target(t) = y -> "giveUp"
                     [] OTHER -> pc[t]]
        /\ pc[y] = "notifyAll" /\ y \in closed
    BY <1>1, <1>3, <1>i DEF IterNotifyAll, Iterating
  <2>2. /\ pc'[y] \in {"lockAdding", "ended"}
        /\ \A t \in Threads : t # y =>
             pc'[t] = pc[t] \/ (pc[t] = "wait" /\ pc'[t] = "giveUp")
    BY <1>1, <2>1
  <2>3. ASSUME NEW x \in Subs PROVE Kept(x)
    <3>1. /\ base'[x] = base[x] /\ views'[x] = views[x]
          /\ feed'[x] = feed[x]
          /\ x \in ending' <=> x \in ending
          /\ x \in closed' <=> x \in closed
          /\ x \in ToSet(subscribers') <=> x \in ToSet(subscribers)
      BY <1>1, <2>1
    <3>2. /\ x \in closed \/ (pc'[x] = "ended" <=> pc[x] = "ended")
          /\ x \in Iterators => (pc'[x] \in Leaving <=> pc[x] \in Leaving)
      <4>1. x \in Threads
        BY Kinds
      <4>2. CASE x = y
        BY <2>1, <2>2, <4>2 DEF Leaving
      <4>3. CASE x # y
        BY <2>2, <4>1, <4>3 DEF Leaving
      <4> QED
        BY <4>2, <4>3
    <3> QED
      BY <3>1, <3>2, KeptIf
  <2>4. \A x \in Subs : Owed(x)
    <3>1. \/ pc'[Reducer] = pc[Reducer]
          \/ pc[Reducer] = "wait" /\ pc'[Reducer] = "giveUp"
      BY <1>1, <2>2, Kinds
    <3> QED
      BY <1>1, <3>1, OwesKept DEF Notes
  <2> QED
    BY <1>1, <2>3, <2>4 DEF Serves, Stays
<1> QED
  BY <1>2, <1>3

\* The reducer lists who waits, and goes on when everybody listed is notified.
LEMMA ServesReduce ==
  ASSUME FInv, Reduce
  PROVE  Serves
<1> USE DEF dispatchTx, lists, feeds, locals, history, Goto
<1>i. /\ SInv /\ TypeOK /\ Places /\ Owners /\ Lists /\ Joining /\ Unserved
      /\ Ending /\ Removing
  BY DEF FInv, SInv
<1>p. /\ pc \in [Threads -> Steps] /\ base \in [Subs -> Nat \cup {Unlisted}]
      /\ adding \in Seq(Subs) /\ subscribers \in Seq(Subs)
      /\ rest \in Seq(Subs)
  BY <1>i DEF TypeOK
<1>o. ASSUME pc[Reducer] \notin Off PROVE subsLock # Reducer
  BY <1>i, <1>o DEF Owners
<1>e. ToSet(<<>>) = {}
  BY ToSetProperties, EmptySeq
\* Nobody but the reducer moves, and nobody is taken off the list.
<1>k. ASSUME UNCHANGED <<base, views, feed, ending, closed>>,
             NEW s, Goto(Reducer, s),
             \A x \in Subs : \/ x \in ending \cup closed
                             \/ x \in ToSet(subscribers')
                                  <=> x \in ToSet(subscribers)
      PROVE  \A x \in Subs : Kept(x)
  <2> SUFFICES ASSUME NEW x \in Subs PROVE Kept(x)
    OBVIOUS
  <2>1. pc'[x] = pc[x]
    BY <1>k, <1>p, Kinds
  <2>2. /\ base'[x] = base[x] /\ views'[x] = views[x]
        /\ feed'[x] = feed[x]
        /\ x \in ending' <=> x \in ending
        /\ x \in closed' <=> x \in closed
    BY <1>k
  <2> QED
    BY <1>k, <2>1, <2>2, KeptIf
<1>1. CASE Recv
  <2>1. /\ Head(queue) \in {"Action", "AddSubscriber", "Exit"}
        /\ pc[Reducer] = "recv" /\ subsLock # Reducer
    BY <1>1, <1>i, <1>o, HeadTailProperties DEF TypeOK, Recv, Off
  <2>2. PICK s \in {"snapshot", "lockAdding", "clear"} :
          /\ Goto(Reducer, s)
          /\ s = "snapshot" <=> Head(queue) = "Action"
    BY <1>1, <2>1 DEF Recv
  <2>3. /\ version' = IF Head(queue) = "Action" THEN version + 1 ELSE version
        /\ UNCHANGED <<base, views, feed, ending, closed, subscribers, rest,
                       subsLock>>
    BY <1>1 DEF Recv
  <2>4. \A x \in Subs : Kept(x)
    BY <1>k, <2>2, <2>3
  <2>5. pc'[Reducer] = s
    BY <1>p, <2>2, Kinds
  <2>6. CASE s = "snapshot"
    <3>1. \A x \in Subs : ~Owes(x) /\ Owes(x)'
      BY <2>1, <2>5, <2>6 DEF Owes
    <3> QED
      BY <2>2, <2>3, <2>4, <2>6, <3>1 DEF Serves, Advances
  <2>7. CASE s # "snapshot"
    <3>1. \A x \in Subs : Owed(x)
      BY <2>1, <2>3, <2>5, <2>7, OwesKept DEF Notes
    <3> QED
      BY <2>2, <2>3, <2>4, <2>7, <3>1 DEF Serves, Stays
  <2> QED
    BY <2>6, <2>7
<1>2. CASE Snapshot
  <2>1. /\ pc[Reducer] = "snapshot" /\ subsLock = NoOne
        /\ rest' = subscribers
        /\ Goto(Reducer, IF subscribers = <<>> THEN "recv" ELSE "notify")
        /\ UNCHANGED <<version, base, views, feed, ending, closed,
                       subscribers, subsLock>>
    BY <1>2 DEF Snapshot, NotifyRest
  <2>2. \A x \in Subs : Kept(x)
    BY <1>k, <2>1
  <2>3. \A x \in Subs : Owed(x)
    <3> SUFFICES ASSUME NEW x \in Subs, Phase(x) = "on"
                 PROVE  Owes(x)' <=> Owes(x)
      BY DEF Owed
    <3>1. x \in ToSet(subscribers)
      BY <1>i, Phases
    <3>2. subscribers # <<>>
      BY <1>e, <3>1
    <3>3. pc'[Reducer] = "notify" /\ subsLock' # Reducer
      BY <1>p, <2>1, <3>2, Kinds
    <3> QED
      BY <2>1, <3>1, <3>3 DEF Owes
  <2> QED
    BY <2>1, <2>2, <2>3 DEF Serves, Stays
<1>3. CASE NotifyChanneled \/ NotifyIterator
  <2>1. /\ pc[Reducer] = "notify" /\ rest # <<>> /\ subsLock # Reducer
        /\ UNCHANGED <<version, base, views, feed, ending, closed,
                       subscribers, subsLock>>
    BY <1>3, <1>i, <1>o
      DEF NotifyChanneled, NotifyIterator, Places, Telling, Off
  <2>2. CASE Goto(Reducer, "send") /\ UNCHANGED rest
    <3>1. \A x \in Subs : Kept(x)
      BY <1>k, <2>1, <2>2
    <3>2. pc'[Reducer] = "send"
      BY <1>p, <2>2, Kinds
    <3>3. \A x \in Subs : Owed(x)
      BY <2>1, <2>2, <3>2, OwesKept DEF Notes
    <3> QED
      BY <2>1, <3>1, <3>3 DEF Serves, Stays
  <2>3. CASE NotifyRest(Tail(rest)) /\ Head(rest) \in ending \cup closed
    <3>1. \A x \in Subs : Kept(x)
      BY <1>k, <2>1, <2>3 DEF NotifyRest
    <3>2. PICK y : y = Head(rest)
      OBVIOUS
    <3>3. y \in Subs /\ \A x \in Subs : x # y => Owed(x)
      BY <1>i, <2>1, <2>3, <3>2, OwesNext DEF Notes
    <3>4. Owed(y)
      BY <1>i, <2>3, <3>2, <3>3, Phases DEF Owed
    <3> QED
      BY <2>1, <3>1, <3>3, <3>4 DEF Serves, Stays
  <2> QED
    BY <1>3, <2>2, <2>3 DEF NotifyChanneled, NotifyIterator
<1>4. CASE LockNewSubscribers
  <2>1. /\ pc[Reducer] = "lockAdding"
        /\ \E s \in {"recv", "lockSubs"} : Goto(Reducer, s)
        /\ UNCHANGED <<version, base, views, feed, ending, closed,
                       subscribers, subsLock, rest>>
    BY <1>4 DEF LockNewSubscribers
  <2>2. \A x \in Subs : Kept(x)
    BY <1>k, <2>1
  <2>3. pc'[Reducer] \in {"recv", "lockSubs"}
    BY <1>p, <2>1, Kinds
  <2>4. \A x \in Subs : Owed(x)
    BY <2>1, <2>3, OwesKept DEF Notes
  <2> QED
    BY <2>1, <2>2, <2>4 DEF Serves, Stays
<1>5. CASE DoSubscribe
  <2> DEFINE new == {x \in Subs : x \in ToSet(adding) /\ x \notin closed}
  <2>1. /\ pc[Reducer] = "lockSubs" /\ subsLock = NoOne
        /\ subscribers' = subscribers \o adding
        /\ base' = [x \in Subs |->
                     IF x \in ToSet(adding) \ closed THEN version ELSE base[x]]
        /\ pc' = [pc EXCEPT ![Reducer] = "recv"]
        /\ UNCHANGED <<version, views, feed, ending, closed, subsLock, rest>>
    BY <1>5 DEF DoSubscribe
  <2>2. ToSet(subscribers') = ToSet(subscribers) \cup ToSet(adding)
    BY <1>p, <2>1, ConcatSet
  <2>3. /\ pc'[Reducer] = "recv" /\ \A x \in Subs : pc'[x] = pc[x]
    BY <1>p, <2>1, Kinds
  <2>4. \A x \in Subs : Owed(x) /\ ~Owes(x)'
    <3>1. \A x \in Subs : Owed(x)
      BY <2>1, <2>3, OwesKept DEF Notes
    <3> QED
      BY <2>3, <3>1 DEF Owes
  <2>5. ASSUME NEW x \in Subs, x \notin new PROVE Kept(x)
    <3>1. /\ base'[x] = base[x] /\ views'[x] = views[x]
          /\ feed'[x] = feed[x]
          /\ x \in ending' <=> x \in ending
          /\ x \in closed' <=> x \in closed
          /\ pc'[x] = pc[x]
      BY <2>1, <2>3, <2>5
    <3>2. \/ x \in ending \cup closed
          \/ x \in ToSet(subscribers') <=> x \in ToSet(subscribers)
      BY <2>2, <2>5
    <3> QED
      BY <3>1, <3>2, KeptIf
  <2>6. ASSUME NEW x \in Subs, x \in new
        PROVE  /\ Phase(x) = "waiting" /\ Phase(x)' = "on"
               /\ base'[x] = version
               /\ Sent(x)' = <<>> /\ Sent(x) = <<>> /\ views'[x] = views[x]
               /\ Over(x)' <=> Over(x)
               /\ ~Owes(x)'
    <3>1. x \in ToSet(adding) /\ x \notin closed
      BY <2>6
    <3>2. base[x] = Unlisted /\ x \notin ToSet(subscribers)
      BY <1>i, <3>1 DEF Joining, Lists
    <3>3. x \notin ending /\ feed[x] = <<>> /\ views[x] = <<>>
      BY <1>i, <3>1, <3>2 DEF Unserved
    <3>4. pc[x] # "ended"
      BY <1>i, <3>1, <3>3, Kinds DEF Ending
    <3>5. Phase(x) = "waiting" /\ Phase(x)' = "on"
      BY <2>1, <2>2, <2>3, <3>1, <3>2, <3>3, <3>4 DEF Phase
    <3>6. Over(x)' <=> Over(x)
      BY <2>1, <2>3 DEF Over
    <3>7. Sent(x) = <<>> /\ Sent(x)' = <<>>
      <4>1. <<>> \in Seq(Nat) /\ Upto(<<>>) = <<>>
        BY <1>e, EmptySeq, UptoType
      <4>2. Pending(x) = <<>> /\ Pending(x)' = <<>>
        BY <2>1, <3>3, <4>1, PendingUpto
      <4>3. <<>> \o <<>> = <<>>
        BY <4>1, ConcatEmptySeq
      <4> QED
        BY <2>1, <3>3, <4>2, <4>3 DEF Sent
    <3>8. base'[x] = version /\ views'[x] = views[x]
      BY <2>1, <3>1
    <3> QED
      BY <2>4, <3>5, <3>6, <3>7, <3>8
  <2>7. new \in SUBSET Subs /\ version' = version
    BY <2>1
  <2> HIDE DEF new
  <2>8. Joins(new)
    BY <2>4, <2>5, <2>6, <2>7 DEF Joins
  <2> QED
    BY <2>7, <2>8 DEF Serves
<1>6. CASE ClearSubscribers \/ ClearTold
  <2>1. PICK seq \in {subscribers, Tail(rest)} :
          /\ ClearRest(seq)
          /\ seq = <<>> => ToSet(subscribers) \subseteq ending \cup closed
    <3>1. CASE ClearSubscribers
      BY <1>6, <1>e, <3>1 DEF ClearSubscribers
    <3>2. CASE ClearTold
      <4>1. /\ pc[Reducer] = "told" /\ subsLock = Reducer /\ rest # <<>>
            /\ ClearRest(Tail(rest))
        BY <1>i, <3>2 DEF ClearTold, Owners, Places, Telling, Off
      <4>2. /\ Head(rest) \in ending \cup closed
            /\ ToSet(subscribers) \subseteq ToSet(rest) \cup ending \cup closed
        BY <1>i, <4>1 DEF Removing
      <4>3. ToSet(rest) = ToSet(Tail(rest)) \cup {Head(rest)}
        BY <1>p, <4>1, TailSet
      <4>4. Tail(rest) = <<>> => ToSet(subscribers) \subseteq ending \cup closed
        BY <1>e, <4>2, <4>3
      <4> QED
        BY <4>1, <4>4
    <3> QED
      BY <1>6, <3>1, <3>2
  <2>2. /\ pc[Reducer] \in {"clear", "told"}
        /\ pc[Reducer] = "told" => subsLock = Reducer
        /\ \E s \in {"done", "off"} : Goto(Reducer, s)
        /\ subscribers' = IF seq = <<>> THEN <<>> ELSE subscribers
        /\ UNCHANGED <<version, base, views, feed, ending, closed>>
    BY <1>6, <1>i, <2>1
      DEF ClearSubscribers, ClearTold, ClearRest, Owners
  <2>3. \A x \in Subs : \/ x \in ending \cup closed
                        \/ x \in ToSet(subscribers')
                             <=> x \in ToSet(subscribers)
    BY <1>e, <2>1, <2>2
  <2>4. \A x \in Subs : Kept(x)
    BY <1>k, <2>2, <2>3
  <2>5. \A x \in Subs : ~Owes(x) /\ ~Owes(x)'
    <3>1. pc'[Reducer] \in {"done", "off"}
      BY <1>p, <2>2, Kinds
    <3> QED
      BY <2>2, <3>1 DEF Owes
  <2> QED
    BY <2>2, <2>4, <2>5 DEF Serves, Stays, Owed
<1> QED
  BY <1>1, <1>2, <1>3, <1>4, <1>5, <1>6 DEF Reduce

\* Steps that only move a call along.
LEMMA ServesStill ==
  ASSUME Still
  PROVE  Serves
<1>1. \A x \in Subs : Kept(x)
  <2> SUFFICES ASSUME NEW x \in Subs PROVE Kept(x)
    OBVIOUS
  <2>1. /\ base'[x] = base[x] /\ views'[x] = views[x]
        /\ feed'[x] = feed[x]
        /\ x \in ending' <=> x \in ending
        /\ x \in closed' <=> x \in closed
        /\ x \in ToSet(subscribers') <=> x \in ToSet(subscribers)
        /\ pc'[x] = "ended" <=> pc[x] = "ended"
        /\ x \in Iterators => (pc'[x] \in Leaving <=> pc[x] \in Leaving)
    BY DEF Still
  <2> QED
    BY <2>1, KeptIf
<1>2. \A x \in Subs : Owed(x)
  BY OwesKept DEF Still
<1> QED
  BY <1>1, <1>2 DEF Still, Serves, Stays

-----------------------------------------------------------------------------
(* The refinement *)

\* The invariant holds of a store nobody has called.
LEMMA InitFeed == Init => FInv
<1> SUFFICES ASSUME Init PROVE FInv
  OBVIOUS
<1>1. SInv
  BY InitSound
<1>e. ToSet(<<>>) = {} /\ DOMAIN <<>> = {}
  <2>1. <<>> \in Seq(Subs) /\ ToSet(<<>>) = {}
    BY ToSetProperties, EmptySeq
  <2> QED
    BY <2>1, EmptySeq, LenProperties
<1>2. /\ adding = <<>> /\ subscribers = <<>> /\ rest = <<>>
      /\ ending = {} /\ closed = {} /\ subsLock = NoOne
      /\ \A x \in Subs : /\ feed[x] = <<>> /\ views[x] = <<>>
                         /\ base[x] = Unlisted /\ pc[x] = "unborn"
      /\ \A t \in Threads : pc[t] \in {"idle", "unborn", "recv"}
  BY Kinds DEF Init
<1>3. Lists
  BY <1>e, <1>2 DEF Lists, IsInjective
<1>4. Joining
  BY <1>e, <1>2 DEF Joining
<1>5. Unserved
  BY <1>e, <1>2 DEF Unserved
<1>6. Ending
  <2>1. \A x \in Subs : Exit \notin ToSet(feed[x]) /\ DOMAIN feed[x] = {}
    BY <1>e, <1>2
  <2> QED
    BY <1>2, <2>1, Kinds DEF Ending, Leaving, Sending
<1>7. Removing
  BY <1>e, <1>2, Kinds DEF Removing
<1>8. UpToDate
  BY <1>e, <1>2 DEF UpToDate, Phase
<1> QED
  BY <1>1, <1>3, <1>4, <1>5, <1>6, <1>7, <1>8 DEF FInv

\* Every step serves as SubscriberFeed says.
LEMMA NextServes ==
  ASSUME FInv, Ending', [Next]_vars
  PROVE  Serves
<1>1. TypeOK /\ Places
  BY DEF FInv, SInv
<1> QED
  BY <1>1, StillSteps, ServesStill, ServesOff, ServesSend, ServesGiveUp,
     ServesReceive, ServesClose, ServesReduce

-----------------------------------------------------------------------------
(* Theorems *)

\* The invariant holds, whoever calls the store.
THEOREM FeedInvariance == Spec => []FInv
<1>1. FInv /\ [Next]_vars => FInv'
  <2> SUFFICES ASSUME FInv, [Next]_vars PROVE FInv'
    OBVIOUS
  <2>1. SInv'
    BY TypesKept, PlacesKept, OwnersKept, NotifyingKept, IteratingKept,
       ListingKept
      DEF FInv, SInv
  <2>2. Ending'
    BY EndingKept
  <2>3. UpToDate'
    BY <2>2, NextServes, UpToDateKept DEF FInv, SInv
  <2> QED
    BY <2>1, <2>2, <2>3, ListsKept, JoiningKept, UnservedKept, RemovingKept
      DEF FInv
<1> QED
  BY <1>1, InitFeed, PTL DEF Spec

\* Each subscriber with a channel of its own is served as SubscriberFeed promises:
\* it joins the list at one state and is sent every later one in order until it
\* leaves, the next action is not reduced before everyone listed has been sent
\* the last, and a channeled subscriber's thread ends when it has received
\* everything.  Neither the callers, who unsubscribe or close the store at any
\* point of on_notify, nor the capacity of the channels can change that.
THEOREM Refinement == Spec => ImplementsFeed
<1>1. Init => Feeds!Init
  <2> SUFFICES ASSUME Init PROVE Feeds!Init
    OBVIOUS
  <2>1. FInv
    BY InitFeed
  <2>e. <<>> \in Seq(Nat) /\ ToSet(<<>>) = {} /\ Len(<<>>) = 0
    BY ToSetProperties, EmptySeq
  <2>2. ASSUME NEW x \in Subs
        PROVE  /\ Phase(x) = "waiting" /\ views[x] \o Pending(x) = <<>>
               /\ base[x] = Unlisted /\ views[x] = <<>>
               /\ ~(x \in closed \/ pc[x] = "ended")
    <3>1. /\ subscribers = <<>> /\ ending = {} /\ closed = {}
          /\ feed[x] = <<>> /\ views[x] = <<>>
          /\ base[x] = Unlisted /\ pc[x] = "unborn"
      BY Kinds DEF Init
    <3>2. Pending(x) = <<>>
      BY <2>e, <3>1, PendingUpto, UptoType
    <3>3. <<>> \o <<>> = <<>>
      BY <2>e, ConcatEmptySeq
    <3> QED
      BY <2>e, <3>1, <3>2, <3>3 DEF Phase
  <2>3. version = 0
    BY DEF Init
  <2> QED
    BY <2>e, <2>2, <2>3 DEF Feeds!Init
<1>2. FInv /\ FInv' /\ [Next]_vars => [Feeds!Next]_(Feeds!feedVars)
  BY NextServes, ServesMaps DEF FInv, SInv
<1> QED
  BY <1>1, <1>2, FeedInvariance, PTL DEF Spec, ImplementsFeed, Feeds!Spec

=============================================================================
