--------------------------- MODULE SubscriberFeed ---------------------------
(***************************************************************************)
(* What the subscribers with a channel of their own are promised, whoever  *)
(* dispatches, unsubscribes or closes the store meanwhile: every state     *)
(* from the one after it joined the list to the one before it left, in     *)
(* order and none of them left out, and no end before it has seen them.    *)
(***************************************************************************)
EXTENDS Naturals, Sequences

CONSTANTS
  Subs,
  Quitters    \* those that may go away by themselves, as an iterator does

VARIABLES
  version,  \* the state: the number of actions reduced
  phase,  \* "waiting" to be listed, "on" the list, "off" it for good
  base,   \* the version of the state when it was listed
  sent,   \* the versions sent to it
  seen,   \* how many of them it has received
  over    \* those whose end has come

feedVars == <<version, phase, base, sent, seen, over>>

Init ==
  /\ version = 0
  /\ phase = [x \in Subs |-> "waiting"]
  /\ base = [x \in Subs |-> 0]
  /\ sent = [x \in Subs |-> <<>>]
  /\ seen = [x \in Subs |-> 0]
  /\ over = {}

\* The next action is reduced when everyone listed has been sent this state.
Advance ==
  /\ \A x \in Subs : phase[x] = "on" => base[x] + Len(sent[x]) = version
  /\ version' = version + 1
  /\ UNCHANGED <<phase, base, sent, seen, over>>

\* Those who wait join the list together.
Join ==
  \E new \in SUBSET {x \in Subs : phase[x] = "waiting"} :
    /\ phase' = [x \in Subs |-> IF x \in new THEN "on" ELSE phase[x]]
    /\ base' = [x \in Subs |-> IF x \in new THEN version ELSE base[x]]
    /\ UNCHANGED <<version, sent, seen, over>>

Send(x) ==
  /\ phase[x] = "on"
  /\ base[x] + Len(sent[x]) < version
  /\ sent' = [sent EXCEPT ![x] = Append(@, version)]
  /\ UNCHANGED <<version, phase, base, seen, over>>

Leave(x) ==
  /\ phase[x] # "off"
  /\ phase' = [phase EXCEPT ![x] = "off"]
  /\ UNCHANGED <<version, base, sent, seen, over>>

Receive(x) ==
  /\ x \notin over
  /\ seen[x] < Len(sent[x])
  /\ seen' = [seen EXCEPT ![x] = @ + 1]
  /\ UNCHANGED <<version, phase, base, sent, over>>

\* The end comes after everything sent, ...
End(x) ==
  /\ phase[x] = "off" /\ x \notin over
  /\ seen[x] = Len(sent[x])
  /\ over' = over \cup {x}
  /\ UNCHANGED <<version, phase, base, sent, seen>>

\* ... unless the consumer does not wait for it: what it has not received is
\* lost.
Quit(x) ==
  /\ x \in Quitters \ over
  /\ over' = over \cup {x}
  /\ phase' = [phase EXCEPT ![x] = "off"]
  /\ sent' = [sent EXCEPT ![x] = SubSeq(@, 1, seen[x])]
  /\ UNCHANGED <<version, base, seen>>

Next ==
  \/ Advance \/ Join
  \/ \E x \in Subs :
       Send(x) \/ Leave(x) \/ Receive(x) \/ End(x) \/ Quit(x)

Spec == Init /\ [][Next]_feedVars

=============================================================================
