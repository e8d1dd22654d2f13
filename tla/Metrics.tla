------------------------------- MODULE Metrics -------------------------------
(***************************************************************************)
(* CountMetrics of src/metrics.rs as a record of counters, and the         *)
(* operators that update it.  The reducer thread alone calls them, but for *)
(* action_dropped and queue_size, which the store's senders call one at a  *)
(* time, and error_occurred, which is a single fetch_add: so each is one   *)
(* step.  Durations are in milliseconds, rounded down.                     *)
(*                                                                         *)
(* Left out: action_execution_time, which no snapshot shows, and           *)
(* action_received_and_reduced_execution_time, a sum like the totals here. *)
(***************************************************************************)
EXTENDS Integers

\* A maximum, a minimum (0 for none yet) and a sum of durations.
NoTime == [max |-> 0, min |-> 0, total |-> 0]

NoMetrics ==
  [action_received |-> 0, action_dropped |-> 0, action_reduced |-> 0,
   middleware_executed |-> 0, effect_issued |-> 0, effect_executed |-> 0,
   state_notified |-> 0, subscriber_notified |-> 0, error_occurred |-> 0,
   remaining_queue |-> 0, remaining_queue_max |-> 0,
   reducer_time |-> NoTime, middleware_time |-> NoTime,
   subscriber_time |-> NoTime]

Counters ==
  {"action_received", "action_dropped", "action_reduced",
   "middleware_executed", "effect_issued", "effect_executed",
   "state_notified", "subscriber_notified", "error_occurred",
   "remaining_queue", "remaining_queue_max"}

Times == {"reducer_time", "middleware_time", "subscriber_time"}

\* Faulty Timed: the maximum is stored without a look at the old one.
TimedLast(t, duration) ==
  [max |-> duration,
   min |-> IF t.min = 0 \/ duration < t.min THEN duration ELSE t.min,
   total |-> t.total + duration]

Timed(t, duration) ==
  [max |-> IF duration > t.max THEN duration ELSE t.max,
   min |-> IF t.min = 0 \/ duration < t.min THEN duration ELSE t.min,
   total |-> t.total + duration]

ActionReceived(m) == [m EXCEPT !.action_received = @ + 1]
ActionDropped(m)  == [m EXCEPT !.action_dropped = @ + 1]
ErrorOccurred(m)  == [m EXCEPT !.error_occurred = @ + 1]
StateNotified(m)  == [m EXCEPT !.state_notified = @ + 1]

ActionReduced(m, duration) ==
  [m EXCEPT !.action_reduced = @ + 1, !.reducer_time = Timed(@, duration)]

MiddlewareExecuted(m, duration) ==
  [m EXCEPT !.middleware_executed = @ + 1,
            !.middleware_time = Timed(@, duration)]

EffectIssued(m, count)   == [m EXCEPT !.effect_issued = @ + count]
EffectExecuted(m, count) == [m EXCEPT !.effect_executed = @ + count]

SubscriberNotified(m, count, duration) ==
  [m EXCEPT !.subscriber_notified = @ + count,
            !.subscriber_time = Timed(@, duration)]

\* Faulty QueueSize: the maximum is not kept.
QueueSizeOnly(m, size) == [m EXCEPT !.remaining_queue = size]

QueueSize(m, size) ==
  [m EXCEPT !.remaining_queue = size,
            !.remaining_queue_max = IF size > @ THEN size ELSE @]

\* The fields of `later - earlier` (impl Sub for MetricsSnapshot) whose usize
\* subtraction would underflow.
Underflows(later, earlier) ==
  {<<f, "count">> : f \in {g \in Counters : later[g] < earlier[g]}}
    \cup {t \in Times \X {"max", "min", "total"} :
            later[t[1]][t[2]] < earlier[t[1]][t[2]]}

=============================================================================
