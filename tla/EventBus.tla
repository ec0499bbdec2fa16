------------------------------ MODULE EventBus ------------------------------
(***************************************************************************)
(* The event bus (src/event_bus/bus.rs): a tokio broadcast channel, as     *)
(* operators on the state of its receivers.  The channel keeps the last    *)
(* Capacity events.  A receiver further behind has lost the oldest ones,   *)
(* learns that once, as a Lagged error, and goes on with those still kept. *)
(***************************************************************************)
EXTENDS Naturals, Sequences

CONSTANTS
  Receivers,  \* who subscribed
  Capacity    \* of the channel (256 in EventBus::new)


(* Receivers that subscribed and have read everything. *)
subscribed == [r \in Receivers |-> [unread |-> << >>, missed |-> FALSE]]

(* Mutant: nothing is ever dropped, as with an unbounded channel. *)
publish_Unbounded(bus, e) ==
  [r \in Receivers |-> [bus[r] EXCEPT !.unread = Append(@, e)]]

(* EventBus::publish; it never waits and never fails. *)
publish(bus, e) ==
  [r \in Receivers |->
    IF Len(bus[r].unread) < Capacity
      THEN [bus[r] EXCEPT !.unread = Append(@, e)]
      ELSE [unread |-> Append(Tail(bus[r].unread), e), missed |-> TRUE]]

(* What recv() by r returns: Err(Lagged), Ok of the oldest event, or not yet. *)
is_lagged(bus, r) == bus[r].missed
has_event(bus, r) == ~ bus[r].missed /\ bus[r].unread # << >>
oldest(bus, r) == Head(bus[r].unread)

(* The bus after r received it. *)
recv(bus, r) ==
  IF is_lagged(bus, r) THEN [bus EXCEPT ![r].missed = FALSE]
                       ELSE [bus EXCEPT ![r].unread = Tail(@)]
=============================================================================
