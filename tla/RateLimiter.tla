----------------------------- MODULE RateLimiter -----------------------------
(***************************************************************************)
(* The fixed-window rate limiter of distribution/transport/http/           *)
(* middleware.go 13-82, for one key: the entries of different keys share   *)
(* only the mutex.  The time an operation works with was read before it    *)
(* got the mutex, so times may come out of order.  Remaining changes       *)
(* nothing and is left out.                                                *)
(***************************************************************************)
EXTENDS Integers, Functions

CONSTANTS
  Handler,
  Rate, Window,  \* l.limit and l.window
  Delay,         \* how long a handler waits for the mutex, at most
  MaxNow         \* a bound

VARIABLES
  entry,     \* the key's entry; count 0: none
  now,
  stamp,     \* per handler, the time it read, -1 for none
  admitted   \* history: per time read, how many requests passed

vars == <<entry, now, stamp, admitted>>

NoEntry == [count |-> 0, start |-> 0]

Init ==
  /\ entry = NoEntry /\ now = 0
  /\ stamp = [h \in Handler |-> -1]
  /\ admitted = [t \in 0..MaxNow |-> 0]

ReadClock(h) ==
  /\ stamp[h] = -1
  /\ stamp' = [stamp EXCEPT ![h] = now]
  /\ UNCHANGED <<entry, now, admitted>>

\* Is the entry's window over?
Over(t) == entry = NoEntry \/ t - entry.start >= Window

\* Seeded fault: one request too many.
FullOneLater == entry.count > Rate

Full == entry.count >= Rate

Pass(t, newEntry) ==
  /\ entry' = newEntry
  /\ admitted' = [admitted EXCEPT ![t] = @ + 1]

Allow(h) ==
  /\ stamp[h] # -1
  /\ LET t == stamp[h]
     IN  \/ Over(t) /\ Pass(t, [count |-> 1, start |-> t])
         \/ ~Over(t) /\ ~Full /\ Pass(t, [entry EXCEPT !.count = @ + 1])
         \/ ~Over(t) /\ Full /\ UNCHANGED <<entry, admitted>>
  /\ stamp' = [stamp EXCEPT ![h] = -1]
  /\ UNCHANGED now

Reset ==
  /\ entry # NoEntry /\ now - entry.start >= 2 * Window
  /\ entry' = NoEntry
  /\ UNCHANGED <<now, stamp, admitted>>

Tick ==
  /\ now < MaxNow
  /\ \A h \in Handler : stamp[h] = -1 \/ now < stamp[h] + Delay
  /\ now' = now + 1
  /\ UNCHANGED <<entry, stamp, admitted>>

Next == (\E h \in Handler : ReadClock(h) \/ Allow(h)) \/ Reset \/ Tick

Spec == Init /\ [][Next]_vars

-----------------------------------------------------------------------------
(* Properties *)

\* How many requests passed with a time from first to last.
Passed(first, last) == SumFunctionOnSet(admitted, (first..last) \cap (0..MaxNow))

\* A request that waited for the mutex is counted in a later window than its time
\* belongs to.  Still no span sees more than twice the rate pass, if it is shorter
\* than a window by as long as a request may wait (middleware.go:37).
AtMostTwice == \A t \in 0..MaxNow : Passed(t, t + Window - Delay) <= 2 * Rate

\* A span as long as a window may see more: the last requests of one window, all of
\* the next, and late ones that the third window counts (middleware.go:37).
AtMostTwiceInWindow == \A t \in 0..MaxNow : Passed(t, t + Window - 1) <= 2 * Rate
=============================================================================
