-------------------------------- MODULE Outbox --------------------------------
(***************************************************************************)
(* A record of the outbox (domain/events.go 58-90): published at least     *)
(* once, with growing pauses between attempts.  Nothing in src/ publishes  *)
(* outbox records; the publishers, which claim a record, send its event    *)
(* and mark the record, and may die in between, are what the methods of    *)
(* the record are for.                                                     *)
(***************************************************************************)
EXTENDS Naturals

CONSTANTS
  Publisher,
  MaxCrashes, MaxFailures  \* bounds

VARIABLES
  record,     \* wait: the seconds until NextAttemptAt
  publisher,  \* per publisher, the step it is at
  crashes, failures

vars == <<record, publisher, crashes, failures>>

Init ==
  /\ record = [state |-> "pending", attempts |-> 0, wait |-> 0]
  /\ publisher = [p \in Publisher |-> "idle"]
  /\ crashes = 0 /\ failures = 0

Go(p, step) == publisher' = [publisher EXCEPT ![p] = step]

\* Attempts beyond the eighth make no difference.
NextAttempt(n) == IF n < 8 THEN n + 1 ELSE 8

\* Seeded fault: a record that somebody has claimed is not claimed again.
ClaimablePending == record.state = "pending" /\ record.wait = 0

Claimable == record.state # "published" /\ record.wait = 0

Claim(p) ==
  /\ publisher[p] = "idle" /\ Claimable
  /\ record' = [record EXCEPT !.state = "publishing", !.attempts = NextAttempt(@)]
  /\ Go(p, "send")
  /\ UNCHANGED <<crashes, failures>>

Deliver(p) ==
  /\ publisher[p] = "send"
  /\ Go(p, "sent")
  /\ UNCHANGED <<record, crashes, failures>>

MarkPublished(p) ==
  /\ publisher[p] = "sent"
  /\ record' = [record EXCEPT !.state = "published"]
  /\ Go(p, "idle")
  /\ UNCHANGED <<crashes, failures>>

\* Sending fails, or its answer is lost.
MarkFailed(p) ==
  /\ publisher[p] \in {"send", "sent"} /\ failures < MaxFailures
  /\ failures' = failures + 1
  /\ record' = [record EXCEPT !.state = "pending", !.wait = 2 ^ record.attempts]
  /\ Go(p, "idle")
  /\ UNCHANGED crashes

Crash(p) ==
  /\ publisher[p] # "idle" /\ crashes < MaxCrashes
  /\ crashes' = crashes + 1
  /\ Go(p, "idle")
  /\ UNCHANGED <<record, failures>>

Second ==
  /\ record.wait > 0
  /\ record' = [record EXCEPT !.wait = @ - 1]
  /\ UNCHANGED <<publisher, crashes, failures>>

PublisherStep(p) == Claim(p) \/ Deliver(p) \/ MarkPublished(p)

Next == (\E p \in Publisher : PublisherStep(p) \/ MarkFailed(p) \/ Crash(p)) \/ Second

Spec == Init /\ [][Next]_vars

\* Time passes, and some publisher goes on.
Fairness == WF_vars(Second) /\ \A p \in Publisher : WF_vars(PublisherStep(p))

FairSpec == Spec /\ Fairness

-----------------------------------------------------------------------------
(* Properties *)

\* Whatever crashes and failures there are, the record is published in the end and
\* stays so, although a publisher that failed late makes it pending again: a record
\* that somebody claimed and left is claimed again (events.go 69-90).
AllPublished == <>[](record.state = "published")

\* A record that was published is not sent again by a publisher that works alone,
\* however often it crashed or failed before (events.go:70).
NotSentAgain == [][\A p \in Publisher : Deliver(p) => record.state # "published"]_vars
=============================================================================
