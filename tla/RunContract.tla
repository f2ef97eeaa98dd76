---------------------------- MODULE RunContract ----------------------------
(***************************************************************************)
(* What the agent runtime promises about a run and about the people who    *)
(* answer its tool confirmations, with no queue, ledger, goroutine or lock *)
(* in sight.  RunLifecycle is shown to implement it.                       *)
(*                                                                         *)
(*   - a run begins once, settles once, and its settled outcome is         *)
(*     announced once, as it was settled;                                  *)
(*   - a decision is issued by one active run and applied at most once,    *)
(*     for a submitter who asked for it, while that run is active;         *)
(*   - a submitter is told "ok" only when its own submission was applied.  *)
(***************************************************************************)
EXTENDS Naturals, Sequences

CONSTANTS Runs, Clients, Decisions, None

VARIABLES
    outcome,    \* [Runs -> "none", "active" or a terminal status]
    announced,  \* [Runs -> the sequence of terminal events published]
    owner,      \* [Decisions -> the run that issued it, or None]
    applied,    \* [Decisions -> the submitter whose submission was applied]
    ask,        \* [Clients -> the decision the submitter submitted, or None]
    reply       \* [Clients -> where the submission stands]

cvars == <<outcome, announced, owner, applied, ask, reply>>

Terminal == {"completed", "failed", "cancelled"}

Init ==
    /\ outcome = [r \in Runs |-> "none"]
    /\ announced = [r \in Runs |-> <<>>]
    /\ owner = [d \in Decisions |-> None]
    /\ applied = [d \in Decisions |-> None]
    /\ ask = [c \in Clients |-> None]
    /\ reply = [c \in Clients |-> "idle"]

Begin(r) ==
    /\ outcome[r] = "none"
    /\ outcome' = [outcome EXCEPT ![r] = "active"]
    /\ UNCHANGED <<announced, owner, applied, ask, reply>>

Settle(r) ==
    /\ outcome[r] = "active"
    /\ \E s \in Terminal : outcome' = [outcome EXCEPT ![r] = s]
    /\ UNCHANGED <<announced, owner, applied, ask, reply>>

Announce(r) ==
    /\ outcome[r] \in Terminal
    /\ announced[r] = <<>>
    /\ announced' = [announced EXCEPT ![r] = <<outcome[r]>>]
    /\ UNCHANGED <<outcome, owner, applied, ask, reply>>

Issue(r, d) ==
    /\ outcome[r] = "active"
    /\ owner[d] = None
    /\ owner' = [owner EXCEPT ![d] = r]
    /\ UNCHANGED <<outcome, announced, applied, ask, reply>>

\* A submission is taken in, or turned away at once.
Ask(c, d) ==
    /\ reply[c] = "idle"
    /\ owner[d] # None
    /\ ask' = [ask EXCEPT ![c] = d]
    /\ \E a \in {"waiting", "rejected"} : reply' = [reply EXCEPT ![c] = a]
    /\ UNCHANGED <<outcome, announced, owner, applied>>

Apply(c, d) ==
    /\ ask[c] = d
    /\ reply[c] \in {"waiting", "gaveup"}
    /\ applied[d] = None
    /\ \E r \in Runs : owner[d] = r /\ outcome[r] = "active"
    /\ applied' = [applied EXCEPT ![d] = c]
    /\ UNCHANGED <<outcome, announced, owner, ask, reply>>

Confirm(c) ==
    /\ reply[c] = "waiting"
    /\ \E d \in Decisions : ask[c] = d /\ applied[d] = c
    /\ reply' = [reply EXCEPT ![c] = "ok"]
    /\ UNCHANGED <<outcome, announced, owner, applied, ask>>

\* Several submitters may be turned away together when a run closes its books.
Reject(C) ==
    /\ \A c \in C : reply[c] = "waiting"
    /\ reply' = [c \in Clients |-> IF c \in C THEN "rejected" ELSE reply[c]]
    /\ UNCHANGED <<outcome, announced, owner, applied, ask>>

GiveUp(c) ==
    /\ reply[c] = "waiting"
    /\ reply' = [reply EXCEPT ![c] = "gaveup"]
    /\ UNCHANGED <<outcome, announced, owner, applied, ask>>

Next ==
    \/ \E r \in Runs : Begin(r) \/ Settle(r) \/ Announce(r)
    \/ \E r \in Runs, d \in Decisions : Issue(r, d)
    \/ \E c \in Clients, d \in Decisions : Ask(c, d) \/ Apply(c, d)
    \/ \E c \in Clients : Confirm(c) \/ GiveUp(c)
    \/ \E C \in SUBSET Clients : Reject(C)

Spec == Init /\ [][Next]_cvars
=============================================================================
