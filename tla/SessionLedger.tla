---------------------------- MODULE SessionLedger ----------------------------
(***************************************************************************)
(* What the session store promises: a table of sessions that changes one   *)
(* session at a time, each write one version above what it replaces and    *)
(* keeping or replacing its content, each announced write a write that is  *)
(* in the table, and a removal that is either final or undone.             *)
(*                                                                         *)
(* There is no index, file, lock or failure here.  SessionStore implements *)
(* this specification.                                                     *)
(***************************************************************************)
EXTENDS Naturals, Sequences

CONSTANTS
    Sessions,       \* the sessions of one scope
    Calls           \* what may be written: each call leaves its own mark

VARIABLES
    table,          \* session -> version and marks; version 0: no such session
    told,           \* the change events, in the order they were published
    open            \* the change being completed

ledgerVars == <<table, told, open>>

Items == [version: Nat, marks: SUBSET Calls]
Nothing == [version |-> 0, marks |-> {}]

\* No change is being completed.
Closed == [kind |-> "none"]

LedgerInit ==
    /\ table = [s \in Sessions |-> Nothing]
    /\ told = <<>>
    /\ open = Closed

\* What a call writes: a merge keeps what is there, a save replaces it.
Written(s, n, m) == [version |-> table[s].version + 1, marks |-> m \cup {n}]

Write(s) ==
    /\ open = Closed
    /\ \E n \in Calls, m \in {{}, table[s].marks}:
        /\ table' = [table EXCEPT ![s] = Written(s, n, m)]
        /\ open' = [kind |-> "write", session |-> s, item |-> Written(s, n, m)]
    /\ UNCHANGED told

Announce ==
    /\ open.kind = "write"
    /\ told' = Append(told, [session |-> open.session, version |-> open.item.version])
    /\ open' = Closed
    /\ UNCHANGED table

Remove(s) ==
    /\ open = Closed
    /\ table' = [table EXCEPT ![s] = Nothing]
    /\ open' = [kind |-> "remove", session |-> s, item |-> table[s]]
    /\ UNCHANGED told

PutBack ==
    /\ open.kind = "remove"
    /\ table' = [table EXCEPT ![open.session] = open.item]
    /\ open' = Closed
    /\ UNCHANGED told

\* A removal is final, or a write will not be announced.
Close ==
    /\ open # Closed
    /\ open' = Closed
    /\ UNCHANGED <<table, told>>

LedgerNext ==
    \/ \E s \in Sessions: Write(s) \/ Remove(s)
    \/ Announce
    \/ PutBack
    \/ Close

LedgerSpec == LedgerInit /\ [][LedgerNext]_ledgerVars
=============================================================================
