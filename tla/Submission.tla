----------------------------- MODULE Submission -----------------------------
(***************************************************************************)
(* What the pair of programs promises of one run of the generator.  Each   *)
(* batch is received at most once and ends either counted or missed.       *)
(* Counting a batch uses up one received batch that is at least as large,  *)
(* not necessarily itself, so the figure that is reported never exceeds    *)
(* what was received.  It is reported once every batch has ended.          *)
(***************************************************************************)
EXTENDS Integers, FiniteSets, Functions

CONSTANTS
    Batches,    \* the batches of the run
    Size        \* how many transactions each of them has

ASSUME SubmissionAssumption ==
    /\ IsFiniteSet(Batches)
    /\ Size \in [Batches -> Nat]

VARIABLES
    outcome,    \* how each batch has ended for the generator
    received,   \* the batches that the receiver counted
    spent,      \* the received batches that a counted batch has used up
    reported    \* the figure has been printed

vars == <<outcome, received, spent, reported>>

TypeOK ==
    /\ outcome \in [Batches -> {"open", "counted", "missed"}]
    /\ received \in SUBSET Batches
    /\ spent \in SUBSET Batches
    /\ reported \in BOOLEAN

Init ==
    /\ outcome = [b \in Batches |-> "open"]
    /\ received = {}
    /\ spent = {}
    /\ reported = FALSE

-----------------------------------------------------------------------------
(* Faulty variants: counting against a batch already used up, against one    *)
(* that is smaller, and a report that does not wait for the batches.         *)

CountSpent(b, c) ==
    /\ outcome[b] = "open"
    /\ c \in received /\ Size[c] >= Size[b]
    /\ outcome' = [outcome EXCEPT ![b] = "counted"]
    /\ spent' = spent \cup {c}
    /\ UNCHANGED <<received, reported>>

CountSmaller(b, c) ==
    /\ outcome[b] = "open"
    /\ c \in received \ spent
    /\ outcome' = [outcome EXCEPT ![b] = "counted"]
    /\ spent' = spent \cup {c}
    /\ UNCHANGED <<received, reported>>

ReportEarly ==
    /\ ~reported
    /\ reported' = TRUE
    /\ UNCHANGED <<outcome, received, spent>>

-----------------------------------------------------------------------------
Receive(b) ==
    /\ b \notin received
    /\ received' = received \cup {b}
    /\ UNCHANGED <<outcome, spent, reported>>

Count(b, c) ==
    /\ outcome[b] = "open"
    /\ c \in received \ spent /\ Size[c] >= Size[b]
    /\ outcome' = [outcome EXCEPT ![b] = "counted"]
    /\ spent' = spent \cup {c}
    /\ UNCHANGED <<received, reported>>

(* Received and counted at once, as within one process.                     *)
Submit(b) ==
    /\ outcome[b] = "open" /\ b \notin received
    /\ outcome' = [outcome EXCEPT ![b] = "counted"]
    /\ received' = received \cup {b}
    /\ spent' = spent \cup {b}
    /\ UNCHANGED reported

Miss(b) ==
    /\ outcome[b] = "open"
    /\ outcome' = [outcome EXCEPT ![b] = "missed"]
    /\ UNCHANGED <<received, spent, reported>>

Report ==
    /\ ~reported
    /\ \A b \in Batches : outcome[b] # "open"
    /\ reported' = TRUE
    /\ UNCHANGED <<outcome, received, spent>>

Next ==
    \/ \E b \in Batches : Receive(b) \/ Submit(b) \/ Miss(b)
    \/ \E b, c \in Batches : Count(b, c)
    \/ Report

Spec == Init /\ [][Next]_vars

-----------------------------------------------------------------------------
Counted == {b \in Batches : outcome[b] = "counted"}

SizeOf(S) == SumFunctionOnSet(Size, S)

(* The transactions counted as submitted never outnumber those received.    *)
CountedWithinReceived == SizeOf(Counted) <= SizeOf(received)

(* As many received batches are used up as batches are counted.             *)
SpentPerCounted ==
    /\ spent \subseteq received
    /\ Cardinality(Counted) = Cardinality(spent)

(* Once reported, the outcome of every batch is settled for good.           *)
ReportIsFinal == [][reported => UNCHANGED outcome]_vars
=============================================================================
