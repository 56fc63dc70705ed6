------------------------------- MODULE RateLimit -------------------------------
(***************************************************************************)
(* The counter behind login throttling, share links and daily publish      *)
(* quotas (server/rate_limit.py, and credential_policy.py).                *)
(*                                                                         *)
(* One row per key.  consume is one UPSERT: the row counts attempts since  *)
(* window_start and starts over once window_start lies a window back.      *)
(* check and record, the older pair, are two statements on the same row.   *)
(***************************************************************************)
EXTENDS Integers, Sequences, FiniteSets

CONSTANTS MaxAttempts,  \* max_attempts, or max_daily_publishes
          Window,       \* window_seconds
          LastSecond,   \* bound on the clock
          MaxAdmitted   \* bound on the attempts admitted

ASSUME RateAssumption == MaxAttempts \in Int /\ Window \in Nat \ {0} /\ LastSecond \in Nat

VARIABLES clock,
          entry,     \* the rate_limit_entries row: [start, count], count 0 for no row
          admitted   \* when attempts were admitted, in order

rateVars == <<clock, entry, admitted>>

Entry == [start : Int, count : Nat]

EntryRow(start, count) == [start |-> start, count |-> count]

NoEntry == EntryRow(0, 0)

\* Types of the row and of the history.
RateTypeOK ==
    /\ clock \in 0 .. LastSecond
    /\ entry \in Entry
    /\ admitted \in Seq(0 .. LastSecond)

\* Mutant: a row exactly a window old is kept.
StaleKept(row) == row.count > 0 /\ row.start < clock - Window - 1

\* window_start < cutoff
Stale(row) == row.count > 0 /\ row.start < clock - Window

\* Rows two windows old are deleted by the call itself.
Pruned == IF entry.count > 0 /\ entry.start < clock - 2 * Window THEN NoEntry ELSE entry

\* Mutant: one attempt too many.
HasRoomLoose(row) == row.count <= MaxAttempts

HasRoom(row) == row.count < MaxAttempts

\* _build_consume_statement: insert, start over, count, or no row.
Upserted(row) ==
    IF row.count = 0 \/ Stale(row) THEN EntryRow(clock, 1) ELSE EntryRow(row.start, row.count + 1)

\* DBRateLimiter.consume returned True.
Consume ==
    /\ MaxAttempts > 0
    /\ Len(admitted) < MaxAdmitted
    /\ Pruned.count = 0 \/ Stale(Pruned) \/ HasRoom(Pruned)
    /\ entry' = Upserted(Pruned)
    /\ admitted' = Append(admitted, clock)
    /\ UNCHANGED clock

\* It returned False: a limit of zero, or no room in a current window.
Refused == MaxAttempts <= 0 \/ (Pruned.count > 0 /\ ~Stale(Pruned) /\ ~HasRoom(Pruned))

\* The refused call has still deleted an old row.
Refuse ==
    /\ Refused
    /\ entry' = IF MaxAttempts > 0 THEN Pruned ELSE entry
    /\ UNCHANGED <<clock, admitted>>

\* Mutant: the row is marked, not deleted.
ResetMarks ==
    /\ entry # NoEntry
    /\ entry' = EntryRow(0, -1)
    /\ admitted' = <<>>
    /\ UNCHANGED clock

\* reset: the key starts afresh.
Reset ==
    /\ entry # NoEntry
    /\ entry' = NoEntry
    /\ admitted' = <<>>
    /\ UNCHANGED clock

Passes ==
    /\ clock < LastSecond
    /\ clock' = clock + 1
    /\ UNCHANGED <<entry, admitted>>

RateInit == clock = 0 /\ entry = NoEntry /\ admitted = <<>>

RateNext == Consume \/ Refuse \/ Reset \/ Passes

RateSpec == RateInit /\ [][RateNext]_rateVars

-------------------------------------------------------------------------------
(* Properties *)

AdmittedIn(from, to) == {n \in 1 .. Len(admitted) : admitted[n] \in from .. to}

\* A limit below zero admits as little as a limit of zero.
Limit == IF MaxAttempts > 0 THEN MaxAttempts ELSE 0

\* A fixed window lets at most twice the limit through in any span of one
\* window's length, and at most the limit from the window's own start on.
BoundedBurst ==
    /\ entry.count > 0 => Cardinality(AdmittedIn(entry.start, clock)) <= Limit
    /\ \A t \in 0 .. LastSecond : Cardinality(AdmittedIn(t, t + Window)) <= 2 * Limit

\* Nobody is locked out for longer than a window: whoever is refused has had
\* the whole limit admitted within the window that ends now.
RefusedOnlyWhenFull ==
    Refused =>
        Cardinality(AdmittedIn(clock - Window, clock)) >= MaxAttempts

\* consume admits no burst beyond its limit and refuses nothing below it.
RateIsExact == RateTypeOK /\ BoundedBurst /\ RefusedOnlyWhenFull
===============================================================================
