----------------------------- MODULE AccessProofs -----------------------------
(***************************************************************************)
(* Proofs about RateLimit, Sessions, Access and AgentEnrollment, for every *)
(* limit, window and number of requests, names and keys, and about         *)
(* MCAccess, which runs them side by side.                                 *)
(***************************************************************************)
EXTENDS MCAccess, FiniteSetTheorems, TLAPS

(* The rate limit *)

\* The row counts the last attempts admitted: those of its own window.  All
\* earlier ones came before its start.
RowCountsLast ==
    /\ entry.count = 0 => admitted = <<>>
    /\ entry.count > 0 =>
          /\ entry.count <= MaxAttempts /\ entry.count <= Len(admitted)
          /\ entry.start \in 0 .. clock
          /\ \A n \in 1 .. Len(admitted) :
                IF n > Len(admitted) - entry.count
                THEN entry.start <= admitted[n] /\ admitted[n] <= entry.start + Window
                ELSE admitted[n] < entry.start

\* Two limits back lies a whole window back, and one limit before the row's
\* window lies a whole window before its start.
LimitsApart ==
    /\ \A n \in 1 .. Len(admitted) - 2 * Limit : admitted[n] + Window < admitted[n + 2 * Limit]
    /\ entry.count > 0 =>
          \A n \in 1 .. Len(admitted) - entry.count - Limit : admitted[n] + Window < entry.start

\* Attempts are admitted in the order of time: what came before t is a prefix.
InOrder ==
    /\ \A n \in 1 .. Len(admitted) : admitted[n] <= clock
    /\ \A t \in 0 .. LastSecond + Window + 1 :
          \E m \in 0 .. Len(admitted) : \A n \in 1 .. Len(admitted) : admitted[n] < t <=> n <= m

RateInv == RateTypeOK /\ RowCountsLast /\ LimitsApart /\ InOrder

\* The history is a sequence of seconds, the row a record of integers.
LEMMA RateTypes ==
    ASSUME RateInv
    PROVE  /\ clock \in Nat /\ clock <= LastSecond /\ entry.start \in Int /\ entry.count \in Nat
           /\ entry = EntryRow(entry.start, entry.count)
           /\ Len(admitted) \in Nat /\ \A n \in 1 .. Len(admitted) : admitted[n] \in 0 .. LastSecond
           /\ Limit \in Nat /\ (MaxAttempts > 0 => Limit = MaxAttempts)
           /\ MaxAttempts \in Int /\ Window \in Nat /\ Window > 0 /\ LastSecond \in Nat
  <1>1. /\ clock \in 0 .. LastSecond /\ entry \in Entry /\ admitted \in Seq(0 .. LastSecond)
        /\ MaxAttempts \in Int /\ Window \in Nat \ {0} /\ LastSecond \in Nat
    BY RateAssumption DEF RateInv, RateTypeOK
  <1>2. entry.start \in Int /\ entry.count \in Nat /\ entry = EntryRow(entry.start, entry.count)
    BY <1>1 DEF Entry, EntryRow
  <1>3. Len(admitted) \in Nat /\ \A n \in 1 .. Len(admitted) : admitted[n] \in 0 .. LastSecond
    BY <1>1
  <1>4. QED
    BY <1>1, <1>2, <1>3 DEF Limit

\* An admitted attempt starts the row over, at a time when the old row is a
\* window old, or is one more of the row's own window.
LEMMA ConsumeCases ==
    ASSUME RateInv, Consume
    PROVE  /\ MaxAttempts > 0 /\ clock' = clock /\ admitted' = Append(admitted, clock)
           /\ \/ /\ entry' = EntryRow(clock, 1)
                 /\ entry.count > 0 => entry.start + Window < clock
              \/ /\ entry' = EntryRow(entry.start, entry.count + 1)
                 /\ entry.count > 0 /\ entry.count < MaxAttempts /\ clock <= entry.start + Window
  <1>1. /\ MaxAttempts > 0 /\ clock' = clock /\ admitted' = Append(admitted, clock)
        /\ Pruned.count = 0 \/ Stale(Pruned) \/ HasRoom(Pruned)
        /\ entry' = Upserted(Pruned)
    BY DEF Consume
  <1>2. CASE entry.count > 0 /\ entry.start < clock - 2 * Window
    <2>1. Pruned = NoEntry /\ NoEntry.count = 0 /\ entry.start + Window < clock
      BY <1>2, RateTypes DEF Pruned, NoEntry, EntryRow
    <2>2. QED
      BY <1>1, <2>1 DEF Upserted
  <1>3. CASE ~(entry.count > 0 /\ entry.start < clock - 2 * Window)
    <2>1. Pruned = entry
      BY <1>3 DEF Pruned
    <2>2. QED
      BY <1>1, <2>1, RateTypes DEF Upserted, Stale, HasRoom
  <1>4. QED
    BY <1>2, <1>3

\* A refused call leaves the row as it is: a row old enough to be deleted would
\* not have refused.
LEMMA RefuseKeepsRow ==
    ASSUME RateInv, Refuse
    PROVE  UNCHANGED <<clock, entry, admitted>>
  <1>1. CASE MaxAttempts <= 0
    BY <1>1, RateTypes DEF Refuse
  <1>2. CASE ~(MaxAttempts <= 0)
    <2>1. Pruned.count > 0
      BY <1>2 DEF Refuse, Refused
    <2>2. Pruned = entry
      BY <2>1 DEF Pruned, NoEntry, EntryRow
    <2>3. QED
      BY <1>2, <2>2 DEF Refuse
  <1>3. QED
    BY <1>1, <1>2

\* The history grows at its end.
LEMMA ConsumeAppends ==
    ASSUME RateInv, Consume
    PROVE  /\ Len(admitted') = Len(admitted) + 1 /\ admitted'[Len(admitted) + 1] = clock
           /\ \A n \in 1 .. Len(admitted) : admitted'[n] = admitted[n]
           /\ admitted' \in Seq(0 .. LastSecond)
  <1>1. admitted \in Seq(0 .. LastSecond) /\ clock \in 0 .. LastSecond /\ admitted' = Append(admitted, clock)
    BY ConsumeCases DEF RateInv, RateTypeOK
  <1>2. QED
    BY <1>1

\* consume keeps the invariant.
LEMMA ConsumeKeeps ==
    ASSUME RateInv, Consume
    PROVE  RateInv'
  <1> DEFINE L == Len(admitted)
  <1>1. /\ clock' = clock /\ Len(admitted') = L + 1 /\ admitted'[L + 1] = clock
        /\ \A n \in 1 .. L : admitted'[n] = admitted[n]
        /\ \A n \in 1 .. L : admitted[n] <= clock
        /\ MaxAttempts > 0 /\ Limit = MaxAttempts
    BY ConsumeCases, ConsumeAppends, RateTypes DEF RateInv, InOrder
  <1>T. /\ L \in Nat /\ L = Len(admitted) /\ Limit \in Nat /\ Limit > 0 /\ Window \in Nat
        /\ clock \in Nat /\ LastSecond \in Nat /\ entry.start \in Int /\ entry.count \in Nat
        /\ \A n \in 1 .. L : admitted[n] \in Nat
    BY <1>1, RateTypes
  <1> HIDE DEF L
  <1>R. /\ entry.count = 0 => L = 0
        /\ entry.count > 0 =>
              /\ entry.count <= Limit /\ entry.count <= L /\ entry.start \in 0 .. clock
              /\ \A n \in 1 .. L : n > L - entry.count => entry.start <= admitted[n] /\ admitted[n] <= entry.start + Window
              /\ \A n \in 1 .. L : n <= L - entry.count => admitted[n] < entry.start
    BY <1>1, <1>T DEF RateInv, RowCountsLast
  <1>A. /\ \A n \in 1 .. L - 2 * Limit : admitted[n] + Window < admitted[n + 2 * Limit]
        /\ entry.count > 0 => \A n \in 1 .. L - entry.count - Limit : admitted[n] + Window < entry.start
    BY <1>T DEF RateInv, LimitsApart
  <1>S. \A n \in 1 .. L + 1 : (n \in 1 .. L /\ admitted'[n] = admitted[n]) \/ (n = L + 1 /\ admitted'[n] = clock)
    BY <1>1, <1>T
  <1>2. RateTypeOK'
    <2>1. entry' \in Entry
      BY ConsumeCases, RateTypes DEF Entry, EntryRow
    <2>2. QED
      BY <1>1, <2>1, ConsumeAppends DEF RateInv, RateTypeOK
  <1>3. InOrder'
    <2>1. \A n \in 1 .. L + 1 : n \in 1 .. L \/ n = L + 1
      BY <1>T
    <2>2. \A n \in 1 .. L + 1 : admitted'[n] <= clock /\ admitted'[n] \in Nat
      BY <1>1, <1>T, <2>1
    <2>3. ASSUME NEW t \in 0 .. LastSecond + Window + 1
          PROVE  \E m \in 0 .. L + 1 : \A n \in 1 .. L + 1 : admitted'[n] < t <=> n <= m
      <3>1. t \in Int
        BY <1>T
      <3>2. CASE clock < t
        <4>1. \A n \in 1 .. L + 1 : admitted'[n] < t /\ n <= L + 1
          BY <1>T, <2>2, <3>1, <3>2
        <4>2. L + 1 \in 0 .. L + 1
          BY <1>T
        <4>3. QED
          BY <4>1, <4>2
      <3>3. CASE ~(clock < t)
        <4>1. PICK m \in 0 .. L : \A n \in 1 .. L : admitted[n] < t <=> n <= m
          BY <1>T DEF RateInv, InOrder
        <4>2. \A n \in 1 .. L : admitted'[n] < t <=> n <= m
          BY <1>1, <4>1
        <4>3. (admitted'[L + 1] < t <=> L + 1 <= m) /\ m \in 0 .. L + 1
          BY <1>1, <1>T, <3>1, <3>3
        <4>4. QED
          BY <2>1, <4>2, <4>3
      <3>4. QED
        BY <3>2, <3>3
    <2>4. QED
      BY <1>1, <2>2, <2>3 DEF InOrder
  <1>4. CASE /\ entry' = EntryRow(clock, 1)
             /\ entry.count > 0 => entry.start + Window < clock
    <2>1. entry'.start = clock /\ entry'.count = 1
      BY <1>4 DEF EntryRow
    <2>2. \A n \in 1 .. L : admitted[n] < clock
      BY <1>4, <1>T, <1>R
    <2>3. RowCountsLast'
      <3>1. \A n \in 1 .. L + 1 : IF n > (L + 1) - 1
                                    THEN clock <= admitted'[n] /\ admitted'[n] <= clock + Window
                                    ELSE admitted'[n] < clock
        BY <1>T, <1>S, <2>2
      <3>2. QED
        BY <1>1, <1>T, <2>1, <3>1 DEF RowCountsLast
    <2>4. \A n \in 1 .. L - Limit : admitted[n] + Window < clock
      <3>1. ASSUME NEW n \in 1 .. L - Limit PROVE admitted[n] + Window < clock
        <4>1. n \in 1 .. L /\ n <= L - entry.count /\ entry.count > 0
          BY <1>T, <1>R
        <4>2. QED
          BY <1>4, <1>T, <1>R, <4>1
      <3>2. QED
        BY <3>1
    <2>5. ASSUME NEW n \in 1 .. L + 1 - 2 * Limit PROVE admitted'[n] + Window < admitted'[n + 2 * Limit]
      <3>1. n \in 1 .. L - Limit /\ n \in 1 .. L /\ n + 2 * Limit \in 1 .. L + 1
        BY <1>1, <1>T
      <3>2. CASE n + 2 * Limit = L + 1
        BY <1>1, <2>4, <3>1, <3>2
      <3>3. CASE n + 2 * Limit # L + 1
        <4>1. n \in 1 .. L - 2 * Limit /\ n + 2 * Limit \in 1 .. L
          BY <1>T, <3>1, <3>3
        <4>2. QED
          BY <1>1, <1>A, <3>1, <4>1
      <3>4. QED
        BY <3>2, <3>3
    <2>6. ASSUME NEW n \in 1 .. L + 1 - 1 - Limit PROVE admitted'[n] + Window < clock
      <3>1. n \in 1 .. L - Limit /\ n \in 1 .. L
        BY <1>T
      <3>2. QED
        BY <1>1, <2>4, <3>1
    <2>7. LimitsApart'
      <3>1. Limit' = Limit
        BY DEF Limit
      <3>2. QED
        BY <1>1, <1>T, <2>1, <2>5, <2>6, <3>1 DEF LimitsApart
    <2>8. QED
      BY <1>2, <1>3, <2>3, <2>7 DEF RateInv
  <1>5. CASE /\ entry' = EntryRow(entry.start, entry.count + 1)
             /\ entry.count > 0 /\ entry.count < MaxAttempts /\ clock <= entry.start + Window
    <2>1. entry'.start = entry.start /\ entry'.count = entry.count + 1
      BY <1>5 DEF EntryRow
    <2>2. RowCountsLast'
      <3>1. \A n \in 1 .. L + 1 :
               IF n > (L + 1) - (entry.count + 1)
               THEN entry.start <= admitted'[n] /\ admitted'[n] <= entry.start + Window
               ELSE admitted'[n] < entry.start
        <4>1. ASSUME NEW n \in 1 .. L
              PROVE  IF n > (L + 1) - (entry.count + 1)
                     THEN entry.start <= admitted'[n] /\ admitted'[n] <= entry.start + Window
                     ELSE admitted'[n] < entry.start
          BY <1>1, <1>5, <1>T, <1>R
        <4>2. /\ L + 1 > (L + 1) - (entry.count + 1)
              /\ entry.start <= admitted'[L + 1] /\ admitted'[L + 1] <= entry.start + Window
          BY <1>1, <1>5, <1>T, <1>R
        <4>3. QED
          BY <1>S, <4>1, <4>2
      <3>2. entry.count + 1 > 0 /\ entry.count + 1 <= MaxAttempts /\ entry.count + 1 <= L + 1
            /\ entry.start \in 0 .. clock
        BY <1>1, <1>5, <1>T, <1>R
      <3>3. QED
        BY <1>1, <2>1, <3>1, <3>2 DEF RowCountsLast
    <2>3. ASSUME NEW n \in 1 .. L + 1 - 2 * Limit PROVE admitted'[n] + Window < admitted'[n + 2 * Limit]
      <3>1. n \in 1 .. L /\ n + 2 * Limit \in 1 .. L + 1
        BY <1>T
      <3>2. CASE n + 2 * Limit = L + 1
        <4>1. n \in 1 .. L - entry.count - Limit
          BY <1>1, <1>5, <1>T, <3>2
        <4>2. QED
          BY <1>1, <1>5, <1>T, <1>A, <1>R, <3>1, <3>2, <4>1
      <3>3. CASE n + 2 * Limit # L + 1
        <4>1. n \in 1 .. L - 2 * Limit /\ n + 2 * Limit \in 1 .. L
          BY <1>T, <3>1, <3>3
        <4>2. QED
          BY <1>1, <1>A, <3>1, <4>1
      <3>4. QED
        BY <3>2, <3>3
    <2>4. ASSUME NEW n \in 1 .. L + 1 - (entry.count + 1) - Limit PROVE admitted'[n] + Window < entry.start
      <3>1. n \in 1 .. L - entry.count - Limit /\ n \in 1 .. L
        BY <1>T
      <3>2. QED
        BY <1>1, <1>5, <1>A, <3>1
    <2>5. LimitsApart'
      <3>1. Limit' = Limit
        BY DEF Limit
      <3>2. QED
        BY <1>1, <1>T, <2>1, <2>3, <2>4, <3>1 DEF LimitsApart
    <2>6. QED
      BY <1>2, <1>3, <2>2, <2>5 DEF RateInv
  <1>6. QED
    BY <1>4, <1>5, ConsumeCases

\* The first attempt of all finds no row, no history and no limit exceeded.
LEMMA EmptyHistory ==
    entry = NoEntry /\ admitted = <<>> /\ clock \in 0 .. LastSecond => RateInv
  <1> SUFFICES ASSUME entry = NoEntry, admitted = <<>>, clock \in 0 .. LastSecond
               PROVE  RateInv
    OBVIOUS
  <1>1. /\ Len(admitted) = 0 /\ \A n \in 1 .. 0 : FALSE
        /\ entry.count = 0 /\ entry \in Entry /\ admitted \in Seq(0 .. LastSecond)
    BY DEF NoEntry, EntryRow, Entry
  <1>2. Limit \in Nat
    BY RateAssumption DEF Limit
  <1>3. RateTypeOK /\ RowCountsLast
    BY <1>1 DEF RateTypeOK, RowCountsLast
  <1>4. LimitsApart
    BY <1>1, <1>2 DEF LimitsApart
  <1>5. InOrder
    <2>1. 0 \in 0 .. Len(admitted)
      BY <1>1
    <2>2. QED
      BY <1>1, <2>1 DEF InOrder
  <1>6. QED
    BY <1>3, <1>4, <1>5 DEF RateInv

\* Time passes: what was admitted before is still before.
LEMMA PassesKeeps ==
    ASSUME RateInv, Passes
    PROVE  RateInv'
  <1>1. /\ entry' = entry /\ admitted' = admitted /\ Limit' = Limit
        /\ clock' = clock + 1 /\ clock' \in 0 .. LastSecond
    BY RateTypes DEF Passes, Limit
  <1>2. RateTypeOK' /\ LimitsApart'
    BY <1>1 DEF RateInv, RateTypeOK, LimitsApart
  <1>3. RowCountsLast'
    BY <1>1, RateTypes DEF RateInv, RowCountsLast
  <1>4. InOrder'
    <2>1. \A n \in 1 .. Len(admitted) : admitted[n] <= clock + 1
      BY RateTypes DEF RateInv, InOrder
    <2>2. QED
      BY <1>1, <2>1 DEF RateInv, InOrder
  <1>5. QED
    BY <1>2, <1>3, <1>4 DEF RateInv

\* The inductive invariant of the rate limit.
THEOREM RateInvariant == RateSpec => []RateInv
  <1>1. RateInit => RateInv
    BY EmptyHistory, RateAssumption DEF RateInit
  <1>2. RateInv /\ [RateNext]_rateVars => RateInv'
    <2> SUFFICES ASSUME RateInv, [RateNext]_rateVars PROVE RateInv'
      OBVIOUS
    <2>1. CASE Consume
      BY <2>1, ConsumeKeeps
    <2>2. CASE Reset
      <3>1. (entry = NoEntry /\ admitted = <<>> /\ clock \in 0 .. LastSecond)'
        BY <2>2 DEF Reset, RateInv, RateTypeOK, NoEntry, EntryRow
      <3>2. (entry = NoEntry /\ admitted = <<>> /\ clock \in 0 .. LastSecond)' => RateInv'
        BY EmptyHistory, PTL
      <3>3. QED
        BY <3>1, <3>2
    <2>3. CASE Passes
      BY <2>3, PassesKeeps
    <2>4. CASE Refuse \/ UNCHANGED rateVars
      <3>1. UNCHANGED <<clock, entry, admitted>>
        BY <2>4, RefuseKeepsRow DEF rateVars
      <3>2. QED
        BY <3>1 DEF RateInv, RateTypeOK, RowCountsLast, LimitsApart, Limit, InOrder
    <2>5. QED
      BY <2>1, <2>2, <2>3, <2>4 DEF RateNext
  <1>3. QED
    BY <1>1, <1>2, PTL DEF RateSpec

\* The row's own window holds exactly the attempts the row counts.
LEMMA CountedInWindow ==
    ASSUME RateInv, entry.count > 0
    PROVE  /\ IsFiniteSet(AdmittedIn(entry.start, clock))
           /\ Cardinality(AdmittedIn(entry.start, clock)) = entry.count
  <1> DEFINE L == Len(admitted)
             first == L - entry.count + 1
  <1>1. /\ first \in Int /\ L \in Nat /\ first >= 1 /\ first <= L /\ L - first + 1 = entry.count
    BY RateTypes DEF RateInv, RowCountsLast
  <1>2. \A n \in 1 .. L : admitted[n] \in entry.start .. clock <=> n >= first
    BY RateTypes DEF RateInv, RowCountsLast, InOrder
  <1>3. AdmittedIn(entry.start, clock) = first .. L
    <2>1. AdmittedIn(entry.start, clock) = {n \in 1 .. L : n >= first}
      BY <1>2 DEF AdmittedIn
    <2> HIDE DEF L, first
    <2>2. QED
      BY <1>1, <2>1
  <1> HIDE DEF L, first
  <1>4. QED
    BY <1>1, <1>3, FS_Interval

\* Any span of attempts is finite.
LEMMA SpansFinite ==
    ASSUME RateInv, NEW from, NEW to
    PROVE  IsFiniteSet(AdmittedIn(from, to)) /\ Cardinality(AdmittedIn(from, to)) \in Nat
  <1>1. IsFiniteSet(1 .. Len(admitted))
    BY RateTypes, FS_Interval
  <1>2. AdmittedIn(from, to) \in SUBSET (1 .. Len(admitted))
    BY DEF AdmittedIn
  <1>3. QED
    BY <1>1, <1>2, FS_Subset, FS_CardinalityType

\* Two limits cover any span of one window.
LEMMA SpanHasTwoLimits ==
    ASSUME RateInv, NEW t \in 0 .. LastSecond
    PROVE  Cardinality(AdmittedIn(t, t + Window)) <= 2 * Limit
  <1> DEFINE L == Len(admitted)
  <1>T. /\ L \in Nat /\ Limit \in Nat /\ Window \in Nat /\ LastSecond \in Nat /\ t \in Nat
        /\ \A n \in 1 .. L : admitted[n] \in Nat
    BY RateTypes
  <1>1. t \in 0 .. LastSecond + Window + 1 /\ t + Window + 1 \in 0 .. LastSecond + Window + 1
    BY <1>T
  <1>2. PICK lo \in 0 .. L : \A n \in 1 .. L : admitted[n] < t <=> n <= lo
    BY <1>1 DEF RateInv, InOrder
  <1>3. PICK hi \in 0 .. L : \A n \in 1 .. L : admitted[n] < t + Window + 1 <=> n <= hi
    BY <1>1 DEF RateInv, InOrder
  <1>4. AdmittedIn(t, t + Window) = (lo + 1) .. hi
    <2>1. AdmittedIn(t, t + Window) = {n \in 1 .. L : admitted[n] \in t .. t + Window}
      BY DEF AdmittedIn
    <2> HIDE DEF L
    <2>2. ASSUME NEW n \in 1 .. L PROVE admitted[n] \in t .. t + Window <=> n \in (lo + 1) .. hi
      <3>1. admitted[n] \in Nat /\ n \in Nat /\ lo \in Nat /\ hi \in Nat
        BY <1>T
      <3>2. (admitted[n] < t <=> n <= lo) /\ (admitted[n] < t + Window + 1 <=> n <= hi)
        BY <1>2, <1>3
      <3>3. QED
        BY <1>T, <3>1, <3>2
    <2>3. (lo + 1) .. hi \subseteq 1 .. L
      BY <1>T
    <2>4. QED
      BY <2>1, <2>2, <2>3
  <1>5. hi - lo <= 2 * Limit
    <2>1. SUFFICES ASSUME hi - lo > 2 * Limit PROVE FALSE
      BY <1>T
    <2>2. \A n \in 1 .. L - 2 * Limit : admitted[n] + Window < admitted[n + 2 * Limit]
      BY DEF RateInv, LimitsApart
    <2> HIDE DEF L
    <2>3. lo + 1 \in 1 .. L - 2 * Limit /\ lo + 1 \in 1 .. L /\ lo + 1 + 2 * Limit \in 1 .. L
      BY <1>T, <2>1
    <2>4. ~(admitted[lo + 1] < t) /\ admitted[lo + 1 + 2 * Limit] < t + Window + 1
      BY <1>T, <1>2, <1>3, <2>1, <2>3
    <2>5. admitted[lo + 1] + Window < admitted[lo + 1 + 2 * Limit]
      BY <2>2, <2>3
    <2>6. QED
      BY <1>T, <2>3, <2>4, <2>5
  <1> HIDE DEF L
  <1>6. Cardinality((lo + 1) .. hi) = IF lo + 1 > hi THEN 0 ELSE hi - (lo + 1) + 1
    BY <1>T, FS_Interval
  <1>7. QED
    BY <1>T, <1>4, <1>5, <1>6

\* consume (server/rate_limit.py) admits at most the limit in a row's window and
\* at most twice the limit in any span of a window, and refuses only when a
\* whole limit was admitted within the window that ends now.
THEOREM RateCorrect == RateSpec => []RateIsExact
  <1>1. RateInv => RateIsExact
    <2> SUFFICES ASSUME RateInv PROVE RateIsExact
      OBVIOUS
    <2>1. BoundedBurst
      <3>1. entry.count > 0 => Cardinality(AdmittedIn(entry.start, clock)) <= Limit
        BY CountedInWindow, RateTypes DEF RateInv, RowCountsLast
      <3>2. QED
        BY <3>1, SpanHasTwoLimits DEF BoundedBurst
    <2>2. ASSUME Refused PROVE Cardinality(AdmittedIn(clock - Window, clock)) >= MaxAttempts
      <3> DEFINE S == AdmittedIn(clock - Window, clock)
      <3>1. IsFiniteSet(S) /\ Cardinality(S) \in Nat
        BY SpansFinite
      <3>2. CASE MaxAttempts <= 0
        BY <3>1, <3>2, RateTypes
      <3>3. CASE ~(MaxAttempts <= 0)
        <4>1. Pruned.count > 0 /\ ~Stale(Pruned) /\ ~HasRoom(Pruned)
          BY <2>2, <3>3 DEF Refused
        <4>2. Pruned = entry
          BY <4>1 DEF Pruned, NoEntry, EntryRow
        <4>3. entry.count > 0 /\ entry.start >= clock - Window /\ entry.count >= MaxAttempts
          BY <4>1, <4>2, RateTypes DEF Stale, HasRoom
        <4>4. AdmittedIn(entry.start, clock) \in SUBSET S
          BY <4>3, RateTypes DEF AdmittedIn
        <4>5. Cardinality(AdmittedIn(entry.start, clock)) <= Cardinality(S)
          BY <3>1, <4>4, FS_Subset
        <4>6. Cardinality(AdmittedIn(entry.start, clock)) = entry.count
          BY <4>3, CountedInWindow
        <4>7. QED
          BY <3>1, <4>3, <4>5, <4>6, RateTypes
      <3>4. QED
        BY <3>2, <3>3
    <2>3. QED
      BY <2>1, <2>2 DEF RateIsExact, RefusedOnlyWhenFull, RateInv
  <1>2. QED
    BY RateInvariant, <1>1, PTL

-------------------------------------------------------------------------------
(* Sessions *)

\* by says which browser's login made each live session of u: each made one,
\* and a browser that is logging in again has found its own.
MadeBy(u, by) ==
    /\ \A s1, s2 \in LiveOf(u) : by[s1] = by[s2] => s1 = s2
    /\ \A b \in Browsers : login[b].user = u =>
          \A s \in LiveOf(u) : by[s] = b => s \in login[b].found

SessionInv ==
    /\ SessionTypeOK
    /\ \A s \in SessionIds : session[s].live =>
          session[s].user \in Users /\ session[s].proof = password[session[s].user]
    /\ \A b \in Browsers : login[b] # NoLogin =>
          login[b].user \in Users /\ login[b].proof = password[login[b].user]
    /\ \A u \in Users : \E by \in [LiveOf(u) -> Browsers] : MadeBy(u, by)

\* Nobody is logging in: no user, nothing found.
LEMMA NoLoginFact == NoLogin \in Login /\ NoLogin.user = NoUser /\ NoUser \notin Users
  BY SessionAssumption DEF NoLogin, LoginOf, Login

\* Revoking sessions leaves the rest of their rows.
LEMMA RevokedRows ==
    ASSUME SessionTypeOK, NEW S
    PROVE  /\ Revoked(S) \in [SessionIds -> Session]
           /\ \A s \in SessionIds :
                /\ Revoked(S)[s].user = session[s].user /\ Revoked(S)[s].proof = session[s].proof
                /\ Revoked(S)[s].issued = session[s].issued
                /\ Revoked(S)[s].live => session[s].live /\ s \notin S
  BY DEF SessionTypeOK, Session, Revoked, Dead, SessionRow

\* With fewer sessions live and no login that knows less, each is still made by
\* a browser of its own.
LEMMA FewerLive ==
    ASSUME NEW u \in Users, LiveOf(u)' \subseteq LiveOf(u),
           \A b \in Browsers : login'[b].user = u => login'[b] = login[b] \/ LiveOf(u)' \subseteq login'[b].found,
           \E by \in [LiveOf(u) -> Browsers] : MadeBy(u, by)
    PROVE  \E by \in [LiveOf(u)' -> Browsers] : MadeBy(u, by)'
  <1>1. PICK by \in [LiveOf(u) -> Browsers] : MadeBy(u, by)
    OBVIOUS
  <1>2. PICK fewer \in [LiveOf(u)' -> Browsers] : \A s \in LiveOf(u)' : fewer[s] = by[s]
    <2>1. [s \in LiveOf(u)' |-> by[s]] \in [LiveOf(u)' -> Browsers]
      OBVIOUS
    <2>2. QED
      BY <2>1
  <1>3. MadeBy(u, fewer)'
    BY <1>1, <1>2 DEF MadeBy
  <1>4. QED
    BY <1>2, <1>3

\* A login that reads finds every session its user has.
LEMMA LoginReadsKeeps ==
    ASSUME SessionInv, NEW b \in Browsers, NEW u \in Users, NEW p \in Passwords, LoginReads(b, u, p)
    PROVE  SessionInv'
  <1>1. /\ login' = [login EXCEPT ![b] = LoginOf(u, p, LiveOf(u))] /\ p = password[u]
        /\ UNCHANGED <<tick, password, session>>
    BY DEF LoginReads
  <1>2. LoginOf(u, p, LiveOf(u)) \in Login
    BY DEF LoginOf, Login, LiveOf
  <1>3. /\ login' \in [Browsers -> Login] /\ login'[b] = LoginOf(u, p, LiveOf(u))
        /\ \A d \in Browsers \ {b} : login'[d] = login[d]
    BY <1>1, <1>2 DEF SessionInv, SessionTypeOK
  <1>4. SessionTypeOK'
    BY <1>1, <1>3 DEF SessionInv, SessionTypeOK
  <1>5. ASSUME NEW d \in Browsers, login'[d] # NoLogin
        PROVE  login'[d].user \in Users /\ login'[d].proof = password[login'[d].user]
    BY <1>1, <1>3, <1>5 DEF SessionInv, LoginOf
  <1>6. ASSUME NEW x \in Users PROVE \E by \in [LiveOf(x)' -> Browsers] : MadeBy(x, by)'
    <2>1. LiveOf(x)' = LiveOf(x)
      BY <1>1 DEF LiveOf
    <2>2. \A d \in Browsers : login'[d].user = x => login'[d] = login[d] \/ LiveOf(x)' \subseteq login'[d].found
      BY <1>3, <2>1 DEF LoginOf
    <2>3. QED
      BY <2>1, <2>2, FewerLive DEF SessionInv
  <1>7. QED
    BY <1>1, <1>4, <1>5, <1>6 DEF SessionInv

\* A login that writes ends the sessions it found, its browser's own among them.
LEMMA LoginWritesKeeps ==
    ASSUME SessionInv, NEW b \in Browsers, NEW s \in SessionIds, LoginWrites(b, s)
    PROVE  SessionInv'
  <1> DEFINE u == login[b].user
             new == SessionRow(u, TRUE, tick, login[b].proof)
  <1>1. /\ u \in Users /\ login[b].proof = password[u] /\ session[s].user = NoUser
        /\ session' = [Revoked(login[b].found) EXCEPT ![s] = new]
        /\ login' = [login EXCEPT ![b] = NoLogin] /\ UNCHANGED <<tick, password>>
    BY DEF LoginWrites, SessionInv, Replaced
  <1>T. /\ SessionTypeOK /\ login[b] \in Login /\ tick \in 0 .. LastTick /\ LastTick \in Nat
        /\ login \in [Browsers -> Login]
    BY SessionAssumption DEF SessionInv, SessionTypeOK
  <1>2. /\ new \in Session /\ new.user = u /\ new.live = TRUE /\ new.proof = login[b].proof
    BY <1>T DEF Session, SessionRow, Login
  <1>3. /\ session' \in [SessionIds -> Session] /\ session'[s] = new
        /\ \A t \in SessionIds \ {s} :
              /\ session'[t].user = session[t].user /\ session'[t].proof = session[t].proof
              /\ session'[t].live => session[t].live /\ t \notin login[b].found
    <2> HIDE DEF new
    <2>1. QED
      BY <1>1, <1>2, <1>T, RevokedRows
  <1>4. /\ login' \in [Browsers -> Login] /\ login'[b] = NoLogin
        /\ \A d \in Browsers \ {b} : login'[d] = login[d]
    BY <1>1, <1>T, NoLoginFact
  <1> HIDE DEF u, new
  <1>5. SessionTypeOK'
    BY <1>1, <1>3, <1>4 DEF SessionInv, SessionTypeOK
  <1>6. ASSUME NEW t \in SessionIds, session'[t].live
        PROVE  session'[t].user \in Users /\ session'[t].proof = password[session'[t].user]
    BY <1>1, <1>2, <1>3, <1>6 DEF SessionInv
  <1>7. ASSUME NEW x \in Users PROVE \E by \in [LiveOf(x)' -> Browsers] : MadeBy(x, by)'
    <2>1. CASE x # u
      <3>1. LiveOf(x)' \subseteq LiveOf(x)
        BY <1>2, <1>3, <2>1 DEF LiveOf
      <3>2. \A d \in Browsers : login'[d].user = x => login'[d] = login[d]
        BY <1>4, NoLoginFact
      <3>3. QED
        BY <3>1, <3>2, FewerLive DEF SessionInv
    <2>2. CASE x = u
      <3>1. PICK by \in [LiveOf(x) -> Browsers] : MadeBy(x, by)
        BY DEF SessionInv
      <3>2. LiveOf(x)' \subseteq (LiveOf(x) \ login[b].found) \cup {s}
        BY <1>3 DEF LiveOf
      <3>3. s \notin LiveOf(x)
        BY <1>1, NoLoginFact DEF LiveOf
      <3>4. PICK now2 \in [LiveOf(x)' -> Browsers] :
              \A t \in LiveOf(x)' : now2[t] = IF t = s THEN b ELSE by[t]
        <4>1. [t \in LiveOf(x)' |-> IF t = s THEN b ELSE by[t]] \in [LiveOf(x)' -> Browsers]
          BY <3>2
        <4>2. QED
          BY <4>1
      <3>5. \A t \in LiveOf(x)' : t # s => t \in LiveOf(x) /\ now2[t] = by[t] /\ by[t] # b
        BY <1>T, <2>2, <3>1, <3>2, <3>4 DEF MadeBy, u
      <3>6. \A s1, s2 \in LiveOf(x)' : now2[s1] = now2[s2] => s1 = s2
        BY <3>1, <3>4, <3>5 DEF MadeBy
      <3>7. ASSUME NEW d \in Browsers, login'[d].user = x, NEW t \in LiveOf(x)', now2[t] = d
            PROVE  t \in login'[d].found
        <4>1. d # b /\ login'[d] = login[d]
          BY <1>4, <3>7, NoLoginFact
        <4>2. t # s
          BY <3>4, <3>7, <4>1
        <4>3. QED
          BY <3>1, <3>5, <3>7, <4>1, <4>2 DEF MadeBy
      <3>8. MadeBy(x, now2)'
        BY <3>6, <3>7 DEF MadeBy
      <3>9. QED
        BY <3>8
    <2>3. QED
      BY <2>1, <2>2
  <1>8. ASSUME NEW d \in Browsers, login'[d] # NoLogin
        PROVE  login'[d].user \in Users /\ login'[d].proof = password[login'[d].user]
    BY <1>4, <1>8 DEF SessionInv
  <1>9. QED
    BY <1>1, <1>5, <1>6, <1>7, <1>8 DEF SessionInv

\* Sessions end, and either no login or every login is lost: what is left proves
\* a password that still counts.
LEMMA SessionsEnd ==
    ASSUME SessionInv, NEW S, session' = Revoked(S), SessionTypeOK',
           \/ UNCHANGED <<password, login>>
           \/ \A b \in Browsers : login'[b] = NoLogin,
           \A s \in SessionIds : session[s].live /\ s \notin S => password'[session[s].user] = password[session[s].user]
    PROVE  SessionInv'
  <1>1. \A s \in SessionIds : /\ session'[s].user = session[s].user /\ session'[s].proof = session[s].proof
                              /\ session'[s].live => session[s].live /\ s \notin S
    BY RevokedRows DEF SessionInv
  <1>2. ASSUME NEW s \in SessionIds, session'[s].live
        PROVE  session'[s].user \in Users /\ session'[s].proof = password'[session'[s].user]
    <2>1. session[s].live /\ s \notin S
      BY <1>1, <1>2
    <2>2. session[s].user \in Users /\ session[s].proof = password[session[s].user]
      BY <2>1 DEF SessionInv
    <2>3. password'[session[s].user] = password[session[s].user]
      BY <2>1
    <2>4. QED
      BY <1>1, <2>2, <2>3
  <1>3. \A b \in Browsers : login'[b] # NoLogin =>
          login'[b].user \in Users /\ login'[b].proof = password'[login'[b].user]
    BY DEF SessionInv
  <1>4. ASSUME NEW x \in Users PROVE \E by \in [LiveOf(x)' -> Browsers] : MadeBy(x, by)'
    <2>1. ASSUME NEW s \in SessionIds, session'[s].user = x, session'[s].live
          PROVE  s \in LiveOf(x)
      BY <1>1, <2>1 DEF LiveOf
    <2>2. \A b \in Browsers : login'[b].user = x => login'[b] = login[b]
      BY NoLoginFact
    <2>3. LiveOf(x)' \subseteq LiveOf(x)
      BY <2>1 DEF LiveOf
    <2>4. QED
      BY <2>2, <2>3, FewerLive DEF SessionInv
  <1>5. QED
    BY <1>2, <1>3, <1>4 DEF SessionInv

\* The inductive invariant of the sessions.
THEOREM SessionInvariant == SessionSpec => []SessionInv
  <1>1. SessionInit => SessionInv
    <2> SUFFICES ASSUME SessionInit PROVE SessionInv
      OBVIOUS
    <2>1. SessionRow(NoUser, FALSE, 0, NoPassword) \in Session
      BY DEF SessionRow, Session
    <2>2. SessionTypeOK
      <3>1. tick \in 0 .. LastTick
        BY SessionAssumption DEF SessionInit
      <3>2. password \in [Users -> Passwords \cup {NoPassword}]
        BY DEF SessionInit
      <3>3. session \in [SessionIds -> Session]
        BY <2>1 DEF SessionInit
      <3>4. login \in [Browsers -> Login]
        BY NoLoginFact DEF SessionInit
      <3>5. QED
        BY <3>1, <3>2, <3>3, <3>4 DEF SessionTypeOK
    <2>3. \A s \in SessionIds : session[s].live = FALSE
      BY DEF SessionInit, SessionRow
    <2>4. \A b \in Browsers : login[b] = NoLogin
      BY DEF SessionInit
    <2>5. ASSUME NEW u \in Users PROVE \E by \in [LiveOf(u) -> Browsers] : MadeBy(u, by)
      <3>1. LiveOf(u) = {}
        BY <2>3 DEF LiveOf
      <3>2. PICK by : by \in [LiveOf(u) -> Browsers]
        <4>1. [s \in {} |-> s] \in [LiveOf(u) -> Browsers]
          BY <3>1
        <4>2. QED
          BY <4>1
      <3>3. QED
        BY <3>1, <3>2 DEF MadeBy
    <2>6. QED
      BY <2>2, <2>3, <2>4, <2>5 DEF SessionInv
  <1>2. SessionInv /\ [SessionNext]_sessionVars => SessionInv'
    <2> SUFFICES ASSUME SessionInv, [SessionNext]_sessionVars PROVE SessionInv'
      OBVIOUS
    <2>T. SessionTypeOK
      BY DEF SessionInv
    <2>1. ASSUME NEW b \in Browsers, NEW u \in Users, NEW p \in Passwords, LoginReads(b, u, p)
          PROVE  SessionInv'
      BY <2>1, LoginReadsKeeps
    <2>2. ASSUME NEW b \in Browsers, NEW s \in SessionIds, LoginWrites(b, s) PROVE SessionInv'
      BY <2>2, LoginWritesKeeps
    <2>3. ASSUME NEW s \in SessionIds, Logout(s) PROVE SessionInv'
      <3>1. session' = Revoked({s}) /\ UNCHANGED <<tick, password, login>>
        BY <2>3 DEF Logout
      <3>2. SessionTypeOK'
        BY <2>T, <3>1, RevokedRows DEF SessionTypeOK
      <3>3. QED
        BY <3>1, <3>2, SessionsEnd
    <2>4. ASSUME NEW config \in [Users -> Passwords \cup {NoPassword}], Restart(config) PROVE SessionInv'
      <3> DEFINE S == UNION {EndedBy(u, config[u]) : u \in Users}
      <3>1. /\ password' = config /\ session' = Revoked(S) /\ tick' = tick
            /\ login' = [b \in Browsers |-> NoLogin]
        BY <2>4 DEF Restart
      <3>2. SessionTypeOK'
        BY <2>T, <3>1, RevokedRows, NoLoginFact DEF SessionTypeOK
      <3>3. ASSUME NEW s \in SessionIds, session[s].live, s \notin S
            PROVE  config[session[s].user] = password[session[s].user]
        <4>1. session[s].user \in Users /\ s \in LiveOf(session[s].user)
          BY <3>3 DEF SessionInv, LiveOf
        <4>2. s \notin EndedBy(session[s].user, config[session[s].user])
          BY <3>3, <4>1
        <4>3. QED
          BY <4>1, <4>2 DEF EndedBy
      <3> HIDE DEF S
      <3>4. QED
        BY <3>1, <3>2, <3>3, SessionsEnd
    <2>5. CASE Elapses \/ UNCHANGED sessionVars
      <3>1. UNCHANGED <<password, session, login>> /\ SessionTypeOK'
        BY <2>5, <2>T, SessionAssumption DEF Elapses, sessionVars, SessionTypeOK
      <3>2. \A x \in Users : LiveOf(x)' = LiveOf(x)
        BY <3>1 DEF LiveOf
      <3>3. ASSUME NEW x \in Users PROVE \E by \in [LiveOf(x)' -> Browsers] : MadeBy(x, by)'
        BY <3>1, <3>2, FewerLive DEF SessionInv
      <3>4. QED
        BY <3>1, <3>3 DEF SessionInv
    <2>6. QED
      BY <2>1, <2>2, <2>3, <2>4, <2>5 DEF SessionNext
  <1>3. QED
    BY <1>1, <1>2, PTL DEF SessionSpec

\* A session that is accepted proves its user's password of today, and a user has
\* no more live sessions than there are browsers logging in at once
\* (create_fresh_session_credential, _apply_bootstrap_password).
THEOREM SessionsCorrect == SessionSpec => []SessionsAreSound
  <1>1. SessionInv => SessionsAreSound
    <2> SUFFICES ASSUME SessionInv PROVE SessionsAreSound
      OBVIOUS
    <2>1. SessionProvesPassword
      BY DEF SessionInv, SessionProvesPassword, CookieAccepted
    <2>2. ASSUME NEW u \in Users PROVE Cardinality(LiveOf(u)) <= Cardinality(Browsers)
      <3>1. PICK by \in [LiveOf(u) -> Browsers] : MadeBy(u, by)
        BY DEF SessionInv
      <3>2. by \in Injection(LiveOf(u), Browsers)
        BY <3>1 DEF MadeBy, Injection, IsInjective
      <3>3. QED
        BY <3>2, FS_Injection, SessionAssumption
    <2>3. QED
      BY <2>1, <2>2 DEF SessionsAreSound, SessionInv, FewLiveSessions
  <1>2. QED
    BY SessionInvariant, <1>1, PTL

-------------------------------------------------------------------------------
(* Links and tokens *)

\* A link has counted its tokens; a grant not yet created has none.
GrantsInv ==
    \A g \in Grants :
        /\ IsFiniteSet(TokensOf(g))
        /\ grant[g].kind = "none" => TokensOf(g) = {}
        /\ grant[g].kind = "link" => grant[g].count = Cardinality(TokensOf(g)) /\ grant[g].count <= grant[g].limit
        /\ grant[g].kind = "token" => grant[g].expires = Horizon + 1

\* A token of a link has the link's expiry.
TokensInv ==
    \A k \in Tokens : ~Unused(k) /\ grant[token[k].grant].kind = "link" =>
        token[k].expires = grant[token[k].grant].expires

\* What a request names is still there.
VisitsInv ==
    \A v \in Visitors :
        /\ visit[v].step = "create" => visit[v].exposure \in Exposures
        /\ visit[v].step = "resolve" => visit[v].grant \in Grants /\ grant[visit[v].grant].kind = "link"
        /\ visit[v].step = "revoke" => visit[v].grant \in Grants /\ grant[visit[v].grant].kind # "none"

AccessInv == AccessTypeOK /\ GrantsInv /\ TokensInv /\ VisitsInv

\* A step that gives nobody back what he had lost.
OnlyFalls ==
    /\ now <= now' /\ shown' \subseteq shown
    /\ \A k \in Tokens : ~Unused(k) =>
          /\ token'[k].grant = token[k].grant /\ token'[k].expires = token[k].expires
          /\ token[k].revoked => token'[k].revoked
          /\ grant'[token[k].grant].exposure = grant[token[k].grant].exposure
          /\ grant'[token[k].grant].state = "active" => grant[token[k].grant].state = "active"

\* The rows and requests are records of their types, and a used token is
\* somebody's.
LEMMA AccessTypes ==
    ASSUME AccessInv
    PROVE  /\ now \in 0 .. Horizon /\ Horizon \in Nat /\ shown \subseteq Exposures
           /\ grant \in [Grants -> Grant] /\ token \in [Tokens -> Token] /\ visit \in [Visitors -> Visit]
           /\ \A k \in Tokens : Unused(k) \/ token[k].grant \in Grants
           /\ \A k \in Tokens, g \in Grants : k \in TokensOf(g) <=> token[k].grant = g
           /\ \A k \in Tokens : Unused(k) => \A g \in Grants : k \notin TokensOf(g)
  <1>1. AccessTypeOK
    BY DEF AccessInv
  <1>2. \A k \in Tokens : token[k].grant \in Grants \cup {Nothing}
    BY <1>1 DEF AccessTypeOK, Token
  <1>3. QED
    BY <1>1, <1>2, AccessAssumption DEF AccessTypeOK, Unused, TokensOf

\* Nobody is asking for anything.
LEMMA NoVisitFact == NoVisit \in Visit /\ NoVisit.step = "none"
  BY DEF NoVisit, Reading, Visit

\* A request reads and nothing else changes.
LEMMA VisitReads ==
    ASSUME AccessInv, NEW v \in Visitors, NEW r \in Visit, visit' = [visit EXCEPT ![v] = r],
           UNCHANGED <<now, shown, grant, token>>,
           r.step = "create" => r.exposure \in Exposures,
           r.step = "resolve" => r.grant \in Grants /\ grant[r.grant].kind = "link",
           r.step = "revoke" => r.grant \in Grants /\ grant[r.grant].kind # "none"
    PROVE  AccessInv' /\ OnlyFalls
  <1>1. \A g \in Grants : TokensOf(g)' = TokensOf(g)
    BY DEF TokensOf
  <1>2. \A w \in Visitors : visit'[w] = IF w = v THEN r ELSE visit[w]
    BY AccessTypes
  <1>3. AccessTypeOK'
    BY AccessTypes DEF AccessInv, AccessTypeOK
  <1>4. GrantsInv' /\ TokensInv'
    BY <1>1 DEF AccessInv, GrantsInv, TokensInv, Unused
  <1>5. VisitsInv'
    BY <1>2 DEF AccessInv, VisitsInv
  <1>6. OnlyFalls
    BY AccessTypes DEF OnlyFalls
  <1>7. QED
    BY <1>3, <1>4, <1>5, <1>6 DEF AccessInv

\* One grant row is rewritten, the tokens are revoked or left alone.
LEMMA RowRewritten ==
    ASSUME AccessInv, NEW g \in Grants, NEW row \in Grant,
           grant' = [grant EXCEPT ![g] = row], UNCHANGED <<now, shown>>,
           row.kind # "none",
           token' \in [Tokens -> Token],
           \A k \in Tokens : /\ token'[k].grant = token[k].grant /\ token'[k].expires = token[k].expires
                             /\ token[k].revoked => token'[k].revoked,
           visit' \in [Visitors -> Visit],
           \A w \in Visitors : visit'[w] = visit[w] \/ visit'[w] = NoVisit,
           \/ grant[g].kind = "none" /\ (row.kind = "link" => row.count = 0) /\ (row.kind = "token" => row.expires = Horizon + 1)
           \/ /\ row.kind = grant[g].kind /\ row.exposure = grant[g].exposure /\ row.expires = grant[g].expires
              /\ row.limit = grant[g].limit /\ row.count = grant[g].count
              /\ row.state = "active" => grant[g].state = "active"
    PROVE  AccessInv' /\ OnlyFalls
  <1>1. \A h \in Grants : TokensOf(h)' = TokensOf(h)
    BY DEF TokensOf
  <1>2. grant' \in [Grants -> Grant] /\ grant'[g] = row /\ \A h \in Grants \ {g} : grant'[h] = grant[h]
    BY AccessTypes
  <1>3. grant[g].kind = "none" => TokensOf(g) = {} /\ \A k \in Tokens : token[k].grant # g
    BY AccessTypes DEF AccessInv, GrantsInv
  <1>4. Cardinality({}) = 0
    BY FS_EmptySet
  <1>5. row.limit \in Nat
    BY DEF Grant
  <1>6. AccessTypeOK'
    BY <1>2, AccessTypes DEF AccessTypeOK
  <1>7. GrantsInv'
    <2>1. ASSUME NEW h \in Grants
          PROVE  /\ IsFiniteSet(TokensOf(h))
                 /\ grant'[h].kind = "none" => TokensOf(h) = {}
                 /\ grant'[h].kind = "link" =>
                       grant'[h].count = Cardinality(TokensOf(h)) /\ grant'[h].count <= grant'[h].limit
                 /\ grant'[h].kind = "token" => grant'[h].expires = Horizon + 1
      <3>1. CASE h # g
        BY <1>2, <3>1 DEF AccessInv, GrantsInv
      <3>2. CASE h = g /\ grant[g].kind = "none"
        <4>1. row.kind = "link" => row.count = 0 /\ 0 <= row.limit
          BY <1>5, <3>2
        <4>2. QED
          BY <1>2, <1>3, <1>4, <3>2, <4>1 DEF AccessInv, GrantsInv
      <3>3. CASE h = g /\ grant[g].kind # "none"
        BY <1>2, <3>3 DEF AccessInv, GrantsInv
      <3>4. QED
        BY <3>1, <3>2, <3>3
    <2>2. QED
      BY <1>1, <2>1 DEF GrantsInv
  <1>8. TokensInv'
    BY <1>2, <1>3, AccessTypes DEF AccessInv, TokensInv, Unused
  <1>9. VisitsInv'
    BY <1>2, NoVisitFact DEF AccessInv, VisitsInv
  <1>10. OnlyFalls
    <2>1. ASSUME NEW k \in Tokens, ~Unused(k)
          PROVE  /\ grant'[token[k].grant].exposure = grant[token[k].grant].exposure
                 /\ grant'[token[k].grant].state = "active" => grant[token[k].grant].state = "active"
      <3>1. token[k].grant \in Grants
        BY <2>1, AccessTypes
      <3>2. CASE token[k].grant = g
        BY <1>2, <1>3, <3>2
      <3>3. CASE token[k].grant # g
        BY <1>2, <3>1, <3>3
      <3>4. QED
        BY <3>2, <3>3
    <2>2. now <= now' /\ shown' \subseteq shown
      BY AccessTypes
    <2>3. QED
      BY <2>1, <2>2 DEF OnlyFalls
  <1>11. QED
    BY <1>6, <1>7, <1>8, <1>9, <1>10 DEF AccessInv

\* A request that has written is over.
LEMMA EndsFacts ==
    ASSUME AccessInv, NEW v \in Visitors, Ends(v)
    PROVE  /\ visit' \in [Visitors -> Visit]
           /\ \A w \in Visitors : visit'[w] = visit[w] \/ visit'[w] = NoVisit
  BY AccessTypes, NoVisitFact DEF Ends

\* A new token: of a grant of its own, or one more of a link with a use left.
LEMMA TokenIssued ==
    ASSUME AccessInv, NEW v \in Visitors, Ends(v), NEW g \in Grants, NEW k \in Tokens, Unused(k),
           NEW row \in Grant, NEW expires \in Times,
           grant' = [grant EXCEPT ![g] = row], token' = [token EXCEPT ![k] = TokenRow(g, expires, FALSE)],
           UNCHANGED <<now, shown>>,
           \/ grant[g].kind = "none" /\ row.kind = "token" /\ row.expires = Horizon + 1
           \/ /\ grant[g].kind = "link" /\ row.kind = "link" /\ row.exposure = grant[g].exposure
              /\ row.expires = grant[g].expires /\ row.limit = grant[g].limit /\ row.state = grant[g].state
              /\ row.count = grant[g].count + 1 /\ grant[g].count < grant[g].limit
              /\ expires = grant[g].expires
    PROVE  AccessInv' /\ OnlyFalls
  <1>1. /\ grant' \in [Grants -> Grant] /\ grant'[g] = row
        /\ \A h \in Grants \ {g} : grant'[h] = grant[h]
    BY AccessTypes
  <1>2. /\ TokenRow(g, expires, FALSE) \in Token
        /\ token' \in [Tokens -> Token] /\ token'[k].grant = g /\ token'[k].expires = expires
        /\ \A j \in Tokens \ {k} : token'[j] = token[j]
    BY AccessTypes DEF Token, TokenRow
  <1>3. g # Nothing /\ \A h \in Grants : k \notin TokensOf(h)
    BY AccessTypes, AccessAssumption
  <1>4. /\ TokensOf(g)' = TokensOf(g) \cup {k}
        /\ \A h \in Grants \ {g} : TokensOf(h)' = TokensOf(h)
    BY <1>2, <1>3 DEF TokensOf
  <1>5. AccessTypeOK'
    BY <1>1, <1>2, EndsFacts, AccessTypes DEF AccessTypeOK
  <1>6. GrantsInv'
    <2>1. /\ IsFiniteSet(TokensOf(g) \cup {k})
          /\ Cardinality(TokensOf(g) \cup {k}) = Cardinality(TokensOf(g)) + 1
      BY <1>3, FS_AddElement DEF AccessInv, GrantsInv
    <2>2. grant[g].count \in Nat /\ grant[g].limit \in Nat
      BY AccessTypes DEF Grant
    <2>3. row.kind = "link" => row.count = Cardinality(TokensOf(g)) + 1 /\ row.count <= row.limit
      BY <2>2 DEF AccessInv, GrantsInv
    <2>4. ASSUME NEW h \in Grants \ {g}
          PROVE  /\ IsFiniteSet(TokensOf(h)')
                 /\ grant'[h].kind = "none" => TokensOf(h)' = {}
                 /\ grant'[h].kind = "link" =>
                       grant'[h].count = Cardinality(TokensOf(h)') /\ grant'[h].count <= grant'[h].limit
                 /\ grant'[h].kind = "token" => grant'[h].expires = Horizon + 1
      BY <1>1, <1>4 DEF AccessInv, GrantsInv
    <2>5. /\ IsFiniteSet(TokensOf(g)')
          /\ grant'[g].kind # "none"
          /\ grant'[g].kind = "link" =>
                grant'[g].count = Cardinality(TokensOf(g)') /\ grant'[g].count <= grant'[g].limit
          /\ grant'[g].kind = "token" => grant'[g].expires = Horizon + 1
      BY <1>1, <1>4, <2>1, <2>3
    <2>6. QED
      BY <2>4, <2>5 DEF GrantsInv
  <1>7. TokensInv'
    <2>1. ASSUME NEW j \in Tokens \ {k}, ~Unused(j)', grant'[token'[j].grant].kind = "link"
          PROVE  token'[j].expires = grant'[token'[j].grant].expires
      <3>1. token'[j] = token[j] /\ ~Unused(j) /\ token[j].grant \in Grants
        BY <1>2, <2>1, AccessTypes DEF Unused
      <3>2. token[j].grant = g => grant[g].kind # "none"
        BY AccessTypes DEF AccessInv, GrantsInv
      <3>3. QED
        BY <1>1, <2>1, <3>1, <3>2 DEF AccessInv, TokensInv
    <2>2. grant'[token'[k].grant].kind = "link" => token'[k].expires = grant'[token'[k].grant].expires
      BY <1>1, <1>2
    <2>3. QED
      BY <2>1, <2>2 DEF TokensInv
  <1>8. VisitsInv'
    <2>1. \A h \in Grants : /\ grant[h].kind = "link" => grant'[h].kind = "link"
                            /\ grant[h].kind # "none" => grant'[h].kind # "none"
      BY <1>1
    <2>2. QED
      BY <2>1, EndsFacts, NoVisitFact DEF AccessInv, VisitsInv
  <1>9. OnlyFalls
    <2>1. ASSUME NEW j \in Tokens, ~Unused(j)
          PROVE  /\ token'[j] = token[j]
                 /\ grant'[token[j].grant].exposure = grant[token[j].grant].exposure
                 /\ grant'[token[j].grant].state = grant[token[j].grant].state
      <3>1. token'[j] = token[j] /\ token[j].grant \in Grants
        BY <1>2, <2>1, AccessTypes
      <3>2. token[j].grant = g => grant[g].kind # "none"
        BY AccessTypes DEF AccessInv, GrantsInv
      <3>3. QED
        BY <1>1, <3>1, <3>2
    <2>2. now <= now' /\ shown' \subseteq shown
      BY AccessTypes
    <2>3. QED
      BY <2>1, <2>2 DEF OnlyFalls
  <1>10. QED
    BY <1>5, <1>6, <1>7, <1>8, <1>9 DEF AccessInv

\* resolve_share_link, the writing half.
LEMMA ResolveWritesKeeps ==
    ASSUME AccessInv, NEW v \in Visitors, NEW k \in Tokens, ResolveWrites(v, k)
    PROVE  AccessInv' /\ OnlyFalls
  <1> DEFINE g == visit[v].grant
  <1>1. /\ g \in Grants /\ grant[g].kind = "link" /\ Unused(k) /\ Ends(v) /\ UNCHANGED <<now, shown>>
        /\ grant' = [grant EXCEPT ![g] = Counted(g)]
    BY DEF ResolveWrites, AccessInv, VisitsInv
  <1>T. /\ grant[g] \in Grant /\ grant[g].expires \in Times /\ grant[g].count \in Nat
        /\ grant \in [Grants -> Grant] /\ token \in [Tokens -> Token]
    BY <1>1, AccessTypes DEF Grant
  <1>2. CASE HasUseLeft(g)
    <2> DEFINE row == CountedRow(grant[g], grant[g].state)
    <2>1. /\ row \in Grant /\ row.kind = "link" /\ row.exposure = grant[g].exposure
          /\ row.expires = grant[g].expires /\ row.limit = grant[g].limit /\ row.state = grant[g].state
          /\ row.count = grant[g].count + 1
      BY <1>1, <1>T DEF CountedRow, GrantRow, Grant
    <2>2. /\ grant' = [grant EXCEPT ![g] = row] /\ grant[g].count < grant[g].limit
          /\ token' = [token EXCEPT ![k] = TokenRow(g, grant[g].expires, FALSE)]
      BY <1>1, <1>2 DEF ResolveWrites, Counted, HasUseLeft, TokenExpiry
    <2> HIDE DEF row, g
    <2>3. QED
      BY <1>1, <1>T, <2>1, <2>2, TokenIssued
  <1>3. CASE ~HasUseLeft(g)
    <2>1. token' = token /\ grant' = [grant EXCEPT ![g] = grant[g]]
      BY <1>1, <1>3 DEF ResolveWrites, Counted
    <2>2. token' \in [Tokens -> Token]
      BY <1>T, <2>1
    <2> HIDE DEF g
    <2>3. QED
      BY <1>1, <1>T, <2>1, <2>2, EndsFacts, RowRewritten
  <1>4. QED
    BY <1>2, <1>3

\* create_product_token: a grant and a token of its own.
LEMMA CreateTokenKeeps ==
    ASSUME AccessInv, NEW v \in Visitors, NEW g \in Grants, NEW k \in Tokens, NEW t \in Times,
           CreateToken(v, g, k, t)
    PROVE  AccessInv' /\ OnlyFalls
  <1> DEFINE row == GrantRow("token", visit[v].exposure, "active", Horizon + 1, 0, 0)
  <1>1. /\ visit[v].exposure \in Exposures
        /\ grant[g].kind = "none" /\ Unused(k) /\ Ends(v) /\ UNCHANGED <<now, shown>>
        /\ grant' = [grant EXCEPT ![g] = row] /\ token' = [token EXCEPT ![k] = TokenRow(g, t, FALSE)]
    BY DEF CreateToken, AccessInv, VisitsInv
  <1>2. row \in Grant /\ row.kind = "token" /\ row.expires = Horizon + 1
    BY <1>1, AccessAssumption DEF GrantRow, Grant, Times
  <1> HIDE DEF row
  <1>3. QED
    BY <1>1, <1>2, TokenIssued

\* create_share_link: a link with no use yet.
LEMMA CreateLinkKeeps ==
    ASSUME AccessInv, NEW v \in Visitors, NEW g \in Grants, NEW t \in Times, NEW n \in Limits,
           CreateLink(v, g, t, n)
    PROVE  AccessInv' /\ OnlyFalls
  <1> DEFINE row == GrantRow("link", visit[v].exposure, "active", t, n, 0)
  <1>1. /\ visit[v].exposure \in Exposures
        /\ grant[g].kind = "none" /\ Ends(v) /\ UNCHANGED <<now, shown, token>>
        /\ grant' = [grant EXCEPT ![g] = row]
    BY DEF CreateLink, AccessInv, VisitsInv
  <1>2. row \in Grant /\ row.kind = "link" /\ row.count = 0
    BY <1>1, AccessAssumption DEF GrantRow, Grant
  <1> HIDE DEF row
  <1>3. QED
    BY <1>1, <1>2, EndsFacts, AccessTypes, RowRewritten

\* Revoking a grant changes nothing else of it.
LEMMA RevokedGrantFacts ==
    ASSUME NEW r \in Grant
    PROVE  /\ RevokedGrant(r) \in Grant /\ RevokedGrant(r).kind = r.kind
           /\ RevokedGrant(r).exposure = r.exposure /\ RevokedGrant(r).expires = r.expires
           /\ RevokedGrant(r).limit = r.limit /\ RevokedGrant(r).count = r.count
           /\ RevokedGrant(r).state = "revoked"
  BY DEF RevokedGrant, GrantRow, Grant

\* revoke_share_link: the link, and the tokens it had read.
LEMMA RevokeWritesKeeps ==
    ASSUME AccessInv, NEW v \in Visitors, RevokeWrites(v)
    PROVE  AccessInv' /\ OnlyFalls
  <1> DEFINE g == visit[v].grant
             row == RevokedGrant(grant[g])
  <1>1. /\ g \in Grants /\ grant[g].kind # "none" /\ Ends(v) /\ UNCHANGED <<now, shown>>
        /\ grant' = [grant EXCEPT ![g] = row]
    BY DEF RevokeWrites, AccessInv, VisitsInv
  <1>2. /\ token' \in [Tokens -> Token]
        /\ \A k \in Tokens : /\ token'[k].grant = token[k].grant /\ token'[k].expires = token[k].expires
                             /\ token[k].revoked => token'[k].revoked
    BY AccessTypes DEF RevokeWrites, Token, TokenRow
  <1>3. grant[g] \in Grant
    BY <1>1, AccessTypes
  <1>4. /\ row \in Grant /\ row.kind = grant[g].kind /\ row.exposure = grant[g].exposure
        /\ row.expires = grant[g].expires /\ row.limit = grant[g].limit /\ row.count = grant[g].count
        /\ row.state = "revoked"
    BY <1>3, RevokedGrantFacts
  <1> HIDE DEF g, row
  <1>5. QED
    BY <1>1, <1>2, <1>4, EndsFacts, RowRewritten

\* revoke_product_token: the token and its grant.
LEMMA RevokeTokenKeeps ==
    ASSUME AccessInv, NEW k \in Tokens, RevokeToken(k)
    PROVE  AccessInv' /\ OnlyFalls
  <1> DEFINE g == token[k].grant
             row == RevokedGrant(grant[g])
  <1>1. /\ g \in Grants /\ grant[g].kind = "token" /\ UNCHANGED <<now, shown, visit>>
        /\ grant' = [grant EXCEPT ![g] = row]
    BY AccessTypes DEF RevokeToken
  <1>2. /\ token' \in [Tokens -> Token]
        /\ \A j \in Tokens : /\ token'[j].grant = token[j].grant /\ token'[j].expires = token[j].expires
                             /\ token[j].revoked => token'[j].revoked
    BY AccessTypes DEF RevokeToken, Token, TokenRow
  <1>3. grant[g] \in Grant
    BY <1>1, AccessTypes
  <1>4. /\ row \in Grant /\ row.kind = grant[g].kind /\ row.exposure = grant[g].exposure
        /\ row.expires = grant[g].expires /\ row.limit = grant[g].limit /\ row.count = grant[g].count
        /\ row.state = "revoked"
    BY <1>3, RevokedGrantFacts
  <1> HIDE DEF g, row
  <1>5. QED
    BY <1>1, <1>2, <1>4, AccessTypes, RowRewritten

\* Every step of a request, an owner or the clock.
LEMMA AccessStep ==
    AccessInv /\ [AccessNext]_accessVars => AccessInv' /\ OnlyFalls
  <1> SUFFICES ASSUME AccessInv, [AccessNext]_accessVars PROVE AccessInv' /\ OnlyFalls
    OBVIOUS
  <1>1. ASSUME NEW v \in Visitors, NEW e \in Exposures, CreateReads(v, e) PROVE AccessInv' /\ OnlyFalls
    <2> DEFINE r == Reading("create", e, Nothing, {})
    <2>1. r \in Visit /\ r.step = "create" /\ r.exposure = e
      BY DEF Reading, Visit
    <2>2. visit' = [visit EXCEPT ![v] = r] /\ UNCHANGED <<now, shown, grant, token>>
      BY <1>1 DEF CreateReads, Reads
    <2> HIDE DEF r
    <2>3. QED
      BY <2>1, <2>2, VisitReads
  <1>2. ASSUME NEW v \in Visitors, NEW g \in Grants, ResolveReads(v, g) PROVE AccessInv' /\ OnlyFalls
    <2> DEFINE r == Reading("resolve", Nothing, g, {})
    <2>1. r \in Visit /\ r.step = "resolve" /\ r.grant = g
      BY DEF Reading, Visit
    <2>2. /\ visit' = [visit EXCEPT ![v] = r] /\ UNCHANGED <<now, shown, grant, token>>
          /\ grant[g].kind = "link"
      BY <1>2 DEF ResolveReads, Reads
    <2> HIDE DEF r
    <2>3. QED
      BY <2>1, <2>2, VisitReads
  <1>3. ASSUME NEW v \in Visitors, NEW g \in Grants, RevokeReads(v, g) PROVE AccessInv' /\ OnlyFalls
    <2> DEFINE r == Reading("revoke", Nothing, g, TokensOf(g))
    <2>1. r \in Visit /\ r.step = "revoke" /\ r.grant = g
      BY DEF Reading, Visit, TokensOf
    <2>2. /\ visit' = [visit EXCEPT ![v] = r] /\ UNCHANGED <<now, shown, grant, token>>
          /\ grant[g].kind # "none"
      BY <1>3 DEF RevokeReads, Reads
    <2> HIDE DEF r
    <2>3. QED
      BY <2>1, <2>2, VisitReads
  <1>4. ASSUME NEW v \in Visitors, NEW g \in Grants, NEW t \in Times, NEW n \in Limits, CreateLink(v, g, t, n)
        PROVE  AccessInv' /\ OnlyFalls
    BY <1>4, CreateLinkKeeps
  <1>5. ASSUME NEW v \in Visitors, NEW g \in Grants, NEW k \in Tokens, NEW t \in Times, CreateToken(v, g, k, t)
        PROVE  AccessInv' /\ OnlyFalls
    BY <1>5, CreateTokenKeeps
  <1>6. ASSUME NEW v \in Visitors, NEW k \in Tokens, ResolveWrites(v, k) PROVE AccessInv' /\ OnlyFalls
    BY <1>6, ResolveWritesKeeps
  <1>7. ASSUME NEW v \in Visitors, RevokeWrites(v) PROVE AccessInv' /\ OnlyFalls
    BY <1>7, RevokeWritesKeeps
  <1>8. ASSUME NEW k \in Tokens, RevokeToken(k) PROVE AccessInv' /\ OnlyFalls
    BY <1>8, RevokeTokenKeeps
  <1>9. CASE (\E e \in Exposures : ExposureCloses(e)) \/ Ticks \/ UNCHANGED accessVars
    <2>1. /\ UNCHANGED <<grant, token, visit>> /\ shown' \subseteq shown
          /\ now' \in 0 .. Horizon /\ now <= now'
      BY <1>9, AccessTypes DEF ExposureCloses, Ticks, accessVars
    <2>2. \A g \in Grants : TokensOf(g)' = TokensOf(g)
      BY <2>1 DEF TokensOf
    <2>3. AccessTypeOK'
      BY <2>1, AccessTypes DEF AccessTypeOK
    <2>4. GrantsInv' /\ TokensInv' /\ VisitsInv'
      BY <2>1, <2>2 DEF AccessInv, GrantsInv, TokensInv, VisitsInv, Unused
    <2>5. OnlyFalls
      BY <2>1 DEF OnlyFalls
    <2>6. QED
      BY <2>3, <2>4, <2>5 DEF AccessInv
  <1>10. QED
    BY <1>1, <1>2, <1>3, <1>4, <1>5, <1>6, <1>7, <1>8, <1>9 DEF AccessNext

\* The inductive invariant of links and tokens.
THEOREM AccessInvariant == AccessSpec => []AccessInv
  <1>1. AccessInit => AccessInv
    <2> SUFFICES ASSUME AccessInit PROVE AccessInv
      OBVIOUS
    <2>1. /\ GrantRow("none", Nothing, "active", 0, 0, 0) \in Grant
          /\ TokenRow(Nothing, 0, FALSE) \in Token
      BY AccessAssumption DEF GrantRow, Grant, TokenRow, Token, Times
    <2>2. AccessTypeOK
      <3>1. now \in 0 .. Horizon /\ shown \subseteq Exposures
        BY AccessAssumption DEF AccessInit
      <3>2. grant \in [Grants -> Grant] /\ token \in [Tokens -> Token]
        BY <2>1 DEF AccessInit
      <3>3. visit \in [Visitors -> Visit]
        BY NoVisitFact DEF AccessInit
      <3>4. QED
        BY <3>1, <3>2, <3>3 DEF AccessTypeOK
    <2>3. \A k \in Tokens : token[k].grant = Nothing
      BY DEF AccessInit, TokenRow
    <2>4. \A g \in Grants : grant[g].kind = "none" /\ TokensOf(g) = {}
      BY <2>3, AccessAssumption DEF AccessInit, GrantRow, TokensOf
    <2>5. GrantsInv
      BY <2>4, FS_EmptySet DEF GrantsInv
    <2>6. TokensInv /\ VisitsInv
      BY <2>3, NoVisitFact DEF AccessInit, TokensInv, VisitsInv, Unused
    <2>7. QED
      BY <2>2, <2>5, <2>6 DEF AccessInv
  <1>2. QED
    BY <1>1, AccessStep, PTL DEF AccessSpec

\* What the invariant says of a token that opens something.
LEMMA OpenTokens ==
    ASSUME AccessInv, NEW k \in Tokens, MayDownload(k)
    PROVE  /\ ~Passed(grant[token[k].grant].expires)
           /\ k \in RevocableTokens \/ token[k].grant \in RevocableLinks
  <1> DEFINE g == token[k].grant
  <1>1. /\ g \in Grants /\ ~Unused(k) /\ ~token[k].revoked /\ ~Passed(token[k].expires)
        /\ grant[g].state = "active"
    BY AccessTypes DEF MayDownload, Authenticates, GrantOpens
  <1>2. grant[g].kind \in {"none", "link", "token"} /\ grant[g].kind # "none"
    BY <1>1, AccessTypes DEF Grant, AccessInv, GrantsInv
  <1>3. CASE grant[g].kind = "link"
    <2>1. grant[g].expires = token[k].expires
      BY <1>1, <1>3 DEF AccessInv, TokensInv
    <2>2. GrantState(g) = "active"
      BY <1>1, <2>1 DEF GrantState
    <2>3. k \in TokensUnder("link")
      BY <1>1, <1>3 DEF TokensUnder
    <2>4. g \in RevocableLinks
      BY <2>2, <2>3 DEF RevocableLinks
    <2>5. QED
      BY <1>1, <2>1, <2>4
  <1>4. CASE grant[g].kind = "token"
    <2>1. ~Passed(grant[g].expires)
      BY <1>1, <1>4, AccessTypes DEF AccessInv, GrantsInv, Passed
    <2>2. CredentialState(k) = "active"
      BY <1>1 DEF CredentialState
    <2>3. k \in RevocableTokens
      BY <1>1, <1>4, <2>2 DEF RevocableTokens, TokensUnder
    <2>4. QED
      BY <2>1, <2>3
  <1>5. QED
    BY <1>2, <1>3, <1>4

\* What falls does not rise: a token that opened nothing opens nothing.
LEMMA LostStaysLost ==
    ASSUME AccessInv, AccessInv', OnlyFalls
    PROVE  LostAccessIsLost
  <1> SUFFICES ASSUME NEW k \in Tokens, ~Unused(k), MayDownload(k)' PROVE MayDownload(k)
    BY DEF LostAccessIsLost
  <1> DEFINE g == token[k].grant
  <1>1. /\ token'[k].grant = g /\ token'[k].expires = token[k].expires
        /\ token[k].revoked => token'[k].revoked
        /\ grant'[g].exposure = grant[g].exposure
        /\ grant'[g].state = "active" => grant[g].state = "active"
        /\ now <= now' /\ shown' \subseteq shown
    BY DEF OnlyFalls
  <1>2. /\ ~token'[k].revoked /\ ~(token'[k].expires <= now')
        /\ grant'[token'[k].grant].state = "active" /\ grant'[token'[k].grant].exposure \in shown'
    BY DEF MayDownload, Authenticates, GrantOpens, Passed
  <1>3. now \in Int /\ now' \in Int /\ token[k].expires \in Int
    <2>1. now \in 0 .. Horizon /\ token[k] \in Token /\ Horizon \in Nat /\ now' \in 0 .. Horizon
      BY AccessTypes DEF AccessInv, AccessTypeOK
    <2>2. QED
      BY <2>1 DEF Token, Times
  <1>4. Authenticates(k)
    BY <1>1, <1>2, <1>3 DEF Authenticates, Passed
  <1>5. GrantOpens(g)
    BY <1>1, <1>2 DEF GrantOpens
  <1>6. QED
    BY <1>4, <1>5 DEF MayDownload

\* Links and tokens (share_links.py, token_service.py): each use of a link is
\* counted and none granted beyond its limit, a token dies with its link, what is
\* revoked opens nothing, what opens can be revoked from the library page, and
\* access that was lost does not come back.
THEOREM AccessCorrect == AccessSpec => LinksKeepTheirLimits
  <1> DEFINE Good == /\ AccessTypeOK /\ UsesAreCounted /\ RevokedOpensNothing
                     /\ TokenDiesWithLink /\ OpenIsRevocable
  <1>1. AccessInv => Good
    BY OpenTokens DEF AccessInv, GrantsInv, UsesAreCounted, RevokedOpensNothing, MayDownload, GrantOpens,
                      TokenDiesWithLink, OpenIsRevocable
  <1>2. AccessInv' => Good'
    BY <1>1, PTL
  <1>3. AccessInv /\ AccessInv' /\ [AccessNext]_accessVars => [Good' /\ LostAccessIsLost]_accessVars
    BY <1>2, AccessStep, LostStaysLost
  <1>4. QED
    BY AccessInvariant, <1>3, PTL DEF AccessSpec, LinksKeepTheirLimits

-------------------------------------------------------------------------------
(* Agent enrollment.  The write of a handler trusts what its read saw, so the *)
(* invariant says what of it is still true: which row it names, and that a    *)
(* key on its way is nobody's yet.                                            *)
\* A request that carries a key its client has just generated.
Carries(c) == req[c].step \in {"submit", "late", "rotate"}

\* Invitations, enrollments and agents fit together.
RowsInv ==
    /\ \A i \in Invitations :
          /\ inv[i].state # "absent" => inv[i].slug \in Slugs
          /\ enr[i].state # "absent" => inv[i].state \notin {"absent", "open"}
          /\ enr[i].state = "approved" /\ inv[i].purpose = "enroll" => agent[inv[i].slug] # "absent"
    /\ \A s \in Slugs : agent[s] = "absent" => live[s] = {}

\* A key is generated once and proposed by one enrollment at most.
KeysInv ==
    /\ \A s \in Slugs : live[s] \subseteq spent
    /\ \A i \in Invitations :
          /\ enr[i].state = "absent" <=> enr[i].key = None
          /\ enr[i].key \in spent \cup {None}
    /\ \A i, j \in Invitations : enr[i].key = enr[j].key /\ enr[i].key # None => i = j

\* A key on its way is neither live, nor proposed, nor presented, nor another's.
CarriedInv ==
    \A c \in Clients : Carries(c) =>
        /\ req[c].new \in spent
        /\ \A s \in Slugs : req[c].new \notin live[s]
        /\ \A i \in Invitations : enr[i].key # req[c].new
        /\ \A d \in Clients : req[d].old # req[c].new
        /\ \A d \in Clients : d # c /\ Carries(d) => req[d].new # req[c].new

\* What a request q has read is still so where it matters.
Remembers(q) ==
    /\ q.old \in spent \cup {None}
    /\ q.step \in {"reserve", "invite"} => q.slug \in Slugs /\ q.inv \in Invitations
    /\ q.step \in {"late", "submit"} => q.inv \in Invitations /\ inv[q.inv].state # "absent"
    /\ q.step \in {"release", "vacant"} => q.slug \in Slugs
    /\ q.step \in {"approve", "recover", "reject"} =>
          /\ q.inv \in Invitations /\ q.slug \in Slugs
          /\ enr[q.inv].state # "absent"
          /\ q.new = enr[q.inv].key
          /\ q.slug = inv[q.inv].slug
          /\ q.step = "approve" => inv[q.inv].purpose = "enroll"
          /\ q.step = "recover" => inv[q.inv].purpose = "recover" /\ agent[q.slug] # "absent"
    /\ q.step = "rotate" =>
          /\ q.slug \in Slugs
          /\ agent[q.slug] = "revoked" => q.old \notin live[q.slug]
          /\ q.old \in spent
          /\ \A i \in Invitations : enr[i].key = q.old => enr[i].state = "approved"

ReadsInv == \A c \in Clients : Remembers(req[c])

EnrollmentPromises ==
    /\ EnrollmentTypeOK /\ OneLiveKey /\ OneOpenInvitation
    /\ UnapprovedKeyIsDead /\ OneInitialApproval /\ RevokedAgentKeys

EnrollmentInv == EnrollmentPromises /\ RowsInv /\ KeysInv /\ CarriedInv /\ ReadsInv

-------------------------------------------------------------------------------
(* Steps that only read *)

\* The rows and requests are records of their types.
LEMMA EnrollmentTypes ==
    ASSUME EnrollmentInv
    PROVE  /\ inv \in [Invitations -> Invitation] /\ enr \in [Invitations -> Enrollment]
           /\ agent \in [Slugs -> {"absent", "active", "suspended", "revoked"}]
           /\ live \in [Slugs -> SUBSET Keys] /\ spent \subseteq Keys
           /\ req \in [Clients -> Request]
           /\ resv \in [Slugs -> {"absent", "reserved", "claimed", "released"}]
  BY DEF EnrollmentInv, EnrollmentPromises, EnrollmentTypeOK

\* The empty request remembers nothing.
LEMMA NoRequestFact ==
    /\ NoRequest \in Request /\ NoRequest.step = "none" /\ NoRequest.old = None
    /\ Remembers(NoRequest)
  BY DEF NoRequest, Asks, Request, Remembers

\* A request that reads: it becomes q, and at most a new key is generated.
LEMMA AskKeeps ==
    ASSUME EnrollmentInv, NEW c \in Clients, NEW q \in Request,
           req' = [req EXCEPT ![c] = q], UNCHANGED <<inv, enr, agent, live>>,
           resv' \in [Slugs -> {"absent", "reserved", "claimed", "released"}],
           \/ spent' = spent /\ q.step \notin {"submit", "late", "rotate"}
           \/ q.new \in Keys \ spent /\ spent' = spent \cup {q.new},
           Remembers(q), \A d \in Clients : Carries(d) => q.old # req[d].new
    PROVE  EnrollmentInv'
  <1>T. /\ spent \subseteq Keys /\ req \in [Clients -> Request] /\ live \in [Slugs -> SUBSET Keys]
        /\ spent' \subseteq Keys /\ spent \subseteq spent'
        /\ req'[c] = q /\ \A d \in Clients \ {c} : req'[d] = req[d]
    BY EnrollmentTypes
  <1>1. EnrollmentPromises'
    BY <1>T DEF EnrollmentInv, EnrollmentPromises, EnrollmentTypeOK, OneLiveKey, OneOpenInvitation,
                Active, UnapprovedKeyIsDead, OneInitialApproval, RevokedAgentKeys, EnrollmentRow
  <1>2. RowsInv' /\ KeysInv'
    BY <1>T DEF EnrollmentInv, RowsInv, KeysInv
  <1>3. ReadsInv'
    BY <1>T DEF EnrollmentInv, ReadsInv, Remembers
  <1>4. CarriedInv'
    <2>1. \A d \in Clients : req[d].old \in spent \cup {None} /\ q.old \in spent \cup {None}
      BY DEF EnrollmentInv, ReadsInv, Remembers
    <2>2. \A d \in Clients \ {c} : Carries(d)' <=> Carries(d)
      BY <1>T DEF Carries
    <2>3. CASE q.step \notin {"submit", "late", "rotate"}
      <3>1. ~Carries(c)'
        BY <1>T, <2>3 DEF Carries
      <3>2. \A d \in Clients : Carries(d)' => d # c /\ Carries(d) /\ req'[d] = req[d]
        BY <1>T, <2>2, <3>1
      <3>3. QED
        BY <1>T, <3>2 DEF EnrollmentInv, CarriedInv
    <2>4. CASE q.new \in Keys \ spent /\ spent' = spent \cup {q.new}
      <3>1. q.new # None
        BY <2>4, EnrollmentAssumption
      <3>2. \A d \in Clients : Carries(d) => req[d].new \in spent
        BY DEF EnrollmentInv, CarriedInv
      <3>3. \A i \in Invitations : enr[i].key # q.new
        BY <2>4, <3>1 DEF EnrollmentInv, KeysInv
      <3>4. \A s \in Slugs : q.new \notin live[s]
        BY <2>4 DEF EnrollmentInv, KeysInv
      <3>5. \A d \in Clients : req'[d].old # q.new
        BY <1>T, <2>1, <2>4, <3>1
      <3>6. ASSUME NEW d \in Clients \ {c}, Carries(d)'
            PROVE  /\ req'[d].new \in spent' /\ req'[d].new # q.new
                   /\ \A s \in Slugs : req'[d].new \notin live[s]
                   /\ \A i \in Invitations : enr[i].key # req'[d].new
                   /\ \A e \in Clients : req'[e].old # req'[d].new
                   /\ \A e \in Clients \ {c} : e # d /\ Carries(e)' => req'[e].new # req'[d].new
        <4>1. Carries(d) /\ req'[d] = req[d]
          BY <1>T, <2>2, <3>6
        <4>2. QED
          BY <1>T, <2>2, <2>4, <3>2, <4>1 DEF EnrollmentInv, CarriedInv
      <3>7. QED
        BY <1>T, <2>4, <3>3, <3>4, <3>5, <3>6 DEF CarriedInv
    <2>5. QED
      BY <2>3, <2>4
  <1>5. QED
    BY <1>1, <1>2, <1>3, <1>4 DEF EnrollmentInv

\* Every step that reads, for the request it leaves behind.
LEMMA ReadsKeep ==
    ASSUME EnrollmentInv, NEW c \in Clients,
           \/ \E s \in Slugs, i \in Invitations : InviteReads(c, s, i) \/ RecoveryReads(c, s, i)
           \/ InviteReserves(c)
           \/ \E i \in Invitations, k \in Keys : SubmitReads(c, i, k)
           \/ \E i \in Invitations, step \in {"approve", "recover", "reject"} : DecideReads(c, i, step)
           \/ \E s \in Slugs : ReleaseReads(c, s)
           \/ ReleaseChecks(c)
           \/ \E s \in Slugs, old, new \in Keys : RotateReads(c, s, old, new)
    PROVE  EnrollmentInv'
  <1>T. /\ req[c] \in Request /\ Remembers(req[c]) /\ spent \subseteq Keys
        /\ resv \in [Slugs -> {"absent", "reserved", "claimed", "released"}]
        /\ inv \in [Invitations -> Invitation] /\ enr \in [Invitations -> Enrollment]
        /\ live \in [Slugs -> SUBSET Keys]
    BY EnrollmentTypes DEF EnrollmentInv, ReadsInv
  <1>N. \A d \in Clients : Carries(d) => req[d].new # None
    BY <1>T, EnrollmentAssumption DEF EnrollmentInv, CarriedInv
  <1>1. ASSUME NEW s \in Slugs, NEW i \in Invitations, InviteReads(c, s, i) \/ RecoveryReads(c, s, i)
        PROVE  EnrollmentInv'
    <2>1. PICK step \in {"reserve", "invite"}, purpose \in {"enroll", "recover"} :
             req' = [req EXCEPT ![c] = Asks(step, s, i, purpose, None, None)]
      BY <1>1 DEF InviteReads, RecoveryReads, AgentReads
    <2> DEFINE q == Asks(step, s, i, purpose, None, None)
    <2>2. q \in Request /\ Remembers(q) /\ q.step \notin {"submit", "late", "rotate"} /\ q.old = None
      BY DEF Asks, Request, Remembers
    <2>3. UNCHANGED <<resv, inv, enr, agent, live, spent>>
      BY <1>1 DEF InviteReads, RecoveryReads
    <2> HIDE DEF q
    <2>4. req' = [req EXCEPT ![c] = q]
      BY <2>1 DEF q
    <2>5. QED
      BY <1>T, <1>N, <2>2, <2>3, <2>4, AskKeeps
  <1>2. CASE InviteReserves(c)
    <2> DEFINE q == Asks("invite", req[c].slug, req[c].inv, "enroll", None, None)
    <2>1. q \in Request /\ Remembers(q) /\ q.step \notin {"submit", "late", "rotate"} /\ q.old = None
      BY <1>T, <1>2 DEF Asks, Request, Remembers, InviteReserves
    <2>2. /\ UNCHANGED <<inv, enr, agent, live, spent>>
          /\ resv' \in [Slugs -> {"absent", "reserved", "claimed", "released"}]
      BY <1>T, <1>2 DEF InviteReserves
    <2>3. req' = [req EXCEPT ![c] = q]
      BY <1>2 DEF InviteReserves
    <2> HIDE DEF q
    <2>4. QED
      BY <1>T, <1>N, <2>1, <2>2, <2>3, AskKeeps
  <1>3. ASSUME NEW i \in Invitations, NEW k \in Keys, SubmitReads(c, i, k) PROVE EnrollmentInv'
    <2>1. PICK step \in {"late", "submit"} :
             req' = [req EXCEPT ![c] = Asks(step, inv[i].slug, i, inv[i].purpose, None, k)]
      BY <1>3 DEF SubmitReads, AgentReads
    <2> DEFINE q == Asks(step, inv[i].slug, i, inv[i].purpose, None, k)
    <2>2. /\ UNCHANGED <<resv, inv, enr, agent, live>> /\ spent' = spent \cup {k} /\ k \notin spent
          /\ inv[i].state = "open"
      BY <1>3 DEF SubmitReads, Fresh
    <2>3. q \in Request /\ Remembers(q) /\ q.new = k /\ q.old = None
      BY <1>T, <2>2 DEF Asks, Request, Remembers, Invitation
    <2>4. req' = [req EXCEPT ![c] = q]
      BY <2>1
    <2> HIDE DEF q
    <2>5. QED
      BY <1>T, <1>N, <2>2, <2>3, <2>4, AskKeeps
  <1>4. ASSUME NEW i \in Invitations, NEW step \in {"approve", "recover", "reject"},
               DecideReads(c, i, step)
        PROVE  EnrollmentInv'
    <2> DEFINE q == Asks(step, inv[i].slug, i, inv[i].purpose, None, enr[i].key)
    <2>1. /\ UNCHANGED <<resv, inv, enr, agent, live, spent>> /\ req' = [req EXCEPT ![c] = q]
          /\ enr[i].state = "pending"
          /\ step = "approve" => inv[i].purpose = "enroll"
          /\ step = "recover" => inv[i].purpose = "recover" /\ agent[inv[i].slug] # "absent"
      BY <1>4 DEF DecideReads, AgentReads
    <2>2. inv[i].slug \in Slugs
      BY <2>1 DEF EnrollmentInv, RowsInv
    <2>3. q \in Request /\ Remembers(q) /\ q.old = None /\ q.step \notin {"submit", "late", "rotate"}
      BY <1>T, <2>1, <2>2 DEF Asks, Request, Remembers, Invitation, Enrollment
    <2> HIDE DEF q
    <2>4. QED
      BY <1>T, <1>N, <2>1, <2>3, AskKeeps
  <1>5. ASSUME NEW s \in Slugs, ReleaseReads(c, s) PROVE EnrollmentInv'
    <2> DEFINE q == Asks("release", s, None, "enroll", None, None)
    <2>1. UNCHANGED <<resv, inv, enr, agent, live, spent>> /\ req' = [req EXCEPT ![c] = q]
      BY <1>5 DEF ReleaseReads, AgentReads
    <2>2. q \in Request /\ Remembers(q) /\ q.old = None /\ q.step \notin {"submit", "late", "rotate"}
      BY DEF Asks, Request, Remembers
    <2> HIDE DEF q
    <2>3. QED
      BY <1>T, <1>N, <2>1, <2>2, AskKeeps
  <1>6. CASE ReleaseChecks(c)
    <2>1. PICK q \in {Asks("vacant", req[c].slug, None, "enroll", None, None), NoRequest} :
             req' = [req EXCEPT ![c] = q]
      BY <1>6 DEF ReleaseChecks
    <2>2. UNCHANGED <<resv, inv, enr, agent, live, spent>> /\ req[c].step = "release"
      BY <1>6 DEF ReleaseChecks
    <2>3. q \in Request /\ Remembers(q) /\ q.old = None /\ q.step \notin {"submit", "late", "rotate"}
      BY <1>T, <2>2, NoRequestFact DEF Asks, Request, Remembers
    <2>4. QED
      BY <1>T, <1>N, <2>1, <2>2, <2>3, AskKeeps
  <1>7. ASSUME NEW s \in Slugs, NEW old \in Keys, NEW new \in Keys, RotateReads(c, s, old, new)
        PROVE  EnrollmentInv'
    <2> DEFINE q == Asks("rotate", s, None, "enroll", old, new)
    <2>1. /\ UNCHANGED <<resv, inv, enr, agent, live>> /\ req' = [req EXCEPT ![c] = q]
          /\ spent' = spent \cup {new} /\ new \notin spent /\ agent[s] = "active" /\ old \in live[s]
      BY <1>7 DEF RotateReads, AgentReads, Fresh
    <2>2. old \in spent /\ \A i \in Invitations : enr[i].key = old => enr[i].state = "approved"
      BY <2>1 DEF EnrollmentInv, KeysInv, EnrollmentPromises, UnapprovedKeyIsDead
    <2>3. q \in Request /\ Remembers(q) /\ q.new = new /\ q.old = old
      BY <1>T, <2>1, <2>2 DEF Asks, Request, Remembers
    <2>4. \A d \in Clients : Carries(d) => q.old # req[d].new
      BY <2>1, <2>3 DEF EnrollmentInv, CarriedInv
    <2> HIDE DEF q
    <2>5. QED
      BY <1>T, <2>1, <2>3, <2>4, AskKeeps
  <1>8. QED
    BY <1>1, <1>2, <1>3, <1>4, <1>5, <1>6, <1>7

-------------------------------------------------------------------------------
(* Steps that write *)

\* The request that has written is over; the others are as they were.
LEMMA DoneFacts ==
    ASSUME EnrollmentInv, NEW c \in Clients, Done(c), spent' = spent
    PROVE  /\ req' \in [Clients -> Request]
           /\ \A d \in Clients : req'[d] = IF d = c THEN NoRequest ELSE req[d]
           /\ \A d \in Clients : Carries(d)' <=> d # c /\ Carries(d)
           /\ \A d \in Clients : Carries(d) => req[d].new \in spent /\ req[d].new # None
           /\ \A d \in Clients : req[d].old \in spent \cup {None}
  <1>1. req \in [Clients -> Request] /\ spent \subseteq Keys /\ None \notin spent
    BY EnrollmentTypes, EnrollmentAssumption
  <1>2. /\ \A d \in Clients : Carries(d) => req[d].new \in spent /\ req[d].new # None
        /\ \A d \in Clients : req[d].old \in spent \cup {None}
    BY <1>1 DEF EnrollmentInv, CarriedInv, ReadsInv, Remembers
  <1>3. req' \in [Clients -> Request] /\ \A d \in Clients : req'[d] = IF d = c THEN NoRequest ELSE req[d]
    BY <1>1, NoRequestFact DEF Done
  <1>4. \A d \in Clients : Carries(d)' <=> d # c /\ Carries(d)
    BY <1>3, NoRequestFact DEF Carries
  <1>5. QED
    BY <1>2, <1>3, <1>4

\* A request on its way keeps its key to itself when the others take none of it.
LEMMA DoneCarried ==
    ASSUME EnrollmentInv, NEW c \in Clients, Done(c), spent' = spent,
           \A d \in Clients \ {c} : Carries(d) =>
              /\ \A s \in Slugs : req[d].new \notin live'[s]
              /\ \A i \in Invitations : enr'[i].key # req[d].new
    PROVE  CarriedInv'
  BY DoneFacts, NoRequestFact DEF EnrollmentInv, CarriedInv

\* The others remember what the step left true.
LEMMA DoneReads ==
    ASSUME EnrollmentInv, NEW c \in Clients, Done(c), spent' = spent,
           \A q \in Request : (\E d \in Clients \ {c} : q = req[d]) => Remembers(q)'
    PROVE  ReadsInv'
  <1>1. Remembers(NoRequest)'
    BY NoRequestFact DEF Remembers
  <1>2. QED
    BY <1>1, DoneFacts, NoRequestFact, EnrollmentTypes DEF ReadsInv

\* A request that ends without writing, or writes a reservation only.
LEMMA EndKeeps ==
    ASSUME EnrollmentInv, NEW c \in Clients, Done(c), UNCHANGED <<inv, enr, agent, live, spent>>,
           resv' \in [Slugs -> {"absent", "reserved", "claimed", "released"}]
    PROVE  EnrollmentInv'
  <1>1. EnrollmentPromises' /\ RowsInv' /\ KeysInv'
    BY DoneFacts
       DEF EnrollmentInv, EnrollmentPromises, EnrollmentTypeOK, OneLiveKey, OneOpenInvitation, Active,
           UnapprovedKeyIsDead, OneInitialApproval, RevokedAgentKeys, EnrollmentRow, RowsInv, KeysInv
  <1>2. CarriedInv'
    BY DoneCarried DEF EnrollmentInv, CarriedInv
  <1>3. ReadsInv'
    BY DoneReads DEF EnrollmentInv, ReadsInv, Remembers
  <1>4. QED
    BY <1>1, <1>2, <1>3 DEF EnrollmentInv

\* create_invitation and create_recovery_invitation, the writing half.
LEMMA InviteWritesKeeps ==
    ASSUME EnrollmentInv, NEW c \in Clients, InviteWrites(c)
    PROVE  EnrollmentInv'
  <1>T. /\ inv \in [Invitations -> Invitation] /\ req[c] \in Request /\ Remembers(req[c])
        /\ Done(c) /\ UNCHANGED <<resv, enr, agent, live, spent>> /\ req[c].step = "invite"
    BY EnrollmentTypes DEF InviteWrites, EnrollmentInv, ReadsInv
  <1>1. CASE ~MayInvite(c)
    BY <1>T, <1>1, EnrollmentTypes, EndKeeps DEF InviteWrites
  <1>2. CASE MayInvite(c)
    <2> DEFINE i == req[c].inv
    <2>1. /\ i \in Invitations /\ req[c].slug \in Slugs /\ inv[i].state = "absent"
          /\ req[c].purpose \in {"enroll", "recover"}
      BY <1>T, <1>2 DEF Remembers, MayInvite, Request
    <2>2. /\ inv' \in [Invitations -> Invitation]
          /\ inv'[i] = InvitationRow(req[c].slug, req[c].purpose, "open", FALSE)
          /\ \A j \in Invitations \ {i} :
                /\ inv'[j].slug = inv[j].slug /\ inv'[j].purpose = inv[j].purpose
                /\ \/ inv'[j].state = inv[j].state /\ inv'[j].late = inv[j].late
                   \/ inv[j].state = "open" /\ inv[j].late /\ inv'[j].state = "expired"
      BY <1>T, <1>2, <2>1 DEF InviteWrites, InvitationRow, Invitation
    <2>3. enr[i].state = "absent" /\ enr[i].key = None
      BY <2>1 DEF EnrollmentInv, RowsInv, KeysInv
    <2>4. OneOpenInvitation'
      <3>1. \A j \in Invitations \ {i} : Active(j)' => Active(j) /\ inv'[j].slug = inv[j].slug
        BY <2>2 DEF Active
      <3>2. \A j \in Invitations \ {i} : Active(j)' => inv'[j].slug # req[c].slug
        BY <1>2, <3>1 DEF MayInvite, InvitationsOf
      <3>3. inv'[i].slug = req[c].slug
        BY <2>2 DEF InvitationRow
      <3>4. QED
        BY <3>1, <3>2, <3>3 DEF EnrollmentInv, EnrollmentPromises, OneOpenInvitation
    <2>5. EnrollmentTypeOK' /\ OneLiveKey' /\ UnapprovedKeyIsDead'
      BY <1>T, <2>2, DoneFacts
         DEF EnrollmentInv, EnrollmentPromises, EnrollmentTypeOK, OneLiveKey, UnapprovedKeyIsDead
    <2>6. OneInitialApproval' /\ RevokedAgentKeys'
      BY <1>T, <2>2, <2>3
         DEF EnrollmentInv, EnrollmentPromises, OneInitialApproval, RevokedAgentKeys, EnrollmentRow
    <2>7. RowsInv' /\ KeysInv'
      BY <1>T, <2>1, <2>2, <2>3 DEF EnrollmentInv, RowsInv, KeysInv, InvitationRow
    <2>8. CarriedInv'
      BY <1>T, DoneCarried DEF EnrollmentInv, CarriedInv
    <2>9. ReadsInv'
      BY <1>T, <2>1, <2>2, <2>3, DoneReads DEF EnrollmentInv, ReadsInv, Remembers, InvitationRow
    <2>10. QED
      BY <2>4, <2>5, <2>6, <2>7, <2>8, <2>9 DEF EnrollmentInv, EnrollmentPromises
  <1>3. QED
    BY <1>1, <1>2

\* An invitation that is there moves on: it never opens again.
LEMMA InvitationMoves ==
    ASSUME EnrollmentInv, NEW i \in Invitations, NEW row \in Invitation,
           inv' = [inv EXCEPT ![i] = row], inv[i].state # "absent",
           row.slug = inv[i].slug, row.purpose = inv[i].purpose, row.state # "absent",
           row.state = "open" => inv[i].state = "open" /\ row.late = TRUE,
           UNCHANGED <<resv, enr, agent, live, spent>>
    PROVE  /\ req' \in [Clients -> Request] => EnrollmentTypeOK'
           /\ OneLiveKey' /\ OneOpenInvitation' /\ UnapprovedKeyIsDead' /\ OneInitialApproval'
           /\ RevokedAgentKeys' /\ RowsInv' /\ KeysInv'
           /\ inv' \in [Invitations -> Invitation]
           /\ \A q \in Request : Remembers(q) => Remembers(q)'
  <1>1. /\ inv' \in [Invitations -> Invitation]
        /\ \A j \in Invitations : /\ inv'[j].slug = inv[j].slug /\ inv'[j].purpose = inv[j].purpose
                                  /\ inv'[j].state = "absent" <=> inv[j].state = "absent"
                                  /\ inv'[j].state = "open" => inv[j].state = "open"
                                  /\ Active(j)' => Active(j)
    BY EnrollmentTypes DEF Active
  <1>2. (req' \in [Clients -> Request] => EnrollmentTypeOK') /\ OneLiveKey'
    BY <1>1 DEF EnrollmentInv, EnrollmentPromises, EnrollmentTypeOK, OneLiveKey
  <1>3. OneOpenInvitation'
    BY <1>1 DEF EnrollmentInv, EnrollmentPromises, OneOpenInvitation
  <1>4. UnapprovedKeyIsDead' /\ OneInitialApproval' /\ RevokedAgentKeys'
    BY <1>1 DEF EnrollmentInv, EnrollmentPromises, UnapprovedKeyIsDead, OneInitialApproval,
                RevokedAgentKeys, EnrollmentRow
  <1>5. RowsInv' /\ KeysInv'
    BY <1>1 DEF EnrollmentInv, RowsInv, KeysInv
  <1>6. \A q \in Request : Remembers(q) => Remembers(q)'
    BY <1>1 DEF Remembers
  <1>7. QED
    BY <1>1, <1>2, <1>3, <1>4, <1>5, <1>6

\* Time and maintainers take an invitation away; no request moves.
LEMMA LapsesAndRevocationsKeep ==
    ASSUME EnrollmentInv, NEW i \in Invitations, Lapses(i) \/ RevokeInvitation(i)
    PROVE  EnrollmentInv'
  <1>1. PICK row \in Invitation :
             /\ inv' = [inv EXCEPT ![i] = row] /\ inv[i].state = "open"
             /\ row.slug = inv[i].slug /\ row.purpose = inv[i].purpose
             /\ row.state \in {"open", "revoked"} /\ (row.state = "open" => row.late = TRUE)
    <2>1. inv[i] \in Invitation
      BY EnrollmentTypes
    <2>2. CASE Lapses(i)
      <3> DEFINE r == InvitationRow(inv[i].slug, inv[i].purpose, "open", TRUE)
      <3>1. r \in Invitation
        BY <2>1 DEF InvitationRow, Invitation
      <3>2. /\ inv' = [inv EXCEPT ![i] = r] /\ inv[i].state = "open" /\ r.slug = inv[i].slug
            /\ r.purpose = inv[i].purpose /\ r.state = "open" /\ r.late = TRUE
        BY <2>2 DEF Lapses, Active, InvitationRow
      <3> HIDE DEF r
      <3> WITNESS r \in Invitation
      <3>3. QED
        BY <3>2
    <2>3. CASE RevokeInvitation(i)
      <3> DEFINE r == InvitationRow(inv[i].slug, inv[i].purpose, "revoked", inv[i].late)
      <3>1. r \in Invitation
        BY <2>1 DEF InvitationRow, Invitation
      <3>2. /\ inv' = [inv EXCEPT ![i] = r] /\ inv[i].state = "open" /\ r.slug = inv[i].slug
            /\ r.purpose = inv[i].purpose /\ r.state = "revoked"
        BY <2>3 DEF RevokeInvitation, InvitationRow
      <3> HIDE DEF r
      <3> WITNESS r \in Invitation
      <3>3. QED
        BY <3>2
    <2>4. QED
      BY <2>2, <2>3
  <1>2. UNCHANGED <<resv, enr, agent, live, spent, req>>
    BY DEF Lapses, RevokeInvitation
  <1>3. ReadsInv' /\ CarriedInv'
    BY <1>1, <1>2, InvitationMoves, EnrollmentTypes DEF EnrollmentInv, ReadsInv, CarriedInv, Carries
  <1>4. QED
    BY <1>1, <1>2, <1>3, InvitationMoves, EnrollmentTypes DEF EnrollmentInv, EnrollmentPromises

\* A late invitation is marked, whatever it has become.
LEMMA SubmitMarksLateKeeps ==
    ASSUME EnrollmentInv, NEW c \in Clients, SubmitMarksLate(c)
    PROVE  EnrollmentInv'
  <1> DEFINE i == req[c].inv
             row == InvitationRow(inv[i].slug, inv[i].purpose, "expired", TRUE)
  <1>1. i \in Invitations /\ inv[i].state # "absent"
    BY DEF SubmitMarksLate, EnrollmentInv, ReadsInv, Remembers
  <1>2. row \in Invitation
    BY <1>1, EnrollmentTypes DEF InvitationRow, Invitation
  <1>3. /\ inv' = [inv EXCEPT ![i] = row] /\ Done(c) /\ UNCHANGED <<resv, enr, agent, live, spent>>
        /\ row.slug = inv[i].slug /\ row.purpose = inv[i].purpose /\ row.state = "expired"
    BY DEF SubmitMarksLate, InvitationRow
  <1> HIDE DEF i, row
  <1>4. CarriedInv'
    BY <1>3, DoneCarried DEF EnrollmentInv, CarriedInv
  <1>5. ReadsInv'
    BY <1>1, <1>2, <1>3, InvitationMoves, DoneReads DEF EnrollmentInv, ReadsInv
  <1>6. QED
    BY <1>1, <1>2, <1>3, <1>4, <1>5, InvitationMoves, DoneFacts DEF EnrollmentInv, EnrollmentPromises

\* submit_enrollment: the key that was on its way is now proposed.
LEMMA SubmitWritesKeeps ==
    ASSUME EnrollmentInv, NEW c \in Clients, SubmitWrites(c)
    PROVE  EnrollmentInv'
  <1> DEFINE i == req[c].inv
             k == req[c].new
  <1>1. /\ i \in Invitations /\ Done(c) /\ UNCHANGED <<resv, agent, live, spent>> /\ Carries(c)
        /\ spent \subseteq Keys /\ None \notin spent /\ k \in spent
    BY EnrollmentTypes, EnrollmentAssumption
       DEF SubmitWrites, EnrollmentInv, ReadsInv, Remembers, Carries, CarriedInv
  <1>2. CASE ~Active(i)
    BY <1>1, <1>2, EnrollmentTypes, EndKeeps DEF SubmitWrites
  <1>3. CASE Active(i)
    <2>1. /\ inv' = [inv EXCEPT ![i] = InvitationRow(@.slug, @.purpose, "consumed", FALSE)]
          /\ enr' = [enr EXCEPT ![i] = EnrollmentRow("pending", k)]
      BY <1>3 DEF SubmitWrites
    <2>2. /\ \A s \in Slugs : k \notin live[s]
          /\ \A j \in Invitations : enr[j].key # k
          /\ \A d \in Clients : req[d].old # k
          /\ \A d \in Clients \ {c} : Carries(d) => req[d].new # k
      BY <1>1 DEF EnrollmentInv, CarriedInv
    <2> HIDE DEF k, i
    <2>3. inv[i].state = "open" /\ enr[i].state = "absent"
      BY <1>1, <1>3 DEF Active, EnrollmentInv, RowsInv
    <2>4. /\ inv' \in [Invitations -> Invitation] /\ enr' \in [Invitations -> Enrollment]
          /\ inv'[i].state = "consumed" /\ enr'[i].state = "pending" /\ enr'[i].key = k
          /\ \A j \in Invitations : inv'[j].slug = inv[j].slug /\ inv'[j].purpose = inv[j].purpose
          /\ \A j \in Invitations \ {i} : inv'[j] = inv[j] /\ enr'[j] = enr[j]
      BY <1>1, <2>1, EnrollmentTypes DEF InvitationRow, EnrollmentRow, Invitation, Enrollment
    <2>5. EnrollmentTypeOK' /\ OneLiveKey' /\ OneOpenInvitation'
      BY <1>1, <2>4, DoneFacts
         DEF EnrollmentInv, EnrollmentPromises, EnrollmentTypeOK, OneLiveKey, OneOpenInvitation, Active
    <2>6. UnapprovedKeyIsDead' /\ OneInitialApproval'
      BY <1>1, <2>2, <2>4 DEF EnrollmentInv, EnrollmentPromises, UnapprovedKeyIsDead, OneInitialApproval
    <2>7. RevokedAgentKeys'
      BY <1>1, <2>3, <2>4 DEF EnrollmentInv, EnrollmentPromises, RevokedAgentKeys, EnrollmentRow
    <2>8. RowsInv' /\ KeysInv'
      BY <1>1, <2>2, <2>3, <2>4 DEF EnrollmentInv, RowsInv, KeysInv
    <2>9. CarriedInv'
      BY <1>1, <2>2, <2>4, DoneCarried DEF EnrollmentInv, CarriedInv
    <2>10. ReadsInv'
      BY <1>1, <2>2, <2>3, <2>4, DoneReads DEF EnrollmentInv, ReadsInv, Remembers
    <2>11. QED
      BY <2>5, <2>6, <2>7, <2>8, <2>9, <2>10 DEF EnrollmentInv, EnrollmentPromises
  <1>4. QED
    BY <1>2, <1>3

\* What a request that is about to decide knows.
LEMMA DeciderFacts ==
    ASSUME EnrollmentInv, NEW c \in Clients, req[c].step \in {"approve", "recover", "reject"},
           Undecided(c)
    PROVE  /\ req[c].inv \in Invitations /\ req[c].slug \in Slugs
           /\ req[c].new = enr[req[c].inv].key /\ req[c].slug = inv[req[c].inv].slug
           /\ enr[req[c].inv].state = "pending" /\ req[c].new \in spent /\ req[c].new \in Keys
           /\ \A s \in Slugs : req[c].new \notin live[s]
           /\ \A j \in Invitations \ {req[c].inv} : enr[j].key # req[c].new
           /\ \A d \in Clients : Carries(d) => req[d].new # req[c].new
           /\ \A d \in Clients : req[d].step = "rotate" => req[d].old # req[c].new
           /\ req[c].step = "approve" => inv[req[c].inv].purpose = "enroll"
           /\ req[c].step = "recover" => inv[req[c].inv].purpose = "recover" /\ agent[req[c].slug] # "absent"
  <1> DEFINE i == req[c].inv
             k == req[c].new
  <1>1. /\ i \in Invitations /\ req[c].slug \in Slugs /\ k = enr[i].key /\ req[c].slug = inv[i].slug
        /\ req[c].step = "approve" => inv[i].purpose = "enroll"
        /\ req[c].step = "recover" => inv[i].purpose = "recover" /\ agent[req[c].slug] # "absent"
        /\ enr[i].state = "pending"
    BY DEF EnrollmentInv, ReadsInv, Remembers, Undecided
  <1>2. k # None /\ k \in spent
    BY <1>1 DEF EnrollmentInv, KeysInv
  <1>3. \A s \in Slugs : k \notin live[s]
    BY <1>1 DEF EnrollmentInv, EnrollmentPromises, UnapprovedKeyIsDead
  <1>4. \A j \in Invitations \ {i} : enr[j].key # k
    BY <1>1, <1>2 DEF EnrollmentInv, KeysInv
  <1>5. \A d \in Clients : Carries(d) => req[d].new # k
    BY <1>1 DEF EnrollmentInv, CarriedInv
  <1>6. \A d \in Clients : req[d].step = "rotate" => req[d].old # k
    BY <1>1 DEF EnrollmentInv, ReadsInv, Remembers
  <1>7. QED
    BY <1>1, <1>2, <1>3, <1>4, <1>5, <1>6, EnrollmentTypes

\* A decision rewrites the state of one pending enrollment.
LEMMA DecideFacts ==
    ASSUME EnrollmentInv, NEW c \in Clients, req[c].inv \in Invitations,
           NEW state \in {"approved", "rejected"}, Decide(c, state)
    PROVE  /\ enr' \in [Invitations -> Enrollment]
           /\ enr'[req[c].inv].state = state
           /\ \A j \in Invitations : enr'[j].key = enr[j].key
           /\ \A j \in Invitations \ {req[c].inv} : enr'[j] = enr[j]
  BY EnrollmentTypes DEF Decide, EnrollmentRow, Enrollment

\* _reject_enrollment: the rejected key was never live.
LEMMA RejectWritesKeeps ==
    ASSUME EnrollmentInv, NEW c \in Clients, RejectWrites(c)
    PROVE  EnrollmentInv'
  <1>1. Done(c) /\ UNCHANGED <<resv, inv, agent, live, spent>> /\ req[c].step = "reject"
    BY DEF RejectWrites
  <1>2. CASE ~Undecided(c)
    BY <1>1, <1>2, EnrollmentTypes, EndKeeps DEF RejectWrites
  <1>3. CASE Undecided(c)
    <2> DEFINE i == req[c].inv
    <2>1. /\ i \in Invitations /\ enr[i].state = "pending"
          /\ \A s \in Slugs : enr[i].key \notin live[s]
          /\ \A d \in Clients : req[d].step = "rotate" => req[d].old # enr[i].key
      BY <1>1, <1>3, DeciderFacts
    <2>2. /\ enr' \in [Invitations -> Enrollment] /\ enr'[i].state = "rejected"
          /\ \A j \in Invitations : enr'[j].key = enr[j].key
          /\ \A j \in Invitations \ {i} : enr'[j] = enr[j]
      BY <1>3, <2>1, DecideFacts DEF RejectWrites
    <2> HIDE DEF i
    <2>3. EnrollmentTypeOK' /\ OneLiveKey' /\ OneOpenInvitation'
      BY <1>1, <2>2, DoneFacts
         DEF EnrollmentInv, EnrollmentPromises, EnrollmentTypeOK, OneLiveKey, OneOpenInvitation, Active
    <2>4. UnapprovedKeyIsDead' /\ OneInitialApproval'
      BY <1>1, <2>1, <2>2 DEF EnrollmentInv, EnrollmentPromises, UnapprovedKeyIsDead, OneInitialApproval
    <2>5. RevokedAgentKeys'
      BY <1>1, <2>1, <2>2 DEF EnrollmentInv, EnrollmentPromises, RevokedAgentKeys, EnrollmentRow
    <2>6. RowsInv' /\ KeysInv'
      BY <1>1, <2>1, <2>2 DEF EnrollmentInv, RowsInv, KeysInv
    <2>7. CarriedInv'
      BY <1>1, <2>2, DoneCarried DEF EnrollmentInv, CarriedInv
    <2>8. ReadsInv'
      BY <1>1, <2>1, <2>2, DoneReads DEF EnrollmentInv, ReadsInv, Remembers
    <2>9. QED
      BY <2>3, <2>4, <2>5, <2>6, <2>7, <2>8 DEF EnrollmentInv, EnrollmentPromises
  <1>4. QED
    BY <1>2, <1>3

\* _approve_initial_enrollment: the name was free, so it had no key and no
\* enrollment of its reservation had been approved.
LEMMA ApproveWritesKeeps ==
    ASSUME EnrollmentInv, NEW c \in Clients, ApproveWrites(c)
    PROVE  EnrollmentInv'
  <1> DEFINE i == req[c].inv
             s == req[c].slug
             k == req[c].new
  <1>1. Done(c) /\ UNCHANGED <<inv, spent>> /\ req[c].step = "approve"
    BY DEF ApproveWrites
  <1>2. CASE ~(Undecided(c) /\ NameFree(s))
    BY <1>1, <1>2, EnrollmentTypes, EndKeeps DEF ApproveWrites
  <1>3. CASE Undecided(c) /\ NameFree(s)
    <2>1. /\ i \in Invitations /\ s \in Slugs /\ k \in Keys /\ k \in spent
          /\ enr[i].state = "pending" /\ enr[i].key = k
          /\ inv[i].slug = s /\ inv[i].purpose = "enroll"
          /\ \A j \in Invitations \ {i} : enr[j].key # k
          /\ \A d \in Clients : Carries(d) => req[d].new # k
      BY <1>1, <1>3, DeciderFacts
    <2>2. /\ enr' \in [Invitations -> Enrollment] /\ enr'[i].state = "approved"
          /\ \A j \in Invitations : enr'[j].key = enr[j].key
          /\ \A j \in Invitations \ {i} : enr'[j] = enr[j]
      BY <1>3, <2>1, DecideFacts DEF ApproveWrites
    <2>3. agent[s] = "absent" /\ live[s] = {}
      BY <1>3, <2>1 DEF NameFree, EnrollmentInv, RowsInv
    <2>4. /\ agent' = [agent EXCEPT ![s] = "active"] /\ live' = [live EXCEPT ![s] = {k}]
          /\ resv' = [resv EXCEPT ![s] = "claimed"]
      BY <1>3, <2>1, <2>3, EnrollmentTypes DEF ApproveWrites
    <2>5. /\ agent' \in [Slugs -> {"absent", "active", "suspended", "revoked"}]
          /\ live' \in [Slugs -> SUBSET Keys]
          /\ resv' \in [Slugs -> {"absent", "reserved", "claimed", "released"}]
          /\ agent'[s] = "active" /\ live'[s] = {k}
          /\ \A t \in Slugs \ {s} : agent'[t] = agent[t] /\ live'[t] = live[t]
      BY <2>1, <2>4, EnrollmentTypes
    <2> HIDE DEF i, s, k
    <2>6. EnrollmentTypeOK' /\ OneLiveKey' /\ OneOpenInvitation'
      BY <1>1, <2>2, <2>5, DoneFacts
         DEF EnrollmentInv, EnrollmentPromises, EnrollmentTypeOK, OneLiveKey, OneOpenInvitation, Active
    <2>7. UnapprovedKeyIsDead' /\ RevokedAgentKeys'
      BY <1>1, <2>1, <2>2, <2>5
         DEF EnrollmentInv, EnrollmentPromises, UnapprovedKeyIsDead, RevokedAgentKeys, EnrollmentRow
    <2>8. OneInitialApproval'
      BY <1>1, <2>1, <2>2, <2>3 DEF EnrollmentInv, EnrollmentPromises, OneInitialApproval, RowsInv
    <2>9. RowsInv' /\ KeysInv'
      BY <1>1, <2>1, <2>2, <2>5 DEF EnrollmentInv, RowsInv, KeysInv
    <2>10. CarriedInv'
      BY <1>1, <2>1, <2>2, <2>5, DoneCarried DEF EnrollmentInv, CarriedInv
    <2>11. ReadsInv'
      BY <1>1, <2>1, <2>2, <2>5, DoneReads DEF EnrollmentInv, ReadsInv, Remembers
    <2>12. QED
      BY <2>6, <2>7, <2>8, <2>9, <2>10, <2>11 DEF EnrollmentInv, EnrollmentPromises
  <1>4. QED
    BY <1>2, <1>3

\* approve_recovery: the new key replaces whatever key the agent had.
LEMMA RecoverWritesKeeps ==
    ASSUME EnrollmentInv, NEW c \in Clients, RecoverWrites(c)
    PROVE  EnrollmentInv'
  <1> DEFINE i == req[c].inv
             s == req[c].slug
             k == req[c].new
  <1>1. Done(c) /\ UNCHANGED <<resv, inv, agent, spent>> /\ req[c].step = "recover"
    BY DEF RecoverWrites
  <1>2. CASE ~Undecided(c)
    BY <1>1, <1>2, EnrollmentTypes, EndKeeps DEF RecoverWrites
  <1>3. CASE Undecided(c)
    <2>1. /\ i \in Invitations /\ s \in Slugs /\ k \in Keys /\ k \in spent
          /\ enr[i].state = "pending" /\ enr[i].key = k
          /\ inv[i].slug = s /\ inv[i].purpose = "recover" /\ agent[s] # "absent"
          /\ \A j \in Invitations \ {i} : enr[j].key # k
          /\ \A d \in Clients : Carries(d) => req[d].new # k
          /\ \A d \in Clients : req[d].step = "rotate" => req[d].old # k
      BY <1>1, <1>3, DeciderFacts
    <2>2. /\ enr' \in [Invitations -> Enrollment] /\ enr'[i].state = "approved"
          /\ \A j \in Invitations : enr'[j].key = enr[j].key
          /\ \A j \in Invitations \ {i} : enr'[j] = enr[j]
      BY <1>3, <2>1, DecideFacts DEF RecoverWrites
    <2>3. live' = [live EXCEPT ![s] = {k}]
      BY <1>3 DEF RecoverWrites, Recovered
    <2>4. /\ live' \in [Slugs -> SUBSET Keys] /\ live'[s] = {k}
          /\ \A t \in Slugs \ {s} : live'[t] = live[t]
      BY <2>1, <2>3, EnrollmentTypes
    <2> HIDE DEF i, s, k
    <2>5. EnrollmentTypeOK' /\ OneLiveKey' /\ OneOpenInvitation'
      BY <1>1, <2>2, <2>4, DoneFacts
         DEF EnrollmentInv, EnrollmentPromises, EnrollmentTypeOK, OneLiveKey, OneOpenInvitation, Active
    <2>6. UnapprovedKeyIsDead' /\ OneInitialApproval'
      BY <1>1, <2>1, <2>2, <2>4 DEF EnrollmentInv, EnrollmentPromises, UnapprovedKeyIsDead, OneInitialApproval
    <2>7. RevokedAgentKeys'
      <3>1. enr'[i] = EnrollmentRow("approved", k)
        BY <2>1, <2>2 DEF Enrollment, EnrollmentRow
      <3>2. \A j \in Invitations, x \in Keys :
              enr[j] = EnrollmentRow("approved", x) => enr'[j] = EnrollmentRow("approved", x)
        BY <2>1, <2>2 DEF EnrollmentRow
      <3>3. QED
        BY <1>1, <2>1, <2>4, <3>1, <3>2, EnrollmentTypes
           DEF EnrollmentInv, EnrollmentPromises, RevokedAgentKeys
    <2>8. RowsInv' /\ KeysInv'
      BY <1>1, <2>1, <2>2, <2>4 DEF EnrollmentInv, RowsInv, KeysInv
    <2>9. CarriedInv'
      BY <1>1, <2>1, <2>2, <2>4, DoneCarried DEF EnrollmentInv, CarriedInv
    <2>10. ReadsInv'
      BY <1>1, <2>1, <2>2, <2>4, DoneReads DEF EnrollmentInv, ReadsInv, Remembers
    <2>11. QED
      BY <2>5, <2>6, <2>7, <2>8, <2>9, <2>10 DEF EnrollmentInv, EnrollmentPromises
  <1>4. QED
    BY <1>2, <1>3

\* rotate_agent_credential: the presented key was the agent's only one, and
\* the agent is not revoked.
LEMMA RotateWritesKeeps ==
    ASSUME EnrollmentInv, NEW c \in Clients, RotateWrites(c)
    PROVE  EnrollmentInv'
  <1> DEFINE s == req[c].slug
             k == req[c].new
  <1>1. /\ Done(c) /\ UNCHANGED <<resv, inv, enr, agent, spent>> /\ req[c].step = "rotate" /\ Carries(c)
        /\ s \in Slugs /\ k \in spent /\ k \in Keys
    BY EnrollmentTypes DEF RotateWrites, Carries, EnrollmentInv, ReadsInv, Remembers, CarriedInv
  <1>2. CASE ~StillPresented(c)
    BY <1>1, <1>2, EnrollmentTypes, EndKeeps DEF RotateWrites
  <1>3. CASE StillPresented(c)
    <2>1. /\ req[c].old \in live[s] /\ agent[s] # "revoked" /\ agent[s] # "absent"
      BY <1>1, <1>3 DEF StillPresented, EnrollmentInv, ReadsInv, Remembers, RowsInv
    <2>2. live[s] \ {req[c].old} = {}
      BY <1>1, <2>1 DEF EnrollmentInv, EnrollmentPromises, OneLiveKey
    <2>3. live' = [live EXCEPT ![s] = {k}]
      BY <1>1, <1>3, <2>2, EnrollmentTypes DEF RotateWrites
    <2>4. /\ live' \in [Slugs -> SUBSET Keys] /\ live'[s] = {k}
          /\ \A t \in Slugs \ {s} : live'[t] = live[t]
      BY <1>1, <2>3, EnrollmentTypes
    <2>5. /\ \A j \in Invitations : enr[j].key # k
          /\ \A d \in Clients : req[d].old # k
          /\ \A d \in Clients \ {c} : Carries(d) => req[d].new # k
      BY <1>1 DEF EnrollmentInv, CarriedInv
    <2> HIDE DEF s, k
    <2>6. EnrollmentTypeOK' /\ OneLiveKey' /\ OneOpenInvitation'
      BY <1>1, <2>4, DoneFacts
         DEF EnrollmentInv, EnrollmentPromises, EnrollmentTypeOK, OneLiveKey, OneOpenInvitation, Active
    <2>7. UnapprovedKeyIsDead' /\ OneInitialApproval' /\ RevokedAgentKeys'
      BY <1>1, <2>1, <2>4, <2>5
         DEF EnrollmentInv, EnrollmentPromises, UnapprovedKeyIsDead, OneInitialApproval, RevokedAgentKeys
    <2>8. RowsInv' /\ KeysInv'
      BY <1>1, <2>1, <2>4 DEF EnrollmentInv, RowsInv, KeysInv
    <2>9. CarriedInv'
      BY <1>1, <2>4, <2>5, DoneCarried DEF EnrollmentInv, CarriedInv
    <2>10. ReadsInv'
      BY <1>1, <2>1, <2>4, DoneReads DEF EnrollmentInv, ReadsInv, Remembers
    <2>11. QED
      BY <2>6, <2>7, <2>8, <2>9, <2>10 DEF EnrollmentInv, EnrollmentPromises
  <1>4. QED
    BY <1>2, <1>3

\* transition_agent: revoking an agent takes its keys with it.
LEMMA TransitionKeeps ==
    ASSUME EnrollmentInv, NEW s \in Slugs, NEW target \in {"active", "suspended", "revoked"},
           TransitionAgent(s, target)
    PROVE  EnrollmentInv'
  <1>1. UNCHANGED <<resv, inv, enr, spent, req>>
    BY DEF TransitionAgent
  <1>2. agent[s] # "absent" /\ agent[s] # "revoked"
    BY EnrollmentTypes DEF TransitionAgent, Transition
  <1>3. /\ agent' \in [Slugs -> {"absent", "active", "suspended", "revoked"}] /\ agent'[s] = target
        /\ live' \in [Slugs -> SUBSET Keys] /\ live'[s] \subseteq live[s]
        /\ target = "revoked" => live'[s] = {}
        /\ \A t \in Slugs \ {s} : agent'[t] = agent[t] /\ live'[t] = live[t]
    BY EnrollmentTypes DEF TransitionAgent, KeysAfter
  <1>4. EnrollmentTypeOK' /\ OneLiveKey' /\ OneOpenInvitation'
    BY <1>1, <1>3
       DEF EnrollmentInv, EnrollmentPromises, EnrollmentTypeOK, OneLiveKey, OneOpenInvitation, Active
  <1>5. UnapprovedKeyIsDead' /\ OneInitialApproval' /\ RevokedAgentKeys'
    BY <1>1, <1>2, <1>3
       DEF EnrollmentInv, EnrollmentPromises, UnapprovedKeyIsDead, OneInitialApproval, RevokedAgentKeys
  <1>6. RowsInv' /\ KeysInv'
    BY <1>1, <1>2, <1>3 DEF EnrollmentInv, RowsInv, KeysInv
  <1>7. CarriedInv'
    BY <1>1, <1>3 DEF EnrollmentInv, CarriedInv, Carries
  <1>8. ReadsInv'
    BY <1>1, <1>2, <1>3 DEF EnrollmentInv, ReadsInv, Remembers
  <1>9. QED
    BY <1>4, <1>5, <1>6, <1>7, <1>8 DEF EnrollmentInv, EnrollmentPromises

-------------------------------------------------------------------------------
(* Every behaviour *)

\* Nothing is invited, proposed or live at the start.
LEMMA EnrollmentStarts == EnrollmentInit => EnrollmentInv
  <1> SUFFICES ASSUME EnrollmentInit PROVE EnrollmentInv
    OBVIOUS
  <1>1. \A i \in Invitations : /\ inv[i] = InvitationRow(None, "enroll", "absent", FALSE)
                               /\ enr[i] = EnrollmentRow("absent", None)
    BY DEF EnrollmentInit
  <1>2. /\ \A s \in Slugs : resv[s] = "absent" /\ agent[s] = "absent" /\ live[s] = {}
        /\ \A c \in Clients : req[c] = NoRequest
        /\ spent = {}
    BY DEF EnrollmentInit
  <1>3. EnrollmentTypeOK
    BY NoRequestFact DEF EnrollmentInit, EnrollmentTypeOK, InvitationRow, Invitation, EnrollmentRow, Enrollment
  <1>4. OneLiveKey /\ OneOpenInvitation /\ UnapprovedKeyIsDead /\ OneInitialApproval /\ RevokedAgentKeys
    BY <1>1, <1>2 DEF OneLiveKey, OneOpenInvitation, Active, UnapprovedKeyIsDead, OneInitialApproval,
                      RevokedAgentKeys, InvitationRow, EnrollmentRow
  <1>5. RowsInv /\ KeysInv
    BY <1>1, <1>2 DEF RowsInv, KeysInv, InvitationRow, EnrollmentRow
  <1>6. CarriedInv /\ ReadsInv
    BY <1>2, NoRequestFact DEF CarriedInv, Carries, ReadsInv
  <1>7. QED
    BY <1>3, <1>4, <1>5, <1>6 DEF EnrollmentInv, EnrollmentPromises

\* Every request, maintainer and passing of time keeps the invariant.
LEMMA EnrollmentStep == EnrollmentInv /\ [EnrollmentNext]_enrollmentVars => EnrollmentInv'
  <1> SUFFICES ASSUME EnrollmentInv, [EnrollmentNext]_enrollmentVars PROVE EnrollmentInv'
    OBVIOUS
  <1>1. ASSUME NEW c \in Clients,
               \/ \E s \in Slugs, i \in Invitations : InviteReads(c, s, i) \/ RecoveryReads(c, s, i)
               \/ InviteReserves(c)
               \/ \E i \in Invitations, k \in Keys : SubmitReads(c, i, k)
               \/ \E i \in Invitations, step \in {"approve", "recover", "reject"} : DecideReads(c, i, step)
               \/ \E s \in Slugs : ReleaseReads(c, s)
               \/ ReleaseChecks(c)
               \/ \E s \in Slugs, old, new \in Keys : RotateReads(c, s, old, new)
        PROVE  EnrollmentInv'
    BY <1>1, ReadsKeep
  <1>2. ASSUME NEW c \in Clients, InviteWrites(c) PROVE EnrollmentInv'
    BY <1>2, InviteWritesKeeps
  <1>3. ASSUME NEW c \in Clients, SubmitMarksLate(c) \/ SubmitWrites(c) PROVE EnrollmentInv'
    BY <1>3, SubmitMarksLateKeeps, SubmitWritesKeeps
  <1>4. ASSUME NEW c \in Clients, ApproveWrites(c) \/ RecoverWrites(c) \/ RejectWrites(c)
        PROVE  EnrollmentInv'
    BY <1>4, ApproveWritesKeeps, RecoverWritesKeeps, RejectWritesKeeps
  <1>5. ASSUME NEW c \in Clients, ReleaseWrites(c) PROVE EnrollmentInv'
    <2>1. resv' \in [Slugs -> {"absent", "reserved", "claimed", "released"}]
      BY <1>5, EnrollmentTypes DEF ReleaseWrites
    <2>2. QED
      BY <1>5, <2>1, EndKeeps DEF ReleaseWrites
  <1>6. ASSUME NEW c \in Clients, RotateWrites(c) PROVE EnrollmentInv'
    BY <1>6, RotateWritesKeeps
  <1>7. ASSUME NEW i \in Invitations, Lapses(i) \/ RevokeInvitation(i) PROVE EnrollmentInv'
    BY <1>7, LapsesAndRevocationsKeep
  <1>8. ASSUME NEW s \in Slugs, NEW target \in {"active", "suspended", "revoked"},
               TransitionAgent(s, target)
        PROVE  EnrollmentInv'
    BY <1>8, TransitionKeeps
  <1>9. CASE UNCHANGED enrollmentVars
    BY <1>9 DEF enrollmentVars, EnrollmentInv, EnrollmentPromises, EnrollmentTypeOK, OneLiveKey,
                OneOpenInvitation, Active, UnapprovedKeyIsDead, OneInitialApproval, RevokedAgentKeys,
                RowsInv, KeysInv, CarriedInv, Carries, ReadsInv, Remembers
  <1>10. QED
    BY <1>1, <1>2, <1>3, <1>4, <1>5, <1>6, <1>7, <1>8, <1>9 DEF EnrollmentNext

\* Only a submission and the three decisions write an enrollment: the first
\* where there is none, the others where it is pending.
LEMMA EnrollmentsAreDecidedOnce ==
    EnrollmentInv /\ [EnrollmentNext]_enrollmentVars => DecisionsAreFinal
  <1> SUFFICES ASSUME EnrollmentInv, [EnrollmentNext]_enrollmentVars PROVE DecisionsAreFinal
    OBVIOUS
  <1>1. ASSUME NEW c \in Clients, SubmitWrites(c) PROVE DecisionsAreFinal
    <2>1. CASE Active(req[c].inv)
      <3>1. req[c].inv \in Invitations
        BY <1>1 DEF SubmitWrites, EnrollmentInv, ReadsInv, Remembers
      <3>2. enr[req[c].inv].state = "absent"
        BY <2>1, <3>1 DEF Active, EnrollmentInv, RowsInv
      <3>3. \A i \in Invitations \ {req[c].inv} : enr'[i] = enr[i]
        BY <1>1, <2>1, EnrollmentTypes DEF SubmitWrites
      <3>4. QED
        BY <3>2, <3>3 DEF DecisionsAreFinal
    <2>2. CASE ~Active(req[c].inv)
      BY <1>1, <2>2 DEF SubmitWrites, DecisionsAreFinal
    <2>3. QED
      BY <2>1, <2>2
  <1>2. ASSUME NEW c \in Clients, ApproveWrites(c) \/ RecoverWrites(c) \/ RejectWrites(c)
        PROVE  DecisionsAreFinal
    <2>1. \/ enr' = enr
          \/ Undecided(c) /\ \E state \in {"approved", "rejected"} : Decide(c, state)
      BY <1>2 DEF ApproveWrites, RecoverWrites, RejectWrites
    <2>2. CASE Undecided(c) /\ \E state \in {"approved", "rejected"} : Decide(c, state)
      <3>1. enr[req[c].inv].state = "pending"
        BY <2>2 DEF Undecided
      <3>2. \A i \in Invitations \ {req[c].inv} : enr'[i] = enr[i]
        BY <2>2, EnrollmentTypes DEF Decide
      <3>3. QED
        BY <3>1, <3>2 DEF DecisionsAreFinal
    <2>3. QED
      BY <2>1, <2>2 DEF DecisionsAreFinal
  <1>3. CASE UNCHANGED enr
    BY <1>3 DEF DecisionsAreFinal
  <1>4. QED
    BY <1>1, <1>2, <1>3
       DEF EnrollmentNext, InviteReads, RecoveryReads, InviteReserves, InviteWrites, SubmitReads,
           SubmitMarksLate, DecideReads, ReleaseReads, ReleaseChecks, ReleaseWrites, RotateReads,
           RotateWrites, Lapses, RevokeInvitation, TransitionAgent, enrollmentVars

\* The inductive invariant of agent enrollment.
THEOREM EnrollmentInvariant == EnrollmentSpec => []EnrollmentInv
  BY EnrollmentStarts, EnrollmentStep, PTL DEF EnrollmentSpec

\* However requests race (agent_service.py, agent_lifecycle.py): one open
\* invitation and one initial approval per name, at most one live key per agent,
\* none that was not approved, none of a revoked agent but a recovery's, and no
\* decision is ever changed.
THEOREM EnrollmentCorrect == EnrollmentSpec => EnrollmentIsSafe
  <1> DEFINE Good == /\ EnrollmentTypeOK /\ OneLiveKey /\ OneOpenInvitation
                     /\ UnapprovedKeyIsDead /\ OneInitialApproval /\ RevokedAgentKeys
  <1>1. EnrollmentInv /\ EnrollmentInv' /\ [EnrollmentNext]_enrollmentVars
          => [Good' /\ DecisionsAreFinal]_enrollmentVars
    BY EnrollmentsAreDecidedOnce DEF EnrollmentInv, EnrollmentPromises
  <1>2. QED
    BY EnrollmentInvariant, <1>1, PTL DEF EnrollmentSpec, EnrollmentIsSafe

-------------------------------------------------------------------------------
(* Side by side *)

\* The parts share no variable, so each runs as it would alone.
LEMMA PartsRunAlone == Spec => RateSpec /\ SessionSpec /\ AccessSpec /\ EnrollmentSpec
  <1>1. Init => RateInit /\ SessionInit /\ AccessInit /\ EnrollmentInit
    BY DEF Init
  <1>2. [Next]_<<part, accessVars, rateVars, sessionVars, enrollmentVars>>
          => /\ [RateNext]_rateVars /\ [SessionNext]_sessionVars
             /\ [AccessNext]_accessVars /\ [EnrollmentNext]_enrollmentVars
    BY DEF Next, Others
  <1>3. QED
    BY <1>1, <1>2, PTL DEF Spec, RateSpec, SessionSpec, AccessSpec, EnrollmentSpec

\* The same guarantees for the parts side by side, as the run checks them:
\* attempts are admitted and refused exactly as the window says, a session ends
\* with the password it proves, links keep their limits and enrollment is safe.
THEOREM GuardsCorrect == Spec => []LoginsAreGuarded /\ LinksKeepTheirLimits /\ EnrollmentIsSafe
  <1>1. RateIsExact /\ SessionsAreSound => LoginsAreGuarded
    BY DEF LoginsAreGuarded
  <1>2. QED
    BY PartsRunAlone, RateCorrect, SessionsCorrect, AccessCorrect, EnrollmentCorrect, <1>1, PTL
===============================================================================
