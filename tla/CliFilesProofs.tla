----------------------------- MODULE CliFilesProofs -----------------------------
(***************************************************************************)
(* Proofs about the commands that rewrite files in several steps           *)
(* (MCCliFiles and its five parts, AgentProfile), for any skills,          *)
(* registries, files, artifacts and keys, any number of commands, and a    *)
(* failure or a kill at any step.                                          *)
(***************************************************************************)
EXTENDS MCCliFiles, AgentProfile, FiniteSetTheorems, SequenceTheorems, TLAPS

-------------------------------------------------------------------------------
(* Installed skills: Install *)

TreeType == [v : {0} \cup {r.v : r \in Releases}, drift : BOOLEAN]

EntryRecords ==
    [v : Nat, reg : {"none"} \cup STRING, proof : {"signed", "none", "lost"}, state : {"verified", "drifted", "unknown"},
     checked : {"fresh", "stale"}]

EntryType ==
    {NoEntry} \cup
    {e \in EntryRecords : [v |-> e.v, reg |-> e.reg] \in Releases}

StepType == [skill : Skills, rel : Releases]

InstallTypes ==
    /\ tree \in [Skills -> TreeType] /\ prev \in TreeType /\ aside \subseteq Skills
    /\ entry \in [Skills -> EntryType]
    /\ history \in [Skills -> Seq(Releases)] /\ written \in [Skills -> Seq(Releases)]
    /\ inline \in [Skills -> Seq(Nat)] /\ archived \in [Skills -> Seq(Nat)] /\ over \in [Skills -> Seq(Nat)]
    /\ happened \in [Skills -> Nat] /\ gap \subseteq Skills
    /\ \A s \in Skills : Len(history[s]) <= HistoryMax /\ Len(inline[s]) <= InlineMax
    /\ excused \in [Skills -> {"no", "cut", "switch", "undone"}]
    /\ queue \in Seq(StepType) /\ forced \in BOOLEAN

\* Where a command may stand, and what it still has to do there.
StandsInv ==
    /\ cmd \in {"none", "install", "switch", "refresh"}
    /\ at \in {"idle", "stage", "swap", "drop", "manifest", "snapshot", "done", "undo", "unaside"}
    /\ at = "idle" <=> cmd = "none"
    /\ queue = <<>> <=> cmd \in {"none", "refresh"}
    /\ cmd = "refresh" => at \in {"manifest", "snapshot", "done"}
    /\ at \in {"undo", "unaside"} => cmd = "install"
    /\ at = "drop" => cmd = "switch"
    /\ at \in {"idle", "stage"} \/ queue = <<>> => prev = NoTree

\* A step may replace an edited tree.
MayReplace(s, rel) ==
    tree[s].drift =>
        forced \/ (cmd = "install" /\ s # Root /\ rel.reg # entry[s].reg) \/ entry[s].proof # "signed"

\* No skill is planned twice, and each step not yet begun may do what it will do.
PlanInv ==
    /\ \A i, j \in 1 .. Len(queue) : queue[i].skill = queue[j].skill => i = j
    /\ \A i \in 1 .. Len(queue) : i > 1 \/ at = "stage" => MayReplace(queue[i].skill, queue[i].rel)

\* The skill whose tree is being replaced.
Replacing(s) == queue # <<>> /\ s = Current /\ at # "stage"

\* The old tree of the current step is the one its entry names, and is not missing
\* unless it was before.
OldTree ==
    /\ excused[Current] = "no" => prev.v = entry[Current].v
    /\ entry[Current] # NoEntry /\ prev = NoTree => Current \in aside \/ excused[Current] = "undone"

\* What tree, entry and the transaction's own memory say of each other, wherever the command stands.
PlaceInv ==
    /\ \A s \in Skills : excused[s] = "no" /\ ~Replacing(s) => tree[s].v = entry[s].v
    /\ queue # <<>> /\ at \in {"drop", "manifest", "snapshot", "done"} => tree[Current].v = Target.v
    /\ queue # <<>> /\ at \in {"snapshot", "done"} => entry[Current].v = Target.v
    /\ at \in {"swap", "undo", "unaside"} \/ (at = "manifest" /\ cmd = "install") => OldTree
    /\ NothingLost

\* Events 1 to n, the first in a and the rest in i.
InOrder(a, i, n) ==
    /\ Len(a) + Len(i) = n
    /\ \A k \in 1 .. Len(a) : a[k] = k
    /\ \A k \in 1 .. Len(i) : i[k] = Len(a) + k

\* The latest events up to the n-th, max of them if there were as many.
Recent(i, n, max) ==
    /\ Len(i) = IF n > max THEN max ELSE n
    /\ \A k \in 1 .. Len(i) : i[k] = (n - Len(i)) + k

\* The manifest has the latest events, the snapshot (or what is to become it) only
\* earlier ones, and all of them unless the writing of a snapshot was cut short.
EventsInv ==
    \A s \in Skills :
        /\ Recent(inline[s], happened[s], InlineMax)
        /\ Ascending(archived[s], happened[s] - Len(inline[s]))
        /\ at = "snapshot" => Ascending(over[s], happened[s] - Len(inline[s]))
        /\ s \in gap \/ InOrder(IF at = "snapshot" THEN over[s] ELSE archived[s], inline[s], happened[s])

InstallInv ==
    InstallTypes /\ StandsInv /\ PlanInv /\ PlaceInv /\ HistoryIsRecent /\ EventsInv

(***************************************************************************)
(* Keeping the last of a list.                                             *)
(***************************************************************************)
\* The last n elements of a sequence, and what is before them.
LEMMA LastOfProperties ==
  ASSUME NEW S, NEW q \in Seq(S), NEW n \in Nat \ {0}
  PROVE  /\ LastOf(q, n) \in Seq(S) /\ BeforeLast(q, n) \in Seq(S)
         /\ Len(LastOf(q, n)) = IF Len(q) > n THEN n ELSE Len(q)
         /\ Len(BeforeLast(q, n)) = IF Len(q) > n THEN Len(q) - n ELSE 0
         /\ \A i \in 1 .. Len(LastOf(q, n)) : LastOf(q, n)[i] = q[Len(q) - Len(LastOf(q, n)) + i]
         /\ \A i \in 1 .. Len(BeforeLast(q, n)) : BeforeLast(q, n)[i] = q[i]
  <1>0. Len(q) \in Nat OBVIOUS
  <1>1. CASE Len(q) > n
    <2>1. LastOf(q, n) = SubSeq(q, 1 + (Len(q) - n), Len(q)) /\ BeforeLast(q, n) = SubSeq(q, 1, Len(q) - n)
      BY <1>1 DEF LastOf, BeforeLast
    <2>2. /\ 1 + (Len(q) - n) \in 1 .. Len(q) + 1 /\ Len(q) \in (1 + (Len(q) - n)) - 1 .. Len(q)
          /\ Len(q) - n \in 1 - 1 .. Len(q) /\ 1 \in 1 .. Len(q) + 1
      BY <1>0, <1>1
    <2> DEFINE L == SubSeq(q, 1 + (Len(q) - n), Len(q))
               B == SubSeq(q, 1, Len(q) - n)
    <2>3. L \in Seq(S) /\ Len(L) = n /\ \A i \in 1 .. n : L[i] = q[Len(q) - n + i]
      BY <1>0, <1>1, <2>2, SubSeqProperties
    <2>4. B \in Seq(S) /\ Len(B) = Len(q) - n /\ \A i \in 1 .. Len(q) - n : B[i] = q[i]
      BY <1>0, <1>1, <2>2, SubSeqProperties
    <2> HIDE DEF L, B
    <2> QED BY <1>0, <1>1, <2>1, <2>3, <2>4 DEF L, B
  <1>2. CASE ~(Len(q) > n)
    <2>1. LastOf(q, n) = SubSeq(q, 1, Len(q)) /\ BeforeLast(q, n) = SubSeq(q, 1, 0)
      BY <1>2 DEF LastOf, BeforeLast
    <2>2. LastOf(q, n) = q BY <2>1, SubSeqFull
    <2>3. BeforeLast(q, n) = <<>> BY <1>0, <2>1, SubSeqEmpty
    <2> QED BY <1>0, <1>2, <2>2, <2>3
  <1> QED BY <1>1, <1>2

\* Front and Last undo Append.
LEMMA FrontLastAppend ==
  ASSUME NEW S, NEW w \in Seq(S), NEW t \in S
  PROVE  Append(w, t) \in Seq(S) /\ Append(w, t) # <<>> /\ Front(Append(w, t)) = w /\ Last(Append(w, t)) = t
  <1>1. /\ Append(w, t) \in Seq(S) /\ Append(w, t) # <<>> /\ Len(Append(w, t)) = Len(w) + 1
        /\ Append(w, t)[Len(w) + 1] = t /\ \A i \in 1 .. Len(w) : Append(w, t)[i] = w[i]
    BY AppendProperties
  <1>2. Len(w) \in Nat OBVIOUS
  <1>3. Front(Append(w, t)) = SubSeq(Append(w, t), 1, Len(w)) BY <1>1, <1>2 DEF Front
  <1>4. /\ Front(Append(w, t)) \in Seq(S) /\ Len(Front(Append(w, t))) = Len(w)
        /\ \A i \in 1 .. Len(w) : Front(Append(w, t))[i] = w[i]
    BY <1>1, <1>2, <1>3, SubSeqProperties
  <1>5. Front(Append(w, t)) = w BY <1>4, SeqEqual
  <1> QED BY <1>1, <1>5 DEF Last

\* Keeping the last n of what was kept is keeping the last n of everything.
LEMMA RememberedIsRecent ==
  ASSUME NEW S, NEW w \in Seq(S), w # <<>>, NEW n \in Nat \ {0},
         NEW h, h = LastOf(Front(w), n)
  PROVE  LastOf(Append(h, Last(w)), n) = LastOf(w, n)
  <1>1. Len(w) \in Nat \ {0} /\ Last(w) \in S /\ Last(w) = w[Len(w)] BY DEF Last
  <1> DEFINE f == Front(w)
             x == Last(w)
  <1>2. f \in Seq(S) /\ Len(f) = Len(w) - 1 /\ \A i \in 1 .. Len(f) : f[i] = w[i]
    <2>1. \A i \in 1 .. Len(w) - 1 : w[i] \in S BY <1>1, LenProperties
    <2>2. f = SubSeq(w, 1, Len(w) - 1) BY DEF Front
    <2> HIDE DEF f
    <2>3. 1 \in Int /\ Len(w) - 1 \in Int BY <1>1
    <2>4. /\ f \in Seq(S) /\ Len(f) = IF 1 <= Len(w) - 1 THEN (Len(w) - 1) - 1 + 1 ELSE 0
          /\ \A i \in 1 .. (Len(w) - 1) - 1 + 1 : f[i] = w[1 + i - 1]
      BY <2>1, <2>2, <2>3, SubSeqProperties
    <2>5. Len(f) = Len(w) - 1
      <3>1. Len(f) \in Nat BY <2>4
      <3>2. Len(f) = IF 1 <= Len(w) - 1 THEN (Len(w) - 1) - 1 + 1 ELSE 0 BY <2>4
      <3> DEFINE m == Len(w)
      <3>3. m \in Nat /\ m >= 1 BY <1>1
      <3>4. Len(f) = IF 1 <= m - 1 THEN (m - 1) - 1 + 1 ELSE 0 BY <3>2
      <3> HIDE DEF m
      <3>5. Len(f) = m - 1 BY <3>1, <3>3, <3>4
      <3> QED BY <3>5 DEF m
    <2>6. ASSUME NEW i \in 1 .. Len(f) PROVE f[i] = w[i]
      <3>1. i \in 1 .. (Len(w) - 1) - 1 + 1 /\ 1 + i - 1 = i BY <1>1, <2>5
      <3> QED BY <2>4, <3>1
    <2> QED BY <2>4, <2>5, <2>6
  <1> HIDE DEF f
  <1>3. /\ h \in Seq(S) /\ Len(h) = IF Len(f) > n THEN n ELSE Len(f)
        /\ \A i \in 1 .. Len(h) : h[i] = f[Len(f) - Len(h) + i]
    <2>1. h = LastOf(f, n) BY DEF f
    <2> QED BY <1>2, <2>1, LastOfProperties
  <1>4. /\ Append(h, x) \in Seq(S) /\ Len(Append(h, x)) = Len(h) + 1
        /\ Append(h, x)[Len(h) + 1] = x /\ \A i \in 1 .. Len(h) : Append(h, x)[i] = h[i]
    BY <1>1, <1>3, AppendProperties
  <1> DEFINE g == Append(h, x)
             a == LastOf(g, n)
             b == LastOf(w, n)
  <1>5. g \in Seq(S) /\ Len(g) = Len(h) + 1 /\ g[Len(h) + 1] = w[Len(w)] /\ \A i \in 1 .. Len(h) : g[i] = h[i]
    BY <1>1, <1>4
  <1> HIDE DEF g, x
  <1>6. /\ a \in Seq(S) /\ Len(a) = IF Len(g) > n THEN n ELSE Len(g)
        /\ \A i \in 1 .. Len(a) : a[i] = g[Len(g) - Len(a) + i]
    BY <1>5, LastOfProperties
  <1>7. /\ b \in Seq(S) /\ Len(b) = IF Len(w) > n THEN n ELSE Len(w)
        /\ \A i \in 1 .. Len(b) : b[i] = w[Len(w) - Len(b) + i]
    BY LastOfProperties
  <1> HIDE DEF a, b
  <1>L. Len(f) \in Nat /\ Len(h) \in Nat /\ Len(g) \in Nat /\ Len(a) \in Nat /\ Len(b) \in Nat
    BY <1>2, <1>3, <1>5, <1>6, <1>7
  <1>8. Len(a) = Len(b) BY <1>1, <1>2, <1>3, <1>5, <1>6, <1>7, <1>L
  <1>9. ASSUME NEW i \in 1 .. Len(a) PROVE a[i] = b[i]
    <2> DEFINE j == Len(g) - Len(a) + i
    <2>0. Len(h) <= Len(f) BY <1>3, <1>L
    <2>1. j \in 1 .. Len(h) + 1 /\ a[i] = g[j] /\ Len(w) - Len(b) + i = Len(w) - Len(g) + j
      <3>1. Len(g) - Len(a) \in Nat BY <1>6, <1>L, InstallAssumption
      <3>2. j \in 1 .. Len(g) BY <1>L, <3>1
      <3>3. Len(g) = Len(h) + 1 BY <1>5
      <3>4. a[i] = g[j] BY <1>6
      <3>5. Len(w) - Len(b) + i = Len(w) - Len(g) + j BY <1>1, <1>8, <1>L
      <3> QED BY <3>2, <3>3, <3>4, <3>5
    <2> HIDE DEF j
    <2>2. g[j] = w[Len(w) - Len(g) + j]
      <3>1. CASE j = Len(h) + 1
        <4>1. g[j] = w[Len(w)] BY <1>5, <3>1
        <4>2. Len(w) - Len(g) + j = Len(w) BY <1>1, <1>5, <1>L, <3>1
        <4> QED BY <4>1, <4>2
      <3>2. CASE j \in 1 .. Len(h)
        <4>1. g[j] = f[Len(f) - Len(h) + j] BY <1>3, <1>5, <3>2
        <4>2. Len(f) - Len(h) + j \in 1 .. Len(f) BY <1>L, <2>0, <3>2
        <4>3. Len(f) - Len(h) + j = Len(w) - Len(g) + j
          <5>1. Len(f) = Len(w) - 1 BY <1>2
          <5>2. Len(g) = Len(h) + 1 BY <1>5
          <5> QED BY <1>1, <1>L, <5>1, <5>2
        <4>4. f[Len(f) - Len(h) + j] = w[Len(f) - Len(h) + j] BY <1>2, <4>2
        <4> QED BY <4>1, <4>3, <4>4
      <3>3. j \in 1 .. Len(h) + 1 /\ Len(h) \in Nat BY <1>L, <2>1
      <3>4. j = Len(h) + 1 \/ j \in 1 .. Len(h)
        <4> DEFINE m == Len(h)
        <4>1. j \in 1 .. m + 1 /\ m \in Nat BY <3>3
        <4> HIDE DEF m
        <4>2. j = m + 1 \/ j \in 1 .. m BY <4>1
        <4> QED BY <4>2 DEF m
      <3> QED BY <3>1, <3>2, <3>4
    <2> QED BY <1>7, <1>8, <2>1, <2>2
  <1>10. a = b BY <1>6, <1>7, <1>8, <1>9, SeqEqual
  <1> QED BY <1>10 DEF a, b, g, x

\* An event more, and the oldest moved to the snapshot.
LEMMA CompactionKeepsOrder ==
  ASSUME NEW a \in Seq(Nat), NEW i \in Seq(Nat), NEW n \in Nat, NEW max \in Nat \ {0}, InOrder(a, i, n)
  PROVE  InOrder(a \o BeforeLast(Append(i, n + 1), max), LastOf(Append(i, n + 1), max), n + 1)
  <1> DEFINE q == Append(i, n + 1)
             b == BeforeLast(q, max)
             l == LastOf(q, max)
             c == a \o b
  <1>0. Len(a) + Len(i) = n /\ (\A k \in 1 .. Len(a) : a[k] = k) /\ (\A k \in 1 .. Len(i) : i[k] = Len(a) + k)
    BY DEF InOrder
  <1>1. q \in Seq(Nat) /\ Len(q) = Len(i) + 1 /\ Len(i) \in Nat /\ Len(a) \in Nat
        /\ \A k \in 1 .. Len(q) : q[k] = Len(a) + k
    <2>1. /\ q \in Seq(Nat) /\ Len(q) = Len(i) + 1 /\ q[Len(i) + 1] = n + 1
          /\ \A k \in 1 .. Len(i) : q[k] = i[k]
      BY AppendProperties
    <2>2. Len(i) \in Nat /\ Len(a) \in Nat OBVIOUS
    <2> HIDE DEF q
    <2>3. ASSUME NEW k \in 1 .. Len(q) PROVE q[k] = Len(a) + k
      <3>1. CASE k = Len(i) + 1 BY <1>0, <2>1, <2>2, <3>1
      <3>2. CASE k \in 1 .. Len(i) BY <1>0, <2>1, <3>2
      <3> QED BY <2>1, <2>2, <3>1, <3>2
    <2> QED BY <2>1, <2>2, <2>3
  <1> HIDE DEF q
  <1>2. /\ b \in Seq(Nat) /\ Len(b) \in Nat /\ l \in Seq(Nat) /\ Len(l) \in Nat
        /\ Len(b) + Len(l) = Len(q)
        /\ \A k \in 1 .. Len(l) : l[k] = q[Len(q) - Len(l) + k]
        /\ \A k \in 1 .. Len(b) : b[k] = q[k]
    <2>1. /\ l \in Seq(Nat) /\ b \in Seq(Nat)
          /\ Len(l) = IF Len(q) > max THEN max ELSE Len(q)
          /\ Len(b) = IF Len(q) > max THEN Len(q) - max ELSE 0
          /\ \A k \in 1 .. Len(l) : l[k] = q[Len(q) - Len(l) + k]
          /\ \A k \in 1 .. Len(b) : b[k] = q[k]
      BY <1>1, LastOfProperties
    <2> HIDE DEF b, l
    <2>2. Len(l) \in Nat /\ Len(b) \in Nat /\ Len(q) \in Nat BY <1>1, <2>1
    <2>3. Len(b) + Len(l) = Len(q) BY <2>1, <2>2
    <2> QED BY <2>1, <2>2, <2>3
  <1> HIDE DEF b, l
  <1>3. /\ c \in Seq(Nat) /\ Len(c) = Len(a) + Len(b)
        /\ \A k \in 1 .. Len(c) : c[k] = IF k <= Len(a) THEN a[k] ELSE b[k - Len(a)]
    BY <1>1, <1>2, ConcatProperties
  <1> HIDE DEF c
  <1>N. /\ Len(a) + Len(i) = n /\ Len(q) = Len(i) + 1 /\ Len(b) + Len(l) = Len(q) /\ Len(c) = Len(a) + Len(b)
        /\ Len(a) \in Nat /\ Len(i) \in Nat /\ Len(b) \in Nat /\ Len(l) \in Nat /\ Len(q) \in Nat
        /\ Len(c) \in Nat
    BY <1>0, <1>1, <1>2, <1>3
  <1>4. Len(c) + Len(l) = n + 1
    <2> DEFINE la == Len(a)  lb == Len(b)  lc == Len(c)  li == Len(i)  ll == Len(l)  lq == Len(q)
    <2>1. /\ la + li = n /\ lq = li + 1 /\ lb + ll = lq /\ lc = la + lb
          /\ la \in Nat /\ li \in Nat /\ lb \in Nat /\ ll \in Nat /\ lq \in Nat /\ lc \in Nat
      BY <1>N
    <2> HIDE DEF la, lb, lc, li, ll, lq
    <2>2. lc + ll = n + 1 BY <2>1
    <2> QED BY <2>2 DEF lc, ll
  <1>5. ASSUME NEW k \in 1 .. Len(c) PROVE c[k] = k
    <2>0. c[k] = IF k <= Len(a) THEN a[k] ELSE b[k - Len(a)] BY <1>3
    <2>1. CASE k <= Len(a)
      <3>1. k \in 1 .. Len(a) BY <1>N, <2>1
      <3> QED BY <1>0, <2>0, <2>1, <3>1
    <2>2. CASE ~(k <= Len(a))
      <3>1. /\ k - Len(a) \in 1 .. Len(b) /\ k - Len(a) \in 1 .. Len(q)
            /\ Len(a) + (k - Len(a)) = k
        BY <1>N, <2>2
      <3>2. b[k - Len(a)] = q[k - Len(a)] BY <1>2, <3>1
      <3>3. q[k - Len(a)] = Len(a) + (k - Len(a)) BY <1>1, <3>1
      <3> QED BY <2>0, <2>2, <3>1, <3>2, <3>3
    <2> QED BY <2>1, <2>2
  <1>6. ASSUME NEW k \in 1 .. Len(l) PROVE l[k] = Len(c) + k
    <2>1. Len(q) - Len(l) + k \in 1 .. Len(q) BY <1>N
    <2>2. l[k] = q[Len(q) - Len(l) + k] BY <1>2
    <2>3. q[Len(q) - Len(l) + k] = Len(a) + (Len(q) - Len(l) + k) BY <1>1, <2>1
    <2>4. Len(a) + (Len(q) - Len(l) + k) = Len(c) + k BY <1>N
    <2> QED BY <2>2, <2>3, <2>4
  <1>7. InOrder(c, l, n + 1) BY <1>4, <1>5, <1>6 DEF InOrder
  <1> QED BY <1>7 DEF c, b, l, q

\* The snapshot and the manifest put together.
LEMMA OrderIsComplete ==
  ASSUME NEW a \in Seq(Nat), NEW i \in Seq(Nat), NEW n \in Nat, InOrder(a, i, n)
  PROVE  a \o i = [k \in 1 .. n |-> k]
  <1> DEFINE c == a \o i
             d == [k \in 1 .. n |-> k]
  <1>0. Len(a) + Len(i) = n /\ (\A k \in 1 .. Len(a) : a[k] = k) /\ (\A k \in 1 .. Len(i) : i[k] = Len(a) + k)
    BY DEF InOrder
  <1>1. /\ c \in Seq(Nat) /\ Len(c) = Len(a) + Len(i) /\ Len(a) \in Nat /\ Len(i) \in Nat
        /\ \A k \in 1 .. Len(c) : c[k] = IF k <= Len(a) THEN a[k] ELSE i[k - Len(a)]
    BY ConcatProperties
  <1> HIDE DEF c
  <1>2. d \in Seq(Nat) /\ Len(d) = n OBVIOUS
  <1>3. ASSUME NEW k \in 1 .. Len(c) PROVE c[k] = d[k]
    <2>1. d[k] = k BY <1>0, <1>1
    <2> HIDE DEF d
    <2>2. CASE k <= Len(a)
      <3>1. k \in 1 .. Len(a) BY <1>1, <2>2
      <3> QED BY <1>0, <1>1, <2>1, <2>2, <3>1
    <2>3. CASE ~(k <= Len(a))
      <3>1. k - Len(a) \in 1 .. Len(i) /\ Len(a) + (k - Len(a)) = k BY <1>1, <2>3
      <3>2. i[k - Len(a)] = Len(a) + (k - Len(a)) BY <1>0, <3>1
      <3> QED BY <1>1, <2>1, <2>3, <3>1, <3>2
    <2> QED BY <2>2, <2>3
  <1> HIDE DEF d
  <1>4. c = d BY <1>0, <1>1, <1>2, <1>3, SeqEqual
  <1> QED BY <1>4 DEF c, d

\* An event more, with the oldest leaving the manifest: what it keeps are the latest,
\* and what is moved to a shorter snapshot still comes after that snapshot's events.
LEMMA CompactionKeepsRecent ==
  ASSUME NEW a \in Seq(Nat), NEW i \in Seq(Nat), NEW n \in Nat, NEW max \in Nat \ {0},
         Recent(i, n, max), Ascending(a, n - Len(i))
  PROVE  LET l == LastOf(Append(i, n + 1), max)
         IN  Recent(l, n + 1, max) /\ Ascending(a \o BeforeLast(Append(i, n + 1), max), (n + 1) - Len(l))
  <1> DEFINE q == Append(i, n + 1)
             b == BeforeLast(q, max)
             l == LastOf(q, max)
             c == a \o b
             m == n - Len(i)
  <1>0. /\ Len(i) \in Nat /\ Len(a) \in Nat /\ m \in Nat /\ n = m + Len(i)
        /\ Len(i) = IF n > max THEN max ELSE n
    BY DEF Recent
  <1>1. /\ q \in Seq(Nat) /\ Len(q) = Len(i) + 1 /\ q[Len(i) + 1] = n + 1
        /\ \A k \in 1 .. Len(i) : q[k] = i[k]
    BY AppendProperties
  <1>i. \A k \in 1 .. Len(i) : i[k] = m + k BY DEF Recent
  <1>a. Ascending(a, m) OBVIOUS
  <1> HIDE DEF q, m
  <1>2. ASSUME NEW k \in 1 .. Len(q) PROVE q[k] = m + k
    <2>1. CASE k = Len(i) + 1 BY <1>0, <1>1, <2>1
    <2>2. CASE k \in 1 .. Len(i) BY <1>i, <1>1, <2>2
    <2> QED BY <1>0, <1>1, <2>1, <2>2
  <1>3. /\ l \in Seq(Nat) /\ b \in Seq(Nat)
        /\ Len(l) = IF Len(q) > max THEN max ELSE Len(q)
        /\ Len(b) = IF Len(q) > max THEN Len(q) - max ELSE 0
        /\ \A k \in 1 .. Len(l) : l[k] = q[Len(q) - Len(l) + k]
        /\ \A k \in 1 .. Len(b) : b[k] = q[k]
    BY <1>1, LastOfProperties
  <1> HIDE DEF l, b
  <1>N. Len(q) \in Nat /\ Len(l) \in Nat /\ Len(b) \in Nat BY <1>1, <1>3
  <1>4. /\ c \in Seq(Nat) /\ Len(c) = Len(a) + Len(b)
        /\ \A k \in 1 .. Len(c) : c[k] = IF k <= Len(a) THEN a[k] ELSE b[k - Len(a)]
    <2>1. a \in Seq(Nat) /\ b \in Seq(Nat) BY <1>3
    <2> QED BY <2>1, ConcatProperties
  <1> HIDE DEF c
  <1>L. Len(q) \in Nat /\ Len(l) \in Nat /\ Len(b) \in Nat /\ Len(c) \in Nat
    <2>1. c \in Seq(Nat) BY <1>4
    <2> QED BY <1>N, <2>1
  <1>5. Len(b) + Len(l) = Len(q) /\ (n + 1) - Len(l) = m + Len(b)
    <2> DEFINE lb == Len(b)  li == Len(i)  ll == Len(l)  lq == Len(q)
    <2>1. /\ lb \in Nat /\ li \in Nat /\ ll \in Nat /\ lq \in Nat /\ lq = li + 1 /\ n = m + li /\ m \in Nat
          /\ ll = (IF lq > max THEN max ELSE lq) /\ lb = (IF lq > max THEN lq - max ELSE 0)
      <3>1. lb \in Nat /\ li \in Nat /\ ll \in Nat /\ lq \in Nat BY <1>0, <1>L
      <3>2. lq = li + 1 /\ n = m + li /\ m \in Nat BY <1>0, <1>1
      <3>3. ll = (IF lq > max THEN max ELSE lq) /\ lb = (IF lq > max THEN lq - max ELSE 0) BY <1>3
      <3> QED BY <3>1, <3>2, <3>3
    <2> HIDE DEF lb, li, ll, lq
    <2>2. lb + ll = lq /\ (n + 1) - ll = m + lb BY <2>1
    <2> QED BY <2>2 DEF lb, ll, lq
  <1>6. Recent(l, n + 1, max)
    <2>1. Len(l) = IF n + 1 > max THEN max ELSE n + 1
      <3> DEFINE li == Len(i)  ll == Len(l)  lq == Len(q)
      <3>1. li = (IF n > max THEN max ELSE n) /\ lq = li + 1 /\ ll = (IF lq > max THEN max ELSE lq)
        BY <1>0, <1>1, <1>3
      <3> HIDE DEF li, ll, lq
      <3>2. ll = IF n + 1 > max THEN max ELSE n + 1 BY <3>1
      <3> QED BY <3>2 DEF ll
    <2>2. ASSUME NEW k \in 1 .. Len(l) PROVE l[k] = ((n + 1) - Len(l)) + k
      <3>1. Len(q) - Len(l) + k \in 1 .. Len(q) BY <1>L, <1>5
      <3>2. l[k] = m + (Len(q) - Len(l) + k) BY <1>2, <1>3, <3>1
      <3>3. m + (Len(q) - Len(l) + k) = ((n + 1) - Len(l)) + k BY <1>0, <1>1, <1>L
      <3> QED BY <3>2, <3>3
    <2> QED BY <2>1, <2>2 DEF Recent
  <1>7. ASSUME NEW k \in 1 .. Len(c)
        PROVE  \/ k \in 1 .. Len(a) /\ c[k] = a[k] /\ a[k] \in 1 .. m
               \/ k \in Len(a) + 1 .. Len(c) /\ c[k] = m + (k - Len(a))
    <2>0. c[k] = IF k <= Len(a) THEN a[k] ELSE b[k - Len(a)] BY <1>4
    <2>1. CASE k <= Len(a)
      <3>1. k \in 1 .. Len(a) BY <1>0, <2>1
      <3> QED BY <1>a, <2>0, <2>1, <3>1 DEF Ascending
    <2>2. CASE ~(k <= Len(a))
      <3> DEFINE la == Len(a)  lb == Len(b)  lc == Len(c)  lq == Len(q)
      <3>0. /\ la \in Nat /\ lb \in Nat /\ lc \in Nat /\ lq \in Nat /\ lc = la + lb /\ lb <= lq
            /\ k \in 1 .. lc /\ ~(k <= la)
        BY <1>0, <1>4, <1>L, <1>5, <2>2
      <3> HIDE DEF la, lb, lc, lq
      <3>a. k \in la + 1 .. lc /\ k - la \in 1 .. lb /\ k - la \in 1 .. lq BY <3>0
      <3>1. k \in Len(a) + 1 .. Len(c) /\ k - Len(a) \in 1 .. Len(b) /\ k - Len(a) \in 1 .. Len(q)
        BY <3>a DEF la, lb, lc, lq
      <3>2. b[k - Len(a)] = m + (k - Len(a)) BY <1>2, <1>3, <3>1
      <3> QED BY <2>0, <2>2, <3>1, <3>2
    <2> QED BY <2>1, <2>2
  <1>8. ASSUME NEW k \in 1 .. Len(c) PROVE c[k] \in 1 .. m + Len(b)
    <2>1. CASE k \in 1 .. Len(a) /\ c[k] = a[k] /\ a[k] \in 1 .. m BY <1>0, <1>L, <2>1
    <2>2. CASE k \in Len(a) + 1 .. Len(c) /\ c[k] = m + (k - Len(a))
      <3> DEFINE la == Len(a)  lb == Len(b)  lc == Len(c)
      <3>0. /\ la \in Nat /\ lb \in Nat /\ lc = la + lb /\ m \in Nat
            /\ k \in la + 1 .. lc /\ c[k] = m + (k - la)
        BY <1>0, <1>4, <1>L, <2>2
      <3> HIDE DEF la, lb, lc
      <3>1. c[k] \in 1 .. m + lb BY <3>0
      <3> QED BY <3>1 DEF lb
    <2> QED BY <1>7, <2>1, <2>2
  <1>9. ASSUME NEW k \in 1 .. Len(c), NEW j \in 1 .. k - 1 PROVE c[j] < c[k]
    <2>0. j \in 1 .. Len(c) /\ j < k BY <1>L
    <2>1. CASE k \in 1 .. Len(a) /\ c[k] = a[k]
      <3>1. j \in 1 .. Len(a) /\ j \in 1 .. k - 1 BY <1>0, <2>0, <2>1
      <3>2. c[j] = a[j] BY <1>0, <1>7, <2>0, <3>1
      <3>3. a[j] < a[k] BY <1>a, <2>1, <3>1 DEF Ascending
      <3> QED BY <2>1, <3>2, <3>3
    <2>2. CASE k \in Len(a) + 1 .. Len(c) /\ c[k] = m + (k - Len(a))
      <3>1. CASE j \in 1 .. Len(a) /\ c[j] = a[j] /\ a[j] \in 1 .. m BY <1>0, <2>2, <3>1
      <3>2. CASE j \in Len(a) + 1 .. Len(c) /\ c[j] = m + (j - Len(a)) BY <1>0, <2>0, <2>2, <3>2
      <3> QED BY <1>7, <2>0, <3>1, <3>2
    <2> QED BY <1>7, <2>1, <2>2
  <1>10. Ascending(c, (n + 1) - Len(l)) BY <1>5, <1>8, <1>9 DEF Ascending
  <1> QED BY <1>6, <1>10 DEF c, b, l, q

\* Numbers up to a bound are numbers up to a greater one.
LEMMA AscendingFurther ==
  ASSUME NEW a, NEW m \in Nat, NEW n \in Nat, m <= n, Ascending(a, m)
  PROVE  Ascending(a, n)
  BY DEF Ascending

\* The latest events are the end of the list of all.
LEMMA RecentIsLast ==
  ASSUME NEW i \in Seq(Nat), NEW n \in Nat, NEW max \in Nat \ {0}, Recent(i, n, max)
  PROVE  i = LastOf([k \in 1 .. n |-> k], max)
  <1> DEFINE d == [k \in 1 .. n |-> k]
             l == LastOf(d, max)
  <1>1. d \in Seq(Nat) /\ Len(d) = n /\ \A k \in 1 .. n : d[k] = k OBVIOUS
  <1> HIDE DEF d
  <1>2. /\ l \in Seq(Nat) /\ Len(l) = IF Len(d) > max THEN max ELSE Len(d)
        /\ \A k \in 1 .. Len(l) : l[k] = d[Len(d) - Len(l) + k]
    BY <1>1, LastOfProperties
  <1> HIDE DEF l
  <1>3. Len(i) = Len(l) /\ Len(l) \in Nat /\ Len(l) <= n BY <1>1, <1>2 DEF Recent
  <1>4. ASSUME NEW k \in 1 .. Len(i) PROVE i[k] = l[k]
    <2>1. n - Len(l) + k \in 1 .. n BY <1>3
    <2>2. l[k] = n - Len(l) + k BY <1>1, <1>2, <1>3, <2>1
    <2> QED BY <1>3, <2>2 DEF Recent
  <1>5. i = l BY <1>2, <1>3, <1>4, SeqEqual
  <1> QED BY <1>5 DEF l, d

\* SetToSeq lists every element of a finite set once.
LEMMA ListedOnce ==
  ASSUME NEW S, IsFiniteSet(S)
  PROVE  /\ SetToSeq(S) \in Seq(S)
         /\ \A i, j \in 1 .. Len(SetToSeq(S)) : SetToSeq(S)[i] = SetToSeq(S)[j] => i = j
  <1>1. Cardinality(S) \in Nat /\ ExistsBijection(1 .. Cardinality(S), S) BY FS_CardinalityType
  <1>2. \E f \in [1 .. Cardinality(S) -> S] : IsInjective(f)
    BY <1>1 DEF ExistsBijection, Bijection, Injection
  <1>3. SetToSeq(S) \in [1 .. Cardinality(S) -> S] /\ IsInjective(SetToSeq(S))
    BY <1>2 DEF SetToSeq
  <1> DEFINE q == SetToSeq(S)
             n == Cardinality(S)
  <1>4. q \in [1 .. n -> S] /\ n \in Nat /\ \A i, j \in 1 .. n : q[i] = q[j] => i = j
    BY <1>1, <1>3 DEF IsInjective
  <1> HIDE DEF q, n
  <1>5. q \in Seq(S) /\ Len(q) = n BY <1>4
  <1>6. \A i, j \in 1 .. Len(q) : q[i] = q[j] => i = j BY <1>4, <1>5
  <1> QED BY <1>5, <1>6 DEF q

\* The plan of an install: each skill once, and only those not installed as asked.
LEMMA PlanProperties ==
  ASSUME NEW pick \in [Skills -> Releases]
  PROVE  /\ Plan(pick) \in Seq(StepType)
         /\ \A i, j \in 1 .. Len(Plan(pick)) : Plan(pick)[i].skill = Plan(pick)[j].skill => i = j
         /\ \A i \in 1 .. Len(Plan(pick)) :
              LET s == Plan(pick)[i].skill IN Plan(pick)[i].rel = pick[s] /\ ~Keep(s, pick[s])
  <1> DEFINE due == {d \in Skills \ {Root} : ~Keep(d, pick[d])}
             deps == SetToSeq(due)
             last == IF Keep(Root, pick[Root]) THEN <<>> ELSE <<Root>>
             order == deps \o last
             plan == [i \in 1 .. Len(order) |-> Step(order[i], pick[order[i]])]
  <1>1. IsFiniteSet(due) BY InstallAssumption, FS_Subset
  <1>2. due \subseteq Skills \ {Root} /\ \A d \in due : ~Keep(d, pick[d]) OBVIOUS
  <1>3. deps \in Seq(due) /\ \A i, j \in 1 .. Len(deps) : deps[i] = deps[j] => i = j
    <2> HIDE DEF due
    <2> QED BY <1>1, ListedOnce
  <1>4. /\ last \in Seq(Skills) /\ Len(last) \in 0 .. 1
        /\ \A i \in 1 .. Len(last) : last[i] = Root /\ ~Keep(Root, pick[Root])
    BY InstallAssumption
  <1>5. Plan(pick) = plan BY DEF Plan
  <1> HIDE DEF due, deps, last
  <1>6. /\ deps \in Seq(Skills) /\ Len(deps) \in Nat
        /\ \A i \in 1 .. Len(deps) : deps[i] \in Skills \ {Root} /\ ~Keep(deps[i], pick[deps[i]])
    BY <1>2, <1>3
  <1>7. /\ order \in Seq(Skills) /\ Len(order) = Len(deps) + Len(last)
        /\ \A i \in 1 .. Len(order) : order[i] = IF i <= Len(deps) THEN deps[i] ELSE last[i - Len(deps)]
    BY <1>4, <1>6, ConcatProperties
  <1> HIDE DEF order
  <1>8. ASSUME NEW i \in 1 .. Len(order)
        PROVE  /\ order[i] \in Skills /\ ~Keep(order[i], pick[order[i]])
               /\ (i <= Len(deps) /\ order[i] = deps[i] /\ order[i] # Root)
                    \/ (i = Len(deps) + 1 /\ order[i] = Root)
    <2>1. CASE i <= Len(deps)
      <3>1. i \in 1 .. Len(deps) BY <1>6, <1>7, <2>1
      <3> QED BY <1>6, <1>7, <2>1, <3>1
    <2>2. CASE ~(i <= Len(deps))
      <3>1. i - Len(deps) \in 1 .. Len(last) /\ i = Len(deps) + 1 BY <1>4, <1>6, <1>7, <2>2
      <3>2. order[i] = last[i - Len(deps)] BY <1>7, <2>2
      <3> QED BY <1>4, <3>1, <3>2, InstallAssumption
    <2> QED BY <2>1, <2>2
  <1>9. ASSUME NEW i \in 1 .. Len(order), NEW j \in 1 .. Len(order), order[i] = order[j] PROVE i = j
    <2>1. CASE order[i] = Root BY <1>8, <1>9, <2>1
    <2>2. CASE order[i] # Root
      <3>1. i \in 1 .. Len(deps) /\ j \in 1 .. Len(deps) /\ deps[i] = deps[j] BY <1>6, <1>8, <1>9, <2>2
      <3> QED BY <1>3, <3>1
    <2> QED BY <2>1, <2>2
  <1>10. ASSUME NEW i \in 1 .. Len(order)
         PROVE  Step(order[i], pick[order[i]]) \in StepType
    BY <1>8 DEF Step, StepType
  <1>11. Len(order) \in Nat BY <1>7
  <1>12. /\ plan \in Seq(StepType) /\ Len(plan) = Len(order)
         /\ \A i \in 1 .. Len(order) : plan[i] = Step(order[i], pick[order[i]])
    BY <1>10, <1>11
  <1> HIDE DEF plan
  <1>13. ASSUME NEW i \in 1 .. Len(order)
         PROVE  plan[i].skill = order[i] /\ plan[i].rel = pick[order[i]]
    <2>1. plan[i] = Step(order[i], pick[order[i]]) BY <1>12
    <2> QED BY <2>1 DEF Step
  <1>14. \A i, j \in 1 .. Len(plan) : plan[i].skill = plan[j].skill => i = j
    BY <1>9, <1>12, <1>13
  <1>15. ASSUME NEW i \in 1 .. Len(plan)
         PROVE  plan[i].rel = pick[plan[i].skill] /\ ~Keep(plan[i].skill, pick[plan[i].skill])
    BY <1>8, <1>12, <1>13
  <1> QED BY <1>5, <1>12, <1>14, <1>15

\* The step at hand.
LEMMA CurrentStep ==
  ASSUME InstallTypes, queue # <<>>
  PROVE  /\ Len(queue) \in Nat \ {0} /\ Current = queue[1].skill /\ Target = queue[1].rel
         /\ Current \in Skills /\ Target \in Releases /\ Target.v \in Nat \ {0} /\ Target.reg \in STRING
  <1>1. queue \in Seq(StepType) BY DEF InstallTypes
  <1>2. Len(queue) \in Nat \ {0} /\ queue[1] \in StepType /\ Head(queue) = queue[1] BY <1>1
  <1>3. queue[1].skill \in Skills /\ queue[1].rel \in Releases BY <1>2 DEF StepType
  <1>4. queue[1].rel.v \in Nat \ {0} /\ queue[1].rel.reg \in STRING BY <1>3, InstallAssumption
  <1> QED BY <1>2, <1>3, <1>4 DEF Current, Target

\* A registry that offers a release has a latest one, and it is a release.
LEMMA LatestIsRelease ==
  ASSUME NEW reg, \E r \in Releases : r.reg = reg
  PROVE  Latest(reg) \in Releases
  <1>1. PICK r \in Releases : r.reg = reg OBVIOUS
  <1>2. PICK m \in Releases : m.reg = reg /\ \A o \in Releases : o.reg = reg => o.v <= m.v
    BY <1>1, InstallAssumption
  <1> QED BY <1>2 DEF Latest

\* The absent tree and the absent entry, and what an entry names.
LEMMA NoTreeNoEntry ==
  /\ NoTree \in TreeType /\ NoTree.v = 0 /\ NoTree.drift = FALSE
  /\ NoEntry \in EntryType /\ NoEntry.v = 0
  /\ \A e \in EntryType : e # NoEntry => e.v \in Nat \ {0} /\ [v |-> e.v, reg |-> e.reg] \in Releases
  /\ \A e \in EntryType : e \in EntryRecords
  /\ \A rel \in Releases : /\ NewEntry(rel) \in EntryType /\ NewEntry(rel) # NoEntry
                            /\ NewEntry(rel).v = rel.v /\ NewEntry(rel).reg = rel.reg
  /\ \A rel \in Releases : Tree(rel.v, FALSE) \in TreeType /\ Tree(rel.v, FALSE).v = rel.v
  <1>1. \A rel \in Releases : rel = [v |-> rel.v, reg |-> rel.reg] /\ rel.v \in Nat \ {0} /\ rel.reg \in STRING
    BY InstallAssumption
  <1>2. NoTree \in TreeType /\ NoTree.v = 0 /\ NoTree.drift = FALSE BY DEF NoTree, Tree, TreeType
  <1>3. NoEntry = [v |-> 0, reg |-> "none", proof |-> "none", state |-> "unknown", checked |-> "fresh"]
    BY DEF NoEntry, Entry
  <1>4. NoEntry \in EntryType /\ NoEntry.v = 0 /\ NoEntry \in EntryRecords
    <2>1. NoEntry.v = 0 BY <1>3
    <2>2. NoEntry \in EntryRecords BY <1>3 DEF EntryRecords
    <2> QED BY <2>1, <2>2 DEF EntryType
  <1>5. ASSUME NEW e \in EntryType, e # NoEntry PROVE e.v \in Nat \ {0} /\ [v |-> e.v, reg |-> e.reg] \in Releases
    <2>1. [v |-> e.v, reg |-> e.reg] \in Releases BY <1>5 DEF EntryType
    <2> QED BY <1>1, <2>1
  <1>6. \A e \in EntryType : e \in EntryRecords BY <1>4 DEF EntryType
  <1>7. ASSUME NEW rel \in Releases
        PROVE  LET e == NewEntry(rel) IN e \in EntryType /\ e # NoEntry /\ e.v = rel.v /\ e.reg = rel.reg
    <2> DEFINE e == NewEntry(rel)
    <2>1. PICK proof \in {"signed", "none"}, state \in {"verified", "unknown"} :
            e = [v |-> rel.v, reg |-> rel.reg, proof |-> proof, state |-> state, checked |-> "fresh"]
      BY DEF NewEntry, Entry, Proof
    <2> HIDE DEF e
    <2>2. e.v = rel.v /\ e.reg = rel.reg BY <2>1
    <2>3. e # NoEntry
      <3>1. e.v # NoEntry.v BY <1>1, <1>4, <2>2
      <3> QED BY <3>1
    <2>4. e \in EntryRecords BY <1>1, <2>1 DEF EntryRecords
    <2>5. [v |-> e.v, reg |-> e.reg] \in Releases BY <1>1, <2>2
    <2> QED BY <2>2, <2>3, <2>4, <2>5 DEF EntryType, e
  <1>8. \A rel \in Releases : Tree(rel.v, FALSE) \in TreeType /\ Tree(rel.v, FALSE).v = rel.v
    BY DEF Tree, TreeType
  <1> QED BY <1>2, <1>4, <1>5, <1>6, <1>7, <1>8

\* The initial state satisfies the invariant: what was installed before is in order.
LEMMA InitInstallInv == InstallInit => InstallInv
  <1> SUFFICES ASSUME InstallInit PROVE InstallInv
    OBVIOUS
  <1>1. /\ written \in [Skills -> {<<>>} \cup {<<rel>> : rel \in Releases}]
        /\ tree = [s \in Skills |-> IF written[s] = <<>> THEN NoTree ELSE Tree(written[s][1].v, FALSE)]
        /\ entry = [s \in Skills |-> IF written[s] = <<>> THEN NoEntry
                                     ELSE NewEntry(written[s][1])]
        /\ happened = [s \in Skills |-> Len(written[s])]
        /\ inline = [s \in Skills |-> [n \in 1 .. Len(written[s]) |-> n]]
        /\ history = [s \in Skills |-> <<>>] /\ archived = [s \in Skills |-> <<>>]
        /\ aside = {} /\ torn = FALSE /\ cmd = "none" /\ forced = FALSE /\ queue = <<>> /\ at = "idle"
        /\ prev = NoTree /\ over = [s \in Skills |-> <<>>]
        /\ excused = [s \in Skills |-> "no"] /\ gap = {}
    BY DEF InstallInit
  <1>2. ASSUME NEW s \in Skills
        PROVE  /\ written[s] \in Seq(Releases) /\ Len(written[s]) \in 0 .. 1
               /\ written[s] # <<>> => Len(written[s]) = 1 /\ written[s][1] \in Releases
    <2>1. CASE written[s] = <<>> BY <2>1
    <2>2. CASE written[s] # <<>>
      <3>1. PICK rel \in Releases : written[s] = <<rel>> BY <1>1, <2>2
      <3> QED BY <3>1
    <2> QED BY <2>1, <2>2
  <1>3. ASSUME NEW s \in Skills
        PROVE  /\ tree[s] \in TreeType /\ entry[s] \in EntryType /\ tree[s].v = entry[s].v
               /\ written[s] = <<>> => entry[s] = NoEntry
               /\ written[s] # <<>> => entry[s].v = written[s][1].v /\ entry[s].reg = written[s][1].reg
               /\ entry[s] # NoEntry => tree[s] # NoTree
    <2>1. CASE written[s] = <<>> BY <1>1, <2>1, NoTreeNoEntry
    <2>2. CASE written[s] # <<>>
      <3>1. written[s][1] \in Releases BY <1>2, <2>2
      <3>2. tree[s] = Tree(written[s][1].v, FALSE) /\ entry[s] = NewEntry(written[s][1])
        BY <1>1, <2>2
      <3>3. tree[s].v \in Nat \ {0}
        <4>1. written[s][1].v \in Nat \ {0} BY <3>1, InstallAssumption
        <4>2. Tree(written[s][1].v, FALSE).v = written[s][1].v BY DEF Tree
        <4> QED BY <3>2, <4>1, <4>2
      <3>4. /\ tree[s] \in TreeType /\ entry[s] \in EntryType
            /\ tree[s].v = written[s][1].v /\ entry[s].v = written[s][1].v /\ entry[s].reg = written[s][1].reg
        BY <3>1, <3>2, NoTreeNoEntry
      <3>5. tree[s] # NoTree BY <3>3, NoTreeNoEntry
      <3> QED BY <2>2, <3>4, <3>5
    <2> QED BY <2>1, <2>2
  <1>4. ASSUME NEW s \in Skills
        PROVE  /\ inline[s] \in Seq(Nat) /\ Len(inline[s]) <= InlineMax
               /\ InOrder(archived[s], inline[s], happened[s])
               /\ Recent(inline[s], happened[s], InlineMax)
               /\ Ascending(archived[s], happened[s] - Len(inline[s]))
    <2> DEFINE n == Len(written[s])
               i == [k \in 1 .. n |-> k]
    <2>1. n \in 0 .. 1 BY <1>2
    <2> HIDE DEF n
    <2>2. i \in Seq(Nat) /\ Len(i) = n /\ \A k \in 1 .. n : i[k] = k BY <2>1
    <2> HIDE DEF i
    <2>3. inline[s] = i /\ happened[s] = n /\ archived[s] = <<>> BY <1>1 DEF i, n
    <2>4. InOrder(<<>>, i, n)
      <3>1. Len(<<>>) = 0 OBVIOUS
      <3>2. \A k \in 1 .. Len(i) : i[k] = 0 + k BY <2>1, <2>2
      <3> QED BY <2>1, <2>2, <3>1, <3>2 DEF InOrder
    <2>5. Recent(i, n, InlineMax)
      <3>1. ~(n > InlineMax) BY <2>1, InstallAssumption
      <3>2. \A k \in 1 .. Len(i) : i[k] = (n - Len(i)) + k BY <2>1, <2>2
      <3> QED BY <2>2, <3>1, <3>2 DEF Recent
    <2>6. Ascending(<<>>, n - n)
      <3>1. 1 .. Len(<<>>) = {} OBVIOUS
      <3> QED BY <3>1 DEF Ascending
    <2> QED BY <2>1, <2>2, <2>3, <2>4, <2>5, <2>6, InstallAssumption
  <1>5. InstallTypes
    <2>1. /\ tree \in [Skills -> TreeType] /\ entry \in [Skills -> EntryType]
          /\ written \in [Skills -> Seq(Releases)] /\ inline \in [Skills -> Seq(Nat)]
      BY <1>1, <1>2, <1>3, <1>4
    <2>2. history \in [Skills -> Seq(Releases)] /\ archived \in [Skills -> Seq(Nat)] /\ over \in [Skills -> Seq(Nat)]
      BY <1>1
    <2>3. happened \in [Skills -> Nat] BY <1>1, <1>2
    <2>4. ASSUME NEW s \in Skills PROVE Len(history[s]) <= HistoryMax /\ Len(inline[s]) <= InlineMax
      <3>1. history[s] = <<>> /\ Len(<<>>) = 0 BY <1>1
      <3> QED BY <1>4, <3>1, InstallAssumption
    <2>5. queue \in Seq(StepType) BY <1>1
    <2> QED BY <1>1, <2>1, <2>2, <2>3, <2>4, <2>5, NoTreeNoEntry DEF InstallTypes
  <1>6. StandsInv BY <1>1 DEF StandsInv
  <1>7. PlanInv BY <1>1 DEF PlanInv
  <1>8. PlaceInv BY <1>1, <1>3 DEF PlaceInv, NothingLost
  <1>9. HistoryIsRecent
    <2> SUFFICES ASSUME NEW s \in Skills, written[s] # <<>>
                 PROVE  /\ [v |-> entry[s].v, reg |-> entry[s].reg] = Last(written[s])
                        /\ history[s] = LastOf(Front(written[s]), HistoryMax)
      BY <1>1, <1>3 DEF HistoryIsRecent
    <2>1. PICK rel \in Releases : written[s] = <<rel>> BY <1>1
    <2>2. Last(written[s]) = rel /\ written[s][1] = rel BY <2>1 DEF Last
    <2>3. rel = [v |-> rel.v, reg |-> rel.reg] BY InstallAssumption
    <2>4. [v |-> entry[s].v, reg |-> entry[s].reg] = Last(written[s]) BY <1>3, <2>2, <2>3
    <2>5. Front(written[s]) = <<>> BY <2>1, SubSeqEmpty DEF Front
    <2>6. LastOf(<<>>, HistoryMax) = <<>>
      <3>1. Len(<<>>) = 0 /\ ~(0 > HistoryMax) BY InstallAssumption
      <3>2. LastOf(<<>>, HistoryMax) = SubSeq(<<>>, 1, 0) BY <3>1 DEF LastOf
      <3> QED BY <3>2, SubSeqEmpty
    <2> QED BY <1>1, <2>4, <2>5, <2>6
  <1>10. EventsInv BY <1>1, <1>4 DEF EventsInv
  <1> QED BY <1>5, <1>6, <1>7, <1>8, <1>9, <1>10 DEF InstallInv

\* What a command is given to do is in order when it starts.
LEMMA BeginsKeeps ==
  ASSUME InstallInv, Idle, NEW c \in {"install", "switch", "refresh"}, NEW force \in BOOLEAN,
         NEW steps \in Seq(StepType), steps = <<>> <=> c = "refresh",
         \A i, j \in 1 .. Len(steps) : steps[i].skill = steps[j].skill => i = j,
         \A i \in 1 .. Len(steps) : tree[steps[i].skill].drift =>
            \/ force
            \/ c = "install" /\ steps[i].skill # Root /\ steps[i].rel.reg # entry[steps[i].skill].reg
            \/ entry[steps[i].skill].proof # "signed",
         Begins(c, force, steps)
  PROVE  InstallInv'
  <1>I. InstallTypes /\ StandsInv /\ PlanInv /\ PlaceInv /\ HistoryIsRecent /\ EventsInv BY DEF InstallInv
  <1>1. /\ cmd' = c /\ forced' = force /\ queue' = steps
        /\ at' = (IF steps = <<>> THEN "manifest" ELSE "stage")
        /\ UNCHANGED <<tree, aside, entry, history, inline, archived, torn>>
        /\ UNCHANGED <<prev, over, written, happened, excused, gap>>
    BY DEF Begins, files
  <1>2. at = "idle" /\ cmd = "none" /\ queue = <<>> /\ prev = NoTree BY <1>I DEF Idle, StandsInv
  <1>3. InstallTypes' BY <1>I, <1>1 DEF InstallTypes
  <1>4. StandsInv' BY <1>1, <1>2 DEF StandsInv
  <1>5. PlanInv' BY <1>1 DEF PlanInv, MayReplace
  <1>6. PlaceInv'
    <2>1. \A s \in Skills : excused[s] = "no" => tree[s].v = entry[s].v
      BY <1>I, <1>2 DEF PlaceInv, Replacing
    <2>2. \A s \in Skills : entry[s] # NoEntry /\ tree[s] = NoTree => s \in aside \/ excused[s] = "undone"
      BY <1>I, <1>2 DEF PlaceInv, NothingLost
    <2>3. NothingLost' BY <1>1, <2>2 DEF NothingLost
    <2>4. at' = "stage" \/ (queue' = <<>> /\ at' = "manifest" /\ cmd' # "install") BY <1>1
    <2> QED BY <1>1, <2>1, <2>3, <2>4 DEF PlaceInv
  <1>7. HistoryIsRecent' BY <1>I, <1>1 DEF HistoryIsRecent
  <1>8. EventsInv' BY <1>I, <1>1, <1>2 DEF EventsInv
  <1> QED BY <1>3, <1>4, <1>5, <1>6, <1>7, <1>8 DEF InstallInv

\* The snapshot stays what it was, or is half a file: no event shows twice or in
\* another order, and none is missing but for the skills in gap.
LEMMA EventsStay ==
  ASSUME InstallTypes, EventsInv, at' # "snapshot", UNCHANGED <<inline, happened>>, gap \subseteq gap',
         archived' \in {archived, BrokenSnapshot},
         \A s \in Skills \ gap' : archived'[s] = IF at = "snapshot" THEN over[s] ELSE archived[s]
  PROVE  EventsInv' /\ archived' \in [Skills -> Seq(Nat)]
  <1>1. ASSUME NEW s \in Skills
        PROVE  archived'[s] = archived[s] \/ archived'[s] = <<>>
    BY DEF BrokenSnapshot
  <1>2. ASSUME NEW s \in Skills PROVE Ascending(archived'[s], happened[s] - Len(inline[s]))
    <2>1. CASE archived'[s] = archived[s] BY <2>1 DEF EventsInv
    <2>2. CASE archived'[s] = <<>>
      <3>1. 1 .. Len(<<>>) = {} OBVIOUS
      <3> QED BY <2>2, <3>1 DEF Ascending
    <2> QED BY <1>1, <2>1, <2>2
  <1>3. EventsInv'
    <2> SUFFICES ASSUME NEW s \in Skills
                 PROVE  /\ Recent(inline[s], happened[s], InlineMax)
                        /\ Ascending(archived'[s], happened[s] - Len(inline[s]))
                        /\ s \in gap' \/ InOrder(archived'[s], inline[s], happened[s])
      BY DEF EventsInv
    <2>1. Recent(inline[s], happened[s], InlineMax) BY DEF EventsInv
    <2>2. ASSUME s \notin gap' PROVE InOrder(archived'[s], inline[s], happened[s])
      <3>1. s \notin gap BY <2>2
      <3>2. InOrder(IF at = "snapshot" THEN over[s] ELSE archived[s], inline[s], happened[s])
        BY <3>1 DEF EventsInv
      <3> QED BY <2>2, <3>2
    <2> QED BY <1>2, <2>1, <2>2
  <1>4. archived' \in [Skills -> Seq(Nat)]
    <2>1. archived \in [Skills -> Seq(Nat)] BY DEF InstallTypes
    <2>2. BrokenSnapshot \in [Skills -> Seq(Nat)] BY DEF BrokenSnapshot
    <2> QED BY <2>1, <2>2
  <1> QED BY <1>3, <1>4

\* A command ends: what it leaves agrees or is excused, and nothing is lost.
LEMMA EndsKeeps ==
  ASSUME InstallInv, Ends, UNCHANGED <<entry, history, inline, written, happened>>,
         tree' \in [Skills -> TreeType], aside' \subseteq Skills,
         excused' \in [Skills -> {"no", "cut", "switch", "undone"}], gap \subseteq gap', gap' \subseteq Skills,
         \A s \in Skills : excused'[s] = "no" => tree'[s].v = entry[s].v,
         \A s \in Skills : entry[s] # NoEntry /\ tree'[s] = NoTree => s \in aside' \/ excused'[s] = "undone",
         torn => torn', archived' \in {archived, BrokenSnapshot},
         \A s \in Skills \ gap' : archived'[s] = IF at = "snapshot" THEN over[s] ELSE archived[s]
  PROVE  InstallInv'
  <1>I. InstallTypes /\ StandsInv /\ PlanInv /\ PlaceInv /\ HistoryIsRecent /\ EventsInv BY DEF InstallInv
  <1>1. /\ cmd' = "none" /\ forced' = FALSE /\ queue' = <<>> /\ at' = "idle" /\ prev' = NoTree
        /\ over' = [s \in Skills |-> <<>>]
    BY DEF Ends
  <1>2. InstallTypes'
    <2>1. over' \in [Skills -> Seq(Nat)] /\ queue' \in Seq(StepType) BY <1>1
    <2>2. archived' \in [Skills -> Seq(Nat)] BY <1>I, <1>1, EventsStay
    <2> QED BY <1>I, <1>1, <2>1, <2>2, NoTreeNoEntry DEF InstallTypes
  <1>3. StandsInv' BY <1>1 DEF StandsInv
  <1>4. PlanInv' BY <1>1 DEF PlanInv
  <1>5. PlaceInv'
    <2>1. NothingLost' BY DEF NothingLost
    <2> QED BY <1>1, <2>1 DEF PlaceInv
  <1>6. HistoryIsRecent' BY <1>I DEF HistoryIsRecent
  <1>7. EventsInv' BY <1>I, <1>1, EventsStay
  <1> QED BY <1>2, <1>3, <1>4, <1>5, <1>6, <1>7 DEF InstallInv

\* A step in the middle of a command works on the current skill only.
LEMMA MidKeeps ==
  ASSUME InstallInv, InstallTypes', StandsInv', queue # <<>>, UNCHANGED <<cmd, forced, queue, aside>>,
         at' \notin {"idle", "stage"},
         \A s \in Skills \ {Current} : tree'[s] = tree[s] /\ entry'[s] = entry[s] /\ excused'[s] \in {excused[s], "undone"},
         at' \in {"drop", "manifest", "snapshot", "done"} => tree'[Current].v = Target.v,
         at' \in {"snapshot", "done"} => entry'[Current].v = Target.v,
         at' \in {"swap", "undo", "unaside"} \/ (at' = "manifest" /\ cmd = "install") =>
           /\ excused'[Current] = "no" => prev'.v = entry'[Current].v
           /\ entry'[Current] # NoEntry /\ prev' = NoTree => Current \in aside \/ excused'[Current] = "undone",
         HistoryIsRecent', EventsInv'
  PROVE  InstallInv'
  <1>I. InstallTypes /\ StandsInv /\ PlanInv /\ PlaceInv BY DEF InstallInv
  <1>C. /\ Len(queue) \in Nat \ {0} /\ Current = queue[1].skill /\ Current \in Skills
        /\ Target.v \in Nat \ {0} /\ Current' = Current /\ Target' = Target
    BY <1>I, CurrentStep DEF Current, Target
  <1>1. PlanInv'
    <2> SUFFICES ASSUME NEW i \in 1 .. Len(queue), i > 1 PROVE MayReplace(queue[i].skill, queue[i].rel)'
      BY <1>I DEF PlanInv
    <2>1. queue[i].skill # Current BY <1>I, <1>C DEF PlanInv
    <2>2. queue[i] \in StepType BY <1>I DEF InstallTypes
    <2>3. queue[i].skill \in Skills BY <2>2 DEF StepType
    <2>4. MayReplace(queue[i].skill, queue[i].rel) BY <1>I DEF PlanInv
    <2> QED BY <2>1, <2>3, <2>4 DEF MayReplace
  <1>2. PlaceInv'
    <2>1. ASSUME NEW s \in Skills, excused'[s] = "no", ~Replacing(s)' PROVE tree'[s].v = entry'[s].v
      <3>1. s # Current BY <1>C, <2>1 DEF Replacing
      <3>2. ~Replacing(s) BY <3>1 DEF Replacing
      <3> QED BY <1>I, <2>1, <3>1, <3>2 DEF PlaceInv
    <2>2. NothingLost'
      <3> SUFFICES ASSUME NEW s \in Skills, entry'[s] # NoEntry, tree'[s] = NoTree
                   PROVE  (s = Current /\ prev' # NoTree) \/ s \in aside \/ excused'[s] = "undone"
        BY <1>C DEF NothingLost
      <3>1. CASE s # Current BY <1>I, <3>1 DEF PlaceInv, NothingLost
      <3>2. CASE s = Current
        <4>1. ~(tree'[Current].v = Target.v) BY <1>C, <3>2, NoTreeNoEntry
        <4>2. at' \in {"swap", "undo", "unaside"} BY <4>1 DEF StandsInv
        <4> QED BY <3>2, <4>2
      <3> QED BY <3>1, <3>2
    <2>3. OldTree' <=> /\ excused'[Current] = "no" => prev'.v = entry'[Current].v
                       /\ entry'[Current] # NoEntry /\ prev' = NoTree => Current \in aside \/ excused'[Current] = "undone"
      BY <1>C DEF OldTree
    <2> QED BY <1>C, <2>1, <2>2, <2>3 DEF PlaceInv
  <1> QED BY <1>1, <1>2 DEF InstallInv

\* A one-step command begins in order when its gate let it pass.
LEMMA SwitchKeeps ==
  ASSUME InstallInv, Idle, NEW s \in Skills, NEW rel \in Releases, NEW force \in BOOLEAN,
         Passes(s, force), Begins("switch", force, <<Step(s, rel)>>)
  PROVE  InstallInv'
  <1> DEFINE steps == <<Step(s, rel)>>
  <1>1. steps \in Seq(StepType) /\ steps # <<>> /\ Len(steps) = 1 /\ steps[1].skill = s
    BY DEF Step, StepType
  <1>2. tree[s].drift => force \/ entry[s].proof # "signed"
    <2> SUFFICES ASSUME tree[s].drift, ~force, entry[s].proof = "signed" PROVE FALSE
      OBVIOUS
    <2>1. tree[s] # NoTree BY NoTreeNoEntry
    <2>2. Drifted(s) BY <2>1 DEF Drifted, Differs
    <2> QED BY <2>2 DEF Passes, Readiness
  <1>3. Begins("switch", force, steps) OBVIOUS
  <1> HIDE DEF steps
  <1>4. \A i, j \in 1 .. Len(steps) : steps[i].skill = steps[j].skill => i = j BY <1>1
  <1>5. \A i \in 1 .. Len(steps) : tree[steps[i].skill].drift =>
           force \/ entry[steps[i].skill].proof # "signed"
    BY <1>1, <1>2
  <1> QED BY <1>1, <1>3, <1>4, <1>5, BeginsKeeps

\* Every command begins in order.
LEMMA StartsKeep ==
  ASSUME InstallInv,
         \/ \E pick \in [Skills -> Releases], force \in BOOLEAN : StartInstall(pick, force)
         \/ \E s \in Skills, force \in BOOLEAN :
               \/ \E rel \in Releases : StartSwitch(s, rel, force) \/ StartUpgrade(s, rel, force)
               \/ StartSync(s, force)
               \/ \E steps \in 1 .. HistoryMax : StartRollback(s, steps, force)
         \/ \E s \in Skills : StartRepair(s)
         \/ StartRefresh
  PROVE  InstallInv'
  <1>I. InstallTypes BY DEF InstallInv
  <1>E. ASSUME NEW s \in Skills, entry[s] # NoEntry PROVE [v |-> entry[s].v, reg |-> entry[s].reg] \in Releases
    <2>1. entry[s] \in EntryType BY <1>I DEF InstallTypes
    <2> QED BY <1>E, <2>1, NoTreeNoEntry
  <1>1. ASSUME NEW pick \in [Skills -> Releases], NEW force \in BOOLEAN, StartInstall(pick, force)
        PROVE  InstallInv'
    <2>1. /\ Idle /\ Plan(pick) # <<>> /\ Begins("install", force, Plan(pick))
          /\ \A d \in Skills \ {Root} : Installed(d) => pick[d].v = Locked(d)
          /\ tree[Root] = NoTree \/ Keep(Root, pick[Root]) \/ force
      BY <1>1 DEF StartInstall
    <2>2. ASSUME NEW i \in 1 .. Len(Plan(pick)), tree[Plan(pick)[i].skill].drift
          PROVE  force \/ /\ Plan(pick)[i].skill # Root
                          /\ Plan(pick)[i].rel.reg # entry[Plan(pick)[i].skill].reg
      <3> DEFINE s == Plan(pick)[i].skill
      <3>1. Plan(pick)[i].rel = pick[s] /\ ~Keep(s, pick[s]) BY PlanProperties
      <3>2. s \in Skills
        <4>1. Plan(pick) \in Seq(StepType) BY PlanProperties
        <4>2. Plan(pick)[i] \in StepType BY <4>1
        <4> QED BY <4>2 DEF StepType
      <3>3. tree[s].drift BY <2>2
      <3>4. Plan(pick)[i].skill = s OBVIOUS
      <3> HIDE DEF s
      <3>5. tree[s] # NoTree /\ Installed(s) BY <3>3, NoTreeNoEntry DEF Installed
      <3>6. CASE s = Root BY <2>1, <3>1, <3>5, <3>6
      <3>7. CASE s # Root
        <4>1. pick[s].v = Locked(s) BY <2>1, <3>2, <3>5, <3>7
        <4>2. pick[s].reg # entry[s].reg BY <3>1, <3>5, <4>1 DEF Keep
        <4> QED BY <3>1, <3>4, <3>7, <4>2
      <3> QED BY <3>6, <3>7
    <2>3. /\ Plan(pick) \in Seq(StepType)
          /\ \A i, j \in 1 .. Len(Plan(pick)) : Plan(pick)[i].skill = Plan(pick)[j].skill => i = j
      BY PlanProperties
    <2>4. \A i \in 1 .. Len(Plan(pick)) : tree[Plan(pick)[i].skill].drift =>
             force \/ ("install" = "install" /\ Plan(pick)[i].skill # Root
                         /\ Plan(pick)[i].rel.reg # entry[Plan(pick)[i].skill].reg)
      BY <2>2
    <2> QED BY <2>1, <2>3, <2>4, BeginsKeeps
  <1>2. ASSUME NEW s \in Skills, NEW force \in BOOLEAN, NEW rel \in Releases,
               StartSwitch(s, rel, force) \/ StartUpgrade(s, rel, force)
        PROVE  InstallInv'
    BY <1>2, SwitchKeeps DEF StartSwitch, StartUpgrade
  <1>3. ASSUME NEW s \in Skills, NEW force \in BOOLEAN, StartSync(s, force) PROVE InstallInv'
    <2>1. Idle /\ entry[s] # NoEntry /\ Passes(s, force)
          /\ Begins("switch", force, <<Step(s, Latest(entry[s].reg))>>)
      BY <1>3 DEF StartSync
    <2>2. \E r \in Releases : r.reg = entry[s].reg BY <1>E, <2>1
    <2>3. Latest(entry[s].reg) \in Releases BY <2>2, LatestIsRelease
    <2> QED BY <2>1, <2>3, SwitchKeeps
  <1>4. ASSUME NEW s \in Skills, NEW force \in BOOLEAN, NEW steps \in 1 .. HistoryMax, StartRollback(s, steps, force)
        PROVE  InstallInv'
    <2>1. /\ Idle /\ steps \in 1 .. Len(history[s]) /\ Passes(s, force)
          /\ Begins("switch", force, <<Step(s, history[s][Len(history[s]) - steps + 1])>>)
      BY <1>4 DEF StartRollback
    <2>2. history[s] \in Seq(Releases) BY <1>I DEF InstallTypes
    <2>3. Len(history[s]) - steps + 1 \in 1 .. Len(history[s]) BY <2>1, <2>2
    <2>4. history[s][Len(history[s]) - steps + 1] \in Releases BY <2>2, <2>3
    <2> QED BY <2>1, <2>4, SwitchKeeps
  <1>5. ASSUME NEW s \in Skills, StartRepair(s) PROVE InstallInv'
    <2>1. /\ Idle /\ entry[s] # NoEntry
          /\ Begins("switch", TRUE, <<Step(s, [v |-> entry[s].v, reg |-> entry[s].reg])>>)
      BY <1>5 DEF StartRepair
    <2>2. Passes(s, TRUE) BY DEF Passes
    <2> QED BY <1>E, <2>1, <2>2, SwitchKeeps
  <1>6. CASE StartRefresh
    <2>1. Idle /\ Begins("refresh", FALSE, <<>>) BY <1>6 DEF StartRefresh
    <2> DEFINE steps == <<>>
    <2>2. steps \in Seq(StepType) /\ steps = <<>> /\ 1 .. Len(steps) = {} OBVIOUS
    <2>3. Begins("refresh", FALSE, steps) BY <2>1
    <2> HIDE DEF steps
    <2> QED BY <2>1, <2>2, <2>3, BeginsKeeps
  <1> QED BY <1>1, <1>2, <1>3, <1>4, <1>5, <1>6

\* The user's edits, the loss of what an installed skill was verified with, the passing of time.
LEMMA SurroundingsKeep ==
  ASSUME InstallInv, NEW s \in Skills, Edits(s) \/ LosesProof(s) \/ Ages(s)
  PROVE  InstallInv'
  <1>I. InstallTypes /\ StandsInv /\ PlanInv /\ PlaceInv /\ HistoryIsRecent /\ EventsInv BY DEF InstallInv
  <1>1. /\ at = "idle" /\ queue = <<>> /\ prev = NoTree
        /\ UNCHANGED <<aside, history, inline, archived, torn, cmd, forced, queue, at, prev, over,
                       written, happened, excused, gap>>
    BY <1>I DEF Edits, LosesProof, Ages, Idle, StandsInv
  <1>2. /\ tree' \in [Skills -> TreeType] /\ entry' \in [Skills -> EntryType]
        /\ \A x \in Skills : /\ tree'[x].v = tree[x].v /\ entry'[x].v = entry[x].v /\ entry'[x].reg = entry[x].reg
                             /\ tree'[x] = NoTree => tree[x] = NoTree
                             /\ entry'[x] # NoEntry <=> entry[x] # NoEntry
    <2>1. CASE Edits(s)
      <3> DEFINE new == [tree[s] EXCEPT !.drift = TRUE]
      <3>1. tree[s] # NoTree /\ tree' = [tree EXCEPT ![s] = new] /\ entry' = entry BY <2>1 DEF Edits
      <3>2. tree[s] \in TreeType BY <1>I DEF InstallTypes
      <3>3. new \in TreeType /\ new.v = tree[s].v /\ new.drift BY <3>2 DEF TreeType
      <3>4. new # NoTree BY <3>3, NoTreeNoEntry
      <3> HIDE DEF new
      <3> QED BY <1>I, <3>1, <3>2, <3>3, <3>4 DEF InstallTypes
    <2>2. CASE LosesProof(s) \/ Ages(s)
      <3>1. entry[s] # NoEntry
        <4>1. NoEntry.proof = "none" BY DEF NoEntry, Entry
        <4> QED BY <2>2, <4>1 DEF LosesProof, Ages
      <3>2. PICK new \in {[entry[s] EXCEPT !.proof = "lost"], [entry[s] EXCEPT !.checked = "stale"]} :
              entry' = [entry EXCEPT ![s] = new] /\ tree' = tree
        BY <2>2 DEF LosesProof, Ages
      <3>3. entry[s] \in EntryType /\ entry[s].v # 0 BY <1>I, <3>1, NoTreeNoEntry DEF InstallTypes
      <3>4. new \in EntryType /\ new.v = entry[s].v /\ new.reg = entry[s].reg
        <4>1. entry[s] \in EntryRecords /\ [v |-> entry[s].v, reg |-> entry[s].reg] \in Releases
          BY <3>1, <3>3, NoTreeNoEntry
        <4>2. new \in EntryRecords /\ new.v = entry[s].v /\ new.reg = entry[s].reg
          BY <3>2, <4>1 DEF EntryRecords
        <4> QED BY <4>1, <4>2 DEF EntryType
      <3>5. new # NoEntry BY <3>3, <3>4, NoTreeNoEntry
      <3> QED BY <1>I, <3>1, <3>2, <3>3, <3>4, <3>5 DEF InstallTypes
    <2> QED BY <2>1, <2>2
  <1>3. InstallTypes' BY <1>I, <1>1, <1>2 DEF InstallTypes
  <1>4. StandsInv' BY <1>I, <1>1 DEF StandsInv
  <1>5. PlanInv' BY <1>1 DEF PlanInv
  <1>6. PlaceInv'
    <2>1. \A x \in Skills : excused[x] = "no" => tree[x].v = entry[x].v BY <1>I, <1>1 DEF PlaceInv, Replacing
    <2>2. \A x \in Skills : entry[x] # NoEntry /\ tree[x] = NoTree => x \in aside \/ excused[x] = "undone"
      BY <1>I, <1>1 DEF PlaceInv, NothingLost
    <2>3. NothingLost' BY <1>1, <1>2, <2>2 DEF NothingLost
    <2> QED BY <1>1, <1>2, <2>1, <2>3 DEF PlaceInv
  <1>7. HistoryIsRecent' BY <1>I, <1>1, <1>2 DEF HistoryIsRecent
  <1>8. EventsInv' BY <1>I, <1>1 DEF EventsInv
  <1> QED BY <1>3, <1>4, <1>5, <1>6, <1>7, <1>8 DEF InstallInv

\* A step after which the command stops.
LEMMA StopsKeep ==
  ASSUME InstallInv, Ends,
         \/ StageFails \/ MoveFails \/ MoveBackFails \/ ManifestFails \/ ManifestBreaks \/ SnapshotFails
         \/ PutsBack \/ PutBackFails \/ StepDone \/ Killed \/ KilledWriting
  PROVE  InstallInv'
  <1>I. InstallTypes /\ StandsInv /\ PlanInv /\ PlaceInv /\ HistoryIsRecent /\ EventsInv BY DEF InstallInv
  <1>C. queue # <<>> => Current \in Skills /\ Target.v \in Nat \ {0} BY <1>I, CurrentStep
  <1>T. /\ tree \in [Skills -> TreeType] /\ prev \in TreeType /\ aside \subseteq Skills /\ gap \subseteq Skills
        /\ excused \in [Skills -> {"no", "cut", "switch", "undone"}]
    BY <1>I DEF InstallTypes
  <1>N. \A s \in Skills : entry[s] # NoEntry /\ tree[s] = NoTree =>
          (queue # <<>> /\ s = Current /\ prev # NoTree) \/ s \in aside \/ excused[s] = "undone"
    BY <1>I DEF PlaceInv, NothingLost
  <1>P. \A s \in Skills : excused[s] = "no" /\ ~(queue # <<>> /\ s = Current /\ at # "stage") => tree[s].v = entry[s].v
    BY <1>I DEF PlaceInv, Replacing
  \* Excusing a skill, and the trees it may have left.
  <1>X. ASSUME NEW why \in {"cut", "switch", "undone"}, queue # <<>>, excused' = Excuse(Current, why)
        PROVE  /\ excused' \in [Skills -> {"no", "cut", "switch", "undone"}] /\ excused'[Current] # "no"
               /\ excused[Current] = "undone" => excused'[Current] = "undone"
               /\ \A s \in Skills \ {Current} : excused'[s] = excused[s]
    BY <1>C, <1>T, <1>X DEF Excuse
  <1>1. CASE StageFails
    <2>1. /\ at = "stage" /\ UNCHANGED <<tree, aside, entry, history, inline, archived, torn>>
          /\ UNCHANGED <<written, happened, excused, gap>>
      BY <1>1 DEF StageFails, files
    <2>2. prev = NoTree BY <1>I, <2>1 DEF StandsInv
    <2> QED BY <1>T, <1>N, <1>P, <2>1, <2>2, EndsKeeps
  <1>2. CASE MoveFails
    <2>1. /\ at = "swap" /\ tree' = [tree EXCEPT ![Current] = prev]
          /\ UNCHANGED <<aside, entry, history, inline, archived, torn, written, happened, excused, gap>>
      BY <1>2 DEF MoveFails
    <2>2. queue # <<>> BY <1>I, <2>1 DEF StandsInv
    <2>3. OldTree BY <1>I, <2>1 DEF PlaceInv
    <2>4. /\ tree' \in [Skills -> TreeType] /\ tree'[Current] = prev
          /\ \A s \in Skills \ {Current} : tree'[s] = tree[s]
      BY <1>C, <1>T, <2>1, <2>2
    <2>5. \A s \in Skills : excused[s] = "no" => tree'[s].v = entry[s].v
      BY <1>P, <2>3, <2>4 DEF OldTree
    <2>6. \A s \in Skills : entry[s] # NoEntry /\ tree'[s] = NoTree => s \in aside \/ excused[s] = "undone"
      BY <1>N, <2>3, <2>4 DEF OldTree
    <2> QED BY <1>T, <2>1, <2>4, <2>5, <2>6, EndsKeeps
  <1>3. CASE ManifestFails
    <2>1. /\ at = "manifest" /\ UNCHANGED <<tree, aside, entry, history, inline, archived, torn>>
          /\ UNCHANGED <<written, happened, gap>>
          /\ excused' = (IF cmd = "switch" THEN Excuse(Current, "switch") ELSE excused)
      BY <1>3 DEF ManifestFails, files
    <2>2. cmd # "install"
      BY <1>3, <2>1 DEF ManifestFails, GivesUp, AfterFailure, Ends
    <2>3. CASE cmd = "switch"
      <3>1. queue # <<>> BY <1>I, <2>1, <2>3 DEF StandsInv
      <3>2. tree[Current] # NoTree BY <1>I, <1>C, <2>1, <3>1, NoTreeNoEntry DEF PlaceInv
      <3>3. \A s \in Skills : excused'[s] = "no" => tree[s].v = entry[s].v BY <1>P, <1>X, <2>1, <2>3, <3>1
      <3>4. \A s \in Skills : entry[s] # NoEntry /\ tree[s] = NoTree => s \in aside \/ excused'[s] = "undone"
        BY <1>N, <1>X, <2>1, <2>3, <3>1, <3>2
      <3> QED BY <1>T, <1>X, <2>1, <2>3, <3>1, <3>3, <3>4, EndsKeeps
    <2>4. CASE cmd = "refresh"
      <3>1. queue = <<>> /\ excused' = excused BY <1>I, <2>1, <2>4 DEF StandsInv
      <3> QED BY <1>T, <1>N, <1>P, <2>1, <3>1, EndsKeeps
    <2> QED BY <1>I, <2>1, <2>2, <2>3, <2>4 DEF StandsInv
  <1>4. CASE SnapshotFails
    <2>1. /\ at = "snapshot" /\ UNCHANGED <<tree, aside, entry, history, inline, torn>>
          /\ UNCHANGED <<written, happened>> /\ archived' \in {archived, BrokenSnapshot}
          /\ gap' = gap \cup {s \in Skills : over[s] # archived'[s]}
          /\ excused' = (IF cmd = "install" THEN Excuse(Current, "undone") ELSE excused)
      BY <1>4 DEF SnapshotFails, SnapshotStops
    <2>2. cmd # "install"
      BY <1>4, <2>1 DEF SnapshotFails, GivesUp, AfterFailure, Ends
    <2>3. excused' = excused BY <2>1, <2>2
    <2>4. queue # <<>> => tree[Current].v = Target.v /\ entry[Current].v = Target.v /\ tree[Current] # NoTree
      BY <1>I, <1>C, <2>1, NoTreeNoEntry DEF PlaceInv
    <2>5. \A s \in Skills : excused[s] = "no" => tree[s].v = entry[s].v BY <1>P, <2>4
    <2>6. \A s \in Skills : entry[s] # NoEntry /\ tree[s] = NoTree => s \in aside \/ excused[s] = "undone"
      BY <1>N, <2>4
    <2>7. /\ gap \subseteq gap' /\ gap' \subseteq Skills
          /\ \A s \in Skills \ gap' : archived'[s] = over[s]
      BY <1>T, <2>1
    <2> QED BY <1>T, <2>1, <2>3, <2>5, <2>6, <2>7, EndsKeeps
  <1>5. CASE PutsBack
    <2>1. /\ at = "unaside" /\ tree' = [tree EXCEPT ![Current] = prev]
          /\ UNCHANGED <<aside, entry, history, inline, archived, torn, written, happened, excused, gap>>
      BY <1>5 DEF PutsBack
    <2>2. queue # <<>> BY <1>I, <2>1 DEF StandsInv
    <2>3. OldTree BY <1>I, <2>1 DEF PlaceInv
    <2>4. /\ tree' \in [Skills -> TreeType] /\ tree'[Current] = prev
          /\ \A s \in Skills \ {Current} : tree'[s] = tree[s]
      BY <1>C, <1>T, <2>1, <2>2
    <2>5. \A s \in Skills : excused[s] = "no" => tree'[s].v = entry[s].v
      BY <1>P, <2>3, <2>4 DEF OldTree
    <2>6. \A s \in Skills : entry[s] # NoEntry /\ tree'[s] = NoTree => s \in aside \/ excused[s] = "undone"
      BY <1>N, <2>3, <2>4 DEF OldTree
    <2> QED BY <1>T, <2>1, <2>4, <2>5, <2>6, EndsKeeps
  <1>6. CASE PutBackFails
    <2>1. /\ at = "unaside" /\ UNCHANGED <<tree, aside, entry, history, inline, archived, torn>>
          /\ UNCHANGED <<written, happened, gap>> /\ excused' = [excused EXCEPT ![Current] = "undone"]
      BY <1>6 DEF PutBackFails, files
    <2>2. queue # <<>> BY <1>I, <2>1 DEF StandsInv
    <2>3. /\ excused' \in [Skills -> {"no", "cut", "switch", "undone"}] /\ excused'[Current] = "undone"
          /\ \A s \in Skills \ {Current} : excused'[s] = excused[s]
      BY <1>C, <1>T, <2>1, <2>2
    <2>4. \A s \in Skills : excused'[s] = "no" => tree[s].v = entry[s].v BY <1>P, <2>3
    <2>5. \A s \in Skills : entry[s] # NoEntry /\ tree[s] = NoTree => s \in aside \/ excused'[s] = "undone"
      BY <1>N, <2>3
    <2> QED BY <1>T, <2>1, <2>3, <2>4, <2>5, EndsKeeps
  <1>7. CASE StepDone
    <2>1. /\ at = "done" /\ UNCHANGED <<tree, aside, entry, history, inline, archived, torn>>
          /\ UNCHANGED <<written, happened, gap>>
          /\ excused' = (IF queue = <<>> THEN excused ELSE [excused EXCEPT ![Current] = "no"])
      BY <1>7 DEF StepDone, files
    <2>2. queue # <<>> => tree[Current].v = Target.v /\ entry[Current].v = Target.v /\ tree[Current] # NoTree
      BY <1>I, <1>C, <2>1, NoTreeNoEntry DEF PlaceInv
    <2>3. /\ excused' \in [Skills -> {"no", "cut", "switch", "undone"}]
          /\ \A s \in Skills : ~(queue # <<>> /\ s = Current) => excused'[s] = excused[s]
      BY <1>C, <1>T, <2>1
    <2>4. \A s \in Skills : excused'[s] = "no" => tree[s].v = entry[s].v BY <1>P, <2>2, <2>3
    <2>5. \A s \in Skills : entry[s] # NoEntry /\ tree[s] = NoTree => s \in aside \/ excused'[s] = "undone"
      BY <1>N, <2>2, <2>3
    <2> QED BY <1>T, <2>1, <2>3, <2>4, <2>5, EndsKeeps
  <1>8. CASE Killed
    <2>1. /\ UNCHANGED <<tree, entry, history, inline, torn, written, happened>>
          /\ aside' = (IF prev = NoTree THEN aside ELSE aside \cup {Current})
          /\ excused' = (IF queue = <<>> THEN excused ELSE Excuse(Current, "cut"))
          /\ IF at = "snapshot" THEN SnapshotStops ELSE UNCHANGED <<archived, gap>>
      BY <1>8 DEF Killed
    <2>2. prev # NoTree => queue # <<>> BY <1>I DEF StandsInv
    <2>3. aside' \subseteq Skills /\ aside \subseteq aside' /\ (prev # NoTree => Current \in aside')
      BY <1>C, <1>T, <2>1, <2>2
    <2>4. /\ excused' \in [Skills -> {"no", "cut", "switch", "undone"}]
          /\ \A s \in Skills : excused'[s] = "no" => tree[s].v = entry[s].v
          /\ \A s \in Skills : excused[s] = "undone" => excused'[s] = "undone"
      BY <1>T, <1>P, <1>X, <2>1
    <2>5. \A s \in Skills : entry[s] # NoEntry /\ tree[s] = NoTree => s \in aside' \/ excused'[s] = "undone"
      BY <1>N, <2>3, <2>4
    <2>6. /\ gap \subseteq gap' /\ gap' \subseteq Skills /\ archived' \in {archived, BrokenSnapshot}
          /\ \A s \in Skills \ gap' : archived'[s] = IF at = "snapshot" THEN over[s] ELSE archived[s]
      BY <1>T, <2>1 DEF SnapshotStops
    <2> QED BY <1>T, <2>1, <2>3, <2>4, <2>5, <2>6, EndsKeeps
  <1>9. CASE KilledWriting
    <2>1. /\ at = "manifest" /\ UNCHANGED <<tree, entry, history, inline, archived, written, happened>>
          /\ torn' = TRUE /\ aside' = (IF prev = NoTree THEN aside ELSE aside \cup {Current})
          /\ excused' = [s \in Skills |-> "undone"] /\ gap' = Skills
      BY <1>9 DEF KilledWriting
    <2>2. prev # NoTree => queue # <<>> BY <1>I DEF StandsInv
    <2>3. aside' \subseteq Skills BY <1>C, <1>T, <2>1, <2>2
    <2>4. excused' \in [Skills -> {"no", "cut", "switch", "undone"}] BY <2>1
    <2>5. gap \subseteq gap' /\ gap' \subseteq Skills BY <1>T, <2>1
    <2> QED BY <1>T, <2>1, <2>3, <2>4, <2>5, EndsKeeps
  <1>10. CASE MoveBackFails
    <2>1. /\ at = "swap" /\ prev # NoTree /\ aside' = aside \cup {Current} /\ excused' = Excuse(Current, "cut")
          /\ UNCHANGED <<tree, entry, history, inline, archived, torn, written, happened, gap>>
      BY <1>10 DEF MoveBackFails
    <2>2. queue # <<>> BY <1>I, <2>1 DEF StandsInv
    <2>3. aside' \subseteq Skills BY <1>C, <1>T, <2>1, <2>2
    <2>4. /\ excused' \in [Skills -> {"no", "cut", "switch", "undone"}]
          /\ \A s \in Skills : excused'[s] = "no" => tree[s].v = entry[s].v
          /\ \A s \in Skills : excused[s] = "undone" => excused'[s] = "undone"
      BY <1>T, <1>P, <1>X, <2>1, <2>2
    <2>5. \A s \in Skills : entry[s] # NoEntry /\ tree[s] = NoTree => s \in aside' \/ excused'[s] = "undone"
      BY <1>N, <2>1, <2>4
    <2> QED BY <1>T, <2>1, <2>3, <2>4, <2>5, EndsKeeps
  <1>11. CASE ManifestBreaks
    <2>1. /\ at = "manifest" /\ UNCHANGED <<tree, aside, entry, history, inline, archived, written, happened>>
          /\ torn' = TRUE /\ excused' = [s \in Skills |-> "undone"] /\ gap' = Skills
      BY <1>11 DEF ManifestBreaks
    <2>2. excused' \in [Skills -> {"no", "cut", "switch", "undone"}] BY <2>1
    <2>3. gap \subseteq gap' /\ gap' \subseteq Skills BY <1>T, <2>1
    <2> QED BY <1>T, <2>1, <2>2, <2>3, EndsKeeps
  <1> QED BY <1>1, <1>2, <1>3, <1>4, <1>5, <1>6, <1>7, <1>8, <1>9, <1>10, <1>11

\* A refresh replaces nothing: its steps keep the trees and versions.
LEMMA RefreshKeeps ==
  ASSUME InstallInv, InstallTypes', StandsInv', queue = <<>>, UNCHANGED <<tree, aside, prev, excused, queue>>,
         \A s \in Skills : /\ entry'[s].v = entry[s].v
                           /\ entry'[s] # NoEntry <=> entry[s] # NoEntry,
         cmd' # "install", at' \in {"snapshot", "done"}, HistoryIsRecent', EventsInv'
  PROVE  InstallInv'
  <1>I. InstallTypes /\ StandsInv /\ PlanInv /\ PlaceInv BY DEF InstallInv
  <1>1. PlanInv' BY DEF PlanInv
  <1>2. PlaceInv'
    <2>1. \A s \in Skills : excused[s] = "no" => tree[s].v = entry[s].v BY <1>I DEF PlaceInv, Replacing
    <2>2. \A s \in Skills : entry[s] # NoEntry /\ tree[s] = NoTree => s \in aside \/ excused[s] = "undone"
      BY <1>I DEF PlaceInv, NothingLost
    <2>3. NothingLost' BY <2>2 DEF NothingLost
    <2> QED BY <2>1, <2>3 DEF PlaceInv
  <1> QED BY <1>1, <1>2 DEF InstallInv

\* The two renames, and what undoes them.
LEMMA SwapsKeep ==
  ASSUME InstallInv, MovesAway \/ MovesIn \/ DropsBackup \/ Undoes
  PROVE  InstallInv'
  <1>I. InstallTypes /\ StandsInv /\ PlanInv /\ PlaceInv /\ HistoryIsRecent /\ EventsInv BY DEF InstallInv
  <1>1. /\ UNCHANGED <<aside, entry, history, inline, archived, torn, cmd, forced, queue, over>>
        /\ UNCHANGED <<written, happened, excused, gap>>
        /\ at \in {"stage", "swap", "drop", "undo"} /\ at' \in {"swap", "manifest", "drop", "unaside"}
    BY DEF MovesAway, MovesIn, DropsBackup, Undoes, files
  <1>2. queue # <<>> BY <1>I, <1>1 DEF StandsInv
  <1>C. Current \in Skills /\ Target \in Releases /\ Target.v \in Nat \ {0} BY <1>I, <1>2, CurrentStep
  <1>T. tree \in [Skills -> TreeType] /\ prev \in TreeType BY <1>I DEF InstallTypes
  <1>R. HistoryIsRecent' BY <1>I, <1>1 DEF HistoryIsRecent
  <1>E. EventsInv' BY <1>I, <1>1 DEF EventsInv
  <1>3. CASE MovesAway
    <2>1. /\ at = "stage" /\ at' = "swap" /\ prev' = tree[Current] /\ tree' = [tree EXCEPT ![Current] = NoTree]
      BY <1>3 DEF MovesAway, SetAside
    <2>2. /\ tree' \in [Skills -> TreeType] /\ prev' \in TreeType
          /\ \A s \in Skills \ {Current} : tree'[s] = tree[s]
      BY <1>C, <1>T, <2>1, NoTreeNoEntry
    <2>3. InstallTypes' BY <1>I, <1>1, <2>2 DEF InstallTypes
    <2>4. StandsInv' BY <1>I, <1>1, <1>2, <2>1 DEF StandsInv
    <2>5. excused[Current] = "no" => prev'.v = entry[Current].v BY <1>I, <1>C, <2>1 DEF PlaceInv, Replacing
    <2>6. prev = NoTree BY <1>I, <2>1 DEF StandsInv
    <2>7. entry[Current] # NoEntry /\ prev' = NoTree => Current \in aside \/ excused[Current] = "undone"
      BY <1>I, <1>C, <2>1, <2>6 DEF PlaceInv, NothingLost
    <2> QED BY <1>1, <1>2, <1>R, <1>E, <2>1, <2>2, <2>3, <2>4, <2>5, <2>7, MidKeeps
  <1>4. CASE MovesIn
    <2>1. /\ at = "swap" /\ at' = (IF cmd = "install" THEN "manifest" ELSE "drop")
          /\ tree' = [tree EXCEPT ![Current] = Tree(Target.v, FALSE)] /\ prev' = prev
      BY <1>4 DEF MovesIn
    <2>2. /\ tree' \in [Skills -> TreeType] /\ tree'[Current].v = Target.v
          /\ \A s \in Skills \ {Current} : tree'[s] = tree[s]
      BY <1>C, <1>T, <2>1, NoTreeNoEntry
    <2>3. InstallTypes' BY <1>I, <1>1, <2>1, <2>2 DEF InstallTypes
    <2>4. StandsInv' BY <1>I, <1>1, <1>2, <2>1 DEF StandsInv
    <2>5. /\ excused[Current] = "no" => prev.v = entry[Current].v
          /\ entry[Current] # NoEntry /\ prev = NoTree => Current \in aside \/ excused[Current] = "undone"
      BY <1>I, <2>1 DEF PlaceInv, OldTree
    <2> QED BY <1>1, <1>2, <1>R, <1>E, <2>1, <2>2, <2>3, <2>4, <2>5, MidKeeps
  <1>5. CASE DropsBackup
    <2>1. at = "drop" /\ at' = "manifest" /\ prev' = NoTree /\ tree' = tree BY <1>5 DEF DropsBackup, files
    <2>2. cmd = "switch" /\ tree[Current].v = Target.v BY <1>I, <1>2, <2>1 DEF StandsInv, PlaceInv
    <2>3. InstallTypes' BY <1>I, <1>1, <2>1, NoTreeNoEntry DEF InstallTypes
    <2>4. StandsInv' BY <1>I, <1>1, <1>2, <2>1 DEF StandsInv
    <2> QED BY <1>1, <1>2, <1>R, <1>E, <2>1, <2>2, <2>3, <2>4, MidKeeps
  <1>6. CASE Undoes
    <2>1. /\ at = "undo" /\ at' = "unaside" /\ tree' = [tree EXCEPT ![Current] = NoTree] /\ prev' = prev
      BY <1>6 DEF Undoes
    <2>2. /\ tree' \in [Skills -> TreeType] /\ \A s \in Skills \ {Current} : tree'[s] = tree[s]
      BY <1>C, <1>T, <2>1, NoTreeNoEntry
    <2>3. InstallTypes' BY <1>I, <1>1, <2>1, <2>2 DEF InstallTypes
    <2>4. StandsInv' BY <1>I, <1>1, <1>2, <2>1 DEF StandsInv
    <2>5. /\ excused[Current] = "no" => prev.v = entry[Current].v
          /\ entry[Current] # NoEntry /\ prev = NoTree => Current \in aside \/ excused[Current] = "undone"
      BY <1>I, <2>1 DEF PlaceInv, OldTree
    <2> QED BY <1>1, <1>2, <1>R, <1>E, <2>1, <2>2, <2>3, <2>4, <2>5, MidKeeps
  <1> QED BY <1>3, <1>4, <1>5, <1>6

\* An event more for some skills: what the snapshot must hold, and what stays in the manifest.
LEMMA EventAdded ==
  ASSUME InstallTypes, EventsInv, at # "snapshot", NEW known \in SUBSET Skills, at' = "snapshot",
         gap' = gap, archived' = archived,
         inline' \in [Skills -> Seq(Nat)], over' \in [Skills -> Seq(Nat)],
         \A s \in Skills : IF s \in known
            THEN /\ inline'[s] = LastOf(Append(inline[s], happened[s] + 1), InlineMax)
                 /\ over'[s] = Overflow(s) /\ happened'[s] = happened[s] + 1
            ELSE inline'[s] = inline[s] /\ over'[s] = archived[s] /\ happened'[s] = happened[s]
  PROVE  EventsInv'
  <1> SUFFICES ASSUME NEW s \in Skills
               PROVE  /\ Recent(inline'[s], happened'[s], InlineMax)
                      /\ Ascending(archived[s], happened'[s] - Len(inline'[s]))
                      /\ Ascending(over'[s], happened'[s] - Len(inline'[s]))
                      /\ s \in gap \/ InOrder(over'[s], inline'[s], happened'[s])
    BY DEF EventsInv
  <1>1. /\ Recent(inline[s], happened[s], InlineMax) /\ Ascending(archived[s], happened[s] - Len(inline[s]))
        /\ s \in gap \/ InOrder(archived[s], inline[s], happened[s])
    BY DEF EventsInv
  <1>2. archived[s] \in Seq(Nat) /\ inline[s] \in Seq(Nat) /\ happened[s] \in Nat BY DEF InstallTypes
  <1>3. CASE s \in known
    <2> DEFINE l == LastOf(Append(inline[s], happened[s] + 1), InlineMax)
               c == archived[s] \o BeforeLast(Append(inline[s], happened[s] + 1), InlineMax)
    <2>1. Recent(l, happened[s] + 1, InlineMax) /\ Ascending(c, (happened[s] + 1) - Len(l))
      BY <1>1, <1>2, CompactionKeepsRecent, InstallAssumption
    <2>2. s \in gap \/ InOrder(c, l, happened[s] + 1)
      BY <1>1, <1>2, CompactionKeepsOrder, InstallAssumption
    <2>3. inline'[s] = l /\ over'[s] = c /\ happened'[s] = happened[s] + 1 BY <1>3 DEF Overflow
    <2> HIDE DEF l, c
    <2>4. Ascending(archived[s], (happened[s] + 1) - Len(l))
      <3>1. Len(l) = IF happened[s] + 1 > InlineMax THEN InlineMax ELSE happened[s] + 1 BY <2>1 DEF Recent
      <3>2. Len(inline[s]) = IF happened[s] > InlineMax THEN InlineMax ELSE happened[s] BY <1>1 DEF Recent
      <3>3. /\ happened[s] - Len(inline[s]) \in Nat /\ (happened[s] + 1) - Len(l) \in Nat
            /\ happened[s] - Len(inline[s]) <= (happened[s] + 1) - Len(l)
        <4> DEFINE n == happened[s]  li == Len(inline[s])  ll == Len(l)
        <4>1. /\ n \in Nat /\ ll = (IF n + 1 > InlineMax THEN InlineMax ELSE n + 1)
              /\ li = (IF n > InlineMax THEN InlineMax ELSE n) /\ InlineMax \in Nat
          BY <1>2, <3>1, <3>2, InstallAssumption
        <4> HIDE DEF n, li, ll
        <4>2. n - li \in Nat /\ (n + 1) - ll \in Nat /\ n - li <= (n + 1) - ll BY <4>1
        <4> QED BY <4>2 DEF n, li, ll
      <3> QED BY <1>1, <3>3, AscendingFurther
    <2> QED BY <2>1, <2>2, <2>3, <2>4
  <1>4. CASE s \notin known BY <1>1, <1>4
  <1> QED BY <1>3, <1>4

\* The types of the compacted events.
LEMMA CompactionTypes ==
  ASSUME InstallTypes, NEW s \in Skills
  PROVE  /\ LastOf(Append(inline[s], happened[s] + 1), InlineMax) \in Seq(Nat)
         /\ Len(LastOf(Append(inline[s], happened[s] + 1), InlineMax)) <= InlineMax
         /\ Overflow(s) \in Seq(Nat)
  <1>1. archived[s] \in Seq(Nat) /\ inline[s] \in Seq(Nat) /\ happened[s] \in Nat BY DEF InstallTypes
  <1> DEFINE q == Append(inline[s], happened[s] + 1)
  <1>2. q \in Seq(Nat) /\ Len(q) \in Nat BY <1>1
  <1> HIDE DEF q
  <1>3. /\ LastOf(q, InlineMax) \in Seq(Nat) /\ BeforeLast(q, InlineMax) \in Seq(Nat)
        /\ Len(LastOf(q, InlineMax)) = IF Len(q) > InlineMax THEN InlineMax ELSE Len(q)
    BY <1>2, LastOfProperties, InstallAssumption
  <1>4. Len(LastOf(q, InlineMax)) <= InlineMax BY <1>2, <1>3, InstallAssumption
  <1>5. archived[s] \o BeforeLast(q, InlineMax) \in Seq(Nat) BY <1>1, <1>3
  <1> QED BY <1>3, <1>4, <1>5 DEF q, Overflow

\* The manifest's new entry, with the history it replaces.
LEMMA ManifestKeeps == InstallInv /\ ManifestWrites => InstallInv'
  <1> SUFFICES ASSUME InstallInv, ManifestWrites PROVE InstallInv'
    OBVIOUS
  <1>I. InstallTypes /\ StandsInv /\ PlanInv /\ PlaceInv /\ HistoryIsRecent /\ EventsInv BY DEF InstallInv
  <1> DEFINE c == Current
  <1>1. /\ at = "manifest" /\ cmd # "refresh" /\ at' = "snapshot"
        /\ entry' = [entry EXCEPT ![c] = NewEntry(Target)]
        /\ history' = [history EXCEPT ![c] = IF entry[c] = NoEntry THEN history[c] ELSE Remembered(c)]
        /\ inline' = [inline EXCEPT ![c] = LastOf(Append(inline[c], happened[c] + 1), InlineMax)]
        /\ over' = [archived EXCEPT ![c] = Overflow(c)]
        /\ happened' = [happened EXCEPT ![c] = happened[c] + 1]
        /\ written' = [written EXCEPT ![c] = Append(written[c], Target)]
        /\ UNCHANGED <<tree, aside, archived, torn, cmd, forced, queue, prev, excused, gap>>
    BY DEF ManifestWrites
  <1>2. queue # <<>> BY <1>I, <1>1 DEF StandsInv
  <1>C. c \in Skills /\ Target \in Releases BY <1>I, <1>2, CurrentStep
  <1>T. /\ entry \in [Skills -> EntryType] /\ history \in [Skills -> Seq(Releases)]
        /\ written \in [Skills -> Seq(Releases)] /\ inline \in [Skills -> Seq(Nat)]
        /\ archived \in [Skills -> Seq(Nat)] /\ happened \in [Skills -> Nat]
        /\ \A s \in Skills : Len(history[s]) <= HistoryMax /\ Len(inline[s]) <= InlineMax
    BY <1>I DEF InstallTypes
  <1>3. entry[c] # NoEntry => Remembered(c) \in Seq(Releases) /\ Len(Remembered(c)) <= HistoryMax
    <2> SUFFICES ASSUME entry[c] # NoEntry PROVE Remembered(c) \in Seq(Releases) /\ Len(Remembered(c)) <= HistoryMax
      OBVIOUS
    <2> DEFINE q == Append(history[c], [v |-> entry[c].v, reg |-> entry[c].reg])
    <2>1. [v |-> entry[c].v, reg |-> entry[c].reg] \in Releases BY <1>C, <1>T, NoTreeNoEntry
    <2>2. q \in Seq(Releases) /\ Len(q) \in Nat BY <1>C, <1>T, <2>1, AppendProperties
    <2> HIDE DEF q
    <2>3. LastOf(q, HistoryMax) \in Seq(Releases) /\ Len(LastOf(q, HistoryMax)) = IF Len(q) > HistoryMax THEN HistoryMax ELSE Len(q)
      BY <2>2, LastOfProperties, InstallAssumption
    <2>4. Len(LastOf(q, HistoryMax)) <= HistoryMax BY <2>2, <2>3, InstallAssumption
    <2> QED BY <2>3, <2>4 DEF q, Remembered
  <1>4. NewEntry(Target) \in EntryType /\ NewEntry(Target) # NoEntry
        /\ NewEntry(Target).v = Target.v /\ NewEntry(Target).reg = Target.reg
    BY <1>C, NoTreeNoEntry
  <1>5. Append(written[c], Target) \in Seq(Releases) BY <1>C, <1>T, FrontLastAppend
  <1>6. /\ LastOf(Append(inline[c], happened[c] + 1), InlineMax) \in Seq(Nat)
        /\ Len(LastOf(Append(inline[c], happened[c] + 1), InlineMax)) <= InlineMax /\ Overflow(c) \in Seq(Nat)
    BY <1>I, <1>C, CompactionTypes
  <1> HIDE DEF c
  <1>7. /\ entry' \in [Skills -> EntryType] /\ history' \in [Skills -> Seq(Releases)]
        /\ written' \in [Skills -> Seq(Releases)] /\ inline' \in [Skills -> Seq(Nat)] /\ over' \in [Skills -> Seq(Nat)]
        /\ happened' \in [Skills -> Nat]
    BY <1>1, <1>C, <1>T, <1>3, <1>4, <1>5, <1>6
  <1>8. /\ entry'[c] = NewEntry(Target) /\ written'[c] = Append(written[c], Target)
        /\ history'[c] = (IF entry[c] = NoEntry THEN history[c] ELSE Remembered(c))
        /\ inline'[c] = LastOf(Append(inline[c], happened[c] + 1), InlineMax) /\ over'[c] = Overflow(c)
        /\ happened'[c] = happened[c] + 1
        /\ \A s \in Skills \ {c} : /\ entry'[s] = entry[s] /\ written'[s] = written[s] /\ history'[s] = history[s]
                                   /\ inline'[s] = inline[s] /\ over'[s] = archived[s] /\ happened'[s] = happened[s]
    BY <1>1, <1>C, <1>T
  <1>9. InstallTypes'
    <2>1. \A s \in Skills : Len(history'[s]) <= HistoryMax /\ Len(inline'[s]) <= InlineMax
      BY <1>C, <1>T, <1>3, <1>6, <1>8
    <2> QED BY <1>I, <1>1, <1>7, <2>1 DEF InstallTypes
  <1>10. StandsInv' BY <1>I, <1>1, <1>2 DEF StandsInv
  <1>11. HistoryIsRecent'
    <2> SUFFICES ASSUME ~torn, NEW s \in Skills
                 PROVE IF written'[s] = <<>> THEN entry'[s] = NoEntry /\ history'[s] = <<>>
                       ELSE /\ [v |-> entry'[s].v, reg |-> entry'[s].reg] = Last(written'[s])
                            /\ history'[s] = LastOf(Front(written'[s]), HistoryMax)
      BY <1>1 DEF HistoryIsRecent
    <2>0. IF written[s] = <<>> THEN entry[s] = NoEntry /\ history[s] = <<>>
          ELSE /\ [v |-> entry[s].v, reg |-> entry[s].reg] = Last(written[s])
               /\ history[s] = LastOf(Front(written[s]), HistoryMax)
      BY <1>I DEF HistoryIsRecent
    <2>1. CASE s # c BY <1>8, <2>0, <2>1
    <2>2. CASE s = c
      <3>1. written[s] \in Seq(Releases) BY <1>T
      <3>2. /\ written'[s] # <<>> /\ Last(written'[s]) = Target /\ Front(written'[s]) = written[s]
        <4>1. written'[s] = Append(written[s], Target) BY <1>8, <2>2
        <4>2. /\ Append(written[s], Target) # <<>> /\ Last(Append(written[s], Target)) = Target
              /\ Front(Append(written[s], Target)) = written[s]
          BY <1>C, <3>1, FrontLastAppend
        <4> QED BY <4>1, <4>2
      <3>3. Target = [v |-> Target.v, reg |-> Target.reg] BY <1>C, InstallAssumption
      <3>4. [v |-> entry'[s].v, reg |-> entry'[s].reg] = Target BY <1>4, <1>8, <2>2, <3>3
      <3>5. history'[s] = LastOf(written[s], HistoryMax)
        <4>1. CASE written[s] = <<>>
          <5>1. history'[s] = <<>> BY <1>8, <2>0, <2>2, <4>1
          <5>2. Len(<<>>) = 0 /\ ~(0 > HistoryMax) BY InstallAssumption
          <5>3. LastOf(<<>>, HistoryMax) = SubSeq(<<>>, 1, 0) BY <5>2 DEF LastOf
          <5> QED BY <4>1, <5>1, <5>3, SubSeqEmpty
        <4>2. CASE written[s] # <<>>
          <5>1. Last(written[s]) \in Releases
            <6>1. Len(written[s]) \in 1 .. Len(written[s]) BY <3>1, <4>2, EmptySeq
            <6> QED BY <3>1, <6>1 DEF Last
          <5>2. entry[s] # NoEntry
            <6>1. entry[s].v = Last(written[s]).v BY <2>0, <4>2
            <6>2. Last(written[s]).v # 0 BY <5>1, InstallAssumption
            <6> QED BY <6>1, <6>2, NoTreeNoEntry
          <5>3. history'[s] = LastOf(Append(history[s], Last(written[s])), HistoryMax)
            BY <1>8, <2>0, <2>2, <4>2, <5>2 DEF Remembered
          <5> QED BY <2>0, <3>1, <4>2, <5>3, RememberedIsRecent, InstallAssumption
        <4> QED BY <4>1, <4>2
      <3> QED BY <3>2, <3>4, <3>5
    <2> QED BY <2>1, <2>2
  <1>12. EventsInv'
    <2>1. {c} \in SUBSET Skills BY <1>C
    <2>2. \A s \in Skills : IF s \in {c}
            THEN /\ inline'[s] = LastOf(Append(inline[s], happened[s] + 1), InlineMax)
                 /\ over'[s] = Overflow(s) /\ happened'[s] = happened[s] + 1
            ELSE inline'[s] = inline[s] /\ over'[s] = archived[s] /\ happened'[s] = happened[s]
      BY <1>8
    <2> QED BY <1>I, <1>1, <1>7, <2>1, <2>2, EventAdded
  <1>13. tree[Current].v = Target.v BY <1>I, <1>1, <1>2 DEF PlaceInv
  <1>14. entry'[Current].v = Target.v /\ \A s \in Skills \ {Current} : entry'[s] = entry[s]
    BY <1>4, <1>8 DEF c
  <1> QED BY <1>1, <1>2, <1>9, <1>10, <1>11, <1>12, <1>13, <1>14, MidKeeps

\* report --refresh: every entry is verified again, nothing else changes.
LEMMA RefreshWritesKeep == InstallInv /\ RefreshWrites => InstallInv'
  <1> SUFFICES ASSUME InstallInv, RefreshWrites PROVE InstallInv'
    OBVIOUS
  <1>I. InstallTypes /\ StandsInv /\ PlanInv /\ PlaceInv /\ HistoryIsRecent /\ EventsInv BY DEF InstallInv
  <1> DEFINE known == {s \in Skills : entry[s] # NoEntry}
  <1>1. /\ at = "manifest" /\ cmd = "refresh" /\ at' = "snapshot"
        /\ entry' = [s \in Skills |-> IF s \in known THEN Checked(s) ELSE entry[s]]
        /\ inline' = [s \in Skills |-> IF s \notin known THEN inline[s]
                        ELSE LastOf(Append(inline[s], happened[s] + 1), InlineMax)]
        /\ over' = [s \in Skills |-> IF s \notin known THEN archived[s] ELSE Overflow(s)]
        /\ happened' = [s \in Skills |-> happened[s] + (IF s \in known THEN 1 ELSE 0)]
        /\ UNCHANGED <<tree, aside, history, archived, torn, cmd, forced, queue, prev, written, excused, gap>>
    BY DEF RefreshWrites
  <1>2. queue = <<>> BY <1>I, <1>1 DEF StandsInv
  <1>T. /\ entry \in [Skills -> EntryType] /\ inline \in [Skills -> Seq(Nat)]
        /\ archived \in [Skills -> Seq(Nat)] /\ happened \in [Skills -> Nat]
        /\ \A s \in Skills : Len(history[s]) <= HistoryMax /\ Len(inline[s]) <= InlineMax
    BY <1>I DEF InstallTypes
  <1>3. ASSUME NEW s \in Skills
        PROVE  /\ entry'[s] \in EntryType /\ entry'[s].v = entry[s].v /\ entry'[s].reg = entry[s].reg
               /\ entry'[s] # NoEntry <=> entry[s] # NoEntry
    <2>1. CASE s \notin known BY <1>1, <1>T, <2>1
    <2>2. CASE s \in known
      <3>1. entry[s] # NoEntry /\ entry[s] \in EntryType BY <1>T, <2>2
      <3>2. /\ entry[s] \in EntryRecords /\ [v |-> entry[s].v, reg |-> entry[s].reg] \in Releases
            /\ entry[s].v \in Nat \ {0}
        BY <3>1, NoTreeNoEntry
      <3>3. entry'[s] = Checked(s) BY <1>1, <2>2
      <3> DEFINE e == Checked(s)
      <3>4. PICK state \in {"verified", "drifted", "unknown"} :
              e = [v |-> entry[s].v, reg |-> entry[s].reg, proof |-> entry[s].proof,
                   state |-> state, checked |-> "fresh"]
        BY DEF Checked, Entry
      <3> HIDE DEF e
      <3>5. e.v = entry[s].v /\ e.reg = entry[s].reg BY <3>4
      <3>6. e \in EntryRecords BY <3>2, <3>4 DEF EntryRecords
      <3>7. e \in EntryType BY <3>2, <3>5, <3>6 DEF EntryType
      <3>8. e # NoEntry BY <3>2, <3>5, NoTreeNoEntry
      <3> QED BY <3>1, <3>3, <3>5, <3>7, <3>8 DEF e
    <2> QED BY <2>1, <2>2
  <1>4. ASSUME NEW s \in Skills
        PROVE  /\ inline'[s] \in Seq(Nat) /\ Len(inline'[s]) <= InlineMax /\ over'[s] \in Seq(Nat)
               /\ happened'[s] \in Nat
               /\ IF s \in known
                  THEN /\ inline'[s] = LastOf(Append(inline[s], happened[s] + 1), InlineMax)
                       /\ over'[s] = Overflow(s) /\ happened'[s] = happened[s] + 1
                  ELSE inline'[s] = inline[s] /\ over'[s] = archived[s] /\ happened'[s] = happened[s]
    <2>1. happened[s] \in Nat /\ inline[s] \in Seq(Nat) /\ archived[s] \in Seq(Nat) /\ Len(inline[s]) <= InlineMax
      BY <1>T
    <2>2. /\ LastOf(Append(inline[s], happened[s] + 1), InlineMax) \in Seq(Nat)
          /\ Len(LastOf(Append(inline[s], happened[s] + 1), InlineMax)) <= InlineMax /\ Overflow(s) \in Seq(Nat)
      BY <1>I, CompactionTypes
    <2> HIDE DEF known
    <2>3. /\ inline'[s] = (IF s \notin known THEN inline[s] ELSE LastOf(Append(inline[s], happened[s] + 1), InlineMax))
          /\ over'[s] = (IF s \notin known THEN archived[s] ELSE Overflow(s))
          /\ happened'[s] = happened[s] + (IF s \in known THEN 1 ELSE 0)
      BY <1>1
    <2> QED BY <2>1, <2>2, <2>3
  <1> HIDE DEF known
  <1>5. /\ entry' \in [Skills -> EntryType] /\ inline' \in [Skills -> Seq(Nat)] /\ over' \in [Skills -> Seq(Nat)]
        /\ happened' \in [Skills -> Nat]
    BY <1>1, <1>3, <1>4
  <1>6. InstallTypes' BY <1>I, <1>1, <1>4, <1>5 DEF InstallTypes
  <1>7. StandsInv' BY <1>I, <1>1, <1>2 DEF StandsInv
  <1>8. HistoryIsRecent'
    <2> SUFFICES ASSUME ~torn, NEW s \in Skills
                 PROVE IF written[s] = <<>> THEN entry'[s] = NoEntry /\ history[s] = <<>>
                       ELSE /\ [v |-> entry'[s].v, reg |-> entry'[s].reg] = Last(written[s])
                            /\ history[s] = LastOf(Front(written[s]), HistoryMax)
      BY <1>1 DEF HistoryIsRecent
    <2> QED BY <1>I, <1>3 DEF HistoryIsRecent
  <1>9. EventsInv'
    <2>1. known \in SUBSET Skills BY DEF known
    <2> QED BY <1>I, <1>1, <1>4, <1>5, <2>1, EventAdded
  <1> QED BY <1>1, <1>2, <1>3, <1>6, <1>7, <1>8, <1>9, RefreshKeeps

\* The snapshot after the manifest, and the failures an install undoes.
LEMMA AfterManifestKeeps ==
  ASSUME InstallInv, ~Ends, SnapshotWrites \/ ManifestFails \/ ManifestBreaks \/ SnapshotFails
  PROVE  InstallInv'
  <1>I. InstallTypes /\ StandsInv /\ PlanInv /\ PlaceInv /\ HistoryIsRecent /\ EventsInv BY DEF InstallInv
  <1>C. queue # <<>> => Current \in Skills /\ Target.v \in Nat \ {0} BY <1>I, CurrentStep
  <1>T. excused \in [Skills -> {"no", "cut", "switch", "undone"}] /\ archived \in [Skills -> Seq(Nat)]
        /\ over \in [Skills -> Seq(Nat)] /\ gap \subseteq Skills
    BY <1>I DEF InstallTypes
  <1>1. CASE SnapshotWrites
    <2>1. /\ at = "snapshot" /\ at' = "done" /\ archived' = over
          /\ UNCHANGED <<tree, aside, entry, history, inline, torn, cmd, forced, queue, prev, over>>
          /\ UNCHANGED <<written, happened, excused, gap>>
      BY <1>1 DEF SnapshotWrites
    <2>2. InstallTypes' BY <1>I, <2>1 DEF InstallTypes
    <2>3. StandsInv' BY <1>I, <2>1 DEF StandsInv
    <2>4. HistoryIsRecent' BY <1>I, <2>1 DEF HistoryIsRecent
    <2>5. EventsInv' BY <1>I, <2>1 DEF EventsInv
    <2>6. CASE queue # <<>>
      <3>1. tree[Current].v = Target.v /\ entry[Current].v = Target.v BY <1>I, <2>1, <2>6 DEF PlaceInv
      <3> QED BY <2>1, <2>2, <2>3, <2>4, <2>5, <2>6, <3>1, MidKeeps
    <2>7. CASE queue = <<>>
      <3>1. cmd' # "install" BY <1>I, <2>1, <2>7 DEF StandsInv
      <3> QED BY <2>1, <2>2, <2>3, <2>4, <2>5, <2>7, <3>1, RefreshKeeps
    <2> QED BY <2>6, <2>7
  <1>2. CASE ManifestFails
    <2>1. /\ at = "manifest" /\ cmd = "install" /\ at' = "undo" /\ UNCHANGED <<cmd, forced, queue, prev, over>>
          /\ UNCHANGED <<tree, aside, entry, history, inline, archived, torn>>
          /\ UNCHANGED <<written, happened, gap, excused>>
      BY <1>2 DEF ManifestFails, GivesUp, AfterFailure, files
    <2>2. queue # <<>> BY <1>I, <2>1 DEF StandsInv
    <2>3. OldTree BY <1>I, <2>1 DEF PlaceInv
    <2>4. InstallTypes' BY <1>I, <2>1 DEF InstallTypes
    <2>5. StandsInv' BY <1>I, <2>1, <2>2 DEF StandsInv
    <2>6. HistoryIsRecent' BY <1>I, <2>1 DEF HistoryIsRecent
    <2>7. EventsInv' BY <1>I, <2>1 DEF EventsInv
    <2> QED BY <2>1, <2>2, <2>3, <2>4, <2>5, <2>6, <2>7, MidKeeps DEF OldTree
  <1>3. CASE SnapshotFails
    <2>1. /\ at = "snapshot" /\ cmd = "install" /\ at' = "undo" /\ UNCHANGED <<cmd, forced, queue, prev, over>>
          /\ UNCHANGED <<tree, aside, entry, history, inline, torn>> /\ archived' \in {archived, BrokenSnapshot}
          /\ UNCHANGED <<written, happened>> /\ excused' = Excuse(Current, "undone")
          /\ gap' = gap \cup {s \in Skills : over[s] # archived'[s]}
      BY <1>3 DEF SnapshotFails, SnapshotStops, GivesUp, AfterFailure
    <2>2. queue # <<>> BY <1>I, <2>1 DEF StandsInv
    <2>3. /\ excused' \in [Skills -> {"no", "cut", "switch", "undone"}] /\ excused'[Current] = "undone"
          /\ \A s \in Skills \ {Current} : excused'[s] = excused[s]
      BY <1>C, <1>T, <2>1, <2>2 DEF Excuse
    <2>4. EventsInv' /\ archived' \in [Skills -> Seq(Nat)]
      <3>1. gap \subseteq gap' /\ \A s \in Skills \ gap' : archived'[s] = IF at = "snapshot" THEN over[s] ELSE archived[s]
        BY <2>1
      <3> QED BY <1>I, <2>1, <3>1, EventsStay
    <2>5. InstallTypes' BY <1>I, <1>T, <2>1, <2>3, <2>4 DEF InstallTypes
    <2>6. StandsInv' BY <1>I, <2>1, <2>2 DEF StandsInv
    <2>7. HistoryIsRecent' BY <1>I, <2>1 DEF HistoryIsRecent
    <2> QED BY <2>1, <2>2, <2>3, <2>4, <2>5, <2>6, <2>7, MidKeeps
  <1>4. CASE ManifestBreaks
    <2>1. /\ at = "manifest" /\ cmd = "install" /\ at' = "undo" /\ UNCHANGED <<cmd, forced, queue, prev, over>>
          /\ UNCHANGED <<tree, aside, entry, history, inline, archived, written, happened>>
          /\ torn' = TRUE /\ excused' = [s \in Skills |-> "undone"] /\ gap' = Skills
      BY <1>4 DEF ManifestBreaks, GivesUp, AfterFailure
    <2>2. queue # <<>> BY <1>I, <2>1 DEF StandsInv
    <2>3. excused' \in [Skills -> {"no", "cut", "switch", "undone"}] /\ excused'[Current] = "undone"
      BY <1>C, <2>1, <2>2
    <2>4. EventsInv' /\ archived' \in [Skills -> Seq(Nat)] BY <1>I, <1>T, <2>1, EventsStay
    <2>5. InstallTypes' BY <1>I, <2>1, <2>3, <2>4 DEF InstallTypes
    <2>6. StandsInv' BY <1>I, <2>1, <2>2 DEF StandsInv
    <2>7. HistoryIsRecent' BY <2>1 DEF HistoryIsRecent
    <2> QED BY <2>1, <2>2, <2>3, <2>4, <2>5, <2>6, <2>7, MidKeeps
  <1> QED BY <1>1, <1>2, <1>3, <1>4

\* The next step of a plan begins where nothing of it was done yet.
LEMMA NextStepKeeps ==
  ASSUME InstallInv, ~Ends, StepDone
  PROVE  InstallInv'
  <1>I. InstallTypes /\ StandsInv /\ PlanInv /\ PlaceInv /\ HistoryIsRecent /\ EventsInv BY DEF InstallInv
  <1>1. /\ at = "done" /\ Len(queue) > 1 /\ queue' = Tail(queue) /\ at' = "stage" /\ prev' = NoTree
        /\ UNCHANGED <<tree, aside, entry, history, inline, archived, torn>>
        /\ UNCHANGED <<cmd, forced, over, written, happened, gap>>
        /\ excused' = (IF queue = <<>> THEN excused ELSE [excused EXCEPT ![Current] = "no"])
    BY DEF StepDone, files
  <1>2. queue # <<>> /\ queue \in Seq(StepType) BY <1>I, <1>1, EmptySeq DEF InstallTypes
  <1>C. /\ Current = queue[1].skill /\ Current \in Skills /\ Target.v \in Nat \ {0} /\ Len(queue) \in Nat
    BY <1>I, <1>2, CurrentStep
  <1>3. /\ queue' \in Seq(StepType) /\ Len(queue') = Len(queue) - 1
        /\ \A i \in 1 .. Len(queue') : queue'[i] = queue[i + 1]
    BY <1>1, <1>2, HeadTailProperties
  <1>4. queue' # <<>>
    <2> DEFINE m == Len(queue)
    <2>1. m \in Nat /\ m > 1 /\ Len(queue') = m - 1 BY <1>1, <1>3, <1>C
    <2> HIDE DEF m
    <2>2. m - 1 # 0 BY <2>1
    <2>3. Len(<<>>) = 0 OBVIOUS
    <2> QED BY <2>1, <2>2, <2>3
  <1>5. /\ excused' \in [Skills -> {"no", "cut", "switch", "undone"}]
        /\ \A s \in Skills \ {Current} : excused'[s] = excused[s]
    BY <1>I, <1>1, <1>2, <1>C DEF InstallTypes
  <1>6. tree[Current].v = Target.v /\ entry[Current].v = Target.v /\ tree[Current] # NoTree
    BY <1>I, <1>1, <1>2, <1>C, NoTreeNoEntry DEF PlaceInv
  <1>7. InstallTypes' BY <1>I, <1>1, <1>3, <1>5, NoTreeNoEntry DEF InstallTypes
  <1>8. StandsInv' BY <1>I, <1>1, <1>2, <1>4 DEF StandsInv
  <1>9. PlanInv'
    <2>1. ASSUME NEW i \in 1 .. Len(queue'), NEW j \in 1 .. Len(queue'), queue'[i].skill = queue'[j].skill PROVE i = j
      <3>1. i + 1 \in 1 .. Len(queue) /\ j + 1 \in 1 .. Len(queue) BY <1>3, <1>C
      <3>2. i + 1 = j + 1 BY <1>I, <1>3, <2>1, <3>1 DEF PlanInv
      <3> QED BY <3>2
    <2>2. ASSUME NEW i \in 1 .. Len(queue') PROVE MayReplace(queue[i].skill, queue[i].rel)'
      <3>1. i + 1 \in 1 .. Len(queue) /\ i + 1 > 1 BY <1>3, <1>C
      <3>2. MayReplace(queue[i + 1].skill, queue[i + 1].rel) BY <1>I, <3>1 DEF PlanInv
      <3>3. queue'[i] = queue[i + 1] BY <1>3
      <3> QED BY <1>1, <3>2, <3>3 DEF MayReplace
    <2> QED BY <2>1, <2>2 DEF PlanInv
  <1>10. PlaceInv'
    <2>1. \A s \in Skills : excused'[s] = "no" => tree[s].v = entry[s].v
      BY <1>I, <1>5, <1>6 DEF PlaceInv, Replacing
    <2>2. \A s \in Skills : entry[s] # NoEntry /\ tree[s] = NoTree => s \in aside \/ excused'[s] = "undone"
      BY <1>I, <1>5, <1>6 DEF PlaceInv, NothingLost
    <2>3. NothingLost' BY <1>1, <2>2 DEF NothingLost
    <2> QED BY <1>1, <2>1, <2>3 DEF PlaceInv
  <1>11. HistoryIsRecent' BY <1>I, <1>1 DEF HistoryIsRecent
  <1>12. EventsInv' BY <1>I, <1>1 DEF EventsInv
  <1> QED BY <1>7, <1>8, <1>9, <1>10, <1>11, <1>12 DEF InstallInv

\* Every step keeps the invariant.
LEMMA InstallStep == InstallInv /\ [InstallNext]_installVars => InstallInv'
  <1> SUFFICES ASSUME InstallInv, [InstallNext]_installVars PROVE InstallInv'
    OBVIOUS
  <1>1. CASE UNCHANGED installVars
    BY <1>1 DEF installVars, InstallInv, InstallTypes, StandsInv, PlanInv, MayReplace, PlaceInv, Replacing, OldTree,
                NothingLost, Current, Target, HistoryIsRecent, EventsInv
  <1>2. CASE /\ Ends
             /\ \/ StageFails \/ MoveFails \/ MoveBackFails \/ ManifestFails \/ ManifestBreaks \/ SnapshotFails
                \/ PutsBack \/ PutBackFails \/ StepDone \/ Killed \/ KilledWriting
    BY <1>2, StopsKeep
  <1>3. CASE \E s \in Skills : Edits(s) \/ LosesProof(s) \/ Ages(s)
    BY <1>3, SurroundingsKeep
  <1>4. CASE ~Ends /\ (SnapshotWrites \/ ManifestFails \/ ManifestBreaks \/ SnapshotFails)
    BY <1>4, AfterManifestKeeps
  <1>5. CASE ~Ends /\ StepDone
    BY <1>5, NextStepKeeps
  <1>6. CASE MovesAway \/ MovesIn \/ DropsBackup \/ Undoes
    BY <1>6, SwapsKeep
  <1>7. CASE ManifestWrites
    BY <1>7, ManifestKeeps
  <1>8. CASE RefreshWrites
    BY <1>8, RefreshWritesKeep
  <1>9. StageFails \/ MoveFails \/ MoveBackFails \/ PutsBack \/ PutBackFails \/ Killed \/ KilledWriting => Ends
    BY DEF StageFails, MoveFails, MoveBackFails, PutsBack, PutBackFails, Killed, KilledWriting
  <1>10. SnapshotWrites => ~Ends
    BY DEF SnapshotWrites, Ends
  <1> QED BY <1>1, <1>2, <1>3, <1>4, <1>5, <1>6, <1>7, <1>8, <1>9, <1>10, StartsKeep DEF InstallNext

\* The invariant holds in every reachable state.
THEOREM InstallInvariant == InstallSpec => []InstallInv
  <1> QED BY InitInstallInv, InstallStep, PTL DEF InstallSpec

\* What the invariant says between commands and of each step.
LEMMA InstalledIsSafe ==
  ASSUME InstallInv
  PROVE  InstallTypeOK /\ ManifestMatchesTree /\ NothingLost /\ HistoryIsRecent /\ EventsKept
  <1>I. InstallTypes /\ StandsInv /\ PlanInv /\ PlaceInv /\ HistoryIsRecent /\ EventsInv BY DEF InstallInv
  <1>1. InstallTypeOK
    <2>1. ASSUME NEW s \in Skills
          PROVE entry[s] = NoEntry \/ [v |-> entry[s].v, reg |-> entry[s].reg] \in Releases
      <3>1. entry[s] \in EntryType BY <1>I DEF InstallTypes
      <3> QED BY <3>1, NoTreeNoEntry
    <2> QED BY <1>I, <2>1 DEF InstallTypeOK, InstallTypes, StandsInv, TreeType, StepType
  <1>2. ManifestMatchesTree
    BY <1>I DEF ManifestMatchesTree, PlaceInv, Replacing, StandsInv
  <1>3. EventsKept
    <2> SUFFICES ASSUME at = "idle", NEW s \in Skills
                 PROVE /\ inline[s] = LastOf([n \in 1 .. happened[s] |-> n], InlineMax)
                       /\ Ascending(archived[s], happened[s] - Len(inline[s]))
                       /\ s \in gap \/ archived[s] \o inline[s] = [n \in 1 .. happened[s] |-> n]
      BY DEF EventsKept
    <2>1. /\ Recent(inline[s], happened[s], InlineMax) /\ Ascending(archived[s], happened[s] - Len(inline[s]))
          /\ s \in gap \/ InOrder(archived[s], inline[s], happened[s])
      BY <1>I DEF EventsInv
    <2>2. archived[s] \in Seq(Nat) /\ inline[s] \in Seq(Nat) /\ happened[s] \in Nat BY <1>I DEF InstallTypes
    <2>3. inline[s] = LastOf([n \in 1 .. happened[s] |-> n], InlineMax)
      BY <2>1, <2>2, RecentIsLast, InstallAssumption
    <2>4. s \in gap \/ archived[s] \o inline[s] = [n \in 1 .. happened[s] |-> n]
      BY <2>1, <2>2, OrderIsComplete
    <2> QED BY <2>1, <2>3, <2>4
  <1> QED BY <1>I, <1>1, <1>2, <1>3 DEF PlaceInv

\* A tree the user has edited is replaced only when a gate let it.
LEMMA EditsAreKept == InstallInv /\ [InstallNext]_installVars => LocalEditsKept
  <1> SUFFICES ASSUME InstallInv, InstallNext, NEW s \in Skills, at = "stage", tree[s].drift, tree'[s] # tree[s]
               PROVE  \/ forced
                      \/ cmd = "install" /\ s # Root /\ Target.reg # entry[s].reg
                      \/ entry[s].proof # "signed"
    BY DEF LocalEditsKept, installVars
  <1>I. InstallTypes /\ StandsInv /\ PlanInv BY DEF InstallInv
  <1>1. queue # <<>> BY <1>I DEF StandsInv
  <1>C. /\ Len(queue) \in Nat \ {0} /\ Current = queue[1].skill /\ Target = queue[1].rel
    BY <1>I, <1>1, CurrentStep
  <1>2. s = Current
    <2> SUFFICES ASSUME s # Current PROVE tree'[s] = tree[s]
      OBVIOUS
    <2>1. tree \in [Skills -> TreeType] BY <1>I DEF InstallTypes
    <2> QED BY <2>1 DEF InstallNext, StartInstall, StartSwitch, StartUpgrade, StartSync, StartRollback, StartRepair,
          StartRefresh, Begins, Idle, Edits, LosesProof, Ages, StageFails, MovesAway, MovesIn, MoveFails, MoveBackFails,
          DropsBackup, ManifestWrites, RefreshWrites, ManifestFails, ManifestBreaks, SnapshotWrites, SnapshotFails, Undoes, PutsBack,
          PutBackFails, StepDone, Killed, KilledWriting, files
  <1>3. MayReplace(queue[1].skill, queue[1].rel) BY <1>I, <1>C DEF PlanInv
  <1> QED BY <1>C, <1>2, <1>3 DEF MayReplace

\* After any failure and any kill, manifest and tree agree or the exception is a
\* known one, no tree and no part of the history is lost, events only with a snapshot
\* cut short, and edits that can be seen are replaced only when asked (the commands
\* of src/infinitas_skill/install).
THEOREM InstallCorrect == InstallSpec => InstallIsSafe
  <1>1. InstallInv /\ InstallInv' /\ [InstallNext]_installVars =>
          [/\ (InstallTypeOK /\ ManifestMatchesTree /\ NothingLost /\ HistoryIsRecent /\ EventsKept)'
           /\ LocalEditsKept]_installVars
    <2>1. InstallInv => InstallTypeOK /\ ManifestMatchesTree /\ NothingLost /\ HistoryIsRecent /\ EventsKept
      BY InstalledIsSafe
    <2>2. InstallInv' => (InstallTypeOK /\ ManifestMatchesTree /\ NothingLost /\ HistoryIsRecent /\ EventsKept)'
      BY <2>1, PTL
    <2> QED BY <2>2, EditsAreKept
  <1> QED BY InstallInvariant, <1>1, PTL DEF InstallSpec, InstallIsSafe

-------------------------------------------------------------------------------
(* Registries: RegistrySync.  The refresh state may be written because what   *)
(* was fetched is at least as new as what it said before (SaidInv), and a     *)
(* failing sync can undo itself because the cache set aside is the one it     *)
(* found (AsideInv).                                                          *)

Generation == [CatalogKeys -> Nat]

SyncTypeOK ==
    /\ how \in {"http", "track", "pinned"}
    /\ upstream \in Nat /\ upstream >= 1
    /\ cache \in Generation /\ previous \in Generation
    /\ fetched \in Generation /\ said \in Generation
    /\ doing \in {"idle", "fetch", "aside", "in", "state", "drop", "remove", "restore",
                  "clone", "checkout", "copy"}

HttpOnly == {"fetch", "aside", "in", "drop", "remove", "restore"}

\* Steps at which fetched is what was downloaded, not what a snapshot copied.
Downloads == HttpOnly \cup {"state", "clone", "checkout"}

AtLeastSaid(got) == \A k \in CatalogKeys : got[k] # 0 => got[k] >= said[k]

SaidInv ==
    /\ \A k \in CatalogKeys : said[k] <= upstream /\ (how = "pinned" => said[k] <= Pin)
    /\ doing \in Downloads =>
         /\ AtLeastSaid(fetched)
         /\ \A k \in CatalogKeys : fetched[k] <= upstream /\ (how = "pinned" => fetched[k] <= Pin)

AsideInv ==
    /\ doing \in HttpOnly => how = "http"
    /\ doing \in {"clone", "checkout", "copy"} => how # "http"
    /\ doing \in {"state", "drop"} => cache = fetched
    /\ doing \in {"fetch", "aside"} => cache = before
    /\ doing \in {"in", "state", "remove", "restore"} /\ how = "http" =>
         previous = before /\ AtLeastSaid(previous)
    /\ doing \in {"fetch", "aside", "in", "state", "drop", "clone", "checkout"} => ~broke

SyncInv == SyncTypeOK /\ SaidInv /\ AsideInv /\ SyncIsSafe

\* The initial state satisfies the invariant.
LEMMA InitSyncInv == SyncInit => SyncInv
  BY DEF SyncInit, SyncInv, SyncTypeOK, Generation, SaidInv, AsideInv, AtLeastSaid, Downloads, HttpOnly,
     SyncIsSafe, NeverOlderThanSaid, FailedSyncChangesNothing, ListedSnapshotsAreWhole, Nothing, All,
     Rests, Pin

\* Every step keeps the invariant.
LEMMA SyncStep == SyncInv /\ [SyncNext]_syncVars => SyncInv'
  <1> SUFFICES ASSUME SyncInv, [SyncNext]_syncVars PROVE SyncInv'
    OBVIOUS
  <1>I. /\ SyncTypeOK /\ SaidInv /\ AsideInv
        /\ NeverOlderThanSaid /\ FailedSyncChangesNothing /\ ListedSnapshotsAreWhole
    BY DEF SyncInv, SyncIsSafe
  <1>N. Nothing \in Generation /\ \A k \in CatalogKeys : Nothing[k] = 0
    BY DEF Nothing, All, Generation
  <1>B. /\ \A t \in Generation, u \in Generation :
             t = u <=> \A k \in CatalogKeys : t[k] = u[k]
        /\ Pin \in Nat
    BY DEF Generation, Pin
  <1> USE DEF SyncTypeOK, SaidInv, AsideInv, AtLeastSaid, Downloads, HttpOnly,
              NeverOlderThanSaid, FailedSyncChangesNothing, Rests
  \* Only Describes lists a snapshot.
  <1>L. ASSUME UNCHANGED snapshots PROVE ListedSnapshotsAreWhole'
    BY <1>I, <1>L DEF ListedSnapshotsAreWhole
  <1>C. ASSUME SyncTypeOK', SaidInv', AsideInv', NeverOlderThanSaid', FailedSyncChangesNothing',
               ListedSnapshotsAreWhole'
        PROVE SyncInv'
    BY <1>C DEF SyncInv, SyncIsSafe
  <1>1. CASE Publishes
    BY <1>1, <1>I, <1>L, <1>C DEF Publishes, Generation
  <1>2. CASE HttpStarts
    BY <1>2, <1>I, <1>N, <1>L, <1>C DEF HttpStarts, Begin
  <1>3. ASSUME NEW k \in CatalogKeys, Fetches(k) PROVE SyncInv'
    <2>1. /\ doing = "fetch" /\ fetched' = [fetched EXCEPT ![k] = upstream] /\ doing' \in {"fetch", "aside"}
          /\ UNCHANGED <<how, upstream, cache, previous, said, snapshots, before, broke, head>>
      BY <1>3 DEF Fetches
    <2>2. fetched' \in Generation BY <1>I, <2>1 DEF Generation
    <2>3. \A j \in CatalogKeys : fetched'[j] = IF j = k THEN upstream ELSE fetched[j]
      BY <1>I, <2>1 DEF Generation
    <2>4. how = "http" BY <1>I, <2>1
    <2>5. SaidInv' BY <1>I, <2>1, <2>3, <2>4 DEF Generation
    <2> QED BY <1>I, <2>1, <2>2, <2>5, <1>L, <1>C
  <1>4. CASE FetchFails
    BY <1>4, <1>I, <1>L, <1>C DEF FetchFails, Fails
  <1>5. CASE SetsAside
    BY <1>5, <1>I, <1>N, <1>L, <1>C DEF SetsAside
  <1>6. CASE MovesCacheIn
    BY <1>6, <1>I, <1>L, <1>C DEF MovesCacheIn
  <1>7. CASE MoveInFails
    BY <1>7, <1>I, <1>N, <1>L, <1>C DEF MoveInFails, Fails
  <1>8. CASE WritesState
    <2>1. /\ doing = "state" /\ said' = fetched /\ cache = fetched
          /\ doing' = (IF how = "http" THEN "drop" ELSE "idle")
          /\ UNCHANGED <<how, upstream, cache, previous, fetched, snapshots, before, broke, head>>
      BY <1>8, <1>I DEF WritesState
    <2>2. AtLeastSaid(fetched)' /\ NeverOlderThanSaid' BY <1>I, <2>1 DEF Generation
    <2>3. SaidInv' BY <1>I, <2>1, <2>2
    <2> QED BY <1>I, <2>1, <2>2, <2>3, <1>L, <1>C
  <1>9. CASE StateFails
    BY <1>9, <1>I, <1>L, <1>C DEF StateFails, AfterStateFails, SaidAfterFailure
  <1>10. CASE RemovesCache
    BY <1>10, <1>I, <1>N, <1>L, <1>C DEF RemovesCache
  <1>11. CASE RestoresCache
    BY <1>11, <1>I, <1>N, <1>L, <1>C DEF RestoresCache
  <1>12. CASE DropsPrevious
    BY <1>12, <1>I, <1>N, <1>L, <1>C DEF DropsPrevious
  <1>13. ASSUME NEW force \in BOOLEAN, GitStarts(force) PROVE SyncInv'
    <2>1. /\ how # "http" /\ doing' = "clone" /\ fetched' = Nothing /\ cache' \in {cache, Nothing}
          /\ broke' = FALSE
          /\ UNCHANGED <<how, upstream, previous, said, snapshots>>
      BY <1>13 DEF GitStarts, Begin
    <2>2. NeverOlderThanSaid' BY <1>I, <1>N, <2>1
    <2>3. SyncTypeOK' BY <1>I, <1>N, <2>1
    <2>Z. \A k \in CatalogKeys : fetched'[k] = 0 BY <1>N, <2>1
    <2>4. SaidInv' BY <1>I, <2>1, <2>Z DEF Pin
    <2>5. AsideInv' BY <1>I, <2>1
    <2> QED BY <2>1, <2>2, <2>3, <2>4, <2>5, <1>L, <1>C
  <1>14. CASE Clones
    BY <1>14, <1>I, <1>L, <1>C DEF Clones
  <1>15. CASE GitFetches
    <2>1. /\ fetched' = All(IF how = "pinned" THEN Pin ELSE upstream) /\ doing' = "checkout"
          /\ doing = "clone"
          /\ UNCHANGED <<how, upstream, cache, previous, said, snapshots, before, broke, head>>
      BY <1>15 DEF GitFetches
    <2>2. /\ fetched' \in Generation
          /\ \A k \in CatalogKeys : fetched'[k] = IF how = "pinned" THEN Pin ELSE upstream
      BY <1>I, <2>1 DEF All, Generation, Pin
    <2>3. SaidInv' BY <1>I, <2>1, <2>2 DEF Generation, Pin
    <2> QED BY <1>I, <2>1, <2>2, <2>3, <1>L, <1>C
  <1>16. ASSUME NEW parts \in SUBSET CatalogKeys, ChecksOut(parts) PROVE SyncInv'
    <2>1. /\ doing = "checkout" /\ how # "http"
          /\ cache' = [k \in CatalogKeys |-> IF k \in parts THEN fetched[k] ELSE cache[k]]
          /\ doing' = "checkout" \/ (doing' = "state" /\ cache' = fetched)
          /\ UNCHANGED <<how, upstream, previous, fetched, said, snapshots, before, broke>>
      BY <1>16, <1>I DEF ChecksOut
    <2>2. cache' \in Generation BY <1>I, <2>1 DEF Generation
    <2>3. NeverOlderThanSaid' BY <1>I, <2>1
    <2>4. SaidInv' BY <1>I, <2>1
    <2>5. SyncTypeOK' BY <1>I, <2>1, <2>2
    <2>6. AsideInv' BY <1>I, <2>1
    <2> QED BY <2>1, <2>3, <2>4, <2>5, <2>6, <1>L, <1>C
  <1>17. CASE GitFails
    BY <1>17, <1>I, <1>L, <1>C DEF GitFails, Fails
  <1>18. CASE SnapshotStarts
    BY <1>18, <1>I, <1>N, <1>L, <1>C DEF SnapshotStarts, Begin
  <1>19. ASSUME NEW k \in CatalogKeys, CopiesPart(k) PROVE SyncInv'
    <2>1. fetched' \in Generation BY <1>I, <1>19 DEF CopiesPart, Generation
    <2> QED BY <1>19, <1>I, <2>1, <1>L, <1>C DEF CopiesPart
  <1>20. CASE Describes
    <2> DEFINE new == [tree |-> fetched, listed |-> TRUE, commit |-> head, clean |-> cache = All(head)]
    <2>1. /\ doing = "copy" /\ fetched = cache /\ snapshots' = snapshots \cup {new} /\ doing' = "idle"
          /\ UNCHANGED <<how, upstream, cache, previous, fetched, said, before, broke, head>>
      BY <1>20 DEF Describes, Described
    <2>2. new.clean => new.tree = All(new.commit) BY <2>1
    <2> HIDE DEF new
    <2>3. ListedSnapshotsAreWhole' BY <1>I, <2>1, <2>2 DEF ListedSnapshotsAreWhole
    <2> QED BY <1>I, <2>1, <2>3, <1>C
  <1>21. CASE SyncKilled
    <2> DEFINE new == [tree |-> fetched, listed |-> FALSE, commit |-> 0, clean |-> FALSE]
    <2>1. /\ snapshots' \in {snapshots, snapshots \cup {new}} /\ doing' = "idle" /\ broke' = FALSE
          /\ previous' = Nothing
          /\ UNCHANGED <<how, upstream, cache, fetched, said, before, head>>
      BY <1>21 DEF SyncKilled
    <2>2. ~new.listed OBVIOUS
    <2> HIDE DEF new
    <2>3. ListedSnapshotsAreWhole' BY <1>I, <2>1, <2>2 DEF ListedSnapshotsAreWhole
    <2> QED BY <1>I, <1>N, <2>1, <2>3, <1>C
  <1>22. CASE UNCHANGED syncVars
    BY <1>22, <1>I, <1>L, <1>C DEF syncVars
  <1> QED
    BY <1>1, <1>2, <1>3, <1>4, <1>5, <1>6, <1>7, <1>8, <1>9, <1>10, <1>11, <1>12, <1>13, <1>14, <1>15,
       <1>16, <1>17, <1>18, <1>19, <1>20, <1>21, <1>22
       DEF SyncNext

\* The invariant holds in every reachable state.
THEOREM SyncInvariant == SyncSpec => []SyncInv
  BY InitSyncInv, SyncStep, PTL DEF SyncSpec

\* Whatever fails and whenever the command is killed, the refresh state never
\* promises more than the cache holds, a failed http sync leaves the cache it
\* found, and a listed snapshot is a whole copy (sync.py, snapshot.py).
THEOREM SyncCorrect == SyncSpec => []SyncIsSafe
  <1>1. SyncInv => SyncIsSafe BY DEF SyncInv
  <1> QED BY SyncInvariant, <1>1, PTL

-------------------------------------------------------------------------------
(* Backups: Backup.  What the database's rows name was stored, and is there   *)
(* or deleted; so is a copy of the rows taken before the artifacts, when they *)
(* are archived (CopiesInv).  A receipt is written only for an archive that   *)
(* was read back, and what a prune deletes has one (ReceiptsInv).             *)

Kept ==
    [rows : SUBSET Artifacts, files : SUBSET Artifacts, deleted : SUBSET Artifacts,
     whole : BOOLEAN, manifest : BOOLEAN]

BackupTypeOK ==
    /\ stored \subseteq Artifacts /\ deleted \subseteq Artifacts /\ expiring \subseteq Artifacts
    /\ named \cup uploading \subseteq stored \cup deleted
    /\ staging \in [step : {"idle", "bundle", "database", "artifacts", "manifest", "publish"},
                    rows : SUBSET Artifacts, files : SUBSET Artifacts, deleted : SUBSET Artifacts]
    /\ kept \in [DOMAIN kept -> Kept] /\ DOMAIN kept \subseteq published
    /\ published \subseteq Names /\ IsFiniteSet(published)
    /\ remote \in [Names -> {"none", "part", "whole"}]
    /\ remoteReceipt \subseteq Names /\ localReceipt \subseteq remoteReceipt
    /\ exporting.step \in {"idle", "look", "verify", "receipt"}

CopiesInv ==
    /\ staging.step = "artifacts" => staging.rows \subseteq stored \cup deleted
    /\ staging.step \in {"manifest", "publish"} => staging.rows \ staging.files \subseteq staging.deleted
    /\ staging.step # "idle" => Cardinality(published) < LastBackup

ReceiptsInv ==
    /\ \A n \in remoteReceipt : remote[n] = "whole"
    /\ pruning \subseteq remoteReceipt
    /\ exporting.step # "idle" => exporting.name \in Names
    /\ exporting.step = "receipt" => exporting.name \in remoteReceipt

BackupInv == BackupTypeOK /\ CopiesInv /\ ReceiptsInv /\ BackupIsConsistent /\ NoBackupIsLost

\* The initial state satisfies the invariant.
LEMMA InitBackupInv == BackupInit => BackupInv
  <1> SUFFICES ASSUME BackupInit PROVE BackupInv
    OBVIOUS
  <1>1. kept \in [DOMAIN kept -> Kept] /\ DOMAIN kept = {}
    BY DEF BackupInit
  <1>2. IsFiniteSet({}) BY FS_EmptySet
  <1> QED BY <1>1, <1>2
    DEF BackupInit, BackupInv, BackupTypeOK, CopiesInv, ReceiptsInv, BackupIsConsistent, NoBackupIsLost,
        NotRunning, InStaging, At

\* Every step keeps the invariant, and no upload is overwritten.
LEMMA BackupStep == BackupInv /\ [BackupNext]_backupVars => BackupInv' /\ UploadsAreKept
  <1> SUFFICES ASSUME BackupInv, [BackupNext]_backupVars PROVE BackupInv' /\ UploadsAreKept
    OBVIOUS
  <1>I. BackupTypeOK /\ CopiesInv /\ ReceiptsInv /\ BackupIsConsistent /\ NoBackupIsLost
    BY DEF BackupInv
  <1> USE DEF BackupTypeOK, CopiesInv, ReceiptsInv, BackupIsConsistent, NoBackupIsLost, UploadsAreKept
  <1>1. ASSUME NEW a \in Artifacts,
               WebStores(a) \/ WebCommits(a) \/ WebCleansUp(a) \/ WebPrunes(a) \/ WebExpires(a)
        PROVE BackupInv' /\ UploadsAreKept
    <2>1. UNCHANGED <<staging, kept, published, remote, remoteReceipt, localReceipt, exporting, pruning>>
      BY <1>1 DEF WebStores, WebCommits, WebCleansUp, WebPrunes, WebExpires, others
    <2>2. /\ stored' \subseteq Artifacts /\ deleted' \subseteq Artifacts /\ expiring' \subseteq Artifacts
          /\ named' \cup uploading' \subseteq stored' \cup deleted'
          /\ stored \cup deleted \subseteq stored' \cup deleted'
      BY <1>1, <1>I DEF WebStores, WebCommits, WebCleansUp, WebPrunes, WebExpires, Deletes
    <2> QED BY <1>I, <2>1, <2>2 DEF BackupInv
  <1>2. CASE BackupStarts \/ BackupStops
    BY <1>2, <1>I DEF BackupStarts, BackupStops, NotRunning, InStaging, store, BackupInv
  <1>3. CASE BackupCopies
    <2>1. staging' = InStaging(StepAfter(staging.step),
                         IF staging.step = "database" THEN named ELSE staging.rows,
                         IF staging.step = "artifacts" THEN stored ELSE staging.files,
                         IF staging.step = "artifacts" THEN deleted ELSE staging.deleted)
      BY <1>3 DEF BackupCopies
    <2>2. CopiesInv' /\ BackupTypeOK' BY <1>3, <1>I, <2>1 DEF BackupCopies, InStaging, StepAfter, store
    <2> QED BY <1>3, <1>I, <2>2 DEF BackupCopies, store, BackupInv
  <1>4. CASE BackupPublishes
    <2> DEFINE n == Cardinality(published) + 1
               new == Directory(staging, TRUE, TRUE)
    <2>1. /\ staging.step = "publish" /\ staging' = NotRunning
          /\ kept' = [m \in DOMAIN kept \cup {n} |-> IF m = n THEN new ELSE kept[m]]
          /\ published' = published \cup {n}
          /\ UNCHANGED <<stored, named, uploading, expiring, deleted>>
          /\ UNCHANGED <<remote, remoteReceipt, localReceipt, exporting, pruning>>
      BY <1>4 DEF BackupPublishes, store
    <2>2. n \in Names
      BY <1>I, <2>1, FS_CardinalityType, BackupAssumption DEF Names
    <2>3. new \in Kept /\ new.whole /\ new.rows \ new.files \subseteq new.deleted
      BY <1>I, <2>1 DEF Directory, Kept
    <2> HIDE DEF n, new
    <2>4. /\ DOMAIN kept' = DOMAIN kept \cup {n} /\ kept' \in [DOMAIN kept' -> Kept]
          /\ kept'[n] = new /\ \A m \in DOMAIN kept : m # n => kept'[m] = kept[m]
      BY <1>I, <2>1, <2>3
    <2>5. IsFiniteSet(published') BY <1>I, <2>1, FS_AddElement
    <2>6. BackupTypeOK' BY <1>I, <2>1, <2>2, <2>4, <2>5 DEF NotRunning, InStaging
    <2>7. BackupIsConsistent' BY <1>I, <2>3, <2>4
    <2>8. NoBackupIsLost' BY <1>I, <2>1, <2>3, <2>4
    <2> QED BY <1>I, <2>1, <2>6, <2>7, <2>8 DEF NotRunning, InStaging, BackupInv
  <1>5. CASE PruneStarts
    <2>1. pruning' = Doomed /\ Doomed \subseteq localReceipt
      BY <1>5 DEF PruneStarts, Doomed, Prunable
    <2> QED BY <1>5, <1>I, <2>1 DEF PruneStarts, store, BackupInv
  <1>6. ASSUME NEW manifest \in BOOLEAN, PruneDamages(manifest) PROVE BackupInv' /\ UploadsAreKept
    <2>1. PICK n \in pruning \cap DOMAIN kept :
             kept' = [kept EXCEPT ![n] = Directory(NotRunning, FALSE, manifest)]
      BY <1>6 DEF PruneDamages
    <2>2. /\ UNCHANGED <<stored, named, uploading, expiring, deleted>>
          /\ UNCHANGED <<staging, published, remote, remoteReceipt, localReceipt, exporting, pruning>>
      BY <1>6 DEF PruneDamages, store
    <2>3. Directory(NotRunning, FALSE, manifest) \in Kept /\ ~Directory(NotRunning, FALSE, manifest).whole
      BY DEF Directory, Kept, NotRunning, InStaging
    <2>4. /\ DOMAIN kept' = DOMAIN kept /\ kept' \in [DOMAIN kept' -> Kept] /\ ~kept'[n].whole
          /\ \A m \in DOMAIN kept : m # n => kept'[m] = kept[m]
      BY <1>I, <2>1, <2>3
    <2>5. remote[n] = "whole" /\ n \in remoteReceipt BY <1>I
    <2>6. BackupIsConsistent' BY <1>I, <2>4
    <2>7. NoBackupIsLost' BY <1>I, <2>2, <2>4, <2>5
    <2> QED BY <1>I, <2>2, <2>4, <2>6, <2>7 DEF BackupInv
  <1>7. CASE PruneDeletes
    <2>1. PICK n \in pruning :
             kept' = [m \in DOMAIN kept \ {n} |-> kept[m]] /\ pruning' = pruning \ {n}
      BY <1>7 DEF PruneDeletes
    <2>2. /\ UNCHANGED <<stored, named, uploading, expiring, deleted>>
          /\ UNCHANGED <<staging, published, remote, remoteReceipt, localReceipt, exporting>>
      BY <1>7 DEF PruneDeletes, store
    <2>4. /\ DOMAIN kept' = DOMAIN kept \ {n} /\ kept' \in [DOMAIN kept' -> Kept]
          /\ \A m \in DOMAIN kept' : kept'[m] = kept[m]
      BY <1>I, <2>1
    <2>5. remote[n] = "whole" /\ n \in remoteReceipt BY <1>I
    <2>6. BackupIsConsistent' BY <1>I, <2>4
    <2>7. NoBackupIsLost' BY <1>I, <2>2, <2>4, <2>5
    <2> QED BY <1>I, <2>1, <2>2, <2>4, <2>6, <2>7 DEF BackupInv
  <1>8. CASE PruneStops
    BY <1>8, <1>I DEF PruneStops, store, BackupInv
  <1>9. CASE ExportStarts
    <2>1. PICK n \in PendingExports : exporting' = At("look", n)
      BY <1>9 DEF ExportStarts
    <2>2. n \in Names BY <1>I DEF PendingExports, Listed
    <2> QED BY <1>9, <1>I, <2>1, <2>2 DEF ExportStarts, At, store, BackupInv
  <1>10. CASE ExportRecovers \/ ExportRecords
    BY <1>10, <1>I DEF ExportRecovers, ExportRecords, At, store, BackupInv
  <1>11. ASSUME NEW result \in {"part", "whole"}, ExportUploads(result)
         PROVE BackupInv' /\ UploadsAreKept
    <2>1. /\ exporting.step = "look" /\ exporting.name \notin remoteReceipt /\ remote[exporting.name] = "none"
          /\ remote' = [remote EXCEPT ![exporting.name] = result]
          /\ exporting' = At("verify", exporting.name)
          /\ UNCHANGED <<stored, named, uploading, expiring, deleted>>
          /\ UNCHANGED <<staging, kept, published, remoteReceipt, localReceipt, pruning>>
      BY <1>11 DEF ExportUploads, MayUpload, store
    <2>2. \A m \in Names : remote[m] # "none" => remote'[m] = remote[m] BY <1>I, <2>1
    <2>3. ReceiptsInv' BY <1>I, <2>1, <2>2 DEF At
    <2>4. NoBackupIsLost' BY <1>I, <2>1, <2>2
    <2>5. BackupTypeOK' BY <1>I, <2>1 DEF At
    <2> QED BY <1>I, <2>1, <2>2, <2>3, <2>4, <2>5 DEF BackupInv
  <1>12. CASE ExportVerifies
    BY <1>12, <1>I DEF ExportVerifies, ReadsBack, At, store, BackupInv
  <1>13. CASE ExportStops
    BY <1>13, <1>I DEF ExportStops, At, store, BackupInv
  <1>14. CASE UNCHANGED backupVars
    BY <1>14, <1>I DEF backupVars, store, others, BackupInv
  <1> QED
    BY <1>1, <1>2, <1>3, <1>4, <1>5, <1>6, <1>7, <1>8, <1>9, <1>10, <1>11, <1>12, <1>13, <1>14
       DEF BackupNext

\* The invariant holds in every reachable state.
THEOREM BackupInvariant == BackupSpec => []BackupInv
  <1>1. BackupInv /\ [BackupNext]_backupVars => BackupInv' BY BackupStep
  <1> QED BY InitBackupInv, <1>1, PTL DEF BackupSpec

\* A backup taken from a running server lacks no artifact its database names but
\* those already deleted, none is lost to a prune or a kill, and no upload is overwritten
\* (run_server_backup, run_server_prune_backups, run_server_export_backups).
THEOREM BackupCorrect == BackupSpec => BackupsAreSafe
  <1>1. BackupInv /\ BackupInv' /\ [BackupNext]_backupVars =>
          [(BackupIsConsistent /\ NoBackupIsLost)' /\ UploadsAreKept]_backupVars
    <2>1. BackupInv' => (BackupIsConsistent /\ NoBackupIsLost)' BY DEF BackupInv
    <2> QED BY <2>1, BackupStep
  <1> QED BY BackupInvariant, <1>1, PTL DEF BackupSpec, BackupsAreSafe

-------------------------------------------------------------------------------
(* OpenClaw snapshots: OpenClawSnapshot.  What an archive shows is the        *)
(* directory at the moment packing begins: a file archived later still has    *)
(* the time it was collected with, so nobody wrote it in between (PackInv).   *)
(* A restore knows at each step which targets it has replaced (SwapInv).      *)

Listing(f) == noted[f] # Unlisted

CreateTypeOK ==
    /\ file \in [DataFiles -> [text : Nat, mtime : 0 .. LastEdit]]
    /\ phase \in {"idle", "stat", "pack", "done"}
    /\ noted \in [DataFiles -> [text : Nat, mtime : 0 .. LastEdit + 2]]
    /\ packed \subseteq DataFiles

NotedInv ==
    \A f \in DataFiles :
        /\ noted[f].mtime <= LastEdit => noted[f].mtime <= file[f].mtime
        /\ noted[f].text # 0 => noted[f].mtime <= LastEdit

\* moment is what the directory held when all files were collected.
ShowsMoment(moment) ==
    \A f \in DataFiles : Listing(f) =>
        /\ noted[f].mtime <= LastEdit
        /\ file[f].mtime = noted[f].mtime => moment[f] = file[f].text
        /\ f \in packed => moment[f] = noted[f].text

PackInv ==
    /\ phase \in {"stat", "pack"} => Holds \in seen
    /\ phase \in {"idle", "stat"} => packed = {}
    /\ phase = "pack" => \E moment \in seen : ShowsMoment(moment)
    /\ phase # "done" => \A f \in DataFiles : archive[f] = 0

CreateInv == CreateTypeOK /\ NotedInv /\ PackInv /\ SnapshotIsOneInstant

RestoreTypeOK ==
    /\ target \in [{"skill", "data"} -> {"old", "new", "none"}]
    /\ asideOld \subseteq {"skill", "data"}
    /\ move.do \in {"away", "in", "drop", "remove", "return", "none"} /\ move.at \in {1, 2}

SwapInv ==
    /\ outcome # "running" => move.do = "none"
    /\ move.do \in {"away", "in"} =>
         /\ target["data"] # "new"
         /\ move.at = 1 => target["skill"] # "new"
         /\ move.at = 2 => target["skill"] = "new"
         /\ "data" \in asideOld => move.at = 2 /\ move.do = "in"
    /\ move.do \in {"remove", "return"} =>
         /\ target["data"] # "new" /\ move.at = 1
         /\ move.do = "return" => target["skill"] # "new"
    /\ move.do = "drop" => target["skill"] = "new" /\ target["data"] = "new"

RestoreInv == RestoreTypeOK /\ SwapInv /\ RestoreAllOrNothing

SnapshotInv == CreateInv /\ RestoreInv

\* The initial state satisfies the invariant.
LEMMA InitSnapshotInv == SnapshotInit => SnapshotInv
  <1> SUFFICES ASSUME SnapshotInit PROVE SnapshotInv
    OBVIOUS
  <1>1. CreateInit /\ RestoreInit BY DEF SnapshotInit
  <1>2. CreateTypeOK BY <1>1, SnapshotAssumption DEF CreateInit, CreateTypeOK, FileAt, Unlisted
  <1>3. NotedInv BY <1>1, SnapshotAssumption DEF CreateInit, NotedInv, Unlisted, FileAt
  <1>4. PackInv BY <1>1 DEF CreateInit, PackInv
  <1>5. SnapshotIsOneInstant BY <1>1 DEF CreateInit, SnapshotIsOneInstant
  <1>6. RestoreInv
    BY <1>1 DEF RestoreInit, RestoreInv, RestoreTypeOK, SwapInv, RestoreAllOrNothing, Move
  <1> QED BY <1>2, <1>3, <1>4, <1>5, <1>6 DEF SnapshotInv, CreateInv

\* Every step of the creation keeps its invariant.
LEMMA CreateStep ==
  ASSUME CreateInv,
         \/ \E f \in DataFiles : \/ Stats(f) \/ Digests(f) \/ Adds(f)
                                \/ \E text \in Texts : Writes(f, text)
         \/ Lists \/ Packs \/ PublishesArchive \/ CreateStops
         \/ UNCHANGED createVars
  PROVE  CreateInv'
  <1>I. CreateTypeOK /\ NotedInv /\ PackInv /\ SnapshotIsOneInstant
    BY DEF CreateInv
  <1>L. LastEdit \in Nat BY SnapshotAssumption
  <1>U. Unlisted.mtime = LastEdit + 1 /\ Unlisted.text = 0 /\ ToCollect.mtime = LastEdit + 2 /\ ToCollect.text = 0
    BY DEF Unlisted, ToCollect, FileAt
  <1>N. \A f \in DataFiles :
          /\ noted[f].text \in Nat /\ noted[f].mtime \in Nat
          /\ file[f].text \in Nat /\ file[f].mtime \in Nat /\ file[f].mtime <= LastEdit
    BY <1>I, <1>L DEF CreateTypeOK
  <1>1. ASSUME NEW f \in DataFiles, NEW text \in Texts, Writes(f, text) PROVE CreateInv'
    <2>1. /\ phase \in {"stat", "pack"} /\ file[f].mtime < LastEdit
          /\ file' = [file EXCEPT ![f] = FileAt(text, file[f].mtime + 1)]
          /\ seen' = seen \cup {[Holds EXCEPT ![f] = text]}
          /\ UNCHANGED <<phase, noted, packed, archive>>
      BY <1>1, <1>I DEF Writes, CreateTypeOK
    <2>2. FileAt(text, file[f].mtime + 1) \in [text : Nat, mtime : 0 .. LastEdit]
      BY <1>L, <1>N, <2>1 DEF FileAt, Texts
    <2>3. CreateTypeOK' BY <1>I, <2>1, <2>2 DEF CreateTypeOK
    <2>4. /\ file'[f].text = text /\ file'[f].mtime = file[f].mtime + 1
          /\ \A g \in DataFiles : g # f => file'[g] = file[g]
      BY <1>I, <2>1 DEF CreateTypeOK, FileAt
    <2>5. Holds' = [Holds EXCEPT ![f] = text] BY <2>4 DEF Holds
    <2>6. NotedInv' BY <1>I, <1>N, <2>1, <2>4 DEF NotedInv
    <2>7. ASSUME phase = "pack" PROVE \E moment \in seen' : ShowsMoment(moment)'
      <3>1. PICK moment \in seen : ShowsMoment(moment) BY <1>I, <2>7 DEF PackInv
      <3>2. ASSUME NEW g \in DataFiles, Listing(g)
            PROVE  /\ noted[g].mtime <= LastEdit
                   /\ file'[g].mtime = noted[g].mtime => moment[g] = file'[g].text
                   /\ g \in packed => moment[g] = noted[g].text
        <4>1. /\ noted[g].mtime <= LastEdit /\ noted[g].mtime <= file[g].mtime
              /\ file[g].mtime = noted[g].mtime => moment[g] = file[g].text
              /\ g \in packed => moment[g] = noted[g].text
          BY <1>I, <3>1, <3>2 DEF ShowsMoment, NotedInv
        <4>2. CASE g = f BY <1>N, <2>4, <4>1, <4>2
        <4>3. CASE g # f BY <2>4, <4>1, <4>3
        <4> QED BY <4>2, <4>3
      <3>3. ShowsMoment(moment)' BY <2>1, <3>2 DEF ShowsMoment, Listing
      <3> QED BY <2>1, <3>1, <3>3
    <2>8. PackInv' BY <1>I, <2>1, <2>5, <2>7 DEF PackInv
    <2>9. SnapshotIsOneInstant' BY <1>I, <2>1 DEF PackInv, SnapshotIsOneInstant
    <2> QED BY <2>3, <2>6, <2>8, <2>9 DEF CreateInv
  <1>2. CASE Lists
    <2>1. /\ phase = "idle" /\ phase' = "stat" /\ seen' = {Holds}
          /\ noted' = [f \in DataFiles |-> IF file[f].text = 0 THEN Unlisted ELSE ToCollect]
          /\ UNCHANGED <<file, packed, archive>>
      BY <1>2 DEF Lists
    <2>2. Holds' = Holds BY <2>1 DEF Holds
    <2>3. Unlisted \in [text : Nat, mtime : 0 .. LastEdit + 2] /\ ToCollect \in [text : Nat, mtime : 0 .. LastEdit + 2]
      BY <1>L DEF Unlisted, ToCollect, FileAt
    <2>4. CreateTypeOK' BY <1>I, <2>1, <2>3 DEF CreateTypeOK
    <2>5. NotedInv' BY <1>L, <1>U, <2>1 DEF NotedInv
    <2>6. PackInv' BY <1>I, <2>1, <2>2 DEF PackInv
    <2>7. SnapshotIsOneInstant' BY <1>I, <2>1 DEF PackInv, SnapshotIsOneInstant
    <2> QED BY <2>4, <2>5, <2>6, <2>7 DEF CreateInv
  <1>3. ASSUME NEW f \in DataFiles, Stats(f) \/ Digests(f) PROVE CreateInv'
    <2>1. PICK t \in Nat, m \in 0 .. LastEdit :
             /\ noted' = [noted EXCEPT ![f] = FileAt(t, m)] /\ m <= file[f].mtime
      <3>1. CASE Stats(f)
        <4>1. noted' = [noted EXCEPT ![f] = FileAt(0, file[f].mtime)] BY <3>1 DEF Stats
        <4>2. file[f].mtime \in 0 .. LastEdit /\ 0 \in Nat /\ file[f].mtime <= file[f].mtime
          BY <1>N, <1>L
        <4> QED BY <4>1, <4>2
      <3>2. CASE Digests(f)
        <4>1. /\ noted' = [noted EXCEPT ![f] = FileAt(file[f].text, noted[f].mtime)]
              /\ noted[f].mtime <= LastEdit
          BY <3>2 DEF Digests
        <4>2. noted[f].mtime <= file[f].mtime BY <1>I, <4>1 DEF NotedInv
        <4>3. noted[f].mtime \in 0 .. LastEdit /\ file[f].text \in Nat BY <1>N, <1>L, <4>1
        <4> QED BY <4>1, <4>2, <4>3
      <3> QED BY <1>3, <3>1, <3>2
    <2>2. phase = "stat" /\ UNCHANGED <<file, phase, packed, archive, seen>>
      BY <1>3 DEF Stats, Digests
    <2>3. FileAt(t, m) \in [text : Nat, mtime : 0 .. LastEdit + 2] /\ FileAt(t, m).mtime = m
      BY <1>L DEF FileAt
    <2>4. CreateTypeOK' BY <1>I, <2>1, <2>2, <2>3 DEF CreateTypeOK
    <2>5. \A g \in DataFiles : noted'[g] = IF g = f THEN FileAt(t, m) ELSE noted[g]
      BY <1>I, <2>1 DEF CreateTypeOK
    <2>6. NotedInv' BY <1>I, <2>1, <2>2, <2>3, <2>5 DEF NotedInv
    <2>7. Holds' = Holds BY <2>2 DEF Holds
    <2>8. PackInv' BY <1>I, <2>2, <2>7 DEF PackInv
    <2>9. SnapshotIsOneInstant' BY <1>I, <2>2 DEF PackInv, SnapshotIsOneInstant
    <2> QED BY <2>4, <2>6, <2>8, <2>9 DEF CreateInv
  <1>4. CASE Packs
    <2>1. /\ phase = "stat" /\ phase' = "pack" /\ UNCHANGED <<file, noted, packed, archive, seen>>
          /\ \A f \in DataFiles : noted[f] = Unlisted \/ noted[f].text # 0
      BY <1>4 DEF Packs
    <2>2. Holds \in seen /\ packed = {} BY <1>I, <2>1 DEF PackInv
    <2>3. ShowsMoment(Holds) BY <1>I, <2>1, <2>2 DEF ShowsMoment, Listing, NotedInv, Holds
    <2>4. \E moment \in seen : ShowsMoment(moment) BY <2>2, <2>3
    <2>5. (\E moment \in seen : ShowsMoment(moment))' BY <2>1, <2>4 DEF ShowsMoment, Listing
    <2>6. Holds' = Holds BY <2>1 DEF Holds
    <2>7. PackInv' BY <1>I, <2>1, <2>2, <2>5, <2>6 DEF PackInv
    <2> QED BY <1>I, <2>1, <2>7 DEF CreateInv, CreateTypeOK, NotedInv, SnapshotIsOneInstant
  <1>5. ASSUME NEW f \in DataFiles, Adds(f) PROVE CreateInv'
    <2>1. /\ phase = "pack" /\ packed' = packed \cup {f} /\ file[f] = noted[f] /\ Listing(f)
          /\ UNCHANGED <<file, phase, noted, archive, seen>>
      BY <1>5 DEF Adds, Unmodified, Listing
    <2>2. PICK moment \in seen : ShowsMoment(moment) BY <1>I, <2>1 DEF PackInv
    <2>3. ShowsMoment(moment)' BY <2>1, <2>2 DEF ShowsMoment, Listing
    <2>4. Holds' = Holds BY <2>1 DEF Holds
    <2>5. PackInv' BY <1>I, <2>1, <2>2, <2>3, <2>4 DEF PackInv
    <2> QED BY <1>I, <2>1, <2>5 DEF CreateInv, CreateTypeOK, NotedInv, SnapshotIsOneInstant
  <1>6. CASE PublishesArchive
    <2>1. /\ phase = "pack" /\ packed = {f \in DataFiles : Listing(f)} /\ phase' = "done"
          /\ archive' = [f \in DataFiles |-> IF f \in packed THEN noted[f].text ELSE 0]
          /\ UNCHANGED <<file, noted, packed, seen>>
      BY <1>6 DEF PublishesArchive, Listing
    <2>2. PICK moment \in seen : ShowsMoment(moment) BY <1>I, <2>1 DEF PackInv
    <2>3. \A f \in DataFiles : archive'[f] # 0 => moment[f] = archive'[f]
      BY <2>1, <2>2 DEF ShowsMoment
    <2>4. SnapshotIsOneInstant' BY <2>1, <2>2, <2>3 DEF SnapshotIsOneInstant
    <2>5. PackInv' BY <2>1 DEF PackInv
    <2> QED BY <1>I, <2>1, <2>4, <2>5 DEF CreateInv, CreateTypeOK, NotedInv
  <1>7. CASE CreateStops
    BY <1>7, <1>I DEF CreateStops, CreateInv, CreateTypeOK, NotedInv, PackInv, SnapshotIsOneInstant
  <1>8. CASE UNCHANGED createVars
    <2>1. Holds' = Holds BY <1>8 DEF createVars, Holds
    <2>2. (\E moment \in seen : ShowsMoment(moment)) => (\E moment \in seen : ShowsMoment(moment))'
      BY <1>8 DEF createVars, ShowsMoment, Listing
    <2>3. PackInv' BY <1>8, <1>I, <2>1, <2>2 DEF createVars, PackInv
    <2> QED BY <1>8, <1>I, <2>3 DEF createVars, CreateInv, CreateTypeOK, NotedInv, SnapshotIsOneInstant
  <1> QED BY <1>1, <1>2, <1>3, <1>4, <1>5, <1>6, <1>7, <1>8

\* Every step of the restore keeps its invariant and loses no old content.
LEMMA RestoreStep ==
  ASSUME RestoreInv,
         \/ MovesOld \/ MovesNew \/ RenameFails \/ RenameBackFails \/ Removes \/ Returns \/ UndoFails
         \/ DropsOld \/ RestoreDone \/ RestoreKilled
         \/ UNCHANGED restoreVars
  PROVE  RestoreInv' /\ OldContentNotLost
  <1>I. RestoreTypeOK /\ SwapInv /\ RestoreAllOrNothing
    BY DEF RestoreInv
  <1>A. /\ move.at = 1 => Area = "skill"
        /\ move.at = 2 => Area = "data"
        /\ Area \in {"skill", "data"} /\ Len(Areas) = 2
    BY <1>I DEF RestoreTypeOK, Area, Areas
  <1>D. DOMAIN target = {"skill", "data"} BY <1>I DEF RestoreTypeOK
  <1>M. \A do, place : Move(do, place).do = do /\ Move(do, place).at = place BY DEF Move
  <1>O. RestoreTypeOK' => DOMAIN target' = {"skill", "data"} BY DEF RestoreTypeOK
  <1> USE DEF RestoreInv, RestoreTypeOK, SwapInv, RestoreAllOrNothing, OldContentNotLost
  <1>1. CASE MovesOld
    BY <1>1, <1>I, <1>A, <1>D, <1>M, <1>O DEF MovesOld
  <1>2. CASE MovesNew
    BY <1>2, <1>I, <1>A, <1>D, <1>M, <1>O DEF MovesNew
  <1>3. CASE RenameFails \/ RenameBackFails
    <2>1. /\ target' \in [{"skill", "data"} -> {"old", "new", "none"}] /\ asideOld' \subseteq {"skill", "data"}
          /\ move.do \in {"away", "in"} /\ target'["data"] # "new"
          /\ move.at = 1 => target'["skill"] # "new"
      BY <1>3, <1>I, <1>A DEF RenameFails, RenameBackFails
    <2>2. /\ move' = IF move.at - 1 > 0 THEN Move("remove", move.at - 1) ELSE Move("none", 1)
          /\ outcome' = IF move.at - 1 > 0 THEN "running" ELSE Ended(asideOld')
      BY <1>3 DEF RenameFails, RenameBackFails, UndoesEarlier, UndoFrom
    <2>3. RestoreTypeOK' /\ SwapInv' BY <1>I, <1>M, <2>1, <2>2
    <2>4. RestoreAllOrNothing'
      <3>1. outcome' # "ok" /\ (outcome' = "failed" => move.at = 1 /\ asideOld' = {})
        BY <1>I, <2>2 DEF Ended
      <3> QED BY <1>O, <2>1, <2>3, <3>1
    <2>5. OldContentNotLost
      BY <1>3, <1>I, <1>A, <1>D DEF RenameFails, RenameBackFails
    <2> QED BY <2>3, <2>4, <2>5
  <1>4. CASE Removes
    BY <1>4, <1>I, <1>A, <1>D, <1>M, <1>O DEF Removes
  <1>5. CASE Returns
    BY <1>5, <1>I, <1>A, <1>D, <1>M, <1>O DEF Returns, Ended
  <1>6. CASE UndoFails
    BY <1>6, <1>I, <1>A, <1>D, <1>M, <1>O DEF UndoFails
  <1>7. CASE DropsOld
    BY <1>7, <1>I, <1>A, <1>D, <1>M, <1>O DEF DropsOld, DropsNow
  <1>8. CASE RestoreDone \/ RestoreKilled
    <2>1. /\ UNCHANGED <<target, asideOld>> /\ move' = Move("none", 1)
          /\ \/ outcome' = "ok" /\ move.do = "drop"
             \/ outcome' = "killed"
      BY <1>8 DEF RestoreDone, RestoreKilled
    <2>2. RestoreAllOrNothing' BY <1>I, <1>D, <2>1
    <2> QED BY <1>I, <1>M, <2>1, <2>2
  <1>9. CASE UNCHANGED restoreVars
    BY <1>9, <1>I, <1>D, <1>O DEF restoreVars
  <1> QED BY <1>1, <1>2, <1>3, <1>4, <1>5, <1>6, <1>7, <1>8, <1>9

\* A step is one of the creation or one of the restore.
LEMMA SnapshotStep == SnapshotInv /\ [SnapshotNext]_snapshotVars => SnapshotInv' /\ OldContentNotLost
  <1> SUFFICES ASSUME SnapshotInv, [SnapshotNext]_snapshotVars PROVE SnapshotInv' /\ OldContentNotLost
    OBVIOUS
  <1>1. CASE \/ \E f \in DataFiles : \/ Stats(f) \/ Digests(f) \/ Adds(f)
                                   \/ \E text \in Texts : Writes(f, text)
             \/ Lists \/ Packs \/ PublishesArchive \/ CreateStops
    <2>1. UNCHANGED restoreVars
      BY <1>1 DEF Stats, Digests, Adds, Writes, Lists, Packs, PublishesArchive, CreateStops
    <2> QED BY <1>1, <2>1, CreateStep, RestoreStep DEF SnapshotInv
  <1>2. CASE \/ MovesOld \/ MovesNew \/ RenameFails \/ RenameBackFails \/ Removes \/ Returns \/ UndoFails
             \/ DropsOld \/ RestoreDone \/ RestoreKilled
    <2>1. UNCHANGED createVars
      BY <1>2 DEF MovesOld, MovesNew, RenameFails, RenameBackFails, UndoesEarlier, Removes, Returns, UndoFails,
         DropsOld, RestoreDone, RestoreKilled
    <2> QED BY <1>2, <2>1, CreateStep, RestoreStep DEF SnapshotInv
  <1>3. CASE UNCHANGED snapshotVars
    BY <1>3, CreateStep, RestoreStep DEF SnapshotInv, snapshotVars
  <1> QED BY <1>1, <1>2, <1>3 DEF SnapshotNext

\* The invariant holds in every reachable state.
THEOREM SnapshotInvariant == SnapshotSpec => []SnapshotInv
  <1>1. SnapshotInv /\ [SnapshotNext]_snapshotVars => SnapshotInv' BY SnapshotStep
  <1> QED BY InitSnapshotInv, <1>1, PTL DEF SnapshotSpec

\* An archive is the directory at one instant although the agent keeps writing,
\* and a restore replaces all targets or none and loses no old content
\* (create_openclaw_snapshot, _swap_staged_targets).
THEOREM SnapshotCorrect == SnapshotSpec => SnapshotsAreSafe
  <1>1. SnapshotInv /\ SnapshotInv' /\ [SnapshotNext]_snapshotVars =>
          [(SnapshotIsOneInstant /\ RestoreAllOrNothing)' /\ OldContentNotLost]_snapshotVars
    <2>1. SnapshotInv' => (SnapshotIsOneInstant /\ RestoreAllOrNothing)'
      BY DEF SnapshotInv, CreateInv, RestoreInv
    <2> QED BY <2>1, SnapshotStep
  <1> QED BY SnapshotInvariant, <1>1, PTL DEF SnapshotSpec, SnapshotsAreSafe

-------------------------------------------------------------------------------
(* Releases: SkillRelease.  A provenance says "pushed" only when the signed   *)
(* tag that was just made of the branch is on the remote, which never moves a *)
(* tag (TagInv, PushedInv); a bundle takes its place only after its own       *)
(* attestation verified (BundleInv); the log entry is one the log gave        *)
(* (LogInv).                                                                  *)

LogModes == {p.log : p \in Policies} \cup {"disabled"}

ProvenanceType ==
    [id : Nat, commit : Nat, bundle : Nat, pushed : BOOLEAN,
     mode : {"stable-release", "local-tag"}, log : LogModes]

ManifestType == [id : Nat, sig : Nat, bundle : Nat, commit : Nat, ci : BOOLEAN]

DiskType ==
    [prov : ProvenanceType, sig : Nat, entry : Nat, ci : [id : Nat, commit : Nat, sha : Nat],
     bundle : Nat, manifest : ManifestType]

CommandType ==
    [pc : {"idle", "preflight", "create", "check", "push", "stable", "context", "provenance", "sign",
           "place", "record", "verify", "rename", "manifest", "distribution"},
     publish : BOOLEAN, push : BOOLEAN, force : BOOLEAN, unsigned : BOOLEAN, local : BOOLEAN,
     commit : Nat, staged : Nat]

TagType == [at : Nat, signed : BOOLEAN, id : Nat]

ReleaseTypeOK ==
    /\ sources \in Seq(Contents)
    /\ branch \in 1 .. Len(sources) /\ remoteBranch \in 1 .. Len(sources) /\ worktree \in Contents
    /\ tag \in TagType /\ remoteTag \in TagType /\ tags \in Nat
    /\ policy \in Policies /\ disk \in DiskType /\ release \in CommandType /\ attempt \in Nat

\* The tag a running command has just made.
TagInv ==
    /\ release.publish => ~release.unsigned
    /\ release.pc \in {"check", "push", "stable"} => tag.at = branch /\ tag.signed = ~release.unsigned
    /\ release.pc = "stable" => remoteTag = tag
    /\ release.pc = "context" /\ release.push => remoteTag = tag /\ tag.at = branch /\ tag.signed

\* commit is upstream, tagged there for good, and bundle is what it holds.
IsUpstream(commit, bundle) ==
    /\ commit \in 1 .. remoteBranch /\ bundle = sources[commit]
    /\ remoteTag.signed /\ remoteTag.at = commit

PushedInv ==
    /\ release.pc = "provenance" /\ release.push => IsUpstream(release.commit, release.staged)
    /\ Intact(disk.prov) /\ disk.prov.pushed => IsUpstream(disk.prov.commit, disk.prov.bundle)

BundleInv ==
    /\ release.pc \in {"sign", "place", "record", "verify", "rename"} => disk.prov.bundle = release.staged
    /\ release.pc = "rename" => release.staged \in vouched
    /\ BundleWasAttested

LogInv ==
    /\ Intact(disk.prov) => disk.prov.log = policy.log
    /\ disk.entry \in 1 .. LastAttempt => disk.entry \in logged

ReleaseInv == ReleaseTypeOK /\ TagInv /\ PushedInv /\ BundleInv /\ LogInv

\* No release exception waives a dirty worktree or unpushed commits.
StrictRules == WaivedRules \cap {"dirty-worktree", "ahead-of-upstream"} = {}

\* What the invariant says of a disk that verifies.
LEMMA VerifiedReleases == ReleaseInv => ReleasesAreAttested
  <1> SUFFICES ASSUME ReleaseInv PROVE ReleasesAreAttested
    OBVIOUS
  <1>1. BundleWasAttested BY DEF ReleaseInv, BundleInv
  <1>2. StableIsSnapshot
    <2> SUFFICES ASSUME ManifestVerified(disk), disk.prov.pushed
                 PROVE  /\ disk.bundle = sources[disk.prov.commit]
                        /\ remoteTag.signed /\ remoteTag.at = disk.prov.commit
                        /\ disk.prov.commit <= remoteBranch
      BY DEF StableIsSnapshot
    <2>1. Intact(disk.prov) /\ disk.bundle = disk.prov.bundle
      BY DEF ManifestVerified, FormatsVerified, AttestationVerified, ValidProvenance, SignedFieldsMatch
    <2>2. IsUpstream(disk.prov.commit, disk.prov.bundle) BY <2>1 DEF ReleaseInv, PushedInv
    <2> QED BY <2>1, <2>2 DEF IsUpstream, ReleaseInv, ReleaseTypeOK
  <1>3. VerifiedIsLogged
    <2> SUFFICES ASSUME ManifestVerified(disk), policy.log = "required" PROVE disk.prov.id \in logged
      BY DEF VerifiedIsLogged
    <2>1. Intact(disk.prov) /\ LogVerified(disk)
      BY DEF ManifestVerified, FormatsVerified, AttestationVerified, ValidProvenance
    <2>2. disk.prov.log = "required" BY <2>1 DEF ReleaseInv, LogInv
    <2>3. disk.entry = disk.prov.id BY <2>1, <2>2 DEF LogVerified
    <2> QED BY <2>1, <2>3 DEF ReleaseInv, LogInv, Intact
  <1> QED BY <1>1, <1>2, <1>3 DEF ReleasesAreAttested

\* The initial state satisfies the invariant.
LEMMA InitReleaseInv == SkillReleaseInit => ReleaseInv
  <1> SUFFICES ASSUME SkillReleaseInit PROVE ReleaseInv
    OBVIOUS
  <1>1. /\ sources = <<CHOOSE c \in Contents : TRUE>> /\ branch = 1 /\ remoteBranch = 1 /\ worktree = sources[1]
        /\ tags = 0 /\ tag = NoTag /\ remoteTag = NoTag /\ policy \in Policies
        /\ disk = NoFiles /\ logged = {} /\ release = NoRelease /\ attempt = 0 /\ vouched = {}
    BY DEF SkillReleaseInit
  <1>2. sources \in Seq(Contents) /\ Len(sources) = 1 /\ worktree \in Contents
    <2>1. (CHOOSE c \in Contents : TRUE) \in Contents BY SkillReleaseAssumption
    <2> QED BY <1>1, <2>1
  <1>3. NoTag \in TagType /\ NoRelease \in CommandType
    BY DEF NoTag, Tag, TagType, NoRelease, CommandType
  <1>4. NoProvenance(0) \in ProvenanceType /\ NoProvenance(0).id = 0
    BY DEF NoProvenance, Provenance, ProvenanceType, LogModes
  <1>5. NoManifest(0) \in ManifestType
    BY DEF NoManifest, Manifest, NoProvenance, Provenance, ManifestType
  <1>6. NoFiles \in DiskType /\ NoFiles.prov = NoProvenance(0) /\ NoFiles.entry = 0 /\ NoFiles.bundle = 0
    BY <1>4, <1>5 DEF NoFiles, DiskType, CiPayload
  <1>7. ReleaseTypeOK BY <1>1, <1>2, <1>3, <1>6 DEF ReleaseTypeOK
  <1>8. NoRelease.pc = "idle" /\ ~NoRelease.publish BY DEF NoRelease
  <1>9. TagInv BY <1>1, <1>8 DEF TagInv
  <1>10. PushedInv /\ BundleInv /\ LogInv
    BY <1>1, <1>4, <1>6, <1>8 DEF PushedInv, BundleInv, BundleWasAttested, LogInv, Intact
  <1> QED BY <1>7, <1>9, <1>10 DEF ReleaseInv

\* What is upstream stays upstream: branches grow and the remote moves no tag.
LEMMA UpstreamKept ==
  ASSUME ReleaseTypeOK, ReleaseTypeOK',
         sources' = sources \/ \E c \in Contents : sources' = Append(sources, c),
         remoteBranch <= remoteBranch',
         remoteTag' = remoteTag \/ ~Exists(remoteTag),
         NEW commit, NEW bundle, IsUpstream(commit, bundle)
  PROVE  /\ commit \in 1 .. remoteBranch' /\ bundle = sources'[commit]
         /\ remoteTag'.signed /\ remoteTag'.at = commit
  <1>1. remoteTag' = remoteTag
    BY DEF IsUpstream, Exists, NoTag, Tag
  <1>2. commit \in 1 .. Len(sources) BY DEF ReleaseTypeOK, IsUpstream
  <1>3. sources'[commit] = sources[commit]
    <2>1. sources \in Seq(Contents) BY DEF ReleaseTypeOK
    <2>2. \A c \in Contents : Append(sources, c)[commit] = sources[commit]
      BY <1>2, <2>1
    <2>3. CASE sources' = sources BY <2>3
    <2>4. CASE \E c \in Contents : sources' = Append(sources, c)
      <3>1. PICK c \in Contents : sources' = Append(sources, c) BY <2>4
      <3>2. sources'[commit] = Append(sources, c)[commit] BY <3>1
      <3> HIDE <3>1
      <3> QED BY <2>2, <3>2
    <2> QED BY <2>3, <2>4
  <1> QED BY <1>1, <1>2, <1>3 DEF IsUpstream, ReleaseTypeOK

\* A step outside the running command leaves its provenance and its place alone.
LEMMA OutsideStep ==
  ASSUME ReleaseInv, ReleaseTypeOK',
         UNCHANGED <<release, tag, remoteTag, logged, policy, vouched>>,
         release.pc = "idle" \/ branch' = branch,
         release = NoRelease \/ disk'.prov = disk.prov,
         disk'.prov = disk.prov \/ ~Intact(disk.prov)',
         disk'.entry \in {disk.entry, 0}, disk'.bundle = disk.bundle,
         sources' = sources \/ \E c \in Contents : sources' = Append(sources, c),
         remoteBranch <= remoteBranch'
  PROVE  ReleaseInv'
  <1>1. TagInv' BY DEF ReleaseInv, TagInv, NoRelease
  <1>2. PushedInv'
    <2>1. ASSUME release'.pc = "provenance" /\ release'.push
          PROVE  IsUpstream(release.commit, release.staged)'
      <3>1. IsUpstream(release.commit, release.staged) BY <2>1 DEF ReleaseInv, PushedInv
      <3> QED BY <3>1, UpstreamKept DEF ReleaseInv, IsUpstream
    <2>2. ASSUME Intact(disk.prov)', disk'.prov.pushed
          PROVE  IsUpstream(disk.prov.commit, disk.prov.bundle)'
      <3>1. disk'.prov = disk.prov BY <2>2
      <3>2. Intact(disk.prov) /\ disk.prov.pushed BY <2>2, <3>1 DEF Intact
      <3>3. IsUpstream(disk.prov.commit, disk.prov.bundle) BY <3>2 DEF ReleaseInv, PushedInv
      <3> QED BY <3>1, <3>3, UpstreamKept DEF ReleaseInv, IsUpstream
    <2> QED BY <2>1, <2>2 DEF PushedInv
  <1>3. BundleInv' BY DEF ReleaseInv, BundleInv, BundleWasAttested, NoRelease
  <1>4. LogInv' BY DEF ReleaseInv, LogInv, Intact
  <1> QED BY <1>1, <1>2, <1>3, <1>4 DEF ReleaseInv

\* The developer's steps, the others' and the CI's keep the invariant.
LEMMA OutsideKeeps ==
  ASSUME ReleaseInv,
         \/ \E c \in Contents : EditSkill(c) \/ OthersPush(c)
         \/ CommitWork \/ PushBranch \/ PullBranch \/ Discard \/ GenerateManifest \/ SignAgain
         \/ \E sha \in 1 .. LastCommit : CiAttests(sha)
  PROVE  ReleaseInv'
  <1>T. ReleaseTypeOK BY DEF ReleaseInv
  <1>I. NoRelease.pc = "idle" BY DEF NoRelease
  <1>D. /\ disk.prov \in ProvenanceType /\ disk.manifest \in ManifestType /\ disk.prov.id \in Nat
        /\ disk \in DiskType
    BY <1>T DEF ReleaseTypeOK, DiskType, ProvenanceType
  <1>L. Len(sources) \in Nat /\ \A c \in Contents :
          Append(sources, c) \in Seq(Contents) /\ Len(Append(sources, c)) = Len(sources) + 1
    BY <1>T DEF ReleaseTypeOK
  <1>1. ASSUME NEW c \in Contents, EditSkill(c) PROVE ReleaseInv'
    <2>1. UNCHANGED <<sources, branch, remoteBranch, disk, release, tag, remoteTag, tags, logged, policy, attempt, vouched>>
      BY <1>1 DEF EditSkill, AtRest
    <2>2. ReleaseTypeOK' BY <1>T, <1>1, <2>1 DEF EditSkill, ReleaseTypeOK
    <2> QED BY <1>T, <2>1, <2>2, OutsideStep DEF ReleaseTypeOK
  <1>2. ASSUME NEW c \in Contents, OthersPush(c) PROVE ReleaseInv'
    <2>1. /\ UNCHANGED <<branch, worktree, tag, remoteTag, tags, logged, policy, release, attempt, vouched, disk>>
          /\ remoteBranch = Len(sources) /\ sources' = Append(sources, c) /\ remoteBranch' = remoteBranch + 1
      BY <1>2 DEF OthersPush, Elsewhere
    <2>2. ReleaseTypeOK' BY <1>T, <1>L, <2>1 DEF ReleaseTypeOK
    <2> QED BY <1>T, <2>1, <2>2, OutsideStep DEF ReleaseTypeOK
  <1>3. CASE CommitWork
    <2>1. /\ UNCHANGED <<remoteBranch, worktree, disk, release, tag, remoteTag, tags, logged, policy, attempt, vouched>>
          /\ release = NoRelease
          /\ branch = Len(sources) /\ sources' = Append(sources, worktree) /\ branch' = branch + 1
      BY <1>3 DEF CommitWork, AtRest
    <2>2. ReleaseTypeOK' BY <1>T, <1>L, <2>1 DEF ReleaseTypeOK
    <2> QED BY <1>T, <1>I, <2>1, <2>2, OutsideStep DEF ReleaseTypeOK
  <1>4. CASE PushBranch
    <2>1. /\ UNCHANGED <<sources, branch, worktree, disk, release, tag, remoteTag, tags, logged, policy, attempt, vouched>>
          /\ remoteBranch < branch /\ remoteBranch' = branch
      BY <1>4 DEF PushBranch, AtRest
    <2>2. ReleaseTypeOK' BY <1>T, <2>1 DEF ReleaseTypeOK
    <2> QED BY <1>T, <1>L, <2>1, <2>2, OutsideStep DEF ReleaseTypeOK
  <1>5. CASE PullBranch
    <2>1. /\ UNCHANGED <<sources, remoteBranch, disk, release, tag, remoteTag, tags, logged, policy, attempt, vouched>>
          /\ release = NoRelease
          /\ branch' = remoteBranch /\ worktree' = sources[remoteBranch]
      BY <1>5 DEF PullBranch, AtRest
    <2>2. ReleaseTypeOK' BY <1>T, <2>1 DEF ReleaseTypeOK
    <2> QED BY <1>T, <1>I, <2>1, <2>2, OutsideStep DEF ReleaseTypeOK
  <1>6. CASE Discard
    <2> DEFINE prov == IF disk.prov.id = Torn THEN NoProvenance(0) ELSE disk.prov
               manifest == IF disk.manifest.id = Torn THEN NoManifest(0) ELSE disk.manifest
               logEntry == IF disk.entry = Torn THEN 0 ELSE disk.entry
    <2>1. /\ disk' = [disk EXCEPT !.prov = prov, !.manifest = manifest, !.entry = logEntry]
          /\ release = NoRelease
          /\ UNCHANGED <<sources, branch, remoteBranch, worktree, release, tag, remoteTag, tags, logged, policy, attempt, vouched>>
      BY <1>6 DEF Discard, AtRest
    <2>2. NoProvenance(0) \in ProvenanceType /\ ~Intact(NoProvenance(0))
      BY DEF NoProvenance, Provenance, ProvenanceType, LogModes, Intact
    <2>3. NoManifest(0) \in ManifestType
      BY DEF NoManifest, Manifest, NoProvenance, Provenance, ManifestType
    <2>4. prov \in ProvenanceType /\ manifest \in ManifestType /\ logEntry \in Nat /\ logEntry \in {disk.entry, 0}
          /\ (prov = disk.prov \/ ~Intact(prov))
      BY <1>D, <2>2, <2>3 DEF DiskType
    <2> HIDE DEF prov, manifest, logEntry
    <2>5. /\ disk' \in DiskType /\ disk'.prov = prov /\ disk'.entry = logEntry /\ disk'.bundle = disk.bundle
      BY <1>D, <2>1, <2>4 DEF DiskType
    <2>6. ReleaseTypeOK' BY <1>T, <2>1, <2>5 DEF ReleaseTypeOK
    <2> QED BY <1>T, <1>I, <2>1, <2>4, <2>5, <2>6, OutsideStep DEF ReleaseTypeOK, Intact
  <1>7. CASE GenerateManifest
    <2>1. /\ disk' = [disk EXCEPT !.manifest = ManifestOf(disk)]
          /\ UNCHANGED <<sources, branch, remoteBranch, worktree, release, tag, remoteTag, tags, logged, policy, attempt, vouched>>
      BY <1>7 DEF GenerateManifest, AtRest
    <2>2. ManifestOf(disk) \in ManifestType
      BY <1>D DEF ManifestOf, Manifest, ManifestType, ProvenanceType, DiskType, RequiresCi
    <2>3. disk' \in DiskType /\ disk'.prov = disk.prov /\ disk'.entry = disk.entry /\ disk'.bundle = disk.bundle
      BY <1>D, <2>1, <2>2 DEF DiskType
    <2>4. ReleaseTypeOK' BY <1>T, <2>1, <2>3 DEF ReleaseTypeOK
    <2> QED BY <1>T, <2>1, <2>3, <2>4, OutsideStep DEF ReleaseTypeOK
  <1>8. CASE SignAgain
    <2>1. /\ disk' = [disk EXCEPT !.sig = disk.prov.id]
          /\ UNCHANGED <<sources, branch, remoteBranch, worktree, release, tag, remoteTag, tags, logged, policy, attempt, vouched>>
      BY <1>8 DEF SignAgain, AtRest
    <2>3. disk' \in DiskType /\ disk'.prov = disk.prov /\ disk'.entry = disk.entry /\ disk'.bundle = disk.bundle
      BY <1>D, <2>1 DEF DiskType
    <2>4. ReleaseTypeOK' BY <1>T, <2>1, <2>3 DEF ReleaseTypeOK
    <2> QED BY <1>T, <2>1, <2>3, <2>4, OutsideStep DEF ReleaseTypeOK
  <1>9. ASSUME NEW sha \in 1 .. LastCommit, CiAttests(sha) PROVE ReleaseInv'
    <2>1. /\ disk' = [disk EXCEPT !.ci = CiPayload(RemoteTarget, sha)]
          /\ UNCHANGED <<sources, remoteBranch, branch, worktree, tag, remoteTag, tags, logged, policy, release, attempt, vouched>>
      BY <1>9 DEF CiAttests, Elsewhere
    <2>2. CiPayload(RemoteTarget, sha) \in [id : Nat, commit : Nat, sha : Nat]
      BY <1>T DEF CiPayload, RemoteTarget, ReleaseTypeOK, TagType
    <2>3. disk' \in DiskType /\ disk'.prov = disk.prov /\ disk'.entry = disk.entry /\ disk'.bundle = disk.bundle
      BY <1>D, <2>1, <2>2 DEF DiskType
    <2>4. ReleaseTypeOK' BY <1>T, <2>1, <2>3 DEF ReleaseTypeOK
    <2> QED BY <1>T, <2>1, <2>3, <2>4, OutsideStep DEF ReleaseTypeOK
  <1> QED BY <1>1, <1>2, <1>3, <1>4, <1>5, <1>6, <1>7, <1>8, <1>9

\* Steps that write a provenance and then its signature, log entry and bundle.
Attesting == {"sign", "place", "record", "verify", "rename"}

\* What a step of a command has to respect to keep the invariant.
LEMMA CommandStep ==
  ASSUME ReleaseInv, ReleaseTypeOK', TagInv',
         UNCHANGED <<sources, branch, remoteBranch, worktree, policy>>,
         remoteTag' = remoteTag \/ ~Exists(remoteTag),
         vouched \subseteq vouched', logged \subseteq logged',
         release'.pc = "provenance" /\ release'.push => IsUpstream(release.commit, release.staged)',
         \/ disk'.prov = disk.prov
         \/ ~Intact(disk.prov)'
         \/ /\ disk'.prov.log = policy'.log
            /\ disk'.prov.pushed => IsUpstream(disk.prov.commit, disk.prov.bundle)',
         release'.pc \in Attesting => disk'.prov.bundle = release'.staged,
         release'.pc = "rename" => release'.staged \in vouched',
         disk'.bundle = disk.bundle \/ disk'.bundle \in vouched',
         disk'.entry \in {disk.entry, Torn} \/ disk'.entry \in logged'
  PROVE  ReleaseInv'
  <1>1. PushedInv'
    <2>1. ASSUME Intact(disk.prov)', disk'.prov.pushed, disk'.prov = disk.prov
          PROVE  IsUpstream(disk.prov.commit, disk.prov.bundle)'
      <3>1. Intact(disk.prov) /\ disk.prov.pushed BY <2>1 DEF Intact
      <3>2. IsUpstream(disk.prov.commit, disk.prov.bundle) BY <3>1 DEF ReleaseInv, PushedInv
      <3>3. remoteBranch <= remoteBranch' BY DEF ReleaseInv, ReleaseTypeOK
      <3> QED BY <2>1, <3>2, <3>3, UpstreamKept DEF ReleaseInv, IsUpstream
    <2> QED BY <2>1 DEF PushedInv
  <1>2. BundleInv' BY DEF ReleaseInv, BundleInv, BundleWasAttested, Attesting
  <1>3. LogInv'
    <2>1. Intact(disk.prov)' => disk'.prov.log = policy'.log BY DEF ReleaseInv, LogInv, Intact
    <2>2. LastAttempt \in Nat BY SkillReleaseAssumption
    <2>3. Torn \notin 1 .. LastAttempt BY <2>2 DEF Torn
    <2>4. disk'.entry \in 1 .. LastAttempt => disk'.entry \in logged'
      BY <2>3 DEF ReleaseInv, LogInv
    <2> QED BY <2>1, <2>4 DEF LogInv
  <1> QED BY <1>1, <1>2, <1>3 DEF ReleaseInv

\* The commands' steps keep the invariant.
LEMMA CommandKeeps ==
  ASSUME StrictRules, ReleaseInv, UNCHANGED policy,
         \/ \E push, force, unsigned, local \in BOOLEAN : StartTag(push, force, unsigned, local)
         \/ \E create, push \in BOOLEAN : StartPublish(create, push)
         \/ Steps \/ CreateTag \/ PushTag \/ SignProvenance \/ RecordInLog \/ KillRelease
  PROVE  ReleaseInv'
  <1>I. ReleaseTypeOK /\ TagInv /\ PushedInv /\ BundleInv /\ LogInv BY DEF ReleaseInv
  <1>Z. /\ NoRelease \in CommandType /\ NoRelease.pc = "idle"
        /\ ~NoRelease.publish /\ ~NoRelease.push
    BY DEF NoRelease, CommandType
  <1>D. /\ disk \in DiskType /\ disk.prov \in ProvenanceType /\ release \in CommandType
        /\ disk.prov.id \in Nat /\ disk.prov.bundle \in Nat
        /\ release.commit \in Nat /\ release.staged \in Nat
    BY <1>I DEF ReleaseTypeOK, DiskType, CommandType, ProvenanceType
  <1>S. \A pc \in {"idle", "preflight", "create", "check", "push", "stable", "context", "provenance", "sign",
                   "place", "record", "verify", "rename", "manifest", "distribution"} :
          /\ AtStep(pc) \in CommandType /\ AtStep(pc).pc = pc
          /\ AtStep(pc).publish = release.publish /\ AtStep(pc).push = release.push
          /\ AtStep(pc).unsigned = release.unsigned
          /\ AtStep(pc).commit = release.commit /\ AtStep(pc).staged = release.staged
    BY <1>D DEF AtStep, CommandType
  <1>T. /\ Tagged \in CommandType /\ Tagged.pc \in {"idle", "context"}
        /\ Tagged.pc = "context" => /\ release.publish /\ Tagged.push = release.push
                                    /\ Tagged.unsigned = release.unsigned
        /\ Tagged.publish => ~Tagged.unsigned
    BY <1>I, <1>S, <1>Z DEF Tagged, TagInv
  <1>V. ASSUME UNCHANGED gitVars
        PROVE UNCHANGED <<sources, branch, remoteBranch, worktree, tag, remoteTag, tags>>
    BY <1>V DEF gitVars
  \* Steps that leave the disk and the provenance in hand alone.
  <1>M. ASSUME UNCHANGED <<gitVars, disk, attempt>>, release' \in CommandType, TagInv',
               vouched \subseteq vouched', logged \subseteq logged',
               release'.pc = "provenance" /\ release'.push => IsUpstream(release.commit, release.staged)',
               release'.pc \in Attesting => release.pc \in Attesting /\ release'.staged = release.staged,
               release'.pc = "rename" => release'.staged \in vouched'
        PROVE ReleaseInv'
    <2>1. ReleaseTypeOK' BY <1>I, <1>M, <1>V DEF ReleaseTypeOK
    <2>2. release'.pc \in Attesting => disk'.prov.bundle = release'.staged
      BY <1>I, <1>M DEF BundleInv, Attesting
    <2> QED BY <1>M, <1>V, <2>1, <2>2, CommandStep
  <1>F. ASSUME ReleaseFails PROVE ReleaseInv'
    <2>1. release' = NoRelease /\ UNCHANGED <<gitVars, disk, logged, attempt, vouched>>
      BY <1>F DEF ReleaseFails
    <2>2. TagInv' BY <1>Z, <2>1 DEF TagInv
    <2> QED BY <1>Z, <1>M, <2>1, <2>2 DEF Attesting
  <1>1. ASSUME NEW push \in BOOLEAN, NEW force \in BOOLEAN, NEW unsigned \in BOOLEAN, NEW local \in BOOLEAN,
               StartTag(push, force, unsigned, local)
        PROVE ReleaseInv'
    <2>1. /\ release' = [NoRelease EXCEPT !.pc = "preflight", !.push = push, !.force = force,
                           !.unsigned = unsigned, !.local = local]
          /\ UNCHANGED <<gitVars, disk, logged, attempt, vouched>>
      BY <1>1 DEF StartTag
    <2>2. release' \in CommandType /\ release'.pc = "preflight" /\ ~release'.publish
      BY <2>1 DEF NoRelease, CommandType
    <2>3. TagInv' BY <2>2 DEF TagInv
    <2> QED BY <1>M, <2>1, <2>2, <2>3 DEF Attesting
  <1>2. ASSUME NEW create \in BOOLEAN, NEW push \in BOOLEAN, StartPublish(create, push) PROVE ReleaseInv'
    <2>1. /\ release' = [NoRelease EXCEPT !.pc = IF create \/ push THEN "preflight" ELSE "context",
                           !.publish = TRUE, !.push = push]
          /\ UNCHANGED <<gitVars, disk, logged, attempt, vouched>>
      BY <1>2 DEF StartPublish
    <2>2. /\ release' \in CommandType /\ release'.pc \in {"preflight", "context"} /\ ~release'.unsigned
          /\ release'.pc = "context" => ~release'.push
      BY <2>1 DEF NoRelease, CommandType
    <2>3. TagInv' BY <2>2 DEF TagInv
    <2> QED BY <1>M, <2>1, <2>2, <2>3 DEF Attesting
  <1>3. CASE Preflight
    <2>1. CASE ReleaseFails BY <2>1, <1>F
    <2>2. CASE ~ReleaseFails
      <3> DEFINE base == AtStep("create")
                 next == [base EXCEPT !.local = FALSE, !.force = FALSE]
      <3>1. /\ tag' = NoTag /\ release' = next
            /\ UNCHANGED <<sources, branch, remoteBranch, worktree, remoteTag, tags, disk, logged, attempt, vouched>>
        BY <1>3, <2>2 DEF Preflight
      <3>2. next \in CommandType /\ next.pc = "create" /\ (next.publish => ~next.unsigned)
        <4>1. /\ base \in CommandType /\ base.pc = "create"
              /\ base.publish = release.publish /\ base.unsigned = release.unsigned
          BY <1>S
        <4> HIDE DEF base
        <4>2. /\ next \in CommandType /\ next.pc = base.pc
              /\ next.publish = base.publish /\ next.unsigned = base.unsigned
          BY <4>1 DEF CommandType
        <4> HIDE DEF next
        <4> QED BY <1>I, <4>1, <4>2 DEF TagInv
      <3>3. NoTag \in TagType BY DEF NoTag, Tag, TagType
      <3> HIDE DEF next
      <3>4. ReleaseTypeOK' BY <1>I, <3>1, <3>2, <3>3 DEF ReleaseTypeOK
      <3>5. TagInv' BY <3>1, <3>2 DEF TagInv
      <3> QED BY <3>1, <3>2, <3>4, <3>5, CommandStep DEF Attesting
    <2> QED BY <2>1, <2>2
  <1>4. CASE CreateTag
    <2>1. CASE ReleaseFails BY <2>1, <1>F
    <2>2. CASE ~ReleaseFails
      <3>1. /\ tag' = Tag(branch, ~release.unsigned, tags + 1) /\ tags' = tags + 1
            /\ release' = (IF ~release.unsigned THEN AtStep("check")
                           ELSE IF release.push THEN AtStep("push") ELSE Tagged)
            /\ UNCHANGED <<sources, branch, remoteBranch, worktree, remoteTag, disk, logged, attempt, vouched>>
        BY <1>4, <2>2 DEF CreateTag
      <3>2. (~release.unsigned) \in BOOLEAN /\ branch \in Nat /\ tags + 1 \in Nat BY <1>I DEF ReleaseTypeOK
      <3>3. tag' \in TagType /\ tag'.at = branch /\ tag'.signed = ~release.unsigned
        BY <3>1, <3>2 DEF Tag, TagType
      <3>4. /\ release' \in CommandType /\ release'.pc \in {"check", "push", "idle"}
            /\ release'.pc \in {"check", "push"} =>
                 release'.unsigned = release.unsigned /\ release'.publish = release.publish
            /\ release'.publish => ~release'.unsigned
        BY <1>S, <1>T, <1>Z, <1>I, <3>1 DEF TagInv, Tagged
      <3>5. ReleaseTypeOK' BY <1>I, <3>1, <3>2, <3>3, <3>4 DEF ReleaseTypeOK
      <3>6. TagInv' BY <1>I, <3>1, <3>3, <3>4 DEF TagInv
      <3> QED BY <3>1, <3>4, <3>5, <3>6, CommandStep DEF Attesting
    <2> QED BY <2>1, <2>2
  <1>5. CASE CheckTag
    <2>1. CASE ReleaseFails BY <2>1, <1>F
    <2>2. CASE ~ReleaseFails
      <3>1. /\ release.pc = "check" /\ release' = (IF release.push THEN AtStep("push") ELSE Tagged)
            /\ UNCHANGED <<gitVars, disk, logged, attempt, vouched>>
        BY <1>5, <2>2 DEF CheckTag
      <3>2. /\ release' \in CommandType /\ release'.pc \in {"push", "idle", "context"}
            /\ release'.pc = "push" => release'.unsigned = release.unsigned
            /\ release'.pc = "context" => ~release'.push
            /\ release'.publish => ~release'.unsigned
        BY <1>S, <1>T, <1>I, <3>1 DEF TagInv
      <3>3. TagInv' BY <1>I, <1>V, <3>1, <3>2 DEF TagInv
      <3> QED BY <1>M, <3>1, <3>2, <3>3 DEF Attesting
    <2> QED BY <2>1, <2>2
  <1>6. CASE PushTag
    <2>1. CASE ReleaseFails BY <2>1, <1>F
    <2>2. CASE ~ReleaseFails
      <3>1. /\ release.pc = "push" /\ (~Exists(remoteTag) \/ remoteTag = tag) /\ remoteTag' = tag
            /\ release' = (IF release.unsigned THEN Tagged ELSE AtStep("stable"))
            /\ UNCHANGED <<sources, branch, remoteBranch, worktree, tag, tags, disk, logged, attempt, vouched>>
        BY <1>6, <2>2 DEF PushTag
      <3>2. /\ release' \in CommandType /\ release'.pc \in {"stable", "idle"}
            /\ release'.pc = "stable" => release'.unsigned = release.unsigned
            /\ release'.publish => ~release'.unsigned
        BY <1>S, <1>T, <1>I, <3>1 DEF TagInv
      <3>3. TagInv' BY <1>I, <3>1, <3>2 DEF TagInv
      <3>4. ReleaseTypeOK' BY <1>I, <3>1, <3>2 DEF ReleaseTypeOK
      <3> QED BY <3>1, <3>2, <3>3, <3>4, CommandStep DEF Attesting
    <2> QED BY <2>1, <2>2
  <1>7. CASE CheckStable
    <2>1. CASE ReleaseFails BY <2>1, <1>F
    <2>2. CASE ~ReleaseFails
      <3>1. /\ release.pc = "stable" /\ release' = Tagged
            /\ UNCHANGED <<gitVars, disk, logged, attempt, vouched>>
        BY <1>7, <2>2 DEF CheckStable
      <3>2. TagInv' BY <1>I, <1>T, <1>V, <3>1 DEF TagInv
      <3> QED BY <1>M, <1>T, <3>1, <3>2 DEF Attesting
    <2> QED BY <2>1, <2>2
  \* The context: on a clean, pushed branch whose signed tag is on the remote.
  <1>8. CASE CollectContext
    <2>1. CASE ReleaseFails BY <2>1, <1>F
    <2>2. CASE ~ReleaseFails
      <3> DEFINE base == AtStep("provenance")
                 next == [base EXCEPT !.commit = AttestedCommit, !.staged = Packed]
      <3>1. PICK found \in Discoveries :
              /\ Ready(ReleaseMode, found) /\ release.pc = "context" /\ release' = next
              /\ UNCHANGED <<gitVars, disk, logged, attempt, vouched>>
        BY <1>8, <2>2 DEF CollectContext
      <3>2. AttestedCommit \in Nat /\ Packed \in Nat
        BY <1>I, SkillReleaseAssumption DEF AttestedCommit, RemoteTarget, Packed, ReleaseTypeOK, TagType
      <3>3. /\ next \in CommandType /\ next.pc = "provenance" /\ next.push = release.push
            /\ next.commit = AttestedCommit /\ next.staged = worktree
            /\ next.publish => ~next.unsigned
        <4>1. /\ base \in CommandType /\ base.pc = "provenance" /\ base.push = release.push
              /\ base.publish = release.publish /\ base.unsigned = release.unsigned
          BY <1>S
        <4> HIDE DEF base
        <4>2. /\ next \in CommandType /\ next.pc = base.pc /\ next.push = base.push
              /\ next.publish = base.publish /\ next.unsigned = base.unsigned
              /\ next.commit = AttestedCommit /\ next.staged = Packed
          BY <3>2, <4>1 DEF CommandType
        <4>3. Packed = worktree BY DEF Packed
        <4> HIDE DEF next
        <4> QED BY <1>I, <4>1, <4>2, <4>3 DEF TagInv
      <3> HIDE DEF next
      <3>4. ASSUME release.push PROVE IsUpstream(AttestedCommit, worktree)
        <4>1. ReleaseMode = "stable-release" BY <3>4 DEF ReleaseMode
        <4>2. /\ "dirty-worktree" \notin WorktreeFindings("stable-release")
              /\ "ahead-of-upstream" \notin UpstreamFindings("stable-release")
          BY <3>1, <4>1 DEF Ready, Issues, StrictRules
        <4>3. worktree = sources[branch] BY <4>2 DEF WorktreeFindings
        <4>4. ~(branch > remoteBranch) BY <4>2 DEF UpstreamFindings
        <4>5. remoteTag = tag /\ tag.at = branch /\ tag.signed BY <1>I, <3>1, <3>4 DEF TagInv
        <4>6. branch \in Nat /\ branch >= 1 /\ remoteBranch \in Nat BY <1>I DEF ReleaseTypeOK
        <4>7. AttestedCommit = branch BY <4>5, <4>6 DEF AttestedCommit, RemoteTarget
        <4> QED BY <4>3, <4>4, <4>5, <4>6, <4>7 DEF IsUpstream
      <3>5. release'.pc = "provenance" /\ release'.push => IsUpstream(release.commit, release.staged)'
        BY <1>V, <3>1, <3>3, <3>4 DEF IsUpstream
      <3>6. TagInv' BY <3>1, <3>3 DEF TagInv
      <3> QED BY <1>M, <3>1, <3>3, <3>5, <3>6 DEF Attesting
    <2> QED BY <2>1, <2>2
  \* Steps that write one of the release's files.
  <1>W. ASSUME NEW pc \in {"sign", "place", "record", "manifest", "distribution"}, NEW onDisk, WritesFiles(pc, onDisk)
        PROVE /\ disk' = onDisk /\ release' = AtStep(pc) /\ UNCHANGED <<gitVars, logged, vouched>>
              /\ TagInv' /\ (onDisk \in DiskType /\ attempt' \in Nat => ReleaseTypeOK')
    <2>1. disk' = onDisk /\ release' = AtStep(pc) /\ UNCHANGED <<gitVars, logged, vouched>>
      BY <1>W DEF WritesFiles
    <2>2. release' \in CommandType /\ release'.pc = pc /\ (release'.publish => ~release'.unsigned)
      BY <1>S, <1>I, <2>1 DEF TagInv
    <2>3. TagInv' BY <2>2 DEF TagInv
    <2>4. onDisk \in DiskType /\ attempt' \in Nat => ReleaseTypeOK' BY <1>I, <1>V, <2>1, <2>2 DEF ReleaseTypeOK
    <2> QED BY <2>1, <2>3, <2>4
  <1>9. CASE WriteProvenance
    <2> DEFINE prov == Provenance(attempt + 1, release.commit, release.staged, ReleaseMode, policy.log)
               onDisk == [disk EXCEPT !.prov = prov]
    <2>1. /\ release.pc = "provenance" /\ attempt' = attempt + 1 /\ WritesFiles("sign", onDisk)
      BY <1>9 DEF WriteProvenance
    <2>2. attempt + 1 \in Nat /\ policy.log \in LogModes BY <1>I DEF ReleaseTypeOK, LogModes
    <2>3. /\ prov \in ProvenanceType /\ prov.log = policy.log /\ prov.bundle = release.staged
          /\ prov.commit = release.commit /\ (prov.pushed => release.push)
      BY <1>D, <2>2 DEF Provenance, ProvenanceType, ReleaseMode
    <2> HIDE DEF prov
    <2>4. onDisk \in DiskType /\ onDisk.prov = prov /\ onDisk.entry = disk.entry /\ onDisk.bundle = disk.bundle
      BY <1>D, <2>3 DEF DiskType
    <2> HIDE DEF onDisk
    <2>5. /\ disk' = onDisk /\ release' = AtStep("sign") /\ UNCHANGED <<gitVars, logged, vouched>>
          /\ TagInv' /\ ReleaseTypeOK'
      BY <1>W, <2>1, <2>2, <2>4
    <2>6. release'.pc = "sign" /\ release'.staged = release.staged BY <1>S, <2>5
    <2>7. disk'.prov.pushed => IsUpstream(disk.prov.commit, disk.prov.bundle)'
      BY <1>I, <1>V, <2>1, <2>3, <2>4, <2>5 DEF PushedInv, IsUpstream
    <2>8. disk'.prov.log = policy'.log BY <2>3, <2>4, <2>5
    <2>9. disk'.prov.bundle = release'.staged BY <2>3, <2>4, <2>5, <2>6
    <2> QED BY <1>V, <2>4, <2>5, <2>6, <2>7, <2>8, <2>9, CommandStep
  <1>10. CASE SignProvenance \/ PlaceSignature
    <2>1. CASE ReleaseFails BY <2>1, <1>F
    <2>2. CASE ~ReleaseFails
      <3>1. PICK sig \in Nat, pc \in {"place", "record"} :
               /\ release.pc \in Attesting /\ UNCHANGED attempt
               /\ WritesFiles(pc, [disk EXCEPT !.sig = sig])
        <4>1. CASE SignProvenance BY <2>2, <4>1 DEF SignProvenance, Attesting
        <4>2. CASE PlaceSignature BY <1>D, <4>2 DEF PlaceSignature, Attesting
        <4> QED BY <1>10, <4>1, <4>2
      <3> DEFINE onDisk == [disk EXCEPT !.sig = sig]
      <3>2. /\ onDisk \in DiskType /\ onDisk.prov = disk.prov /\ onDisk.entry = disk.entry
            /\ onDisk.bundle = disk.bundle
        BY <1>D DEF DiskType
      <3>3. WritesFiles(pc, onDisk) BY <3>1
      <3> HIDE DEF onDisk
      <3>4. /\ disk' = onDisk /\ release' = AtStep(pc) /\ UNCHANGED <<gitVars, logged, vouched>>
            /\ TagInv' /\ ReleaseTypeOK'
        BY <1>I, <1>W, <3>1, <3>2, <3>3 DEF ReleaseTypeOK
      <3>5. release'.pc = pc /\ release'.staged = release.staged BY <1>S, <3>4
      <3>6. disk'.prov.bundle = release'.staged BY <1>I, <3>1, <3>2, <3>4, <3>5 DEF BundleInv, Attesting
      <3> QED BY <1>V, <3>2, <3>4, <3>5, <3>6, CommandStep
    <2> QED BY <2>1, <2>2
  <1>11. CASE RecordInLog
    <2>1. release.pc = "record" /\ UNCHANGED <<gitVars, attempt, vouched>> /\ logged \subseteq logged'
      BY <1>11 DEF RecordInLog, Proceed
    <2>2. release' \in {AtStep("verify"), NoRelease} BY <1>11 DEF RecordInLog, Proceed
    <2>3. \/ disk' = disk
          \/ disk' = [disk EXCEPT !.entry = disk.prov.id] /\ disk.prov.id \in logged'
      BY <1>11 DEF RecordInLog, Proceed
    <2>4. /\ disk' \in DiskType /\ disk'.prov = disk.prov /\ disk'.bundle = disk.bundle
          /\ disk'.entry = disk.entry \/ disk'.entry \in logged'
      <3>1. CASE disk' = disk BY <1>D, <3>1
      <3>2. CASE disk' = [disk EXCEPT !.entry = disk.prov.id] /\ disk.prov.id \in logged'
        BY <1>D, <3>2 DEF DiskType
      <3> QED BY <2>3, <3>1, <3>2
    <2>5. /\ release' \in CommandType /\ release'.pc \in {"verify", "idle"}
          /\ release'.pc = "verify" => release'.staged = release.staged
          /\ release'.publish => ~release'.unsigned
      BY <1>S, <1>Z, <1>I, <2>2 DEF TagInv
    <2>6. TagInv' BY <2>5 DEF TagInv
    <2>7. ReleaseTypeOK' BY <1>I, <1>V, <2>1, <2>4, <2>5 DEF ReleaseTypeOK
    <2>8. release'.pc \in Attesting => disk'.prov.bundle = release'.staged
      BY <1>I, <2>1, <2>4, <2>5 DEF BundleInv, Attesting
    <2> QED BY <1>V, <2>1, <2>4, <2>5, <2>6, <2>7, <2>8, CommandStep
  <1>12. CASE VerifyAttestation
    <2>1. CASE ReleaseFails BY <2>1, <1>F
    <2>2. CASE ~ReleaseFails
      <3>1. /\ release.pc = "verify" /\ release' = AtStep("rename") /\ vouched' = vouched \cup {disk.prov.bundle}
            /\ UNCHANGED <<gitVars, disk, logged, attempt>>
        BY <1>12, <2>2 DEF VerifyAttestation
      <3>2. /\ release' \in CommandType /\ release'.pc = "rename" /\ release'.staged = release.staged
            /\ release'.publish => ~release'.unsigned
        BY <1>S, <1>I, <3>1 DEF TagInv
      <3>3. TagInv' BY <3>2 DEF TagInv
      <3>4. release'.staged \in vouched' BY <1>I, <3>1, <3>2 DEF BundleInv
      <3> QED BY <1>M, <3>1, <3>2, <3>3, <3>4 DEF Attesting
    <2> QED BY <2>1, <2>2
  <1>13. CASE RenameBundle
    <2> DEFINE onDisk == [disk EXCEPT !.bundle = release.staged]
    <2>1. release.pc = "rename" /\ UNCHANGED attempt /\ WritesFiles("manifest", onDisk)
      BY <1>13 DEF RenameBundle
    <2>2. /\ onDisk \in DiskType /\ onDisk.prov = disk.prov /\ onDisk.entry = disk.entry
          /\ onDisk.bundle = release.staged
      BY <1>D DEF DiskType
    <2> HIDE DEF onDisk
    <2>3. /\ disk' = onDisk /\ release' = AtStep("manifest") /\ UNCHANGED <<gitVars, logged, vouched>>
          /\ TagInv' /\ ReleaseTypeOK'
      BY <1>I, <1>W, <2>1, <2>2 DEF ReleaseTypeOK
    <2>4. release'.pc = "manifest" /\ disk'.bundle \in vouched' BY <1>S, <1>I, <2>1, <2>2, <2>3 DEF BundleInv
    <2> QED BY <1>V, <2>2, <2>3, <2>4, CommandStep DEF Attesting
  <1>14. CASE WriteManifest
    <2> DEFINE onDisk == [disk EXCEPT !.manifest = ManifestOf(disk)]
    <2>1. release.pc = "manifest" /\ UNCHANGED attempt /\ WritesFiles("distribution", onDisk)
      BY <1>14 DEF WriteManifest
    <2>2. ManifestOf(disk) \in ManifestType
      BY <1>D DEF ManifestOf, Manifest, ManifestType, ProvenanceType, DiskType, RequiresCi
    <2>3. /\ onDisk \in DiskType /\ onDisk.prov = disk.prov /\ onDisk.entry = disk.entry
          /\ onDisk.bundle = disk.bundle
      BY <1>D, <2>2 DEF DiskType
    <2> HIDE DEF onDisk
    <2>4. /\ disk' = onDisk /\ release' = AtStep("distribution") /\ UNCHANGED <<gitVars, logged, vouched>>
          /\ TagInv' /\ ReleaseTypeOK'
      BY <1>I, <1>W, <2>1, <2>3 DEF ReleaseTypeOK
    <2>5. release'.pc = "distribution" BY <1>S, <2>4
    <2> QED BY <1>V, <2>3, <2>4, <2>5, CommandStep DEF Attesting
  <1>15. CASE VerifyDistribution
    BY <1>15, <1>F DEF VerifyDistribution
  \* A kill may tear the file that was being written.
  <1>16. CASE KillRelease
    <2>1. release' = NoRelease /\ UNCHANGED <<gitVars, logged, attempt, vouched>>
      BY <1>16 DEF KillRelease
    <2>2. \/ disk' = disk
          \/ disk' = [disk EXCEPT !.prov = NoProvenance(Torn)]
          \/ disk' = [disk EXCEPT !.entry = Torn]
          \/ disk' = [disk EXCEPT !.manifest = NoManifest(Torn)]
      BY <1>16 DEF KillRelease
    <2>3. Torn \in Nat /\ Torn \notin 1 .. LastAttempt BY SkillReleaseAssumption DEF Torn
    <2>4. NoProvenance(Torn) \in ProvenanceType /\ ~Intact(NoProvenance(Torn))
      BY <2>3 DEF NoProvenance, Provenance, ProvenanceType, LogModes, Intact
    <2>5. NoManifest(Torn) \in ManifestType
      BY <2>3 DEF NoManifest, Manifest, NoProvenance, Provenance, ManifestType
    <2>6. /\ disk' \in DiskType /\ disk'.bundle = disk.bundle /\ disk'.entry \in {disk.entry, Torn}
          /\ disk'.prov \in {disk.prov, NoProvenance(Torn)}
      <3>1. CASE disk' = disk BY <1>D, <3>1
      <3>2. CASE disk' = [disk EXCEPT !.prov = NoProvenance(Torn)] BY <1>D, <2>4, <3>2 DEF DiskType
      <3>3. CASE disk' = [disk EXCEPT !.entry = Torn] BY <1>D, <2>3, <3>3 DEF DiskType
      <3>4. CASE disk' = [disk EXCEPT !.manifest = NoManifest(Torn)] BY <1>D, <2>5, <3>4 DEF DiskType
      <3> QED BY <2>2, <3>1, <3>2, <3>3, <3>4
    <2>7. disk'.prov = disk.prov \/ ~Intact(disk.prov)' BY <2>4, <2>6 DEF Intact
    <2>8. TagInv' BY <1>Z, <2>1 DEF TagInv
    <2>9. ReleaseTypeOK' BY <1>I, <1>V, <1>Z, <2>1, <2>6 DEF ReleaseTypeOK
    <2> QED BY <1>V, <1>Z, <2>1, <2>6, <2>7, <2>8, <2>9, CommandStep DEF Attesting
  <1> QED
    BY <1>1, <1>2, <1>3, <1>4, <1>5, <1>6, <1>7, <1>8, <1>9, <1>10, <1>11, <1>12, <1>13, <1>14, <1>15,
       <1>16 DEF Steps

\* Every step keeps the invariant.
LEMMA ReleaseStep == StrictRules /\ ReleaseInv /\ [SkillReleaseNext]_releaseVars => ReleaseInv'
  <1> SUFFICES ASSUME StrictRules, ReleaseInv, [SkillReleaseNext]_releaseVars PROVE ReleaseInv'
    OBVIOUS
  <1>1. CASE UNCHANGED releaseVars
    BY <1>1 DEF releaseVars, gitVars, ReleaseInv, ReleaseTypeOK, TagInv, PushedInv, IsUpstream, BundleInv,
       BundleWasAttested, LogInv, Intact
  <1>2. CASE SkillReleaseNext
    BY <1>2, OutsideKeeps, CommandKeeps DEF SkillReleaseNext
  <1> QED BY <1>1, <1>2

\* The invariant holds in every reachable state when no exception waives the
\* rules that a stable release rests on.
THEOREM ReleaseInvariant == StrictRules => (SkillReleaseSpec => []ReleaseInv)
  <1> SUFFICES ASSUME StrictRules PROVE SkillReleaseSpec => []ReleaseInv
    OBVIOUS
  <1>1. ReleaseInv /\ [SkillReleaseNext]_releaseVars => ReleaseInv' BY ReleaseStep
  <1> QED BY InitReleaseInv, <1>1, PTL DEF SkillReleaseSpec

\* A manifest that verifies and says "pushed" bundles the files of an upstream
\* commit its signed remote tag names, it is in the log where the policy
\* requires it, and no bundle is in place that was not attested before.
THEOREM ReleasesCorrect == StrictRules => (SkillReleaseSpec => []ReleasesAreAttested)
  <1> SUFFICES ASSUME StrictRules PROVE SkillReleaseSpec => []ReleasesAreAttested
    OBVIOUS
  <1> QED BY ReleaseInvariant, VerifiedReleases, PTL

-------------------------------------------------------------------------------
(* The agent's key: AgentProfile.  A staged key that counts has replaced the  *)
(* profile's for good, because keys are fresh and a key is proposed once.     *)

\* No key is two things: it awaits a decision or it counts.
KeysApart ==
    /\ {profile, pending.key, pending.expected, current, replacement} \subseteq generated \cup {NoKey}
    /\ valid \cup proposed \subseteq generated
    /\ valid \cap proposed = {}

\* The staged key was never proposed; once the server has it, the one it
\* replaces will not count again.
StagedInv ==
    pending # NoRotation =>
        /\ NoKey \notin {pending.key, pending.expected}
        /\ pending.key # pending.expected
        /\ pending.key \notin proposed
        /\ profile \in {pending.expected, pending.key}
        /\ pending.key \in valid => pending.expected \notin valid \cup proposed

\* What the running command relies on.
CommandInv ==
    /\ step \in {"probe", "post", "replace", "unlink"} => pending # NoRotation /\ replacement = pending.key
    /\ step \in {"probe", "post"} => current = profile
    /\ step = "join" => replacement # NoKey
    /\ step = "replace" => pending.expected \notin valid \cup proposed
    /\ step = "unlink" => profile = pending.key

ProfileInv == ProfileTypeOK /\ KeysApart /\ StagedInv /\ CommandInv

\* Nothing is stored before the first command.
LEMMA InitProfileInv == ProfileInit => ProfileInv
  BY ProfileAssumption DEF ProfileInit, ProfileInv, ProfileTypeOK, KeysApart, StagedInv, CommandInv, NoRotation,
       Rotation, MaybeKey, PendingRotation

\* Every step keeps what the key's two files rely on.
LEMMA ProfileStep == ProfileInv /\ [ProfileNext]_profileVars => ProfileInv'
  <1> SUFFICES ASSUME ProfileInv, [ProfileNext]_profileVars PROVE ProfileInv'
    OBVIOUS
  <1> USE DEF ProfileInv
  <1> USE ProfileAssumption DEF ProfileTypeOK, KeysApart, StagedInv, CommandInv, NoRotation, Rotation, MaybeKey,
              PendingRotation
  <1>1. ASSUME NEW k \in ApiKeys, JoinPosts(k) PROVE ProfileInv'
    BY <1>1 DEF JoinPosts, FreshKey
  <1>2. ASSUME NEW k \in ApiKeys, Approves(k) PROVE ProfileInv'
    BY <1>2 DEF Approves
  <1>3. ASSUME NEW k \in ApiKeys, RotateStages(k) PROVE ProfileInv'
    BY <1>3 DEF RotateStages, StagedRotation, FreshKey
  <1>4. CASE JoinWrites BY <1>4 DEF JoinWrites
  <1>5. CASE Revokes BY <1>5 DEF Revokes
  <1>6. CASE CommandStops BY <1>6 DEF CommandStops
  <1>7. CASE RotateResumes BY <1>7 DEF RotateResumes
  <1>8. CASE RotateProbes BY <1>8 DEF RotateProbes, Probed
  <1>9. CASE RotatePosts BY <1>9 DEF RotatePosts
  <1>10. CASE RotateReplaces BY <1>10 DEF RotateReplaces
  <1>11. CASE RotateUnlinks BY <1>11 DEF RotateUnlinks
  <1>12. CASE UNCHANGED profileVars BY <1>12 DEF profileVars
  <1> QED
    BY <1>1, <1>2, <1>3, <1>4, <1>5, <1>6, <1>7, <1>8, <1>9, <1>10, <1>11, <1>12 DEF ProfileNext

\* The inductive invariant of the agent's two files.
THEOREM ProfileInvariant == ProfileSpec => []ProfileInv
  BY InitProfileInv, ProfileStep, PTL DEF ProfileSpec

\* The step form of RotationKeepsKey.
KeepsKey ==
    valid \cap StoredKeys # {} =>
        \/ valid' \cap StoredKeys' # {}
        \/ valid' = {}
        \/ \E k \in proposed : valid' = {k}

\* No step of a command, and no kill, loses the key that counts.
LEMMA StepKeepsKey == ProfileInv /\ [ProfileNext]_profileVars => KeepsKey
  <1> SUFFICES ASSUME ProfileInv, [ProfileNext]_profileVars, NEW key \in valid \cap StoredKeys PROVE KeepsKey
    BY DEF KeepsKey
  <1> USE ProfileAssumption DEF ProfileInv, ProfileTypeOK, KeysApart, StagedInv, CommandInv, NoRotation, Rotation,
              MaybeKey, PendingRotation, KeepsKey, StoredKeys
  <1>1. ASSUME NEW k \in ApiKeys, JoinPosts(k) PROVE KeepsKey
    BY <1>1 DEF JoinPosts
  <1>2. ASSUME NEW k \in ApiKeys, Approves(k) PROVE KeepsKey
    BY <1>2 DEF Approves
  <1>3. ASSUME NEW k \in ApiKeys, RotateStages(k) PROVE KeepsKey
    BY <1>3 DEF RotateStages, StagedRotation
  <1>4. CASE JoinWrites BY <1>4 DEF JoinWrites
  <1>5. CASE Revokes BY <1>5 DEF Revokes
  <1>6. CASE CommandStops \/ RotateResumes \/ RotateProbes \/ UNCHANGED profileVars
    BY <1>6 DEF CommandStops, RotateResumes, RotateProbes, profileVars
  <1>7. CASE RotatePosts BY <1>7 DEF RotatePosts
  <1>8. CASE RotateReplaces BY <1>8 DEF RotateReplaces
  <1>9. CASE RotateUnlinks BY <1>9 DEF RotateUnlinks
  <1> QED BY <1>1, <1>2, <1>3, <1>4, <1>5, <1>6, <1>7, <1>8, <1>9 DEF ProfileNext

\* The key the server accepts stays in the profile or in the pending rotation
\* (src/infinitas_skill/agent/profile.py), wherever the command is killed and
\* whether or not the server's answer arrived, for any number of keys.
THEOREM RotationCorrect == ProfileSpec => RotationKeepsKey
  <1>1. ProfileInv /\ [ProfileNext]_profileVars => [KeepsKey]_profileVars BY StepKeepsKey
  <1> QED BY <1>1, ProfileInvariant, PTL DEF ProfileSpec, RotationKeepsKey, KeepsKey

-------------------------------------------------------------------------------
(* Side by side *)

\* The commands share no variable, so each runs as it would alone.
LEMMA CommandsRunAlone ==
    Spec => InstallSpec /\ SyncSpec /\ SnapshotSpec /\ BackupSpec /\ SkillReleaseSpec
  <1>1. Init => InstallInit /\ SyncInit /\ SnapshotInit /\ BackupInit /\ SkillReleaseInit
    BY DEF Init
  <1>2. [Next]_vars => /\ [InstallNext]_installVars /\ [SyncNext]_syncVars /\ [SnapshotNext]_snapshotVars
                       /\ [BackupNext]_backupVars /\ [SkillReleaseNext]_releaseVars
    <2>1. CASE Others("install") /\ InstallNext BY <2>1 DEF Others
    <2>2. CASE Others("sync") /\ SyncNext BY <2>2 DEF Others
    <2>3. CASE Others("openclaw") /\ SnapshotNext BY <2>3 DEF Others
    <2>4. CASE Others("backup") /\ BackupNext BY <2>4 DEF Others
    <2>5. CASE Others("release") /\ SkillReleaseNext BY <2>5 DEF Others
    <2>6. CASE UNCHANGED vars BY <2>6 DEF vars
    <2> QED BY <2>1, <2>2, <2>3, <2>4, <2>5, <2>6 DEF Next
  <1> QED BY <1>1, <1>2, PTL DEF Spec, InstallSpec, SyncSpec, SnapshotSpec, BackupSpec, SkillReleaseSpec

\* The same guarantees for the commands side by side, as the run checks them.
THEOREM FilesCorrect ==
    Spec => /\ InstallIsSafe /\ []SyncIsSafe /\ BackupsAreSafe /\ SnapshotsAreSafe
            /\ StrictRules => []ReleasesAreAttested
  BY CommandsRunAlone, InstallCorrect, SyncCorrect, BackupCorrect, SnapshotCorrect, ReleasesCorrect, PTL
===============================================================================
