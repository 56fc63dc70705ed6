--------------------------- MODULE ChangeSetsProofs ---------------------------
(***************************************************************************)
(* Proofs about ChangeSets for any number of agents, contents and bundles. *)
(* AcceptedFollowsBase needs to know that what a request read was true of  *)
(* the prefix it saw (ReadInv), that a change set keeps its base, and that *)
(* equal digests mean the same version: digests determine the version      *)
(* string, and LatestIsLast makes version strings unique.                  *)
(***************************************************************************)
EXTENDS ChangeSets, TLAPS

ReadInv ==
    \A c \in Clients : req[c].step # "none" =>
        /\ req[c].content \in Contents
        /\ req[c].base \in 0 .. Len(history)
        /\ req[c].digest = DigestAt(req[c].base)

BaseInv ==
    \A c \in Clients : req[c].step = "accept" =>
        /\ changes[req[c].content].state # "absent"
        /\ changes[req[c].content].base = req[c].base

ChangesInv ==
    /\ ChangesTypeOK
    /\ ReadInv
    /\ BaseInv
    /\ LatestIsLast
    /\ SealedAreConsumed
    /\ AcceptedFollowsBase

-------------------------------------------------------------------------------

\* The empty request has its type.
LEMMA NoRequestFact == NoRequest \in Request /\ NoRequest.step = "none"
  BY DEF NoRequest, Asks, Request

\* The initial state satisfies the invariant.
LEMMA InitChangesInv == Init => ChangesInv
  <1> SUFFICES ASSUME Init PROVE ChangesInv
    OBVIOUS
  <1>1. history = << >> /\ Len(history) = 0 BY DEF Init
  <1>2. ChangesTypeOK
    <2>1. ChangeOf("absent", 0) \in ChangeSet BY DEF ChangeOf, ChangeSet
    <2>2. changes \in [Contents -> ChangeSet] BY <2>1 DEF Init
    <2>3. req \in [Clients -> Request] BY NoRequestFact DEF Init
    <2>4. history \in Seq(Contents) BY <1>1
    <2> QED BY <2>2, <2>3, <2>4 DEF Init, ChangesTypeOK
  <1>3. ReadInv /\ BaseInv BY NoRequestFact DEF Init, ReadInv, BaseInv
  <1>4. LatestIsLast BY <1>1 DEF Init, LatestIsLast, LatestDigest, DigestAt
  <1>5. SealedAreConsumed BY <1>1 DEF Init, SealedAreConsumed
  <1>6. AcceptedFollowsBase BY DEF Init, AcceptedFollowsBase, ChangeOf
  <1> QED BY <1>2, <1>3, <1>4, <1>5, <1>6 DEF ChangesInv

\* Equal digests of versions m and n mean that m and n are the same.
LEMMA DigestInjective ==
  ASSUME ChangesTypeOK, LatestIsLast, NEW m \in 0 .. Len(history), NEW n \in 0 .. Len(history),
         DigestAt(m) = DigestAt(n)
  PROVE  m = n
  <1>1. Len(history) \in Nat BY DEF ChangesTypeOK
  <1>2. CASE m = 0 \/ n = 0
    BY <1>2 DEF DigestAt
  <1>3. CASE m # 0 /\ n # 0
    <2>1. m \in 1 .. Len(history) /\ n \in 1 .. Len(history) BY <1>1, <1>3
    <2>2. bundle[history[m]] = bundle[history[n]] BY <1>3 DEF DigestAt
    <2>3. VersionOf(history[m]) = VersionOf(history[n]) BY <2>2 DEF VersionOf
    <2> QED BY <2>1, <2>3 DEF LatestIsLast
  <1> QED BY <1>2, <1>3

\* The versions before an append stay what they were.
LEMMA AppendKeeps ==
  ASSUME ChangesTypeOK, NEW k \in Contents, history' = Append(history, k), bundle' = bundle
  PROVE  /\ history' \in Seq(Contents)
         /\ Len(history') = Len(history) + 1
         /\ \A n \in 1 .. Len(history) : history'[n] = history[n]
         /\ history'[Len(history) + 1] = k
         /\ \A n \in 0 .. Len(history) : DigestAt(n)' = DigestAt(n)
  <1>1. /\ history' \in Seq(Contents)
        /\ Len(history') = Len(history) + 1
        /\ \A n \in 1 .. Len(history) : history'[n] = history[n]
        /\ history'[Len(history) + 1] = k
        /\ Len(history) \in Nat
    BY DEF ChangesTypeOK
  <1>2. ASSUME NEW n \in 0 .. Len(history) PROVE DigestAt(n)' = DigestAt(n)
    <2>1. CASE n = 0 BY <2>1 DEF DigestAt
    <2>2. CASE n # 0
      <3>1. n \in 1 .. Len(history) BY <1>1, <2>2
      <3> QED BY <1>1, <2>2, <3>1 DEF DigestAt
    <2> QED BY <2>1, <2>2
  <1> QED BY <1>1, <1>2

\* Sealing keeps the marker right, the version strings unique and contents
\* one-use.
LEMMA SealsKeeps ==
  ASSUME ChangesInv, NEW k \in Contents, Seals(k), bundle' = bundle
  PROVE  /\ pending' \subseteq Contents /\ history' \in Seq(Contents) /\ latest' \subseteq Bundles
         /\ LatestIsLast' /\ SealedAreConsumed'
  <1> USE DEF ChangesInv
  <1>1. /\ history' = Append(history, k) /\ pending' = pending \ {k} /\ latest' = {bundle[k]}
        /\ NewVersion(k) /\ k \in pending
    BY DEF Seals, Consumed
  <1>2. /\ history' \in Seq(Contents)
        /\ Len(history') = Len(history) + 1
        /\ \A n \in 1 .. Len(history) : history'[n] = history[n]
        /\ history'[Len(history) + 1] = k
    BY <1>1, AppendKeeps
  <1>3. Len(history) \in Nat BY DEF ChangesTypeOK
  <1>4. pending' \subseteq Contents /\ latest' \subseteq Bundles BY <1>1 DEF ChangesTypeOK
  <1>5. (latest = LatestDigest)'
    BY <1>1, <1>2, <1>3 DEF LatestDigest, DigestAt
  <1>6. ASSUME NEW m \in 1 .. Len(history'), NEW n \in 1 .. Len(history'),
               VersionOf(history[m])' = VersionOf(history[n])'
        PROVE  m = n
    <2>1. Declared[bundle[history'[m]]] = Declared[bundle[history'[n]]]
      BY <1>6, bundle' = bundle DEF VersionOf
    <2>2. \A x \in 1 .. Len(history) : Declared[bundle[history[x]]] # Declared[bundle[k]]
      BY <1>1 DEF NewVersion, VersionOf
    <2>3. (m \in 1 .. Len(history) \/ m = Len(history) + 1)
          /\ (n \in 1 .. Len(history) \/ n = Len(history) + 1)
      BY <1>2, <1>3
    <2>4. CASE m \in 1 .. Len(history) /\ n \in 1 .. Len(history)
      BY <1>2, <2>1, <2>4 DEF LatestIsLast, VersionOf
    <2> QED BY <1>2, <2>1, <2>2, <2>3, <2>4
  <1>7. LatestIsLast' BY <1>5, <1>6 DEF LatestIsLast
  <1>8. ASSUME NEW x \in Contents
        PROVE  x \in pending' <=> \A n \in 1 .. Len(history') : history'[n] # x
    <2>1. CASE x = k
      <3>1. Len(history) + 1 \in 1 .. Len(history') BY <1>2, <1>3
      <3> QED BY <1>1, <1>2, <2>1, <3>1
    <2>2. CASE x # k
      <3>1. x \in pending' <=> x \in pending BY <1>1, <2>2
      <3>2. \A n \in 1 .. Len(history') : n \in 1 .. Len(history) \/ n = Len(history) + 1
        BY <1>2, <1>3
      <3>3. \A n \in 1 .. Len(history) : n \in 1 .. Len(history') BY <1>2, <1>3
      <3>4. (\A n \in 1 .. Len(history') : history'[n] # x)
               <=> \A n \in 1 .. Len(history) : history[n] # x
        BY <1>2, <2>2, <3>2, <3>3
      <3> QED BY <3>1, <3>4 DEF SealedAreConsumed
    <2> QED BY <2>1, <2>2
  <1>9. SealedAreConsumed' BY <1>8 DEF SealedAreConsumed
  <1> QED BY <1>2, <1>4, <1>7, <1>9

\* Appending a version and closing one request keeps what the others read, and
\* a prefix of the history keeps its accepted change sets.
LEMMA SealsReads ==
  ASSUME ChangesInv, NEW c \in Clients, NEW k \in Contents, Done(c),
         history' = Append(history, k), bundle' = bundle
  PROVE  req' \in [Clients -> Request] /\ ReadInv'
  <1>1. \A x \in Clients : req'[x] = IF x = c THEN NoRequest ELSE req[x]
    BY DEF Done, ChangesInv, ChangesTypeOK
  <1>2. req' \in [Clients -> Request]
    BY NoRequestFact DEF Done, ChangesInv, ChangesTypeOK
  <1>3. /\ Len(history') = Len(history) + 1 /\ Len(history) \in Nat
        /\ \A n \in 0 .. Len(history) : DigestAt(n)' = DigestAt(n)
    BY AppendKeeps DEF ChangesInv, ChangesTypeOK
  <1>4. ASSUME NEW x \in Clients, req'[x].step # "none"
        PROVE  /\ req'[x].content \in Contents
               /\ req'[x].base \in 0 .. Len(history')
               /\ req'[x].digest = DigestAt(req[x].base)'
    <2>1. x # c /\ req'[x] = req[x] BY <1>1, <1>4, NoRequestFact
    <2>2. /\ req[x].content \in Contents /\ req[x].base \in 0 .. Len(history)
          /\ req[x].digest = DigestAt(req[x].base)
      BY <1>4, <2>1 DEF ChangesInv, ReadInv
    <2>3. PICK n \in 0 .. Len(history) : n = req[x].base BY <2>2
    <2>4. DigestAt(n)' = DigestAt(n) BY <1>3
    <2>5. req'[x].base = n BY <2>1, <2>3
    <2>6. DigestAt(req[x].base)' = DigestAt(n)' BY <2>5
    <2> QED BY <1>3, <2>1, <2>2, <2>3, <2>4, <2>6
  <1>5. ReadInv' BY <1>4 DEF ReadInv
  <1> QED BY <1>2, <1>5

\* A read adds a request that has read the present.
LEMMA ReadStep ==
  ASSUME ChangesInv, NEW c \in Clients, NEW k \in Contents,
         NEW step \in {"create", "submit", "reject", "accept", "seal"}, Reads(c, step, k),
         step = "accept" => changes[k].state # "absent" /\ changes[k].base = Len(history)
  PROVE  ChangesInv'
  <1> DEFINE r == Asks(step, k, Len(history), LatestDigest)
  <1>1. /\ req' = [req EXCEPT ![c] = r]
        /\ UNCHANGED <<bundle, pending, history, latest, archived, changes>>
    BY DEF Reads
  <1>2. Len(history) \in Nat BY DEF ChangesInv, ChangesTypeOK
  <1>3. LatestDigest \subseteq Bundles
    <2>1. CASE Len(history) = 0 BY <2>1 DEF LatestDigest, DigestAt
    <2>2. CASE Len(history) # 0
      <3>1. Len(history) \in 1 .. Len(history) BY <1>2, <2>2
      <3>2. history[Len(history)] \in Contents BY <3>1 DEF ChangesInv, ChangesTypeOK
      <3> QED BY <2>2, <3>2 DEF LatestDigest, DigestAt, ChangesInv, ChangesTypeOK
    <2> QED BY <2>1, <2>2
  <1>4. /\ r \in Request /\ r.step = step /\ r.content = k /\ r.base = Len(history)
        /\ r.digest = LatestDigest
    BY <1>2, <1>3 DEF Asks, Request
  <1> HIDE DEF r
  <1>5. \A x \in Clients : req'[x] = IF x = c THEN r ELSE req[x]
    BY <1>1 DEF ChangesInv, ChangesTypeOK
  <1>6. req' \in [Clients -> Request] BY <1>1, <1>4 DEF ChangesInv, ChangesTypeOK
  <1>7. ASSUME NEW x \in Clients, req'[x].step # "none"
        PROVE  /\ req'[x].content \in Contents
               /\ req'[x].base \in 0 .. Len(history')
               /\ req'[x].digest = DigestAt(req[x].base)'
    <2>1. DigestAt(req[x].base)' = DigestAt(req'[x].base) BY <1>1 DEF DigestAt
    <2>2. CASE x = c BY <1>1, <1>2, <1>4, <1>5, <2>1, <2>2 DEF LatestDigest
    <2>3. CASE x # c BY <1>1, <1>5, <1>7, <2>1, <2>3 DEF ChangesInv, ReadInv
    <2> QED BY <2>2, <2>3
  <1>8. ReadInv' BY <1>7 DEF ReadInv
  <1>9. BaseInv' BY <1>1, <1>4, <1>5 DEF BaseInv, ChangesInv
  <1> QED BY <1>1, <1>6, <1>8, <1>9
    DEF ChangesInv, ChangesTypeOK, LatestIsLast, LatestDigest, DigestAt, VersionOf,
        SealedAreConsumed, AcceptedFollowsBase

\* Closing a request without touching versions keeps what was read.
LEMMA DoneKeeps ==
  ASSUME ChangesInv, NEW c \in Clients, Done(c), UNCHANGED <<bundle, pending, history, latest>>
  PROVE  /\ req' \in [Clients -> Request]
         /\ \A x \in Clients : req'[x] = IF x = c THEN NoRequest ELSE req[x]
         /\ ReadInv' /\ LatestIsLast' /\ SealedAreConsumed'
  <1>1. \A x \in Clients : req'[x] = IF x = c THEN NoRequest ELSE req[x]
    BY DEF Done, ChangesInv, ChangesTypeOK
  <1>2. req' \in [Clients -> Request]
    BY NoRequestFact DEF Done, ChangesInv, ChangesTypeOK
  <1>3. ReadInv' BY <1>1, NoRequestFact DEF ReadInv, ChangesInv, DigestAt
  <1>4. LatestIsLast' BY DEF LatestIsLast, ChangesInv, LatestDigest, DigestAt, VersionOf
  <1>5. SealedAreConsumed' BY DEF SealedAreConsumed, ChangesInv
  <1> QED BY <1>1, <1>2, <1>3, <1>4, <1>5

\* Every step keeps the invariant.
LEMMA ChangesStep == ChangesInv /\ [Next]_vars => ChangesInv'
  <1> SUFFICES ASSUME ChangesInv, [Next]_vars PROVE ChangesInv'
    OBVIOUS
  <1>T. ChangesTypeOK /\ ReadInv /\ BaseInv /\ AcceptedFollowsBase BY DEF ChangesInv
  <1>L. Len(history) \in Nat BY <1>T DEF ChangesTypeOK
  <1>1. ASSUME NEW c \in Clients, NEW k \in Contents,
               CreateReads(c, k) \/ SubmitReads(c, k) \/ RejectReads(c, k) \/ AcceptReads(c, k)
                 \/ SealReads(c, k)
        PROVE  ChangesInv'
    <2>1. CASE CreateReads(c, k) BY <2>1, ReadStep DEF CreateReads
    <2>2. CASE SubmitReads(c, k) BY <2>2, ReadStep DEF SubmitReads
    <2>3. CASE RejectReads(c, k) BY <2>3, ReadStep DEF RejectReads
    <2>4. CASE AcceptReads(c, k) BY <2>4, ReadStep DEF AcceptReads
    <2>5. CASE SealReads(c, k) BY <2>5, ReadStep DEF SealReads
    <2> QED BY <1>1, <2>1, <2>2, <2>3, <2>4, <2>5
  <1>2. ASSUME NEW c \in Clients, CreateWrites(c) PROVE ChangesInv'
    <2>1. PICK k \in Contents : k = req[c].content
      BY <1>T, <1>2 DEF CreateWrites, ReadInv
    <2>2. /\ changes' = IF changes[k].state = "absent"
                        THEN [changes EXCEPT ![k] = ChangeOf("open", req[c].base)] ELSE changes
          /\ Done(c) /\ UNCHANGED <<bundle, pending, history, latest, archived>>
      BY <1>2, <2>1 DEF CreateWrites
    <2>3. ChangeOf("open", req[c].base) \in ChangeSet
      BY <1>T DEF ChangesTypeOK, Request, ChangeOf, ChangeSet
    <2>4. changes' \in [Contents -> ChangeSet] BY <1>T, <2>2, <2>3 DEF ChangesTypeOK
    <2>5. \A x \in Contents : changes[x].state # "absent" => changes'[x] = changes[x]
      BY <1>T, <2>2 DEF ChangesTypeOK
    <2>6. \A x \in Contents : changes'[x].state = "accepted" => changes'[x] = changes[x]
      BY <1>T, <2>2 DEF ChangesTypeOK, ChangeOf
    <2>7. /\ req' \in [Clients -> Request]
          /\ \A x \in Clients : req'[x] = IF x = c THEN NoRequest ELSE req[x]
          /\ ReadInv' /\ LatestIsLast' /\ SealedAreConsumed'
      BY <2>2, DoneKeeps
    <2>8. BaseInv' BY <1>T, <2>5, <2>7, NoRequestFact DEF BaseInv, ReadInv
    <2>9. AcceptedFollowsBase' BY <1>T, <2>2, <2>6 DEF AcceptedFollowsBase
    <2> QED BY <1>T, <2>2, <2>4, <2>7, <2>8, <2>9 DEF ChangesInv, ChangesTypeOK
  <1>3. ASSUME NEW c \in Clients, SubmitWrites(c) \/ RejectWrites(c) PROVE ChangesInv'
    <2>1. PICK step \in {"submit", "reject"}, state \in {"submitted", "rejected"} :
                  Decides(c, step, state)
      BY <1>3 DEF SubmitWrites, RejectWrites
    <2>2. PICK k \in Contents : k = req[c].content
      BY <1>T, <2>1 DEF Decides, ReadInv
    <2>3. /\ changes' = [changes EXCEPT ![k] = ChangeOf(state, changes[k].base)]
          /\ Done(c) /\ UNCHANGED <<bundle, pending, history, latest, archived>>
      BY <2>1, <2>2 DEF Decides
    <2>4. ChangeOf(state, changes[k].base) \in ChangeSet
      BY <1>T DEF ChangesTypeOK, ChangeOf, ChangeSet
    <2>5. changes' \in [Contents -> ChangeSet] BY <1>T, <2>3, <2>4 DEF ChangesTypeOK
    <2>6. \A x \in Contents : changes'[x].base = changes[x].base
                              /\ (changes[x].state # "absent" => changes'[x].state # "absent")
                              /\ (changes'[x].state = "accepted" => changes'[x] = changes[x])
      BY <1>T, <2>3 DEF ChangesTypeOK, ChangeOf
    <2>7. /\ req' \in [Clients -> Request]
          /\ \A x \in Clients : req'[x] = IF x = c THEN NoRequest ELSE req[x]
          /\ ReadInv' /\ LatestIsLast' /\ SealedAreConsumed'
      BY <2>3, DoneKeeps
    <2>8. BaseInv' BY <1>T, <2>6, <2>7, NoRequestFact DEF BaseInv, ReadInv
    <2>9. AcceptedFollowsBase' BY <1>T, <2>3, <2>6 DEF AcceptedFollowsBase
    <2> QED BY <1>T, <2>3, <2>5, <2>7, <2>8, <2>9 DEF ChangesInv, ChangesTypeOK
  <1>4. ASSUME NEW c \in Clients, AcceptWrites(c) PROVE ChangesInv'
    <2>1. PICK k \in Contents : k = req[c].content
      BY <1>T, <1>4 DEF AcceptWrites, ReadInv
    <2>2. /\ req[c].step = "accept" /\ req[c].digest = LatestDigest /\ Seals(k) /\ Done(c)
          /\ bundle' = bundle /\ archived' = archived /\ history' = Append(history, k)
          /\ changes' = [x \in Contents |->
               IF x = k THEN ChangeOf("accepted", changes[x].base)
               ELSE IF changes[x].state \in {"open", "submitted"}
                    THEN ChangeOf("superseded", changes[x].base)
               ELSE changes[x]]
      BY <1>4, <2>1 DEF AcceptWrites, ExpectedIsLatest, Seals
    <2>3. req[c].base = Len(history)
      <3>1. PICK n \in 0 .. Len(history) : n = req[c].base /\ DigestAt(n) = LatestDigest
        BY <1>T, <2>2 DEF ReadInv
      <3>2. n = Len(history)
        BY <1>L, <3>1, DigestInjective DEF LatestDigest, ChangesInv
      <3> QED BY <3>1, <3>2
    <2>4. changes[k].base = Len(history) BY <1>T, <2>1, <2>2, <2>3 DEF BaseInv
    <2>5. /\ Len(history') = Len(history) + 1
          /\ \A n \in 1 .. Len(history) : history'[n] = history[n]
          /\ history'[Len(history) + 1] = k
      BY <1>T, <2>2, AppendKeeps
    <2>6. ASSUME NEW x \in Contents PROVE ChangeOf("accepted", changes[x].base) \in ChangeSet
                                        /\ ChangeOf("superseded", changes[x].base) \in ChangeSet
      BY <1>T DEF ChangesTypeOK, ChangeOf, ChangeSet
    <2>7. changes' \in [Contents -> ChangeSet] BY <1>T, <2>2, <2>6 DEF ChangesTypeOK
    <2>8. \A x \in Contents : changes'[x].base = changes[x].base
                              /\ (changes[x].state # "absent" => changes'[x].state # "absent")
                              /\ (x # k /\ changes'[x].state = "accepted" => changes'[x] = changes[x])
      BY <2>2 DEF ChangeOf
    <2>9. req' \in [Clients -> Request] /\ ReadInv' BY <2>2, SealsReads
    <2>10. \A x \in Clients : req'[x] = IF x = c THEN NoRequest ELSE req[x]
      BY <1>T, <2>2 DEF Done, ChangesTypeOK
    <2>11. BaseInv' BY <1>T, <2>8, <2>10, NoRequestFact DEF BaseInv, ReadInv
    <2>12. ASSUME NEW x \in Contents, changes'[x].state = "accepted"
           PROVE  changes'[x].base < Len(history') /\ history'[changes'[x].base + 1] = x
      <3>1. CASE x = k BY <1>L, <2>4, <2>5, <2>8, <3>1
      <3>2. CASE x # k
        <4>1. changes[x].base < Len(history) /\ history[changes[x].base + 1] = x
          BY <1>T, <2>8, <2>12, <3>2 DEF AcceptedFollowsBase
        <4>2. changes[x].base + 1 \in 1 .. Len(history)
          BY <1>T, <1>L, <4>1 DEF ChangesTypeOK, ChangeSet
        <4>3. changes[x].base \in Nat BY <1>T DEF ChangesTypeOK, ChangeSet
        <4> QED BY <1>L, <2>5, <2>8, <4>1, <4>2, <4>3
      <3> QED BY <3>1, <3>2
    <2>13. AcceptedFollowsBase' BY <2>12 DEF AcceptedFollowsBase
    <2>14. /\ pending' \subseteq Contents /\ history' \in Seq(Contents) /\ latest' \subseteq Bundles
           /\ LatestIsLast' /\ SealedAreConsumed'
      BY <2>2, SealsKeeps
    <2> QED BY <1>T, <2>2, <2>7, <2>9, <2>11, <2>13, <2>14 DEF ChangesInv, ChangesTypeOK
  <1>5. ASSUME NEW c \in Clients, SealWrites(c) PROVE ChangesInv'
    <2>1. PICK k \in Contents : k = req[c].content
      BY <1>T, <1>5 DEF SealWrites, ReadInv
    <2>2. /\ Seals(k) /\ Done(c) /\ UNCHANGED <<bundle, archived, changes>>
          /\ history' = Append(history, k)
      BY <1>5, <2>1 DEF SealWrites, Seals
    <2>3. /\ Len(history') = Len(history) + 1
          /\ \A n \in 1 .. Len(history) : history'[n] = history[n]
      BY <1>T, <2>2, AppendKeeps
    <2>4. req' \in [Clients -> Request] /\ ReadInv' BY <2>2, SealsReads
    <2>5. \A x \in Clients : req'[x] = IF x = c THEN NoRequest ELSE req[x]
      BY <1>T, <2>2 DEF Done, ChangesTypeOK
    <2>6. BaseInv' BY <1>T, <2>2, <2>5, NoRequestFact DEF BaseInv
    <2>7. ASSUME NEW x \in Contents, changes[x].state = "accepted"
          PROVE  changes[x].base < Len(history') /\ history'[changes[x].base + 1] = x
      <3>1. changes[x].base < Len(history) /\ history[changes[x].base + 1] = x
        BY <1>T, <2>7 DEF AcceptedFollowsBase
      <3>2. changes[x].base + 1 \in 1 .. Len(history)
        BY <1>T, <1>L, <3>1 DEF ChangesTypeOK, ChangeSet
      <3> QED BY <1>L, <1>T, <2>3, <3>1, <3>2 DEF ChangesTypeOK, ChangeSet
    <2>8. AcceptedFollowsBase' BY <2>2, <2>7 DEF AcceptedFollowsBase
    <2>9. /\ pending' \subseteq Contents /\ history' \in Seq(Contents) /\ latest' \subseteq Bundles
          /\ LatestIsLast' /\ SealedAreConsumed'
      BY <2>2, SealsKeeps
    <2> QED BY <1>T, <2>2, <2>4, <2>6, <2>8, <2>9 DEF ChangesInv, ChangesTypeOK
  <1>6. ASSUME NEW c \in Clients, Conflict(c) PROVE ChangesInv'
    <2>1. Done(c) /\ UNCHANGED <<bundle, pending, history, latest, archived, changes>>
      BY <1>6 DEF Conflict
    <2>2. /\ req' \in [Clients -> Request]
          /\ \A x \in Clients : req'[x] = IF x = c THEN NoRequest ELSE req[x]
          /\ ReadInv' /\ LatestIsLast' /\ SealedAreConsumed'
      BY <2>1, DoneKeeps
    <2>3. BaseInv' BY <1>T, <2>1, <2>2, NoRequestFact DEF BaseInv
    <2> QED BY <1>T, <2>1, <2>2, <2>3 DEF ChangesInv, ChangesTypeOK, AcceptedFollowsBase
  <1>7. CASE ArchiveSkill \/ UNCHANGED vars
    <2>1. UNCHANGED <<bundle, pending, history, latest, changes, req>> /\ archived' \in BOOLEAN
      BY <1>T, <1>7 DEF ArchiveSkill, vars, ChangesTypeOK
    <2> QED BY <2>1 DEF ChangesInv, ChangesTypeOK, ReadInv, BaseInv, LatestIsLast,
         SealedAreConsumed, AcceptedFollowsBase, LatestDigest, DigestAt, VersionOf
  <1> QED BY <1>1, <1>2, <1>3, <1>4, <1>5, <1>6, <1>7 DEF Next

\* The invariant holds in every reachable state.
THEOREM ChangesInvariant == Spec => []ChangesInv
  BY InitChangesInv, ChangesStep, PTL DEF Spec

\* Type correctness of versions, change sets and requests.
THEOREM ChangesTypeCorrect == Spec => []ChangesTypeOK
  BY ChangesInvariant, PTL DEF ChangesInv

\* No lost update: accept_change_set seals only on top of the change set's base,
\* whatever other agents accept, seal, reject or submit meanwhile.
THEOREM AcceptCorrect == Spec => []AcceptedFollowsBase
  BY ChangesInvariant, PTL DEF ChangesInv

\* The latest marker and the version strings of a skill stay right.
THEOREM LatestCorrect == Spec => []LatestIsLast
  BY ChangesInvariant, PTL DEF ChangesInv

\* A content is sealed at most once, and consumed exactly then.
THEOREM OneUseCorrect == Spec => []SealedAreConsumed
  BY ChangesInvariant, PTL DEF ChangesInv

\* All that a skill's history promises, whatever its agents do at once (create_change_set to
\* archive_skill).
THEOREM HistoryCorrect == Spec => []HistoryIsSound
  BY ChangesTypeCorrect, LatestCorrect, OneUseCorrect, PTL DEF HistoryIsSound
===============================================================================
