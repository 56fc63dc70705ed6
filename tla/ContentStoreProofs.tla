-------------------------- MODULE ContentStoreProofs --------------------------
(***************************************************************************)
(* Proofs about ContentStore for any number of requests, contents and      *)
(* bundles.  SealedNotPending is not inductive: the commit of an upload    *)
(* writes a pending row over whatever is at its id, so the invariant adds  *)
(* that nobody else has that id and that nothing is there (OwnRowInv).     *)
(***************************************************************************)
EXTENDS ContentStore, FiniteSetTheorems, TLAPS

\* A request that inserted or seals has an id; one that cleans up found nobody
\* referring to its object.
StepInv ==
    \A c \in Clients :
        /\ req[c].step \in {"audit", "seal"} => req[c].id \in Ids
        /\ req[c].step = "cleanup" => req[c].fresh

OwnRowInv ==
    \A c \in Clients : req[c].open =>
        /\ req[c].id \in Ids
        /\ rows[req[c].id].state = "absent"
        /\ \A x \in Clients \ {c} : req[x].id # req[c].id

\* A prune marks rows of the table.
MarkedInv == \A c \in Clients : \A i \in req[c].marked : rows[i].state # "absent"

RequestInv == StepInv /\ OwnRowInv /\ MarkedInv

StoreInv == StoreTypeOK /\ RequestInv /\ SealedNotPending

-------------------------------------------------------------------------------

\* AnyDigest is a digest.
LEMMA AnyDigestType == AnyDigest \in Digests
  BY StoreAssumption DEF AnyDigest

\* The empty request has its type.
LEMMA NoRequestType == NoRequest \in Request
  BY AnyDigestType DEF NoRequest, Asks, Request

\* The initial state satisfies the invariant.
LEMMA InitStoreInv == Init => StoreInv
  BY AnyDigestType, NoRequestType
     DEF Init, StoreInv, StoreTypeOK, RequestInv, StepInv, OwnRowInv, MarkedInv, SealedNotPending, RowOf, Row,
         NoRequest, Asks, Clients

\* A step that changes one request only, gives it no row of its own and lets
\* it seal or report only a row of the table, keeps what the invariant says of
\* requests.
LEMMA RequestStep ==
  ASSUME StoreInv, NEW c \in Clients, NEW r \in Request,
         req' = [req EXCEPT ![c] = r], rows' = rows,
         r.step \in {"audit", "seal"} => r.id \in Ids,
         r.step = "cleanup" => r.fresh,
         \A i \in r.marked : rows[i].state # "absent",
         \/ r.id = 0 /\ ~r.open
         \/ r.id = req[c].id /\ (r.open => req[c].open)
  PROVE  req' \in [Clients -> Request] /\ RequestInv'
  <1> USE DEF StoreInv, StoreTypeOK, RequestInv
  <1>1. req' \in [Clients -> Request] OBVIOUS
  <1>2. \A x \in Clients : req'[x] = IF x = c THEN r ELSE req[x] OBVIOUS
  <1>3. StepInv' BY <1>2 DEF StepInv
  <1>4. 0 \notin Ids BY DEF Ids
  <1>5. ASSUME NEW x \in Clients, req'[x].open
        PROVE  /\ req'[x].id \in Ids
               /\ rows'[req'[x].id].state = "absent"
               /\ \A y \in Clients \ {x} : req'[y].id # req'[x].id
    <2>1. req[x].open /\ req'[x].id = req[x].id BY <1>2, <1>5
    <2>2. req[x].id \in Ids /\ rows[req[x].id].state = "absent" BY <2>1 DEF OwnRowInv
    <2>3. ASSUME NEW y \in Clients \ {x} PROVE req'[y].id # req'[x].id
      <3>1. req[y].id # req[x].id BY <2>1 DEF OwnRowInv
      <3>2. req'[y].id \in {0, req[y].id} BY <1>2
      <3> QED BY <2>1, <2>2, <3>1, <3>2, <1>4
    <2> QED BY <2>1, <2>2, <2>3
  <1>6. OwnRowInv' BY <1>5 DEF OwnRowInv
  <1>7. MarkedInv' BY <1>2 DEF MarkedInv
  <1> QED BY <1>1, <1>3, <1>6, <1>7

\* Every step keeps the invariant.
LEMMA StoreStep == StoreInv /\ [Next]_vars => StoreInv'
  <1> SUFFICES ASSUME StoreInv, [Next]_vars PROVE StoreInv'
    OBVIOUS
  <1>T. StoreTypeOK /\ StepInv /\ OwnRowInv /\ MarkedInv /\ SealedNotPending
    BY DEF StoreInv, RequestInv
  <1>M. \A c \in Clients : \A i \in req[c].marked : i \in Ids /\ rows[i].state # "absent"
    BY <1>T DEF MarkedInv, StoreTypeOK, Request
  <1>Z. 0 \notin Ids BY DEF Ids
  <1>R. \A c \in Clients : req[c] \in Request BY <1>T DEF StoreTypeOK
  <1>N. NoRequest.step = "none" /\ NoRequest.id = 0 /\ ~NoRequest.open /\ NoRequest.marked = {}
    BY DEF NoRequest, Asks
  <1>1. ASSUME NEW c \in Clients, NEW d \in Digests, NEW listed \in SUBSET Ids,
               UploadStarts(c, d, listed)
        PROVE StoreInv'
    <2>1. \A i \in listed : rows[i].state # "absent"
      BY <1>1 DEF UploadStarts, Expired, Pending
    <2> DEFINE r == Asks(IF listed = {} THEN "check" ELSE "mark", listed, 0, d, FALSE, FALSE)
    <2>2. r \in Request /\ r.id = 0 /\ ~r.open /\ r.step \notin {"audit", "seal", "cleanup"}
      BY <2>1 DEF Asks, Request
    <2>M. \A i \in r.marked : rows[i].state # "absent" BY <2>1 DEF Asks
    <2>3. req' = [req EXCEPT ![c] = r] /\ rows' = rows
      BY <1>1 DEF UploadStarts
    <2> HIDE DEF r
    <2>4. req' \in [Clients -> Request] /\ RequestInv'
      BY <2>2, <2>3, <2>M, RequestStep
    <2> QED BY <1>T, <1>1, <2>4 DEF UploadStarts, StoreInv, StoreTypeOK, SealedNotPending
  <1>2. ASSUME NEW c \in Clients, UploadChecks(c) PROVE StoreInv'
    <2> DEFINE r == Asks("put", req[c].marked, 0, req[c].digest,
                         ~ReferencedFor(c, req[c].digest), FALSE)
    <2>1. (~ReferencedFor(c, req[c].digest)) \in BOOLEAN OBVIOUS
    <2>2. r \in Request /\ r.id = 0 /\ ~r.open /\ r.step \notin {"audit", "seal", "cleanup"}
      BY <2>1, <1>R DEF Asks, Request
    <2>M. \A i \in r.marked : rows[i].state # "absent" BY <1>M DEF Asks
    <2>3. req' = [req EXCEPT ![c] = r] /\ rows' = rows
      BY <1>2 DEF UploadChecks
    <2> HIDE DEF r
    <2>4. req' \in [Clients -> Request] /\ RequestInv'
      BY <2>2, <2>3, <2>M, RequestStep
    <2> QED BY <1>T, <1>2, <2>4 DEF UploadChecks, StoreInv, StoreTypeOK, SealedNotPending
  <1>3. ASSUME NEW c \in Clients, UploadRejects(c) \/ InsertFails(c) PROVE StoreInv'
    <2> DEFINE r == Asks("rollback", req[c].marked, 0, req[c].digest, FALSE, FALSE)
    <2>2. r \in Request /\ r.id = 0 /\ ~r.open /\ r.step \notin {"audit", "seal", "cleanup"}
      BY <1>R DEF Asks, Request
    <2>M. \A i \in r.marked : rows[i].state # "absent" BY <1>M DEF Asks
    <2>3. req' = [req EXCEPT ![c] = r] /\ rows' = rows
      BY <1>3 DEF UploadRejects, InsertFails
    <2> HIDE DEF r
    <2>4. req' \in [Clients -> Request] /\ RequestInv'
      BY <2>2, <2>3, <2>M, RequestStep
    <2> QED BY <1>T, <1>3, <2>4
      DEF UploadRejects, InsertFails, StoreInv, StoreTypeOK, SealedNotPending
  <1>4. ASSUME NEW c \in Clients, NEW step \in {"sweep", "commit", "check", "insert", "cleanup", "rollback"},
               Goto(c, step), rows' = rows, step = "cleanup" => req[c].fresh
        PROVE  req' \in [Clients -> Request] /\ RequestInv'
    <2> DEFINE r == Asks(step, req[c].marked, req[c].id, req[c].digest, req[c].fresh, req[c].open)
    <2>1. /\ r \in Request /\ r.id = req[c].id /\ r.open = req[c].open
          /\ r.step \notin {"audit", "seal"} /\ r.step = step /\ r.fresh = req[c].fresh
      BY <1>R DEF Asks, Request
    <2>M. \A i \in r.marked : rows[i].state # "absent" BY <1>M DEF Asks
    <2>2. req' = [req EXCEPT ![c] = r] BY <1>4 DEF Goto
    <2> HIDE DEF r
    <2> QED BY <1>4, <2>1, <2>2, <2>M, RequestStep
  <1>5. ASSUME NEW c \in Clients, Done(c), rows' = rows
        PROVE  req' \in [Clients -> Request] /\ RequestInv'
    <2>1. req' = [req EXCEPT ![c] = NoRequest] BY <1>5 DEF Done
    <2> QED BY <1>5, <2>1, <1>N, NoRequestType, RequestStep
  <1>6. ASSUME NEW c \in Clients, PruneMarks(c) \/ PruneSweeps(c) \/ UploadPuts(c) PROVE StoreInv'
    <2>1. req' \in [Clients -> Request] /\ RequestInv'
      BY <1>4, <1>6 DEF PruneMarks, PruneSweeps, UploadPuts
    <2> QED BY <1>T, <1>R, <1>6, <2>1
      DEF PruneMarks, PruneSweeps, UploadPuts, StoreInv, StoreTypeOK, SealedNotPending, Request
  <1>S. ASSUME NEW c \in Clients, NEW swept \in SUBSET Digests, SweepFails(c, swept) PROVE StoreInv'
    <2>1. req' \in [Clients -> Request] /\ RequestInv'
      BY <1>4, <1>S DEF SweepFails
    <2> QED BY <1>T, <1>S, <2>1 DEF SweepFails, StoreInv, StoreTypeOK, SealedNotPending
  <1>7. ASSUME NEW c \in Clients, UploadAudits(c) PROVE StoreInv'
    <2>1. req' \in [Clients -> Request] /\ RequestInv'
      BY <1>4, <1>7 DEF UploadAudits
    <2>2. req[c].id \in Ids BY <1>T, <1>7 DEF UploadAudits, StepInv
    <2> QED BY <1>T, <1>7, <2>1, <2>2 DEF UploadAudits, StoreInv, StoreTypeOK, SealedNotPending
  <1>8. ASSUME NEW c \in Clients, NEW i \in Ids, NEW touched \in BOOLEAN, UploadInserts(c, i, touched)
        PROVE StoreInv'
    <2> DEFINE open == lock = c \/ touched
               r == Asks("audit", req[c].marked, i, req[c].digest, req[c].fresh, open)
    <2>1. open \in BOOLEAN OBVIOUS
    <2>2. r \in Request /\ r.id = i /\ r.step = "audit" /\ r.open = open
      BY <1>R, <2>1 DEF Asks, Request
    <2>3. /\ req' = [req EXCEPT ![c] = r]
          /\ IF open THEN rows' = rows
             ELSE rows' = [rows EXCEPT ![i] = RowOf("validated", req[c].digest, FALSE)]
          /\ lock' \in {lock, c}
      BY <1>8 DEF UploadInserts
    <2>4. rows[i].state = "absent" /\ \A x \in Clients : req[x].id # i
      BY <1>8 DEF UploadInserts, NextId, Used
    <2> HIDE DEF r, open
    <2>5. \A x \in Clients : req'[x] = IF x = c THEN r ELSE req[x]
      BY <1>T, <2>3 DEF StoreTypeOK
    <2>6. req' \in [Clients -> Request] BY <1>T, <2>2, <2>3 DEF StoreTypeOK
    <2>7. rows' \in [Ids -> Row]
      <3>1. RowOf("validated", req[c].digest, FALSE) \in Row BY <1>R DEF RowOf, Row, Request
      <3>2. rows \in [Ids -> Row] BY <1>T DEF StoreTypeOK
      <3> QED BY <2>3, <3>1, <3>2
    <2>8. StepInv' BY <1>T, <2>2, <2>5 DEF StepInv
    <2>9. \A j \in Ids : j # i => rows'[j] = rows[j] BY <1>T, <2>3 DEF StoreTypeOK
    <2>10. ASSUME NEW x \in Clients, req'[x].open
           PROVE  /\ req'[x].id \in Ids
                  /\ rows'[req'[x].id].state = "absent"
                  /\ \A y \in Clients \ {x} : req'[y].id # req'[x].id
      <3>1. CASE x = c
        BY <2>2, <2>3, <2>4, <2>5, <2>10, <3>1
      <3>2. CASE x # c
        BY <1>T, <2>2, <2>4, <2>5, <2>9, <2>10, <3>2 DEF OwnRowInv
      <3> QED BY <3>1, <3>2
    <2>11. OwnRowInv' BY <2>10 DEF OwnRowInv
    <2>13. MarkedInv'
      BY <1>M, <2>2, <2>3, <2>4, <2>5, <2>9 DEF MarkedInv, Asks, r
    <2>12. SealedNotPending' BY <1>8, <1>T, <2>4, <2>9 DEF UploadInserts, SealedNotPending, StoreTypeOK
    <2> QED BY <1>8, <1>T, <2>3, <2>6, <2>7, <2>8, <2>11, <2>12, <2>13
      DEF UploadInserts, StoreInv, StoreTypeOK, RequestInv
  <1>9. ASSUME NEW c \in Clients, Commits(c) PROVE StoreInv'
    <2>1. req' = [req EXCEPT ![c] = NoRequest] BY <1>9 DEF Commits, Done
    <2>2. \A x \in Clients : req'[x] = IF x = c THEN NoRequest ELSE req[x]
      BY <1>T, <2>1 DEF StoreTypeOK
    <2>3. req' \in [Clients -> Request] BY <1>T, <2>1, NoRequestType DEF StoreTypeOK
    <2>4. /\ rows' = [i \in Ids |->
                IF i \in req[c].marked THEN RowOf("expired", rows[i].digest, rows[i].old)
                ELSE IF i = req[c].id /\ req[c].open THEN RowOf("validated", req[c].digest, FALSE)
                ELSE rows[i]]
          /\ lock' = Free /\ UNCHANGED <<objects, acked, sealed>>
      BY <1>9 DEF Commits
    <2>5. rows' \in [Ids -> Row] BY <1>T, <1>R, <2>4 DEF StoreTypeOK, RowOf, Row, Request
    <2>6. StepInv' BY <1>T, <1>N, <2>2 DEF StepInv
    <2>7. ASSUME NEW i \in sealed PROVE rows'[i].state \in {"consumed", "expired"}
      <3>1. i \in Ids /\ rows[i].state \in {"consumed", "expired"}
        BY <1>T, <2>7 DEF SealedNotPending, StoreTypeOK
      <3>2. ~(i = req[c].id /\ req[c].open) BY <1>T, <3>1 DEF OwnRowInv
      <3> QED BY <2>4, <3>1, <3>2 DEF RowOf
    <2>8. SealedNotPending' BY <2>4, <2>7 DEF SealedNotPending
    <2>9. ASSUME NEW x \in Clients, req'[x].open
          PROVE  /\ req'[x].id \in Ids
                 /\ rows'[req'[x].id].state = "absent"
                 /\ \A y \in Clients \ {x} : req'[y].id # req'[x].id
      <3>1. x # c /\ req[x].open /\ req'[x].id = req[x].id BY <1>N, <2>2, <2>9
      <3>2. req[x].id \in Ids /\ rows[req[x].id].state = "absent" BY <1>T, <3>1 DEF OwnRowInv
      <3>3. req[x].id \notin req[c].marked BY <1>M, <3>2
      <3>4. req[x].id # req[c].id BY <1>T, <3>1 DEF OwnRowInv
      <3>5. rows'[req[x].id] = rows[req[x].id] BY <2>4, <3>2, <3>3, <3>4
      <3>6. \A y \in Clients \ {x} : req'[y].id # req[x].id
        BY <1>T, <1>N, <1>Z, <2>2, <3>1, <3>2 DEF OwnRowInv
      <3> QED BY <3>1, <3>2, <3>5, <3>6
    <2>10. OwnRowInv' BY <2>9 DEF OwnRowInv
    <2>11. \A i \in Ids : rows[i].state # "absent" => rows'[i].state # "absent"
      BY <2>4 DEF RowOf
    <2>12. MarkedInv' BY <1>M, <1>N, <2>2, <2>11 DEF MarkedInv
    <2> QED BY <2>3, <2>4, <2>5, <2>6, <2>8, <2>10, <2>12, <1>T
      DEF StoreInv, StoreTypeOK, RequestInv
  <1>10. ASSUME NEW c \in Clients, StepFails(c) PROVE StoreInv'
    <2> DEFINE r == Asks("rollback", req[c].marked, req[c].id, req[c].digest,
                         req[c].id # 0 /\ req[c].fresh, req[c].open)
    <2>1. (req[c].id # 0 /\ req[c].fresh) \in BOOLEAN OBVIOUS
    <2>2. /\ r \in Request /\ r.id = req[c].id /\ r.open = req[c].open
          /\ r.step \notin {"audit", "seal", "cleanup"}
      BY <1>R, <2>1 DEF Asks, Request
    <2>M. \A i \in r.marked : rows[i].state # "absent" BY <1>M DEF Asks
    <2>3. req' = [req EXCEPT ![c] = r] /\ rows' = rows
      BY <1>10 DEF StepFails
    <2> HIDE DEF r
    <2>4. req' \in [Clients -> Request] /\ RequestInv'
      BY <2>2, <2>3, <2>M, RequestStep
    <2> QED BY <1>T, <1>10, <2>4 DEF StepFails, StoreInv, StoreTypeOK, SealedNotPending
  <1>11. ASSUME NEW c \in Clients, RollsBack(c) \/ CleansUp(c) PROVE StoreInv'
    <2>1. req' \in [Clients -> Request] /\ RequestInv'
      BY <1>4, <1>5, <1>11 DEF RollsBack, CleansUp
    <2> QED BY <1>T, <1>11, <2>1
      DEF RollsBack, CleansUp, Unlocked, StoreInv, StoreTypeOK, SealedNotPending
  <1>12. ASSUME NEW c \in Clients, NEW i \in Ids, SealReads(c, i) PROVE StoreInv'
    <2> DEFINE r == Asks("seal", {}, i, rows[i].digest, FALSE, FALSE)
    <2>1. r \in Request BY <1>T DEF Asks, Request, StoreTypeOK, Row
    <2>2. r.id = i /\ r.marked = {} /\ ~r.open /\ r.step = "seal" BY DEF Asks
    <2>3. req' = [req EXCEPT ![c] = r] /\ rows[i].state = "validated"
      BY <1>12 DEF SealReads, Pending
    <2>U. UNCHANGED <<rows, objects, acked, sealed, lock>> BY <1>12 DEF SealReads
    <2> HIDE DEF r
    <2>4. \A x \in Clients : req'[x] = IF x = c THEN r ELSE req[x]
      BY <1>T, <2>3 DEF StoreTypeOK
    <2>5. req' \in [Clients -> Request] BY <1>T, <2>1, <2>3 DEF StoreTypeOK
    <2>6. StepInv' BY <1>T, <2>2, <2>4 DEF StepInv
    <2>7. MarkedInv' BY <1>T, <2>2, <2>4, <2>U DEF MarkedInv
    <2>8. OwnRowInv'
      <3>1. ASSUME NEW x \in Clients, req'[x].open
            PROVE  /\ req'[x].id \in Ids
                   /\ rows'[req'[x].id].state = "absent"
                   /\ \A y \in Clients \ {x} : req'[y].id # req'[x].id
        <4>1. x # c /\ req[x].open /\ req'[x].id = req[x].id BY <2>2, <2>4, <3>1
        <4>2. req[x].id \in Ids /\ rows[req[x].id].state = "absent" BY <1>T, <4>1 DEF OwnRowInv
        <4>3. req[x].id # i BY <2>3, <4>2
        <4> QED BY <1>T, <2>2, <2>4, <2>U, <4>1, <4>2, <4>3 DEF OwnRowInv
      <3> QED BY <3>1 DEF OwnRowInv
    <2> QED BY <1>T, <2>5, <2>6, <2>7, <2>8, <2>U
      DEF StoreInv, StoreTypeOK, RequestInv, SealedNotPending
  <1>13. ASSUME NEW c \in Clients, SealWrites(c) PROVE StoreInv'
    <2>1. req' = [req EXCEPT ![c] = NoRequest] BY <1>13 DEF SealWrites, Done
    <2>2. \A x \in Clients : req'[x] = IF x = c THEN NoRequest ELSE req[x]
      BY <1>T, <2>1 DEF StoreTypeOK
    <2>3. req' \in [Clients -> Request] BY <1>T, <2>1, NoRequestType DEF StoreTypeOK
    <2>4. StepInv' BY <1>T, <1>N, <2>2 DEF StepInv
    <2>5. CASE req[c].id \in Pending
      <3>1. PICK i \in Ids : i = req[c].id /\ rows[i].state = "validated"
        BY <2>5 DEF Pending
      <3>2. rows' = [rows EXCEPT ![i] = Consumed(i)] /\ sealed' = sealed \cup {i}
        BY <1>13, <2>5, <3>1 DEF SealWrites
      <3>3. Consumed(i) \in Row /\ Consumed(i).state = "consumed"
        BY <1>T DEF Consumed, RowOf, Row, StoreTypeOK
      <3>4. rows' \in [Ids -> Row] BY <1>T, <3>2, <3>3 DEF StoreTypeOK
      <3>5. \A j \in Ids : rows'[j] = IF j = i THEN Consumed(i) ELSE rows[j]
        BY <1>T, <3>2 DEF StoreTypeOK
      <3>6. OwnRowInv'
        <4>1. ASSUME NEW x \in Clients, req'[x].open
              PROVE  /\ req'[x].id \in Ids
                     /\ rows'[req'[x].id].state = "absent"
                     /\ \A y \in Clients \ {x} : req'[y].id # req'[x].id
          <5>1. x # c /\ req[x].open /\ req'[x].id = req[x].id BY <1>N, <2>2, <4>1
          <5>2. req[x].id \in Ids /\ rows[req[x].id].state = "absent" BY <1>T, <5>1 DEF OwnRowInv
          <5>3. req[x].id # i BY <3>1, <5>2
          <5>4. rows'[req[x].id] = rows[req[x].id] BY <3>5, <5>2, <5>3
          <5>5. \A y \in Clients \ {x} : req'[y].id # req[x].id
            BY <1>T, <1>N, <1>Z, <2>2, <5>1, <5>2 DEF OwnRowInv
          <5> QED BY <5>1, <5>2, <5>4, <5>5
        <4> QED BY <4>1 DEF OwnRowInv
      <3>7. MarkedInv' BY <1>M, <1>N, <2>2, <3>3, <3>5 DEF MarkedInv
      <3>8. SealedNotPending'
        BY <1>T, <3>2, <3>3, <3>5 DEF SealedNotPending, StoreTypeOK
      <3> QED BY <1>T, <1>13, <2>3, <2>4, <3>2, <3>4, <3>6, <3>7, <3>8
        DEF SealWrites, StoreInv, StoreTypeOK, RequestInv
    <2>6. CASE req[c].id \notin Pending
      <3>1. UNCHANGED <<rows, sealed, objects, acked, lock>> BY <1>13, <2>6 DEF SealWrites
      <3>2. RequestInv' BY <1>5, <1>13, <3>1 DEF SealWrites
      <3> QED BY <1>T, <2>3, <3>1, <3>2 DEF StoreInv, StoreTypeOK, SealedNotPending
    <2> QED BY <2>5, <2>6
  <1>14. ASSUME PruneStarts PROVE StoreInv'
    <2>1. Expired \subseteq Ids /\ \A i \in Expired : rows[i].state # "absent"
      BY DEF Expired, Pending
    <2> DEFINE r == Asks("mark", Expired, 0, AnyDigest, FALSE, FALSE)
    <2>2. r \in Request /\ r.id = 0 /\ ~r.open /\ r.step \notin {"audit", "seal", "cleanup"}
      BY <2>1, AnyDigestType DEF Asks, Request
    <2>M. \A i \in r.marked : rows[i].state # "absent" BY <2>1 DEF Asks
    <2>3. req' = [req EXCEPT ![Worker] = r] /\ rows' = rows /\ Worker \in Clients
      BY <1>14 DEF PruneStarts, Clients
    <2> HIDE DEF r
    <2>4. req' \in [Clients -> Request] /\ RequestInv'
      BY <2>2, <2>3, <2>M, RequestStep
    <2> QED BY <1>T, <1>14, <2>4 DEF PruneStarts, StoreInv, StoreTypeOK, SealedNotPending
  <1>15. ASSUME NEW i \in Ids, Ages(i) PROVE StoreInv'
    <2>1. rows[i].state = "validated" BY <1>15 DEF Ages, Pending
    <2>2. RowOf("validated", rows[i].digest, TRUE) \in Row
      BY <1>T DEF RowOf, Row, StoreTypeOK
    <2>3. \A j \in Ids : rows'[j].state = rows[j].state
      BY <1>T, <1>15, <2>1 DEF Ages, StoreTypeOK, RowOf
    <2>4. rows' \in [Ids -> Row] BY <1>T, <1>15, <2>2 DEF Ages, StoreTypeOK
    <2>5. StepInv' BY <1>T, <1>15 DEF Ages, StepInv
    <2>6. OwnRowInv' BY <1>T, <1>15, <2>3 DEF Ages, OwnRowInv
    <2>7. MarkedInv' BY <1>M, <1>15, <2>3 DEF Ages, MarkedInv
    <2>8. SealedNotPending' BY <1>T, <1>15, <2>3 DEF Ages, SealedNotPending, StoreTypeOK
    <2> QED BY <1>T, <1>15, <2>4, <2>5, <2>6, <2>7, <2>8
      DEF Ages, StoreInv, StoreTypeOK, RequestInv
  <1>16. ASSUME NEW process \in SUBSET Clients, Crashes(process) PROVE StoreInv'
    <2>1. \A x \in Clients : req'[x] = IF x \in process THEN NoRequest ELSE req[x]
      BY <1>16 DEF Crashes
    <2>2. req' \in [Clients -> Request] BY <1>T, <1>16, NoRequestType DEF Crashes, StoreTypeOK
    <2>3. StepInv' BY <1>T, <1>N, <2>1 DEF StepInv
    <2>4. MarkedInv' BY <1>T, <1>N, <1>16, <2>1 DEF MarkedInv, Crashes
    <2>5. OwnRowInv' BY <1>T, <1>N, <1>Z, <1>16, <2>1 DEF OwnRowInv, Crashes
    <2> QED BY <1>T, <1>16, <2>2, <2>3, <2>4, <2>5
      DEF Crashes, StoreInv, StoreTypeOK, RequestInv, SealedNotPending
  <1>17. CASE UNCHANGED vars
    BY <1>T, <1>17 DEF vars, StoreInv, StoreTypeOK, RequestInv, StepInv, OwnRowInv, MarkedInv,
       SealedNotPending
  <1>18. Web \in SUBSET Clients /\ {Worker} \in SUBSET Clients BY DEF Clients
  <1> QED
    BY <1>1, <1>2, <1>3, <1>6, <1>S, <1>7, <1>8, <1>9, <1>10, <1>11, <1>12, <1>13, <1>14, <1>15,
       <1>16, <1>17, <1>18
       DEF Next, Uploads, Sessions

\* The invariant holds in every reachable state.
THEOREM StoreInvariant == Spec => []StoreInv
  BY InitStoreInv, StoreStep, PTL DEF Spec

\* Type correctness: rows, objects, sealed contents, lock and sessions.
THEOREM StoreTypeCorrect == Spec => []StoreTypeOK
  BY StoreInvariant, PTL DEF StoreInv

\* A content that create_skill_version_snapshot sealed is never pending again,
\* for any number of racing uploads, seals and prunes, rollbacks and crashes.
THEOREM SealedCorrect == Spec => []SealedNotPending
  BY StoreInvariant, PTL DEF StoreInv

\* The object of a consumed content disappears only to a prune that listed the
\* content earlier or to a failed upload that saw no reference to the object.
THEOREM ConsumedObjectCorrect == Spec => ConsumedKeepsObject
  <1> DEFINE Keeps ==
        \A i \in Ids :
          (rows[i].state = "consumed" /\ rows[i].digest \in objects) =>
             \/ rows[i].digest \in objects'
             \/ \E c \in Clients : LosesTo(c, i)
  <1>1. StoreInv /\ [Next]_vars => [Keeps]_vars
    <2> SUFFICES ASSUME StoreInv, Next, NEW i \in Ids,
                        rows[i].state = "consumed", rows[i].digest \in objects
                 PROVE  \/ rows[i].digest \in objects'
                        \/ \E c \in Clients : LosesTo(c, i)
      OBVIOUS
    <2>1. ASSUME NEW c \in Clients, i \notin req[c].marked,
                 PruneSweeps(c) \/ \E swept \in SUBSET Digests : SweepFails(c, swept)
          PROVE rows[i].digest \in objects'
      <3>1. ReferencedFor(c, rows[i].digest) BY <2>1 DEF ReferencedFor
      <3>2. rows[i].digest \notin Sweepable(c) BY <3>1 DEF Sweepable
      <3> QED BY <2>1, <3>2 DEF PruneSweeps, SweepFails
    <2>2. ASSUME NEW c \in Clients, InsertFails(c) \/ CleansUp(c), rows[i].digest \notin objects'
          PROVE req[c].fresh /\ req[c].digest = rows[i].digest
      BY <2>2 DEF InsertFails, CleansUp, StoreInv, RequestInv, StepInv
    <2>3. CASE objects \subseteq objects'
      BY <2>3
    <2>4. CASE \E c \in Clients :
                  \/ PruneSweeps(c) \/ \E swept \in SUBSET Digests : SweepFails(c, swept)
                  \/ InsertFails(c) \/ CleansUp(c)
      BY <2>1, <2>2, <2>4 DEF LosesTo
    <2>5. \/ objects \subseteq objects'
          \/ \E c \in Clients :
                  \/ PruneSweeps(c) \/ \E swept \in SUBSET Digests : SweepFails(c, swept)
                  \/ InsertFails(c) \/ CleansUp(c)
      BY DEF Next, Uploads, Sessions, UploadStarts, UploadChecks, UploadRejects, UploadPuts,
         UploadInserts, UploadAudits, PruneMarks, Commits, StepFails, RollsBack, SealReads,
         SealWrites, PruneStarts, Ages, Crashes
    <2> QED BY <2>3, <2>4, <2>5
  <1> QED BY <1>1, StoreInvariant, PTL DEF Spec, ConsumedKeepsObject
-------------------------------------------------------------------------------
(* The quota.  An upload counts the pending rows it can see when it checks;   *)
(* what makes the limit exceeded by one at most is that only the session that *)
(* holds the lock has a row waiting for its commit (OpenInv), and that an     *)
(* upload past its check has counted everything but that one row (BodyInv).   *)

\* An upload whose row waits for the commit of its transaction.
Waits(c) == req[c].open /\ req[c].step # "cleanup"

PastCheck(c) == req[c].step \in {"put", "insert"}

\* Who deletes objects or commits holds the lock, and the worker never uploads.
HoldsInv ==
    /\ \A c \in Clients : req[c].step \in {"sweep", "commit"} => lock = c
    /\ req[Worker].step \in {"none", "mark", "sweep", "commit", "rollback", "cleanup"}

\* One body at a time on the event loop.
OneBody == \A c, d \in Web : InBody(c) /\ InBody(d) => c = d

OpenInv ==
    \A c \in Clients : Waits(c) =>
        /\ lock = c
        /\ req[c].step \in {"audit", "commit", "rollback"}
        /\ Cardinality(Pending \ req[c].marked) <= MaxPending

BodyInv ==
    \A c \in Clients : PastCheck(c) =>
        /\ Cardinality(PendingFor(c)) <= MaxPending
        /\ \A x \in Clients : Waits(x) => Cardinality(Pending \ req[x].marked) < MaxPending

QuotaInv == HoldsInv /\ OneBody /\ OpenInv /\ BodyInv /\ PendingAtMostOneOver

\* Sets of contents are finite, and a smaller one counts no more.
LEMMA ContentsCount ==
  ASSUME NEW S \in SUBSET Ids, NEW T \in SUBSET S
  PROVE  /\ IsFiniteSet(S) /\ IsFiniteSet(T)
         /\ Cardinality(S) \in Nat /\ Cardinality(T) \in Nat
         /\ Cardinality(T) <= Cardinality(S)
  <1>1. IsFiniteSet(Ids) BY StoreAssumption, FS_Interval DEF Ids
  <1>2. IsFiniteSet(S) BY <1>1, FS_Subset
  <1>3. IsFiniteSet(T) /\ Cardinality(T) <= Cardinality(S) BY <1>2, FS_Subset
  <1> QED BY <1>2, <1>3, FS_CardinalityType

\* One content more counts at most one more.
LEMMA OneContentMore ==
  ASSUME NEW S \in SUBSET Ids, NEW i \in Ids, NEW T \in SUBSET (S \cup {i})
  PROVE  Cardinality(T) <= Cardinality(S) + 1
  <1>1. S \cup {i} \in SUBSET Ids OBVIOUS
  <1>2. IsFiniteSet(S) /\ Cardinality(S) \in Nat BY ContentsCount
  <1>A. Cardinality(S \cup {i}) = IF i \in S THEN Cardinality(S) ELSE Cardinality(S) + 1
    BY <1>2, FS_AddElement
  <1>3. Cardinality(S \cup {i}) <= Cardinality(S) + 1
    BY <1>2, <1>A
  <1>4. /\ Cardinality(T) \in Nat /\ Cardinality(S \cup {i}) \in Nat
        /\ Cardinality(T) <= Cardinality(S \cup {i})
    BY <1>1, ContentsCount
  <1> QED BY <1>2, <1>3, <1>4

\* Initially nothing is pending and nobody is past anything.
LEMMA InitQuotaInv == Init => QuotaInv
  <1> SUFFICES ASSUME Init PROVE QuotaInv
    OBVIOUS
  <1>1. \A c \in Clients : req[c].step = "none" /\ ~req[c].open
    BY DEF Init, NoRequest, Asks
  <1>2. Pending = {} BY DEF Init, Pending, RowOf
  <1>3. Worker \in Clients /\ Web \subseteq Clients BY DEF Clients
  <1>4. Cardinality({}) <= MaxPending + 1
    BY FS_EmptySet, StoreAssumption
  <1> QED BY <1>1, <1>2, <1>3, <1>4
    DEF QuotaInv, HoldsInv, OneBody, InBody, OpenInv, Waits, BodyInv, PastCheck, PendingAtMostOneOver

\* A step that adds no pending row, starts no body, opens no transaction and
\* lets nobody pass the check keeps the quota.
LEMMA QuotaKept ==
  ASSUME StoreInv, QuotaInv, OneBody',
         Pending' \subseteq Pending,
         \A x \in Clients :
           /\ req'[x].step \in {"sweep", "commit"} => lock' = x
           /\ Waits(x)' =>
                /\ Waits(x) /\ lock' = x
                /\ req'[x].step \in {"audit", "commit", "rollback"}
                /\ req'[x].marked = req[x].marked
           /\ PastCheck(x)' =>
                /\ PastCheck(x) /\ (lock' = x <=> lock = x)
                /\ req'[x].marked = req[x].marked,
         req'[Worker].step \in {"none", "mark", "sweep", "commit", "rollback", "cleanup"}
  PROVE  QuotaInv'
  <1>M. Pending \subseteq Ids /\ MaxPending \in Nat BY StoreAssumption DEF Pending
  <1>1. HoldsInv' BY DEF HoldsInv
  <1>2. ASSUME NEW x \in Clients, Waits(x)'
        PROVE  /\ lock' = x
               /\ req'[x].step \in {"audit", "commit", "rollback"}
               /\ Cardinality(Pending' \ req'[x].marked) <= MaxPending
    <2>1. Waits(x) /\ req'[x].marked = req[x].marked BY <1>2
    <2>2. Cardinality(Pending \ req[x].marked) <= MaxPending BY <2>1 DEF QuotaInv, OpenInv
    <2>3. /\ Pending' \ req'[x].marked \in SUBSET (Pending \ req[x].marked)
          /\ Pending \ req[x].marked \in SUBSET Ids
      BY <1>M, <2>1
    <2>4. /\ Cardinality(Pending' \ req'[x].marked) <= Cardinality(Pending \ req[x].marked)
          /\ Cardinality(Pending' \ req'[x].marked) \in Nat
          /\ Cardinality(Pending \ req[x].marked) \in Nat
      BY <2>3, ContentsCount
    <2> QED BY <1>2, <1>M, <2>2, <2>4
  <1>3. ASSUME NEW c \in Clients, PastCheck(c)'
        PROVE  /\ Cardinality(PendingFor(c)') <= MaxPending
               /\ \A x \in Clients : Waits(x)' => Cardinality(Pending' \ req'[x].marked) < MaxPending
    <2>1. PastCheck(c) /\ (lock' = c <=> lock = c) /\ req'[c].marked = req[c].marked BY <1>3
    <2>2. Cardinality(PendingFor(c)) <= MaxPending BY <2>1 DEF QuotaInv, BodyInv
    <2>3. PendingFor(c)' \in SUBSET PendingFor(c) /\ PendingFor(c) \in SUBSET Ids
      BY <1>M, <2>1 DEF PendingFor
    <2>4. /\ Cardinality(PendingFor(c)') <= Cardinality(PendingFor(c))
          /\ Cardinality(PendingFor(c)') \in Nat /\ Cardinality(PendingFor(c)) \in Nat
      BY <2>3, ContentsCount
    <2>5. ASSUME NEW x \in Clients, Waits(x)'
          PROVE Cardinality(Pending' \ req'[x].marked) < MaxPending
      <3>1. Waits(x) /\ req'[x].marked = req[x].marked BY <2>5
      <3>2. Cardinality(Pending \ req[x].marked) < MaxPending
        BY <2>1, <3>1 DEF QuotaInv, BodyInv
      <3>3. /\ Pending' \ req'[x].marked \in SUBSET (Pending \ req[x].marked)
            /\ Pending \ req[x].marked \in SUBSET Ids
        BY <1>M, <3>1
      <3>4. /\ Cardinality(Pending' \ req'[x].marked) <= Cardinality(Pending \ req[x].marked)
            /\ Cardinality(Pending' \ req'[x].marked) \in Nat
            /\ Cardinality(Pending \ req[x].marked) \in Nat
        BY <3>3, ContentsCount
      <3> QED BY <1>M, <3>2, <3>4
    <2> QED BY <1>M, <2>2, <2>4, <2>5
  <1>4. PendingAtMostOneOver'
    <2>1. Pending' \in SUBSET Pending /\ Pending \in SUBSET Ids BY <1>M
    <2>2. /\ Cardinality(Pending') <= Cardinality(Pending)
          /\ Cardinality(Pending') \in Nat /\ Cardinality(Pending) \in Nat
      BY <2>1, ContentsCount
    <2>3. Cardinality(Pending) <= MaxPending + 1 BY DEF QuotaInv, PendingAtMostOneOver
    <2> QED BY <1>M, <2>2, <2>3 DEF PendingAtMostOneOver
  <1>5. OpenInv' BY <1>2 DEF OpenInv
  <1>6. BodyInv' BY <1>3 DEF BodyInv
  <1> QED BY <1>1, <1>4, <1>5, <1>6 DEF QuotaInv

\* Every step keeps the quota.
LEMMA QuotaStep == StoreInv /\ QuotaInv /\ [Next]_vars => QuotaInv'
  <1> SUFFICES ASSUME StoreInv, QuotaInv, [Next]_vars PROVE QuotaInv'
    OBVIOUS
  <1>I. HoldsInv /\ OneBody /\ OpenInv /\ BodyInv /\ PendingAtMostOneOver BY DEF QuotaInv
  <1>T. req \in [Clients -> Request] /\ rows \in [Ids -> Row] /\ lock \in Clients \cup {Free}
    BY DEF StoreInv, StoreTypeOK
  <1>C. /\ Worker \in Clients /\ Web \subseteq Clients /\ Worker \notin Web
        /\ Clients = Web \cup {Worker} /\ Free \notin Clients
    BY StoreAssumption DEF Clients
  <1>M. Pending \subseteq Ids /\ MaxPending \in Nat BY StoreAssumption DEF Pending
  <1>W. \A c \in Clients : req[c].step \in {"check", "put", "insert", "audit", "seal"} => c \in Web
    BY <1>I, <1>C DEF HoldsInv
  <1>P. UNCHANGED rows => Pending' = Pending BY DEF Pending
  <1>N. NoRequest.step = "none" /\ ~NoRequest.open BY DEF NoRequest, Asks
  \* A client that changes its own request only, and stays in its body if it is
  \* in it at all.
  <1>1. ASSUME NEW c \in Clients, NEW r, req' = [req EXCEPT ![c] = r], UNCHANGED rows,
               \A x \in Clients \ {c} : lock' = x <=> lock = x,
               c \in Web /\ r.step \in {"mark", "sweep", "check", "put", "insert", "audit"}
                 => InBody(c) \/ LoopIsFree,
               r.step \in {"sweep", "commit"} => lock' = c,
               r.open /\ r.step # "cleanup" =>
                  /\ Waits(c) /\ lock' = c /\ r.marked = req[c].marked
                  /\ r.step \in {"audit", "commit", "rollback"},
               r.step \in {"put", "insert"} =>
                  /\ PastCheck(c) /\ (lock' = c <=> lock = c) /\ r.marked = req[c].marked,
               c = Worker => r.step \in {"none", "mark", "sweep", "commit", "rollback", "cleanup"}
        PROVE  QuotaInv'
    <2>1. \A x \in Clients : req'[x] = IF x = c THEN r ELSE req[x] BY <1>T, <1>1
    <2>2. Pending' \subseteq Pending BY <1>1, <1>P
    <2>3. OneBody'
      <3> SUFFICES ASSUME NEW x \in Web, NEW y \in Web, InBody(x)', InBody(y)' PROVE x = y
        BY DEF OneBody
      <3>1. CASE InBody(c) /\ c \in Web
        <4>1. InBody(x) /\ InBody(y) BY <1>C, <2>1, <3>1 DEF InBody
        <4> QED BY <1>I, <4>1 DEF OneBody
      <3>2. CASE c \in Web /\ LoopIsFree
        BY <1>C, <2>1, <3>2 DEF InBody, LoopIsFree
      <3>3. CASE c \notin Web \/ (~InBody(c) /\ ~LoopIsFree)
        <4>1. InBody(x) /\ InBody(y) BY <1>C, <1>1, <2>1, <3>3 DEF InBody
        <4> QED BY <1>I, <4>1 DEF OneBody
      <3> QED BY <3>1, <3>2, <3>3
    <2>4. ASSUME NEW x \in Clients
          PROVE  /\ req'[x].step \in {"sweep", "commit"} => lock' = x
                 /\ Waits(x)' =>
                      /\ Waits(x) /\ lock' = x
                      /\ req'[x].step \in {"audit", "commit", "rollback"}
                      /\ req'[x].marked = req[x].marked
                 /\ PastCheck(x)' =>
                      /\ PastCheck(x) /\ (lock' = x <=> lock = x)
                      /\ req'[x].marked = req[x].marked
      <3>1. CASE x = c BY <1>1, <2>1, <3>1 DEF Waits, PastCheck
      <3>2. CASE x # c
        BY <1>1, <1>I, <2>1, <3>2 DEF HoldsInv, OpenInv, Waits, PastCheck
      <3> QED BY <3>1, <3>2
    <2>5. req'[Worker].step \in {"none", "mark", "sweep", "commit", "rollback", "cleanup"}
      BY <1>1, <1>C, <1>I, <2>1 DEF HoldsInv
    <2> QED BY <2>2, <2>3, <2>4, <2>5, QuotaKept
  <1>2. ASSUME NEW c \in Clients, NEW d \in Digests, NEW listed \in SUBSET Ids,
               UploadStarts(c, d, listed)
        PROVE QuotaInv'
    <2> DEFINE r == Asks(IF listed = {} THEN "check" ELSE "mark", listed, 0, d, FALSE, FALSE)
    <2>1. req' = [req EXCEPT ![c] = r] /\ UNCHANGED <<rows, lock>> /\ LoopIsFree /\ c # Worker
      BY <1>2, <1>C DEF UploadStarts
    <2>2. r.step \in {"check", "mark"} /\ ~r.open BY DEF Asks
    <2> HIDE DEF r
    <2> QED BY <1>1, <2>1, <2>2
  <1>3. ASSUME NEW c \in Clients, UploadRejects(c) \/ InsertFails(c) PROVE QuotaInv'
    <2> DEFINE r == Asks("rollback", req[c].marked, 0, req[c].digest, FALSE, FALSE)
    <2>1. req' = [req EXCEPT ![c] = r] /\ UNCHANGED <<rows, lock>>
      BY <1>3 DEF UploadRejects, InsertFails
    <2>2. r.step = "rollback" /\ ~r.open BY DEF Asks
    <2> HIDE DEF r
    <2> QED BY <1>1, <2>1, <2>2
  <1>4. ASSUME NEW c \in Clients, StepFails(c) PROVE QuotaInv'
    <2> DEFINE r == Asks("rollback", req[c].marked, req[c].id, req[c].digest,
                         req[c].id # 0 /\ req[c].fresh, req[c].open)
    <2>1. req' = [req EXCEPT ![c] = r] /\ UNCHANGED <<rows, lock>> /\ req[c].step # "cleanup"
      BY <1>4 DEF StepFails
    <2>2. r.step = "rollback" /\ r.open = req[c].open /\ r.marked = req[c].marked BY DEF Asks
    <2> HIDE DEF r
    <2>3. r.open => Waits(c) /\ lock' = c BY <1>I, <2>1, <2>2 DEF Waits, OpenInv
    <2> QED BY <1>1, <2>1, <2>2, <2>3
  <1>5. ASSUME NEW c \in Clients, Done(c), UNCHANGED rows,
               \A x \in Clients \ {c} : lock' = x <=> lock = x
        PROVE QuotaInv'
    <2>1. req' = [req EXCEPT ![c] = NoRequest] BY <1>5 DEF Done
    <2> QED BY <1>1, <1>5, <1>N, <2>1
  <1>6. ASSUME NEW c \in Clients, NEW step \in {"sweep", "commit", "check", "insert", "cleanup", "rollback"},
               Goto(c, step), UNCHANGED rows,
               \A x \in Clients \ {c} : lock' = x <=> lock = x,
               c \in Web /\ step \in {"sweep", "check", "insert"} => InBody(c),
               step \in {"sweep", "commit"} => lock' = c,
               req[c].open /\ step # "cleanup" =>
                 Waits(c) /\ lock' = c /\ step \in {"commit", "rollback"},
               step = "insert" => PastCheck(c) /\ (lock' = c <=> lock = c),
               c = Worker => step \notin {"check", "insert"}
        PROVE QuotaInv'
    <2> DEFINE r == Asks(step, req[c].marked, req[c].id, req[c].digest, req[c].fresh, req[c].open)
    <2>1. req' = [req EXCEPT ![c] = r] BY <1>6 DEF Goto
    <2>2. r.step = step /\ r.open = req[c].open /\ r.marked = req[c].marked BY DEF Asks
    <2> HIDE DEF r
    <2> QED BY <1>1, <1>6, <2>1, <2>2
  <1>7. ASSUME NEW c \in Clients, PruneMarks(c) PROVE QuotaInv'
    <2>1. Goto(c, "sweep") /\ UNCHANGED rows /\ lock' = c /\ lock \in {Free, c} /\ req[c].step = "mark"
      BY <1>7 DEF PruneMarks, CanWrite
    <2>2. ~req[c].open BY <1>I, <2>1 DEF OpenInv, Waits
    <2>3. InBody(c) BY <2>1 DEF InBody
    <2>4. \A x \in Clients \ {c} : lock' = x <=> lock = x
      BY <1>C, <2>1
    <2> QED BY <1>6, <2>1, <2>2, <2>3, <2>4
  <1>8. ASSUME NEW c \in Clients, PruneSweeps(c) \/ \E swept \in SUBSET Digests : SweepFails(c, swept)
        PROVE QuotaInv'
    <2>1. /\ req[c].step = "sweep" /\ UNCHANGED <<rows, lock>>
          /\ \/ Goto(c, IF c = Worker THEN "commit" ELSE "check")
             \/ Goto(c, IF c = Worker THEN "commit" ELSE "rollback")
      BY <1>8 DEF PruneSweeps, SweepFails
    <2>2. ~req[c].open /\ lock = c /\ InBody(c)
      BY <1>I, <2>1 DEF OpenInv, Waits, HoldsInv, InBody
    <2> QED BY <1>6, <2>1, <2>2
  <1>9. ASSUME NEW c \in Clients, UploadPuts(c) PROVE QuotaInv'
    <2>1. req[c].step = "put" /\ Goto(c, "insert") /\ UNCHANGED <<rows, lock>> BY <1>9 DEF UploadPuts
    <2>2. ~req[c].open /\ InBody(c) /\ PastCheck(c) /\ c # Worker
      BY <1>I, <1>C, <1>W, <2>1 DEF OpenInv, Waits, InBody, PastCheck
    <2> QED BY <1>6, <2>1, <2>2
  <1>10. ASSUME NEW c \in Clients, UploadAudits(c) PROVE QuotaInv'
    <2>1. /\ req[c].step = "audit" /\ Goto(c, "commit") /\ UNCHANGED rows
          /\ lock' = c /\ lock \in {Free, c}
      BY <1>10 DEF UploadAudits, CanWrite
    <2>2. \A x \in Clients \ {c} : lock' = x <=> lock = x BY <1>C, <2>1
    <2>3. req[c].open => Waits(c) BY <2>1 DEF Waits
    <2> QED BY <1>6, <2>1, <2>2, <2>3
  <1>11. ASSUME NEW c \in Clients, RollsBack(c) PROVE QuotaInv'
    <2>1. UNCHANGED rows /\ (Done(c) \/ Goto(c, "cleanup")) /\ lock' = IF lock = c THEN Free ELSE lock
      BY <1>11 DEF RollsBack, Unlocked
    <2>2. \A x \in Clients \ {c} : lock' = x <=> lock = x BY <1>C, <2>1
    <2> QED BY <1>5, <1>6, <2>1, <2>2
  <1>12. ASSUME NEW c \in Clients, CleansUp(c) PROVE QuotaInv'
    BY <1>5, <1>12 DEF CleansUp
  <1>13. ASSUME NEW c \in Clients, NEW i \in Ids, SealReads(c, i) PROVE QuotaInv'
    <2> DEFINE r == Asks("seal", {}, i, rows[i].digest, FALSE, FALSE)
    <2>1. req' = [req EXCEPT ![c] = r] /\ UNCHANGED <<rows, lock>> /\ c # Worker
      BY <1>13, <1>C DEF SealReads
    <2>2. r.step = "seal" /\ ~r.open BY DEF Asks
    <2> HIDE DEF r
    <2> QED BY <1>1, <2>1, <2>2
  <1>14. ASSUME PruneStarts PROVE QuotaInv'
    <2> DEFINE r == Asks("mark", Expired, 0, AnyDigest, FALSE, FALSE)
    <2>1. req' = [req EXCEPT ![Worker] = r] /\ UNCHANGED <<rows, lock>>
      BY <1>14 DEF PruneStarts
    <2>2. r.step = "mark" /\ ~r.open BY DEF Asks
    <2> HIDE DEF r
    <2> QED BY <1>1, <1>C, <2>1, <2>2
  \* The steps that change rows or several requests.
  <1>15. ASSUME NEW c \in Clients, SealWrites(c) PROVE QuotaInv'
    <2>1. req' = [req EXCEPT ![c] = NoRequest] /\ UNCHANGED lock BY <1>15 DEF SealWrites, Done
    <2>2. \A x \in Clients : req'[x] = IF x = c THEN NoRequest ELSE req[x] BY <1>T, <2>1
    <2>3. Pending' \subseteq Pending
      BY <1>15, <1>T DEF SealWrites, Pending, Consumed, RowOf
    <2>4. OneBody' BY <1>N, <1>I, <1>C, <2>2 DEF OneBody, InBody
    <2>5. ASSUME NEW x \in Clients
          PROVE  /\ req'[x].step \in {"sweep", "commit"} => lock' = x
                 /\ Waits(x)' =>
                      /\ Waits(x) /\ lock' = x
                      /\ req'[x].step \in {"audit", "commit", "rollback"}
                      /\ req'[x].marked = req[x].marked
                 /\ PastCheck(x)' =>
                      /\ PastCheck(x) /\ (lock' = x <=> lock = x)
                      /\ req'[x].marked = req[x].marked
      <3>1. req'[x] = NoRequest \/ req'[x] = req[x] BY <2>2
      <3> QED BY <2>1, <3>1, <1>N, <1>I DEF HoldsInv, OpenInv, Waits, PastCheck
    <2>6. req'[Worker].step \in {"none", "mark", "sweep", "commit", "rollback", "cleanup"}
      BY <1>N, <1>I, <1>C, <2>2 DEF HoldsInv
    <2> QED BY <2>3, <2>4, <2>5, <2>6, QuotaKept
  <1>16. ASSUME NEW i \in Ids, Ages(i) PROVE QuotaInv'
    <2>1. Pending' \subseteq Pending /\ UNCHANGED <<req, lock>>
      BY <1>16, <1>T DEF Ages, Pending, RowOf
    <2> QED BY <2>1, <1>I, QuotaKept DEF OneBody, InBody, HoldsInv, OpenInv, Waits, PastCheck
  <1>17. ASSUME NEW process \in SUBSET Clients, Crashes(process) PROVE QuotaInv'
    <2>1. \A x \in Clients : req'[x] = IF x \in process THEN NoRequest ELSE req[x]
      BY <1>17 DEF Crashes
    <2>2. \A x \in Clients : x \notin process => (lock' = x <=> lock = x)
      BY <1>17, <1>C DEF Crashes
    <2>3. Pending' \subseteq Pending BY <1>17, <1>P DEF Crashes
    <2> QED BY <2>1, <2>2, <2>3, <1>N, <1>I, <1>C, QuotaKept
      DEF OneBody, InBody, HoldsInv, OpenInv, Waits, PastCheck
  <1>18. CASE UNCHANGED vars
    <2>1. Pending' \subseteq Pending /\ UNCHANGED <<req, lock>>
      BY <1>18, <1>P DEF vars
    <2> QED BY <2>1, <1>I, QuotaKept DEF OneBody, InBody, HoldsInv, OpenInv, Waits, PastCheck
  \* The check counts all but the row of whoever holds the lock.
  <1>19. ASSUME NEW c \in Clients, UploadChecks(c) PROVE QuotaInv'
    <2> DEFINE r == Asks("put", req[c].marked, 0, req[c].digest,
                         ~ReferencedFor(c, req[c].digest), FALSE)
    <2>1. /\ req' = [req EXCEPT ![c] = r] /\ UNCHANGED <<rows, lock>> /\ req[c].step = "check"
          /\ Cardinality(PendingFor(c)) < MaxPending
      BY <1>19 DEF UploadChecks, UnderQuota
    <2>2. r.step = "put" /\ ~r.open /\ r.marked = req[c].marked BY DEF Asks
    <2> HIDE DEF r
    <2>3. \A x \in Clients : req'[x] = IF x = c THEN r ELSE req[x] BY <1>T, <2>1
    <2>4. c \in Web /\ InBody(c) BY <1>W, <2>1 DEF InBody
    <2>5. HoldsInv' BY <1>I, <1>C, <2>1, <2>2, <2>3, <2>4 DEF HoldsInv
    <2>6. OneBody' BY <1>I, <1>C, <2>3, <2>4 DEF OneBody, InBody
    <2>7. \A x \in Clients : Waits(x)' =>
             Waits(x) /\ x # c /\ req'[x] = req[x] BY <2>2, <2>3 DEF Waits
    <2>8. OpenInv' BY <1>I, <1>P, <2>1, <2>7 DEF OpenInv
    <2>9. PendingFor(c)' = PendingFor(c) BY <1>P, <2>1, <2>2, <2>3 DEF PendingFor
    <2>10. Cardinality(PendingFor(c)) <= MaxPending
      <3>1. PendingFor(c) \in SUBSET Ids BY <1>M DEF PendingFor
      <3>2. Cardinality(PendingFor(c)) \in Nat BY <3>1, ContentsCount
      <3> QED BY <1>M, <2>1, <3>2
    <2>11. ASSUME NEW x \in Clients, Waits(x)'
           PROVE Cardinality(Pending' \ req'[x].marked) < MaxPending
      <3>1. Waits(x) /\ x # c /\ lock = x /\ req'[x] = req[x]
        BY <1>I, <2>7, <2>11 DEF OpenInv
      <3>2. PendingFor(c) = Pending BY <3>1 DEF PendingFor
      <3>3. Pending \ req[x].marked \in SUBSET Pending /\ Pending \in SUBSET Ids BY <1>M
      <3>4. /\ Cardinality(Pending \ req[x].marked) <= Cardinality(Pending)
            /\ Cardinality(Pending \ req[x].marked) \in Nat /\ Cardinality(Pending) \in Nat
        BY <3>3, ContentsCount
      <3>5. Pending' \ req'[x].marked = Pending \ req[x].marked BY <1>P, <2>1, <3>1
      <3> QED BY <1>M, <2>1, <3>2, <3>4, <3>5
    <2>12. \A y \in Clients : PastCheck(y)' => y = c
      <3> SUFFICES ASSUME NEW y \in Clients, PastCheck(y)', y # c PROVE FALSE
        OBVIOUS
      <3>1. y \in Web /\ InBody(y) BY <1>W, <2>3 DEF PastCheck, InBody
      <3> QED BY <1>I, <2>4, <3>1 DEF OneBody
    <2>13. BodyInv' BY <2>9, <2>10, <2>11, <2>12 DEF BodyInv
    <2>14. PendingAtMostOneOver' BY <1>I, <1>P, <2>1 DEF PendingAtMostOneOver
    <2> QED BY <2>5, <2>6, <2>8, <2>13, <2>14 DEF QuotaInv
  \* The insert: nobody else waits, since the lock is free or the upload's own.
  <1>20. ASSUME NEW c \in Clients, NEW i \in Ids, NEW touched \in BOOLEAN, UploadInserts(c, i, touched)
         PROVE QuotaInv'
    <2> DEFINE open == lock = c \/ touched
               r == Asks("audit", req[c].marked, i, req[c].digest, req[c].fresh, open)
    <2>1. /\ req' = [req EXCEPT ![c] = r] /\ req[c].step = "insert" /\ lock \in {Free, c}
          /\ open => lock' = c /\ UNCHANGED rows
          /\ ~open => /\ rows' = [rows EXCEPT ![i] = RowOf("validated", req[c].digest, FALSE)]
                      /\ UNCHANGED lock
      BY <1>20 DEF UploadInserts, CanWrite
    <2>2. r.step = "audit" /\ r.open = open /\ r.marked = req[c].marked BY DEF Asks
    <2>O. open \in BOOLEAN /\ (lock = c => open) OBVIOUS
    <2> HIDE DEF r, open
    <2>3. \A x \in Clients : req'[x] = IF x = c THEN r ELSE req[x] BY <1>T, <2>1
    <2>4. c \in Web /\ InBody(c) /\ PastCheck(c) BY <1>W, <2>1 DEF InBody, PastCheck
    <2>5. \A x \in Clients : x # c => lock # x /\ lock' # x BY <1>C, <2>1, <2>O
    <2>6. HoldsInv' BY <1>I, <1>C, <2>2, <2>3, <2>4, <2>5 DEF HoldsInv
    <2>7. OneBody' BY <1>I, <1>C, <2>3, <2>4 DEF OneBody, InBody
    <2>8. \A y \in Clients : ~PastCheck(y)'
      <3> SUFFICES ASSUME NEW y \in Clients, PastCheck(y)' PROVE FALSE
        OBVIOUS
      <3>1. y # c BY <2>2, <2>3 DEF PastCheck
      <3>2. y \in Web /\ InBody(y) BY <1>W, <2>3, <3>1 DEF PastCheck, InBody
      <3> QED BY <1>I, <2>4, <3>1, <3>2 DEF OneBody
    <2>9. BodyInv' BY <2>8 DEF BodyInv
    <2>10. \A x \in Clients : Waits(x)' => x = c /\ open
      BY <1>I, <2>2, <2>3, <2>5 DEF Waits, OpenInv
    <2>11. /\ PendingFor(c) \in SUBSET Ids /\ Cardinality(PendingFor(c)) <= MaxPending
           /\ Cardinality(PendingFor(c)) \in Nat
      <3>1. PendingFor(c) \in SUBSET Ids BY <1>M DEF PendingFor
      <3> QED BY <1>I, <2>4, <3>1, ContentsCount DEF BodyInv
    <2>12. CASE open
      <3>1. Pending \ req[c].marked \in SUBSET PendingFor(c) BY DEF PendingFor
      <3>2. /\ Cardinality(Pending \ req[c].marked) <= Cardinality(PendingFor(c))
            /\ Cardinality(Pending \ req[c].marked) \in Nat
        BY <2>11, <3>1, ContentsCount
      <3>3. Cardinality(Pending \ req[c].marked) <= MaxPending BY <1>M, <2>11, <3>2
      <3>4. Pending' = Pending /\ lock' = c BY <1>P, <2>1, <2>12
      <3>5. OpenInv' BY <2>2, <2>3, <2>10, <3>3, <3>4 DEF OpenInv
      <3>6. PendingAtMostOneOver' BY <1>I, <3>4 DEF PendingAtMostOneOver
      <3> QED BY <2>6, <2>7, <2>9, <3>5, <3>6 DEF QuotaInv
    <2>13. CASE ~open
      <3>1. PendingFor(c) = Pending BY <2>O, <2>13 DEF PendingFor
      <3>2. Pending' \in SUBSET (Pending \cup {i}) BY <1>T, <2>1, <2>13 DEF Pending
      <3>3. Cardinality(Pending') <= Cardinality(Pending) + 1 BY <1>M, <3>2, OneContentMore
      <3>4. Cardinality(Pending') \in Nat
        <4>1. Pending' \in SUBSET Ids /\ {} \in SUBSET (Pending') BY <1>M, <3>2
        <4> QED BY <4>1, ContentsCount
      <3>5. PendingAtMostOneOver' BY <1>M, <2>11, <3>1, <3>3, <3>4 DEF PendingAtMostOneOver
      <3>6. OpenInv' BY <2>10, <2>13 DEF OpenInv
      <3> QED BY <2>6, <2>7, <2>9, <3>5, <3>6 DEF QuotaInv
    <2> QED BY <2>O, <2>12, <2>13
  \* The commit: of a row that waited, or of a prune alone.
  <1>21. ASSUME NEW c \in Clients, Commits(c) PROVE QuotaInv'
    <2>1. req' = [req EXCEPT ![c] = NoRequest] /\ lock' = Free /\ req[c].step = "commit"
      BY <1>21 DEF Commits, Done
    <2>2. \A x \in Clients : req'[x] = IF x = c THEN NoRequest ELSE req[x] BY <1>T, <2>1
    <2>3. lock = c BY <1>I, <2>1 DEF HoldsInv
    <2>4. rows' = [j \in Ids |->
            IF j \in req[c].marked THEN RowOf("expired", rows[j].digest, rows[j].old)
            ELSE IF j = req[c].id /\ req[c].open THEN RowOf("validated", req[c].digest, FALSE)
            ELSE rows[j]]
      BY <1>21 DEF Commits
    <2>5. HoldsInv' BY <1>I, <1>N, <1>C, <2>2, <2>3 DEF HoldsInv
    <2>6. OneBody' BY <1>I, <1>N, <1>C, <2>2 DEF OneBody, InBody
    <2>7. \A x \in Clients : ~Waits(x)'
      <3> SUFFICES ASSUME NEW x \in Clients, Waits(x)' PROVE FALSE
        OBVIOUS
      <3>1. x # c /\ Waits(x) BY <1>N, <2>2 DEF Waits
      <3> QED BY <1>I, <2>3, <3>1 DEF OpenInv
    <2>8. OpenInv' BY <2>7 DEF OpenInv
    <2>9. \A y \in Clients : PastCheck(y)' => PastCheck(y) /\ y # c
      BY <1>N, <2>2 DEF PastCheck
    <2>10. \A y \in Clients : PendingFor(y)' = Pending' BY <1>C, <2>1 DEF PendingFor
    <2> DEFINE Seen == Pending \ req[c].marked
    <2>S. Seen \in SUBSET Ids BY <1>M
    <2>P. Pending' \subseteq Ids BY DEF Pending
    <2>F. Cardinality(Seen) \in Nat /\ Cardinality(Pending') \in Nat
      <3>1. {} \in SUBSET Seen /\ {} \in SUBSET (Pending') /\ Pending' \in SUBSET Ids BY <2>P
      <3> QED BY <2>S, <3>1, ContentsCount
    <2>11. CASE req[c].open
      <3>1. Waits(c) BY <2>1, <2>11 DEF Waits
      <3>2. Cardinality(Seen) <= MaxPending BY <1>I, <3>1 DEF OpenInv
      <3>3. req[c].id \in Ids BY <2>11 DEF StoreInv, RequestInv, OwnRowInv
      <3>4. Pending' \in SUBSET (Seen \cup {req[c].id})
        BY <2>4 DEF Pending, RowOf
      <3>5. Cardinality(Pending') <= Cardinality(Seen) + 1
        BY <2>S, <3>3, <3>4, OneContentMore
      <3>6. PendingAtMostOneOver' BY <1>M, <2>F, <3>2, <3>5 DEF PendingAtMostOneOver
      <3>7. ASSUME NEW y \in Clients, PastCheck(y)' PROVE Cardinality(PendingFor(y)') <= MaxPending
        <4>1. Cardinality(Seen) < MaxPending BY <1>I, <2>9, <3>1, <3>7 DEF BodyInv
        <4>2. Cardinality(Pending') <= MaxPending BY <1>M, <2>F, <3>5, <4>1
        <4> QED BY <2>10, <4>2
      <3>8. BodyInv' BY <2>7, <3>7 DEF BodyInv
      <3> QED BY <2>5, <2>6, <2>8, <3>6, <3>8 DEF QuotaInv
    <2>12. CASE ~req[c].open
      <3>1. Pending' \subseteq Pending BY <2>4, <2>12 DEF Pending, RowOf
      <3>2. ASSUME NEW y \in Clients, PastCheck(y)' PROVE Cardinality(PendingFor(y)') <= MaxPending
        <4>1. PendingFor(y) = Pending BY <2>3, <2>9, <3>2 DEF PendingFor
        <4>2. Cardinality(Pending) <= MaxPending BY <1>I, <2>9, <3>2, <4>1 DEF BodyInv
        <4>3. Pending' \in SUBSET Pending /\ Pending \in SUBSET Ids BY <1>M, <3>1
        <4>4. Cardinality(Pending') <= Cardinality(Pending) /\ Cardinality(Pending) \in Nat
          BY <4>3, ContentsCount
        <4> QED BY <1>M, <2>F, <2>10, <4>2, <4>4
      <3>3. BodyInv' BY <2>7, <3>2 DEF BodyInv
      <3>4. PendingAtMostOneOver'
        <4>1. Pending' \in SUBSET Pending /\ Pending \in SUBSET Ids BY <1>M, <3>1
        <4>2. Cardinality(Pending') <= Cardinality(Pending) /\ Cardinality(Pending) \in Nat
          BY <4>1, ContentsCount
        <4> QED BY <1>M, <1>I, <2>F, <4>2 DEF PendingAtMostOneOver
      <3> QED BY <2>5, <2>6, <2>8, <3>3, <3>4 DEF QuotaInv
    <2> QED BY <2>11, <2>12
  <1>22. Web \in SUBSET Clients /\ {Worker} \in SUBSET Clients BY <1>C
  <1> QED
    BY <1>2, <1>3, <1>4, <1>7, <1>8, <1>9, <1>10, <1>11, <1>12, <1>13, <1>14, <1>15, <1>16, <1>17,
       <1>18, <1>19, <1>20, <1>21, <1>22
       DEF Next, Uploads, Sessions

\* Uploads check the quota on what they can see (_assert_pending_content_quota),
\* and the pending contents exceed it by one at most, whatever runs at once.
THEOREM PendingCorrect == Spec => []PendingAtMostOneOver
  <1>1. QuotaInv => PendingAtMostOneOver BY DEF QuotaInv
  <1> QED BY InitQuotaInv, QuotaStep, StoreInvariant, <1>1, PTL DEF Spec
===============================================================================
