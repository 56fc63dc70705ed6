--------------------------- MODULE HostedPublishProofs ---------------------------
(***************************************************************************)
(* Proofs about HostedPublish for any number of commands, directories,     *)
(* bundles and troubles.  What a command remembers and a receipt records   *)
(* stays true because the server only grows: its version, once there, is   *)
(* the same for ever, an activated intent stays so, a release that had an  *)
(* exposure has one, open or closed, and an upload keeps its bundle.  That *)
(* the release was ready and exposed is remembered by the history variable *)
(* shown alone: neither lasts.                                             *)
(***************************************************************************)
EXTENDS HostedPublish, FiniteSetTheorems, SequenceTheorems, TLAPS

\* What a receipt says is so on server s.
Holds(r, s) ==
    /\ r.content # 0 =>
         /\ r.content \in DOMAIN s.contents
         /\ s.contents[r.content].bundle = r.bundle
    /\ "version" \in r.named => s.version = r.bundle
    /\ "exposure" \in r.named => s.exposure # "none"

\* Steps that rely on the server's version being the command's bundle.
Late == {"release", "wait", "status", "exposures", "expose"}

\* A command is about to record a publication.
Concludes(c) == c.step = "idle" /\ c.dirty

\* What the steps of command c rely on is so on server s.
CommandHolds(c, s) ==
    /\ Holds(c.mem, s)
    /\ c.step \in Late \/ Concludes(c) \/ c.report = "published" => s.version = c.mem.bundle
    /\ kind = "agent" =>
         /\ c.step \notin {"exposures", "expose"}
         /\ Concludes(c) \/ c.report = "published" => s.intent = "activated"

CommandsInv == \A p \in DOMAIN dir : CommandHolds(client[p], server)

\* No other command works on p's directory.
Alone(p) == \A q \in DOMAIN dir : dir[q] = dir[p] => q = p

\* The receipt of d keeps the id of an upload.
KeepsId(r) == r # None /\ r.content # 0

Uploads(s, d) == {i \in DOMAIN s.contents : s.contents[i].by = d}

LateUploads(rs, d) == {r \in rs : r.op = "upload" /\ r.by = d}

\* Command c knows of an upload what its receipt r says, but for the moment
\* between the answer and the receipt.
KnowsUpload(c, r) ==
    /\ c.step = "idle" /\ ~c.dirty => c.mem.content = 0
    /\ c.step = "upload" => c.mem.content = 0
    /\ IF c.step = "create_version" /\ c.dirty THEN c.mem.content # 0
       ELSE c.step # "idle" \/ c.dirty => (c.mem.content # 0 <=> KeepsId(r))

\* Uploads made and yet to come are those lost and the one known, if any.
UploadsCounted(p) ==
    LET d == dir[p] IN
    Cardinality(Uploads(server, d)) + Cardinality(LateUploads(late, d))
        <= lost[d] + IF KeepsId(receipt[d]) \/ client[p].mem.content # 0 THEN 1 ELSE 0

UploadsInv ==
    \A p \in DOMAIN dir :
        Alone(p) => KnowsUpload(client[p], receipt[dir[p]]) /\ UploadsCounted(p)

\* PublishTypeOK without the history variable.
StateTypes ==
    /\ kind \in {"user", "agent"} /\ dir \in Working /\ source \in [Dirs -> Bundles]
    /\ receipt \in [Dirs -> Receipt \cup {None}]
    /\ client \in [DOMAIN dir -> Client]
    /\ late \subseteq Request
    /\ server \in Server
    /\ lost \in [Dirs -> Nat] /\ trouble \in 0 .. LastTrouble

PublishInv == StateTypes /\ IsFiniteSet(late) /\ CommandsInv /\ ReceiptIsTrue /\ UploadsInv

(* The server *)

\* What every request, job and clock leaves of server s in t.
Grows(s, t) ==
    /\ t \in Server
    /\ s.version # None => t.version = s.version
    /\ s.exposure # "none" => t.exposure # "none"
    /\ s.intent = "activated" => t.intent = "activated"
    /\ \A i \in DOMAIN s.contents : i \in DOMAIN t.contents /\ t.contents[i].bundle = s.contents[i].bundle

\* The uploads of a server are a sequence of at most MaxContents.
LEMMA ContentsAreSeq ==
  ASSUME NEW q
  PROVE  q \in UNION {[1 .. n -> Content] : n \in 0 .. MaxContents}
           <=> q \in Seq(Content) /\ Len(q) <= MaxContents
  <1>1. ASSUME NEW n \in 0 .. MaxContents, q \in [1 .. n -> Content]
        PROVE  q \in Seq(Content) /\ Len(q) <= MaxContents
    <2>1. n \in Nat /\ n <= MaxContents BY PublishAssumption
    <2> QED BY <1>1, <2>1
  <1>2. ASSUME q \in Seq(Content), Len(q) <= MaxContents
        PROVE  q \in UNION {[1 .. n -> Content] : n \in 0 .. MaxContents}
    <2>1. Len(q) \in 0 .. MaxContents /\ q \in [1 .. Len(q) -> Content] BY <1>2, PublishAssumption
    <2> QED BY <2>1
  <1> QED BY <1>1, <1>2

\* The fields of a server.
LEMMA ServerFields ==
  ASSUME NEW s \in Server
  PROVE  /\ s.contents \in Seq(Content) /\ Len(s.contents) \in Nat /\ Len(s.contents) <= MaxContents
         /\ DOMAIN s.contents = 1 .. Len(s.contents)
         /\ s.version \in Bundles \cup {None}
         /\ \A i \in DOMAIN s.contents : s.contents[i] \in Content
  <1>1. s.contents \in UNION {[1 .. n -> Content] : n \in 0 .. MaxContents} /\ s.version \in Bundles \cup {None}
    BY DEF Server
  <1>2. s.contents \in Seq(Content) /\ Len(s.contents) <= MaxContents BY <1>1, ContentsAreSeq
  <1> QED BY <1>1, <1>2

\* One upload more.
LEMMA UploadGrows ==
  ASSUME NEW s \in Server, NEW c \in Content, Len(s.contents) < MaxContents,
         NEW t, t = [s EXCEPT !.contents = Append(@, c)]
  PROVE  /\ Grows(s, t)
         /\ Len(s.contents) + 1 \in DOMAIN t.contents /\ t.contents[Len(s.contents) + 1] = c
         /\ \A d : Uploads(t, d) = Uploads(s, d) \cup {i \in {Len(s.contents) + 1} : c.by = d}
  <1> DEFINE q == Append(s.contents, c)
             n == Len(s.contents)
  <1>0. t = [s EXCEPT !.contents = q] OBVIOUS
  <1>1. s.contents \in Seq(Content) /\ n \in Nat /\ DOMAIN s.contents = 1 .. n BY ServerFields
  <1>2. /\ q \in Seq(Content) /\ Len(q) = n + 1 /\ q[n + 1] = c
        /\ \A i \in 1 .. n : q[i] = s.contents[i]
    BY <1>1, AppendProperties
  <1> HIDE DEF q
  <1>3. n < MaxContents OBVIOUS
  <1>4. q \in UNION {[1 .. k -> Content] : k \in 0 .. MaxContents}
    <2>1. Len(q) <= MaxContents
      <3> HIDE DEF n
      <3> QED BY <1>1, <1>2, <1>3, PublishAssumption
    <2> QED BY <1>2, <2>1, ContentsAreSeq
  <1>5. t \in Server BY <1>0, <1>4 DEF Server
  <1>6. t.contents = q /\ t.version = s.version /\ t.exposure = s.exposure /\ t.intent = s.intent
    BY <1>0 DEF Server
  <1>7. DOMAIN q = 1 .. n + 1 BY <1>1, <1>2
  <1> HIDE DEF n
  <1>8. Grows(s, t) BY <1>1, <1>2, <1>5, <1>6, <1>7 DEF Grows
  <1>9. ASSUME NEW d PROVE Uploads(t, d) = Uploads(s, d) \cup {i \in {n + 1} : c.by = d}
    BY <1>1, <1>2, <1>6, <1>7 DEF Uploads
  <1>10. n + 1 \in DOMAIN t.contents /\ t.contents[n + 1] = c BY <1>1, <1>2, <1>6, <1>7
  <1> QED BY <1>8, <1>9, <1>10 DEF n

\* An upload changes its state.
LEMMA ContentChanges ==
  ASSUME NEW s \in Server, NEW i \in DOMAIN s.contents, NEW state \in {"validated", "consumed", "expired"}
  PROVE  LET t == [s EXCEPT !.contents[i].state = state]
         IN  t \in Server /\ Grows(s, t) /\ t.version = s.version /\ \A d : Uploads(t, d) = Uploads(s, d)
  <1> DEFINE c == [s.contents[i] EXCEPT !.state = state]
             q == [s.contents EXCEPT ![i] = c]
             t == [s EXCEPT !.contents = q]
             n == Len(s.contents)
  <1>1. s.contents \in Seq(Content) /\ n \in Nat /\ n <= MaxContents /\ DOMAIN s.contents = 1 .. n
        /\ s.contents[i] \in Content
    BY ServerFields
  <1>2. c \in Content /\ c.bundle = s.contents[i].bundle /\ c.by = s.contents[i].by BY <1>1 DEF Content
  <1> HIDE DEF c
  <1>3. /\ q \in Seq(Content) /\ Len(q) = n
        /\ \A j \in 1 .. n : q[j] = IF j = i THEN c ELSE s.contents[j]
    <2>1. s.contents \in [1 .. n -> Content] BY <1>1
    <2>2. q \in [1 .. n -> Content] /\ \A j \in 1 .. n : q[j] = IF j = i THEN c ELSE s.contents[j]
      BY <1>1, <1>2, <2>1
    <2> HIDE DEF q, n
    <2> QED BY <1>1, <2>2
  <1> HIDE DEF q
  <1>4. q \in UNION {[1 .. k -> Content] : k \in 0 .. MaxContents}
    <2> HIDE DEF n
    <2> QED BY <1>1, <1>3, ContentsAreSeq
  <1>5. t \in Server BY <1>4 DEF Server
  <1>6. t.contents = q /\ t.version = s.version /\ t.exposure = s.exposure /\ t.intent = s.intent
    BY DEF Server
  <1>7. [s EXCEPT !.contents[i].state = state] = t BY DEF t, q, c
  <1> HIDE DEF t, n
  <1>8. DOMAIN q = 1 .. n BY <1>1, <1>3
  <1>9. Grows(s, t) BY <1>1, <1>2, <1>3, <1>5, <1>6, <1>8 DEF Grows
  <1>10. ASSUME NEW d PROVE Uploads(t, d) = Uploads(s, d)
    BY <1>1, <1>2, <1>3, <1>6, <1>8 DEF Uploads
  <1> QED BY <1>5, <1>6, <1>7, <1>9, <1>10

\* A step that touches neither the version nor the uploads.
LEMMA OtherGrows ==
  ASSUME NEW s \in Server, NEW t \in Server, t.version = s.version, t.contents = s.contents,
         s.exposure # "none" => t.exposure # "none", s.intent = "activated" => t.intent = "activated"
  PROVE  Grows(s, t) /\ \A d : Uploads(t, d) = Uploads(s, d)
  BY DEF Grows, Uploads

\* A release request touches neither the version nor the uploads.
LEMMA ReleaseGrows ==
  ASSUME NEW s \in Server, kind \in {"user", "agent"}, NEW t \in Released(s)
  PROVE  Grows(s, t) /\ \A d : Uploads(t, d) = Uploads(s, d)
  <1> DEFINE rel == Answered(s)
             known == [s EXCEPT !.release = rel]
  <1>1. /\ rel \in {"none", "preparing", "ready", "failed"} /\ s.jobs \in 0 .. MaxJobs
    BY DEF Server, Answered
  <1>2. \/ t = s
        \/ t = [known EXCEPT !.intent = "pending", !.jobs = 1] /\ s.intent = "none"
        \/ \E n \in {m \in {s.jobs, s.jobs + 1} : m <= MaxJobs} : t = [known EXCEPT !.jobs = n]
    BY DEF Released
  <1> HIDE DEF rel
  <1>3. CASE t = s BY <1>3, OtherGrows
  <1>4. CASE t = [known EXCEPT !.intent = "pending", !.jobs = 1] /\ s.intent = "none"
    <2>1. 1 \in 0 .. MaxJobs BY PublishAssumption
    <2>2. t \in Server /\ t.version = s.version /\ t.contents = s.contents /\ t.exposure = s.exposure
      BY <1>1, <1>4, <2>1 DEF Server
    <2> QED BY <1>4, <2>2, OtherGrows
  <1>5. CASE \E n \in {m \in {s.jobs, s.jobs + 1} : m <= MaxJobs} : t = [known EXCEPT !.jobs = n]
    <2>1. PICK n \in {m \in {s.jobs, s.jobs + 1} : m <= MaxJobs} : t = [known EXCEPT !.jobs = n]
      BY <1>5
    <2>2. n \in 0 .. MaxJobs BY <1>1, PublishAssumption
    <2>3. /\ t \in Server /\ t.version = s.version /\ t.contents = s.contents /\ t.exposure = s.exposure
          /\ t.intent = s.intent
      BY <1>1, <2>1, <2>2 DEF Server
    <2> QED BY <2>3, OtherGrows
  <1> QED BY <1>2, <1>3, <1>4, <1>5

\* The server grows with every request it carries out, and has one upload more
\* after one that succeeds.
LEMMA RequestGrows ==
  ASSUME NEW s \in Server, NEW r \in Request, kind \in {"user", "agent"},
         r.op = "upload" => Len(s.contents) < MaxContents, NEW t \in After(r, s)
  PROVE  /\ Grows(s, t)
         /\ \A d : Uploads(t, d)
                     = Uploads(s, d) \cup {i \in {Len(s.contents) + 1} : r.op = "upload" /\ Status(r, s) = 0 /\ r.by = d}
  <1>0. Grows(s, s) BY DEF Grows
  <1>1. CASE Status(r, s) # 0
    BY <1>0, <1>1 DEF After
  <1>2. CASE Status(r, s) = 0 /\ r.op = "create_skill"
    <2>1. t = [s EXCEPT !.skill = TRUE] BY <1>2 DEF After, Effects
    <2>2. /\ t \in Server /\ t.version = s.version /\ t.contents = s.contents
          /\ t.exposure = s.exposure /\ t.intent = s.intent
      BY <2>1 DEF Server
    <2>3. Grows(s, t) /\ \A d : Uploads(t, d) = Uploads(s, d)
      BY <2>2, OtherGrows
    <2> QED BY <1>2, <2>3
  <1>3. CASE Status(r, s) = 0 /\ r.op = "upload"
    <2> DEFINE c == [bundle |-> r.bundle, by |-> r.by, state |-> "validated"]
    <2>1. t = [s EXCEPT !.contents = Append(@, c)] BY <1>3 DEF After, Effects
    <2>2. c \in Content /\ c.by = r.by BY DEF Content, Request
    <2> HIDE DEF c
    <2>3. /\ Grows(s, t)
          /\ \A d : Uploads(t, d) = Uploads(s, d) \cup {i \in {Len(s.contents) + 1} : c.by = d}
      <3>1. Len(s.contents) < MaxContents BY <1>3
      <3>2. /\ Grows(s, [s EXCEPT !.contents = Append(@, c)])
            /\ \A d : Uploads([s EXCEPT !.contents = Append(@, c)], d)
                        = Uploads(s, d) \cup {i \in {Len(s.contents) + 1} : c.by = d}
        BY <2>2, <3>1, UploadGrows
      <3> QED BY <2>1, <3>2
    <2> QED BY <1>3, <2>2, <2>3
  <1>4. CASE Status(r, s) = 0 /\ r.op = "create_version"
    <2>1. s.version = None /\ r.content \in Pending(s) BY <1>4 DEF Status
    <2>2. r.content \in DOMAIN s.contents BY <2>1 DEF Pending
    <2> DEFINE i == r.content
               b == s.contents[i].bundle
               u == [s EXCEPT !.contents[i].state = "consumed"]
    <2>3. u \in Server /\ Grows(s, u) /\ u.version = s.version /\ \A d : Uploads(u, d) = Uploads(s, d)
      BY <2>2, ContentChanges
    <2>4. b \in Bundles BY <2>2, ServerFields DEF Content
    <2>5. t = [u EXCEPT !.version = b]
      <3>1. t = [s EXCEPT !.version = b, !.contents[i].state = "consumed"]
        BY <1>4 DEF After, Effects
      <3>2. [s EXCEPT !.version = b, !.contents[i].state = "consumed"] = [u EXCEPT !.version = b]
        BY DEF Server
      <3> QED BY <3>1, <3>2
    <2> HIDE DEF u, b
    <2>6. t \in Server /\ t.contents = u.contents /\ t.exposure = u.exposure /\ t.intent = u.intent
      BY <2>3, <2>4, <2>5 DEF Server
    <2>7. Grows(s, t) BY <2>1, <2>3, <2>6 DEF Grows
    <2>8. ASSUME NEW d PROVE Uploads(t, d) = Uploads(s, d)
      <3>1. Uploads(t, d) = Uploads(u, d) BY <2>6 DEF Uploads
      <3> QED BY <2>3, <3>1
    <2> QED BY <1>4, <2>7, <2>8
  <1>5. CASE Status(r, s) = 0 /\ r.op = "release"
    <2>1. t \in Released(s) BY <1>5 DEF After, Effects
    <2>2. Grows(s, t) /\ \A d : Uploads(t, d) = Uploads(s, d) BY <2>1, ReleaseGrows
    <2> QED BY <1>5, <2>2
  <1>6. CASE Status(r, s) = 0 /\ r.op = "expose"
    <2>1. t = [s EXCEPT !.exposure = "open"] BY <1>6 DEF After, Effects
    <2>2. /\ t \in Server /\ t.version = s.version /\ t.contents = s.contents
          /\ t.exposure = "open" /\ t.intent = s.intent
      BY <2>1 DEF Server
    <2>3. Grows(s, t) /\ \A d : Uploads(t, d) = Uploads(s, d)
      BY <2>2, OtherGrows
    <2> QED BY <1>6, <2>3
  <1>7. r.op \in {"create_skill", "upload", "create_version", "release", "expose"} BY DEF Request
  <1> QED BY <1>1, <1>2, <1>3, <1>4, <1>5, <1>6, <1>7

\* What a job makes of the release, whether it completes or not.
LEMMA FlushedIs ==
  ASSUME NEW s \in Server, NEW t \in Settled(s) \cup Flushed(s)
  PROVE  /\ t \in Server /\ t.version = s.version /\ t.contents = s.contents /\ t.jobs = s.jobs
         /\ s.exposure # "none" => t.exposure # "none"
         /\ s.intent = "activated" => t.intent = "activated"
         /\ s.intent = "none" => t.intent = "none" /\ t.exposure = s.exposure
  <1>1. \/ t = s \/ t = [s EXCEPT !.release = "ready"]
        \/ \E intent \in IF s.intent = "pending" THEN {"activated", "suppressed"} ELSE {s.intent} :
             t = [s EXCEPT !.release = "ready", !.intent = intent,
                  !.exposure = IF intent = s.intent \/ intent = "suppressed" THEN @ ELSE "open"]
    BY DEF Flushed, Settled
  <1>2. CASE t = s BY <1>2
  <1>3. CASE t = [s EXCEPT !.release = "ready"] BY <1>3 DEF Server
  <1>4. ASSUME NEW intent \in IF s.intent = "pending" THEN {"activated", "suppressed"} ELSE {s.intent},
               t = [s EXCEPT !.release = "ready", !.intent = intent,
                    !.exposure = IF intent = s.intent \/ intent = "suppressed" THEN @ ELSE "open"]
        PROVE  /\ t \in Server /\ t.version = s.version /\ t.contents = s.contents /\ t.jobs = s.jobs
               /\ s.exposure # "none" => t.exposure # "none"
               /\ s.intent = "activated" => t.intent = "activated"
               /\ s.intent = "none" => t.intent = "none" /\ t.exposure = s.exposure
    <2> DEFINE x == IF intent = s.intent \/ intent = "suppressed" THEN s.exposure ELSE "open"
    <2>1. x \in {"none", "open", "closed"} /\ intent \in {"none", "pending", "activated", "suppressed"}
      BY DEF Server
    <2>2. t = [s EXCEPT !.release = "ready", !.intent = intent, !.exposure = x] BY <1>4 DEF Server
    <2>3. /\ s.exposure # "none" => x # "none"
          /\ s.intent = "activated" => intent = "activated"
          /\ s.intent = "none" => intent = "none" /\ x = s.exposure
      OBVIOUS
    <2> HIDE DEF x
    <2>4. /\ t \in Server /\ t.version = s.version /\ t.contents = s.contents /\ t.jobs = s.jobs
          /\ t.exposure = x /\ t.intent = intent
      BY <2>1, <2>2 DEF Server
    <2> QED BY <2>3, <2>4
  <1> QED BY <1>1, <1>2, <1>3, <1>4

\* What was so on a server is so when it has grown.
LEMMA HoldsStays ==
  ASSUME NEW s \in Server, NEW t, Grows(s, t)
  PROVE  /\ \A r \in Receipt : Holds(r, s) => Holds(r, t)
         /\ \A c \in Client : CommandHolds(c, s) => CommandHolds(c, t)
  <1>1. ASSUME NEW r \in Receipt, Holds(r, s) PROVE Holds(r, t)
    <2>1. r.bundle \in Bundles /\ None \notin Bundles BY PublishAssumption DEF Receipt
    <2> QED BY <1>1, <2>1 DEF Holds, Grows
  <1>2. ASSUME NEW c \in Client, CommandHolds(c, s) PROVE CommandHolds(c, t)
    <2>1. c.mem \in Receipt BY DEF Client
    <2>2. c.mem.bundle \in Bundles /\ None \notin Bundles BY <2>1, PublishAssumption DEF Receipt
    <2> QED BY <1>1, <1>2, <2>1, <2>2 DEF CommandHolds, Grows
  <1> QED BY <1>1, <1>2

-------------------------------------------------------------------------------
(* One step of a command, and one of anything else *)

\* The property's form of what receipts say.
LEMMA ReceiptsHold == ReceiptIsTrue <=> \A d \in Dirs : receipt[d] # None => Holds(receipt[d], server)
  BY DEF ReceiptIsTrue, Holds

\* The same one step later.
LEMMA ReceiptsHoldNext == ReceiptIsTrue' <=> \A d \in Dirs : receipt'[d] # None => Holds(receipt'[d], server')
  BY DEF ReceiptIsTrue, Holds

\* What the parts of the state are.
LEMMA PublishTypes ==
  ASSUME PublishInv
  PROVE  /\ kind \in {"user", "agent"} /\ server \in Server /\ late \subseteq Request /\ IsFiniteSet(late)
         /\ source \in [Dirs -> Bundles] /\ receipt \in [Dirs -> Receipt \cup {None}]
         /\ lost \in [Dirs -> Nat] /\ trouble \in 0 .. LastTrouble
         /\ client \in [DOMAIN dir -> Client] /\ dir \in Working
         /\ \A p \in DOMAIN dir : /\ dir[p] \in Dirs /\ client[p] \in Client /\ client[p].mem \in Receipt
                                  /\ CommandHolds(client[p], server) /\ p \in Publishers
         /\ \A d \in Dirs : receipt[d] # None => receipt[d] \in Receipt /\ Holds(receipt[d], server)
  <1>1. /\ kind \in {"user", "agent"} /\ server \in Server /\ late \subseteq Request /\ IsFiniteSet(late)
        /\ source \in [Dirs -> Bundles] /\ receipt \in [Dirs -> Receipt \cup {None}]
        /\ lost \in [Dirs -> Nat] /\ trouble \in 0 .. LastTrouble
        /\ client \in [DOMAIN dir -> Client] /\ dir \in Working
    BY DEF PublishInv, StateTypes
  <1>2. PICK ps \in SUBSET Publishers : dir \in [ps -> Dirs] BY <1>1 DEF Working
  <1>3. ASSUME NEW p \in DOMAIN dir
        PROVE  /\ dir[p] \in Dirs /\ client[p] \in Client /\ client[p].mem \in Receipt
               /\ CommandHolds(client[p], server) /\ p \in Publishers
    <2>1. dir[p] \in Dirs /\ p \in Publishers BY <1>2
    <2>2. client[p] \in Client BY <1>1
    <2>3. client[p].mem \in Receipt BY <2>2 DEF Client
    <2> QED BY <2>1, <2>2, <2>3 DEF PublishInv, CommandsInv
  <1>4. ASSUME NEW d \in Dirs, receipt[d] # None PROVE receipt[d] \in Receipt /\ Holds(receipt[d], server)
    BY <1>1, <1>4, ReceiptsHold DEF PublishInv
  <1> QED BY <1>1, <1>3, <1>4

\* The uploads of a directory are finitely many, made or late.
LEMMA UploadsFinite ==
  ASSUME NEW s \in Server, NEW rs, IsFiniteSet(rs), NEW d
  PROVE  /\ IsFiniteSet(Uploads(s, d)) /\ Cardinality(Uploads(s, d)) \in Nat
         /\ IsFiniteSet(LateUploads(rs, d)) /\ Cardinality(LateUploads(rs, d)) \in Nat
  <1>1. DOMAIN s.contents = 1 .. Len(s.contents) /\ Len(s.contents) \in Nat BY ServerFields
  <1>2. IsFiniteSet(1 .. Len(s.contents))
    <2> DEFINE n == Len(s.contents)
    <2>1. n \in Nat BY <1>1
    <2> HIDE DEF n
    <2>2. IsFiniteSet(1 .. n) BY <2>1, FS_Interval
    <2> QED BY <2>2 DEF n
  <1>3. Uploads(s, d) \subseteq 1 .. Len(s.contents) BY <1>1 DEF Uploads
  <1>4. LateUploads(rs, d) \subseteq rs BY DEF LateUploads
  <1>5. IsFiniteSet(Uploads(s, d)) /\ IsFiniteSet(LateUploads(rs, d)) BY <1>2, <1>3, <1>4, FS_Subset
  <1> QED BY <1>5, FS_CardinalityType

\* The invariant after a step of command p: what changed is its directory's alone.
LEMMA StepKeeps ==
  ASSUME PublishInv, NEW p \in DOMAIN dir, NEW c \in Client, client' = [client EXCEPT ![p] = c],
         UNCHANGED <<kind, dir, source>>, trouble' \in 0 .. LastTrouble, lost' \in [Dirs -> Nat],
         Grows(server, server'), late' \subseteq Request, IsFiniteSet(late'),
         receipt' \in [Dirs -> Receipt \cup {None}],
         receipt'[dir[p]] # None => Holds(receipt'[dir[p]], server'),
         \A d \in Dirs \ {dir[p]} :
            /\ receipt'[d] = receipt[d] /\ lost'[d] = lost[d]
            /\ Uploads(server', d) = Uploads(server, d) /\ LateUploads(late', d) = LateUploads(late, d),
         CommandHolds(c, server'),
         Alone(p) => KnowsUpload(c, receipt'[dir[p]]) /\ UploadsCounted(p)'
  PROVE  PublishInv'
  <1>1. server' \in Server BY DEF Grows
  <1>2. client' \in [DOMAIN dir -> Client] /\ client'[p] = c /\ \A q \in DOMAIN dir \ {p} : client'[q] = client[q]
    BY PublishTypes
  <1>3. StateTypes' BY <1>1, <1>2, PublishTypes DEF StateTypes
  <1>4. CommandsInv'
    <2>1. ASSUME NEW q \in DOMAIN dir PROVE CommandHolds(client'[q], server')
      BY <1>1, <1>2, PublishTypes, HoldsStays
    <2> QED BY <2>1 DEF CommandsInv, CommandHolds, Concludes, Holds
  <1>5. ReceiptIsTrue'
    <2>1. ASSUME NEW d \in Dirs, receipt'[d] # None PROVE Holds(receipt'[d], server')
      <3>1. CASE d = dir[p] BY <2>1, <3>1
      <3>2. CASE d # dir[p]
        <4>1. receipt'[d] = receipt[d] BY <3>2
        <4>2. receipt[d] \in Receipt /\ Holds(receipt[d], server) BY <2>1, <4>1, PublishTypes
        <4> QED BY <4>1, <4>2, PublishTypes, HoldsStays
      <3> QED BY <3>1, <3>2
    <2> QED BY <2>1, ReceiptsHoldNext
  <1>6. UploadsInv'
    <2>1. ASSUME NEW q \in DOMAIN dir, Alone(q)
          PROVE  KnowsUpload(client'[q], receipt'[dir[q]]) /\ UploadsCounted(q)'
      <3>1. CASE q = p BY <1>2, <2>1, <3>1
      <3>2. CASE q # p
        <4>1. dir[q] \in Dirs \ {dir[p]} BY <2>1, <3>2, PublishTypes DEF Alone
        <4>2. KnowsUpload(client[q], receipt[dir[q]]) /\ UploadsCounted(q) BY <2>1 DEF PublishInv, UploadsInv
        <4>3. client'[q] = client[q] BY <1>2, <3>2
        <4> QED BY <4>1, <4>2, <4>3 DEF UploadsCounted
      <3> QED BY <3>1, <3>2
    <2> QED BY <2>1 DEF UploadsInv, Alone
  <1> QED BY <1>3, <1>4, <1>5, <1>6 DEF PublishInv

\* The invariant after a step of the server or its surroundings.
LEMMA ServerKeeps ==
  ASSUME PublishInv, UNCHANGED <<kind, dir, receipt, client, lost>>, source' \in [Dirs -> Bundles],
         trouble' \in 0 .. LastTrouble, Grows(server, server'), late' \subseteq Request, IsFiniteSet(late'),
         \A d \in Dirs : Cardinality(Uploads(server', d)) + Cardinality(LateUploads(late', d))
                           <= Cardinality(Uploads(server, d)) + Cardinality(LateUploads(late, d))
  PROVE  PublishInv'
  <1>1. server' \in Server BY DEF Grows
  <1>2. StateTypes' BY <1>1, PublishTypes DEF StateTypes
  <1>3. CommandsInv'
    <2>1. ASSUME NEW q \in DOMAIN dir PROVE CommandHolds(client[q], server')
      BY <1>1, PublishTypes, HoldsStays
    <2> QED BY <2>1 DEF CommandsInv, CommandHolds, Concludes, Holds
  <1>4. ReceiptIsTrue' BY PublishTypes, HoldsStays, ReceiptsHoldNext
  <1>5. UploadsInv'
    <2>1. ASSUME NEW q \in DOMAIN dir, Alone(q)
          PROVE  KnowsUpload(client[q], receipt[dir[q]]) /\ UploadsCounted(q)'
      <3>1. KnowsUpload(client[q], receipt[dir[q]]) /\ UploadsCounted(q) BY <2>1 DEF PublishInv, UploadsInv
      <3>2. dir[q] \in Dirs BY PublishTypes
      <3> DEFINE n == Cardinality(Uploads(server, dir[q]))   n1 == Cardinality(Uploads(server', dir[q]))
                 l == Cardinality(LateUploads(late, dir[q])) l1 == Cardinality(LateUploads(late', dir[q]))
                 m == lost[dir[q]] + IF KeepsId(receipt[dir[q]]) \/ client[q].mem.content # 0 THEN 1 ELSE 0
      <3>3. n \in Nat /\ l \in Nat /\ n1 \in Nat /\ l1 \in Nat BY <1>1, PublishTypes, UploadsFinite
      <3>4. m \in Nat BY <3>2, PublishTypes
      <3>5. n1 + l1 <= n + l BY <3>2
      <3>6. n + l <= m BY <3>1 DEF UploadsCounted
      <3> HIDE DEF n, l, n1, l1, m
      <3>7. n1 + l1 <= m BY <3>3, <3>4, <3>5, <3>6
      <3>8. UploadsCounted(q)' BY <3>7 DEF UploadsCounted, n1, l1, m
      <3> QED BY <3>1, <3>8
    <2> QED BY <2>1 DEF UploadsInv, Alone
  <1> QED BY <1>2, <1>3, <1>4, <1>5 DEF PublishInv

\* A step of a command after which neither receipt nor uploads differ.
LEMMA CommandKeeps ==
  ASSUME PublishInv, NEW p \in DOMAIN dir, NEW c \in Client, client' = [client EXCEPT ![p] = c],
         UNCHANGED <<kind, dir, source, receipt, late, lost>>, trouble' \in 0 .. LastTrouble,
         Grows(server, server'), \A d : Uploads(server', d) = Uploads(server, d),
         CommandHolds(c, server'),
         Alone(p) => /\ KnowsUpload(c, receipt[dir[p]])
                     /\ client[p].mem.content # 0 => c.mem.content # 0 \/ KeepsId(receipt[dir[p]])
  PROVE  PublishInv'
  <1>1. receipt[dir[p]] # None => Holds(receipt[dir[p]], server') BY PublishTypes, HoldsStays
  <1>2. ASSUME Alone(p) PROVE UploadsCounted(p)'
    <2>1. UploadsCounted(p) BY <1>2 DEF PublishInv, UploadsInv
    <2> DEFINE d == dir[p]
               n == Cardinality(Uploads(server, d)) + Cardinality(LateUploads(late, d))
               m == lost[d] + IF KeepsId(receipt[d]) \/ client[p].mem.content # 0 THEN 1 ELSE 0
               m1 == lost[d] + IF KeepsId(receipt[d]) \/ c.mem.content # 0 THEN 1 ELSE 0
    <2>2. n <= m BY <2>1 DEF UploadsCounted
    <2>3. lost[d] \in Nat BY PublishTypes
    <2>4. Cardinality(Uploads(server, d)) \in Nat /\ Cardinality(LateUploads(late, d)) \in Nat
      BY PublishTypes, UploadsFinite
    <2>5. m \in Nat /\ m1 \in Nat /\ m <= m1 BY <1>2, <2>3
    <2>6. n \in Nat BY <2>4
    <2>7. client'[p] = c BY PublishTypes
    <2> HIDE DEF n, m, m1
    <2>8. n <= m1 BY <2>2, <2>5, <2>6
    <2> QED BY <2>7, <2>8 DEF UploadsCounted, n, m1
  <1> QED BY <1>1, <1>2, PublishTypes, StepKeeps

\* The command goes on.
LEMMA CommandGoes ==
  ASSUME PublishInv, NEW p \in DOMAIN dir, ~client[p].dirty, client[p].step # "idle",
         NEW c \in Client, client' = [client EXCEPT ![p] = c],
         c.mem.content = client[p].mem.content, c.step # "idle" \/ c.dirty,
         ~(c.step = "create_version" /\ c.dirty), c.step = "upload" => c.mem.content = 0,
         UNCHANGED <<kind, dir, source, receipt, late, lost, trouble>>,
         Grows(server, server'), \A d : Uploads(server', d) = Uploads(server, d),
         CommandHolds(c, server')
  PROVE  PublishInv'
  <1>1. ASSUME Alone(p) PROVE KnowsUpload(c, receipt[dir[p]])
    <2>1. KnowsUpload(client[p], receipt[dir[p]]) BY <1>1 DEF PublishInv, UploadsInv
    <2> QED BY <2>1 DEF KnowsUpload
  <1> QED BY <1>1, PublishTypes, CommandKeeps

\* The command ends without having published.
LEMMA CommandEnds ==
  ASSUME PublishInv, NEW p \in DOMAIN dir, ~client[p].dirty,
         NEW report \in {"failed", "release-created"}, client' = Ended(p, report),
         UNCHANGED <<kind, dir, source, receipt, late, lost>>, trouble' \in 0 .. LastTrouble,
         Grows(server, server'), \A d : Uploads(server', d) = Uploads(server, d)
  PROVE  PublishInv'
  <1> DEFINE mem == NewReceipt(client[p].mem.bundle)
             c == [step |-> "idle", mem |-> mem, wait |-> FALSE, dirty |-> FALSE, seen |-> "none", report |-> report]
  <1>1. mem \in Receipt /\ mem.content = 0 /\ mem.named = {} BY PublishTypes, PublishAssumption DEF NewReceipt, Receipt
  <1>2. client' = [client EXCEPT ![p] = c] BY DEF Ended
  <1> HIDE DEF mem
  <1>3. c \in Client BY <1>1 DEF Client, Steps
  <1>4. c.step = "idle" /\ ~c.dirty /\ c.mem = mem /\ c.seen = "none" /\ c.report # "published" OBVIOUS
  <1> HIDE DEF c
  <1>5. CommandHolds(c, server') BY <1>1, <1>4 DEF CommandHolds, Concludes, Holds, Late
  <1>6. ASSUME Alone(p)
        PROVE  /\ KnowsUpload(c, receipt[dir[p]])
               /\ client[p].mem.content # 0 => KeepsId(receipt[dir[p]])
    <2>1. KnowsUpload(client[p], receipt[dir[p]]) BY <1>6 DEF PublishInv, UploadsInv
    <2> QED BY <1>1, <1>4, <2>1 DEF KnowsUpload
  <1> QED BY <1>2, <1>3, <1>5, <1>6, CommandKeeps

\* The command as a step leaves it: what it learns, and where it goes.
LEMMA LearnIs ==
  ASSUME PublishInv, NEW p \in DOMAIN dir, NEW step \in Steps, NEW mem \in Receipt
  PROVE  \E c \in Client :
            /\ Learn(p, step, mem) = [client EXCEPT ![p] = c]
            /\ c.step = step /\ c.mem = mem /\ c.dirty /\ c.wait = client[p].wait
            /\ c.seen = client[p].seen /\ c.report = client[p].report
  <1> DEFINE o == client[p]
             c == [o EXCEPT !.step = step, !.mem = mem, !.dirty = TRUE]
  <1>1. o \in Client BY PublishTypes
  <1>2. Learn(p, step, mem) = [client EXCEPT ![p] = c]
    <2>1. client \in [DOMAIN dir -> Client] BY PublishTypes
    <2> QED BY <2>1 DEF Learn, Client
  <1> HIDE DEF o
  <1>3. /\ c \in Client /\ c.step = step /\ c.mem = mem /\ c.dirty /\ c.wait = o.wait
        /\ c.seen = o.seen /\ c.report = o.report
    BY <1>1 DEF Client
  <1> QED BY <1>2, <1>3 DEF o

\* The same without an answer to record.
LEMMA GoIs ==
  ASSUME PublishInv, NEW p \in DOMAIN dir, NEW step \in Steps
  PROVE  \E c \in Client :
            /\ Go(p, step) = [client EXCEPT ![p] = c]
            /\ c.step = step /\ c.mem = client[p].mem /\ c.dirty = client[p].dirty /\ c.wait = client[p].wait
            /\ c.seen = client[p].seen /\ c.report = client[p].report
  <1> DEFINE o == client[p]
             c == [o EXCEPT !.step = step]
  <1>1. o \in Client BY PublishTypes
  <1>2. Go(p, step) = [client EXCEPT ![p] = c]
    <2>1. client \in [DOMAIN dir -> Client] BY PublishTypes
    <2> QED BY <2>1 DEF Go, Client
  <1> HIDE DEF o
  <1>3. /\ c \in Client /\ c.step = step /\ c.mem = o.mem /\ c.dirty = o.dirty /\ c.wait = o.wait
        /\ c.seen = o.seen /\ c.report = o.report
    BY <1>1 DEF Client
  <1> QED BY <1>2, <1>3 DEF o

\* A command that learns something which is so.
LEMMA LearnKeeps ==
  ASSUME PublishInv, NEW p \in DOMAIN dir, ~client[p].dirty, client[p].step # "idle",
         NEW step \in Steps \ {"upload", "create_version"}, NEW mem \in Receipt,
         mem.content = client[p].mem.content, mem.bundle = client[p].mem.bundle,
         client' = Learn(p, step, mem),
         UNCHANGED <<kind, dir, source, receipt, late, lost, trouble>>,
         Grows(server, server'), \A d : Uploads(server', d) = Uploads(server, d),
         Holds(mem, server'),
         step \in Late \cup {"idle"} => server'.version = mem.bundle,
         kind = "agent" => step \notin {"exposures", "expose"},
         kind = "agent" /\ step = "idle" => server'.intent = "activated"
  PROVE  PublishInv'
  <1>1. PICK c \in Client :
            /\ Learn(p, step, mem) = [client EXCEPT ![p] = c]
            /\ c.step = step /\ c.mem = mem /\ c.dirty /\ c.wait = client[p].wait
            /\ c.seen = client[p].seen /\ c.report = client[p].report
    BY LearnIs
  <1>2. CommandHolds(client[p], server') BY PublishTypes, HoldsStays
  <1>3. /\ client[p].step \in Late \/ client[p].report = "published" => server'.version = client[p].mem.bundle
        /\ kind = "agent" /\ client[p].report = "published" => server'.intent = "activated"
    BY <1>2 DEF CommandHolds
  <1>4. CommandHolds(c, server')
    <2>1. Holds(c.mem, server') BY <1>1
    <2>2. c.step \in Late \/ Concludes(c) \/ c.report = "published" => server'.version = c.mem.bundle
      BY <1>1, <1>3 DEF Concludes
    <2>3. kind = "agent" => /\ c.step \notin {"exposures", "expose"}
                            /\ Concludes(c) \/ c.report = "published" => server'.intent = "activated"
      BY <1>1, <1>3 DEF Concludes
    <2> QED BY <2>1, <2>2, <2>3 DEF CommandHolds
  <1> QED BY <1>1, <1>4, CommandGoes

\* A command that goes where what it needs is so.
LEMMA GoKeeps ==
  ASSUME PublishInv, NEW p \in DOMAIN dir, ~client[p].dirty, client[p].step # "idle",
         NEW step \in Steps \ {"idle"}, client' = Go(p, step),
         step = "upload" => client[p].mem.content = 0,
         UNCHANGED <<kind, dir, source, receipt, late, lost, trouble>>,
         Grows(server, server'), \A d : Uploads(server', d) = Uploads(server, d),
         step \in Late => client[p].step \in Late, kind = "agent" => step \notin {"exposures", "expose"}
  PROVE  PublishInv'
  <1>1. PICK c \in Client :
            /\ Go(p, step) = [client EXCEPT ![p] = c]
            /\ c.step = step /\ c.mem = client[p].mem /\ c.dirty = client[p].dirty /\ c.wait = client[p].wait
            /\ c.seen = client[p].seen /\ c.report = client[p].report
    BY GoIs
  <1>2. CommandHolds(client[p], server') BY PublishTypes, HoldsStays
  <1>3. /\ client[p].step \in Late \/ client[p].report = "published" => server'.version = client[p].mem.bundle
        /\ kind = "agent" /\ client[p].report = "published" => server'.intent = "activated"
    BY <1>2 DEF CommandHolds
  <1>4. CommandHolds(c, server')
    <2>1. Holds(c.mem, server') BY <1>1, <1>2 DEF CommandHolds
    <2>2. c.step \in Late \/ Concludes(c) \/ c.report = "published" => server'.version = c.mem.bundle
      BY <1>1, <1>3 DEF Concludes
    <2>3. kind = "agent" => /\ c.step \notin {"exposures", "expose"}
                            /\ Concludes(c) \/ c.report = "published" => server'.intent = "activated"
      BY <1>1, <1>3 DEF Concludes
    <2> QED BY <2>1, <2>2, <2>3 DEF CommandHolds
  <1> QED BY <1>1, <1>4, CommandGoes

-------------------------------------------------------------------------------
(* The command's steps *)

\* A request of command p is one, and carrying it out makes the server grow.
LEMMA SendGrows ==
  ASSUME PublishInv, NEW p \in DOMAIN dir,
         client[p].step \in {"create_skill", "upload", "create_version", "release", "expose"},
         Fits(RequestOf(p)), NEW t \in After(RequestOf(p), server)
  PROVE  /\ RequestOf(p) \in Request
         /\ RequestOf(p).op = client[p].step /\ RequestOf(p).bundle = client[p].mem.bundle
         /\ RequestOf(p).content = client[p].mem.content /\ RequestOf(p).by = dir[p]
         /\ Grows(server, t)
         /\ client[p].step # "upload" => \A d : Uploads(t, d) = Uploads(server, d)
  <1> DEFINE r == RequestOf(p)
  <1>1. r.op = client[p].step /\ r.bundle = client[p].mem.bundle /\ r.content = client[p].mem.content /\ r.by = dir[p]
    BY DEF RequestOf
  <1>2. r \in Request
    <2>1. client[p].mem.bundle \in Bundles /\ client[p].mem.content \in 0 .. MaxContents BY PublishTypes DEF Receipt
    <2> QED BY <2>1, PublishTypes DEF RequestOf, Request
  <1>t. t \in After(r, server) OBVIOUS
  <1> HIDE DEF r
  <1>3. /\ Grows(server, t)
        /\ \A d : Uploads(t, d)
                    = Uploads(server, d) \cup {i \in {Len(server.contents) + 1} : r.op = "upload" /\ Status(r, server) = 0 /\ r.by = d}
    <2>1. r.op = "upload" => Len(server.contents) < MaxContents BY DEF Fits, r
    <2> QED BY <1>2, <1>t, <2>1, PublishTypes, RequestGrows
  <1>4. client[p].step # "upload" => \A d : Uploads(t, d) = Uploads(server, d)
    BY <1>1, <1>3
  <1> QED BY <1>1, <1>2, <1>3, <1>4 DEF r

\* A command starts: it trusts its receipt, which is true.
LEMMA StartKeeps ==
  ASSUME PublishInv, NEW p \in DOMAIN dir, NEW resume \in BOOLEAN, NEW wait \in BOOLEAN, Start(p, resume, wait)
  PROVE  PublishInv'
  <1> DEFINE d == dir[p]
             mem == Prepared(d)
  <1>1. /\ client[p].step = "idle" /\ ~client[p].dirty /\ trouble' \in 0 .. LastTrouble
        /\ UNCHANGED <<kind, dir, source, receipt, late, server, lost>>
    <2>1. trouble \in 0 .. LastTrouble /\ LastTrouble \in Nat BY PublishTypes, PublishAssumption
    <2> QED BY <2>1 DEF Start, At, Trouble
  <1>2. Grows(server, server') /\ \A e : Uploads(server', e) = Uploads(server, e)
    BY <1>1, PublishTypes DEF Grows
  <1>3. CASE mem = None \/ (resume /\ receipt[d] = None)
    <2>1. client' = Ended(p, "failed") BY <1>3 DEF Start, Fail
    <2> QED BY <1>1, <1>2, <2>1, CommandEnds
  <1>4. CASE ~(mem = None \/ (resume /\ receipt[d] = None))
    <2> DEFINE c == [step |-> "skill", mem |-> mem, wait |-> wait, dirty |-> TRUE, seen |-> "none", report |-> "none"]
    <2>1. client' = [client EXCEPT ![p] = c] BY <1>4 DEF Start
    <2>2. /\ mem \in Receipt /\ Holds(mem, server)
          /\ mem.content # 0 <=> KeepsId(receipt[d])
      <3>0. d \in Dirs /\ source[d] \in Bundles BY PublishTypes
      <3>1. CASE receipt[d] = None
        <4>1. mem = NewReceipt(source[d]) BY <3>1 DEF Prepared
        <4>2. mem \in Receipt /\ mem.content = 0 /\ mem.named = {}
          BY <3>0, <4>1, PublishAssumption DEF NewReceipt, Receipt
        <4> QED BY <3>1, <4>2 DEF Holds, KeepsId
      <3>2. CASE receipt[d] # None
        <4>1. mem = receipt[d] BY <1>4, <3>2 DEF Prepared
        <4> QED BY <3>0, <3>2, <4>1, PublishTypes DEF KeepsId
      <3> QED BY <3>1, <3>2
    <2> HIDE DEF mem
    <2>3. c \in Client BY <2>2 DEF Client, Steps
    <2>4. c.step = "skill" /\ c.dirty /\ c.mem = mem /\ c.seen = "none" /\ c.report = "none" OBVIOUS
    <2> HIDE DEF c
    <2>5. CommandHolds(c, server') BY <1>1, <2>2, <2>4 DEF CommandHolds, Concludes, Late
    <2>6. KnowsUpload(c, receipt[d]) BY <2>2, <2>4 DEF KnowsUpload
    <2>7. Alone(p) => client[p].mem.content = 0
      BY <1>1 DEF PublishInv, UploadsInv, KnowsUpload
    <2> QED BY <1>1, <1>2, <2>1, <2>3, <2>5, <2>6, <2>7, CommandKeeps
  <1> QED BY <1>3, <1>4

\* The receipt is written: what the command learned is so.
LEMMA SaveKeeps ==
  ASSUME PublishInv, NEW p \in DOMAIN dir, Save(p)
  PROVE  PublishInv'
  <1> DEFINE d == dir[p]
             o == client[p]
  <1>1. /\ o.dirty /\ receipt' = [receipt EXCEPT ![d] = o.mem]
        /\ UNCHANGED <<kind, dir, source, late, server, lost, trouble>>
    BY DEF Save, Saved
  <1>2. o \in Client /\ o.mem \in Receipt /\ CommandHolds(o, server) /\ d \in Dirs BY PublishTypes
  <1>3. Grows(server, server') BY <1>1, PublishTypes DEF Grows
  <1>4. /\ receipt' \in [Dirs -> Receipt \cup {None}] /\ receipt'[d] = o.mem
        /\ \A e \in Dirs \ {d} : receipt'[e] = receipt[e]
    BY <1>1, <1>2, PublishTypes
  <1>5. KeepsId(o.mem) <=> o.mem.content # 0 BY <1>2, PublishAssumption DEF KeepsId
  <1>6. Holds(o.mem, server') BY <1>1, <1>2 DEF CommandHolds
  <1>7. PICK c \in Client :
           /\ client' = [client EXCEPT ![p] = c] /\ CommandHolds(c, server')
           /\ KnowsUpload(o, receipt[d]) => KnowsUpload(c, o.mem)
    <2>1. CASE o.step = "idle"
      <3> DEFINE mem == NewReceipt(o.mem.bundle)
                 c == [step |-> "idle", mem |-> mem, wait |-> FALSE, dirty |-> FALSE, seen |-> "none",
                       report |-> "published"]
      <3>1. mem \in Receipt /\ mem.content = 0 /\ mem.named = {} /\ mem.bundle = o.mem.bundle
        BY <1>2, PublishAssumption DEF NewReceipt, Receipt
      <3>2. client' = [client EXCEPT ![p] = c] BY <2>1 DEF Save, Ended
      <3> HIDE DEF mem
      <3>3. c \in Client BY <3>1 DEF Client, Steps
      <3>4. c.step = "idle" /\ ~c.dirty /\ c.mem = mem /\ c.report = "published" /\ c.seen = "none" OBVIOUS
      <3> HIDE DEF c
      <3>5. server.version = o.mem.bundle /\ (kind = "agent" => server.intent = "activated")
        BY <1>1, <1>2, <2>1 DEF CommandHolds, Concludes
      <3>6. CommandHolds(c, server') BY <1>1, <3>1, <3>4, <3>5 DEF CommandHolds, Concludes, Holds
      <3>7. KnowsUpload(c, o.mem) BY <3>1, <3>4 DEF KnowsUpload
      <3> QED BY <3>2, <3>3, <3>6, <3>7
    <2>2. CASE o.step # "idle"
      <3> DEFINE c == [o EXCEPT !.dirty = FALSE]
      <3>1. client' = [client EXCEPT ![p] = c]
        <4>1. client \in [DOMAIN dir -> Client] BY PublishTypes
        <4>2. client' = [client EXCEPT ![p].dirty = FALSE] BY <2>2 DEF Save
        <4> QED BY <4>1, <4>2
      <3> HIDE DEF o
      <3>2. c \in Client /\ ~c.dirty /\ c.step = o.step /\ c.mem = o.mem /\ c.report = o.report /\ c.seen = o.seen
        BY <1>2 DEF Client
      <3> HIDE DEF c
      <3>3. CommandHolds(c, server') BY <1>1, <1>2, <2>2, <3>2 DEF CommandHolds, Concludes
      <3>4. KnowsUpload(o, receipt[d]) => KnowsUpload(c, o.mem) BY <1>5, <2>2, <3>2 DEF KnowsUpload
      <3> QED BY <3>1, <3>2, <3>3, <3>4
    <2> QED BY <2>1, <2>2
  <1>8. ASSUME Alone(p) PROVE KnowsUpload(c, receipt'[d]) /\ UploadsCounted(p)'
    <2>1. KnowsUpload(o, receipt[d]) /\ UploadsCounted(p) BY <1>8 DEF PublishInv, UploadsInv
    <2>2. KeepsId(receipt[d]) \/ o.mem.content # 0 => KeepsId(receipt'[d])
      BY <1>1, <1>4, <1>5, <2>1 DEF KnowsUpload
    <2> DEFINE n == Cardinality(Uploads(server, d)) + Cardinality(LateUploads(late, d))
               m == lost[d] + IF KeepsId(receipt[d]) \/ client[p].mem.content # 0 THEN 1 ELSE 0
               m1 == lost[d] + IF KeepsId(receipt'[d]) \/ client'[p].mem.content # 0 THEN 1 ELSE 0
    <2>3. n <= m BY <2>1 DEF UploadsCounted
    <2>4. lost[d] \in Nat BY <1>2, PublishTypes
    <2>5. Cardinality(Uploads(server, d)) \in Nat /\ Cardinality(LateUploads(late, d)) \in Nat
      BY PublishTypes, UploadsFinite
    <2>6. m \in Nat /\ m1 \in Nat /\ m <= m1 BY <2>2, <2>4
    <2>7. n \in Nat BY <2>5
    <2> HIDE DEF n, m, m1
    <2>8. n <= m1 BY <2>3, <2>6, <2>7
    <2>9. UploadsCounted(p)' BY <1>1, <2>8 DEF UploadsCounted, n, m1
    <2> QED BY <1>4, <1>7, <2>1, <2>9
  <1> QED BY <1>1, <1>3, <1>4, <1>6, <1>7, <1>8, PublishTypes, StepKeeps

\* A command finds, or finds again, what the server has.
LEMMA ListsKeep ==
  ASSUME PublishInv, NEW p \in DOMAIN dir, ListSkills(p) \/ ListVersions(p) \/ GetVersion(p)
  PROVE  PublishInv'
  <1>1. /\ ~client[p].dirty /\ client[p].step # "idle"
        /\ UNCHANGED <<kind, dir, source, receipt, late, server, lost, trouble>>
    BY DEF ListSkills, ListVersions, GetVersion, At, Local
  <1>2. Grows(server, server') /\ \A e : Uploads(server', e) = Uploads(server, e)
    BY <1>1, PublishTypes DEF Grows
  <1>3. client[p].mem \in Receipt /\ Holds(client[p].mem, server') BY <1>1, PublishTypes DEF CommandHolds
  <1>4. {"versions", "create_skill", "release", "upload", "create_version"} \subseteq Steps BY DEF Steps
  <1>5. CASE client' = Learn(p, "versions", client[p].mem)
    BY <1>1, <1>2, <1>3, <1>4, <1>5, LearnKeeps DEF Late
  <1>6. CASE client' = Fail(p)
    <2>1. client' = Ended(p, "failed") BY <1>6 DEF Fail
    <2> QED BY <1>1, <1>2, <2>1, PublishTypes, CommandEnds
  <1>7. CASE client' = Go(p, "create_skill")
    BY <1>1, <1>2, <1>4, <1>7, GoKeeps DEF Late
  <1>8. CASE client[p].mem.content = 0 /\ client' = Go(p, "upload")
    BY <1>1, <1>2, <1>4, <1>8, GoKeeps DEF Late
  <1>9. CASE client' = Go(p, "create_version")
    BY <1>1, <1>2, <1>4, <1>9, GoKeeps DEF Late
  <1>10. CASE Same(p, server.version) /\ client' = Learn(p, "release", Knows(p, "version"))
    <2> DEFINE mem == Knows(p, "version")
               o == client[p].mem
    <2>1. mem = [o EXCEPT !.named = @ \cup {"version"}] BY DEF Knows
    <2> HIDE DEF mem, o
    <2>2. o \in Receipt BY <1>3 DEF o
    <2>3. /\ mem \in Receipt /\ mem.content = o.content /\ mem.bundle = o.bundle
          /\ mem.named = o.named \cup {"version"}
      BY <2>1, <2>2 DEF Receipt
    <2>4. server'.version = mem.bundle BY <1>1, <1>10, <2>3 DEF Same, o
    <2>5. Holds(o, server') BY <1>3 DEF o
    <2>6. Holds(mem, server') BY <2>3, <2>4, <2>5 DEF Holds
    <2>7. client' = Learn(p, "release", mem) BY <1>10 DEF mem
    <2>8. mem.content = client[p].mem.content /\ mem.bundle = client[p].mem.bundle BY <2>3 DEF o
    <2> QED BY <1>1, <1>2, <1>4, <2>3, <2>4, <2>6, <2>7, <2>8, LearnKeeps
  <1> QED BY <1>5, <1>6, <1>7, <1>8, <1>9, <1>10 DEF ListSkills, ListVersions, GetVersion

\* What a request that is no upload makes of the state.
LEMMA SendFacts ==
  ASSUME PublishInv, NEW p \in DOMAIN dir,
         client[p].step \in {"create_skill", "create_version", "release", "expose"},
         At(p, RequestOf(p).op), Fits(RequestOf(p)), server' \in After(RequestOf(p), server),
         UNCHANGED <<kind, dir, source, receipt, late, lost, trouble>>
  PROVE  /\ ~client[p].dirty /\ client[p].step # "idle" /\ trouble' \in 0 .. LastTrouble
         /\ client[p].mem \in Receipt /\ CommandHolds(client[p], server')
         /\ Grows(server, server') /\ \A e : Uploads(server', e) = Uploads(server, e)
  BY SendGrows, PublishTypes, HoldsStays DEF At

\* The skill is created, or was.
LEMMA CreateSkillKeeps ==
  ASSUME PublishInv, NEW p \in DOMAIN dir, CreateSkill(p)
  PROVE  PublishInv'
  <1>1. /\ client[p].step = "create_skill" /\ At(p, RequestOf(p).op) /\ Fits(RequestOf(p))
        /\ server' \in After(RequestOf(p), server)
        /\ client' = Learn(p, "versions", client[p].mem) \/ client' = Go(p, "skill_again")
        /\ UNCHANGED <<kind, dir, source, receipt, late, lost, trouble>>
    BY DEF CreateSkill, Send
  <1>2. /\ ~client[p].dirty /\ client[p].step # "idle" /\ client[p].mem \in Receipt
        /\ Holds(client[p].mem, server')
        /\ Grows(server, server') /\ \A e : Uploads(server', e) = Uploads(server, e)
    BY <1>1, SendFacts DEF CommandHolds
  <1>3. {"versions", "skill_again"} \subseteq Steps BY DEF Steps
  <1>4. CASE client' = Learn(p, "versions", client[p].mem)
    BY <1>1, <1>2, <1>3, <1>4, LearnKeeps DEF Late
  <1>5. CASE client' = Go(p, "skill_again")
    BY <1>1, <1>2, <1>3, <1>5, GoKeeps DEF Late
  <1> QED BY <1>1, <1>4, <1>5

\* The version is created from the upload the command knows of.
LEMMA CreateVersionKeeps ==
  ASSUME PublishInv, NEW p \in DOMAIN dir, CreateVersion(p)
  PROVE  PublishInv'
  <1> DEFINE r == RequestOf(p)
             o == client[p].mem
             mem == Knows(p, "version")
  <1>1. /\ client[p].step = "create_version" /\ At(p, r.op) /\ Fits(r)
        /\ server' \in After(r, server)
        /\ \/ Status(r, server) = 0 /\ client' = Learn(p, "release", mem)
           \/ client' = Go(p, "version_again")
           \/ client' = Ended(p, "failed")
        /\ UNCHANGED <<kind, dir, source, receipt, late, lost, trouble>>
    BY DEF CreateVersion, Send, Fail
  <1>2. /\ ~client[p].dirty /\ client[p].step # "idle" /\ o \in Receipt /\ trouble' \in 0 .. LastTrouble
        /\ Holds(o, server')
        /\ Grows(server, server') /\ \A e : Uploads(server', e) = Uploads(server, e)
    BY <1>1, SendFacts DEF CommandHolds
  <1>3. {"release", "version_again"} \subseteq Steps BY DEF Steps
  <1>4. CASE client' = Go(p, "version_again")
    BY <1>1, <1>2, <1>3, <1>4, GoKeeps DEF Late
  <1>5. CASE client' = Ended(p, "failed")
    BY <1>1, <1>2, <1>5, CommandEnds
  <1>6. CASE Status(r, server) = 0 /\ client' = Learn(p, "release", mem)
    <2>1. mem = [o EXCEPT !.named = @ \cup {"version"}] BY DEF Knows
    <2>2. r.op = "create_version" /\ r.content = o.content /\ r.bundle = o.bundle BY <1>1 DEF RequestOf
    <2>3. Holds(o, server) /\ server \in Server BY PublishTypes DEF CommandHolds
    <2> HIDE DEF mem, o, r
    <2>4. /\ mem \in Receipt /\ mem.content = o.content /\ mem.bundle = o.bundle
          /\ mem.named = o.named \cup {"version"}
      BY <1>2, <2>1 DEF Receipt
    <2>5. r.content \in DOMAIN server.contents BY <1>6, <2>2 DEF Status, Pending
    <2>6. r.content # 0
      <3>1. DOMAIN server.contents = 1 .. Len(server.contents) /\ Len(server.contents) \in Nat
        BY <2>3, ServerFields
      <3> QED BY <2>5, <3>1
    <2>7. server.contents[r.content].bundle = o.bundle BY <2>2, <2>3, <2>6 DEF Holds
    <2>8. server'.version = server.contents[r.content].bundle
      <3> DEFINE b == server.contents[r.content].bundle
      <3>1. server' = [server EXCEPT !.version = b, !.contents[r.content].state = "consumed"]
        BY <1>1, <1>6, <2>2 DEF After, Effects
      <3> HIDE DEF b
      <3>2. server'.version = b BY <2>3, <3>1 DEF Server
      <3> QED BY <3>2 DEF b
    <2>9. server'.version = mem.bundle BY <2>4, <2>7, <2>8
    <2>10. Holds(mem, server') BY <1>2, <2>4, <2>9 DEF Holds
    <2>11. mem.content = client[p].mem.content /\ mem.bundle = client[p].mem.bundle BY <2>4 DEF o
    <2> QED BY <1>1, <1>2, <1>3, <1>6, <2>4, <2>9, <2>10, <2>11, LearnKeeps
  <1> QED BY <1>1, <1>4, <1>5, <1>6

\* The release is there, and perhaps ready.
LEMMA CreateReleaseKeeps ==
  ASSUME PublishInv, NEW p \in DOMAIN dir, CreateRelease(p)
  PROVE  PublishInv'
  <1> DEFINE r == RequestOf(p)
             step == IF client[p].wait THEN "wait" ELSE IF kind = "agent" THEN "status" ELSE "exposures"
             seen == Answered(server)
  <1>1. /\ client[p].step = "release" /\ At(p, r.op) /\ Fits(r)
        /\ server' \in After(r, server)
        /\ client' = [Learn(p, step, client[p].mem) EXCEPT ![p].seen = seen]
        /\ UNCHANGED <<kind, dir, source, receipt, late, lost, trouble>>
    BY DEF CreateRelease, Send
  <1>2. /\ ~client[p].dirty /\ client[p].step # "idle" /\ client[p].mem \in Receipt
        /\ CommandHolds(client[p], server')
        /\ Grows(server, server') /\ \A e : Uploads(server', e) = Uploads(server, e)
    BY <1>1, SendFacts
  <1>4. /\ step \in {"wait", "status", "exposures"} /\ step \in Steps
        /\ kind = "agent" => step # "exposures"
    BY DEF Steps
  <1>5. seen \in {"none", "preparing", "ready", "failed"} BY PublishTypes DEF Server, Answered
  <1> DEFINE mem == client[p].mem
  <1>m. mem \in Receipt BY <1>2
  <1> HIDE DEF step, seen, r, mem
  <1>7. PICK b \in Client :
           /\ Learn(p, step, mem) = [client EXCEPT ![p] = b]
           /\ b.step = step /\ b.mem = mem /\ b.dirty /\ b.wait = client[p].wait
           /\ b.seen = client[p].seen /\ b.report = client[p].report
    <2>1. ASSUME NEW st \in Steps, NEW m \in Receipt
          PROVE  \E b \in Client :
                    /\ Learn(p, st, m) = [client EXCEPT ![p] = b]
                    /\ b.step = st /\ b.mem = m /\ b.dirty /\ b.wait = client[p].wait
                    /\ b.seen = client[p].seen /\ b.report = client[p].report
      BY LearnIs
    <2>2. step \in Steps BY <1>4
    <2> QED BY <1>m, <2>1, <2>2
  <1> DEFINE c == [b EXCEPT !.seen = seen]
  <1>8. client' = [client EXCEPT ![p] = c]
    <2>1. client \in [DOMAIN dir -> Client] BY PublishTypes
    <2> QED BY <1>1, <1>7, <2>1 DEF mem
  <1>9. /\ c \in Client /\ c.step = step /\ c.mem = client[p].mem /\ c.dirty /\ c.report = client[p].report
        /\ c.seen = seen
    BY <1>5, <1>7 DEF Client, mem
  <1> HIDE DEF c
  <1>10. CommandHolds(c, server')
    <2>1. server'.version = client[p].mem.bundle BY <1>1, <1>2 DEF CommandHolds, Late
    <2> QED BY <1>2, <1>4, <1>9, <2>1 DEF CommandHolds, Concludes
  <1> QED BY <1>1, <1>2, <1>4, <1>8, <1>9, <1>10, CommandGoes

\* A command that has looked at the release.
LEMMA SeenKeeps ==
  ASSUME PublishInv, NEW p \in DOMAIN dir, ~client[p].dirty, client[p].step \in Late,
         NEW step \in Late, NEW seen \in {"none", "preparing", "ready", "failed"},
         client' = [client EXCEPT ![p].step = step, ![p].seen = seen],
         kind = "agent" => step \notin {"exposures", "expose"},
         UNCHANGED <<kind, dir, source, receipt, late, server, lost, trouble>>
  PROVE  PublishInv'
  <1> DEFINE o == client[p]
             c == [o EXCEPT !.step = step, !.seen = seen]
  <1>1. client' = [client EXCEPT ![p] = c]
    <2>1. client \in [DOMAIN dir -> Client] BY PublishTypes
    <2> QED BY <2>1
  <1>2. o \in Client /\ CommandHolds(o, server) /\ o.step \in Late /\ o.dirty = FALSE
    BY PublishTypes DEF Client
  <1> HIDE DEF o
  <1>3. c \in Client /\ c.step = step /\ c.seen = seen /\ c.mem = o.mem /\ c.dirty = FALSE /\ c.report = o.report
    BY <1>2 DEF Client, Late, Steps
  <1> HIDE DEF c
  <1>4. CommandHolds(c, server') BY <1>2, <1>3 DEF CommandHolds, Concludes
  <1>5. Grows(server, server') /\ \A e : Uploads(server', e) = Uploads(server, e) BY PublishTypes DEF Grows
  <1>6. client[p].step # "idle" /\ c.step # "idle" /\ c.step # "upload" BY <1>3 DEF Late
  <1>7. c.mem.content = client[p].mem.content BY <1>3 DEF o
  <1> QED BY <1>1, <1>3, <1>4, <1>5, <1>6, <1>7, CommandGoes

\* Waiting for the release.
LEMMA WaitKeeps ==
  ASSUME PublishInv, NEW p \in DOMAIN dir, WaitForRelease(p) \/ WaitForAgent(p)
  PROVE  PublishInv'
  <1>1. /\ ~client[p].dirty /\ client[p].step \in Late /\ client[p].step # "idle"
        /\ UNCHANGED <<kind, dir, source, receipt, late, server, lost, trouble>>
    BY DEF WaitForRelease, WaitForAgent, At, Local, Late
  <1>2. Grows(server, server') /\ \A e : Uploads(server', e) = Uploads(server, e) /\ trouble' \in 0 .. LastTrouble
    BY <1>1, PublishTypes DEF Grows
  <1>3. CASE kind = "user" /\ client' = [client EXCEPT ![p].step = "exposures", ![p].seen = "ready"]
    BY <1>1, <1>3, SeenKeeps DEF Late
  <1>4. CASE client' = Fail(p)
    <2>1. client' = Ended(p, "failed") BY <1>4 DEF Fail
    <2> QED BY <1>1, <1>2, <2>1, CommandEnds
  <1>5. CASE client' = [client EXCEPT ![p].step = "status", ![p].seen = server.release]
    <2> DEFINE seen == server.release
    <2>1. seen \in {"none", "preparing", "ready", "failed"} /\ "status" \notin {"exposures", "expose"}
      BY PublishTypes DEF Server
    <2>2. client' = [client EXCEPT ![p].step = "status", ![p].seen = seen] BY <1>5
    <2>3. "status" \in Late BY DEF Late
    <2> HIDE DEF seen
    <2> QED BY <1>1, <2>1, <2>2, <2>3, SeenKeeps
  <1> QED BY <1>3, <1>4, <1>5 DEF WaitForRelease, WaitForAgent

\* The receipt of a user also names the exposure that is there.
LEMMA ExposureKnown ==
  ASSUME PublishInv, NEW p \in DOMAIN dir, ~client[p].dirty, client[p].step \in Late,
         client' = Learn(p, "idle", Knows(p, "exposure")),
         UNCHANGED <<kind, dir, source, receipt, late, lost, trouble>>,
         Grows(server, server'), \A e : Uploads(server', e) = Uploads(server, e),
         server'.exposure # "none", kind # "agent"
  PROVE  PublishInv'
  <1> DEFINE mem == Knows(p, "exposure")
             o == client[p].mem
  <1>1. o \in Receipt /\ Holds(o, server') /\ server'.version = o.bundle
    <2>1. CommandHolds(client[p], server') BY PublishTypes, HoldsStays
    <2> QED BY <2>1, PublishTypes DEF CommandHolds
  <1>2. mem = [o EXCEPT !.named = @ \cup {"exposure"}] BY DEF Knows
  <1> HIDE DEF mem, o
  <1>3. /\ mem \in Receipt /\ mem.content = o.content /\ mem.bundle = o.bundle
        /\ mem.named = o.named \cup {"exposure"}
    BY <1>1, <1>2 DEF Receipt
  <1>4. Holds(mem, server') BY <1>1, <1>3 DEF Holds
  <1>5. /\ mem.content = client[p].mem.content /\ mem.bundle = client[p].mem.bundle
        /\ client' = Learn(p, "idle", mem) /\ server'.version = mem.bundle
    BY <1>1, <1>3 DEF o, mem
  <1>6. "idle" \in Steps \ {"upload", "create_version"} /\ client[p].step # "idle" BY DEF Steps, Late
  <1> QED BY <1>3, <1>4, <1>5, <1>6, LearnKeeps

\* An agent publishes when its intent is activated and its release was ready.
LEMMA AgentStatusKeeps ==
  ASSUME PublishInv, NEW p \in DOMAIN dir, AgentStatus(p)
  PROVE  PublishInv'
  <1>1. /\ ~client[p].dirty /\ client[p].step = "status"
        /\ UNCHANGED <<kind, dir, source, receipt, late, server, lost, trouble>>
        /\ \/ server.intent = "activated" /\ client' = Learn(p, "idle", client[p].mem)
           \/ client' = Fail(p) \/ client' = Go(p, "wait") \/ client' = Ended(p, "release-created")
    BY DEF AgentStatus, At, Local
  <1>2. Grows(server, server') /\ (\A e : Uploads(server', e) = Uploads(server, e)) /\ trouble' \in 0 .. LastTrouble
    BY <1>1, PublishTypes DEF Grows
  <1>3. client[p].mem \in Receipt /\ CommandHolds(client[p], server') BY <1>1, PublishTypes
  <1>4. "idle" \in Steps /\ "wait" \in Steps /\ "wait" \in Late /\ "status" \in Late BY DEF Steps, Late
  <1>5. CASE server.intent = "activated" /\ client' = Learn(p, "idle", client[p].mem)
    <2>1. /\ server'.intent = "activated" /\ server'.version = client[p].mem.bundle /\ Holds(client[p].mem, server')
      BY <1>1, <1>3, <1>4, <1>5 DEF CommandHolds
    <2> QED BY <1>1, <1>2, <1>3, <1>4, <1>5, <2>1, LearnKeeps
  <1>6. CASE client' = Go(p, "wait") BY <1>1, <1>2, <1>4, <1>6, GoKeeps
  <1>7. ASSUME NEW report \in {"failed", "release-created"}, client' = Ended(p, report) PROVE PublishInv'
    BY <1>1, <1>2, <1>7, CommandEnds
  <1> QED BY <1>1, <1>5, <1>6, <1>7 DEF Fail

\* A user publishes when the ready release is exposed, or was.
LEMMA ExposuresKeep ==
  ASSUME PublishInv, NEW p \in DOMAIN dir, ListExposures(p) \/ CreateExposure(p)
  PROVE  PublishInv'
  <1>1. CASE ListExposures(p)
    <2>1. /\ ~client[p].dirty /\ client[p].step = "exposures"
          /\ UNCHANGED <<kind, dir, source, receipt, late, server, lost, trouble>>
          /\ \/ client' = Ended(p, "release-created")
             \/ server.exposure = "open" /\ client' = Learn(p, "idle", Knows(p, "exposure"))
             \/ client' = Go(p, "expose")
      BY <1>1 DEF ListExposures, Reusable, At, Local
    <2>2. /\ Grows(server, server') /\ (\A e : Uploads(server', e) = Uploads(server, e))
          /\ trouble' \in 0 .. LastTrouble /\ CommandHolds(client[p], server')
      BY <2>1, PublishTypes DEF Grows
    <2>3. /\ "expose" \in Steps /\ "expose" \in Late /\ "exposures" \in Late
          /\ kind # "agent"
      BY <2>1, <2>2 DEF Steps, Late, CommandHolds
    <2>4. CASE server.exposure = "open" /\ client' = Learn(p, "idle", Knows(p, "exposure"))
      <3>1. server'.exposure # "none" BY <2>1, <2>4
      <3> QED BY <2>1, <2>2, <2>3, <2>4, <3>1, ExposureKnown
    <2>5. CASE client' = Go(p, "expose") BY <2>1, <2>2, <2>3, <2>5, GoKeeps
    <2>6. CASE client' = Ended(p, "release-created") BY <2>1, <2>2, <2>6, CommandEnds
    <2> QED BY <2>1, <2>4, <2>5, <2>6
  <1>2. CASE CreateExposure(p)
    <2>1. /\ client[p].step = "expose" /\ At(p, RequestOf(p).op) /\ Fits(RequestOf(p))
          /\ server' \in After(RequestOf(p), server)
          /\ \/ Status(RequestOf(p), server) = 0 /\ client' = Learn(p, "idle", Knows(p, "exposure"))
             \/ client' = Ended(p, "failed")
          /\ UNCHANGED <<kind, dir, source, receipt, late, lost, trouble>>
      BY <1>2 DEF CreateExposure, Send, Fail
    <2>2. /\ ~client[p].dirty /\ client[p].step # "idle" /\ trouble' \in 0 .. LastTrouble
          /\ Grows(server, server') /\ (\A e : Uploads(server', e) = Uploads(server, e))
          /\ kind # "agent"
      BY <2>1, SendFacts, PublishTypes DEF CommandHolds
    <2>3. CASE Status(RequestOf(p), server) = 0 /\ client' = Learn(p, "idle", Knows(p, "exposure"))
      <3>1. RequestOf(p).op = "expose" BY <2>1 DEF RequestOf
      <3>2. server' = [server EXCEPT !.exposure = "open"] BY <2>1, <2>3, <3>1 DEF After, Effects
      <3>3. server'.exposure # "none" BY <3>2, PublishTypes DEF Server
      <3> QED BY <2>1, <2>2, <2>3, <3>3, ExposureKnown DEF Late
    <2>4. CASE client' = Ended(p, "failed") BY <2>1, <2>2, <2>4, CommandEnds
    <2> QED BY <2>1, <2>3, <2>4
  <1> QED BY <1>1, <1>2

\* One upload more, or none.
LEMMA OneMore ==
  ASSUME NEW S, IsFiniteSet(S), NEW x, NEW ok \in BOOLEAN
  PROVE  /\ Cardinality(S) \in Nat
         /\ Cardinality(S \cup {i \in {x} : ok}) \in Nat
         /\ Cardinality(S \cup {i \in {x} : ok}) <= Cardinality(S) + (IF ok THEN 1 ELSE 0)
  <1>1. Cardinality(S) \in Nat BY FS_CardinalityType
  <1>2. CASE ok
    <2>1. S \cup {i \in {x} : ok} = S \cup {x} BY <1>2
    <2>2. Cardinality(S \cup {x}) = IF x \in S THEN Cardinality(S) ELSE Cardinality(S) + 1 BY FS_AddElement
    <2> QED BY <1>1, <1>2, <2>1, <2>2
  <1>3. CASE ~ok
    <2> DEFINE T == S \cup {i \in {x} : ok}
               n == Cardinality(S)
    <2>1. T = S BY <1>3
    <2> HIDE DEF T
    <2>2. Cardinality(T) = n BY <2>1
    <2>3. n \in Nat BY <1>1
    <2> HIDE DEF n
    <2>4. Cardinality(T) \in Nat /\ Cardinality(T) <= n + (IF ok THEN 1 ELSE 0) BY <1>3, <2>2, <2>3
    <2> QED BY <1>1, <2>4 DEF T, n
  <1> QED BY <1>2, <1>3

\* The content is uploaded: a command that does so knew of no upload.
LEMMA UploadKeeps ==
  ASSUME PublishInv, NEW p \in DOMAIN dir, UploadContent(p)
  PROVE  PublishInv'
  <1> DEFINE r == RequestOf(p)
             o == client[p].mem
             d == dir[p]
             id == Len(server.contents) + 1
             mem == [o EXCEPT !.content = id]
  <1>1. /\ client[p].step = "upload" /\ ~client[p].dirty /\ Fits(r) /\ server' \in After(r, server)
        /\ \/ Status(r, server) = 0 /\ client' = Learn(p, "create_version", mem)
           \/ Status(r, server) # 0 /\ client' = Ended(p, "failed")
        /\ UNCHANGED <<kind, dir, source, receipt, late, lost, trouble>>
    BY DEF UploadContent, Send, Fail, At
  <1>2. /\ r \in Request /\ r.op = "upload" /\ r.bundle = o.bundle /\ r.by = d
        /\ Grows(server, server')
    BY <1>1, SendGrows
  <1>3. server \in Server /\ o \in Receipt /\ CommandHolds(client[p], server') /\ trouble' \in 0 .. LastTrouble
        /\ d \in Dirs /\ (receipt[d] # None => Holds(receipt[d], server'))
    BY <1>1, <1>2, PublishTypes, HoldsStays
  <1>4. CASE Status(r, server) # 0 /\ client' = Ended(p, "failed")
    <2>1. server' = server BY <1>1, <1>4 DEF After
    <2> QED BY <1>1, <1>2, <1>3, <1>4, <2>1, CommandEnds
  <1>5. CASE Status(r, server) = 0 /\ client' = Learn(p, "create_version", mem)
    <2> DEFINE k == [bundle |-> r.bundle, by |-> r.by, state |-> "validated"]
    <2>1. k \in Content /\ k.by = d /\ k.bundle = o.bundle BY <1>2 DEF Content, Request
    <2>2. server' = [server EXCEPT !.contents = Append(@, k)] BY <1>1, <1>2, <1>5 DEF After, Effects
    <2>3. Len(server.contents) < MaxContents BY <1>1, <1>2 DEF Fits
    <2> HIDE DEF k
    <2>4. /\ id \in DOMAIN server'.contents /\ server'.contents[id] = k
          /\ \A e : Uploads(server', e) = Uploads(server, e) \cup {i \in {id} : k.by = e}
      BY <1>3, <2>1, <2>2, <2>3, UploadGrows
    <2>5. id \in 0 .. MaxContents /\ id # 0
      <3> DEFINE n == Len(server.contents)
      <3>1. n \in Nat /\ n < MaxContents BY <1>3, <2>3, ServerFields
      <3> HIDE DEF n
      <3>2. n + 1 \in 0 .. MaxContents /\ n + 1 # 0 BY <3>1, PublishAssumption
      <3> QED BY <3>2 DEF n
    <2> HIDE DEF id, o, r
    <2>6. mem \in Receipt /\ mem.content = id /\ mem.bundle = o.bundle /\ mem.named = o.named
      BY <1>3, <2>5 DEF Receipt
    <2> HIDE DEF mem
    <2>7. Holds(mem, server')
      <3>1. Holds(o, server') BY <1>3 DEF CommandHolds, o
      <3> QED BY <2>1, <2>4, <2>6, <3>1 DEF Holds
    <2>8. "create_version" \in Steps BY DEF Steps
    <2>9. PICK c \in Client :
             /\ Learn(p, "create_version", mem) = [client EXCEPT ![p] = c]
             /\ c.step = "create_version" /\ c.mem = mem /\ c.dirty /\ c.wait = client[p].wait
             /\ c.seen = client[p].seen /\ c.report = client[p].report
      <3>1. ASSUME NEW m \in Receipt
            PROVE  \E c \in Client :
                      /\ Learn(p, "create_version", m) = [client EXCEPT ![p] = c]
                      /\ c.step = "create_version" /\ c.mem = m /\ c.dirty /\ c.wait = client[p].wait
                      /\ c.seen = client[p].seen /\ c.report = client[p].report
        BY <2>8, LearnIs
      <3> QED BY <2>6, <3>1
    <2>10. CommandHolds(c, server')
      <3>1. c.report = "published" =>
              server'.version = o.bundle /\ (kind = "agent" => server'.intent = "activated")
        BY <1>3, <2>9 DEF CommandHolds, o
      <3> QED BY <2>6, <2>7, <2>9, <3>1 DEF CommandHolds, Concludes, Late
    <2>11. \A e \in Dirs \ {d} : Uploads(server', e) = Uploads(server, e)
      BY <2>1, <2>4
    <2>12. client' = [client EXCEPT ![p] = c] /\ client'[p] = c
      BY <1>5, <2>9, PublishTypes
    <2>13. ASSUME Alone(p) PROVE KnowsUpload(c, receipt[d]) /\ UploadsCounted(p)'
      <3>1. KnowsUpload(client[p], receipt[d]) /\ UploadsCounted(p) BY <2>13 DEF PublishInv, UploadsInv
      <3>2. client[p].mem.content = 0 /\ ~KeepsId(receipt[d]) BY <1>1, <3>1 DEF KnowsUpload
      <3>3. KnowsUpload(c, receipt[d]) BY <2>5, <2>6, <2>9 DEF KnowsUpload
      <3> DEFINE S == Uploads(server, d)
                 n == Cardinality(S)
                 n1 == Cardinality(Uploads(server', d))
                 l == Cardinality(LateUploads(late, d))
                 z == lost[d]
      <3>4. /\ IsFiniteSet(S) /\ n \in Nat /\ l \in Nat /\ z \in Nat
        BY <1>3, PublishTypes, UploadsFinite
      <3>5. n1 \in Nat /\ n1 <= n + 1
        <4>1. Uploads(server', d) = S \cup {i \in {id} : TRUE} BY <2>1, <2>4
        <4> HIDE DEF S
        <4> QED BY <3>4, <4>1, OneMore
      <3>6. n + l <= z BY <3>1, <3>2, <3>4 DEF UploadsCounted
      <3> HIDE DEF S, n, n1, l, z
      <3>7. n1 + l <= z + 1 BY <3>4, <3>5, <3>6
      <3>8. UploadsCounted(p)'
        <4>1. client'[p].mem.content # 0 BY <2>5, <2>6, <2>9, <2>12
        <4> QED BY <1>1, <3>7, <4>1 DEF UploadsCounted, n1, l, z
      <3> QED BY <3>3, <3>8
    <2>14. /\ late' \subseteq Request /\ IsFiniteSet(late') /\ lost' \in [Dirs -> Nat]
           /\ receipt' \in [Dirs -> Receipt \cup {None}]
      BY <1>1, PublishTypes
    <2> QED BY <1>1, <1>2, <1>3, <2>10, <2>11, <2>12, <2>13, <2>14, StepKeeps
  <1> QED BY <1>1, <1>4, <1>5

\* The process dies, or gives up on a request that may still arrive.
LEMMA StopsKeep ==
  ASSUME PublishInv, NEW p \in DOMAIN dir, Crash(p) \/ GiveUp(p)
  PROVE  PublishInv'
  <1> DEFINE d == dir[p]
             r == RequestOf(p)
             mem == NewReceipt(client[p].mem.bundle)
             c == [step |-> "idle", mem |-> mem, wait |-> FALSE, dirty |-> FALSE, seen |-> "none", report |-> "failed"]
             unsaved == client[p].step = "create_version" /\ client[p].dirty
             asked == client[p].step = "upload" /\ ~client[p].dirty
  <1>1. /\ client' = [client EXCEPT ![p] = c] /\ UNCHANGED <<kind, dir, source, receipt, server>>
        /\ trouble' = trouble + 1 /\ trouble < LastTrouble
    BY DEF Crash, GiveUp, Fail, Ended, Trouble
  <1>2. trouble' \in 0 .. LastTrouble BY <1>1, PublishTypes, PublishAssumption
  <1>3. mem \in Receipt /\ mem.content = 0 /\ mem.named = {} BY PublishTypes, PublishAssumption DEF NewReceipt, Receipt
  <1> HIDE DEF mem
  <1>4. c \in Client BY <1>3 DEF Client, Steps
  <1>5. c.step = "idle" /\ ~c.dirty /\ c.mem = mem /\ c.seen = "none" /\ c.report # "published" OBVIOUS
  <1> HIDE DEF c
  <1>6. CommandHolds(c, server') BY <1>3, <1>5 DEF CommandHolds, Concludes, Holds, Late
  <1>7. KnowsUpload(c, receipt[d]) BY <1>3, <1>5 DEF KnowsUpload
  <1>8. Grows(server, server') BY <1>1, PublishTypes DEF Grows
  <1>9. d \in Dirs /\ lost \in [Dirs -> Nat] BY PublishTypes
  <1>10. /\ lost' \in [Dirs -> Nat] /\ \A e \in Dirs \ {d} : lost'[e] = lost[e]
         /\ late' \subseteq Request /\ IsFiniteSet(late')
         /\ \A e \in Dirs \ {d} : LateUploads(late', e) = LateUploads(late, e)
         /\ \/ /\ ~unsaved /\ late' = late /\ lost'[d] = lost[d]
            \/ /\ unsaved /\ late' = late /\ lost'[d] = lost[d] + 1
            \/ /\ asked /\ late' = late \cup {r} /\ lost'[d] = lost[d] + 1
            \/ /\ ~asked /\ ~unsaved /\ LateUploads(late', d) = LateUploads(late, d) /\ lost'[d] = lost[d]
    <2>1. CASE Crash(p)
      <3>1. late' = late /\ lost' = IF unsaved THEN [lost EXCEPT ![d] = @ + 1] ELSE lost BY <2>1 DEF Crash
      <3>2. late \subseteq Request /\ IsFiniteSet(late) BY PublishTypes
      <3> QED BY <1>9, <3>1, <3>2
    <2>2. CASE GiveUp(p)
      <3>1. /\ r \in Request /\ late' = late \cup {r} /\ ~client[p].dirty
            /\ lost' = IF r.op = "upload" THEN [lost EXCEPT ![d] = @ + 1] ELSE lost
        BY <2>2 DEF GiveUp, At
      <3>2. r.op = client[p].step /\ r.by = d BY DEF RequestOf
      <3>3. late' \subseteq Request /\ IsFiniteSet(late')
        <4>1. late \subseteq Request /\ IsFiniteSet(late) BY PublishTypes
        <4> HIDE DEF r
        <4> QED BY <3>1, <4>1, FS_AddElement
      <3>4. \A e \in Dirs \ {d} : LateUploads(late', e) = LateUploads(late, e)
        <4> HIDE DEF r
        <4> QED BY <3>1, <3>2 DEF LateUploads
      <3>5. r.op # "upload" => LateUploads(late', d) = LateUploads(late, d)
        <4> HIDE DEF r
        <4> QED BY <3>1, <3>2 DEF LateUploads
      <3> HIDE DEF r
      <3>6. CASE r.op = "upload" BY <1>9, <3>1, <3>2, <3>3, <3>4, <3>6
      <3>7. CASE r.op # "upload" BY <1>9, <3>1, <3>2, <3>3, <3>4, <3>5, <3>7
      <3> QED BY <3>6, <3>7
    <2> QED BY <2>1, <2>2
  <1>11. ASSUME Alone(p) PROVE UploadsCounted(p)'
    <2>1. KnowsUpload(client[p], receipt[d]) /\ UploadsCounted(p) BY <1>11 DEF PublishInv, UploadsInv
    <2> DEFINE n == Cardinality(Uploads(server, d))
               l == Cardinality(LateUploads(late, d))
               l1 == Cardinality(LateUploads(late', d))
               z == lost[d]
               z1 == lost'[d]
               known == KeepsId(receipt[d]) \/ client[p].mem.content # 0
               kept == KeepsId(receipt[d])
    <2>2. n \in Nat /\ l \in Nat /\ l1 \in Nat /\ z \in Nat /\ z1 \in Nat
      BY <1>9, <1>10, PublishTypes, UploadsFinite
    <2>3. n + l <= z + IF known THEN 1 ELSE 0 BY <2>1 DEF UploadsCounted
    <2>4. kept => known OBVIOUS
    <2>5. ~unsaved => (known => kept)
      BY <2>1 DEF KnowsUpload
    <2>6. \/ ~unsaved /\ l1 = l /\ z1 = z
          \/ l1 = l /\ z1 = z + 1
          \/ ~unsaved /\ l1 <= l + 1 /\ z1 = z + 1
      <3>1. CASE asked /\ late' = late \cup {r} /\ lost'[d] = lost[d] + 1
        <4>1. ~unsaved BY <3>1
        <4>2. l1 <= l + 1
          <5>1. LateUploads(late', d) = LateUploads(late, d) \cup {i \in {r} : r.op = "upload" /\ r.by = d}
            <6> HIDE DEF r
            <6> QED BY <3>1 DEF LateUploads
          <5> DEFINE ok == r.op = "upload" /\ r.by = d
                     S == LateUploads(late, d)
          <5>2. ok \in BOOLEAN /\ IsFiniteSet(S) BY PublishTypes, UploadsFinite
          <5>3. LateUploads(late', d) = S \cup {i \in {r} : ok} BY <5>1
          <5> HIDE DEF ok, S, r
          <5>4. Cardinality(S \cup {i \in {r} : ok}) <= Cardinality(S) + (IF ok THEN 1 ELSE 0) BY <5>2, OneMore
          <5>5. l1 <= Cardinality(S) + (IF ok THEN 1 ELSE 0) BY <5>3, <5>4
          <5>6. Cardinality(S) = l BY DEF S
          <5> HIDE DEF l, l1
          <5> QED BY <2>2, <5>5, <5>6
        <4> QED BY <3>1, <4>1, <4>2
      <3>2. CASE ~(asked /\ late' = late \cup {r} /\ lost'[d] = lost[d] + 1)
        BY <1>10, <3>2
      <3> QED BY <3>1, <3>2
    <2> HIDE DEF n, l, l1, z, z1, known, kept, unsaved
    <2>7. n + l1 <= z1 + IF kept THEN 1 ELSE 0 BY <2>2, <2>3, <2>4, <2>5, <2>6
    <2>8. client'[p].mem.content = 0 /\ dir' = dir /\ receipt' = receipt /\ server' = server
      BY <1>1, <1>3, <1>5, PublishTypes
    <2> QED BY <2>7, <2>8 DEF UploadsCounted, n, l1, z1, kept
  <1>12. \A e \in Dirs \ {d} : receipt'[e] = receipt[e] /\ Uploads(server', e) = Uploads(server, e)
    BY <1>1
  <1>13. receipt' \in [Dirs -> Receipt \cup {None}] /\ (receipt'[d] # None => Holds(receipt'[d], server'))
    BY <1>1, <1>9, PublishTypes
  <1>14. KnowsUpload(c, receipt'[d]) BY <1>1, <1>7
  <1> HIDE DEF unsaved, asked, r
  <1> QED BY <1>1, <1>2, <1>4, <1>6, <1>8, <1>10, <1>11, <1>12, <1>13, <1>14, StepKeeps

-------------------------------------------------------------------------------
(* Everything else *)

\* A late request arrives: what was counted as late is now made.
LEMMA DeliverKeeps ==
  ASSUME PublishInv, Deliver
  PROVE  PublishInv'
  <1>1. PICK r \in late : /\ Fits(r) /\ late' = late \ {r} /\ server' \in After(r, server)
                          /\ UNCHANGED <<kind, dir, source, receipt, client, lost, trouble>>
    BY DEF Deliver
  <1>2. r \in Request /\ server \in Server /\ IsFiniteSet(late) /\ late \subseteq Request BY PublishTypes
  <1> DEFINE n == Len(server.contents)
             ok(d) == r.op = "upload" /\ Status(r, server) = 0 /\ r.by = d
  <1>3. /\ Grows(server, server')
        /\ \A d : Uploads(server', d) = Uploads(server, d) \cup {i \in {n + 1} : ok(d)}
    BY <1>1, <1>2, PublishTypes, RequestGrows DEF Fits
  <1>4. server' \in Server BY <1>3 DEF Grows
  <1>5. late' \subseteq Request /\ IsFiniteSet(late') BY <1>1, <1>2, FS_Subset
  <1>6. ASSUME NEW d \in Dirs
        PROVE  Cardinality(Uploads(server', d)) + Cardinality(LateUploads(late', d))
                 <= Cardinality(Uploads(server, d)) + Cardinality(LateUploads(late, d))
    <2> DEFINE S == Uploads(server, d)
               S1 == Uploads(server', d)
               L == LateUploads(late, d)
               L1 == LateUploads(late', d)
    <2>1. /\ IsFiniteSet(S) /\ Cardinality(S) \in Nat /\ IsFiniteSet(L) /\ Cardinality(L) \in Nat
          /\ Cardinality(S1) \in Nat /\ Cardinality(L1) \in Nat
      BY <1>2, <1>4, <1>5, UploadsFinite
    <2>2. CASE r.op = "upload" /\ r.by = d
      <3>1. L1 = L \ {r} /\ r \in L BY <1>1, <2>2 DEF LateUploads
      <3> HIDE DEF L, L1
      <3>2. Cardinality(L1) = Cardinality(L) - 1 BY <2>1, <3>1, FS_RemoveElement
      <3>3. Cardinality(S1) <= Cardinality(S) + 1
        <4> DEFINE x == n + 1
                   b == ok(d)
        <4>1. S1 = S \cup {i \in {x} : b} /\ b \in BOOLEAN BY <1>3
        <4> HIDE DEF x, b, S, S1
        <4>2. Cardinality(S1) <= Cardinality(S) + (IF b THEN 1 ELSE 0) BY <2>1, <4>1, OneMore
        <4> QED BY <2>1, <4>1, <4>2
      <3> DEFINE k == Cardinality(S)  k1 == Cardinality(S1)  m == Cardinality(L)  m1 == Cardinality(L1)
      <3>4. k \in Nat /\ k1 \in Nat /\ m \in Nat /\ m1 \in Nat /\ m1 = m - 1 /\ k1 <= k + 1
        BY <2>1, <3>2, <3>3
      <3> HIDE DEF k, k1, m, m1, S, S1
      <3>5. k1 + m1 <= k + m BY <3>4
      <3> QED BY <3>5 DEF k, k1, m, m1, S, S1, L, L1
    <2>3. CASE ~(r.op = "upload" /\ r.by = d)
      <3>1. L1 = L BY <1>1, <2>3 DEF LateUploads
      <3>2. S1 = S BY <1>3, <2>3
      <3> DEFINE k == Cardinality(S)  m == Cardinality(L)
      <3>3. Cardinality(S1) = k /\ Cardinality(L1) = m BY <3>1, <3>2
      <3>4. k \in Nat /\ m \in Nat BY <2>1
      <3> HIDE DEF k, m, S, S1, L, L1
      <3>5. k + m <= k + m BY <3>4
      <3>6. Cardinality(S1) + Cardinality(L1) <= Cardinality(S) + Cardinality(L) BY <3>3, <3>5 DEF k, m
      <3> QED BY <3>6 DEF S, S1, L, L1
    <2> QED BY <2>2, <2>3
  <1> QED BY <1>1, <1>3, <1>5, <1>6, PublishTypes, ServerKeeps

\* The server changes by itself, or a directory does; no upload is made.
LEMMA ElsewhereKeeps ==
  ASSUME PublishInv, UNCHANGED <<kind, dir, receipt, client, late, lost>>, source' \in [Dirs -> Bundles],
         trouble' \in 0 .. LastTrouble, Grows(server, server'), \A d : Uploads(server', d) = Uploads(server, d)
  PROVE  PublishInv'
  <1>1. ASSUME NEW d \in Dirs
        PROVE  Cardinality(Uploads(server', d)) + Cardinality(LateUploads(late', d))
                 <= Cardinality(Uploads(server, d)) + Cardinality(LateUploads(late, d))
    <2> DEFINE k == Cardinality(Uploads(server, d))  m == Cardinality(LateUploads(late, d))
    <2>1. k \in Nat /\ m \in Nat BY PublishTypes, UploadsFinite
    <2>2. Cardinality(Uploads(server', d)) = k /\ Cardinality(LateUploads(late', d)) = m OBVIOUS
    <2> HIDE DEF k, m
    <2>3. k + m <= k + m BY <2>1
    <2> QED BY <2>2, <2>3 DEF k, m
  <1> QED BY <1>1, PublishTypes, ServerKeeps

\* The worker's steps, the clock's and other people's.
Surroundings ==
    Materialize \/ MaterializeFails \/ MaterializeRetried \/ JobAbandoned \/ Expire \/ Archive \/ Revoke \/ Edit

\* They keep the invariant.
LEMMA SurroundingsKeep ==
  ASSUME PublishInv, Surroundings
  PROVE  PublishInv'
  <1>1. trouble' \in 0 .. LastTrouble
    <2>1. trouble \in 0 .. LastTrouble /\ LastTrouble \in Nat BY PublishTypes, PublishAssumption
    <2>2. CASE Materialize
      <3>1. trouble' = trouble BY <2>2 DEF Materialize
      <3> QED BY <2>1, <3>1
    <2>3. CASE ~Materialize
      <3>1. Trouble
        BY <2>3 DEF Surroundings, MaterializeFails, MaterializeRetried, JobAbandoned, Expire, Archive, Revoke, Edit
      <3>2. trouble < LastTrouble /\ trouble' = trouble + 1 BY <3>1 DEF Trouble
      <3> QED BY <2>1, <3>2
    <2> QED BY <2>2, <2>3
  <1>2. server \in Server /\ source \in [Dirs -> Bundles] BY PublishTypes
  <1>3. UNCHANGED <<kind, dir, receipt, client, late, lost>>
    BY DEF Surroundings, Materialize, MaterializeFails, MaterializeRetried, JobAbandoned, Expire, Archive, Revoke, Edit
  <1>4. source' \in [Dirs -> Bundles]
    BY <1>2, PublishTypes
       DEF Surroundings, Materialize, MaterializeFails, MaterializeRetried, JobAbandoned, Expire, Archive, Revoke, Edit
  <1>5. CASE Edit
    <2>1. server' = server BY <1>5 DEF Edit
    <2>2. Grows(server, server') /\ \A d : Uploads(server', d) = Uploads(server, d)
      BY <1>2, <2>1 DEF Grows
    <2> QED BY <1>1, <1>3, <1>4, <2>2, ElsewhereKeeps
  <1>6. ASSUME server' \in Server, server'.version = server.version, server'.contents = server.contents,
               server.exposure # "none" => server'.exposure # "none",
               server.intent = "activated" => server'.intent = "activated"
        PROVE  PublishInv'
    <2>1. Grows(server, server') /\ \A d : Uploads(server', d) = Uploads(server, d)
      BY <1>2, <1>6, OtherGrows
    <2> QED BY <1>1, <1>3, <1>4, <2>1, ElsewhereKeeps
  <1>7. server.jobs > 0 => server.jobs - 1 \in 0 .. MaxJobs BY <1>2, PublishAssumption DEF Server
  <1>8. CASE Materialize
    <2>1. PICK s \in Settled(server) : server' = [s EXCEPT !.jobs = @ - 1] BY <1>8 DEF Materialize
    <2>2. /\ s \in Server /\ s.version = server.version /\ s.contents = server.contents
          /\ s.jobs = server.jobs /\ server.jobs > 0
          /\ server.exposure # "none" => s.exposure # "none"
          /\ server.intent = "activated" => s.intent = "activated"
      BY <1>2, <1>8, FlushedIs DEF Materialize
    <2>3. /\ server' \in Server /\ server'.version = s.version /\ server'.contents = s.contents
          /\ server'.exposure = s.exposure /\ server'.intent = s.intent
      BY <1>7, <2>1, <2>2 DEF Server
    <2> QED BY <1>6, <2>2, <2>3
  <1>9. CASE MaterializeFails
    <2>1. PICK s \in Flushed(server) : server' = [s EXCEPT !.jobs = @ - 1, !.release = "failed"]
      BY <1>9 DEF MaterializeFails
    <2>2. /\ s \in Server /\ s.version = server.version /\ s.contents = server.contents
          /\ s.jobs = server.jobs /\ server.jobs > 0
          /\ server.exposure # "none" => s.exposure # "none"
          /\ server.intent = "activated" => s.intent = "activated"
      BY <1>2, <1>9, FlushedIs DEF MaterializeFails
    <2>3. /\ server' \in Server /\ server'.version = s.version /\ server'.contents = s.contents
          /\ server'.exposure = s.exposure /\ server'.intent = s.intent
      BY <1>7, <2>1, <2>2 DEF Server
    <2> QED BY <1>6, <2>2, <2>3
  <1>13. CASE MaterializeRetried
    <2>1. server' \in Flushed(server) BY <1>13 DEF MaterializeRetried
    <2> QED BY <1>2, <1>6, <2>1, FlushedIs
  <1>14. CASE JobAbandoned
    <2>1. server.jobs > 0 /\ server' = [server EXCEPT !.jobs = @ - 1] BY <1>14 DEF JobAbandoned
    <2>2. /\ server' \in Server /\ server'.version = server.version /\ server'.contents = server.contents
          /\ server'.exposure = server.exposure /\ server'.intent = server.intent
      BY <1>2, <1>7, <2>1 DEF Server
    <2> QED BY <1>6, <2>2
  <1>10. CASE Archive
    <2>1. server' = [server EXCEPT !.archived = TRUE] BY <1>10 DEF Archive
    <2>2. /\ server' \in Server /\ server'.version = server.version /\ server'.contents = server.contents
          /\ server'.exposure = server.exposure /\ server'.intent = server.intent
      BY <1>2, <2>1 DEF Server
    <2> QED BY <1>6, <2>2
  <1>11. CASE Revoke
    <2>1. server' = [server EXCEPT !.exposure = "closed"] BY <1>11 DEF Revoke
    <2>2. /\ server' \in Server /\ server'.version = server.version /\ server'.contents = server.contents
          /\ server'.exposure = "closed" /\ server'.intent = server.intent
      BY <1>2, <2>1 DEF Server
    <2> QED BY <1>6, <2>2
  <1>12. CASE Expire
    <2>1. PICK i \in Pending(server) : server' = [server EXCEPT !.contents[i].state = "expired"]
      BY <1>12 DEF Expire
    <2>2. i \in DOMAIN server.contents BY <2>1 DEF Pending
    <2>3. Grows(server, server') /\ \A d : Uploads(server', d) = Uploads(server, d)
      BY <1>2, <2>1, <2>2, ContentChanges
    <2> QED BY <1>1, <1>3, <1>4, <2>3, ElsewhereKeeps
  <1> QED BY <1>5, <1>8, <1>9, <1>10, <1>11, <1>12, <1>13, <1>14 DEF Surroundings

\* Before any command has run.
LEMMA InitPublishInv == PublishInit => PublishInv
  <1> SUFFICES ASSUME PublishInit PROVE PublishInv
    OBVIOUS
  <1>1. /\ kind \in {"user", "agent"} /\ dir \in Working /\ source \in [Dirs -> Bundles]
        /\ receipt = [d \in Dirs |-> None] /\ late = {} /\ server = EmptyServer /\ lost = [d \in Dirs |-> 0]
        /\ trouble \in 0 .. LastTrouble
        /\ client = [p \in DOMAIN dir |->
                       [step |-> "idle", mem |-> NewReceipt(source[dir[p]]), wait |-> FALSE,
                        dirty |-> FALSE, seen |-> "none", report |-> "none"]]
    BY DEF PublishInit
  <1>2. PICK ps \in SUBSET Publishers : dir \in [ps -> Dirs] BY <1>1 DEF Working
  <1>3. ASSUME NEW p \in DOMAIN dir
        PROVE  /\ dir[p] \in Dirs /\ client[p] \in Client /\ CommandHolds(client[p], server)
               /\ client[p].step = "idle" /\ client[p].dirty = FALSE /\ client[p].mem.content = 0
    <2> DEFINE mem == NewReceipt(source[dir[p]])
    <2>1. dir[p] \in Dirs /\ source[dir[p]] \in Bundles BY <1>1, <1>2
    <2>2. mem \in Receipt /\ mem.content = 0 /\ mem.named = {}
      BY <2>1, PublishAssumption DEF NewReceipt, Receipt
    <2>3. client[p] = [step |-> "idle", mem |-> mem, wait |-> FALSE, dirty |-> FALSE, seen |-> "none",
                       report |-> "none"]
      BY <1>1
    <2> HIDE DEF mem
    <2> QED BY <2>1, <2>2, <2>3 DEF Client, Steps, CommandHolds, Concludes, Holds, Late
  <1>4. server \in Server /\ server.contents = <<>>
    <2>1. <<>> \in UNION {[1 .. n -> Content] : n \in 0 .. MaxContents}
      <3>1. <<>> \in Seq(Content) /\ Len(<<>>) <= MaxContents BY PublishAssumption
      <3> QED BY <3>1, ContentsAreSeq
    <2>2. 0 \in 0 .. MaxJobs BY PublishAssumption
    <2> QED BY <1>1, <2>1, <2>2 DEF EmptyServer, Server
  <1>5. IsFiniteSet(late) BY <1>1, FS_EmptySet
  <1>6. StateTypes
    <2>1. client \in [DOMAIN dir -> Client] BY <1>1, <1>3
    <2> QED BY <1>1, <1>4, <2>1 DEF StateTypes
  <1>7. CommandsInv BY <1>3 DEF CommandsInv
  <1>8. ReceiptIsTrue BY <1>1 DEF ReceiptIsTrue
  <1>9. UploadsInv
    <2>1. ASSUME NEW p \in DOMAIN dir
          PROVE  KnowsUpload(client[p], receipt[dir[p]]) /\ UploadsCounted(p)
      <3>1. KnowsUpload(client[p], receipt[dir[p]]) BY <1>3 DEF KnowsUpload
      <3>2. Uploads(server, dir[p]) = {} BY <1>4 DEF Uploads
      <3>3. LateUploads(late, dir[p]) = {} BY <1>1 DEF LateUploads
      <3>4. lost[dir[p]] = 0 /\ ~KeepsId(receipt[dir[p]]) /\ client[p].mem.content = 0
        BY <1>1, <1>3 DEF KeepsId
      <3>5. Cardinality(Uploads(server, dir[p])) = 0 /\ Cardinality(LateUploads(late, dir[p])) = 0
        BY <3>2, <3>3, FS_EmptySet
      <3> QED BY <3>1, <3>4, <3>5 DEF UploadsCounted
    <2> QED BY <2>1 DEF UploadsInv
  <1> QED BY <1>5, <1>6, <1>7, <1>8, <1>9 DEF PublishInv

\* Every step keeps the invariant.
LEMMA PublishKeeps == PublishInv /\ [PublishNext]_publishVars => PublishInv'
  <1> SUFFICES ASSUME PublishInv, [PublishNext]_publishVars PROVE PublishInv'
    OBVIOUS
  <1>1. ASSUME NEW p \in DOMAIN dir, Step(p) PROVE PublishInv'
    BY <1>1, SaveKeeps, ListsKeep, CreateSkillKeeps, UploadKeeps, CreateVersionKeeps, CreateReleaseKeeps,
       WaitKeeps, AgentStatusKeeps, ExposuresKeep
       DEF Step
  <1>2. ASSUME NEW p \in DOMAIN dir, Crash(p) \/ GiveUp(p) PROVE PublishInv'
    BY <1>2, StopsKeep
  <1>3. ASSUME NEW p \in DOMAIN dir, NEW resume \in BOOLEAN, NEW wait \in BOOLEAN, Start(p, resume, wait)
        PROVE  PublishInv'
    BY <1>3, StartKeeps
  <1>4. CASE Deliver BY <1>4, DeliverKeeps
  <1>5. CASE Surroundings BY <1>5, SurroundingsKeep
  <1>6. CASE UNCHANGED publishVars
    BY <1>6 DEF publishVars, PublishInv, StateTypes, CommandsInv, CommandHolds, Concludes, Holds, ReceiptIsTrue,
                UploadsInv, UploadsCounted, Alone
  <1> QED BY <1>1, <1>2, <1>3, <1>4, <1>5, <1>6 DEF PublishNext, PublishStep, Surroundings

\* The inductive invariant of publishing.
THEOREM PublishInvariant == PublishSpec => []PublishInv
  BY InitPublishInv, PublishKeeps, PTL DEF PublishSpec

\* A directory with one publisher: its uploads are counted.
LEMMA UploadsAreOnce == PublishInv => UploadedOnce
  <1> SUFFICES ASSUME PublishInv, NEW d \in Dirs, Cardinality({p \in DOMAIN dir : dir[p] = d}) = 1
               PROVE  Cardinality({i \in DOMAIN server.contents : server.contents[i].by = d}) <= 1 + lost[d]
    BY DEF UploadedOnce
  <1> DEFINE P == {p \in DOMAIN dir : dir[p] = d}
  <1>1. P \subseteq Publishers BY PublishTypes
  <1>2. IsFiniteSet(P) BY <1>1, PublishAssumption, FS_Subset
  <1>3. PICK p : P = {p}
    <2>1. Cardinality(P) = 1 OBVIOUS
    <2> HIDE DEF P
    <2> QED BY <1>2, <2>1, FS_Singleton
  <1>4. p \in DOMAIN dir /\ dir[p] = d /\ Alone(p) BY <1>3 DEF Alone
  <1>5. UploadsCounted(p) BY <1>4 DEF PublishInv, UploadsInv
  <1> DEFINE n == Cardinality(Uploads(server, d))
             l == Cardinality(LateUploads(late, d))
             z == lost[d]
             one == IF KeepsId(receipt[d]) \/ client[p].mem.content # 0 THEN 1 ELSE 0
  <1>6. n \in Nat /\ l \in Nat /\ z \in Nat /\ one \in {0, 1} BY PublishTypes, UploadsFinite
  <1>7. n + l <= z + one BY <1>4, <1>5 DEF UploadsCounted
  <1>8. Uploads(server, d) = {i \in DOMAIN server.contents : server.contents[i].by = d} BY DEF Uploads
  <1> HIDE DEF n, l, z, one
  <1>9. n <= 1 + z BY <1>6, <1>7
  <1> QED BY <1>8, <1>9 DEF n, z

-------------------------------------------------------------------------------
(* What others saw while a user's command ran *)

\* A user's command has seen the ready release.
Exposing(c) == c.step = "exposures" /\ c.seen = "ready"

\* An exposure that is open now was opened while the release was ready, and a
\* command that already knew of the ready release saw that.
ShownInv ==
    /\ shown \subseteq DOMAIN dir
    /\ kind = "user" =>
         /\ server.intent = "none"
         /\ \A p \in DOMAIN dir :
              /\ Exposing(client[p]) /\ p \notin shown => server.exposure # "open"
              /\ Concludes(client[p]) \/ client[p].report = "published" => p \in shown

\* A user's release is exposed by a request that finds it ready.
LEMMA RequestExposes ==
  ASSUME NEW s \in Server, NEW r \in Request, kind = "user", s.intent = "none", NEW t \in After(r, s)
  PROVE  /\ t.intent = "none"
         /\ t.exposure = "open" => s.exposure = "open" \/ Visible(t)
         /\ Status(r, s) = 0 /\ r.op = "expose" => Visible(t)
         /\ r.op = "release" /\ Answered(s) = "ready" => t.release = "ready"
  <1>1. CASE Status(r, s) # 0
    <2>1. t = s /\ r.op # "release" BY <1>1 DEF After, Status
    <2> QED BY <1>1, <2>1
  <1>2. CASE Status(r, s) = 0 /\ r.op = "create_skill"
    <2>1. t = [s EXCEPT !.skill = TRUE] BY <1>2 DEF After, Effects
    <2> QED BY <1>2, <2>1 DEF Server
  <1>3. CASE Status(r, s) = 0 /\ r.op = "upload"
    <2> DEFINE c == [bundle |-> r.bundle, by |-> r.by, state |-> "validated"]
               q == Append(s.contents, c)
    <2>1. t = [s EXCEPT !.contents = q] BY <1>3 DEF After, Effects
    <2> HIDE DEF q
    <2>2. t.intent = s.intent /\ t.exposure = s.exposure BY <2>1 DEF Server
    <2> QED BY <1>3, <2>2
  <1>4. CASE Status(r, s) = 0 /\ r.op = "create_version"
    <2> DEFINE i == r.content
               b == s.contents[i].bundle
               q == [s.contents EXCEPT ![i].state = "consumed"]
    <2>1. t = [s EXCEPT !.version = b, !.contents[i].state = "consumed"] BY <1>4 DEF After, Effects
    <2>2. t = [s EXCEPT !.version = b, !.contents = q] BY <2>1 DEF Server
    <2> HIDE DEF q, b
    <2>3. t.intent = s.intent /\ t.exposure = s.exposure BY <2>2 DEF Server
    <2> QED BY <1>4, <2>3
  <1>5. CASE Status(r, s) = 0 /\ r.op = "release"
    <2>1. t \in Released(s) BY <1>5 DEF After, Effects
    <2> DEFINE rel == Answered(s)
               known == [s EXCEPT !.release = rel]
    <2>2. PICK n : t = [known EXCEPT !.jobs = n] BY <2>1 DEF Released
    <2> HIDE DEF rel
    <2>3. t.intent = s.intent /\ t.exposure = s.exposure /\ t.release = rel BY <2>2 DEF Server
    <2> QED BY <1>5, <2>3 DEF rel
  <1>6. CASE Status(r, s) = 0 /\ r.op = "expose"
    <2>1. t = [s EXCEPT !.exposure = "open"] BY <1>6 DEF After, Effects
    <2>2. s.release = "ready" BY <1>6 DEF Status
    <2>3. t.exposure = "open" /\ t.release = "ready" /\ t.intent = "none" BY <2>1, <2>2 DEF Server
    <2> QED BY <1>6, <2>3 DEF Visible
  <1>7. r.op \in {"create_skill", "upload", "create_version", "release", "expose"} BY DEF Request
  <1> QED BY <1>1, <1>2, <1>3, <1>4, <1>5, <1>6, <1>7

\* A command's request is one of the server's.
LEMMA SendExposes ==
  ASSUME PublishInv, kind = "user", server.intent = "none", NEW p \in DOMAIN dir,
         client[p].step \in {"create_skill", "upload", "create_version", "release", "expose"},
         server' \in After(RequestOf(p), server)
  PROVE  /\ server'.intent = "none"
         /\ server'.exposure = "open" => server.exposure = "open" \/ Visible(server')
         /\ client[p].step = "expose" /\ Status(RequestOf(p), server) = 0 => Visible(server')
         /\ client[p].step = "release" /\ Answered(server) = "ready" => server'.release = "ready"
  <1> DEFINE r == RequestOf(p)
  <1>1. r \in Request
    <2>1. client[p].mem.bundle \in Bundles /\ client[p].mem.content \in 0 .. MaxContents BY PublishTypes DEF Receipt
    <2> QED BY <2>1, PublishTypes DEF RequestOf, Request
  <1>2. r.op = client[p].step BY DEF RequestOf
  <1>3. server \in Server /\ server' \in After(r, server) BY PublishTypes
  <1> HIDE DEF r
  <1>4. /\ server'.intent = "none"
        /\ server'.exposure = "open" => server.exposure = "open" \/ Visible(server')
        /\ Status(r, server) = 0 /\ r.op = "expose" => Visible(server')
        /\ r.op = "release" /\ Answered(server) = "ready" => server'.release = "ready"
    BY <1>1, <1>3, RequestExposes
  <1> QED BY <1>2, <1>4 DEF r

\* A user's release becomes exposed only while it is ready, whoever acts.
LEMMA OnlyReadyExposed ==
  ASSUME PublishInv, PublishStep, kind = "user", server.intent = "none"
  PROVE  /\ server'.intent = "none"
         /\ server'.exposure = "open" => server.exposure = "open" \/ Visible(server')
  <1> DEFINE Fine == /\ server'.intent = "none"
                     /\ server'.exposure = "open" => server.exposure = "open" \/ Visible(server')
  <1>1. server \in Server BY PublishTypes
  <1>2. ASSUME server' = server PROVE Fine BY <1>2
  <1>3. ASSUME NEW p \in DOMAIN dir, Step(p) PROVE Fine
    <2>1. CASE CreateSkill(p) BY <2>1, SendExposes DEF CreateSkill, Send
    <2>2. CASE UploadContent(p) BY <2>2, SendExposes DEF UploadContent, Send
    <2>3. CASE CreateVersion(p) BY <2>3, SendExposes DEF CreateVersion, Send
    <2>4. CASE CreateRelease(p) BY <2>4, SendExposes DEF CreateRelease, Send
    <2>5. CASE CreateExposure(p) BY <2>5, SendExposes DEF CreateExposure, Send
    <2>6. ASSUME Save(p) \/ ListSkills(p) \/ ListVersions(p) \/ GetVersion(p) \/ WaitForRelease(p)
                   \/ WaitForAgent(p) \/ AgentStatus(p) \/ ListExposures(p)
          PROVE  Fine
      <3>1. server' = server
        BY <2>6 DEF Save, ListSkills, ListVersions, GetVersion, WaitForRelease, WaitForAgent, AgentStatus,
                    ListExposures, Local
      <3> QED BY <1>2, <3>1
    <2> QED BY <1>3, <2>1, <2>2, <2>3, <2>4, <2>5, <2>6 DEF Step
  <1>4. ASSUME NEW p \in DOMAIN dir, Crash(p) \/ GiveUp(p) PROVE Fine
    BY <1>2, <1>4 DEF Crash, GiveUp
  <1>5. ASSUME NEW p \in DOMAIN dir, NEW resume \in BOOLEAN, NEW wait \in BOOLEAN, Start(p, resume, wait)
        PROVE  Fine
    BY <1>2, <1>5 DEF Start
  <1>6. CASE Deliver
    <2>1. PICK r \in late : server' \in After(r, server) BY <1>6 DEF Deliver
    <2>2. r \in Request BY PublishTypes
    <2> QED BY <1>1, <2>1, <2>2, RequestExposes
  <1>7. ASSUME NEW s \in Settled(server) \cup Flushed(server), server'.intent = s.intent, server'.exposure = s.exposure
        PROVE  Fine
    BY <1>1, <1>7, FlushedIs
  <1>8. CASE Materialize
    <2>1. PICK s \in Settled(server) : server' = [s EXCEPT !.jobs = @ - 1] BY <1>8 DEF Materialize
    <2>2. s \in Server BY <1>1, FlushedIs
    <2>3. server'.intent = s.intent /\ server'.exposure = s.exposure BY <2>1, <2>2 DEF Server
    <2> QED BY <1>7, <2>3
  <1>9. CASE MaterializeFails
    <2>1. PICK s \in Flushed(server) : server' = [s EXCEPT !.jobs = @ - 1, !.release = "failed"]
      BY <1>9 DEF MaterializeFails
    <2>2. s \in Server BY <1>1, FlushedIs
    <2>3. server'.intent = s.intent /\ server'.exposure = s.exposure BY <2>1, <2>2 DEF Server
    <2> QED BY <1>7, <2>3
  <1>10. CASE MaterializeRetried
    <2>1. server' \in Flushed(server) BY <1>10 DEF MaterializeRetried
    <2> QED BY <1>7, <2>1
  <1>11. CASE JobAbandoned \/ Archive \/ Revoke \/ Edit
    <2>1. \/ server' = [server EXCEPT !.jobs = @ - 1] \/ server' = [server EXCEPT !.archived = TRUE]
          \/ server' = [server EXCEPT !.exposure = "closed"] \/ server' = server
      BY <1>11 DEF JobAbandoned, Archive, Revoke, Edit
    <2>2. server'.intent = server.intent /\ server'.exposure \in {server.exposure, "closed"}
      BY <1>1, <2>1 DEF Server
    <2> QED BY <2>2
  <1>12. CASE Expire
    <2>1. PICK i \in Pending(server) : server' = [server EXCEPT !.contents[i].state = "expired"]
      BY <1>12 DEF Expire
    <2> DEFINE q == [server.contents EXCEPT ![i].state = "expired"]
    <2>2. server' = [server EXCEPT !.contents = q] BY <1>1, <2>1 DEF Server
    <2> HIDE DEF q
    <2>3. server'.intent = server.intent /\ server'.exposure = server.exposure BY <1>1, <2>2 DEF Server
    <2> QED BY <2>3
  <1> QED BY <1>3, <1>4, <1>5, <1>6, <1>8, <1>9, <1>10, <1>11, <1>12 DEF PublishStep

\* Who publishes, and where, does not change.
LEMMA PublishKeepsWho == PublishStep => UNCHANGED <<kind, dir>>
  <1>1. ASSUME NEW p, Step(p) PROVE UNCHANGED <<kind, dir>>
    BY <1>1 DEF Step, Save, ListSkills, ListVersions, GetVersion, CreateSkill, UploadContent, CreateVersion,
                CreateRelease, CreateExposure, Send, WaitForRelease, WaitForAgent, AgentStatus, ListExposures, Local
  <1>2. ASSUME NEW p, Crash(p) \/ GiveUp(p) \/ \E resume, wait \in BOOLEAN : Start(p, resume, wait)
        PROVE  UNCHANGED <<kind, dir>>
    BY <1>2 DEF Crash, GiveUp, Start
  <1> QED BY <1>1, <1>2 DEF PublishStep, Deliver, Materialize, MaterializeFails, MaterializeRetried, JobAbandoned,
                            Expire, Archive, Revoke, Edit

\* A command's step changes no other command.
LEMMA OneCommandSteps ==
  ASSUME PublishInv, NEW p \in DOMAIN dir, NEW q \in DOMAIN dir, q # p, Step(q)
  PROVE  client'[p] = client[p]
  <1>1. client \in [DOMAIN dir -> Client] BY PublishTypes
  <1>2. ASSUME NEW step, NEW mem, client' = Learn(q, step, mem) PROVE client'[p] = client[p]
    BY <1>1, <1>2 DEF Learn
  <1>3. ASSUME NEW step, client' = Go(q, step) PROVE client'[p] = client[p]
    BY <1>1, <1>3 DEF Go
  <1>4. ASSUME NEW report, client' = Ended(q, report) PROVE client'[p] = client[p]
    BY <1>1, <1>4 DEF Ended
  <1>5. ASSUME NEW step, NEW seen, client' = [client EXCEPT ![q].step = step, ![q].seen = seen]
        PROVE  client'[p] = client[p]
    BY <1>1, <1>5
  <1>6. CASE Save(q)
    <2>1. client' = Ended(q, "published") \/ client' = [client EXCEPT ![q].dirty = FALSE] BY <1>6 DEF Save
    <2> QED BY <1>1, <1>4, <2>1
  <1>7. CASE CreateRelease(q)
    <2>1. \E step, mem, seen : client' = [Learn(q, step, mem) EXCEPT ![q].seen = seen]
      BY <1>7 DEF CreateRelease, Send
    <2> QED BY <1>1, <2>1 DEF Learn
  <1>8. CASE WaitForRelease(q) \/ WaitForAgent(q) BY <1>4, <1>5, <1>8 DEF WaitForRelease, WaitForAgent, Fail
  <1>9. CASE AgentStatus(q)
    <2>1. \/ client' = Learn(q, "idle", client[q].mem) \/ client' = Fail(q) \/ client' = Go(q, "wait")
          \/ client' = Ended(q, "release-created")
      BY <1>9 DEF AgentStatus
    <2> QED BY <1>2, <1>3, <1>4, <2>1 DEF Fail
  <1>10. CASE ListSkills(q) \/ ListVersions(q) \/ GetVersion(q) \/ ListExposures(q)
    BY <1>2, <1>3, <1>4, <1>10 DEF ListSkills, ListVersions, GetVersion, ListExposures, Fail
  <1>11. CASE CreateSkill(q) \/ CreateVersion(q) \/ UploadContent(q) \/ CreateExposure(q)
    BY <1>2, <1>3, <1>4, <1>11 DEF CreateSkill, CreateVersion, UploadContent, CreateExposure, Send, Fail
  <1> QED BY <1>6, <1>7, <1>8, <1>9, <1>10, <1>11 DEF Step

\* How a user's command p comes to know of the ready release and to publish.
LEMMA CommandMoves ==
  ASSUME PublishInv, PublishStep, kind = "user", server.intent = "none", NEW p \in DOMAIN dir
  PROVE  /\ Exposing(client'[p]) => Exposing(client[p]) \/ server'.release = "ready"
         /\ Concludes(client'[p]) =>
              \/ Concludes(client[p]) \/ Visible(server')
              \/ Exposing(client[p]) /\ server.exposure = "open"
         /\ client'[p].report = "published" => client[p].report = "published" \/ Concludes(client[p])
  <1> DEFINE o == client[p]
             n == client'[p]
             Fine == /\ Exposing(n) => Exposing(o) \/ server'.release = "ready"
                     /\ Concludes(n) =>
                          Concludes(o) \/ Visible(server') \/ (Exposing(o) /\ server.exposure = "open")
                     /\ n.report = "published" => o.report = "published" \/ Concludes(o)
  <1>1. client \in [DOMAIN dir -> Client] /\ o \in Client /\ o.mem \in Receipt BY PublishTypes
  <1>2. ASSUME client' = client PROVE Fine BY <1>2
  <1>3. ASSUME NEW q \in DOMAIN dir, NEW c, q # p, client' = [client EXCEPT ![q] = c] PROVE Fine
    <2>1. n = o BY <1>1, <1>3
    <2> QED BY <2>1
  <1>4. ASSUME NEW step \in Steps \ {"exposures", "idle"}, NEW mem, client' = Learn(p, step, mem) \/ client' = Go(p, step)
        PROVE  Fine
    <2>1. n.step = step /\ n.report = o.report BY <1>1, <1>4 DEF Learn, Go, Client
    <2> QED BY <2>1 DEF Exposing, Concludes
  <1>5. ASSUME NEW mem, client' = Learn(p, "idle", mem), Visible(server') \/ (Exposing(o) /\ server.exposure = "open")
        PROVE  Fine
    <2>1. n.step = "idle" /\ n.report = o.report BY <1>1, <1>5 DEF Learn, Client
    <2> QED BY <1>5, <2>1 DEF Exposing
  <1>6. ASSUME NEW report, client' = Ended(p, report), report # "published" \/ Concludes(o) PROVE Fine
    <2>1. n.step = "idle" /\ n.dirty = FALSE /\ n.report = report BY <1>1, <1>6 DEF Ended
    <2> QED BY <1>6, <2>1 DEF Exposing, Concludes
  <1>7. ASSUME Step(p) PROVE Fine
    <2>1. CASE Save(p)
      <3>1. CASE o.step = "idle"
        <4>1. client' = Ended(p, "published") /\ Concludes(o) BY <2>1, <3>1 DEF Save, Concludes
        <4> QED BY <1>6, <4>1
      <3>2. CASE o.step # "idle"
        <4>1. client' = [client EXCEPT ![p].dirty = FALSE] BY <2>1, <3>2 DEF Save
        <4>2. n.step = o.step /\ n.seen = o.seen /\ n.report = o.report BY <1>1, <4>1 DEF Client
        <4> QED BY <3>2, <4>2 DEF Exposing, Concludes
      <3> QED BY <3>1, <3>2
    <2>2. ASSUME ListSkills(p) \/ ListVersions(p) \/ GetVersion(p) \/ CreateSkill(p) \/ CreateVersion(p)
                   \/ UploadContent(p)
          PROVE  Fine
      <3>1. \/ client' = Ended(p, "failed")
            \/ \E step \in {"versions", "create_skill", "skill_again", "upload", "create_version", "version_again",
                            "release"} :
                 client' = Go(p, step) \/ \E mem : client' = Learn(p, step, mem)
        BY <2>2 DEF ListSkills, ListVersions, GetVersion, CreateSkill, CreateVersion, UploadContent, Send, Fail
      <3>2. {"versions", "create_skill", "skill_again", "upload", "create_version", "version_again", "release"}
              \subseteq Steps \ {"exposures", "idle"}
        BY DEF Steps
      <3> QED BY <1>4, <1>6, <3>1, <3>2
    <2>3. CASE CreateRelease(p)
      <3> DEFINE step == IF o.wait THEN "wait" ELSE IF kind = "agent" THEN "status" ELSE "exposures"
                 seen == Answered(server)
      <3>1. client' = [Learn(p, step, o.mem) EXCEPT ![p].seen = seen] BY <2>3 DEF CreateRelease, Send
      <3>2. seen = "ready" => server'.release = "ready" BY <2>3, SendExposes DEF CreateRelease, Send
      <3>3. step \in {"wait", "status", "exposures"} OBVIOUS
      <3> HIDE DEF step, seen
      <3>4. n.step = step /\ n.seen = seen /\ n.report = o.report BY <1>1, <3>1 DEF Learn, Client
      <3> QED BY <3>2, <3>3, <3>4 DEF Exposing, Concludes
    <2>4. CASE WaitForRelease(p)
      <3>1. CASE server.release = "ready"
        <4>1. client' = [client EXCEPT ![p].step = "exposures", ![p].seen = "ready"] /\ server' = server
          BY <2>4, <3>1 DEF WaitForRelease, Local
        <4>2. n.step = "exposures" /\ n.report = o.report BY <1>1, <4>1 DEF Client
        <4> QED BY <3>1, <4>1, <4>2 DEF Concludes
      <3>2. CASE server.release # "ready"
        <4>1. client' = Ended(p, "failed") BY <2>4, <3>2 DEF WaitForRelease, Fail
        <4> QED BY <1>6, <4>1
      <3> QED BY <3>1, <3>2
    <2>5. CASE WaitForAgent(p) BY <2>5 DEF WaitForAgent
    <2>6. CASE AgentStatus(p)
      <3>1. client' = Fail(p) \/ client' = Go(p, "wait") \/ client' = Ended(p, "release-created")
        BY <2>6 DEF AgentStatus
      <3>2. "wait" \in Steps \ {"exposures", "idle"} BY DEF Steps
      <3> QED BY <1>4, <1>6, <3>1, <3>2 DEF Fail
    <2>7. CASE ListExposures(p)
      <3>1. \/ client' = Ended(p, "release-created") \/ client' = Go(p, "expose")
            \/ /\ Exposing(o) /\ server.exposure = "open"
               /\ client' = Learn(p, "idle", Knows(p, "exposure"))
        BY <2>7 DEF ListExposures, Reusable, At, Exposing
      <3>2. "expose" \in Steps \ {"exposures", "idle"} BY DEF Steps
      <3> QED BY <1>4, <1>5, <1>6, <3>1, <3>2
    <2>8. CASE CreateExposure(p)
      <3>1. CASE Status(RequestOf(p), server) = 0
        <4>1. client' = Learn(p, "idle", Knows(p, "exposure")) BY <2>8, <3>1 DEF CreateExposure, Send
        <4>2. Visible(server') BY <2>8, <3>1, SendExposes DEF CreateExposure, Send
        <4> QED BY <1>5, <4>1, <4>2
      <3>2. CASE Status(RequestOf(p), server) # 0
        <4>1. client' = Ended(p, "failed") BY <2>8, <3>2 DEF CreateExposure, Send, Fail
        <4> QED BY <1>6, <4>1
      <3> QED BY <3>1, <3>2
    <2> QED BY <1>7, <2>1, <2>2, <2>3, <2>4, <2>5, <2>6, <2>7, <2>8 DEF Step
  <1>8. ASSUME NEW q \in DOMAIN dir, q # p, Step(q) PROVE Fine
    <2>1. n = o BY <1>8, OneCommandSteps
    <2> QED BY <2>1
  <1>9. ASSUME NEW q \in DOMAIN dir, Crash(q) \/ GiveUp(q) PROVE Fine
    <2>1. client' = Ended(q, "failed") BY <1>9 DEF Crash, GiveUp, Fail
    <2>2. CASE q = p BY <1>6, <2>1, <2>2
    <2>3. CASE q # p BY <1>3, <2>1, <2>3 DEF Ended
    <2> QED BY <2>2, <2>3
  <1>10. ASSUME NEW q \in DOMAIN dir, NEW resume \in BOOLEAN, NEW wait \in BOOLEAN, Start(q, resume, wait)
         PROVE  Fine
    <2> DEFINE c == [step |-> "skill", mem |-> Prepared(dir[q]), wait |-> wait, dirty |-> TRUE,
                     seen |-> "none", report |-> "none"]
    <2>1. client' = Ended(q, "failed") \/ client' = [client EXCEPT ![q] = c] BY <1>10 DEF Start, Fail
    <2>2. c.step = "skill" /\ c.report = "none" OBVIOUS
    <2> HIDE DEF c
    <2>3. CASE q # p BY <1>3, <2>1, <2>3 DEF Ended
    <2>4. CASE q = p /\ client' = [client EXCEPT ![q] = c]
      <3>1. n = c BY <1>1, <2>4
      <3> QED BY <2>2, <3>1 DEF Exposing, Concludes
    <2>5. CASE q = p /\ client' = Ended(q, "failed") BY <1>6, <2>5
    <2> QED BY <2>1, <2>3, <2>4, <2>5
  <1>11. ASSUME Surroundings \/ Deliver PROVE Fine
    BY <1>2, <1>11
       DEF Surroundings, Materialize, MaterializeFails, MaterializeRetried, JobAbandoned, Expire, Archive, Revoke,
           Edit, Deliver
  <1> QED BY <1>7, <1>8, <1>9, <1>10, <1>11 DEF PublishStep, Surroundings

\* What was visible is remembered as long as the command goes on.
LEMMA ShownKeeps == PublishInv /\ ShownInv /\ [PublishNext]_publishVars => ShownInv'
  <1> SUFFICES ASSUME PublishInv, ShownInv, [PublishNext]_publishVars PROVE ShownInv'
    OBVIOUS
  <1>1. CASE UNCHANGED publishVars BY <1>1 DEF publishVars, ShownInv, Exposing, Concludes
  <1>2. CASE PublishNext
    <2>1. PublishStep /\ Watch BY <1>2 DEF PublishNext
    <2>2. UNCHANGED <<kind, dir>>
      BY PublishKeepsWho, <2>1
    <2>3. shown' = {p \in DOMAIN dir :
                      kind = "user" /\ Watches(client'[p]) /\ (p \in shown \/ Visible(server'))}
      BY <2>1 DEF Watch
    <2>4. ASSUME kind = "user", NEW p \in DOMAIN dir
          PROVE  /\ server'.intent = "none"
                 /\ Exposing(client'[p]) /\ p \notin shown' => server'.exposure # "open"
                 /\ Concludes(client'[p]) \/ client'[p].report = "published" => p \in shown'
      <3>1. /\ server.intent = "none" /\ Exposing(client[p]) /\ p \notin shown => server.exposure # "open"
            /\ Concludes(client[p]) \/ client[p].report = "published" => p \in shown
        BY <2>4 DEF ShownInv
      <3>2. /\ server'.intent = "none"
            /\ server'.exposure = "open" => server.exposure = "open" \/ Visible(server')
        BY <2>1, <2>4, <3>1, OnlyReadyExposed DEF ShownInv
      <3>3. /\ Exposing(client'[p]) => Exposing(client[p]) \/ server'.release = "ready"
            /\ Concludes(client'[p]) =>
                 \/ Concludes(client[p]) \/ Visible(server')
                 \/ Exposing(client[p]) /\ server.exposure = "open"
            /\ client'[p].report = "published" => client[p].report = "published" \/ Concludes(client[p])
        BY <2>1, <2>4, CommandMoves DEF ShownInv
      <3>4. Exposing(client'[p]) \/ Concludes(client'[p]) \/ client'[p].report = "published" => Watches(client'[p])
        BY DEF Exposing, Concludes, Watches
      <3>5. server'.release = "ready" /\ server'.exposure = "open" => Visible(server') BY DEF Visible
      <3>6. p \in shown' <=> Watches(client'[p]) /\ (p \in shown \/ Visible(server')) BY <2>3, <2>4
      <3>7. server.intent = "none" BY <2>4 DEF ShownInv
      <3> QED BY <3>1, <3>2, <3>3, <3>4, <3>5, <3>6, <3>7
    <2>5. kind = "user" => server'.intent = "none" BY <2>1, OnlyReadyExposed DEF ShownInv
    <2> QED BY <2>2, <2>3, <2>4, <2>5 DEF ShownInv, Exposing, Concludes
  <1> QED BY <1>1, <1>2

\* Publishing (registry/publish.py, publish_receipts.py): a command that says
\* "published" built what the server's version is, and its release was ready and
\* exposed while a user's command ran, or its intent is activated; a receipt
\* records nothing that is not so; and nothing is uploaded twice but what was
\* lost - whatever crashes, late requests, other commands and jobs do.
THEOREM PublishCorrect == PublishSpec => []ReportsAreTrue
  <1>1. PublishInit => ShownInv
    <2> SUFFICES ASSUME PublishInit PROVE ShownInv
      OBVIOUS
    <2>1. shown = {} /\ server.intent = "none" BY DEF PublishInit, EmptyServer
    <2>2. ASSUME NEW p \in DOMAIN dir
          PROVE  ~Exposing(client[p]) /\ ~Concludes(client[p]) /\ client[p].report # "published"
      BY DEF PublishInit, Exposing, Concludes
    <2> QED BY <2>1, <2>2 DEF ShownInv
  <1>2. PublishSpec => []ShownInv BY <1>1, ShownKeeps, PublishInvariant, PTL DEF PublishSpec
  <1>3. PublishInv /\ ShownInv => ReportsAreTrue
    <2> SUFFICES ASSUME PublishInv, ShownInv PROVE ReportsAreTrue
      OBVIOUS
    <2>1. PublishTypeOK BY DEF PublishInv, StateTypes, ShownInv, PublishTypeOK
    <2>2. PublishedIsThisBundle
      BY PublishTypes DEF CommandHolds, ShownInv, PublishedIsThisBundle
    <2> QED BY <2>1, <2>2, UploadsAreOnce DEF PublishInv, ReportsAreTrue
  <1> QED BY <1>2, <1>3, PublishInvariant, PTL
================================================================================
