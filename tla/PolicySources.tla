----------------------------- MODULE PolicySources -----------------------------
(***************************************************************************)
(* How the layers of policy files merge: the active packs in their order    *)
(* and the local file (src/infinitas_skill/policy/policy_pack.py).          *)
(*                                                                         *)
(* A JSON object is a function from the paths of its fields, sequences of   *)
(* keys, to their values; Mapping is the value of a field that holds an     *)
(* object, whose fields have the longer paths.  What a file says of a       *)
(* domain is [fields, exceptions]: the exception records [id, body] are     *)
(* merged by id.  Records without an id, which no exception policy loads    *)
(* with, are left out.                                                      *)
(***************************************************************************)
EXTENDS Integers, Sequences

CONSTANTS Keys, Paths,   \* keys of fields and the paths that files may have
          Values, Mapping,
          Ids            \* of exception records

ASSUME PathsAssumption == Paths \subseteq Seq(Keys)

VARIABLES files,    \* [selection, packs, domain, local]: selection has at most one sequence of
                    \* pack names, local at most one payload; never changes
          progress, \* "selecting", "reading", "merging", "merged" or "refused"
          next,     \* the source that is read or merged
          fields,   \* the effective policy but for its exceptions
          earlier,  \* its exceptions when the merge of the source began
          taken,    \* how many of these and of the source's are merged
          result    \* its exceptions

policyVars == <<files, progress, next, fields, earlier, taken, result>>

mergeVars == <<fields, earlier, taken, result>>

-------------------------------------------------------------------------------
(* Objects and what files hold *)

FieldsAbove(path) == {SubSeq(path, 1, n) : n \in 1 .. Len(path) - 1}

\* What is above a field is an object.
IsObject(d) == \A path \in DOMAIN d : \A above \in FieldsAbove(path) : above \in DOMAIN d /\ d[above] = Mapping

Objects == {d \in UNION {[D -> Values \cup {Mapping}] : D \in SUBSET Paths} : IsObject(d)}

Records == [id : Ids, body : Objects]

Payloads == [fields : Objects, exceptions : Seq(Records)]

Nothing == [path \in {} |-> Mapping]

-------------------------------------------------------------------------------
(* Sources *)

\* _validate_selection: at least one pack, none twice.
SelectionLoads(names) == names # <<>> /\ \A m, n \in DOMAIN names : names[m] = names[n] => m = n

\* _validate_pack
PackLoads(name, pack) == pack.name = name /\ DOMAIN pack.domains # {}

\* The active packs; there are none without a selection file.
ActivePacks(f) == IF f.selection = {} THEN <<>> ELSE CHOOSE names \in f.selection : TRUE

\* The source behind all packs is the local file.
Sources(f) == 1 .. Len(ActivePacks(f)) + 1

IsPack(f, n) == n <= Len(ActivePacks(f))

\* load_policy_pack
Loads(f, n) ==
    IsPack(f, n) => LET name == ActivePacks(f)[n] IN name \in DOMAIN f.packs /\ PackLoads(name, f.packs[name])

\* What source n says of the domain, if it does.
Payload(f, n) ==
    IF IsPack(f, n)
    THEN {f.packs[name].domains[f.domain] :
             name \in {name \in {ActivePacks(f)[n]} : f.domain \in DOMAIN f.packs[name].domains}}
    ELSE f.local

\* At most one selection and one local file, of objects.
FilesOK(f) ==
    /\ \A names, others \in f.selection : names \in Seq(STRING) /\ names = others
    /\ \A x, y \in f.local : x = y
    /\ \A n \in Sources(f) : Loads(f, n) => Payload(f, n) \subseteq Payloads

-------------------------------------------------------------------------------
(* Merging *)

\* A field stays unless the overlay sets it or something that it is part of.
Leaves(overlay, path) ==
    /\ path \notin DOMAIN overlay
    /\ \A above \in FieldsAbove(path) \cap DOMAIN overlay : overlay[above] = Mapping

\* Mutant: fields are kept under a value that replaced their object.
MergeValuesKeepsAll(base, overlay) ==
    [path \in DOMAIN overlay \cup DOMAIN base |-> IF path \in DOMAIN overlay THEN overlay[path] ELSE base[path]]

\* _merge_values: descends where both sides have an object.
MergeValues(base, overlay) ==
    [path \in DOMAIN overlay \cup {path \in DOMAIN base : Leaves(overlay, path)} |->
        IF path \in DOMAIN overlay THEN overlay[path] ELSE base[path]]

\* Mutant: a record of an overlay replaces the one of the same id.
MergeRecordReplaced(records, r) ==
    IF \E n \in DOMAIN records : records[n].id = r.id
    THEN [n \in DOMAIN records |-> IF records[n].id = r.id THEN r ELSE records[n]]
    ELSE Append(records, r)

\* One item of _merge_exception_lists: records of the same id are merged, in the
\* order of their first appearance.
MergeRecord(records, r) ==
    IF \E n \in DOMAIN records : records[n].id = r.id
    THEN [n \in DOMAIN records |->
             IF records[n].id = r.id
             THEN [id |-> r.id, body |-> MergeValues(records[n].body, r.body)] ELSE records[n]]
    ELSE Append(records, r)

-------------------------------------------------------------------------------
(* load_policy_domain_resolution *)

PolicyInit ==
    /\ FilesOK(files)
    /\ progress = "selecting" /\ next = 1
    /\ fields = Nothing /\ earlier = <<>> /\ taken = 0 /\ result = <<>>

\* load_policy_pack_selection
Selects ==
    /\ progress = "selecting"
    /\ progress' = IF \A names \in files.selection : SelectionLoads(names) THEN "reading" ELSE "refused"
    /\ UNCHANGED <<files, next, mergeVars>>

\* A pack that is missing or invalid refuses all.
PackRefuses ==
    /\ progress = "reading" /\ next \in Sources(files) /\ ~Loads(files, next)
    /\ progress' = "refused"
    /\ UNCHANGED <<files, next, mergeVars>>

Reads == progress = "reading" /\ next \in Sources(files) /\ Loads(files, next)

\* A pack without the domain, or no local file.
Skips ==
    /\ Reads /\ Payload(files, next) = {}
    /\ next' = next + 1
    /\ UNCHANGED <<files, progress, mergeVars>>

\* _merge_domain_payload: first all fields, then the exceptions.
MergesFields(payload) ==
    /\ Reads
    /\ fields' = MergeValues(fields, payload.fields)
    /\ earlier' = result /\ taken' = 0 /\ result' = <<>>
    /\ progress' = "merging"
    /\ UNCHANGED <<files, next>>

\* _merge_exception_lists goes through what there was and then through the source's.
Item(payload) ==
    IF taken < Len(earlier) THEN earlier[taken + 1] ELSE payload.exceptions[taken + 1 - Len(earlier)]

MergesItem(payload) ==
    /\ progress = "merging" /\ taken < Len(earlier) + Len(payload.exceptions)
    /\ result' = MergeRecord(result, Item(payload))
    /\ taken' = taken + 1
    /\ UNCHANGED <<files, progress, next, fields, earlier>>

FinishesSource(payload) ==
    /\ progress = "merging" /\ taken = Len(earlier) + Len(payload.exceptions)
    /\ progress' = "reading" /\ next' = next + 1
    /\ UNCHANGED <<files, mergeVars>>

\* Without any source there is no policy.
Finishes ==
    /\ progress = "reading" /\ next \notin Sources(files)
    /\ progress' = IF \E n \in Sources(files) : Payload(files, n) # {} THEN "merged" ELSE "refused"
    /\ UNCHANGED <<files, next, mergeVars>>

PolicyNext ==
    \/ Selects \/ PackRefuses \/ Skips \/ Finishes
    \/ /\ progress = "merging" \/ Reads
       /\ \E payload \in Payload(files, next) :
             MergesFields(payload) \/ MergesItem(payload) \/ FinishesSource(payload)

PolicySpec == PolicyInit /\ [][PolicyNext]_policyVars

-------------------------------------------------------------------------------
(* Reference: objects laid one over the other *)

Entry(source, at, id, body) == [source |-> source, at |-> at, id |-> id, body |-> body]

FieldsOf(f, n) == {Entry(n, 0, "", p.fields) : p \in Payload(f, n)}

ExceptionsOf(f, n) ==
    UNION {{Entry(n, k, p.exceptions[k].id, p.exceptions[k].body) : k \in DOMAIN p.exceptions} : p \in Payload(f, n)}

\* All that is said of the fields, and of the exceptions.
FieldEntries(f) == UNION {FieldsOf(f, n) : n \in Sources(f)}

ExceptionEntries(f) == UNION {ExceptionsOf(f, n) : n \in Sources(f)}

After(e, g) == g.source < e.source \/ (g.source = e.source /\ g.at < e.at)

\* e sets a field and no later entry sets it or replaces what it is part of.
Decides(E, e, path) == path \in DOMAIN e.body /\ \A g \in E : After(g, e) => Leaves(g.body, path)

Layered(E, body) ==
    /\ \A e \in E : \A path \in DOMAIN e.body :
          Decides(E, e, path) => path \in DOMAIN body /\ body[path] = e.body[path]
    /\ \A path \in DOMAIN body : \E e \in E : Decides(E, e, path)

Of(E, id) == {e \in E : e.id = id}

\* One record for each id, in the order in which the ids appear first.
Represents(E, records) ==
    /\ {records[n].id : n \in DOMAIN records} = {e.id : e \in E}
    /\ \A n \in DOMAIN records : Layered(Of(E, records[n].id), records[n].body)
    /\ \A m, n \in DOMAIN records : m < n =>
          \E e \in Of(E, records[m].id) : \A g \in Of(E, records[n].id) : After(g, e)

-------------------------------------------------------------------------------
(* Properties *)

\* What is merged stays an object, also when one side has a value where the
\* other has an object: no field is left below a value.
PolicyTypeOK ==
    /\ progress \in {"selecting", "reading", "merging", "merged", "refused"}
    /\ FilesOK(files) /\ next \in 1 .. Len(ActivePacks(files)) + 2 /\ taken \in Nat
    /\ \A n \in Sources(files) : n < next \/ (n = next /\ progress = "merging") => Loads(files, n)
    /\ progress = "merging" => next \in Sources(files)
    /\ fields \in Objects /\ earlier \in Seq(Records) /\ result \in Seq(Records)

\* The last source that sets a field decides it, a field that no later source
\* mentions is kept, and nothing else is in the policy: a local override of one
\* field of an exception keeps the other fields of the pack's record.
LastSourceDecides ==
    progress = "merged" => Layered(FieldEntries(files), fields) /\ Represents(ExceptionEntries(files), result)

\* The effective policy is an object that every layer has its say in.
LayersAreRight == PolicyTypeOK /\ LastSourceDecides
===============================================================================
