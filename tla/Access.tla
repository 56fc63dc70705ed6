--------------------------------- MODULE Access ---------------------------------
(***************************************************************************)
(* Share links, product tokens and what they open                          *)
(* (server/modules/access: share_links.py, token_service.py, service.py,   *)
(* authn.py).                                                              *)
(*                                                                         *)
(* A link is a grant with an expiry and a usage limit; anyone who holds    *)
(* its secret exchanges it for a bearer token, once per use.  The owner    *)
(* revokes links and tokens while they are being resolved.  A handler      *)
(* reads first; its writes are one transaction.                            *)
(***************************************************************************)
EXTENDS Naturals, FiniteSets

CONSTANTS Visitors,   \* concurrent requests
          Exposures,  \* exposures with audience grant, each of one release
          Grants, Tokens,
          Limits,     \* usage limits a link may be created with
          Horizon,    \* bound on the clock
          Nothing

ASSUME AccessAssumption == Horizon \in Nat /\ Limits \subseteq Nat /\ Nothing \notin Grants

VARIABLES now,      \* the clock
          shown,    \* exposures that are active with install_mode enabled
          grant,    \* access_grants
          token,    \* credentials of type grant_token and product_token
          visit     \* what each request has read

accessVars == <<now, shown, grant, token, visit>>

\* An expiry after the horizon stands for no expiry.
Times == 0 .. Horizon + 1

Grant == [kind : {"none", "link", "token"}, exposure : Exposures \cup {Nothing},
          state : {"active", "revoked"}, expires : Times, limit : Nat, count : Nat]

GrantRow(kind, exposure, state, expires, limit, count) ==
    [kind |-> kind, exposure |-> exposure, state |-> state, expires |-> expires,
     limit |-> limit, count |-> count]

Token == [grant : Grants \cup {Nothing}, expires : Times, revoked : BOOLEAN]

TokenRow(g, expires, revoked) == [grant |-> g, expires |-> expires, revoked |-> revoked]

Visit == [step : {"none", "create", "resolve", "revoke"}, exposure : Exposures \cup {Nothing},
          grant : Grants \cup {Nothing}, tokens : SUBSET Tokens]

Reading(step, exposure, g, tokens) ==
    [step |-> step, exposure |-> exposure, grant |-> g, tokens |-> tokens]

NoVisit == Reading("none", Nothing, Nothing, {})

\* Types of the clock, the rows and the requests.
AccessTypeOK ==
    /\ now \in 0 .. Horizon
    /\ shown \subseteq Exposures
    /\ grant \in [Grants -> Grant]
    /\ token \in [Tokens -> Token]
    /\ visit \in [Visitors -> Visit]

-------------------------------------------------------------------------------
(* Queries *)

Passed(t) == t <= now

Unused(k) == token[k].grant = Nothing

\* _share_credentials
TokensOf(g) == {k \in Tokens : token[k].grant = g}

\* _share_state of a link: revoked, expired, exhausted or active.
ShareState(g) ==
    CASE grant[g].state # "active"          -> grant[g].state
      [] grant[g].state = "active" /\ Passed(grant[g].expires) -> "expired"
      [] grant[g].state = "active" /\ ~Passed(grant[g].expires)
           /\ grant[g].count >= grant[g].limit -> "exhausted"
      [] OTHER -> "active"

\* resolve_access_context: the bearer token is live (_active_credentials_query).
Authenticates(k) == ~Unused(k) /\ ~token[k].revoked /\ ~Passed(token[k].expires)

\* Mutant: the grant behind the token is not looked up.
GrantOpensAny(g) == grant[g].exposure \in shown

\* grant_allows_release, for the release of the grant's exposure.
GrantOpens(g) == grant[g].state = "active" /\ grant[g].exposure \in shown

MayDownload(k) == Authenticates(k) /\ GrantOpens(token[k].grant)

-------------------------------------------------------------------------------
(* What the owner's library page shows (server/modules/library) *)

\* credential_state
CredentialState(k) ==
    CASE token[k].revoked -> "revoked"
      [] ~token[k].revoked /\ Passed(token[k].expires) -> "expired"
      [] OTHER -> grant[token[k].grant].state

\* grant_state: a link whose uses are spent is still active.
GrantState(g) ==
    IF grant[g].state # "active" THEN grant[g].state ELSE IF Passed(grant[g].expires) THEN "expired" ELSE "active"

\* iter_grant_credentials: from the owner's releases down to the tokens.
TokensUnder(kind) == {k \in Tokens : ~Unused(k) /\ grant[token[k].grant].kind = kind}

\* The rows of tokens, and those of links, that come with a revoke button.
RevocableTokens == {k \in TokensUnder("token") : CredentialState(k) = "active"}

\* Mutant: the button goes by the state shown beside it.
RevocableLinksByState == {g \in {token[k].grant : k \in TokensUnder("link")} : ShareState(g) = "active"}

RevocableLinks == {g \in {token[k].grant : k \in TokensUnder("link")} : GrantState(g) = "active"}

Reads(v, r) ==
    /\ visit[v].step = "none"
    /\ visit' = [visit EXCEPT ![v] = r]

Ends(v) == visit' = [visit EXCEPT ![v] = NoVisit]

-------------------------------------------------------------------------------
(* Share links *)

\* create_share_link: the exposure is read, then the grant and its secret are
\* inserted, even when the exposure was closed in between.
CreateReads(v, e) ==
    /\ e \in shown
    /\ Reads(v, Reading("create", e, Nothing, {}))
    /\ UNCHANGED <<now, shown, grant, token>>

CreateLink(v, g, expires, limit) ==
    /\ visit[v].step = "create"
    /\ grant[g].kind = "none"
    /\ expires > now
    /\ grant' = [grant EXCEPT ![g] = GrantRow("link", visit[v].exposure, "active", expires, limit, 0)]
    /\ Ends(v)
    /\ UNCHANGED <<now, shown, token>>

\* resolve_share_link up to its first write: the link is active and the
\* visitor has shown its password or capability.
ResolveReads(v, g) ==
    /\ grant[g].kind = "link"
    /\ ShareState(g) = "active"
    /\ Reads(v, Reading("resolve", Nothing, g, {}))
    /\ UNCHANGED <<now, shown, grant, token>>

\* Mutant: the count is compared when the link is read only.
HasUseLeftAny(g) == grant[g].state = "active" /\ ~Passed(grant[g].expires)

\* The WHERE clause of the UPDATE.
HasUseLeft(g) ==
    /\ grant[g].state = "active"
    /\ ~Passed(grant[g].expires)
    /\ grant[g].count < grant[g].limit

\* Mutant: the token gets no expiry.
TokenExpiryNever(g) == Horizon + 1

\* Mutant: the expiry is taken for a lifetime.
TokenExpiryAdded(g) == now + grant[g].expires + Horizon

\* create_grant_token is given the link's own expiry.
TokenExpiry(g) == grant[g].expires

CountedRow(row, state) ==
    GrantRow(row.kind, row.exposure, state, row.expires, row.limit, row.count + 1)

\* Mutant: the row the handler read is written back.
CountedFromObject(g) == CountedRow(grant[g], "active")

\* The UPDATE counts one use of the row as it is now.
Counted(g) == IF HasUseLeft(g) THEN CountedRow(grant[g], grant[g].state) ELSE grant[g]

\* The use is counted and the token issued, or the visitor is refused.
ResolveWrites(v, k) ==
    LET g == visit[v].grant IN
    /\ visit[v].step = "resolve"
    /\ Unused(k)
    /\ grant' = [grant EXCEPT ![g] = Counted(g)]
    /\ token' = IF HasUseLeft(g) THEN [token EXCEPT ![k] = TokenRow(g, TokenExpiry(g), FALSE)]
                                 ELSE token
    /\ Ends(v)
    /\ UNCHANGED <<now, shown>>

\* revoke_share_link reads the link's credentials before its first write, so a
\* token issued in between stays unrevoked.
RevokeReads(v, g) ==
    /\ grant[g].kind = "link"
    /\ grant[g].state # "revoked"
    /\ Reads(v, Reading("revoke", Nothing, g, TokensOf(g)))
    /\ UNCHANGED <<now, shown, grant, token>>

\* Mutant: only the credentials are revoked.
RevokedGrantKept(row) == row

RevokedGrant(row) ==
    GrantRow(row.kind, row.exposure, "revoked", row.expires, row.limit, row.count)

RevokeWrites(v) ==
    /\ visit[v].step = "revoke"
    /\ grant' = [grant EXCEPT ![visit[v].grant] = RevokedGrant(@)]
    /\ token' = [k \in Tokens |-> IF k \in visit[v].tokens
                                  THEN TokenRow(token[k].grant, token[k].expires, TRUE) ELSE token[k]]
    /\ Ends(v)
    /\ UNCHANGED <<now, shown>>

-------------------------------------------------------------------------------
(* Product tokens of a release *)

\* create_product_token with scope release: a grant and a credential of its own.
CreateToken(v, g, k, expires) ==
    /\ visit[v].step = "create"
    /\ grant[g].kind = "none" /\ Unused(k)
    /\ expires > now
    /\ grant' = [grant EXCEPT ![g] = GrantRow("token", visit[v].exposure, "active", Horizon + 1, 0, 0)]
    /\ token' = [token EXCEPT ![k] = TokenRow(g, expires, FALSE)]
    /\ Ends(v)
    /\ UNCHANGED <<now, shown>>

\* revoke_product_token: the credential and its grant.
RevokeToken(k) ==
    /\ ~Unused(k) /\ ~token[k].revoked
    /\ grant[token[k].grant].kind = "token"
    /\ token' = [token EXCEPT ![k] = TokenRow(@.grant, @.expires, TRUE)]
    /\ grant' = [grant EXCEPT ![token[k].grant] = RevokedGrant(@)]
    /\ UNCHANGED <<now, shown, visit>>

-------------------------------------------------------------------------------
\* The exposure is revoked, or its install mode switched (module ExposureReview).
ExposureCloses(e) ==
    /\ e \in shown
    /\ shown' = shown \ {e}
    /\ UNCHANGED <<now, grant, token, visit>>

Ticks ==
    /\ now < Horizon
    /\ now' = now + 1
    /\ UNCHANGED <<shown, grant, token, visit>>

AccessInit ==
    /\ now = 0
    /\ shown = Exposures
    /\ grant = [g \in Grants |-> GrantRow("none", Nothing, "active", 0, 0, 0)]
    /\ token = [k \in Tokens |-> TokenRow(Nothing, 0, FALSE)]
    /\ visit = [v \in Visitors |-> NoVisit]

AccessNext ==
    \/ \E v \in Visitors :
          \/ \E e \in Exposures : CreateReads(v, e)
          \/ \E g \in Grants, t \in Times, n \in Limits : CreateLink(v, g, t, n)
          \/ \E g \in Grants, k \in Tokens, t \in Times : CreateToken(v, g, k, t)
          \/ \E g \in Grants : ResolveReads(v, g) \/ RevokeReads(v, g)
          \/ \E k \in Tokens : ResolveWrites(v, k)
          \/ RevokeWrites(v)
    \/ \E k \in Tokens : RevokeToken(k)
    \/ \E e \in Exposures : ExposureCloses(e)
    \/ Ticks

AccessSpec == AccessInit /\ [][AccessNext]_accessVars

-------------------------------------------------------------------------------
(* Properties *)

\* Every use of a link is counted and no use beyond its limit is granted, with
\* any number of visitors at the last one (resolve_share_link's UPDATE).
UsesAreCounted ==
    \A g \in Grants : grant[g].kind = "link" =>
        /\ grant[g].count = Cardinality(TokensOf(g))
        /\ grant[g].count <= grant[g].limit

\* A revoked link opens nothing, though a token issued while it was being
\* revoked is missed by revoke_share_link and stays live.
RevokedOpensNothing ==
    \A k \in Tokens : ~Unused(k) /\ grant[token[k].grant].state = "revoked" => ~MayDownload(k)

\* A token never outlives the link it came from: grant_allows_release does not
\* look at the link's expiry, so the token must carry it.
TokenDiesWithLink ==
    \A k \in Tokens : MayDownload(k) => ~Passed(grant[token[k].grant].expires)

\* Whatever opens a release can be revoked from the owner's library page: by
\* its own button, or by that of the link it came from, used up or not.
OpenIsRevocable ==
    \A k \in Tokens : MayDownload(k) => k \in RevocableTokens \/ token[k].grant \in RevocableLinks

\* Access that was lost stays lost: no step brings back a token or a link.
LostAccessIsLost ==
    \A k \in Tokens : ~Unused(k) /\ ~MayDownload(k) => ~MayDownload(k)'

\* A link and its tokens: uses are counted to the limit, a token dies with its
\* link, what is revoked opens nothing, what opens can be revoked, and access
\* that was lost does not come back.
LinksKeepTheirLimits ==
    [][/\ (AccessTypeOK /\ UsesAreCounted /\ RevokedOpensNothing /\ TokenDiesWithLink /\ OpenIsRevocable)'
       /\ LostAccessIsLost]_accessVars
===============================================================================
