------------------------------ MODULE AuthSession ------------------------------
(***************************************************************************)
(* The signed-in browser: tabs that share one cookie jar, the sign-in page *)
(* and the authenticated product shell they show, the authentication and   *)
(* session routes that serve them, the identity provider behind the routes *)
(* and the memberships an administrator changes meanwhile.                 *)
(*                                                                         *)
(* A request carries the cookies of the instant it is sent, is served      *)
(* later (the session routes in two steps: who is asking for which tenant, *)
(* then the decision) and its Set-Cookie headers reach the jar only when   *)
(* the answer arrives.  A tab has two channels: "page" for what its page   *)
(* awaits, one call at a time, and "command" for the settings panel, whose *)
(* calls go through authorityFetch beside it.                              *)
(*                                                                         *)
(* The routes those commands are sent to (/api/v1/organization/...) are    *)
(* not in the repository: the proxy forwards them to another service.  It  *)
(* may answer anything at any time, which matters here because a 401 makes *)
(* the browser refresh its session beside what its page awaits; nothing is *)
(* said about what a command does there.                                   *)
(***************************************************************************)
EXTENDS RequestAuthority, Sequences

CONSTANTS Tabs, NoUser,
          RequireAal2,    \* PV_AUTH_REQUIRE_AAL2, or the production environment
          Members,        \* initial memberships: <<user, tenant, role>>
          MaxSessions,    \* bound: sessions the provider opens
          Changes,        \* bound: the changes of memberships, <<user, tenant, role, active>>
          MaxChanges      \* bound: changes of memberships, all together

ASSUME AuthAssumption ==
    /\ NoUser \notin Users /\ RequireAal2 \in BOOLEAN /\ MaxSessions \in Nat
    /\ Members \subseteq Users \X Tenants \X Roles
    /\ Changes \subseteq Users \X Tenants \X Roles \X BOOLEAN

VARIABLES provider,   \* sessions of the identity provider, by number
          enrolled,   \* users with a verified second factor
          members,    \* memberships as they stand
          was,        \* each membership at each of its versions
          jar,        \* the browser's cookies
          tab,        \* what each tab shows and remembers
          net         \* the call each channel of each tab awaits

vars == <<provider, enrolled, members, was, jar, tab, net>>
Server == <<provider, enrolled, members, was>>

Sids == 1..MaxSessions
Page(t) == <<t, "page">>
Command(t) == <<t, "command">>
Chans == {Page(t) : t \in Tabs} \cup {Command(t) : t \in Tabs}

-----------------------------------------------------------------------------
(* Records.  Session 0 is no session; a context of user NoUser is none. *)
NoContext == [user |-> NoUser, tenant |-> NoTenant, role |-> "member", version |-> 0,
              sid |-> 0, settings |-> FALSE]

(* What an answer does to the cookies: sid -1 leaves the token cookies, 0
   clears them, any other sets them; likewise the tenant cookie. *)
Keep == [sid |-> -1, aal |-> 1, tenant |-> "keep"]
ClearTokens == [Keep EXCEPT !.sid = 0]
ClearAll == [ClearTokens EXCEPT !.tenant = NoTenant]
Tokens(sid, tenant) ==
    [sid |-> sid, aal |-> provider'[sid].aal, tenant |-> tenant]

(* user: whose credentials or factor a call carries; named: it names its factor
   or tenant itself, or is the repeat of a command; late: its session was over
   when it was sent. *)
Idle == [at |-> "idle", kind |-> "none", sid |-> 0, aal |-> 1, user |-> NoUser,
         hint |-> NoTenant, named |-> FALSE, late |-> FALSE, ctx |-> NoContext,
         code |-> "none", eligible |-> {}, sets |-> Keep]

SignInPage == [page |-> "sign-in", stage |-> "credentials", source |-> "session", user |-> NoUser,
               factor |-> NoUser, challenged |-> FALSE, status |-> "BOOTING",
               eligible |-> {}, choice |-> NoTenant, first |-> NoContext, shown |-> NoContext,
               failure |-> "none", leaving |-> 0]
ShellPage == [SignInPage EXCEPT !.page = "shell"]

(* What the identity provider does with its sessions. *)
NoSession == [user |-> NoUser, aal |-> 1, live |-> FALSE]
OpenSession(sid, u, aal) == [provider EXCEPT ![sid] = [user |-> u, aal |-> aal, live |-> TRUE]]
RaiseSession(sid) == [provider EXCEPT ![sid].aal = 2]
EndSession(sid) == IF sid = 0 THEN provider ELSE [provider EXCEPT ![sid].live = FALSE]
EmptyJar == [access |-> [sid |-> 0, aal |-> 1], refresh |-> 0, tenant |-> NoTenant]

Init ==
    /\ provider = [s \in Sids |-> NoSession]
    /\ enrolled = {}
    /\ members = [u \in Users |-> [x \in Tenants |->
                     [active |-> \E r \in Roles : <<u, x, r>> \in Members,
                      role |-> IF <<u, x, "member">> \in Members THEN "member"
                               ELSE "organization_admin",
                      version |-> 1]]]
    /\ was = [u \in Users |-> [x \in Tenants |-> <<members[u][x]>>]]
    /\ jar = EmptyJar
    /\ tab = [t \in Tabs |-> SignInPage]
    /\ net = [c \in Chans |-> Idle]

-----------------------------------------------------------------------------
(* The shell's states and the moves it accepts: any other is dropped. *)
Troubles == {"DENIED", "EXPIRED", "AUTHORITY_UNAVAILABLE", "NETWORK_FAILURE"}
Moves == [ BOOTING |-> Troubles \cup {"RESOLVING_SESSION", "UNAUTHENTICATED"},
           RESOLVING_SESSION |-> Troubles \cup {"AUTHENTICATED", "CHANGING_TENANT", "UNAUTHENTICATED"},
           UNAUTHENTICATED |-> {"RESOLVING_SESSION"},
           AUTHENTICATED |-> Troubles \cup {"CHANGING_TENANT", "SIGNING_OUT"},
           CHANGING_TENANT |-> Troubles \cup {"AUTHENTICATED", "CHANGING_TENANT", "SIGNING_OUT"},
           DENIED |-> {"RESOLVING_SESSION", "SIGNING_OUT"},
           EXPIRED |-> {"SIGNING_OUT"},
           AUTHORITY_UNAVAILABLE |-> {"RESOLVING_SESSION", "SIGNING_OUT"},
           NETWORK_FAILURE |-> {"RESOLVING_SESSION", "SIGNING_OUT"},
           SIGNING_OUT |-> {"UNAUTHENTICATED", "SIGNED_OUT_CLEANUP_REQUIRED"},
           SIGNED_OUT_CLEANUP_REQUIRED |-> {"SIGNING_OUT", "UNAUTHENTICATED"} ]

(* Mutant: the table lacks the move from resolving to choosing. *)
MoveWithoutChoice(v, status, shown, eligible) ==
    IF status \notin Moves[v.status] \/ <<v.status, status>> = <<"RESOLVING_SESSION", "CHANGING_TENANT">>
    THEN v
    ELSE [v EXCEPT !.status = status, !.shown = shown, !.eligible = eligible]

(* transitionAuthorityState: the next view replaces the current one whole. *)
Move(v, status, shown, eligible) ==
    IF status \notin Moves[v.status] THEN v
    ELSE [v EXCEPT !.status = status, !.shown = shown, !.eligible = eligible]

StateForDenial(code) ==
    CASE code = "DENY_UNAUTHENTICATED"       -> "UNAUTHENTICATED"
      [] code = "DENY_AUTHORITY_UNAVAILABLE" -> "AUTHORITY_UNAVAILABLE"
      [] code = "DENY_NETWORK_FAILURE"       -> "NETWORK_FAILURE"
      [] OTHER                               -> "DENIED"

(* What the shell offers: a retry in the two states whose denial may be retried,
   sign-out and the settings with a context, another organization if there is one. *)
OffersRetry(v) ==
    \E code \in {"DENY_AUTHORITY_UNAVAILABLE", "DENY_NETWORK_FAILURE"} :
        v.status = StateForDenial(code) /\ Retryable(code)
OffersSignOut(v) == v.shown # NoContext
OffersSettings(v) == v.status = "AUTHENTICATED" /\ v.shown.settings
OffersChange(v) == v.status = "AUTHENTICATED" /\ Cardinality(v.eligible) > 1
OffersOrganizations(v) == v.status = "CHANGING_TENANT"
OffersCleanup(v) == v.status = "SIGNED_OUT_CLEANUP_REQUIRED"

-----------------------------------------------------------------------------
Reads == {"auth-session", "ops-session"}

(* A call leaves with the cookies of the jar j; an answer's cookies are
   applied when it is received. *)
Call(j, kind, hint, named, user) ==
    LET sid == IF kind = "refresh" THEN j.refresh ELSE j.access.sid
        sent == [Idle EXCEPT !.at = "sent", !.kind = kind, !.user = user, !.named = named]
        over == sid \in Sids /\ ~provider[sid].live
    IN  CASE kind = "sign-in" -> [sent EXCEPT !.hint = IF hint # NoTenant THEN hint ELSE j.tenant]
          [] kind \in Reads  -> [sent EXCEPT !.sid = sid, !.aal = j.access.aal, !.late = over,
                                    !.hint = IF hint # NoTenant THEN hint ELSE j.tenant]
          [] kind = "command" -> sent
          [] OTHER           -> [sent EXCEPT !.sid = sid]

Applied(sets) ==
    [ access  |-> IF sets.sid = -1 THEN jar.access  ELSE [sid |-> sets.sid, aal |-> sets.aal],
      refresh |-> IF sets.sid = -1 THEN jar.refresh ELSE sets.sid,
      tenant  |-> IF sets.tenant = "keep" THEN jar.tenant ELSE sets.tenant ]

Resolve(j, choice) == Call(j, "auth-session", choice, FALSE, NoUser)

-----------------------------------------------------------------------------
(* The server.  An answer is composed here and received later. *)
Answer(c, code, ctx, eligible, sets) ==
    net' = [net EXCEPT ![c] =
               [Idle EXCEPT !.at = "answered", !.kind = net[c].kind, !.named = net[c].named,
                            !.user = IF code = "SELECT" THEN net[c].user ELSE NoUser,
                            !.late = net[c].late, !.code = code, !.ctx = ctx,
                            !.eligible = eligible, !.sets = sets]]
Refuse(c, code) == Answer(c, code, NoContext, {}, Keep)
Admit(c, ctx) ==
    net' = [net EXCEPT ![c] = [@ EXCEPT !.at = "admitted", !.ctx = ctx, !.sid = 0, !.aal = 1,
                                        !.hint = NoTenant]]

ContextOf(u, x, sid) ==
    [user |-> u, tenant |-> x, role |-> members[u][x].role, version |-> members[u][x].version,
     sid |-> sid, settings |-> FALSE]

(* The number the provider gives its next session. *)
Fresh(sid) == provider[sid] = NoSession /\ \A s \in Sids : s < sid => provider[s] # NoSession

(* What each route answers: a context, and the cookies that go with it. *)
AnswerSignIn(c, ctx) == Answer(c, "ALLOW", ctx, {}, Tokens(ctx.sid, ctx.tenant))
AnswerFactorFirst(c, ctx) ==
    Answer(c, IF ctx.user \in enrolled THEN "MFA_CHALLENGE" ELSE "MFA_ENROLL",
           ctx, {}, Tokens(ctx.sid, ctx.tenant))
AnswerAuthSession(c, ctx) == Answer(c, "ALLOW", ctx, {}, [Keep EXCEPT !.tenant = ctx.tenant])
AnswerOpsSession(c, ctx) == Answer(c, "ALLOW", ctx, Eligible(members, ctx.user), Keep)

(* The organizations a refused user is offered. *)
AskWhich(c, u) == Answer(c, "SELECT", NoContext, Eligible(members, u), Keep)

(* The tenant of user u for call m: refused, left to choose, or derived. *)
Tenancy(c, m, u, sid, aal) ==
    LET derived == Derive(members, u, m.hint)
        toChoose == derived.error = "TENANT_AMBIGUOUS" /\ m.hint = NoTenant
    IN  CASE toChoose -> AskWhich(c, u)
          [] ~toChoose /\ derived.error # "none" -> Refuse(c, PublicCode(derived.error))
          [] OTHER -> IF m.kind = "sign-in" /\ RequireAal2 /\ aal # 2
                      THEN AnswerFactorFirst(c, ContextOf(u, derived.tenant, sid))
                      ELSE Admit(c, ContextOf(u, derived.tenant, sid))

(* sign-in: the quota and the provider may refuse; a session the provider
   opened stays open when a later step refuses. *)
ServeSignIn(c) ==
    LET m == net[c]
    IN  /\ m.at = "sent" /\ m.kind = "sign-in"
        /\ \/ \E raised \in {"PREAUTH_QUOTA_EXCEEDED", "AUTHENTICATION_INVALID",
                             "AUTHENTICATION_PROVIDER_UNAVAILABLE"} :
                 Refuse(c, PublicCode(raised)) /\ UNCHANGED provider
           \/ \E sid \in Sids :
                 /\ Fresh(sid)
                 /\ provider' = OpenSession(sid, m.user, 1)
                 /\ Tenancy(c, m, m.user, sid, 1)
        /\ UNCHANGED <<enrolled, members, was, jar, tab>>

(* Mutant: the claims of the token are believed without the provider. *)
VerifiedByClaims(sid) == sid # 0

(* verifyAuthenticatedSession: the provider itself is asked. *)
Verified(sid) == sid # 0 /\ provider[sid].live

(* authenticateWave1Request for the session routes. *)
ServeRead(c) ==
    LET m == net[c]
    IN  /\ m.at = "sent" /\ m.kind \in Reads
        /\ IF ~Verified(m.sid)
           THEN Refuse(c, "DENY_UNAUTHENTICATED")
           ELSE IF RequireAal2 /\ m.aal # 2 THEN Refuse(c, "DENY_MFA_REQUIRED")
           ELSE Tenancy(c, m, provider[m.sid].user, m.sid, m.aal)
        /\ UNCHANGED <<Server, jar, tab>>

(* authorizeAndAudit on what is asked, for the tenant and version derived before. *)
Decide(ctx, what) == Decision(members, ctx.user, ctx.tenant, ctx.version, what[1], what[2])

(* The settings entry is a decision of its own. *)
Projected(ctx) == [ctx EXCEPT !.settings = Decide(ctx, ManageMembership) = "ALLOW"]

(* The decision, at its own instant, then what the route does with it. *)
Authorize(c) ==
    LET m == net[c]
        decision == Decide(m.ctx, ReadTenant)
    IN  /\ m.at = "admitted"
        /\ \/ decision # "ALLOW" /\ Refuse(c, decision)
           \/ /\ decision = "ALLOW"
              /\ \/ m.kind = "sign-in" /\ AnswerSignIn(c, m.ctx)
                 \/ m.kind = "auth-session" /\ AnswerAuthSession(c, Projected(m.ctx))
                 \/ m.kind = "ops-session" /\ AnswerOpsSession(c, Projected(m.ctx))
        /\ UNCHANGED <<Server, jar, tab>>

(* A command is answered by a service outside, with a 401 or otherwise. *)
ServeOutside(c) ==
    /\ net[c].at = "sent" /\ net[c].kind = "command"
    /\ \E code \in {"ALLOW", "DENY_UNAUTHENTICATED"} : Refuse(c, code)
    /\ UNCHANGED <<Server, jar, tab>>

(* refresh: new tokens of the same session, at its level; a failure of any kind
   clears the token cookies.  Which tokens of a live session the provider still
   honours after a rotation is its own affair: it may refuse any. *)
Renewed(sid) == [Keep EXCEPT !.sid = sid, !.aal = provider[sid].aal]
ServeRefresh(c) ==
    LET m == net[c]
    IN  /\ m.at = "sent" /\ m.kind = "refresh"
        /\ \/ m.sid = 0
              /\ Answer(c, PublicCode("REFRESH_SESSION_REQUIRED"), NoContext, {}, ClearTokens)
           \/ m.sid # 0
              /\ Answer(c, PublicCode("AUTHENTICATION_INVALID"), NoContext, {}, ClearTokens)
           \/ Verified(m.sid)
              /\ Answer(c, "ALLOW", NoContext, {}, Renewed(m.sid))
        /\ UNCHANGED <<Server, jar, tab>>

(* sign-out: without an access cookie the provider is not asked; the cookies
   are cleared on every path. *)
ServeSignOut(c) ==
    LET m == net[c]
    IN  /\ m.at = "sent" /\ m.kind = "sign-out"
        /\ \E code \in {"ALLOW", "DENY_UNAUTHENTICATED"} :
              /\ code # "ALLOW" => m.sid # 0 /\ ~provider[m.sid].live
              /\ Answer(c, code, NoContext, {}, ClearAll)
        /\ provider' = EndSession(m.sid)
        /\ UNCHANGED <<enrolled, members, was, jar, tab>>

(* mfa/enroll, mfa/challenge, mfa/verify: the factor belongs to the user of the
   session the cookie names, and is answered as that user. *)
FactorCall(c, kind) == net[c].at = "sent" /\ net[c].kind = kind
AnswerFactor(c) ==
    Answer(c, "ALLOW", [NoContext EXCEPT !.user = provider[net[c].sid].user], {}, Keep)

ServeNoSession(c) ==
    /\ \E kind \in {"enroll", "challenge", "verify"} : FactorCall(c, kind)
    /\ ~Verified(net[c].sid)
    /\ Refuse(c, "DENY_UNAUTHENTICATED")
    /\ UNCHANGED <<Server, jar, tab>>

ServeEnroll(c) ==
    /\ FactorCall(c, "enroll") /\ Verified(net[c].sid)
    /\ AnswerFactor(c)
    /\ UNCHANGED <<Server, jar, tab>>

(* The factor is the first verified one, or the one the call names. *)
ServeChallenge(c) ==
    LET m    == net[c]
        user == provider[m.sid].user
    IN  /\ FactorCall(c, "challenge") /\ Verified(m.sid)
        /\ CASE ~m.named /\ user \notin enrolled -> Refuse(c, "DENY_MFA_REQUIRED")
             [] m.named /\ user # m.user -> Refuse(c, PublicCode("AUTHENTICATION_INVALID"))
             [] OTHER -> AnswerFactor(c)
        /\ UNCHANGED <<Server, jar, tab>>

ServeVerify(c) ==
    LET m    == net[c]
        user == provider[m.sid].user
    IN  /\ FactorCall(c, "verify") /\ Verified(m.sid)
        /\ \/ /\ user = m.user
              /\ provider' = RaiseSession(m.sid)
              /\ enrolled' = enrolled \cup {user}
              /\ Answer(c, "ALLOW", NoContext, {}, Tokens(m.sid, "keep"))
           \/ /\ Refuse(c, PublicCode("AUTHENTICATION_INVALID"))
              /\ UNCHANGED <<provider, enrolled>>
        /\ UNCHANGED <<members, was, jar, tab>>

(* The provider, the database or the route itself fails, at any point. *)
ServiceFails(c) ==
    LET m == net[c]
    IN  /\ m.at \in {"sent", "admitted"} /\ m.kind # "purge"
        /\ Answer(c, PublicCode("AUTHORITY_DEPENDENCY_UNAVAILABLE"), NoContext, {},
                  CASE m.kind = "refresh" -> ClearTokens [] m.kind = "sign-out" -> ClearAll
                    [] OTHER -> Keep)
        /\ UNCHANGED <<Server, jar, tab>>

(* The provider ends a session: an operator, reuse of a refresh token, or a
   sign-out that is served after its page stopped waiting for it. *)
SessionEnds(sid) ==
    /\ provider[sid].live
    /\ provider' = EndSession(sid)
    /\ UNCHANGED <<enrolled, members, was, jar, tab, net>>

(* An administrator changes a membership. *)
ChangeMembership(u, x, role, active) ==
    /\ MapThenSumSet(LAMBDA m : members[m[1]][m[2]].version - 1, Users \X Tenants) < MaxChanges
    /\ members' = SetMembership(members, u, x, role, active)
    /\ was' = [was EXCEPT ![u][x] = Append(@, members'[u][x])]
    /\ UNCHANGED <<provider, enrolled, jar, tab, net>>

(* Another window of the same browser signs somebody in, to the end, or out:
   the jar changes under the tabs.  (Of the windows that Tabs names every step
   is taken on its own.) *)
ElsewhereSignsIn(u, sid) ==
    LET x == Derive(members, u, NoTenant).tenant
    IN  /\ Fresh(sid) /\ x # NoTenant
        /\ provider' = OpenSession(sid, u, IF RequireAal2 THEN 2 ELSE 1)
        /\ enrolled' = IF RequireAal2 THEN enrolled \cup {u} ELSE enrolled
        /\ jar' = Applied(Tokens(sid, x))
        /\ UNCHANGED <<members, was, tab, net>>
ElsewhereSignsOut ==
    /\ jar # EmptyJar
    /\ provider' = EndSession(jar.access.sid)
    /\ jar' = Applied(ClearAll)
    /\ UNCHANGED <<enrolled, members, was, tab, net>>

-----------------------------------------------------------------------------
(* The browser. *)
Quiet(t) == net[Page(t)].at = "idle"

(* The tab's page becomes v and awaits call. *)
Becomes(t, v, call, j) ==
    /\ tab' = [tab EXCEPT ![t] = v]
    /\ net' = [net EXCEPT ![Page(t)] = call]
    /\ jar' = j
    /\ UNCHANGED Server

(* The address bar, a link, a reload: what the old page awaited is dropped. *)
OpenPage(t, v) ==
    /\ tab' = [tab EXCEPT ![t] = v]
    /\ net' = [net EXCEPT ![Page(t)] = Idle, ![Command(t)] = Idle]
    /\ UNCHANGED <<Server, jar>>

JarExpires ==
    /\ jar.access.sid # 0
    /\ jar' = [jar EXCEPT !.access = EmptyJar.access]
    /\ UNCHANGED <<Server, tab, net>>

(* The answers a page may hear to a call of this kind: the one given, or none
   within the time it waits. *)
Heard(t, kinds) ==
    LET m == net[Page(t)]
    IN  IF m.at = "idle" \/ m.kind \notin kinds THEN {}
        ELSE {[m EXCEPT !.at = "answered", !.code = code, !.sets = Keep, !.eligible = {},
                        !.ctx = NoContext] :
                 code \in {"DENY_AUTHORITY_UNAVAILABLE", "DENY_NETWORK_FAILURE"}}
             \cup (IF m.at = "answered" THEN {m} ELSE {})

(* The sign-in page: each form is there in its stage only. *)
ShowsCredentials(v) == v.page = "sign-in" /\ v.stage = "credentials"
ShowsEnrolment(v) == v.page = "sign-in" /\ v.stage = "enroll"
ShowsCode(v) == v.page = "sign-in" /\ v.stage = "mfa"
ShowsTenants(v) == v.page = "sign-in" /\ v.stage = "tenant"

Submit(t) ==
    /\ ShowsCredentials(tab[t]) /\ Quiet(t)
    /\ \E u \in Users :
          Becomes(t, tab[t], Call(jar, "sign-in", NoTenant, FALSE, u), jar)

EnterCode(t) ==
    LET v == tab[t]
    IN  /\ ShowsEnrolment(v) \/ ShowsCode(v)
        /\ Quiet(t)
        /\ Becomes(t, v,
                   Call(jar, IF v.challenged THEN "verify" ELSE "challenge", NoTenant, TRUE, v.factor),
                   jar)

ChooseTenant(t) ==
    LET v == tab[t]
    IN  /\ ShowsTenants(v) /\ Quiet(t)
        /\ \E x \in v.eligible :
              IF v.source = "sign-in"
              THEN Becomes(t, [v EXCEPT !.choice = x], Call(jar, "sign-in", x, TRUE, v.user), jar)
              ELSE Becomes(t, [v EXCEPT !.choice = x], Resolve(jar, x), jar)

(* What an answer of the authentication routes leads to. *)
HearSignIn(t) ==
    \E m \in Heard(t, {"sign-in"}) :
        LET v == tab[t]
            j == Applied(m.sets)
        IN  CASE m.code = "SELECT" ->
                    Becomes(t, [v EXCEPT !.stage = "tenant", !.source = "sign-in",
                                         !.user = m.user, !.eligible = m.eligible], Idle, j)
              [] m.code = "MFA_ENROLL" -> Becomes(t, v, Call(j, "enroll", NoTenant, FALSE, NoUser), j)
              [] m.code = "MFA_CHALLENGE" ->
                    Becomes(t, v, Call(j, "challenge", NoTenant, FALSE, NoUser), j)
              [] m.code = "ALLOW" ->
                    Becomes(t, [v EXCEPT !.choice = NoTenant], Resolve(j, NoTenant), j)
              [] OTHER -> Becomes(t, v, Idle, j)

HearFactor(t) ==
    \E m \in Heard(t, {"enroll", "challenge", "verify"}) :
        LET v == tab[t]
            j == Applied(m.sets)
        IN  CASE m.code # "ALLOW" -> Becomes(t, v, Idle, j)
              [] m.code = "ALLOW" /\ m.kind = "enroll" ->
                    Becomes(t, [v EXCEPT !.stage = "enroll", !.factor = m.ctx.user,
                                         !.challenged = FALSE], Idle, j)
              [] m.code = "ALLOW" /\ m.kind = "challenge" /\ ~m.named ->
                    Becomes(t, [v EXCEPT !.stage = "mfa", !.factor = m.ctx.user,
                                         !.challenged = TRUE], Idle, j)
              [] m.code = "ALLOW" /\ m.kind = "challenge" /\ m.named ->
                    Becomes(t, [v EXCEPT !.challenged = TRUE],
                            Call(j, "verify", NoTenant, TRUE, v.factor), j)
              [] OTHER -> Becomes(t, [v EXCEPT !.choice = NoTenant], Resolve(j, NoTenant), j)

(* resolveAuthoritativeContext: two reads with the same hint, compared; both
   pages wait for its result. *)
FinishContext(v, code, eligible) ==
    CASE code = "SELECT" -> [v EXCEPT !.stage = "tenant", !.source = "session", !.eligible = eligible]
      [] code = "ALLOW"  -> ShellPage
      [] OTHER           -> v

ShellResolved(v, code, ctx, eligible) ==
    CASE code = "SELECT" -> {Move(v, "CHANGING_TENANT", NoContext, eligible)}
      [] code = "ALLOW"  ->
            {Move(v, "AUTHENTICATED", ctx, IF v.status = "CHANGING_TENANT" THEN v.eligible ELSE eligible),
             Move(v, "EXPIRED", NoContext, {})}
      [] OTHER           -> {Move(v, StateForDenial(code), NoContext, {})}

Resolved(t, code, ctx, eligible, j) ==
    LET v == [tab[t] EXCEPT !.first = NoContext]
    IN  \E next \in IF v.page = "sign-in" THEN {FinishContext(v, code, eligible)}
                    ELSE ShellResolved(v, code, ctx, eligible) :
           Becomes(t, next, Idle, j)

Agree(a, b) == a.user = b.user /\ a.tenant = b.tenant /\ a.role = b.role /\ a.version = b.version

HearFirst(t) ==
    \E m \in Heard(t, {"auth-session"}) :
        LET j == Applied(m.sets)
        IN  IF m.code = "ALLOW"
            THEN Becomes(t, [tab[t] EXCEPT !.first = m.ctx],
                         Call(j, "ops-session", tab[t].choice, FALSE, NoUser), j)
            ELSE Resolved(t, m.code, NoContext, m.eligible, j)

HearSecond(t) ==
    \E m \in Heard(t, {"ops-session"}) :
        IF m.code = "ALLOW" /\ ~Agree(tab[t].first, m.ctx)
        THEN Resolved(t, "DENY_AUTHORITY_VERSION_CONFLICT", NoContext, {}, jar)
        ELSE Resolved(t, IF m.code = "SELECT" THEN "DENY_TENANT_AMBIGUOUS" ELSE m.code,
                      m.ctx, m.eligible, jar)

(* The shell. *)
ResolveShell(t) ==
    LET v == tab[t]
    IN  /\ v.page = "shell" /\ Quiet(t) /\ (v.status = "BOOTING" \/ OffersRetry(v))
        /\ Becomes(t, [Move(v, "RESOLVING_SESSION", NoContext, {}) EXCEPT !.choice = NoTenant],
                   Resolve(jar, NoTenant), jar)

ChangeOrganization(t) ==
    LET v == tab[t]
    IN  /\ OffersChange(v)
        /\ Becomes(t, Move(v, "CHANGING_TENANT", NoContext, v.eligible), Idle, jar)

ChooseOrganization(t) ==
    LET v == tab[t]
    IN  /\ OffersOrganizations(v) /\ Quiet(t)
        /\ \E x \in v.eligible : Becomes(t, [v EXCEPT !.choice = x], Resolve(jar, x), jar)

ShellExpires(t) ==
    /\ tab[t].status = "AUTHENTICATED"
    /\ Becomes(t, Move(tab[t], "EXPIRED", NoContext, {}), Idle, jar)

SigningOut(v) == Move(v, "SIGNING_OUT", NoContext, {})
SignOutCall == Call(jar, "sign-out", NoTenant, FALSE, NoUser)
PurgeCall == [Idle EXCEPT !.at = "answered", !.kind = "purge"]

SignOut(t) ==
    LET v == tab[t]
    IN  /\ OffersSignOut(v)
        /\ Becomes(t, [SigningOut(v) EXCEPT !.failure = "none", !.leaving = v.shown.sid],
                   SignOutCall, jar)

RetryCleanup(t) ==
    LET v == tab[t]
    IN  /\ OffersCleanup(v) /\ Quiet(t)
        /\ Becomes(t, SigningOut(v), IF v.failure = "server" THEN SignOutCall ELSE PurgeCall, jar)

HearSignOut(t) ==
    \E m \in Heard(t, {"sign-out"}) :
        Becomes(t, [tab[t] EXCEPT !.failure = IF m.code = "ALLOW" THEN "none" ELSE "server"],
                PurgeCall, Applied(m.sets))

(* The purge of the browser's stores ends, with or without failures. *)
Purged(t) ==
    LET v == tab[t]
    IN  /\ net[Page(t)].kind = "purge"
        /\ \E clean \in BOOLEAN :
              IF v.failure # "server" /\ clean
              THEN Becomes(t, SignInPage, Idle, jar)
              ELSE Becomes(t, [Move(v, "SIGNED_OUT_CLEANUP_REQUIRED", NoContext, {}) EXCEPT
                                  !.failure = IF v.failure = "server" THEN "server" ELSE "cleanup"],
                           Idle, jar)

(* The settings panel: its calls go through authorityFetch, which answers a
   401 with one refresh and then repeats the call under the cookies it finds. *)
IssueCommand(t) ==
    /\ OffersSettings(tab[t]) /\ net[Command(t)].at = "idle"
    /\ net' = [net EXCEPT ![Command(t)] = Call(jar, "command", NoTenant, FALSE, NoUser)]
    /\ UNCHANGED <<Server, jar, tab>>

HearCommand(t) ==
    LET m == net[Command(t)]
        j == Applied(m.sets)
    IN  /\ m.at = "answered"
        /\ net' = [net EXCEPT ![Command(t)] =
                      CASE m.kind = "command" /\ Unauthorized(m.code) /\ ~m.named ->
                              Call(j, "refresh", NoTenant, FALSE, NoUser)
                        [] m.kind = "refresh" /\ m.code = "ALLOW" ->
                              Call(j, "command", NoTenant, TRUE, NoUser)
                        [] OTHER -> Idle]
        /\ jar' = j
        /\ UNCHANGED <<Server, tab>>

-----------------------------------------------------------------------------
Serve(c) == ServeSignIn(c) \/ ServeRead(c) \/ Authorize(c) \/ ServeRefresh(c) \/ ServeSignOut(c)
            \/ ServeOutside(c) \/ ServeNoSession(c) \/ ServeEnroll(c) \/ ServeChallenge(c) \/ ServeVerify(c)
            \/ ServiceFails(c)
Hear(t) == HearSignIn(t) \/ HearFactor(t) \/ HearFirst(t) \/ HearSecond(t) \/ HearSignOut(t)
           \/ Purged(t)
Acts(t) == Submit(t) \/ EnterCode(t) \/ ChooseTenant(t) \/ ChangeOrganization(t)
           \/ ChooseOrganization(t) \/ SignOut(t) \/ RetryCleanup(t) \/ IssueCommand(t)

Next ==
    \/ \E c \in Chans : Serve(c)
    \/ \E t \in Tabs : Hear(t) \/ Acts(t) \/ ResolveShell(t) \/ ShellExpires(t) \/ HearCommand(t)
    \/ \E t \in Tabs, v \in {SignInPage, ShellPage} : OpenPage(t, v)
    \/ \E sid \in Sids : SessionEnds(sid)
    \/ \E m \in Changes : ChangeMembership(m[1], m[2], m[3], m[4])
    \/ \E u \in Users, sid \in Sids : ElsewhereSignsIn(u, sid)
    \/ ElsewhereSignsOut \/ JarExpires

Spec == Init /\ [][Next]_vars

-----------------------------------------------------------------------------
(* The shapes of the state. *)
Contexts == [user : Users \cup {NoUser}, tenant : Tenants \cup {NoTenant}, role : Roles,
             version : Nat, sid : 0..MaxSessions, settings : BOOLEAN]
TypeOK ==
    /\ provider \in [Sids -> [user : Users \cup {NoUser}, aal : {1, 2}, live : BOOLEAN]]
    /\ enrolled \subseteq Users
    /\ \A u \in Users, x \in Tenants : members[u][x] = was[u][x][members[u][x].version]
    /\ jar.access \in [sid : 0..MaxSessions, aal : {1, 2}]
    /\ jar.refresh \in 0..MaxSessions
    /\ jar.tenant \in Tenants \cup {NoTenant}
    /\ \A t \in Tabs :
          /\ tab[t].page \in {"sign-in", "shell"} /\ tab[t].status \in DOMAIN Moves
          /\ tab[t].shown \in Contexts /\ tab[t].first \in Contexts
          /\ tab[t].eligible \subseteq Tenants /\ tab[t].failure \in {"none", "server", "cleanup"}
    /\ \A c \in Chans : net[c].at \in {"idle", "sent", "admitted", "answered"}
                        /\ net[c].ctx \in Contexts /\ net[c].eligible \subseteq Tenants

(* The context a shell shows was true at one instant: the membership of that
   version was active and of that role, the settings entry belongs to it, the
   session is that user's and passed the second factor where it is required,
   and an organization the user picked is the one shown.  The answers of two
   routes, each composed of several reads, are put together in between, while
   memberships change and another tab replaces the cookies.
   (authority-client.ts, http.ts, AuthenticatedProductShell.tsx) *)
ShownIsAuthorized ==
    \A t \in Tabs :
        LET s == tab[t].shown
        IN  s # NoContext =>
              /\ was[s.user][s.tenant][s.version].active
              /\ was[s.user][s.tenant][s.version].role = s.role
              /\ s.settings => <<s.role, ManageMembership[1], ManageMembership[2]>> \in Permissions
              /\ provider[s.sid].user = s.user
              /\ RequireAal2 => provider[s.sid].aal = 2 /\ s.user \in enrolled
              /\ tab[t].choice # NoTenant => s.tenant = tab[t].choice

(* A call to the session routes sent after its session ended is never allowed, whatever
   the cookies still say and however the sign-out, the refresh and the call overlap.
   (verifyAuthenticatedSession, signOut) *)
EndedSessionRefused ==
    \A c \in Chans :
        net[c].late /\ net[c].kind \in Reads =>
            net[c].at # "admitted" /\ net[c].code # "ALLOW"

(* The shell is never left waiting for nothing: while it says it resolves its session
   it awaits one of the two session routes, while it signs out it awaits the sign-out
   or the purge, while it offers organizations there are some, and in any other state
   it awaits nothing.  A move its table does not list is dropped without a word, so an
   answer that met a state without its move would leave the shell saying what is over.
   (The one answer that is dropped so, a 401 to the organization that was picked, finds
   the shell still offering the organizations, and leaves it there.)
   (transitionAuthorityState, resolve, signOut, retryCleanup) *)
ShellMovesOn ==
    \A t \in Tabs :
        LET kind == net[Page(t)].kind
        IN  tab[t].page = "shell" =>
               CASE tab[t].status = "RESOLVING_SESSION" -> kind \in Reads
                 [] tab[t].status = "SIGNING_OUT"       -> kind \in {"sign-out", "purge"}
                 [] tab[t].status = "CHANGING_TENANT"   -> kind \in Reads \cup {"none"} /\ tab[t].eligible # {}
                 [] OTHER                               -> kind = "none"
=============================================================================
