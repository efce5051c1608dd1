----------------------------- MODULE Accounts -----------------------------
(***************************************************************************)
(* User accounts: registration, login and lockout, refresh-token families, *)
(* two-factor secrets, changes of email and Stellar address, invitations   *)
(* to a team, erasure, its anonymisation job and the retention job.        *)
(*                                                                         *)
(* Passwords, emails and addresses are small numbers, 0 is null.  Access   *)
(* tokens, security events, emails and the profile fields without rules    *)
(* are left out, and so are WebAuthn (a stub) and the services that no     *)
(* module provides (session, two-factor, wallet and OAuth).                *)
(***************************************************************************)
EXTENDS Handlers

CONSTANTS
    Users,        \* people, positive; each has a Google account of its own
    Emails,       \* addresses, positive
    MaxFailed,    \* MAX_FAILED_ATTEMPTS
    LockTime,     \* LOCKOUT_DURATION_MINUTES
    RefreshTime,  \* JWT_REFRESH_EXPIRES_DAYS
    LinkTime,     \* EMAIL_TOKEN_TTL_H and INVITE_TTL_DAYS
    EraseWindow,  \* PII_ANONYMIZATION_WINDOW_DAYS
    KeepTime,     \* RETENTION_REFRESH_TOKENS_DAYS
    BatchSize     \* BATCH_SIZE of the anonymisation job

ASSUME AccountsAssumption ==
    /\ Users \subseteq Nat \ {0} /\ Emails \subseteq Nat \ {0}
    /\ {MaxFailed, LockTime, RefreshTime, LinkTime, EraseWindow, KeepTime, BatchSize} \subseteq Nat \ {0}
    /\ \A s \in Scopes : s.known \subseteq Users \cap Emails  \* registered before

VARIABLES
    user,      \* the User table
    tokens,    \* the RefreshToken table, by a number given at insertion
    minted,    \* the last such number
    missed,    \* history: failed logins of each user since the last success
    invites,   \* the TeamInvite table
    engaged,   \* users with an engagement under way (external)
    deletions  \* the DataDeletionRequest table

accountVars == <<user, tokens, minted, missed, invites, engaged, deletions>>

NoUser == [known |-> FALSE, email |-> 0, pw |-> 0, google |-> 0, secret |-> 0,
           totp |-> FALSE, fails |-> 0, locked |-> 0, pending |-> 0, until |-> 0,
           off |-> FALSE, deleted |-> 0, anon |-> FALSE, address |-> 0, owner |-> 0]
NewUser(e) == [NoUser EXCEPT !.known = TRUE, !.email = e, !.pw = 1]
Token == [user : Users, family : Nat, exp : Nat, consumed : BOOLEAN, revoked : BOOLEAN]
Invite == [owner : Users, email : Emails, exp : Nat, accepted : BOOLEAN]

\* The program points of its handlers.
AccountsPoints == {"insert", "issue", "reset", "failRead", "failWrite", "link", "rotate",
    "revokeFamily", "revoke", "update", "clearInvites", "insertInvite", "join", "deleteInvite",
    "erase", "processed", "batch", "purgeTokens", "purgeRequests"}

AccountsOK ==
    /\ \A u \in Users :
         /\ DOMAIN user[u] = DOMAIN NoUser
         /\ user[u].email \in Emails \cup {0} /\ user[u].pending \in Emails \cup {0}
         /\ user[u].google \in Users \cup {0} /\ user[u].owner \in Users \cup {0}
         /\ \A f \in {"pw", "secret", "fails", "locked", "until", "deleted", "address"} : user[u][f] \in Nat
    /\ DOMAIN tokens \subseteq 1..minted /\ \A n \in DOMAIN tokens : tokens[n] \in Token
    /\ missed \in [Users -> Nat] /\ engaged \subseteq Users
    /\ \A i \in DOMAIN invites : invites[i] \in Invite
    /\ \A d \in deletions : d.user \in Users /\ d.done \in BOOLEAN

AccountsInit ==
    /\ user = [u \in Users |-> IF u \in scope.known THEN NewUser(u) ELSE NoUser]
    /\ tokens = <<>> /\ minted = 0
    /\ missed = [u \in Users |-> 0] /\ invites = <<>> /\ engaged = {} /\ deletions = {}

WithEmail(e) == {u \in Users : user[u].known /\ user[u].email = e}
Write(u, r) == user' = [user EXCEPT ![u] = r]

\* A request that somebody makes for an account, noted when that is anonymised.
CallOf(w, u, op, pc, v) == CallNoting(w, op, pc, v, IF user[u].anon THEN {"late"} ELSE {})

-----------------------------------------------------------------------------
(* Registration and login *)

Register(w, u, e) ==
    /\ ~user[u].known
    /\ Call(w, "register", "insert", [u |-> u, r |-> NewUser(e)])
    /\ UNCHANGED accountVars

\* Email and Google id are unique: the later of two inserts raises.
InsertUser(w) ==
    LET u == Local(w).u
        r == Local(w).r
        taken == \E x \in Users : user[x].email = r.email \/ (r.google # 0 /\ user[x].google = r.google)
    IN  /\ At(w, "insert")
        /\ IF user[u].known \/ taken
           THEN End(w, "insert") /\ UNCHANGED user
           ELSE Goto(w, "insert", IF r.google = 0 THEN "issue" ELSE "reset") /\ Write(u, r)
        /\ UNCHANGED <<tokens, minted, missed, invites, engaged, deletions>>

\* What login does: refuse without a trace, count a failure, or admit.
Verdict(r, p, code) ==
    IF r.pw # p THEN "count"
    ELSE IF r.off \/ r.locked > now \/ (r.totp /\ code = "none") THEN "refuse"
    ELSE IF r.totp /\ code = "wrong" THEN "count" ELSE "admit"

Login(w, u, p, code) ==
    LET verdict == Verdict(user[u], p, code)
    IN  /\ user[u].known /\ user[u].email # 0 /\ verdict # "refuse"
        /\ CallOf(w, u, "login", IF verdict = "admit" THEN "reset" ELSE "failRead", [u |-> u])
        /\ missed' = IF verdict = "count" THEN [missed EXCEPT ![u] = @ + 1] ELSE missed
        /\ UNCHANGED <<user, tokens, minted, invites, engaged, deletions>>

\* handleFailedLogin reads the row again, then writes what it counted.
FailRead(w) ==
    /\ GotoWith(w, "failRead", "failWrite", [u |-> Local(w).u, n |-> user[Local(w).u].fails + 1])
    /\ UNCHANGED accountVars

MustLockBug(n) == n > MaxFailed
MustLock(n) == n >= MaxFailed

FailWrite(w) ==
    LET u == Local(w).u
        n == Local(w).n
    IN  /\ End(w, "failWrite")
        /\ Write(u, [user[u] EXCEPT !.fails = n, !.locked = IF MustLock(n) THEN now + LockTime ELSE @])
        /\ UNCHANGED <<tokens, minted, missed, invites, engaged, deletions>>

ResetFailedAttempts(w) ==
    LET u == Local(w).u
    IN  /\ Goto(w, "reset", "issue")
        /\ Write(u, [user[u] EXCEPT !.fails = 0, !.locked = 0])
        /\ missed' = [missed EXCEPT ![u] = 0]
        /\ UNCHANGED <<tokens, minted, invites, engaged, deletions>>

\* findFirst by the Google id or the email; another Google id is replaced.
LoginWithGoogle(w, g, e) ==
    LET found == {x \in Users : user[x].known /\ (user[x].google = g \/ user[x].email = e)}
    IN  /\ \/ /\ found = {}
              /\ \E u \in {x \in Users : ~user[x].known} :
                   Call(w, "google", "insert", [u |-> u, r |-> [NoUser EXCEPT !.known = TRUE, !.email = e, !.google = g]])
           \/ \E x \in found :
                /\ ~user[x].off /\ user[x].deleted = 0
                /\ CallOf(w, x, "google", IF user[x].google = g THEN "reset" ELSE "link", [u |-> x, g |-> g])
        /\ UNCHANGED accountVars

\* The Google id is unique too.
LinkGoogle(w) ==
    LET u == Local(w).u
    IN  /\ At(w, "link")
        /\ IF \E x \in Users \ {u} : user[x].google = Local(w).g
           THEN End(w, "link") /\ UNCHANGED user
           ELSE Goto(w, "link", "reset") /\ Write(u, [user[u] EXCEPT !.google = Local(w).g])
        /\ UNCHANGED <<tokens, minted, missed, invites, engaged, deletions>>

Mint(u, family, ts) ==
    /\ minted' = minted + 1
    /\ tokens' = [n \in DOMAIN ts \cup {minted + 1} |->
                    IF n \in DOMAIN ts THEN ts[n]
                    ELSE [user |-> u, family |-> family, exp |-> now + RefreshTime,
                          consumed |-> FALSE, revoked |-> FALSE]]

\* A login starts a token family.
IssueTokenPair(w) ==
    /\ End(w, "issue")
    /\ Mint(Local(w).u, minted + 1, tokens)
    /\ UNCHANGED <<user, missed, invites, engaged, deletions>>

-----------------------------------------------------------------------------
(* Refresh tokens *)

\* Reuse of a consumed token ends its family; a live one is rotated.
Refresh(w, n) ==
    /\ \/ tokens[n].consumed
       \/ ~tokens[n].revoked /\ tokens[n].exp > now
    /\ CallOf(w, tokens[n].user, "refresh", IF tokens[n].consumed THEN "revokeFamily" ELSE "rotate", [n |-> n])
    /\ UNCHANGED accountVars

RevokeFamily(w) ==
    LET n == Local(w).n
    IN  /\ End(w, "revokeFamily")
        /\ tokens' = [m \in DOMAIN tokens |->
             IF n \in DOMAIN tokens /\ tokens[m].family = tokens[n].family
             THEN [tokens[m] EXCEPT !.revoked = TRUE] ELSE tokens[m]]
        /\ UNCHANGED <<user, minted, missed, invites, engaged, deletions>>

RotatableBug(n) == n \in DOMAIN tokens /\ ~tokens[n].revoked
Rotatable(n) == n \in DOMAIN tokens /\ ~tokens[n].revoked /\ ~tokens[n].consumed

\* One transaction; the loser of a race raises in it, which also undoes the
\* revocation of the family it has just written.
RotateToken(w) ==
    LET n == Local(w).n
    IN  /\ End(w, "rotate")
        /\ IF Rotatable(n)
           THEN Mint(tokens[n].user, tokens[n].family, [tokens EXCEPT ![n].consumed = TRUE])
           ELSE UNCHANGED <<tokens, minted>>
        /\ UNCHANGED <<user, missed, invites, engaged, deletions>>

\* logout, and revokeSession of a user's own session.
Logout(w, n) ==
    /\ ~tokens[n].revoked
    /\ Call(w, "logout", "revoke", [n |-> n])
    /\ UNCHANGED accountVars

RevokeToken(w) ==
    LET n == Local(w).n
    IN  /\ End(w, "revoke")
        /\ tokens' = IF n \in DOMAIN tokens THEN [tokens EXCEPT ![n].revoked = TRUE] ELSE tokens
        /\ UNCHANGED <<user, minted, missed, invites, engaged, deletions>>

-----------------------------------------------------------------------------
(* Handlers that read the row, then update some of its fields *)

\* `set' names the fields to write and their values.
Change(w, u, op, set) ==
    /\ user[u].known
    /\ CallOf(w, u, op, "update", [u |-> u, set |-> set])
    /\ UNCHANGED accountVars

Updated(r, set) == [f \in DOMAIN r |-> IF f \in DOMAIN set THEN set[f] ELSE r[f]]

\* The update; email and address are unique, a duplicate raises.
UpdateUser(w) ==
    LET u == Local(w).u
        r == Updated(user[u], Local(w).set)
    IN  /\ End(w, "update")
        /\ IF \E x \in Users \ {u} : \/ r.email # 0 /\ user[x].email = r.email
                                     \/ r.address # 0 /\ user[x].address = r.address
           THEN UNCHANGED user ELSE Write(u, r)
        /\ UNCHANGED <<tokens, minted, missed, invites, engaged, deletions>>

\* With the right current password; sessions stay as they are.
ResetPassword(w, u, p) == user[u].pw # 0 /\ Change(w, u, "password", [pw |-> p])

\* Each secret is new: its number is that of the call.
GenerateTotpSecret(w, u) == ~user[u].totp /\ Change(w, u, "totp", [secret |-> calls + 1])
EnableTotp(w, u) ==
    user[u].secret # 0 /\ ~user[u].totp /\ Change(w, u, "totp", [totp |-> TRUE])
DisableTotp(w, u) == user[u].totp /\ Change(w, u, "totp", [totp |-> FALSE, secret |-> 0])

RequestEmailChange(w, u, e) ==
    WithEmail(e) = {} /\ Change(w, u, "email", [pending |-> e, until |-> now + LinkTime])

\* The link names the request that wrote it; an address that was taken in the
\* meantime ends the request.
ConfirmEmailChange(w, u) ==
    /\ user[u].pending # 0 /\ user[u].until >= now
    /\ Change(w, u, "email", IF WithEmail(user[u].pending) \ {u} # {} THEN [pending |-> 0, until |-> 0]
                             ELSE [email |-> user[u].pending, pending |-> 0, until |-> 0])

\* Only without engagements under the current address.
RebindStellarAddress(w, u, a) ==
    /\ user[u].address # a /\ (user[u].address = 0 \/ u \notin engaged)
    /\ \A x \in Users \ {u} : user[x].address # a
    /\ Change(w, u, "rebind", [address |-> a])

\* deactivateUser and reactivateUser.
SetDeactivated(w, u) == Change(w, u, "deactivate", [off |-> ~user[u].off])

-----------------------------------------------------------------------------
(* Invitations to a team *)

\* sendInvite deletes the pending invitations of the pair, then inserts one.
SendInvite(w, u, e) ==
    /\ user[u].known /\ WithEmail(e) = {}
    /\ Call(w, "invite", "clearInvites", [u |-> u, e |-> e, n |-> calls])
    /\ UNCHANGED accountVars

ClearInvites(w) ==
    LET gone(i) == invites[i].owner = Local(w).u /\ invites[i].email = Local(w).e /\ ~invites[i].accepted
    IN  /\ Goto(w, "clearInvites", "insertInvite")
        /\ invites' = [i \in {j \in DOMAIN invites : ~gone(j)} |-> invites[i]]
        /\ UNCHANGED <<user, tokens, minted, missed, engaged, deletions>>

InsertInvite(w) ==
    /\ End(w, "insertInvite")
    /\ invites' = [i \in DOMAIN invites \cup {Local(w).n} |->
                     IF i \in DOMAIN invites THEN invites[i]
                     ELSE [owner |-> Local(w).u, email |-> Local(w).e, exp |-> now + LinkTime, accepted |-> FALSE]]
    /\ UNCHANGED <<user, tokens, minted, missed, engaged, deletions>>

AcceptTeamInvite(w, u, i) ==
    /\ ~invites[i].accepted /\ invites[i].exp >= now /\ WithEmail(invites[i].email) = {}
    /\ ~user[u].known
    /\ Call(w, "join", "join", [u |-> u, i |-> i, row |-> invites[i]])
    /\ UNCHANGED accountVars

\* One transaction: the user, and the invitation, which must still be there.
JoinTeam(w) ==
    LET u == Local(w).u
        i == Local(w).i
        row == Local(w).row
    IN  /\ End(w, "join")
        /\ IF user[u].known \/ WithEmail(row.email) # {} \/ i \notin DOMAIN invites
           THEN UNCHANGED <<user, invites>>
           ELSE /\ Write(u, [NewUser(row.email) EXCEPT !.owner = row.owner])
                /\ invites' = [invites EXCEPT ![i].accepted = TRUE]
        /\ UNCHANGED <<tokens, minted, missed, engaged, deletions>>

RevokeInvite(w, i) ==
    /\ ~invites[i].accepted
    /\ Call(w, "uninvite", "deleteInvite", [i |-> i])
    /\ UNCHANGED accountVars

DeleteInvite(w) ==
    /\ End(w, "deleteInvite")
    /\ invites' = [i \in DOMAIN invites \ {Local(w).i} |-> invites[i]]
    /\ UNCHANGED <<user, tokens, minted, missed, engaged, deletions>>

-----------------------------------------------------------------------------
(* Erasure and retention *)

RequestErasure(w, u) ==
    /\ user[u].known /\ user[u].deleted = 0 /\ u \notin engaged
    /\ CallOf(w, u, "erase", "erase", [u |-> u, n |-> calls])
    /\ UNCHANGED accountVars

\* One transaction: the fields, and a request for an admin to process.
EraseUser(w) ==
    LET u == Local(w).u
    IN  /\ End(w, "erase")
        /\ Write(u, [user[u] EXCEPT !.email = 0, !.google = 0, !.deleted = now])
        /\ deletions' = deletions \cup {[user |-> u, n |-> Local(w).n, at |-> now, done |-> FALSE]}
        /\ UNCHANGED <<tokens, minted, missed, invites, engaged>>

ProcessRequest(w, d) ==
    /\ Call(w, "process", "processed", [d |-> d])
    /\ UNCHANGED accountVars

MarkProcessed(w) ==
    LET d == Local(w).d
    IN  /\ End(w, "processed")
        /\ deletions' = {IF x.user = d.user /\ x.n = d.n THEN [x EXCEPT !.done = TRUE] ELSE x : x \in deletions}
        /\ UNCHANGED <<user, tokens, minted, missed, invites, engaged>>

\* The accounts whose window has elapsed, a batch of those deleted longest ago.
DueAccounts == {u \in Users : user[u].deleted # 0 /\ user[u].deleted + EraseWindow < now /\ ~user[u].anon}
Batches == {b \in SUBSET DueAccounts :
              /\ Cardinality(b) = Min({BatchSize, Cardinality(DueAccounts)})
              /\ \A u \in b, x \in DueAccounts \ b : user[u].deleted <= user[x].deleted}

\* The job runs under a lock.
AnonymizeDueAccounts(w) ==
    /\ DueAccounts # {} /\ ~Running("anonymize")
    /\ \E b \in Batches : Call(w, "anonymize", "batch", [todo |-> b, full |-> Cardinality(b) = BatchSize])
    /\ UNCHANGED accountVars

AnonymizedBug(r) == [r EXCEPT !.email = 0, !.pw = 0, !.fails = 0, !.locked = 0, !.anon = TRUE]
Anonymized(r) == [r EXCEPT !.email = 0, !.pw = 0, !.secret = 0, !.totp = FALSE,
                           !.fails = 0, !.locked = 0, !.anon = TRUE]

\* One account in one transaction; an error leaves it to a later run.
AnonymizeUser(w) ==
    LET rest(u) == [req[w] EXCEPT !.v.todo = @ \ {u}]
    IN  /\ At(w, "batch")
        /\ \E u \in Local(w).todo :
             \/ /\ Become(w, "batch", rest(u))
                /\ Write(u, Anonymized(user[u]))
                /\ missed' = [missed EXCEPT ![u] = 0]
                /\ tokens' = [n \in DOMAIN tokens |-> IF tokens[n].user = u
                                THEN [tokens[n] EXCEPT !.revoked = TRUE] ELSE tokens[n]]
             \/ FailTo(w, "batch", "rpc", rest(u)) /\ UNCHANGED <<user, missed, tokens>>
        /\ UNCHANGED <<minted, invites, engaged, deletions>>

\* A full batch is followed by another, in the same run.
NextBatch(w) ==
    /\ At(w, "batch") /\ Local(w).todo = {}
    /\ IF Local(w).full
       THEN \E b \in Batches : GotoWith(w, "batch", "batch", [todo |-> b, full |-> Cardinality(b) = BatchSize])
       ELSE End(w, "batch")
    /\ UNCHANGED accountVars

\* enforceRetention: each category by itself; here refresh tokens, then requests.
EnforceRetention(w) == ~Running("retain") /\ Call(w, "retain", "purgeTokens", <<>>) /\ UNCHANGED accountVars

Stale(t) == t.exp - RefreshTime + KeepTime < now /\ (t.consumed \/ t.revoked \/ t.exp < now)

PurgeStaleRefreshTokens(w) ==
    /\ \/ Goto(w, "purgeTokens", "purgeRequests") /\ tokens' = [n \in {m \in DOMAIN tokens : ~Stale(tokens[m])} |-> tokens[n]]
       \/ FailTo(w, "purgeTokens", "rpc", [req[w] EXCEPT !.pc = "purgeRequests"]) /\ UNCHANGED tokens
    /\ UNCHANGED <<user, minted, missed, invites, engaged, deletions>>

PurgeProcessedDeletionRequests(w) ==
    /\ End(w, "purgeRequests")
    /\ deletions' = {d \in deletions : ~(d.done /\ d.at + KeepTime < now)}
    /\ UNCHANGED <<user, tokens, minted, missed, invites, engaged>>

\* An engagement of the user begins or ends.
EngagementMoves(u) ==
    /\ "engage" \in scope.ops /\ user[u].known
    /\ engaged' = IF u \in engaged THEN engaged \ {u} ELSE engaged \cup {u}
    /\ UNCHANGED <<control, user, tokens, minted, missed, invites, deletions>>

-----------------------------------------------------------------------------

AccountsTake(w) ==
    \/ \E u \in Users :
         \/ \E e \in Emails : \/ Register(w, u, e) \/ LoginWithGoogle(w, u, e)
                              \/ RequestEmailChange(w, u, e) \/ SendInvite(w, u, e)
         \/ \E p \in {1, 2}, code \in {"none", "wrong", "right"} : Login(w, u, p, code)
         \/ ResetPassword(w, u, 2) \/ ConfirmEmailChange(w, u) \/ SetDeactivated(w, u)
         \/ GenerateTotpSecret(w, u) \/ EnableTotp(w, u) \/ DisableTotp(w, u)
         \/ \E a \in {1, 2} : RebindStellarAddress(w, u, a)
         \/ \E i \in DOMAIN invites : AcceptTeamInvite(w, u, i)
         \/ RequestErasure(w, u)
    \/ \E n \in DOMAIN tokens : Refresh(w, n) \/ Logout(w, n)
    \/ \E i \in DOMAIN invites : RevokeInvite(w, i)
    \/ \E d \in deletions : ProcessRequest(w, d)
    \/ AnonymizeDueAccounts(w) \/ EnforceRetention(w)

AccountsStep(w) ==
    \/ InsertUser(w) \/ FailRead(w) \/ FailWrite(w) \/ ResetFailedAttempts(w) \/ LinkGoogle(w)
    \/ IssueTokenPair(w) \/ RevokeFamily(w) \/ RotateToken(w) \/ RevokeToken(w) \/ UpdateUser(w)
    \/ ClearInvites(w) \/ InsertInvite(w) \/ JoinTeam(w) \/ DeleteInvite(w) \/ EraseUser(w)
    \/ MarkProcessed(w) \/ AnonymizeUser(w) \/ NextBatch(w) \/ PurgeStaleRefreshTokens(w)
    \/ PurgeProcessedDeletionRequests(w)

AccountsNext ==
    \/ \E w \in Workers : AccountsTake(w) \/ AccountsStep(w)
    \/ \E u \in Users : EngagementMoves(u)

-----------------------------------------------------------------------------
(* Properties *)

Live(t) == ~t.consumed /\ ~t.revoked

\* Of one token family at most one token can still be exchanged, however many
\* refreshes, logouts and reuses of old tokens overlap.
OneLiveToken ==
    \A n, m \in DOMAIN tokens : (n # m /\ tokens[n].family = tokens[m].family) =>
        ~(Live(tokens[n]) /\ Live(tokens[m]))

\* With no two requests in flight at once and no crash, an account has a lock exactly if
\* its failures since the last login, by password or Google, reach the limit.
LockoutCounts ==
    (Quiet /\ {"overlap", "crash"} \cap upset = {}) =>
        \A u \in Users : (user[u].locked # 0) <=> (missed[u] >= MaxFailed)

\* Of what identifies or admits a person, the Stellar address apart, an anonymised
\* account keeps a pending change of email at most (anonymizeUser clears neither
\* pendingEmail nor emailChangeToken), and it has no session left, even if it was used
\* between its erasure and the end of the window; unless it was used since, or a
\* request of its overlapped the job.
OnlyPendingEmailStays ==
    ({"overlap", "late"} \cap upset = {}) =>
        \A u \in Users : user[u].anon =>
            /\ {f \in {"email", "pending", "pw", "google", "secret"} : user[u][f] # 0} \subseteq {"pending"}
            /\ ~user[u].totp
            /\ \A n \in DOMAIN tokens : tokens[n].user = u => ~Live(tokens[n])
=============================================================================
