--------------------------- MODULE AccountsProofs ---------------------------
(***************************************************************************)
(* Proofs about accounts and companies: one live token in a family, a lock *)
(* exactly at the limit of failed logins, nothing left in an anonymised    *)
(* account, and one owner of a company.                                    *)
(***************************************************************************)
EXTENDS ServicesProofs, FiniteSetTheorems, WellFoundedInduction

(***************************************************************************)
(* Accounts                                                                *)
(***************************************************************************)

\* A step of the accounts, or one elsewhere.
LEMMA AccountsMoves ==
    ASSUME Control, [Next]_serviceVars
    PROVE  AccountsNext \/ (Elsewhere(AccountsPoints) /\ UNCHANGED accountVars)
<1>1. CASE UNCHANGED serviceVars
  BY <1>1, ElsewhereSame DEF serviceVars
<1>2. CASE (\E t \in scope.times : Later(t)) /\ UNCHANGED accountVars
  BY <1>2, LaterElsewhere
<1>3. ASSUME NEW M, M \in {SlaPoints, CompaniesPoints, IdempotencyPoints, DeliveriesPoints, CreditPoints,
                          FilesPoints, SponsorPoints, {}}, Steps(M)
      PROVE  Elsewhere(AccountsPoints)
  <2>1. AccountsPoints \cap (M \cup {"idle"}) = {}
    BY <1>3 DEF CreditPoints, AccountsPoints, CompaniesPoints, IdempotencyPoints, DeliveriesPoints, SlaPoints,
                FilesPoints, SponsorPoints
  <2> QED BY <1>3, <2>1, StepsElsewhere
<1>4. CASE (\E w \in Workers : Crash(w)) /\ UNCHANGED accountVars
  BY <1>3, <1>4, CrashSteps DEF Control
<1> QED BY <1>1, <1>2, <1>3, <1>4, NextSteps

(***************************************************************************)
(* The invariant                                                           *)
(***************************************************************************)

Fields == {"known", "email", "pw", "google", "secret", "totp", "fails", "locked", "pending", "until",
           "off", "deleted", "anon", "address", "owner"}
IsAccount(r) == DOMAIN r = Fields /\ r.fails \in Nat
IsToken(t) ==
    /\ t = [user |-> t.user, family |-> t.family, exp |-> t.exp, consumed |-> t.consumed, revoked |-> t.revoked]
    /\ t.user \in Users

AccountRows ==
    /\ user = [u \in Users |-> user[u]] /\ \A u \in Users : IsAccount(user[u])
    /\ missed \in [Users -> Nat]

\* Tokens are numbered from 1, and a family has the number of its first token.
TokenRows ==
    /\ minted \in Nat /\ tokens = [n \in DOMAIN tokens |-> tokens[n]]
    /\ \A n \in DOMAIN tokens : n \in 1..minted /\ IsToken(tokens[n]) /\ tokens[n].family \in 1..minted

\* The locals of a worker.
IsFresh(r) == IsAccount(r) /\ r.known = TRUE /\ r.anon = FALSE /\ r.fails = 0 /\ r.locked = 0 /\ r.deleted = 0
Kept == {"known", "google", "fails", "locked", "deleted", "anon"}
AccountLocal(w) ==
    LET v == req[w].v
    IN  /\ req[w].pc \in {"insert", "reset", "issue", "failRead", "failWrite", "link", "update", "join", "erase"}
              => v.u \in Users
        /\ req[w].pc = "insert" => IsFresh(v.r)
        /\ req[w].pc = "failWrite" => v.n \in Nat
        /\ req[w].pc = "update" => DOMAIN v.set \cap Kept = {}
        /\ req[w].pc = "batch" => v = [todo |-> v.todo, full |-> v.full] /\ v.todo \subseteq Users

\* A request under way, none of whose kind overlapped another, is for an account
\* that is not anonymised; the anonymisation is of erased ones.
Emptied(u) ==
    user[u].anon =>
        /\ user[u].email = 0 /\ user[u].pw = 0 /\ user[u].google = 0
        /\ user[u].secret = 0 /\ ~user[u].totp
        /\ \A n \in DOMAIN tokens : tokens[n].user = u => ~Live(tokens[n])
Erased(u) == user[u].deleted # 0 => user[u].google = 0
Unanonymized(w) ==
    LET v == req[w].v
    IN  /\ req[w].pc \in {"reset", "issue", "failRead", "failWrite", "link", "update", "erase"} => ~user[v.u].anon
        /\ req[w].pc = "link" => user[v.u].deleted = 0
        /\ req[w].pc = "rotate" => (v.n \in DOMAIN tokens => ~user[tokens[v.n].user].anon)
        /\ req[w].pc = "batch" => \A u \in v.todo : user[u].deleted # 0
NoneLate == "overlap" \notin upset /\ "late" \notin upset

\* A failure that is counted but not written yet is in the hands of a worker.
Counting(w) == req[w].pc \in {"failRead", "failWrite"}
Counted(u) ==
    /\ user[u].locked # 0 <=> user[u].fails >= MaxFailed
    /\ missed[u] # 0 => user[u].known
    /\ user[u].fails # missed[u] => \E w \in Workers : Counting(w) /\ req[w].v.u = u
CountInHand(w) ==
    /\ Counting(w) => missed[req[w].v.u] = user[req[w].v.u].fails + 1
    /\ req[w].pc = "failWrite" => req[w].v.n = missed[req[w].v.u]
NoneCut == "overlap" \notin upset /\ "crash" \notin upset

AccountsInv ==
    /\ AccountRows /\ TokenRows /\ OneLiveToken
    /\ \A w \in Workers : AccountLocal(w)
    /\ NoneLate => (\A u \in Users : Emptied(u) /\ Erased(u)) /\ \A w \in Workers : Unanonymized(w)
    /\ NoneCut => (\A u \in Users : Counted(u)) /\ \A w \in Workers : CountInHand(w)

(***************************************************************************)
(* Steps                                                                   *)
(***************************************************************************)

\* A step of w: the others stay, and are idle unless requests overlap.
Mine(w) ==
    /\ \A x \in Workers \ {w} : req'[x] = req[x]
    /\ "overlap" \notin upset' => \A x \in Workers \ {w} : req[x].pc = "idle"
    /\ upset \subseteq upset'

\* Taking up an operation changes the worker's own entry, from idle.
LEMMA CallMine ==
    ASSUME Control, NEW w \in Workers, NEW op, NEW pc, NEW v, NEW what, CallNoting(w, op, pc, v, what)
    PROVE  Mine(w) /\ req'[w].pc = pc /\ req'[w].v = v /\ what \subseteq upset' /\ req[w].pc = "idle"
<1>1. Steps({pc}) /\ req'[w] = [pc |-> pc, op |-> op, v |-> v] /\ req[w].pc = "idle"
  BY CallSteps DEF Control
<1>2. req' = [req EXCEPT ![w] = [pc |-> pc, op |-> op, v |-> v]]
      /\ upset' = upset \cup what \cup (IF Quiet THEN {} ELSE {"overlap"})
  BY DEF CallNoting
<1>3. \A x \in Workers \ {w} : req'[x] = req[x]
  BY <1>2 DEF Control, ReqOK
<1>4. "overlap" \notin upset' => Quiet
  BY <1>2
<1> QED BY <1>1, <1>2, <1>3, <1>4 DEF Mine, Quiet, At

\* The next step of a handler changes its own entry only.
LEMMA BecomeMine ==
    ASSUME Control, NEW w \in Workers, NEW from, NEW r, Become(w, from, r), from # "idle"
    PROVE  Mine(w) /\ req'[w] = r /\ req[w].pc = from /\ upset' = upset
<1>1. req' = [req EXCEPT ![w] = r] /\ req[w].pc = from /\ upset' = upset
  BY DEF Become, At
<1>2. req'[w] = r /\ \A x \in Workers \ {w} : req'[x] = req[x]
  BY <1>1 DEF Control, ReqOK
<1>3. "overlap" \notin upset => \A x \in Workers \ {w} : req[x].pc = "idle"
  BY <1>1 DEF Control
<1> QED BY <1>1, <1>2, <1>3 DEF Mine

\* Going on with the same locals.
LEMMA GotoMine ==
    ASSUME Control, NEW w \in Workers, NEW from, NEW to, Goto(w, from, to), from # "idle"
    PROVE  Mine(w) /\ req'[w].pc = to /\ req'[w].v = req[w].v /\ req[w].pc = from /\ upset' = upset
<1>1. PICK r : r = [req[w] EXCEPT !.pc = to]
  OBVIOUS
<1>2. r.pc = to /\ r.v = req[w].v
  BY <1>1, EntryFields DEF Control
<1>3. Become(w, from, r)
  BY <1>1 DEF Goto
<1> QED BY <1>2, <1>3, BecomeMine

\* Going on with other locals.
LEMMA GotoWithMine ==
    ASSUME Control, NEW w \in Workers, NEW from, NEW to, NEW v, GotoWith(w, from, to, v), from # "idle"
    PROVE  Mine(w) /\ req'[w].pc = to /\ req'[w].v = v /\ req[w].pc = from /\ upset' = upset
<1>1. Steps({from, to}) /\ req'[w].pc = to /\ req'[w].v = v /\ req[w].pc = from
  BY GotoWithSteps DEF Control
<1>2. \E r : Become(w, from, r)
  BY DEF GotoWith
<1> QED BY <1>1, <1>2, BecomeMine

\* The end of a handler.
LEMMA EndMine ==
    ASSUME Control, NEW w \in Workers, NEW from, End(w, from), from # "idle"
    PROVE  Mine(w) /\ req'[w].pc = "idle" /\ req[w].pc = from /\ upset' = upset
  BY BecomeMine, IdleEntry DEF End

\* A failure, which is noted.
LEMMA FailMine ==
    ASSUME Control, NEW w \in Workers, NEW from, NEW kind, NEW r, FailTo(w, from, kind, r), from # "idle"
    PROVE  Mine(w) /\ req'[w] = r /\ req[w].pc = from /\ upset' = upset \cup {kind}
<1>1. req' = [req EXCEPT ![w] = r] /\ req[w].pc = from /\ upset' = upset \cup {kind}
  BY DEF FailTo, At
<1>2. req'[w] = r /\ \A x \in Workers \ {w} : req'[x] = req[x]
  BY <1>1 DEF Control, ReqOK
<1>3. "overlap" \notin upset => \A x \in Workers \ {w} : req[x].pc = "idle"
  BY <1>1 DEF Control
<1> QED BY <1>1, <1>2, <1>3 DEF Mine

\* Nothing that concerns the invariant happens, but a worker may crash.
LEMMA AccountsElsewhere ==
    ASSUME AccountsInv, UNCHANGED <<user, tokens, minted, missed>>, upset \subseteq upset',
           \A w \in Workers :
             /\ req'[w] = req[w] \/ req'[w].pc \notin AccountsPoints
             /\ req[w].pc \in AccountsPoints => req'[w] = req[w] \/ "crash" \in upset'
    PROVE  AccountsInv'
<1>1. AccountRows' /\ TokenRows' /\ OneLiveToken'
  BY DEF AccountsInv, AccountRows, TokenRows, OneLiveToken
<1>2. ASSUME NEW w \in Workers PROVE AccountLocal(w)'
  <2>1. CASE req'[w] = req[w]
    BY <2>1 DEF AccountsInv, AccountLocal
  <2>2. CASE req'[w].pc \notin AccountsPoints
    BY <2>2 DEF AccountLocal, AccountsPoints
  <2> QED BY <2>1, <2>2
<1>3. ASSUME NoneLate' PROVE (\A u \in Users : Emptied(u)' /\ Erased(u)') /\ \A w \in Workers : Unanonymized(w)'
  <2>1. NoneLate
    BY <1>3 DEF NoneLate
  <2>2. \A u \in Users : Emptied(u)' /\ Erased(u)'
    BY <2>1 DEF AccountsInv, Emptied, Erased
  <2>3. ASSUME NEW w \in Workers PROVE Unanonymized(w)'
    <3>1. CASE req'[w] = req[w]
      BY <2>1, <3>1 DEF AccountsInv, Unanonymized
    <3>2. CASE req'[w].pc \notin AccountsPoints
      BY <3>2 DEF Unanonymized, AccountsPoints
    <3> QED BY <3>1, <3>2
  <2> QED BY <2>2, <2>3
<1>4. ASSUME NoneCut' PROVE (\A u \in Users : Counted(u)') /\ \A w \in Workers : CountInHand(w)'
  <2>1. NoneCut
    BY <1>4 DEF NoneCut
  <2>2. ASSUME NEW w \in Workers, Counting(w) PROVE req'[w] = req[w]
    BY <1>4, <2>2 DEF Counting, AccountsPoints, NoneCut
  <2>3. ASSUME NEW u \in Users PROVE Counted(u)'
    <3>1. Counted(u)
      BY <2>1 DEF AccountsInv
    <3> QED BY <2>2, <3>1 DEF Counted, Counting
  <2>4. ASSUME NEW w \in Workers PROVE CountInHand(w)'
    <3>1. CASE req'[w] = req[w]
      BY <2>1, <3>1 DEF AccountsInv, CountInHand, Counting
    <3>2. CASE req'[w].pc \notin AccountsPoints
      BY <3>2 DEF CountInHand, Counting, AccountsPoints
    <3> QED BY <3>1, <3>2
  <2> QED BY <2>3, <2>4
<1> QED BY <1>1, <1>2, <1>3, <1>4 DEF AccountsInv

\* A step of w, by its parts.
LEMMA AccountsStep1 ==
    ASSUME AccountsInv, NEW w \in Workers, Mine(w), AccountRows', TokenRows', OneLiveToken', AccountLocal(w)',
           NoneLate' => (\A u \in Users : Emptied(u)' /\ Erased(u)') /\ Unanonymized(w)',
           NoneCut' => (\A u \in Users : Counted(u)') /\ CountInHand(w)'
    PROVE  AccountsInv'
<1>1. ASSUME NEW x \in Workers PROVE AccountLocal(x)'
  BY DEF AccountsInv, AccountLocal, Mine
<1>2. ASSUME NoneLate', NEW x \in Workers PROVE Unanonymized(x)'
  BY <1>2 DEF NoneLate, Mine, Unanonymized
<1>3. ASSUME NoneCut', NEW x \in Workers PROVE CountInHand(x)'
  BY <1>3 DEF NoneCut, Mine, CountInHand, Counting
<1> QED BY <1>1, <1>2, <1>3 DEF AccountsInv

(***************************************************************************)
(* Operations taken up                                                     *)
(***************************************************************************)

\* Taking up an operation with sound locals leaves the tables alone.
LEMMA AccountsTaken ==
    ASSUME Control, AccountsInv, NEW w \in Workers, NEW op, NEW pc, NEW v, NEW what,
           CallNoting(w, op, pc, v, what), pc \in AccountsPoints, pc \notin {"failRead", "failWrite"},
           UNCHANGED <<user, tokens, minted, missed>>, AccountLocal(w)', NoneLate' => Unanonymized(w)'
    PROVE  AccountsInv'
<1>1. Mine(w) /\ req'[w].pc = pc /\ req[w].pc = "idle"
  BY CallMine
<1>2. AccountRows' /\ TokenRows' /\ OneLiveToken'
  BY DEF AccountsInv, AccountRows, TokenRows, OneLiveToken
<1>3. ASSUME NoneLate' PROVE (\A u \in Users : Emptied(u)' /\ Erased(u)') /\ Unanonymized(w)'
  <2>1. NoneLate
    BY <1>1, <1>3 DEF NoneLate, Mine
  <2> QED BY <1>3, <2>1 DEF AccountsInv, Emptied, Erased
<1>4. ASSUME NoneCut' PROVE (\A u \in Users : Counted(u)') /\ CountInHand(w)'
  <2>1. NoneCut
    BY <1>1, <1>4 DEF NoneCut, Mine
  <2>2. ASSUME NEW x \in Workers, Counting(x) PROVE req'[x] = req[x]
    BY <1>1, <2>2 DEF Counting, Mine
  <2>3. ASSUME NEW u \in Users PROVE Counted(u)'
    <3>1. Counted(u)
      BY <2>1 DEF AccountsInv
    <3> QED BY <2>2, <3>1 DEF Counted, Counting
  <2>4. CountInHand(w)'
    BY <1>1 DEF CountInHand, Counting
  <2> QED BY <2>3, <2>4
<1> QED BY <1>1, <1>2, <1>3, <1>4, AccountsStep1

\* A call for an account that is anonymised is noted.
LEMMA CallOfNotes ==
    ASSUME Control, NEW w \in Workers, NEW u \in Users, NEW op, NEW pc, NEW v, CallOf(w, u, op, pc, v),
           pc \in AccountsPoints
    PROVE  /\ \E what : CallNoting(w, op, pc, v, what)
           /\ req'[w].pc = pc /\ req'[w].v = v /\ (NoneLate' => ~user[u].anon)
<1>1. PICK what : what = IF user[u].anon THEN {"late"} ELSE {}
  OBVIOUS
<1>2. CallNoting(w, op, pc, v, what)
  BY <1>1 DEF CallOf
<1>3. req'[w].pc = pc /\ req'[w].v = v /\ what \subseteq upset'
  BY <1>2, CallMine
<1>4. NoneLate' => ~user[u].anon
  BY <1>1, <1>3 DEF NoneLate
<1> QED BY <1>2, <1>3, <1>4

\* The rows that registration and a Google login insert.
LEMMA NewRowFresh ==
    /\ \A e : IsFresh(NewUser(e))
    /\ \A e, g : IsFresh([NoUser EXCEPT !.known = TRUE, !.email = e, !.google = g])
<1>1. ASSUME NEW e PROVE IsFresh(NewUser(e))
  BY DEF NewUser, NoUser, IsFresh, IsAccount, Fields
<1>2. ASSUME NEW e, NEW g PROVE IsFresh([NoUser EXCEPT !.known = TRUE, !.email = e, !.google = g])
  BY DEF NoUser, IsFresh, IsAccount, Fields
<1> QED BY <1>1, <1>2

\* A call that leaves no trace in the tables: one that is for no account.
LEMMA PlainCalls ==
    ASSUME Control, AccountsInv, NEW w \in Workers,
           \/ \E u \in Users, e \in Emails : Register(w, u, e) \/ SendInvite(w, u, e)
           \/ \E u \in Users : \E i \in DOMAIN invites : AcceptTeamInvite(w, u, i)
           \/ \E n \in DOMAIN tokens : Logout(w, n)
           \/ \E i \in DOMAIN invites : RevokeInvite(w, i)
           \/ \E d \in deletions : ProcessRequest(w, d)
           \/ AnonymizeDueAccounts(w) \/ EnforceRetention(w)
    PROVE  AccountsInv'
<1>1. ASSUME NEW op, NEW pc, NEW v, CallNoting(w, op, pc, v, {}), UNCHANGED accountVars,
             \/ pc \in {"clearInvites", "revoke", "deleteInvite", "processed", "purgeTokens"}
             \/ pc \in {"insert", "join"} /\ v.u \in Users /\ (pc = "insert" => IsFresh(v.r))
             \/ pc = "batch" /\ v = [todo |-> v.todo, full |-> v.full] /\ v.todo \subseteq DueAccounts
      PROVE  AccountsInv'
  <2>1. pc \in AccountsPoints /\ pc \notin {"failRead", "failWrite"}
    BY <1>1 DEF AccountsPoints
  <2>2. req'[w].pc = pc /\ req'[w].v = v
    BY <1>1, <2>1, CallMine
  <2>3. \A u \in DueAccounts : u \in Users /\ user[u].deleted # 0
    BY DEF DueAccounts
  <2>4. UNCHANGED <<user, tokens, minted, missed>>
    BY <1>1 DEF accountVars
  <2>5. AccountLocal(w)'
    BY <1>1, <2>2, <2>3 DEF AccountLocal
  <2>6. Unanonymized(w)'
    BY <1>1, <2>2, <2>3, <2>4 DEF Unanonymized
  <2> QED BY <1>1, <2>1, <2>4, <2>5, <2>6, AccountsTaken
<1>2. ASSUME NEW u \in Users, NEW e \in Emails, Register(w, u, e) PROVE AccountsInv'
  <2>1. PICK v : v = [u |-> u, r |-> NewUser(e)]
    OBVIOUS
  <2>2. CallNoting(w, "register", "insert", v, {}) /\ UNCHANGED accountVars
    BY <1>2, <2>1 DEF Register, Call
  <2>3. v.u \in Users /\ IsFresh(v.r)
    BY <2>1, NewRowFresh
  <2> QED BY <1>1, <2>2, <2>3
<1>3. ASSUME NEW u \in Users, NEW e \in Emails, SendInvite(w, u, e) PROVE AccountsInv'
  <2>1. \E op, v : CallNoting(w, op, "clearInvites", v, {}) /\ UNCHANGED accountVars
    BY <1>3 DEF SendInvite, Call
  <2> QED BY <1>1, <2>1
<1>4. ASSUME NEW u \in Users, NEW i, AcceptTeamInvite(w, u, i) PROVE AccountsInv'
  <2>1. PICK v : v = [u |-> u, i |-> i, row |-> invites[i]]
    OBVIOUS
  <2>2. CallNoting(w, "join", "join", v, {}) /\ UNCHANGED accountVars
    BY <1>4, <2>1 DEF AcceptTeamInvite, Call
  <2>3. v.u \in Users
    BY <2>1
  <2> QED BY <1>1, <2>2, <2>3
<1>5. CASE \/ \E n \in DOMAIN tokens : Logout(w, n)
           \/ \E i \in DOMAIN invites : RevokeInvite(w, i)
           \/ \E d \in deletions : ProcessRequest(w, d)
           \/ EnforceRetention(w)
  <2>1. PICK op, pc, v : CallNoting(w, op, pc, v, {}) /\ UNCHANGED accountVars
                         /\ pc \in {"revoke", "deleteInvite", "processed", "purgeTokens"}
    BY <1>5 DEF Logout, RevokeInvite, ProcessRequest, EnforceRetention, Call
  <2> QED BY <1>1, <2>1
<1>6. CASE AnonymizeDueAccounts(w)
  <2>1. PICK b \in Batches : Call(w, "anonymize", "batch", [todo |-> b, full |-> Cardinality(b) = BatchSize])
    BY <1>6 DEF AnonymizeDueAccounts
  <2>2. PICK v : v = [todo |-> b, full |-> Cardinality(b) = BatchSize]
    OBVIOUS
  <2>3. CallNoting(w, "anonymize", "batch", v, {}) /\ UNCHANGED accountVars
    BY <1>6, <2>1, <2>2 DEF AnonymizeDueAccounts, Call
  <2>4. v = [todo |-> v.todo, full |-> v.full] /\ v.todo \subseteq DueAccounts
    BY <2>2 DEF Batches
  <2> QED BY <1>1, <2>3, <2>4
<1> QED BY <1>2, <1>3, <1>4, <1>5, <1>6

\* A call for an account.
LEMMA AccountCalls ==
    ASSUME Control, AccountsInv, NEW w \in Workers, NEW u \in Users, NEW op, NEW pc, NEW v,
           CallOf(w, u, op, pc, v), UNCHANGED accountVars,
           \/ pc \in {"reset", "link", "update", "erase"} /\ v.u = u
           \/ pc \in {"rotate", "revokeFamily"} /\ tokens[v.n].user = u,
           pc = "update" => DOMAIN v.set \cap Kept = {},
           pc = "link" => user[u].deleted = 0
    PROVE  AccountsInv'
<1>1. pc \in AccountsPoints /\ pc \notin {"failRead", "failWrite"}
  BY DEF AccountsPoints
<1>2. PICK what : CallNoting(w, op, pc, v, what)
  BY <1>1, CallOfNotes
<1>3. req'[w].pc = pc /\ req'[w].v = v /\ (NoneLate' => ~user[u].anon)
  BY <1>1, CallOfNotes
<1>4. UNCHANGED <<user, tokens, minted, missed>>
  BY DEF accountVars
<1>5. AccountLocal(w)'
  BY <1>3 DEF AccountLocal
<1>6. NoneLate' => Unanonymized(w)'
  BY <1>3, <1>4 DEF Unanonymized
<1> QED BY <1>1, <1>2, <1>4, <1>5, <1>6, AccountsTaken

\* Requests for a change of a user's fields are taken up.
LEMMA ChangesKeep ==
    ASSUME Control, AccountsInv, NEW w \in Workers, NEW u \in Users,
           \/ \E e \in Emails : RequestEmailChange(w, u, e)
           \/ ResetPassword(w, u, 2) \/ ConfirmEmailChange(w, u) \/ SetDeactivated(w, u)
           \/ GenerateTotpSecret(w, u) \/ EnableTotp(w, u) \/ DisableTotp(w, u)
           \/ \E a \in {1, 2} : RebindStellarAddress(w, u, a)
    PROVE  AccountsInv'
<1>1. ASSUME NEW op, NEW set, Change(w, u, op, set), DOMAIN set \cap Kept = {} PROVE AccountsInv'
  <2>1. PICK v : v = [u |-> u, set |-> set]
    OBVIOUS
  <2>2. CallOf(w, u, op, "update", v) /\ UNCHANGED accountVars
    BY <1>1, <2>1 DEF Change
  <2>3. v.u = u /\ DOMAIN v.set \cap Kept = {}
    BY <1>1, <2>1
  <2> QED BY <2>2, <2>3, AccountCalls
<1>2. CASE \E e \in Emails : RequestEmailChange(w, u, e)
  <2>1. PICK e : Change(w, u, "email", [pending |-> e, until |-> now + LinkTime])
    BY <1>2 DEF RequestEmailChange
  <2>2. DOMAIN [pending |-> e, until |-> now + LinkTime] \cap Kept = {}
    BY DEF Kept
  <2> QED BY <1>1, <2>1, <2>2
<1>3. CASE ConfirmEmailChange(w, u)
  <2>1. PICK set : /\ Change(w, u, "email", set)
                   /\ \/ set = [pending |-> 0, until |-> 0]
                      \/ set = [email |-> user[u].pending, pending |-> 0, until |-> 0]
    BY <1>3 DEF ConfirmEmailChange
  <2>2. DOMAIN set \cap Kept = {}
    BY <2>1 DEF Kept
  <2> QED BY <1>1, <2>1, <2>2
<1>4. CASE ResetPassword(w, u, 2) \/ SetDeactivated(w, u) \/ GenerateTotpSecret(w, u) \/ EnableTotp(w, u)
           \/ (\E a \in {1, 2} : RebindStellarAddress(w, u, a))
  <2>1. PICK op, set : /\ Change(w, u, op, set)
                       /\ \/ \E x : set = [pw |-> x]
                          \/ \E x : set = [off |-> x]
                          \/ \E x : set = [secret |-> x]
                          \/ \E x : set = [totp |-> x]
                          \/ \E x : set = [address |-> x]
    BY <1>4 DEF ResetPassword, SetDeactivated, GenerateTotpSecret, EnableTotp, RebindStellarAddress
  <2>2. DOMAIN set \cap Kept = {}
    BY <2>1 DEF Kept
  <2> QED BY <1>1, <2>1, <2>2
<1>5. CASE DisableTotp(w, u)
  <2>1. Change(w, u, "totp", [totp |-> FALSE, secret |-> 0])
    BY <1>5 DEF DisableTotp
  <2>2. DOMAIN [totp |-> FALSE, secret |-> 0] \cap Kept = {}
    BY DEF Kept
  <2> QED BY <1>1, <2>1, <2>2
<1> QED BY <1>2, <1>3, <1>4, <1>5

\* Erasure, Google login and refresh are taken up.
LEMMA OthersCalls ==
    ASSUME Control, AccountsInv, NEW w \in Workers,
           \/ \E u \in Users : RequestErasure(w, u) \/ \E e \in Emails : LoginWithGoogle(w, u, e)
           \/ \E n \in DOMAIN tokens : Refresh(w, n)
    PROVE  AccountsInv'
<1>1. ASSUME NEW u \in Users, RequestErasure(w, u) PROVE AccountsInv'
  <2>1. PICK v : v = [u |-> u, n |-> calls]
    OBVIOUS
  <2>2. CallOf(w, u, "erase", "erase", v) /\ UNCHANGED accountVars /\ v.u = u
    BY <1>1, <2>1 DEF RequestErasure
  <2> QED BY <2>2, AccountCalls
<1>2. ASSUME NEW n \in DOMAIN tokens, Refresh(w, n) PROVE AccountsInv'
  <2>1. PICK v : v = [n |-> n]
    OBVIOUS
  <2>2. PICK pc : pc \in {"rotate", "revokeFamily"} /\ CallOf(w, tokens[n].user, "refresh", pc, v)
    BY <1>2, <2>1 DEF Refresh
  <2>3. tokens[n].user \in Users
    BY DEF AccountsInv, TokenRows, IsToken
  <2>4. UNCHANGED accountVars /\ tokens[v.n].user = tokens[n].user
    BY <1>2, <2>1 DEF Refresh
  <2> QED BY <2>2, <2>3, <2>4, AccountCalls
<1>3. ASSUME NEW g \in Users, NEW e \in Emails, LoginWithGoogle(w, g, e) PROVE AccountsInv'
  <2>1. UNCHANGED accountVars
    BY <1>3 DEF LoginWithGoogle
  <2>2. \/ \E u \in Users :
             Call(w, "google", "insert", [u |-> u, r |-> [NoUser EXCEPT !.known = TRUE, !.email = e, !.google = g]])
        \/ \E x \in Users : /\ user[x].deleted = 0
                            /\ CallOf(w, x, "google", IF user[x].google = g THEN "reset" ELSE "link", [u |-> x, g |-> g])
    BY <1>3 DEF LoginWithGoogle
  <2>3. ASSUME NEW u \in Users,
               Call(w, "google", "insert", [u |-> u, r |-> [NoUser EXCEPT !.known = TRUE, !.email = e, !.google = g]])
        PROVE  AccountsInv'
    <3>1. PICK r : r = [NoUser EXCEPT !.known = TRUE, !.email = e, !.google = g]
      OBVIOUS
    <3>2. PICK v : v = [u |-> u, r |-> r]
      OBVIOUS
    <3>3. CallNoting(w, "google", "insert", v, {})
      BY <2>3, <3>1, <3>2 DEF Call
    <3>4. IsFresh(r) /\ "insert" \in AccountsPoints
      BY <3>1, NewRowFresh DEF AccountsPoints
    <3>5. req'[w].pc = "insert" /\ req'[w].v = v
      BY <3>3, <3>4, CallMine
    <3>6. UNCHANGED <<user, tokens, minted, missed>>
      BY <2>1 DEF accountVars
    <3>7. AccountLocal(w)' /\ Unanonymized(w)'
      BY <3>2, <3>4, <3>5 DEF AccountLocal, Unanonymized
    <3> QED BY <3>3, <3>4, <3>6, <3>7, AccountsTaken
  <2>4. ASSUME NEW x \in Users, user[x].deleted = 0,
               CallOf(w, x, "google", IF user[x].google = g THEN "reset" ELSE "link", [u |-> x, g |-> g])
        PROVE  AccountsInv'
    <3>1. PICK v : v = [u |-> x, g |-> g]
      OBVIOUS
    <3>2. PICK pc : pc \in {"reset", "link"} /\ CallOf(w, x, "google", pc, v)
      BY <2>4, <3>1
    <3> QED BY <2>1, <2>4, <3>1, <3>2, AccountCalls
  <2> QED BY <2>2, <2>3, <2>4
<1> QED BY <1>1, <1>2, <1>3

\* Login counts a failure, or goes on to admit.
LEMMA LoginKeeps ==
    ASSUME Control, AccountsInv, NEW w \in Workers, NEW u \in Users, NEW p, NEW code, Login(w, u, p, code)
    PROVE  AccountsInv'
<1>1. PICK v : v = [u |-> u]
  OBVIOUS
<1>2. \/ CallOf(w, u, "login", "reset", v) /\ UNCHANGED accountVars
      \/ /\ CallOf(w, u, "login", "failRead", v) /\ missed' = [missed EXCEPT ![u] = @ + 1] /\ user[u].known
         /\ UNCHANGED <<user, tokens, minted, invites, engaged, deletions>>
  BY <1>1 DEF Login, Verdict, accountVars
<1>3. CASE CallOf(w, u, "login", "reset", v) /\ UNCHANGED accountVars
  BY <1>1, <1>3, AccountCalls
<1>4. CASE /\ CallOf(w, u, "login", "failRead", v) /\ missed' = [missed EXCEPT ![u] = @ + 1] /\ user[u].known
           /\ UNCHANGED <<user, tokens, minted, invites, engaged, deletions>>
  <2>0. "failRead" \in AccountsPoints
    BY DEF AccountsPoints
  <2>1. PICK what : CallNoting(w, "login", "failRead", v, what)
    BY <1>4, <2>0, CallOfNotes
  <2>2. req'[w].pc = "failRead" /\ req'[w].v = v /\ (NoneLate' => ~user[u].anon)
    BY <1>4, <2>0, CallOfNotes
  <2>3. Mine(w) /\ req[w].pc = "idle"
    BY <2>0, <2>1, CallMine
  <2>4. missed' \in [Users -> Nat] /\ missed'[u] = missed[u] + 1 /\ \A x \in Users \ {u} : missed'[x] = missed[x]
    BY <1>4 DEF AccountsInv, AccountRows
  <2>5. AccountRows' /\ TokenRows' /\ OneLiveToken'
    BY <1>4, <2>4 DEF AccountsInv, AccountRows, TokenRows, OneLiveToken
  <2>6. AccountLocal(w)'
    BY <1>1, <2>2 DEF AccountLocal
  <2>7. ASSUME NoneLate' PROVE (\A x \in Users : Emptied(x)' /\ Erased(x)') /\ Unanonymized(w)'
    <3>1. NoneLate
      BY <2>3, <2>7 DEF NoneLate, Mine
    <3> QED BY <1>1, <1>4, <2>2, <2>7, <3>1 DEF AccountsInv, Emptied, Erased, Unanonymized
  <2>8. ASSUME NoneCut' PROVE (\A x \in Users : Counted(x)') /\ CountInHand(w)'
    <3>1. NoneCut
      BY <2>3, <2>8 DEF NoneCut, Mine
    <3>2. \A x \in Workers : ~Counting(x)
      BY <2>3, <2>8 DEF Counting, Mine, NoneCut
    <3>3. \A x \in Users : Counted(x) /\ user[x].fails = missed[x]
      BY <3>1, <3>2 DEF AccountsInv, Counted
    <3>4. Counting(w)' /\ req'[w].v.u = u
      BY <1>1, <2>2 DEF Counting
    <3>5. \A x \in Users : Counted(x)'
      BY <1>4, <2>4, <3>3, <3>4 DEF Counted
    <3>6. CountInHand(w)'
      BY <1>1, <1>4, <2>2, <2>4, <3>3 DEF CountInHand
    <3> QED BY <3>5, <3>6
  <2> QED BY <2>3, <2>5, <2>6, <2>7, <2>8, AccountsStep1
<1> QED BY <1>2, <1>3, <1>4

(***************************************************************************)
(* Steps of a request or a job                                             *)
(***************************************************************************)

\* What a step that counts no failure does to an account: it leaves the count
\* alone, or clears it.
CountKept(u) ==
    \/ /\ user'[u].fails = user[u].fails /\ user'[u].locked = user[u].locked /\ missed'[u] = missed[u]
       /\ user[u].known => user'[u].known
    \/ user'[u].fails = 0 /\ user'[u].locked = 0 /\ missed'[u] = 0

\* A worker that counts no failure leaves the others' counts as they were.
LEMMA CountsKept ==
    ASSUME AccountsInv, NEW w \in Workers, Mine(w), ~Counting(w), ~Counting(w)', NoneCut',
           \A u \in Users : CountKept(u)
    PROVE  (\A u \in Users : Counted(u)') /\ CountInHand(w)'
<1>1. NoneCut
  BY DEF NoneCut, Mine
<1>2. \A x \in Workers : ~Counting(x)
  BY DEF Counting, Mine, NoneCut
<1>3. ASSUME NEW u \in Users PROVE Counted(u)'
  <2>1. Counted(u) /\ user[u].fails = missed[u]
    BY <1>1, <1>2 DEF AccountsInv, Counted
  <2>2. MaxFailed \in Nat \ {0}
    BY AccountsAssumption
  <2> QED BY <2>1, <2>2 DEF Counted, CountKept
<1>4. CountInHand(w)'
  BY DEF CountInHand, Counting
<1> QED BY <1>3, <1>4

\* One row of the users is rewritten.
LEMMA RowWritten ==
    ASSUME AccountRows, NEW u \in Users, NEW r, IsAccount(r), Write(u, r), missed' \in [Users -> Nat]
    PROVE  AccountRows' /\ user'[u] = r /\ \A x \in Users \ {u} : user'[x] = user[x]
<1>1. user' = [x \in Users |-> IF x = u THEN r ELSE user[x]]
  BY DEF AccountRows, Write
<1> QED BY <1>1 DEF AccountRows

\* Tokens that are only consumed, revoked or deleted.
LEMMA TokensWeaken ==
    ASSUME TokenRows, OneLiveToken, minted' = minted, tokens' = [n \in DOMAIN tokens' |-> tokens'[n]],
           \A n \in DOMAIN tokens' :
             /\ n \in DOMAIN tokens /\ IsToken(tokens'[n]) /\ tokens'[n].family = tokens[n].family
             /\ Live(tokens'[n]) => Live(tokens[n])
    PROVE  TokenRows' /\ OneLiveToken'
<1>1. TokenRows'
  BY DEF TokenRows
<1>2. OneLiveToken'
  BY DEF OneLiveToken
<1> QED BY <1>1, <1>2

\* Tokens that stay remain sound.
LEMMA TokensSame == ASSUME AccountsInv, UNCHANGED <<tokens, minted>> PROVE TokenRows' /\ OneLiveToken'
  BY DEF AccountsInv, TokenRows, OneLiveToken

\* A step on the other tables.
LEMMA QuietStep ==
    ASSUME Control, AccountsInv, NEW w \in Workers, Mine(w), ~Counting(w), ~Counting(w)',
           UNCHANGED <<user, tokens, minted, missed>>, AccountLocal(w)', NoneLate' => Unanonymized(w)'
    PROVE  AccountsInv'
<1>1. AccountRows' /\ TokenRows' /\ OneLiveToken'
  BY TokensSame DEF AccountsInv, AccountRows
<1>2. ASSUME NoneLate' PROVE (\A u \in Users : Emptied(u)' /\ Erased(u)') /\ Unanonymized(w)'
  <2>1. NoneLate
    BY <1>2 DEF NoneLate, Mine
  <2> QED BY <1>2, <2>1 DEF AccountsInv, Emptied, Erased
<1>3. \A u \in Users : CountKept(u)
  BY DEF CountKept
<1>4. NoneCut' => (\A u \in Users : Counted(u)') /\ CountInHand(w)'
  BY <1>3, CountsKept
<1> QED BY <1>1, <1>2, <1>4, AccountsStep1

\* A step that ends on the other tables.
LEMMA QuietEnd ==
    ASSUME Control, AccountsInv, NEW w \in Workers, NEW from, End(w, from), from \in AccountsPoints,
           from \notin {"failRead", "failWrite"}, UNCHANGED <<user, tokens, minted, missed>>
    PROVE  AccountsInv'
<1>1. from # "idle"
  BY DEF AccountsPoints
<1>2. Mine(w) /\ req'[w].pc = "idle" /\ req[w].pc = from
  BY <1>1, EndMine
<1>3. ~Counting(w) /\ ~Counting(w)' /\ AccountLocal(w)' /\ Unanonymized(w)'
  BY <1>2 DEF Counting, AccountLocal, Unanonymized
<1> QED BY <1>2, <1>3, QuietStep

\* Invitations and requests for erasure touch neither users nor tokens.
LEMMA InvitesKeep ==
    ASSUME Control, AccountsInv, NEW w \in Workers,
           ClearInvites(w) \/ InsertInvite(w) \/ DeleteInvite(w) \/ MarkProcessed(w) \/ PurgeProcessedDeletionRequests(w)
    PROVE  AccountsInv'
<1>1. UNCHANGED <<user, tokens, minted, missed>>
  BY DEF ClearInvites, InsertInvite, DeleteInvite, MarkProcessed, PurgeProcessedDeletionRequests
<1>2. CASE ClearInvites(w)
  <2>1. Goto(w, "clearInvites", "insertInvite")
    BY <1>2 DEF ClearInvites
  <2>2. Mine(w) /\ req'[w].pc = "insertInvite" /\ req[w].pc = "clearInvites"
    BY <2>1, GotoMine
  <2>3. ~Counting(w) /\ ~Counting(w)' /\ AccountLocal(w)' /\ Unanonymized(w)'
    BY <2>2 DEF Counting, AccountLocal, Unanonymized
  <2> QED BY <1>1, <2>2, <2>3, QuietStep
<1>3. CASE InsertInvite(w) \/ DeleteInvite(w) \/ MarkProcessed(w) \/ PurgeProcessedDeletionRequests(w)
  <2>1. PICK from : End(w, from) /\ from \in {"insertInvite", "deleteInvite", "processed", "purgeRequests"}
    BY <1>3 DEF InsertInvite, DeleteInvite, MarkProcessed, PurgeProcessedDeletionRequests
  <2>2. from \in AccountsPoints /\ from \notin {"failRead", "failWrite"}
    BY <2>1 DEF AccountsPoints
  <2> QED BY <1>1, <2>1, <2>2, QuietEnd
<1> QED BY <1>2, <1>3

\* A step that writes one account.
LEMMA WriteStep ==
    ASSUME Control, AccountsInv, NEW w \in Workers, Mine(w), ~Counting(w), ~Counting(w)', AccountLocal(w)',
           NEW u \in Users, NEW r, IsAccount(r), Write(u, r), missed' \in [Users -> Nat],
           \A x \in Users \ {u} : missed'[x] = missed[x],
           UNCHANGED <<tokens, minted>>,
           NoneCut' => CountKept(u),
           NoneLate' => /\ r.anon => Emptied(u)'
                        /\ r.deleted # 0 => r.google = 0
                        /\ Unanonymized(w)'
    PROVE  AccountsInv'
<1>1. AccountRows' /\ user'[u] = r /\ \A x \in Users \ {u} : user'[x] = user[x]
  BY RowWritten DEF AccountsInv
<1>2. TokenRows' /\ OneLiveToken'
  BY TokensSame
<1>3. ASSUME NoneLate' PROVE (\A x \in Users : Emptied(x)' /\ Erased(x)') /\ Unanonymized(w)'
  <2>1. NoneLate
    BY <1>3 DEF NoneLate, Mine
  <2>2. \A x \in Users \ {u} : Emptied(x)' /\ Erased(x)'
    BY <1>1, <2>1 DEF AccountsInv, Emptied, Erased
  <2>3. Emptied(u)'
    BY <1>1, <1>3 DEF Emptied
  <2>4. Erased(u)'
    BY <1>1, <1>3 DEF Erased
  <2> QED BY <1>3, <2>2, <2>3, <2>4
<1>4. ASSUME NoneCut' PROVE (\A x \in Users : Counted(x)') /\ CountInHand(w)'
  <2>1. \A x \in Users : CountKept(x)
    BY <1>1, <1>4 DEF CountKept
  <2> QED BY <1>4, <2>1, CountsKept
<1> QED BY <1>1, <1>2, <1>3, <1>4, AccountsStep1

\* A user is inserted if the account is not known yet.
LEMMA InsertUserKeeps ==
    ASSUME Control, AccountsInv, NEW w \in Workers, InsertUser(w)
    PROVE  AccountsInv'
<1>1. PICK u, r : u = req[w].v.u /\ r = req[w].v.r
  OBVIOUS
<1>2. req[w].pc = "insert" /\ AccountLocal(w)
  BY DEF InsertUser, At, AccountsInv
<1>3. u \in Users /\ IsFresh(r) /\ ~Counting(w)
  BY <1>1, <1>2 DEF AccountLocal, Counting
<1>4. UNCHANGED <<tokens, minted, missed>>
  BY DEF InsertUser
<1>5. \/ End(w, "insert") /\ UNCHANGED user
      \/ ~user[u].known /\ Write(u, r) /\ \E pc \in {"issue", "reset"} : Goto(w, "insert", pc)
  BY <1>1 DEF InsertUser, Local
<1>6. CASE End(w, "insert") /\ UNCHANGED user
  <2>1. "insert" \in AccountsPoints
    BY DEF AccountsPoints
  <2> QED BY <1>4, <1>6, <2>1, QuietEnd
<1>7. ASSUME ~user[u].known, Write(u, r), NEW pc \in {"issue", "reset"}, Goto(w, "insert", pc) PROVE AccountsInv'
  <2>1. Mine(w) /\ req'[w].pc = pc /\ req'[w].v = req[w].v
    BY <1>7, GotoMine
  <2>2. ~Counting(w)' /\ AccountLocal(w)'
    BY <1>1, <1>3, <2>1 DEF Counting, AccountLocal
  <2>3. IsAccount(r) /\ missed \in [Users -> Nat]
    BY <1>3 DEF IsFresh, AccountsInv, AccountRows
  <2>4. user'[u] = r
    BY <1>3, <1>4, <1>7, <2>3, RowWritten DEF AccountsInv
  <2>5. Unanonymized(w)'
    BY <1>1, <1>3, <2>1, <2>4 DEF Unanonymized, IsFresh
  <2>6. ASSUME NoneCut' PROVE CountKept(u)
    <3>1. Counted(u)
      BY <1>3, <2>1, <2>6 DEF AccountsInv, NoneCut, Mine
    <3>2. missed[u] = 0
      BY <1>7, <3>1 DEF Counted
    <3> QED BY <1>3, <1>4, <2>4, <3>2 DEF CountKept, IsFresh
  <2>7. r.anon = FALSE /\ r.deleted = 0
    BY <1>3 DEF IsFresh
  <2> QED BY <1>3, <1>4, <1>7, <2>1, <2>2, <2>3, <2>5, <2>6, <2>7, WriteStep
<1> QED BY <1>5, <1>6, <1>7

\* A failed login reads the count it is about to raise.
LEMMA FailReadKeeps ==
    ASSUME Control, AccountsInv, NEW w \in Workers, FailRead(w)
    PROVE  AccountsInv'
<1>1. PICK u : u = req[w].v.u
  OBVIOUS
<1>2. PICK v : v = [u |-> u, n |-> user[u].fails + 1]
  OBVIOUS
<1>3. GotoWith(w, "failRead", "failWrite", v) /\ UNCHANGED <<user, tokens, minted, missed>>
  BY <1>1, <1>2 DEF FailRead, Local, accountVars
<1>4. Mine(w) /\ req'[w].pc = "failWrite" /\ req'[w].v = v /\ req[w].pc = "failRead" /\ upset' = upset
  BY <1>3, GotoWithMine
<1>5. u \in Users /\ user[u].fails \in Nat
  BY <1>1, <1>4 DEF AccountsInv, AccountLocal, AccountRows, IsAccount
<1>6. AccountLocal(w)'
  BY <1>2, <1>4, <1>5 DEF AccountLocal
<1>7. AccountRows' /\ TokenRows' /\ OneLiveToken'
  BY <1>3, TokensSame DEF AccountsInv, AccountRows
<1>8. ASSUME NoneLate' PROVE (\A x \in Users : Emptied(x)' /\ Erased(x)') /\ Unanonymized(w)'
  <2>1. NoneLate
    BY <1>4, <1>8 DEF NoneLate
  <2>2. ~user[u].anon
    BY <1>1, <1>4, <2>1 DEF AccountsInv, Unanonymized
  <2>3. Unanonymized(w)'
    BY <1>2, <1>3, <1>4, <2>2 DEF Unanonymized
  <2> QED BY <1>3, <2>1, <2>3 DEF AccountsInv, Emptied, Erased
<1>9. ASSUME NoneCut' PROVE (\A x \in Users : Counted(x)') /\ CountInHand(w)'
  <2>1. NoneCut
    BY <1>4, <1>9 DEF NoneCut
  <2>2. missed[u] = user[u].fails + 1
    BY <1>1, <1>4, <2>1 DEF AccountsInv, CountInHand, Counting
  <2>3. \A x \in Workers : Counting(x) => Counting(x)' /\ req'[x].v.u = req[x].v.u
    BY <1>1, <1>2, <1>4 DEF Counting, Mine
  <2>4. \A x \in Users : Counted(x)'
    BY <1>3, <2>1, <2>3 DEF AccountsInv, Counted
  <2>5. CountInHand(w)'
    BY <1>2, <1>3, <1>4, <2>2 DEF CountInHand, Counting
  <2> QED BY <2>4, <2>5
<1> QED BY <1>4, <1>6, <1>7, <1>8, <1>9, AccountsStep1

\* It writes the count, and the lock at the limit.
LEMMA FailWriteKeeps ==
    ASSUME Control, AccountsInv, NEW w \in Workers, FailWrite(w)
    PROVE  AccountsInv'
<1>1. PICK u, n : u = req[w].v.u /\ n = req[w].v.n
  OBVIOUS
<1>2. PICK lock : lock = IF MustLock(n) THEN now + LockTime ELSE user[u].locked
  OBVIOUS
<1>3. PICK r : r = [user[u] EXCEPT !.fails = n, !.locked = IF MustLock(n) THEN now + LockTime ELSE @]
  OBVIOUS
<1>4. End(w, "failWrite") /\ Write(u, r) /\ UNCHANGED <<tokens, minted, missed>>
  BY <1>1, <1>3 DEF FailWrite, Local
<1>5. Mine(w) /\ req'[w].pc = "idle" /\ req[w].pc = "failWrite" /\ upset' = upset
  BY <1>4, EndMine
<1>6. u \in Users /\ n \in Nat /\ IsAccount(user[u])
  BY <1>1, <1>5 DEF AccountsInv, AccountLocal, AccountRows
<1>7. /\ DOMAIN r = Fields /\ r.fails = n /\ r.locked = lock
      /\ \A f \in Fields \ {"fails", "locked"} : r[f] = user[u][f]
  BY <1>2, <1>3, <1>6 DEF IsAccount, Fields
<1>8. /\ IsAccount(r) /\ r.anon = user[u].anon /\ r.known = user[u].known /\ r.deleted = user[u].deleted
      /\ r.google = user[u].google
  BY <1>6, <1>7 DEF IsAccount, Fields
<1>9. AccountRows' /\ user'[u] = r /\ \A x \in Users \ {u} : user'[x] = user[x]
  BY <1>4, <1>6, <1>8, RowWritten DEF AccountsInv, AccountRows
<1>10. TokenRows' /\ OneLiveToken'
  BY <1>4, TokensSame
<1>11. AccountLocal(w)'
  BY <1>5 DEF AccountLocal
<1>12. ASSUME NoneLate' PROVE (\A x \in Users : Emptied(x)' /\ Erased(x)') /\ Unanonymized(w)'
  <2>1. NoneLate
    BY <1>5, <1>12 DEF NoneLate
  <2>2. ~user[u].anon
    BY <1>1, <1>5, <2>1 DEF AccountsInv, Unanonymized
  <2>3. \A x \in Users : Emptied(x)' /\ Erased(x)'
    BY <1>4, <1>8, <1>9, <2>1, <2>2 DEF AccountsInv, Emptied, Erased
  <2> QED BY <1>5, <2>3 DEF Unanonymized
<1>13. ASSUME NoneCut' PROVE (\A x \in Users : Counted(x)') /\ CountInHand(w)'
  <2>1. NoneCut
    BY <1>5, <1>13 DEF NoneCut
  <2>2. n = missed[u] /\ missed[u] = user[u].fails + 1 /\ user[u].fails \in Nat
    BY <1>1, <1>5, <1>6, <2>1 DEF AccountsInv, CountInHand, Counting, IsAccount
  <2>3. \A x \in Workers : Counting(x) => x = w
    BY <1>5, <1>13 DEF Counting, Mine, NoneCut
  <2>4. \A x \in Users : Counted(x)
    BY <2>1 DEF AccountsInv
  <2>5. \A x \in Users \ {u} : Counted(x)' 
    BY <1>1, <1>4, <1>9, <2>3, <2>4 DEF Counted
  <2>6. now + LockTime # 0
    BY AccountsAssumption DEF Control
  <2>7. lock # 0 <=> n >= MaxFailed
    BY <1>2, <1>6, <2>2, <2>4, <2>6, AccountsAssumption DEF Counted, MustLock
  <2>8. Counted(u)'
    BY <1>4, <1>6, <1>7, <1>8, <1>9, <2>2, <2>4, <2>7 DEF Counted
  <2>9. CountInHand(w)'
    BY <1>5 DEF CountInHand, Counting
  <2> QED BY <2>5, <2>8, <2>9
<1> QED BY <1>5, <1>9, <1>10, <1>11, <1>12, <1>13, AccountsStep1

\* A login clears the count and the lock.
LEMMA ResetKeeps ==
    ASSUME Control, AccountsInv, NEW w \in Workers, ResetFailedAttempts(w)
    PROVE  AccountsInv'
<1>1. PICK u : u = req[w].v.u
  OBVIOUS
<1>2. PICK r : r = [user[u] EXCEPT !.fails = 0, !.locked = 0]
  OBVIOUS
<1>3. Goto(w, "reset", "issue") /\ Write(u, r) /\ missed' = [missed EXCEPT ![u] = 0] /\ UNCHANGED <<tokens, minted>>
  BY <1>1, <1>2 DEF ResetFailedAttempts, Local
<1>4. Mine(w) /\ req'[w].pc = "issue" /\ req[w].pc = "reset" /\ upset' = upset /\ req'[w].v = req[w].v
  BY <1>3, GotoMine
<1>5. u \in Users /\ IsAccount(user[u]) /\ missed \in [Users -> Nat]
  BY <1>1, <1>4 DEF AccountsInv, AccountLocal, AccountRows
<1>6. IsAccount(r) /\ r.fails = 0 /\ r.locked = 0 /\ r.anon = user[u].anon /\ r.deleted = user[u].deleted
      /\ r.google = user[u].google
  BY <1>2, <1>5 DEF IsAccount, Fields
<1>7. missed' \in [Users -> Nat] /\ missed'[u] = 0 /\ \A x \in Users \ {u} : missed'[x] = missed[x]
  BY <1>3, <1>5
<1>8. user'[u] = r
  BY <1>3, <1>5, <1>6, <1>7, RowWritten DEF AccountsInv
<1>9. ~Counting(w) /\ ~Counting(w)' /\ AccountLocal(w)' /\ CountKept(u)
  BY <1>1, <1>4, <1>5, <1>6, <1>7, <1>8 DEF Counting, AccountLocal, CountKept
<1>10. ASSUME NoneLate' PROVE ~r.anon /\ (r.deleted # 0 => r.google = 0) /\ Unanonymized(w)'
  <2>1. NoneLate
    BY <1>4, <1>10 DEF NoneLate
  <2>2. ~user[u].anon /\ Erased(u)
    BY <1>1, <1>4, <1>5, <2>1 DEF AccountsInv, Unanonymized
  <2> QED BY <1>1, <1>4, <1>6, <1>8, <2>2 DEF Unanonymized, Erased
<1> QED BY <1>3, <1>4, <1>5, <1>6, <1>7, <1>9, <1>10, WriteStep

\* A Google account is linked to a row, if no other row has it.
LEMMA LinkGoogleKeeps ==
    ASSUME Control, AccountsInv, NEW w \in Workers, LinkGoogle(w)
    PROVE  AccountsInv'
<1>1. PICK u : u = req[w].v.u
  OBVIOUS
<1>2. PICK r : r = [user[u] EXCEPT !.google = req[w].v.g]
  OBVIOUS
<1>3. UNCHANGED <<tokens, minted, missed>>
  BY DEF LinkGoogle
<1>4. (End(w, "link") /\ UNCHANGED user) \/ (Goto(w, "link", "reset") /\ Write(u, r))
  BY <1>1, <1>2 DEF LinkGoogle, Local
<1>5. CASE End(w, "link") /\ UNCHANGED user
  <2>1. "link" \in AccountsPoints
    BY DEF AccountsPoints
  <2> QED BY <1>3, <1>5, <2>1, QuietEnd
<1>6. CASE Goto(w, "link", "reset") /\ Write(u, r)
  <2>1. Mine(w) /\ req'[w].pc = "reset" /\ req[w].pc = "link" /\ upset' = upset /\ req'[w].v = req[w].v
    BY <1>6, GotoMine
  <2>2. u \in Users /\ IsAccount(user[u]) /\ missed \in [Users -> Nat]
    BY <1>1, <2>1 DEF AccountsInv, AccountLocal, AccountRows
  <2>3. /\ IsAccount(r) /\ r.fails = user[u].fails /\ r.locked = user[u].locked /\ r.known = user[u].known
        /\ r.anon = user[u].anon /\ r.deleted = user[u].deleted
    BY <1>2, <2>2 DEF IsAccount, Fields
  <2>4. user'[u] = r
    BY <1>3, <1>6, <2>2, <2>3, RowWritten DEF AccountsInv
  <2>5. ~Counting(w) /\ ~Counting(w)' /\ AccountLocal(w)' /\ CountKept(u)
    BY <1>1, <1>3, <2>1, <2>2, <2>3, <2>4 DEF Counting, AccountLocal, CountKept
  <2>6. ASSUME NoneLate' PROVE ~r.anon /\ r.deleted = 0 /\ Unanonymized(w)'
    <3>1. NoneLate
      BY <2>1, <2>6 DEF NoneLate
    <3>2. ~user[u].anon /\ user[u].deleted = 0
      BY <1>1, <2>1, <3>1 DEF AccountsInv, Unanonymized
    <3> QED BY <1>1, <2>1, <2>3, <2>4, <3>2 DEF Unanonymized
  <2> QED BY <1>3, <1>6, <2>1, <2>2, <2>3, <2>5, <2>6, WriteStep
<1> QED BY <1>4, <1>5, <1>6

\* A step on the tokens alone, that makes none for an anonymised account.
LEMMA TokenStep ==
    ASSUME Control, AccountsInv, NEW w \in Workers, Mine(w), ~Counting(w), ~Counting(w)', AccountLocal(w)',
           UNCHANGED <<user, missed>>, TokenRows', OneLiveToken',
           NoneLate' => /\ Unanonymized(w)'
                        /\ \A n \in DOMAIN tokens' : Live(tokens'[n]) =>
                             \/ n \in DOMAIN tokens /\ Live(tokens[n]) /\ tokens[n].user = tokens'[n].user
                             \/ ~user[tokens'[n].user].anon
    PROVE  AccountsInv'
<1>1. AccountRows'
  BY DEF AccountsInv, AccountRows
<1>2. ASSUME NoneLate' PROVE (\A x \in Users : Emptied(x)' /\ Erased(x)') /\ Unanonymized(w)'
  <2>1. NoneLate
    BY <1>2 DEF NoneLate, Mine
  <2>2. ASSUME NEW x \in Users PROVE Emptied(x)' /\ Erased(x)'
    <3>1. Emptied(x) /\ Erased(x)
      BY <2>1 DEF AccountsInv
    <3> QED BY <1>2, <3>1 DEF Emptied, Erased
  <2> QED BY <1>2, <2>2
<1>3. \A x \in Users : CountKept(x)
  BY DEF CountKept
<1>4. NoneCut' => (\A x \in Users : Counted(x)') /\ CountInHand(w)'
  BY <1>3, CountsKept
<1> QED BY <1>1, <1>2, <1>4, AccountsStep1

\* The same for a step that ends.
LEMMA TokenEnd ==
    ASSUME Control, AccountsInv, NEW w \in Workers, NEW from, End(w, from), from \in AccountsPoints,
           from \notin {"failRead", "failWrite"}, UNCHANGED <<user, missed>>, TokenRows', OneLiveToken',
           NoneLate' => \A n \in DOMAIN tokens' : Live(tokens'[n]) =>
                             \/ n \in DOMAIN tokens /\ Live(tokens[n]) /\ tokens[n].user = tokens'[n].user
                             \/ ~user[tokens'[n].user].anon
    PROVE  AccountsInv'
<1>1. from # "idle"
  BY DEF AccountsPoints
<1>2. Mine(w) /\ req'[w].pc = "idle" /\ req[w].pc = from
  BY <1>1, EndMine
<1>3. ~Counting(w) /\ ~Counting(w)' /\ AccountLocal(w)' /\ Unanonymized(w)'
  BY <1>2 DEF Counting, AccountLocal, Unanonymized
<1> QED BY <1>2, <1>3, TokenStep

\* A new token, and what it does to the others.
LEMMA Minted ==
    ASSUME TokenRows, NEW u \in Users, NEW family, NEW ts, DOMAIN ts = DOMAIN tokens, Mint(u, family, ts)
    PROVE  /\ minted' = minted + 1 /\ minted + 1 \notin DOMAIN tokens
           /\ DOMAIN tokens' = DOMAIN tokens \cup {minted + 1} /\ tokens' = [n \in DOMAIN tokens' |-> tokens'[n]]
           /\ \A n \in DOMAIN tokens : tokens'[n] = ts[n]
           /\ IsToken(tokens'[minted + 1]) /\ tokens'[minted + 1].family = family /\ tokens'[minted + 1].user = u
<1>1. minted + 1 \notin DOMAIN tokens
  BY DEF TokenRows
<1>2. PICK t : t = [user |-> u, family |-> family, exp |-> now + RefreshTime, consumed |-> FALSE, revoked |-> FALSE]
  OBVIOUS
<1>3. IsToken(t) /\ t.family = family /\ t.user = u
  BY <1>2 DEF IsToken
<1>4. /\ minted' = minted + 1
      /\ tokens' = [n \in DOMAIN tokens \cup {minted + 1} |-> IF n \in DOMAIN tokens THEN ts[n] ELSE t]
  BY <1>2 DEF Mint
<1> QED BY <1>1, <1>3, <1>4

\* A login starts a token family of its own.
LEMMA IssueKeeps ==
    ASSUME Control, AccountsInv, NEW w \in Workers, IssueTokenPair(w)
    PROVE  AccountsInv'
<1>1. PICK u : u = req[w].v.u
  OBVIOUS
<1>2. End(w, "issue") /\ Mint(u, minted + 1, tokens) /\ UNCHANGED <<user, missed>> /\ "issue" \in AccountsPoints
  BY <1>1 DEF IssueTokenPair, Local, AccountsPoints
<1>3. Mine(w) /\ req[w].pc = "issue" /\ upset' = upset
  BY <1>2, EndMine
<1>4. u \in Users /\ TokenRows /\ OneLiveToken
  BY <1>1, <1>3 DEF AccountsInv, AccountLocal
<1>5. /\ minted' = minted + 1 /\ minted + 1 \notin DOMAIN tokens
      /\ DOMAIN tokens' = DOMAIN tokens \cup {minted + 1} /\ tokens' = [n \in DOMAIN tokens' |-> tokens'[n]]
      /\ \A n \in DOMAIN tokens : tokens'[n] = tokens[n]
      /\ IsToken(tokens'[minted + 1]) /\ tokens'[minted + 1].family = minted + 1 /\ tokens'[minted + 1].user = u
  BY <1>2, <1>4, Minted
<1>6. TokenRows'
  BY <1>4, <1>5 DEF TokenRows
<1>7. OneLiveToken'
  <2>1. \A n \in DOMAIN tokens : tokens[n].family # minted + 1
    BY <1>4 DEF TokenRows
  <2> QED BY <1>4, <1>5, <2>1 DEF OneLiveToken
<1>8. ASSUME NoneLate' PROVE ~user[u].anon
  BY <1>1, <1>3, <1>8 DEF AccountsInv, Unanonymized, NoneLate
<1> QED BY <1>2, <1>5, <1>6, <1>7, <1>8, TokenEnd

\* A refresh consumes its token and issues the family's next.
LEMMA RotateKeeps ==
    ASSUME Control, AccountsInv, NEW w \in Workers, RotateToken(w)
    PROVE  AccountsInv'
<1>1. PICK n : n = req[w].v.n
  OBVIOUS
<1>2. /\ End(w, "rotate") /\ UNCHANGED <<user, missed>> /\ "rotate" \in AccountsPoints
      /\ \/ UNCHANGED <<tokens, minted>>
         \/ Rotatable(n) /\ Mint(tokens[n].user, tokens[n].family, [tokens EXCEPT ![n].consumed = TRUE])
  BY <1>1 DEF RotateToken, Local, AccountsPoints
<1>3. Mine(w) /\ req[w].pc = "rotate" /\ upset' = upset
  BY <1>2, EndMine
<1>4. CASE UNCHANGED <<tokens, minted>>
  BY <1>2, <1>4, QuietEnd
<1>5. CASE Rotatable(n) /\ Mint(tokens[n].user, tokens[n].family, [tokens EXCEPT ![n].consumed = TRUE])
  <2>1. n \in DOMAIN tokens /\ Live(tokens[n]) /\ TokenRows /\ OneLiveToken /\ IsToken(tokens[n])
    BY <1>5 DEF Rotatable, Live, AccountsInv, TokenRows
  <2>2. PICK ts : ts = [tokens EXCEPT ![n].consumed = TRUE]
    OBVIOUS
  <2>3. /\ DOMAIN ts = DOMAIN tokens /\ ts[n] = [tokens[n] EXCEPT !.consumed = TRUE]
        /\ \A m \in DOMAIN tokens \ {n} : ts[m] = tokens[m]
    BY <2>1, <2>2 DEF TokenRows
  <2>4. IsToken(ts[n]) /\ ts[n].family = tokens[n].family /\ ts[n].user = tokens[n].user /\ ~Live(ts[n])
    BY <2>1, <2>3 DEF IsToken, Live
  <2>5. tokens[n].user \in Users
    BY <2>1 DEF IsToken
  <2>6. /\ minted' = minted + 1 /\ minted + 1 \notin DOMAIN tokens
        /\ DOMAIN tokens' = DOMAIN tokens \cup {minted + 1} /\ tokens' = [m \in DOMAIN tokens' |-> tokens'[m]]
        /\ \A m \in DOMAIN tokens : tokens'[m] = ts[m]
        /\ IsToken(tokens'[minted + 1]) /\ tokens'[minted + 1].family = tokens[n].family
        /\ tokens'[minted + 1].user = tokens[n].user
    <3>1. Mint(tokens[n].user, tokens[n].family, ts)
      BY <1>5, <2>2
    <3> QED BY <2>1, <2>3, <2>5, <3>1, Minted
  <2>7. TokenRows'
    <3>1. \A m \in DOMAIN tokens : IsToken(tokens'[m]) /\ tokens'[m].family = tokens[m].family
      BY <2>1, <2>3, <2>4, <2>6 DEF TokenRows
    <3>2. tokens[n].family \in 1..minted /\ minted \in Nat
      BY <2>1 DEF TokenRows
    <3> QED BY <2>1, <2>6, <3>1, <3>2 DEF TokenRows
  <2>8. \A m \in DOMAIN tokens : Live(tokens'[m]) => m # n /\ Live(tokens[m]) /\ tokens'[m] = tokens[m]
    BY <2>3, <2>4, <2>6
  <2>9. \A m \in DOMAIN tokens \ {n} : tokens[m].family = tokens[n].family => ~Live(tokens[m])
    BY <2>1 DEF OneLiveToken
  <2>10. OneLiveToken'
    <3>1. \A m \in DOMAIN tokens : Live(tokens'[m]) => tokens'[m].family # tokens'[minted + 1].family
      BY <2>6, <2>8, <2>9
    <3> QED BY <2>1, <2>6, <2>8, <3>1 DEF OneLiveToken
  <2>11. ASSUME NoneLate' PROVE ~user[tokens[n].user].anon
    BY <1>1, <1>3, <2>1, <2>11 DEF AccountsInv, Unanonymized, NoneLate
  <2> QED BY <1>2, <2>6, <2>7, <2>8, <2>10, <2>11, TokenEnd
<1> QED BY <1>2, <1>4, <1>5

\* A reuse revokes the family, a logout the token.
LEMMA RevokesKeep ==
    ASSUME Control, AccountsInv, NEW w \in Workers, RevokeFamily(w) \/ RevokeToken(w)
    PROVE  AccountsInv'
<1>1. TokenRows /\ OneLiveToken
  BY DEF AccountsInv
<1>2. PICK n : n = req[w].v.n
  OBVIOUS
<1>3. ASSUME NEW t, IsToken(t) PROVE IsToken([t EXCEPT !.revoked = TRUE]) /\ ~Live([t EXCEPT !.revoked = TRUE])
             /\ [t EXCEPT !.revoked = TRUE].family = t.family /\ [t EXCEPT !.revoked = TRUE].user = t.user
  <2>1. PICK s : s = [t EXCEPT !.revoked = TRUE]
    OBVIOUS
  <2>2. PICK a, b, c, d, e : t = [user |-> a, family |-> b, exp |-> c, consumed |-> d, revoked |-> e]
                             /\ a \in Users
    BY <1>3 DEF IsToken
  <2>3. s = [user |-> a, family |-> b, exp |-> c, consumed |-> d, revoked |-> TRUE]
    BY <2>1, <2>2
  <2>4. IsToken(s) /\ ~Live(s) /\ s.family = t.family /\ s.user = t.user
    BY <2>2, <2>3 DEF IsToken, Live
  <2> QED BY <2>1, <2>4
<1>4. ASSUME minted' = minted, UNCHANGED <<user, missed>>, DOMAIN tokens' = DOMAIN tokens,
             tokens' = [m \in DOMAIN tokens' |-> tokens'[m]],
             \A m \in DOMAIN tokens : tokens'[m] = tokens[m] \/ tokens'[m] = [tokens[m] EXCEPT !.revoked = TRUE],
             NEW from, End(w, from), from \in {"revokeFamily", "revoke"}
      PROVE  AccountsInv'
  <2>1. \A m \in DOMAIN tokens : IsToken(tokens[m])
    BY <1>1 DEF TokenRows
  <2>2. \A m \in DOMAIN tokens : /\ IsToken(tokens'[m]) /\ tokens'[m].family = tokens[m].family
                                 /\ tokens'[m].user = tokens[m].user /\ (Live(tokens'[m]) => Live(tokens[m]))
    BY <1>3, <1>4, <2>1
  <2>3. TokenRows' /\ OneLiveToken'
    BY <1>1, <1>4, <2>2, TokensWeaken
  <2>4. from \in AccountsPoints /\ from \notin {"failRead", "failWrite"}
    BY <1>4 DEF AccountsPoints
  <2> QED BY <1>4, <2>2, <2>3, <2>4, TokenEnd
<1>5. CASE RevokeFamily(w)
  <2>1. /\ End(w, "revokeFamily") /\ UNCHANGED <<user, minted, missed>>
        /\ tokens' = [m \in DOMAIN tokens |->
             IF n \in DOMAIN tokens /\ tokens[m].family = tokens[n].family
             THEN [tokens[m] EXCEPT !.revoked = TRUE] ELSE tokens[m]]
    BY <1>2, <1>5 DEF RevokeFamily, Local
  <2>2. DOMAIN tokens' = DOMAIN tokens /\ tokens' = [m \in DOMAIN tokens' |-> tokens'[m]]
        /\ \A m \in DOMAIN tokens : tokens'[m] = tokens[m] \/ tokens'[m] = [tokens[m] EXCEPT !.revoked = TRUE]
    BY <2>1
  <2> QED BY <1>4, <2>1, <2>2
<1>6. CASE RevokeToken(w)
  <2>1. /\ End(w, "revoke") /\ UNCHANGED <<user, minted, missed>>
        /\ tokens' = IF n \in DOMAIN tokens THEN [tokens EXCEPT ![n].revoked = TRUE] ELSE tokens
    BY <1>2, <1>6 DEF RevokeToken, Local
  <2>2. DOMAIN tokens' = DOMAIN tokens /\ tokens' = [m \in DOMAIN tokens' |-> tokens'[m]]
        /\ \A m \in DOMAIN tokens : tokens'[m] = tokens[m] \/ tokens'[m] = [tokens[m] EXCEPT !.revoked = TRUE]
    BY <1>1, <2>1 DEF TokenRows
  <2> QED BY <1>4, <2>1, <2>2
<1> QED BY <1>5, <1>6

\* A change writes none of the fields that carry the lock or the erasure.
LEMMA UpdateUserKeeps ==
    ASSUME Control, AccountsInv, NEW w \in Workers, UpdateUser(w)
    PROVE  AccountsInv'
<1>1. PICK u, set : u = req[w].v.u /\ set = req[w].v.set
  OBVIOUS
<1>2. PICK r : r = Updated(user[u], set)
  OBVIOUS
<1>3. End(w, "update") /\ UNCHANGED <<tokens, minted, missed>> /\ (UNCHANGED user \/ Write(u, r))
      /\ "update" \in AccountsPoints
  BY <1>1, <1>2 DEF UpdateUser, Local, AccountsPoints
<1>4. CASE UNCHANGED user
  BY <1>3, <1>4, QuietEnd
<1>5. CASE Write(u, r)
  <2>1. Mine(w) /\ req'[w].pc = "idle" /\ req[w].pc = "update" /\ upset' = upset
    BY <1>3, EndMine
  <2>2. u \in Users /\ IsAccount(user[u]) /\ DOMAIN set \cap Kept = {} /\ missed \in [Users -> Nat]
    BY <1>1, <2>1 DEF AccountsInv, AccountLocal, AccountRows
  <2>3. /\ IsAccount(r) /\ r.fails = user[u].fails /\ r.locked = user[u].locked /\ r.known = user[u].known
        /\ r.anon = user[u].anon /\ r.deleted = user[u].deleted /\ r.google = user[u].google
    BY <1>2, <2>2 DEF Updated, IsAccount, Fields, Kept
  <2>4. user'[u] = r
    BY <1>3, <1>5, <2>2, <2>3, RowWritten DEF AccountsInv
  <2>5. ~Counting(w) /\ ~Counting(w)' /\ AccountLocal(w)' /\ Unanonymized(w)'
    BY <2>1 DEF Counting, AccountLocal, Unanonymized
  <2>6. CountKept(u)
    BY <1>3, <2>3, <2>4 DEF CountKept
  <2>7. ASSUME NoneLate' PROVE ~r.anon /\ (r.deleted # 0 => r.google = 0)
    <3>1. NoneLate
      BY <2>1, <2>7 DEF NoneLate
    <3> QED BY <1>1, <2>1, <2>2, <2>3, <3>1 DEF AccountsInv, Unanonymized, Erased
  <2> QED BY <1>3, <1>5, <2>1, <2>2, <2>3, <2>5, <2>6, <2>7, WriteStep
<1> QED BY <1>3, <1>4, <1>5

\* Joining a team inserts a user, if the email is free and the invitation is still there.
LEMMA JoinKeeps ==
    ASSUME Control, AccountsInv, NEW w \in Workers, JoinTeam(w)
    PROVE  AccountsInv'
<1>1. PICK u, row : u = req[w].v.u /\ row = req[w].v.row
  OBVIOUS
<1>2. PICK r : r = [NewUser(row.email) EXCEPT !.owner = row.owner]
  OBVIOUS
<1>3. End(w, "join") /\ UNCHANGED <<tokens, minted, missed>> /\ "join" \in AccountsPoints
      /\ (UNCHANGED user \/ (~user[u].known /\ Write(u, r)))
  BY <1>1, <1>2 DEF JoinTeam, Local, AccountsPoints
<1>4. CASE UNCHANGED user
  BY <1>3, <1>4, QuietEnd
<1>5. CASE ~user[u].known /\ Write(u, r)
  <2>1. Mine(w) /\ req'[w].pc = "idle" /\ req[w].pc = "join" /\ upset' = upset
    BY <1>3, EndMine
  <2>2. u \in Users /\ missed \in [Users -> Nat]
    BY <1>1, <2>1 DEF AccountsInv, AccountLocal, AccountRows
  <2>3. IsAccount(r) /\ r.fails = 0 /\ r.locked = 0 /\ r.anon = FALSE /\ r.deleted = 0
    <3>1. PICK s : s = NewUser(row.email)
      OBVIOUS
    <3>2. IsFresh(s) /\ r = [s EXCEPT !.owner = row.owner]
      BY <1>2, <3>1, NewRowFresh
    <3> QED BY <3>2 DEF IsFresh, IsAccount, Fields
  <2>4. user'[u] = r
    BY <1>3, <1>5, <2>2, <2>3, RowWritten DEF AccountsInv
  <2>5. ~Counting(w) /\ ~Counting(w)' /\ AccountLocal(w)' /\ Unanonymized(w)'
    BY <2>1 DEF Counting, AccountLocal, Unanonymized
  <2>6. ASSUME NoneCut' PROVE CountKept(u)
    <3>1. Counted(u)
      BY <2>1, <2>2, <2>6 DEF AccountsInv, NoneCut
    <3>2. missed[u] = 0
      BY <1>5, <3>1 DEF Counted
    <3> QED BY <1>3, <2>3, <2>4, <3>2 DEF CountKept
  <2> QED BY <1>3, <1>5, <2>1, <2>2, <2>3, <2>5, <2>6, WriteStep
<1> QED BY <1>3, <1>4, <1>5

\* An erasure takes email and Google account off the row and marks it.
LEMMA EraseKeeps ==
    ASSUME Control, AccountsInv, NEW w \in Workers, EraseUser(w)
    PROVE  AccountsInv'
<1>1. PICK u : u = req[w].v.u
  OBVIOUS
<1>2. PICK r : r = [user[u] EXCEPT !.email = 0, !.google = 0, !.deleted = now]
  OBVIOUS
<1>3. End(w, "erase") /\ UNCHANGED <<tokens, minted, missed>> /\ Write(u, r)
  BY <1>1, <1>2 DEF EraseUser, Local
<1>4. Mine(w) /\ req'[w].pc = "idle" /\ req[w].pc = "erase" /\ upset' = upset
  BY <1>3, EndMine
<1>5. u \in Users /\ IsAccount(user[u]) /\ missed \in [Users -> Nat]
  BY <1>1, <1>4 DEF AccountsInv, AccountLocal, AccountRows
<1>6. /\ IsAccount(r) /\ r.fails = user[u].fails /\ r.locked = user[u].locked /\ r.known = user[u].known
      /\ r.anon = user[u].anon /\ r.google = 0
  BY <1>2, <1>5 DEF IsAccount, Fields
<1>7. user'[u] = r
  BY <1>3, <1>5, <1>6, RowWritten DEF AccountsInv
<1>8. ~Counting(w) /\ ~Counting(w)' /\ AccountLocal(w)' /\ Unanonymized(w)'
  BY <1>4 DEF Counting, AccountLocal, Unanonymized
<1>9. CountKept(u)
  BY <1>3, <1>6, <1>7 DEF CountKept
<1>10. ASSUME NoneLate' PROVE ~r.anon
  <2>1. NoneLate
    BY <1>4, <1>10 DEF NoneLate
  <2> QED BY <1>1, <1>4, <1>6, <2>1 DEF AccountsInv, Unanonymized
<1> QED BY <1>3, <1>4, <1>5, <1>6, <1>8, <1>9, <1>10, WriteStep

\* What the anonymisation job has left to do after an account.
LEMMA RestOf ==
    ASSUME ReqOK, NEW w \in Workers, NEW u, req[w].v = [todo |-> req[w].v.todo, full |-> req[w].v.full],
           NEW r, r = [req[w] EXCEPT !.v.todo = @ \ {u}]
    PROVE  r.pc = req[w].pc /\ r.v = [todo |-> req[w].v.todo \ {u}, full |-> req[w].v.full]
<1>1. PICK q, v : q = req[w] /\ v = req[w].v
  OBVIOUS
<1>2. q = [pc |-> q.pc, op |-> q.op, v |-> v] /\ v = [todo |-> v.todo, full |-> v.full]
  BY <1>1 DEF ReqOK, IsEntry
<1>3. r = [q EXCEPT !.v = [v EXCEPT !.todo = v.todo \ {u}]]
  BY <1>1, <1>2
<1>4. [v EXCEPT !.todo = v.todo \ {u}] = [todo |-> v.todo \ {u}, full |-> v.full]
  <2>1. PICK a, b : a = v.todo /\ b = v.full
    OBVIOUS
  <2>2. v = [todo |-> a, full |-> b]
    BY <1>2, <2>1
  <2>3. [v EXCEPT !.todo = a \ {u}] = [todo |-> a \ {u}, full |-> b]
    BY <2>2
  <2> QED BY <2>1, <2>3
<1> QED BY <1>1, <1>2, <1>3, <1>4

\* The job empties a row and revokes its tokens.
LEMMA AnonymizeUserKeeps ==
    ASSUME Control, AccountsInv, NEW w \in Workers, AnonymizeUser(w)
    PROVE  AccountsInv'
<1>1. req[w].pc = "batch" /\ minted' = minted
  BY DEF AnonymizeUser, At
<1>2. PICK v : v = req[w].v
  OBVIOUS
<1>3. v = [todo |-> v.todo, full |-> v.full] /\ v.todo \subseteq Users
  BY <1>1, <1>2 DEF AccountsInv, AccountLocal
<1>4. PICK u \in v.todo :
        LET r == [req[w] EXCEPT !.v.todo = @ \ {u}]
        IN  \/ /\ Become(w, "batch", r) /\ Write(u, Anonymized(user[u])) /\ missed' = [missed EXCEPT ![u] = 0]
               /\ tokens' = [n \in DOMAIN tokens |-> IF tokens[n].user = u
                               THEN [tokens[n] EXCEPT !.revoked = TRUE] ELSE tokens[n]]
            \/ FailTo(w, "batch", "rpc", r) /\ UNCHANGED <<user, missed, tokens>>
  BY <1>2 DEF AnonymizeUser, Local
<1>5. PICK r : r = [req[w] EXCEPT !.v.todo = @ \ {u}]
  OBVIOUS
<1>6. r.pc = "batch" /\ r.v = [todo |-> v.todo \ {u}, full |-> v.full]
  BY <1>1, <1>2, <1>3, <1>5, RestOf DEF Control
<1>7. Mine(w) /\ req'[w] = r
  BY <1>4, <1>5, BecomeMine, FailMine
<1>8. ~Counting(w) /\ ~Counting(w)' /\ AccountLocal(w)' /\ u \in Users
  BY <1>1, <1>3, <1>6, <1>7 DEF Counting, AccountLocal
<1>9. CASE UNCHANGED <<user, missed, tokens>>
  <2>1. ASSUME NoneLate' PROVE Unanonymized(w)'
    <3>1. NoneLate
      BY <1>7, <2>1 DEF NoneLate, Mine
    <3>2. \A x \in v.todo : user[x].deleted # 0
      BY <1>1, <1>2, <3>1 DEF AccountsInv, Unanonymized
    <3> QED BY <1>6, <1>7, <1>9, <3>2 DEF Unanonymized
  <2> QED BY <1>1, <1>7, <1>8, <1>9, <2>1, QuietStep
<1>10. CASE /\ Write(u, Anonymized(user[u])) /\ missed' = [missed EXCEPT ![u] = 0]
            /\ tokens' = [n \in DOMAIN tokens |-> IF tokens[n].user = u
                            THEN [tokens[n] EXCEPT !.revoked = TRUE] ELSE tokens[n]]
  <2>1. PICK s : s = Anonymized(user[u])
    OBVIOUS
  <2>2. IsAccount(user[u]) /\ missed \in [Users -> Nat] /\ AccountRows /\ TokenRows /\ OneLiveToken
    BY <1>8 DEF AccountsInv, AccountRows
  <2>3. /\ IsAccount(s) /\ s.fails = 0 /\ s.locked = 0 /\ s.email = 0 /\ s.pw = 0 /\ s.secret = 0 /\ s.totp = FALSE
        /\ s.google = user[u].google /\ s.deleted = user[u].deleted
    BY <2>1, <2>2 DEF Anonymized, IsAccount, Fields
  <2>4. missed' \in [Users -> Nat] /\ missed'[u] = 0 /\ \A x \in Users \ {u} : missed'[x] = missed[x]
    BY <1>8, <1>10, <2>2
  <2>5. AccountRows' /\ user'[u] = s /\ \A x \in Users \ {u} : user'[x] = user[x]
    BY <1>8, <1>10, <2>1, <2>2, <2>3, <2>4, RowWritten
  <2>6. \A n \in DOMAIN tokens : IsToken(tokens[n])
    BY <2>2 DEF TokenRows
  <2>7. DOMAIN tokens' = DOMAIN tokens /\ tokens' = [n \in DOMAIN tokens' |-> tokens'[n]]
    BY <1>10
  <2>8. \A n \in DOMAIN tokens :
          /\ IsToken(tokens'[n]) /\ tokens'[n].family = tokens[n].family /\ tokens'[n].user = tokens[n].user
          /\ Live(tokens'[n]) => Live(tokens[n]) /\ tokens[n].user # u
    <3>1. ASSUME NEW n \in DOMAIN tokens, NEW t, t = tokens[n]
          PROVE  /\ IsToken(tokens'[n]) /\ tokens'[n].family = t.family /\ tokens'[n].user = t.user
                 /\ Live(tokens'[n]) => Live(t) /\ t.user # u
      <4>1. IsToken(t)
        BY <2>6, <3>1
      <4>2. CASE t.user = u
        <5>1. tokens'[n] = [t EXCEPT !.revoked = TRUE]
          BY <1>10, <3>1, <4>2
        <5> QED BY <4>1, <5>1 DEF IsToken, Live
      <4>3. CASE t.user # u
        <5>1. tokens'[n] = t
          BY <1>10, <3>1, <4>3
        <5> QED BY <4>1, <4>3, <5>1
      <4> QED BY <4>2, <4>3
    <3> QED BY <3>1
  <2>9. TokenRows' /\ OneLiveToken'
    BY <1>1, <2>2, <2>7, <2>8, TokensWeaken
  <2>10. ASSUME NoneLate' PROVE (\A x \in Users : Emptied(x)' /\ Erased(x)') /\ Unanonymized(w)'
    <3>1. NoneLate
      BY <1>7, <2>10 DEF NoneLate, Mine
    <3>2. (\A x \in Users : Emptied(x) /\ Erased(x)) /\ \A x \in v.todo : user[x].deleted # 0
      BY <1>1, <1>2, <3>1 DEF AccountsInv, Unanonymized
    <3>3. \A x \in Users \ {u} : Emptied(x)' /\ Erased(x)'
      BY <2>5, <2>7, <2>8, <3>2 DEF Emptied, Erased
    <3>4. user[u].google = 0
      BY <1>8, <3>2 DEF Erased
    <3>5. Emptied(u)' /\ Erased(u)'
      BY <2>3, <2>5, <2>7, <2>8, <3>4 DEF Emptied, Erased
    <3>6. \A x \in v.todo \ {u} : user'[x].deleted # 0
      BY <1>3, <2>5, <3>2
    <3>7. Unanonymized(w)'
      BY <1>6, <1>7, <3>6 DEF Unanonymized
    <3> QED BY <3>3, <3>5, <3>7
  <2>11. \A x \in Users : CountKept(x)
    BY <2>3, <2>4, <2>5 DEF CountKept
  <2>12. NoneCut' => (\A x \in Users : Counted(x)') /\ CountInHand(w)'
    BY <1>7, <1>8, <2>11, CountsKept
  <2> QED BY <1>7, <1>8, <2>5, <2>9, <2>10, <2>12, AccountsStep1
<1> QED BY <1>4, <1>9, <1>10

\* The job goes on to its next batch.
LEMMA NextBatchKeeps ==
    ASSUME Control, AccountsInv, NEW w \in Workers, NextBatch(w)
    PROVE  AccountsInv'
<1>1. UNCHANGED <<user, tokens, minted, missed>> /\ "batch" \in AccountsPoints
  BY DEF NextBatch, accountVars, AccountsPoints
<1>2. CASE End(w, "batch")
  BY <1>1, <1>2, QuietEnd
<1>3. ASSUME NEW b \in Batches, GotoWith(w, "batch", "batch", [todo |-> b, full |-> Cardinality(b) = BatchSize])
      PROVE  AccountsInv'
  <2>1. PICK v : v = [todo |-> b, full |-> Cardinality(b) = BatchSize]
    OBVIOUS
  <2>2. Mine(w) /\ req'[w].pc = "batch" /\ req'[w].v = v /\ req[w].pc = "batch"
    BY <1>3, <2>1, GotoWithMine
  <2>3. v = [todo |-> v.todo, full |-> v.full] /\ \A u \in v.todo : u \in Users /\ user[u].deleted # 0
    BY <2>1 DEF Batches, DueAccounts
  <2>4. ~Counting(w) /\ ~Counting(w)' /\ AccountLocal(w)' /\ Unanonymized(w)'
    BY <1>1, <2>2, <2>3 DEF Counting, AccountLocal, Unanonymized
  <2> QED BY <1>1, <2>2, <2>4, QuietStep
<1> QED BY <1>2, <1>3 DEF NextBatch

\* The retention deletes tokens that are stale.
LEMMA PurgeStaleKeeps ==
    ASSUME Control, AccountsInv, NEW w \in Workers, PurgeStaleRefreshTokens(w)
    PROVE  AccountsInv'
<1>1. UNCHANGED <<user, minted, missed>>
  BY DEF PurgeStaleRefreshTokens
<1>2. PICK r : r = [req[w] EXCEPT !.pc = "purgeRequests"]
  OBVIOUS
<1>3. \/ /\ Goto(w, "purgeTokens", "purgeRequests")
         /\ tokens' = [n \in {m \in DOMAIN tokens : ~Stale(tokens[m])} |-> tokens[n]]
      \/ FailTo(w, "purgeTokens", "rpc", r) /\ UNCHANGED tokens
  BY <1>2 DEF PurgeStaleRefreshTokens
<1>4. r.pc = "purgeRequests"
  BY <1>2, EntryFields DEF Control
<1>5. Mine(w) /\ req'[w].pc = "purgeRequests" /\ req[w].pc = "purgeTokens"
  BY <1>3, <1>4, GotoMine, FailMine
<1>6. ~Counting(w) /\ ~Counting(w)' /\ AccountLocal(w)' /\ Unanonymized(w)'
  BY <1>5 DEF Counting, AccountLocal, Unanonymized
<1>7. CASE UNCHANGED tokens
  BY <1>1, <1>5, <1>6, <1>7, QuietStep
<1>8. CASE tokens' = [n \in {m \in DOMAIN tokens : ~Stale(tokens[m])} |-> tokens[n]]
  <2>1. /\ tokens' = [n \in DOMAIN tokens' |-> tokens'[n]]
        /\ \A n \in DOMAIN tokens' : n \in DOMAIN tokens /\ tokens'[n] = tokens[n]
    BY <1>8
  <2>2. TokenRows /\ OneLiveToken /\ \A n \in DOMAIN tokens : IsToken(tokens[n])
    BY DEF AccountsInv, TokenRows
  <2>3. TokenRows' /\ OneLiveToken'
    BY <1>1, <2>1, <2>2, TokensWeaken
  <2> QED BY <1>1, <1>5, <1>6, <2>1, <2>3, TokenStep
<1> QED BY <1>3, <1>7, <1>8

(***************************************************************************)
(* The theorems                                                            *)
(***************************************************************************)

\* Every step keeps the invariant of the accounts.
LEMMA AccountsNextInv ==
    ASSUME Control, AccountsInv, [Next]_serviceVars
    PROVE  AccountsInv'
<1>1. CASE Elsewhere(AccountsPoints) /\ UNCHANGED accountVars
  <2>1. UNCHANGED <<user, tokens, minted, missed>> /\ upset \subseteq upset'
    BY <1>1 DEF accountVars, Elsewhere
  <2>2. \A w \in Workers :
          /\ req'[w] = req[w] \/ req'[w].pc \notin AccountsPoints
          /\ req[w].pc \in AccountsPoints => req'[w] = req[w] \/ "crash" \in upset'
    BY <1>1 DEF Elsewhere
  <2> QED BY <2>1, <2>2, AccountsElsewhere
<1>2. ASSUME NEW u \in Users, EngagementMoves(u) PROVE AccountsInv'
  <2>1. UNCHANGED <<user, tokens, minted, missed>> /\ upset' = upset /\ req' = req
    BY <1>2 DEF EngagementMoves, control
  <2> QED BY <2>1, AccountsElsewhere
<1>3. ASSUME NEW w \in Workers, AccountsTake(w) PROVE AccountsInv'
  <2>1. ASSUME NEW u \in Users, NEW e \in Emails,
               Register(w, u, e) \/ LoginWithGoogle(w, u, e) \/ RequestEmailChange(w, u, e) \/ SendInvite(w, u, e)
        PROVE  AccountsInv'
    BY <2>1, PlainCalls, OthersCalls, ChangesKeep
  <2>2. ASSUME NEW u \in Users, NEW p, NEW code, Login(w, u, p, code) PROVE AccountsInv'
    BY <2>2, LoginKeeps
  <2>3. ASSUME NEW u \in Users,
               \/ ResetPassword(w, u, 2) \/ ConfirmEmailChange(w, u) \/ SetDeactivated(w, u)
               \/ GenerateTotpSecret(w, u) \/ EnableTotp(w, u) \/ DisableTotp(w, u)
               \/ \E a \in {1, 2} : RebindStellarAddress(w, u, a)
               \/ \E i \in DOMAIN invites : AcceptTeamInvite(w, u, i)
               \/ RequestErasure(w, u)
        PROVE  AccountsInv'
    BY <2>3, PlainCalls, OthersCalls, ChangesKeep
  <2>4. ASSUME \/ \E n \in DOMAIN tokens : Refresh(w, n) \/ Logout(w, n)
               \/ \E i \in DOMAIN invites : RevokeInvite(w, i)
               \/ \E d \in deletions : ProcessRequest(w, d)
               \/ AnonymizeDueAccounts(w) \/ EnforceRetention(w)
        PROVE  AccountsInv'
    BY <2>4, PlainCalls, OthersCalls
  <2> QED BY <1>3, <2>1, <2>2, <2>3, <2>4 DEF AccountsTake
<1>4. ASSUME NEW w \in Workers, AccountsStep(w) PROVE AccountsInv'
  BY <1>4, InsertUserKeeps, FailReadKeeps, FailWriteKeeps, ResetKeeps, LinkGoogleKeeps, IssueKeeps, RotateKeeps,
     RevokesKeep, UpdateUserKeeps, InvitesKeep, JoinKeeps, EraseKeeps, AnonymizeUserKeeps, NextBatchKeeps,
     PurgeStaleKeeps DEF AccountsStep
<1> QED BY <1>1, <1>2, <1>3, <1>4, AccountsMoves DEF AccountsNext

\* At the start there are the accounts of the scope.
LEMMA AccountsStart == ASSUME Init PROVE AccountsInv
<1>1. /\ user = [u \in Users |-> IF u \in scope.known THEN NewUser(u) ELSE NoUser]
      /\ tokens = <<>> /\ minted = 0 /\ missed = [u \in Users |-> 0] /\ req = [w \in Workers |-> Idle]
  BY DEF Init, ControlInit, AccountsInit
<1>2. ASSUME NEW u \in Users
      PROVE  IsAccount(user[u]) /\ user[u].fails = 0 /\ user[u].locked = 0 /\ user[u].anon = FALSE
             /\ user[u].deleted = 0
  <2>1. CASE user[u] = NoUser
    BY <2>1 DEF NoUser, IsAccount, Fields
  <2>2. CASE user[u] = NewUser(u)
    BY <2>2, NewRowFresh DEF IsFresh
  <2> QED BY <1>1, <2>1, <2>2
<1>3. AccountRows
  BY <1>1, <1>2 DEF AccountRows
<1>4. TokenRows /\ OneLiveToken
  BY <1>1 DEF TokenRows, OneLiveToken
<1>5. \A w \in Workers : req[w].pc = "idle"
  BY <1>1, IdleEntry
<1>6. \A u \in Users : Emptied(u) /\ Erased(u)
  BY <1>2 DEF Emptied, Erased
<1>7. \A u \in Users : Counted(u)
  <2>1. MaxFailed \in Nat /\ MaxFailed # 0
    BY AccountsAssumption
  <2>2. \A u \in Users : missed[u] = 0
    BY <1>1
  <2>3. ASSUME NEW u \in Users, NEW r, r = user[u] PROVE Counted(u)
    <3>1. r.fails = 0 /\ r.locked = 0 /\ missed[u] = 0
      BY <1>2, <2>2, <2>3
    <3>2. ~(0 >= MaxFailed)
      BY <2>1
    <3> QED BY <2>3, <3>1, <3>2 DEF Counted
  <2> QED BY <2>3
<1>8. \A w \in Workers : AccountLocal(w) /\ Unanonymized(w) /\ CountInHand(w)
  BY <1>5 DEF AccountLocal, Unanonymized, CountInHand, Counting
<1> QED BY <1>3, <1>4, <1>6, <1>7, <1>8 DEF AccountsInv

\* The invariant includes what the run checks of accounts.
LEMMA AccountsSafe ==
    ASSUME AccountsInv
    PROVE  OneLiveToken /\ LockoutCounts /\ OnlyPendingEmailStays
<1>1. ASSUME Quiet, NoneCut, NEW u \in Users PROVE user[u].locked # 0 <=> missed[u] >= MaxFailed
  <2>1. Counted(u)
    BY <1>1 DEF AccountsInv
  <2>2. \A w \in Workers : ~Counting(w)
    BY <1>1 DEF Quiet, At, Counting
  <2> QED BY <2>1, <2>2 DEF Counted
<1>2. LockoutCounts
  BY <1>1 DEF LockoutCounts, NoneCut
<1>3. OnlyPendingEmailStays
  BY DEF OnlyPendingEmailStays, AccountsInv, NoneLate, Emptied
<1> QED BY <1>2, <1>3 DEF AccountsInv

\* Of one family of refresh tokens at most one can be exchanged: rotateToken
\* consumes the old one and inserts the new one in one transaction that looks
\* at the old one again, whatever refresh, logout or reuse overlaps it.
THEOREM OneTokenPerFamily == Spec => []OneLiveToken
<1>1. Init => Control /\ AccountsInv
  BY ControlStart, AccountsStart
<1>2. Control /\ AccountsInv /\ [Next]_serviceVars => (Control /\ AccountsInv)'
  BY ControlNext, AccountsNextInv
<1>3. AccountsInv => OneLiveToken
  BY AccountsSafe
<1> QED BY <1>1, <1>2, <1>3, PTL DEF Spec

\* Without overlapping requests or a crash, handleFailedLogin locks an account
\* exactly when the failures since the last success reach the limit.
THEOREM LockedAtLimit == Spec => []LockoutCounts
<1>1. Init => Control /\ AccountsInv
  BY ControlStart, AccountsStart
<1>2. Control /\ AccountsInv /\ [Next]_serviceVars => (Control /\ AccountsInv)'
  BY ControlNext, AccountsNextInv
<1>3. AccountsInv => LockoutCounts
  BY AccountsSafe
<1> QED BY <1>1, <1>2, <1>3, PTL DEF Spec

\* The anonymisation job leaves no email, password, Google id, two-factor secret or
\* session behind in an account, only a pending change of email, unless a request
\* overlapped it or came after it.
THEOREM AnonymizedKeepsPendingEmail == Spec => []OnlyPendingEmailStays
<1>1. Init => Control /\ AccountsInv
  BY ControlStart, AccountsStart
<1>2. Control /\ AccountsInv /\ [Next]_serviceVars => (Control /\ AccountsInv)'
  BY ControlNext, AccountsNextInv
<1>3. AccountsInv => OnlyPendingEmailStays
  BY AccountsSafe
<1> QED BY <1>1, <1>2, <1>3, PTL DEF Spec

(***************************************************************************)
(* Companies                                                               *)
(***************************************************************************)

\* A step of the companies, or one elsewhere.
LEMMA CompaniesMoves ==
    ASSUME Control, [Next]_serviceVars
    PROVE  CompaniesNext \/ (Elsewhere(CompaniesPoints) /\ UNCHANGED companyVars)
<1>1. CASE UNCHANGED serviceVars
  BY <1>1, ElsewhereSame DEF serviceVars
<1>2. CASE (\E t \in scope.times : Later(t)) /\ UNCHANGED companyVars
  BY <1>2, LaterElsewhere
<1>3. ASSUME NEW M, M \in {SlaPoints, AccountsPoints, IdempotencyPoints, DeliveriesPoints, CreditPoints,
                          FilesPoints, SponsorPoints, {}}, Steps(M)
      PROVE  Elsewhere(CompaniesPoints)
  <2>1. CompaniesPoints \cap (M \cup {"idle"}) = {}
    BY <1>3 DEF CreditPoints, AccountsPoints, CompaniesPoints, IdempotencyPoints, DeliveriesPoints, SlaPoints,
                FilesPoints, SponsorPoints
  <2> QED BY <1>3, <2>1, StepsElsewhere
<1>4. CASE (\E w \in Workers : Crash(w)) /\ UNCHANGED companyVars
  BY <1>3, <1>4, CrashSteps DEF Control
<1> QED BY <1>1, <1>2, <1>3, <1>4, NextSteps

RoleNames == {"none", "MEMBER", "BILLING", "OWNER"}
CompanyRowsOK ==
    /\ roles \in [Bosses -> [Bosses -> RoleNames]] /\ transfers \in Seq(Transfer)
    /\ \A i \in 1..Len(transfers) : transfers[i].from # transfers[i].to

\* The locals of a worker.
CompanyLocal(w) ==
    LET v == req[w].v
    IN  /\ req[w].pc \in {"supersede", "offer"} => {v.c, v.o, v.m} \subseteq Bosses /\ v.o # v.m
        /\ req[w].pc \in {"handOver", "cancelWrite"} => v.i \in 1..Len(transfers)
        /\ req[w].pc \in {"insertMember", "deleteMember"} => {v.c, v.m} \subseteq Bosses
        /\ req[w].pc = "insertMember" => v.role \in RoleNames

\* A pending transfer is the only one of its company, and from its one owner.
PendingFromOwner ==
    \A i \in 1..Len(transfers) : transfers[i].status = "pending" =>
        /\ OwnersOf(transfers[i].company) = {transfers[i].from}
        /\ \A j \in 1..Len(transfers) :
             transfers[j].status = "pending" /\ transfers[j].company = transfers[i].company => i = j
OwnedByOne(c) == \E o \in Bosses : OwnersOf(c) = {o}
CompanyHand(w) ==
    LET v == req[w].v
    IN  /\ req[w].pc \in {"supersede", "offer"} => OwnersOf(v.c) = {v.o}
        /\ req[w].pc = "handOver" => transfers[v.i].status = "pending"
        /\ req[w].pc = "insertMember" => v.m # v.c /\ v.role = "MEMBER"
        /\ req[w].pc = "deleteMember" => v.m # v.c /\ roles[v.c][v.m] # "OWNER"
Orderly == {"overlap", "owner by hand", "owner by SSO", "owner removed"} \cap upset = {}

CompaniesInv ==
    /\ CompanyRowsOK /\ \A w \in Workers : CompanyLocal(w)
    /\ Orderly => /\ PendingFromOwner /\ \A c \in Bosses : OwnedByOne(c)
                  /\ \A w \in Workers : CompanyHand(w)

\* Steps that come to none of their points leave the companies alone.
LEMMA CompaniesElsewhere ==
    ASSUME CompaniesInv, UNCHANGED companyVars, upset \subseteq upset',
           \A w \in Workers : req'[w] = req[w] \/ req'[w].pc \notin CompaniesPoints
    PROVE  CompaniesInv'
<1>0. roles' = roles /\ transfers' = transfers
  BY DEF companyVars
<1>1. CompanyRowsOK'
  BY <1>0 DEF CompaniesInv, CompanyRowsOK
<1>2. ASSUME NEW w \in Workers PROVE CompanyLocal(w)'
  <2>1. CASE req'[w] = req[w]
    BY <1>0, <2>1 DEF CompaniesInv, CompanyLocal
  <2>2. CASE req'[w].pc \notin CompaniesPoints
    BY <2>2 DEF CompanyLocal, CompaniesPoints
  <2> QED BY <2>1, <2>2
<1>3. ASSUME Orderly' PROVE PendingFromOwner' /\ (\A c \in Bosses : OwnedByOne(c)') /\ \A w \in Workers : CompanyHand(w)'
  <2>1. Orderly
    BY <1>3 DEF Orderly
  <2>2. PendingFromOwner' /\ \A c \in Bosses : OwnedByOne(c)'
    BY <1>0, <2>1 DEF CompaniesInv, PendingFromOwner, OwnedByOne, OwnersOf
  <2>3. ASSUME NEW w \in Workers PROVE CompanyHand(w)'
    <3>1. CASE req'[w] = req[w]
      BY <1>0, <2>1, <3>1 DEF CompaniesInv, CompanyHand, OwnersOf
    <3>2. CASE req'[w].pc \notin CompaniesPoints
      BY <3>2 DEF CompanyHand, CompaniesPoints
    <3> QED BY <3>1, <3>2
  <2> QED BY <2>2, <2>3
<1> QED BY <1>1, <1>2, <1>3 DEF CompaniesInv

\* A step of w, by its parts.
LEMMA CompaniesStep1 ==
    ASSUME CompaniesInv, NEW w \in Workers, Mine(w), CompanyRowsOK', Len(transfers) <= Len(transfers'), CompanyLocal(w)',
           Orderly' => PendingFromOwner' /\ (\A c \in Bosses : OwnedByOne(c)') /\ CompanyHand(w)'
    PROVE  CompaniesInv'
<1>1. ASSUME NEW x \in Workers \ {w} PROVE CompanyLocal(x)'
  <2>1. CompanyLocal(x) /\ req'[x] = req[x]
    BY DEF CompaniesInv, Mine
  <2>2. Len(transfers) \in Nat /\ Len(transfers') \in Nat
    BY DEF CompaniesInv, CompanyRowsOK
  <2> QED BY <2>1, <2>2 DEF CompanyLocal
<1>2. ASSUME Orderly', NEW x \in Workers \ {w} PROVE CompanyHand(x)'
  BY <1>2 DEF Orderly, Mine, CompanyHand
<1> QED BY <1>1, <1>2 DEF CompaniesInv

\* A request is taken up, or ends, and the tables stay.
LEMMA CompaniesCall ==
    ASSUME Control, CompaniesInv, NEW w \in Workers, Mine(w), UNCHANGED companyVars, CompanyLocal(w)',
           Orderly' => CompanyHand(w)'
    PROVE  CompaniesInv'
<1>0. roles' = roles /\ transfers' = transfers
  BY DEF companyVars
<1>1. CompanyRowsOK' /\ Len(transfers) <= Len(transfers')
  BY <1>0 DEF CompaniesInv, CompanyRowsOK
<1>2. ASSUME Orderly' PROVE PendingFromOwner' /\ (\A c \in Bosses : OwnedByOne(c)') /\ CompanyHand(w)'
  <2>1. Orderly
    BY <1>2 DEF Orderly, Mine
  <2> QED BY <1>0, <1>2, <2>1 DEF CompaniesInv, PendingFromOwner, OwnedByOne, OwnersOf
<1> QED BY <1>1, <1>2, CompaniesStep1

\* A non-empty set of row numbers has a greatest.
LEMMA LatestOf ==
    ASSUME NEW n \in Nat, NEW S \in SUBSET (1..n), S # {}
    PROVE  Max(S) \in S
<1>1. PICK T : T = {n - x : x \in S}
  OBVIOUS
<1>2. T \subseteq Nat /\ T # {}
  <2>1. \A x \in S : n - x \in Nat
    OBVIOUS
  <2>2. PICK x : x \in S
    OBVIOUS
  <2> QED BY <1>1, <2>1, <2>2
<1> DEFINE R == OpToRel(<, Nat)
<1>3. IsWellFoundedOn(R, Nat)
  BY NatLessThanWellFounded
<1>4. \A x, y \in Nat : <<y, x>> \in R <=> y < x
  BY DEF OpToRel
<1> HIDE DEF R
<1>5. PICK t \in T : \A y \in T : ~ (<<y, t>> \in R)
  BY <1>2, <1>3, WFMin
<1>6. PICK x \in S : t = n - x
  BY <1>1, <1>5
<1>7. ASSUME NEW y \in S PROVE x >= y
  <2>1. n - y \in T /\ n - y \in Nat /\ n - x \in Nat /\ x \in Nat /\ y \in Nat
    BY <1>1
  <2>2. ~ (n - y < n - x)
    BY <1>4, <1>5, <1>6, <2>1
  <2> QED BY <2>1, <2>2
<1> QED BY <1>7 DEF Max

\* A transfer is offered, accepted or cancelled by its parties.
LEMMA TransferCalls ==
    ASSUME Control, CompaniesInv, NEW w \in Workers,
           \/ \E o, m \in Bosses : InitiateTransfer(w, o, m)
           \/ \E m \in Bosses : AcceptTransfer(w, m) \/ CancelTransfer(w, m)
    PROVE  CompaniesInv'
<1>0. Len(transfers) \in Nat /\ DOMAIN transfers = 1..Len(transfers)
  BY DEF CompaniesInv, CompanyRowsOK
<1>1. ASSUME NEW o \in Bosses, NEW m \in Bosses, InitiateTransfer(w, o, m) PROVE CompaniesInv'
  <2>1. PICK c \in OwnedBy(o) : CallNoting(w, "transfer", "supersede", [c |-> c, o |-> o, m |-> m], {})
    BY <1>1 DEF InitiateTransfer, Call
  <2>2. PICK v : v = [c |-> c, o |-> o, m |-> m]
    OBVIOUS
  <2>3. Mine(w) /\ req'[w].pc = "supersede" /\ req'[w].v = v
    BY <2>1, <2>2, CallMine
  <2>4. c \in Bosses /\ o \in OwnersOf(c) /\ o # m
    BY <1>1 DEF InitiateTransfer, OwnedBy, CompanyRows, OwnersOf
  <2>5. UNCHANGED companyVars
    BY <1>1 DEF InitiateTransfer
  <2>6. CompanyLocal(w)'
    BY <2>2, <2>3, <2>4 DEF CompanyLocal
  <2>7. ASSUME Orderly' PROVE CompanyHand(w)'
    <3>1. Orderly
      BY <2>3, <2>7 DEF Orderly, Mine
    <3>2. OwnersOf(c) = {o}
      BY <2>4, <3>1 DEF CompaniesInv, OwnedByOne
    <3> QED BY <2>2, <2>3, <2>5, <3>2 DEF CompanyHand, companyVars, OwnersOf
  <2> QED BY <2>3, <2>5, <2>6, <2>7, CompaniesCall
<1>2. ASSUME NEW m \in Bosses, AcceptTransfer(w, m) PROVE CompaniesInv'
  <2>1. PICK mine : mine = {i \in DOMAIN transfers : transfers[i].to = m /\ transfers[i].status = "pending"}
    OBVIOUS
  <2>2. CallNoting(w, "accept", "handOver", [i |-> Max(mine)], {}) /\ UNCHANGED companyVars /\ mine # {}
    BY <1>2, <2>1 DEF AcceptTransfer, Call
  <2>3. Max(mine) \in mine
    <3>1. mine \subseteq 1..Len(transfers)
      BY <1>0, <2>1
    <3> QED BY <1>0, <2>2, <3>1, LatestOf
  <2>4. PICK v : v = [i |-> Max(mine)]
    OBVIOUS
  <2>5. Mine(w) /\ req'[w].pc = "handOver" /\ req'[w].v = v
    BY <2>2, <2>4, CallMine
  <2>6. v.i \in 1..Len(transfers) /\ transfers[v.i].status = "pending"
    BY <1>0, <2>1, <2>3, <2>4
  <2>7. CompanyLocal(w)' /\ CompanyHand(w)'
    BY <2>2, <2>5, <2>6 DEF CompanyLocal, CompanyHand, companyVars
  <2> QED BY <2>2, <2>5, <2>7, CompaniesCall
<1>3. ASSUME NEW o \in Bosses, CancelTransfer(w, o) PROVE CompaniesInv'
  <2>1. PICK i \in DOMAIN transfers : CallNoting(w, "cancel", "cancelWrite", [i |-> i], {})
    BY <1>3 DEF CancelTransfer, Call, PendingOf
  <2>2. UNCHANGED companyVars
    BY <1>3 DEF CancelTransfer
  <2>3. PICK v : v = [i |-> i]
    OBVIOUS
  <2>4. Mine(w) /\ req'[w].pc = "cancelWrite" /\ req'[w].v = v
    BY <2>1, <2>3, CallMine
  <2>5. CompanyLocal(w)' /\ CompanyHand(w)'
    BY <1>0, <2>2, <2>3, <2>4 DEF CompanyLocal, CompanyHand, companyVars
  <2> QED BY <2>2, <2>4, <2>5, CompaniesCall
<1> QED BY <1>1, <1>2, <1>3

\* Members are added and removed; what makes or unmakes an owner is noted.
LEMMA MemberCalls ==
    ASSUME Control, CompaniesInv, NEW w \in Workers,
           \E o, m \in Bosses :
             \/ RemoveMember(w, o, m) \/ SsoLogin(w, o, m)
             \/ \E role \in {"MEMBER", "OWNER"} : AddMember(w, o, m, role)
    PROVE  CompaniesInv'
<1>1. ASSUME NEW o \in Bosses, NEW m \in Bosses, NEW what, NEW role \in RoleNames,
             CallNoting(w, "member", "insertMember", [c |-> o, m |-> m, role |-> role], what)
               \/ CallNoting(w, "sso", "insertMember", [c |-> o, m |-> m, role |-> role], what),
             UNCHANGED companyVars,
             m = o \/ role # "MEMBER" => what \cap {"owner by hand", "owner by SSO"} # {}
      PROVE  CompaniesInv'
  <2>1. PICK v : v = [c |-> o, m |-> m, role |-> role]
    OBVIOUS
  <2>2. Mine(w) /\ req'[w].pc = "insertMember" /\ req'[w].v = v /\ what \subseteq upset'
    BY <1>1, <2>1, CallMine
  <2>3. CompanyLocal(w)'
    BY <2>1, <2>2 DEF CompanyLocal
  <2>4. ASSUME Orderly' PROVE CompanyHand(w)'
    <3>1. m # o /\ role = "MEMBER"
      BY <1>1, <2>2, <2>4 DEF Orderly
    <3>2. v.m = m /\ v.c = o /\ v.role = role
      BY <2>1
    <3> QED BY <2>2, <3>1, <3>2 DEF CompanyHand
  <2> QED BY <1>1, <2>2, <2>3, <2>4, CompaniesCall
<1>2. ASSUME NEW o \in Bosses, NEW m \in Bosses, NEW role \in {"MEMBER", "OWNER"}, AddMember(w, o, m, role)
      PROVE  CompaniesInv'
  <2>1. PICK what : /\ CallNoting(w, "member", "insertMember", [c |-> o, m |-> m, role |-> role], what)
                    /\ role = "OWNER" => "owner by hand" \in what
    BY <1>2 DEF AddMember
  <2>2. UNCHANGED companyVars /\ m # o /\ role \in RoleNames
    BY <1>2 DEF AddMember, RoleNames
  <2> QED BY <1>1, <2>1, <2>2
<1>3. ASSUME NEW o \in Bosses, NEW m \in Bosses, SsoLogin(w, o, m) PROVE CompaniesInv'
  <2>1. PICK what : /\ CallNoting(w, "sso", "insertMember", [c |-> o, m |-> m, role |-> "MEMBER"], what)
                    /\ m = o => "owner by SSO" \in what
    BY <1>3 DEF SsoLogin
  <2>2. UNCHANGED companyVars /\ "MEMBER" \in RoleNames
    BY <1>3 DEF SsoLogin, RoleNames
  <2> QED BY <1>1, <2>1, <2>2
<1>4. ASSUME NEW o \in Bosses, NEW m \in Bosses, RemoveMember(w, o, m) PROVE CompaniesInv'
  <2>1. PICK v : v = [c |-> o, m |-> m]
    OBVIOUS
  <2>2. PICK what : /\ CallNoting(w, "leave", "deleteMember", v, what)
                    /\ m = o \/ roles[o][m] = "OWNER" => "owner removed" \in what
    BY <1>4, <2>1 DEF RemoveMember
  <2>3. Mine(w) /\ req'[w].pc = "deleteMember" /\ req'[w].v = v /\ what \subseteq upset'
    BY <2>2, CallMine
  <2>4. UNCHANGED companyVars
    BY <1>4 DEF RemoveMember
  <2>5. CompanyLocal(w)'
    BY <2>1, <2>3 DEF CompanyLocal
  <2>6. ASSUME Orderly' PROVE CompanyHand(w)'
    <3>1. m # o /\ roles[o][m] # "OWNER"
      BY <2>2, <2>3, <2>6 DEF Orderly
    <3>2. v.m = m /\ v.c = o /\ roles' = roles
      BY <2>1, <2>4 DEF companyVars
    <3> QED BY <2>3, <3>1, <3>2 DEF CompanyHand
  <2> QED BY <2>3, <2>4, <2>5, <2>6, CompaniesCall
<1> QED BY <1>2, <1>3, <1>4

\* A step that changes no role, and makes no transfer pending.
LEMMA TransfersSettle ==
    ASSUME Control, CompaniesInv, NEW w \in Workers, Mine(w), roles' = roles, transfers' \in Seq(Transfer),
           Len(transfers') = Len(transfers),
           \A i \in 1..Len(transfers) :
             /\ transfers'[i].company = transfers[i].company /\ transfers'[i].from = transfers[i].from
             /\ transfers'[i].to = transfers[i].to
             /\ transfers'[i].status = "pending" => transfers[i].status = "pending",
           CompanyLocal(w)', Orderly' => CompanyHand(w)'
    PROVE  CompaniesInv'
<1>1. CompanyRowsOK' /\ Len(transfers) <= Len(transfers')
  BY DEF CompaniesInv, CompanyRowsOK
<1>2. ASSUME Orderly' PROVE PendingFromOwner' /\ (\A c \in Bosses : OwnedByOne(c)') /\ CompanyHand(w)'
  <2>1. Orderly
    BY <1>2 DEF Orderly, Mine
  <2>2. \A c : OwnersOf(c)' = OwnersOf(c)
    BY DEF OwnersOf
  <2>3. PendingFromOwner'
    BY <2>1, <2>2 DEF CompaniesInv, PendingFromOwner
  <2>4. \A c \in Bosses : OwnedByOne(c)'
    BY <2>1, <2>2 DEF CompaniesInv, OwnedByOne
  <2> QED BY <1>2, <2>3, <2>4
<1> QED BY <1>1, <1>2, CompaniesStep1

\* A transfer with another status.
LEMMA StatusSet ==
    ASSUME NEW t \in Transfer, NEW s \in {"pending", "accepted", "cancelled"}, NEW r, r = [t EXCEPT !.status = s]
    PROVE  r \in Transfer /\ r.company = t.company /\ r.from = t.from /\ r.to = t.to /\ r.status = s
  BY DEF Transfer

\* A new offer closes the pending one.
LEMMA SupersedeKeeps ==
    ASSUME Control, CompaniesInv, NEW w \in Workers, SupersedeTransfer(w)
    PROVE  CompaniesInv'
<1>1. PICK gone : gone = Superseded(Local(w).c)
  OBVIOUS
<1>2. /\ Goto(w, "supersede", "offer") /\ roles' = roles
      /\ transfers' = [i \in DOMAIN transfers |-> IF i \in gone THEN [transfers[i] EXCEPT !.status = "cancelled"]
                                                  ELSE transfers[i]]
  BY <1>1 DEF SupersedeTransfer
<1>3. Mine(w) /\ req'[w].pc = "offer" /\ req'[w].v = req[w].v /\ req[w].pc = "supersede" /\ upset' = upset
  BY <1>2, GotoMine
<1>4. PICK n \in Nat : n = Len(transfers) /\ DOMAIN transfers = 1..n /\ \A i \in 1..n : transfers[i] \in Transfer
  BY DEF CompaniesInv, CompanyRowsOK
<1>5. \A i \in 1..n : /\ transfers'[i] \in Transfer /\ transfers'[i].company = transfers[i].company
                      /\ transfers'[i].from = transfers[i].from /\ transfers'[i].to = transfers[i].to
                      /\ transfers'[i].status = "pending" => transfers[i].status = "pending"
  <2>1. ASSUME NEW i \in 1..n, NEW t, t = transfers[i]
        PROVE  /\ transfers'[i] \in Transfer /\ transfers'[i].company = t.company
               /\ transfers'[i].from = t.from /\ transfers'[i].to = t.to
               /\ transfers'[i].status = "pending" => t.status = "pending"
    <3>1. transfers'[i] = t \/ transfers'[i] = [t EXCEPT !.status = "cancelled"]
      BY <1>2, <1>4, <2>1
    <3>2. t \in Transfer
      BY <1>4, <2>1
    <3> QED BY <3>1, <3>2, StatusSet
  <2> QED BY <2>1
<1>6. transfers' \in Seq(Transfer) /\ Len(transfers') = n
  <2>1. transfers' \in [1..n -> Transfer]
    BY <1>2, <1>4, <1>5
  <2> QED BY <2>1
<1>7. CompanyLocal(w)'
  BY <1>3 DEF CompaniesInv, CompanyLocal
<1>8. ASSUME Orderly' PROVE CompanyHand(w)'
  <2>1. Orderly
    BY <1>3, <1>8 DEF Orderly
  <2>2. CompanyHand(w)
    BY <2>1 DEF CompaniesInv
  <2> QED BY <1>2, <1>3, <2>2 DEF CompanyHand, OwnersOf
<1> QED BY <1>2, <1>3, <1>4, <1>5, <1>6, <1>7, <1>8, TransfersSettle

\* The end of a handler leaves nothing in hand.
LEMMA CompanyEnd ==
    ASSUME Control, NEW w \in Workers, NEW from, End(w, from), from # "idle"
    PROVE  Mine(w) /\ req[w].pc = from /\ upset' = upset /\ CompanyLocal(w)' /\ CompanyHand(w)'
<1>1. Mine(w) /\ req'[w].pc = "idle" /\ req[w].pc = from /\ upset' = upset
  BY EndMine
<1> QED BY <1>1 DEF CompanyLocal, CompanyHand

\* A cancelled transfer is pending no longer.
LEMMA CancelKeeps ==
    ASSUME Control, CompaniesInv, NEW w \in Workers, CancelWrite(w)
    PROVE  CompaniesInv'
<1>1. PICK i : i = req[w].v.i
  OBVIOUS
<1>2. /\ End(w, "cancelWrite") /\ roles' = roles
      /\ transfers' = transfers \/ transfers' = [transfers EXCEPT ![i].status = "cancelled"]
  BY <1>1 DEF CancelWrite, Local
<1>3. Mine(w) /\ req[w].pc = "cancelWrite" /\ CompanyLocal(w)' /\ CompanyHand(w)'
  BY <1>2, CompanyEnd
<1>4. PICK n \in Nat : n = Len(transfers) /\ DOMAIN transfers = 1..n /\ \A k \in 1..n : transfers[k] \in Transfer
  BY DEF CompaniesInv, CompanyRowsOK
<1>5. i \in 1..n
  BY <1>1, <1>3, <1>4 DEF CompaniesInv, CompanyLocal
<1>6. CASE transfers' = transfers
  BY <1>2, <1>3, <1>6, CompaniesCall DEF companyVars
<1>7. CASE transfers' = [transfers EXCEPT ![i].status = "cancelled"]
  <2>1. PICK t : t = [transfers[i] EXCEPT !.status = "cancelled"]
    OBVIOUS
  <2>2. t \in Transfer /\ t.company = transfers[i].company /\ t.from = transfers[i].from /\ t.to = transfers[i].to
        /\ t.status = "cancelled"
    BY <1>4, <1>5, <2>1, StatusSet
  <2>3. transfers' = [transfers EXCEPT ![i] = t] /\ transfers \in Seq(Transfer)
    BY <1>7, <2>1 DEF CompaniesInv, CompanyRowsOK
  <2>4. transfers' \in Seq(Transfer) /\ Len(transfers') = n /\ \A k \in 1..n : transfers'[k] = IF k = i THEN t ELSE transfers[k]
    BY <1>4, <1>5, <2>2, <2>3
  <2>5. \A k \in 1..n : /\ transfers'[k].company = transfers[k].company /\ transfers'[k].from = transfers[k].from
                        /\ transfers'[k].to = transfers[k].to
                        /\ transfers'[k].status = "pending" => transfers[k].status = "pending"
    BY <2>2, <2>4
  <2> QED BY <1>2, <1>3, <1>4, <2>4, <2>5, TransfersSettle
<1> QED BY <1>2, <1>6, <1>7

\* A new transfer is the only pending one of its company.
LEMMA CreateKeeps ==
    ASSUME Control, CompaniesInv, NEW w \in Workers, CreateTransfer(w)
    PROVE  CompaniesInv'
<1>1. PICK v : v = req[w].v
  OBVIOUS
<1>2. PICK t : t = [company |-> v.c, from |-> v.o, to |-> v.m, exp |-> now + TransferTime, status |-> "pending"]
  OBVIOUS
<1>3. /\ End(w, "offer") /\ roles' = roles
      /\ transfers' = transfers \/ (transfers' = Append(transfers, t) /\ PendingOf(v.c) = {})
  BY <1>1, <1>2 DEF CreateTransfer, Local
<1>4. Mine(w) /\ req[w].pc = "offer" /\ upset' = upset /\ CompanyLocal(w)' /\ CompanyHand(w)'
  BY <1>3, CompanyEnd
<1>5. CASE transfers' = transfers
  BY <1>3, <1>4, <1>5, CompaniesCall DEF companyVars
<1>6. CASE transfers' = Append(transfers, t) /\ PendingOf(v.c) = {}
  <2>1. {v.c, v.o, v.m} \subseteq Bosses /\ v.o # v.m
    BY <1>1, <1>4 DEF CompaniesInv, CompanyLocal
  <2>2. now + TransferTime \in Nat
    BY CompaniesAssumption DEF Control
  <2>3. t \in Transfer /\ t.company = v.c /\ t.from = v.o /\ t.to = v.m
    BY <1>2, <2>1, <2>2 DEF Transfer
  <2>4. PICK n \in Nat : n = Len(transfers) /\ DOMAIN transfers = 1..n /\ transfers \in Seq(Transfer)
    BY DEF CompaniesInv, CompanyRowsOK
  <2>5. /\ transfers' \in Seq(Transfer) /\ Len(transfers') = n + 1 /\ transfers'[n + 1] = t
        /\ \A i \in 1..n : transfers'[i] = transfers[i]
    BY <1>6, <2>3, <2>4
  <2>6. CompanyRowsOK' /\ Len(transfers) <= Len(transfers')
    BY <1>3, <2>1, <2>3, <2>4, <2>5 DEF CompaniesInv, CompanyRowsOK
  <2>7. ASSUME Orderly' PROVE PendingFromOwner' /\ (\A c \in Bosses : OwnedByOne(c)') /\ CompanyHand(w)'
    <3>1. Orderly
      BY <1>4, <2>7 DEF Orderly
    <3>2. OwnersOf(v.c) = {v.o}
      BY <1>1, <1>4, <3>1 DEF CompaniesInv, CompanyHand
    <3>3. \A c : OwnersOf(c)' = OwnersOf(c)
      BY <1>3 DEF OwnersOf
    <3>4. \A i \in 1..n : transfers[i].status = "pending" => transfers[i].company # v.c
      BY <1>6, <2>4 DEF PendingOf
    <3>5. PendingFromOwner
      BY <3>1 DEF CompaniesInv
    <3>6. PendingFromOwner'
      <4>1. ASSUME NEW i \in 1..(n + 1), transfers'[i].status = "pending", NEW c, c = transfers'[i].company
            PROVE  OwnersOf(c)' = {transfers'[i].from}
        <5>1. CASE i = n + 1
          BY <2>3, <2>5, <3>2, <3>3, <4>1, <5>1
        <5>2. CASE i \in 1..n
          <6>1. transfers'[i] = transfers[i]
            BY <2>5, <5>2
          <6>2. OwnersOf(c) = {transfers[i].from}
            BY <2>4, <3>5, <4>1, <5>2, <6>1 DEF PendingFromOwner
          <6> QED BY <3>3, <6>1, <6>2
        <5> QED BY <5>1, <5>2
      <4>2. ASSUME NEW i \in 1..(n + 1), NEW j \in 1..(n + 1), transfers'[i].status = "pending",
                   transfers'[j].status = "pending", transfers'[j].company = transfers'[i].company
            PROVE  i = j
        <5>1. CASE i \in 1..n /\ j \in 1..n
          BY <2>4, <2>5, <3>5, <4>2, <5>1 DEF PendingFromOwner
        <5>2. CASE i = n + 1 /\ j \in 1..n
          BY <2>3, <2>5, <3>4, <4>2, <5>2
        <5>3. CASE j = n + 1 /\ i \in 1..n
          BY <2>3, <2>5, <3>4, <4>2, <5>3
        <5> QED BY <5>1, <5>2, <5>3
      <4>3. Len(transfers') = n + 1
        BY <2>5
      <4>4. \A i \in 1..(n + 1) : transfers'[i].status = "pending" => OwnersOf(transfers[i].company)' = {transfers'[i].from}
        BY <4>1 DEF OwnersOf
      <4> QED BY <4>2, <4>3, <4>4 DEF PendingFromOwner
    <3>7. \A c \in Bosses : OwnedByOne(c)'
      BY <3>1, <3>3 DEF CompaniesInv, OwnedByOne
    <3> QED BY <1>4, <3>6, <3>7
  <2> QED BY <1>4, <2>6, <2>7, CompaniesStep1
<1> QED BY <1>3, <1>5, <1>6

\* Accepting a transfer moves the ownership of its company.
LEMMA HandOverKeeps ==
    ASSUME Control, CompaniesInv, NEW w \in Workers, HandOver(w)
    PROVE  CompaniesInv'
<1>1. PICK i : i = req[w].v.i
  OBVIOUS
<1>2. PICK t : t = transfers[i]
  OBVIOUS
<1>3. /\ End(w, "handOver")
      /\ \/ UNCHANGED companyVars
         \/ /\ transfers' = [transfers EXCEPT ![i].status = "accepted"]
            /\ roles' = [roles EXCEPT ![t.company] = HandedOver(t)]
  BY <1>1, <1>2 DEF HandOver, Local
<1>4. Mine(w) /\ req[w].pc = "handOver" /\ upset' = upset /\ CompanyLocal(w)' /\ CompanyHand(w)'
  BY <1>3, CompanyEnd
<1>5. CASE UNCHANGED companyVars
  BY <1>4, <1>5, CompaniesCall
<1>6. CASE /\ transfers' = [transfers EXCEPT ![i].status = "accepted"]
           /\ roles' = [roles EXCEPT ![t.company] = HandedOver(t)]
  <2>1. PICK n \in Nat : n = Len(transfers) /\ DOMAIN transfers = 1..n /\ transfers \in Seq(Transfer)
    BY DEF CompaniesInv, CompanyRowsOK
  <2>2. i \in 1..n /\ t \in Transfer /\ t.from # t.to
    BY <1>1, <1>2, <1>4, <2>1 DEF CompaniesInv, CompanyLocal, CompanyRowsOK
  <2>3. PICK s : s = [t EXCEPT !.status = "accepted"]
    OBVIOUS
  <2>4. s \in Transfer /\ s.company = t.company /\ s.from = t.from /\ s.to = t.to /\ s.status = "accepted"
    BY <2>2, <2>3, StatusSet
  <2>5. transfers' = [transfers EXCEPT ![i] = s]
    BY <1>2, <1>6, <2>3
  <2>6. /\ transfers' \in Seq(Transfer) /\ Len(transfers') = n
        /\ \A k \in 1..n : transfers'[k] = IF k = i THEN s ELSE transfers[k]
    BY <2>1, <2>2, <2>4, <2>5
  <2>7. PICK c, a, b \in Bosses : c = t.company /\ a = t.from /\ b = t.to /\ a # b
    BY <2>2 DEF Transfer
  <2>8. roles \in [Bosses -> [Bosses -> RoleNames]] /\ {"MEMBER", "OWNER"} \subseteq RoleNames
    BY DEF CompaniesInv, CompanyRowsOK, RoleNames
  <2>9. HandedOver(t) = [m \in Bosses |-> IF m = b THEN "OWNER" ELSE IF m = a THEN "MEMBER" ELSE roles[c][m]]
    BY <2>7, <2>8 DEF HandedOver
  <2>10. /\ roles' \in [Bosses -> [Bosses -> RoleNames]]
         /\ \A d \in Bosses \ {c} : roles'[d] = roles[d]
         /\ \A m \in Bosses : roles'[c][m] = IF m = b THEN "OWNER" ELSE IF m = a THEN "MEMBER" ELSE roles[c][m]
    BY <1>6, <2>7, <2>8, <2>9
  <2>11. CompanyRowsOK' /\ Len(transfers) <= Len(transfers')
    BY <2>1, <2>2, <2>4, <2>6, <2>10 DEF CompaniesInv, CompanyRowsOK
  <2>12. ASSUME Orderly' PROVE PendingFromOwner' /\ (\A d \in Bosses : OwnedByOne(d)') /\ CompanyHand(w)'
    <3>1. Orderly
      BY <1>4, <2>12 DEF Orderly
    <3>2. t.status = "pending" /\ PendingFromOwner
      BY <1>1, <1>2, <1>4, <3>1 DEF CompaniesInv, CompanyHand
    <3>3. OwnersOf(c) = {a}
      BY <1>2, <2>1, <2>2, <2>7, <3>2 DEF PendingFromOwner
    <3>4. OwnersOf(c)' = {b}
      <4>1. \A m \in Bosses : roles[c][m] = "OWNER" => m = a
        BY <3>3 DEF OwnersOf
      <4>2. roles[c][c] = "none" => a = c
        BY <3>3 DEF OwnersOf
      <4>3. \A m \in Bosses : roles'[c][m] = "OWNER" <=> m = b
        BY <2>7, <2>10, <4>1
      <4>4. roles'[c][c] # "none"
        BY <2>7, <2>10, <4>2
      <4> QED BY <4>3, <4>4 DEF OwnersOf
    <3>5. \A d \in Bosses \ {c} : OwnersOf(d)' = OwnersOf(d)
      BY <2>10 DEF OwnersOf
    <3>6. \A d \in Bosses : OwnedByOne(d)'
      BY <2>7, <3>1, <3>4, <3>5 DEF CompaniesInv, OwnedByOne
    <3>7. ASSUME NEW k \in 1..n, transfers'[k].status = "pending"
          PROVE  k # i /\ transfers'[k] = transfers[k] /\ transfers[k].company \in Bosses \ {c}
      <4>1. k # i /\ transfers'[k] = transfers[k]
        BY <2>4, <2>6, <3>7
      <4>2. transfers[k].company # c
        BY <1>2, <2>1, <2>2, <2>7, <3>2, <3>7, <4>1 DEF PendingFromOwner
      <4>3. transfers[k].company \in Bosses
        <5>1. transfers[k] \in Transfer
          BY <2>1
        <5> QED BY <5>1 DEF Transfer
      <4> QED BY <4>1, <4>2, <4>3
    <3>8. PendingFromOwner'
      BY <2>1, <2>6, <3>2, <3>5, <3>7 DEF PendingFromOwner
    <3> QED BY <1>4, <3>6, <3>8
  <2> QED BY <1>4, <2>11, <2>12, CompaniesStep1
<1> QED BY <1>3, <1>5, <1>6

\* A member row is inserted or deleted.
LEMMA MembersKeep ==
    ASSUME Control, CompaniesInv, NEW w \in Workers, InsertMember(w) \/ DeleteMember(w)
    PROVE  CompaniesInv'
<1>1. PICK v : v = req[w].v
  OBVIOUS
<1>2. PICK c, m : c = v.c /\ m = v.m
  OBVIOUS
<1>3. PICK from, x :
        /\ End(w, from) /\ transfers' = transfers /\ (roles' = roles \/ roles' = [roles EXCEPT ![c][m] = x])
        /\ \/ from = "insertMember" /\ x = v.role /\ (roles' = roles \/ roles[c][m] = "none")
           \/ from = "deleteMember" /\ x = "none"
  BY <1>1, <1>2 DEF InsertMember, DeleteMember, Local
<1>4. Mine(w) /\ req[w].pc = from /\ upset' = upset /\ CompanyLocal(w)' /\ CompanyHand(w)'
  BY <1>3, CompanyEnd
<1>5. c \in Bosses /\ m \in Bosses /\ x \in RoleNames
  BY <1>1, <1>2, <1>3, <1>4 DEF CompaniesInv, CompanyLocal, RoleNames
<1>6. CASE roles' = roles
  BY <1>3, <1>4, <1>6, CompaniesCall DEF companyVars
<1>7. CASE roles' # roles
  <2>1. roles \in [Bosses -> [Bosses -> RoleNames]]
    BY DEF CompaniesInv, CompanyRowsOK
  <2>2. /\ roles' \in [Bosses -> [Bosses -> RoleNames]]
        /\ \A d \in Bosses : d # c => roles'[d] = roles[d]
        /\ \A y \in Bosses : roles'[c][y] = IF y = m THEN x ELSE roles[c][y]
    BY <1>3, <1>5, <1>7, <2>1
  <2>3. CompanyRowsOK' /\ Len(transfers) <= Len(transfers')
    BY <1>3, <2>2 DEF CompaniesInv, CompanyRowsOK
  <2>4. ASSUME Orderly' PROVE PendingFromOwner' /\ (\A d \in Bosses : OwnedByOne(d)') /\ CompanyHand(w)'
    <3>1. Orderly
      BY <1>4, <2>4 DEF Orderly
    <3>2. CompanyHand(w) /\ PendingFromOwner
      BY <3>1 DEF CompaniesInv
    <3>3. m # c /\ roles[c][m] # "OWNER" /\ x # "OWNER"
      BY <1>1, <1>2, <1>3, <1>4, <1>7, <3>2 DEF CompanyHand
    <3>4. roles'[c][c] = roles[c][c] /\ \A y \in Bosses : roles'[c][y] = "OWNER" <=> roles[c][y] = "OWNER"
      BY <1>5, <2>2, <3>3
    <3>5. \A d \in Bosses : OwnersOf(d)' = OwnersOf(d)
      BY <2>2, <3>4 DEF OwnersOf
    <3>6. \A i \in 1..Len(transfers) : transfers[i].company \in Bosses
      <4>1. \A i \in 1..Len(transfers) : transfers[i] \in Transfer
        BY DEF CompaniesInv, CompanyRowsOK
      <4> QED BY <4>1 DEF Transfer
    <3>7. PendingFromOwner'
      BY <1>3, <3>2, <3>5, <3>6 DEF PendingFromOwner
    <3>8. \A d \in Bosses : OwnedByOne(d)'
      BY <3>1, <3>5 DEF CompaniesInv, OwnedByOne
    <3> QED BY <1>4, <3>7, <3>8
  <2> QED BY <1>4, <2>3, <2>4, CompaniesStep1
<1> QED BY <1>6, <1>7

\* Every step keeps the invariant of the companies.
LEMMA CompaniesNextInv ==
    ASSUME Control, CompaniesInv, [Next]_serviceVars
    PROVE  CompaniesInv'
<1>1. CASE Elsewhere(CompaniesPoints) /\ UNCHANGED companyVars
  BY <1>1, CompaniesElsewhere DEF Elsewhere
<1>2. CASE CompaniesNext
  BY <1>2, TransferCalls, MemberCalls, SupersedeKeeps, CreateKeeps, HandOverKeeps, CancelKeeps, MembersKeep
     DEF CompaniesNext
<1> QED BY <1>1, <1>2, CompaniesMoves

\* At the start nobody has a role.
LEMMA CompaniesStart == ASSUME Init PROVE CompaniesInv
<1>1. roles = [c \in Bosses |-> [m \in Bosses |-> "none"]] /\ transfers = <<>> /\ req = [w \in Workers |-> Idle]
  BY DEF Init, ControlInit, CompaniesInit
<1>2. CompanyRowsOK /\ PendingFromOwner
  BY <1>1 DEF CompanyRowsOK, PendingFromOwner, RoleNames
<1>3. \A c \in Bosses : OwnersOf(c) = {c}
  BY <1>1 DEF OwnersOf
<1>4. \A w \in Workers : req[w].pc = "idle"
  BY <1>1, IdleEntry
<1>5. \A w \in Workers : CompanyLocal(w) /\ CompanyHand(w)
  BY <1>4 DEF CompanyLocal, CompanyHand
<1> QED BY <1>2, <1>3, <1>5 DEF CompaniesInv, OwnedByOne

\* A company has one owner through every orderly sequence of transfers: the
\* hand-over takes the role from the member who offered it, who owns the
\* company as long as his offer is pending.
THEOREM OneOwnerEach == Spec => []OneOwner
<1>1. Init => Control /\ CompaniesInv
  BY ControlStart, CompaniesStart
<1>2. Control /\ CompaniesInv /\ [Next]_serviceVars => (Control /\ CompaniesInv)'
  BY ControlNext, CompaniesNextInv
<1>3. CompaniesInv => OneOwner
  <2>1. \A c : OwnedByOne(c) => Cardinality(OwnersOf(c)) = 1
    BY FS_Singleton DEF OwnedByOne
  <2> QED BY <2>1 DEF CompaniesInv, OneOwner, Orderly
<1> QED BY <1>1, <1>2, <1>3, PTL DEF Spec

=============================================================================
