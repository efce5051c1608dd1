----------------------------- MODULE Companies -----------------------------
(***************************************************************************)
(* A company's members and the transfer of its ownership in two steps.  A  *)
(* company is named by the user who founded it; a user without any member  *)
(* row counts as the owner of his own company.  Names, billing addresses,  *)
(* SSO configuration and spending limits, which no caller enforces, are    *)
(* left out.                                                               *)
(***************************************************************************)
EXTENDS Handlers

CONSTANTS
    Bosses,       \* users of role COMPANY, positive, and so the companies
    TransferTime  \* TRANSFER_TTL_DAYS

ASSUME CompaniesAssumption == Bosses \subseteq Nat \ {0} /\ TransferTime \in Nat

VARIABLES
    roles,     \* the CompanyMember table: roles[c][m] is "none" without a row
    transfers  \* the OwnershipTransfer table, in the order of insertion

companyVars == <<roles, transfers>>

Transfer == [company : Bosses, from : Bosses, to : Bosses, exp : Nat, status : {"pending", "accepted", "cancelled"}]

\* The program points of its handlers.
CompaniesPoints == {"supersede", "offer", "cancelWrite", "handOver", "insertMember", "deleteMember"}

CompaniesOK ==
    /\ roles \in [Bosses -> [Bosses -> {"none", "MEMBER", "BILLING", "OWNER"}]]
    /\ \A i \in DOMAIN transfers : transfers[i] \in Transfer

CompaniesInit ==
    /\ roles = [c \in Bosses |-> [m \in Bosses |-> "none"]]
    /\ transfers = <<>>

CompanyRows(m) == {c \in Bosses : roles[c][m] # "none"}

\* CompanyRoleGuard and resolveCompanyId read the same first row, in no given
\* order: the companies a user may act on as owner.
OwnedBy(m) == IF CompanyRows(m) = {} THEN {m} ELSE {c \in CompanyRows(m) : roles[c][m] = "OWNER"}
IsOwner(m) == OwnedBy(m) # {}

PendingOf(c) == {i \in DOMAIN transfers : transfers[i].company = c /\ transfers[i].status = "pending"}

-----------------------------------------------------------------------------

InitiateTransfer(w, o, m) ==
    /\ o # m
    /\ \E c \in OwnedBy(o) :
         /\ roles[c][m] # "none"
         /\ Call(w, "transfer", "supersede", [c |-> c, o |-> o, m |-> m])
    /\ UNCHANGED companyVars

Superseded(c) == PendingOf(c)

\* The pending transfer of the company is cancelled before the new one is made.
SupersedeTransfer(w) ==
    /\ Goto(w, "supersede", "offer")
    /\ transfers' = [i \in DOMAIN transfers |->
         IF i \in Superseded(Local(w).c) THEN [transfers[i] EXCEPT !.status = "cancelled"] ELSE transfers[i]]
    /\ UNCHANGED roles

\* A unique index admits one pending transfer of a company, expired or not.
CreateTransfer(w) ==
    LET v == Local(w)
    IN  /\ End(w, "offer")
        /\ transfers' = IF PendingOf(v.c) # {} THEN transfers
                        ELSE Append(transfers, [company |-> v.c, from |-> v.o, to |-> v.m,
                                                exp |-> now + TransferTime, status |-> "pending"])
        /\ UNCHANGED roles

\* The latest pending transfer that is addressed to the user, unless expired.
AcceptTransfer(w, m) ==
    LET mine == {i \in DOMAIN transfers : transfers[i].to = m /\ transfers[i].status = "pending"}
    IN  /\ mine # {} /\ transfers[Max(mine)].exp >= now
        /\ Call(w, "accept", "handOver", [i |-> Max(mine)])
        /\ UNCHANGED companyVars

HandedOverBug(t) == [roles[t.company] EXCEPT ![t.to] = "OWNER"]
HandedOver(t) == [roles[t.company] EXCEPT ![t.from] = "MEMBER", ![t.to] = "OWNER"]

\* One transaction, which does not look at the transfer again; it is rolled
\* back when the new owner has no row any more.
HandOver(w) ==
    LET i == Local(w).i
        t == transfers[i]
    IN  /\ End(w, "handOver")
        /\ IF roles[t.company][t.to] = "none" THEN UNCHANGED companyVars
           ELSE /\ transfers' = [transfers EXCEPT ![i].status = "accepted"]
                /\ roles' = [roles EXCEPT ![t.company] = HandedOver(t)]

CancelTransfer(w, o) ==
    /\ \E c \in OwnedBy(o) : \E i \in PendingOf(c) :
         transfers[i].from = o /\ Call(w, "cancel", "cancelWrite", [i |-> i])
    /\ UNCHANGED companyVars

\* The update does not ask whether the transfer is still pending: one that was
\* accepted in the meantime stays accepted, and is cancelled too.
CancelWrite(w) ==
    LET i == Local(w).i
    IN  /\ End(w, "cancelWrite")
        /\ transfers' = IF transfers[i].status = "accepted" THEN transfers
                        ELSE [transfers EXCEPT ![i].status = "cancelled"]
        /\ UNCHANGED roles

-----------------------------------------------------------------------------
(* Members: of the company that bears the caller's own id *)

AddMember(w, o, m, role) ==
    /\ IsOwner(o) /\ m # o /\ roles[o][m] = "none"
    /\ CallNoting(w, "member", "insertMember", [c |-> o, m |-> m, role |-> role],
                  IF role = "OWNER" THEN {"owner by hand"} ELSE {})
    /\ UNCHANGED companyVars

\* An identity provider's login: the user becomes a member, if he has no row.
\* The owner too, who has none: his own login makes him a member.
SsoLogin(w, c, m) ==
    /\ CallNoting(w, "sso", "insertMember", [c |-> c, m |-> m, role |-> "MEMBER"],
                  IF m = c THEN {"owner by SSO"} ELSE {})
    /\ UNCHANGED companyVars

\* The pair is unique: an insert raises, the login's upsert changes nothing.
InsertMember(w) ==
    LET v == Local(w)
    IN  /\ End(w, "insertMember")
        /\ roles' = IF roles[v.c][v.m] = "none" THEN [roles EXCEPT ![v.c][v.m] = v.role] ELSE roles
        /\ UNCHANGED transfers

\* The row of an owner, or of the founder who handed over, may go like another.
RemoveMember(w, o, m) ==
    /\ IsOwner(o) /\ roles[o][m] # "none"
    /\ CallNoting(w, "leave", "deleteMember", [c |-> o, m |-> m],
                  IF m = o \/ roles[o][m] = "OWNER" THEN {"owner removed"} ELSE {})
    /\ UNCHANGED companyVars

DeleteMember(w) ==
    /\ End(w, "deleteMember")
    /\ roles' = [roles EXCEPT ![Local(w).c][Local(w).m] = "none"]
    /\ UNCHANGED transfers

CompaniesNext ==
    \E w \in Workers :
      \/ \E o, m \in Bosses :
           \/ InitiateTransfer(w, o, m) \/ RemoveMember(w, o, m) \/ SsoLogin(w, o, m)
           \/ \E role \in {"MEMBER", "OWNER"} : AddMember(w, o, m, role)
      \/ \E m \in Bosses : AcceptTransfer(w, m) \/ CancelTransfer(w, m)
      \/ SupersedeTransfer(w) \/ CreateTransfer(w) \/ HandOver(w) \/ CancelWrite(w)
      \/ InsertMember(w) \/ DeleteMember(w)

-----------------------------------------------------------------------------

OwnersOf(c) == {m \in Bosses : roles[c][m] = "OWNER"} \cup (IF roles[c][c] = "none" THEN {c} ELSE {})

\* Through any sequence of transfers, cancellations, expiries and changes of the
\* other members, a company has exactly one owner, as long as no two of these
\* requests overlap and its owner is not added, removed or made a member by a
\* request other than a transfer.
OneOwner ==
    {"overlap", "owner by hand", "owner by SSO", "owner removed"} \cap upset = {} =>
        \A c \in Bosses : Cardinality(OwnersOf(c)) = 1
=============================================================================
