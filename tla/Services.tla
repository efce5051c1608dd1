------------------------------ MODULE Services ------------------------------
(***************************************************************************)
(* The services around engagements, milestones and disputes, side by side  *)
(* on one database and with one pool of workers: accounts, companies, the  *)
(* credit ledger, idempotency keys, notifications and webhooks, the        *)
(* deadlines of disputes, uploaded files and sponsored fees.  The          *)
(* operations of a behaviour are those of its scope; each part keeps to    *)
(* its own tables.                                                         *)
(***************************************************************************)
EXTENDS Accounts, Companies, CreditLedger, Idempotency, Deliveries, DisputeSla, Files, Sponsorship

serviceVars == <<control, accountVars, companyVars, ledger, idempotencyVars, deliveryVars, slaVars, fileVars, sponsorVars>>

Points ==
    AccountsPoints \cup CompaniesPoints \cup CreditPoints \cup IdempotencyPoints
    \cup DeliveriesPoints \cup SlaPoints \cup FilesPoints \cup SponsorPoints
\* What requests note besides failures and overlaps.
Irregularities == {"late", "removed", "twoSweeps", "owner by hand", "owner by SSO", "owner removed"}

ServicesTypeOK ==
    /\ ControlOK(Points, Irregularities)
    /\ AccountsOK /\ CompaniesOK /\ CreditOK /\ IdempotencyOK /\ DeliveriesOK
    /\ DisputeSlaOK /\ FilesOK /\ SponsorshipOK

Init ==
    /\ ControlInit /\ AccountsInit /\ CompaniesInit /\ CreditInit /\ IdempotencyInit
    /\ DeliveriesInit /\ DisputeSlaInit /\ FilesInit /\ SponsorshipInit

\* A part moves in the scopes that have an operation of it.
Serves(ops) == ops \cap scope.ops # {}

Next ==
    \/ /\ Serves({"register", "login", "google", "password", "email", "rebind", "engage", "deactivate", "totp",
                 "refresh", "logout", "invite", "join", "uninvite", "erase", "process", "anonymize", "retain"})
       /\ AccountsNext
       /\ UNCHANGED <<companyVars, ledger, idempotencyVars, deliveryVars, slaVars, fileVars, sponsorVars>>
    \/ /\ Serves({"member", "transfer", "accept", "cancel", "leave", "sso"})
       /\ CompaniesNext
       /\ UNCHANGED <<accountVars, ledger, idempotencyVars, deliveryVars, slaVars, fileVars, sponsorVars>>
    \/ /\ Serves({"entry", "fee"})
       /\ CreditNext
       /\ UNCHANGED <<accountVars, companyVars, idempotencyVars, deliveryVars, slaVars, fileVars, sponsorVars>>
    \/ /\ Serves({"post", "purgeKeys"})
       /\ IdempotencyNext
       /\ UNCHANGED <<accountVars, companyVars, ledger, deliveryVars, slaVars, fileVars, sponsorVars>>
    \/ /\ Serves({"notify", "dispatch", "job", "resend", "replay", "remove"})
       /\ DeliveriesNext
       /\ UNCHANGED <<accountVars, companyVars, ledger, idempotencyVars, slaVars, fileVars, sponsorVars>>
    \/ /\ Serves({"open", "decide", "appeal", "sla", "evidence"})
       /\ DisputeSlaNext
       /\ UNCHANGED <<accountVars, companyVars, ledger, idempotencyVars, deliveryVars, fileVars, sponsorVars>>
    \/ /\ Serves({"evidenceFile", "messageFile", "kycFile", "avatarFile", "avatarUrl",
                 "review", "scan", "sweep", "cleanup"})
       /\ FilesNext
       /\ UNCHANGED <<accountVars, companyVars, ledger, idempotencyVars, deliveryVars, slaVars, sponsorVars>>
    \/ /\ Serves({"sponsor"})
       /\ SponsorshipNext
       /\ UNCHANGED <<accountVars, companyVars, ledger, idempotencyVars, deliveryVars, slaVars, fileVars>>
    \/ /\ (\E w \in Workers : Crash(w)) \/ (\E t \in scope.times : Later(t))
       /\ UNCHANGED <<accountVars, companyVars, ledger, idempotencyVars, deliveryVars, slaVars, fileVars, sponsorVars>>

Spec == Init /\ [][Next]_serviceVars
=============================================================================
