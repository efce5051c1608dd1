---------------------------- MODULE Idempotency ----------------------------
(***************************************************************************)
(* The interceptor that answers a repeated POST with the first answer: it  *)
(* looks the key up, runs the handler on a miss and stores the answer      *)
(* afterwards, without making the client wait for it.  Its keys, of one    *)
(* user, are positive; the answers themselves are left out.                *)
(***************************************************************************)
EXTENDS Handlers

CONSTANTS
    PostKeys,  \* values of the Idempotency-Key header
    KeyTime    \* IDEMPOTENCY_KEY_TTL_MS

ASSUME IdempotencyAssumption == KeyTime \in Nat

VARIABLES
    expiry,  \* of the stored answer to each key, 0 without one
    ran      \* history: when the handler ran for each key

idempotencyVars == <<expiry, ran>>
\* The program points of its handlers.
IdempotencyPoints == {"handle", "store", "purgeKeys"}

IdempotencyOK == expiry \in [PostKeys -> Nat] /\ ran \in [PostKeys -> Seq(Nat)]
IdempotencyInit == expiry = [k \in PostKeys |-> 0] /\ ran = [k \in PostKeys |-> <<>>]

\* checkAndReturn finds no answer, or one that expired.
Post(w, k) ==
    /\ expiry[k] <= now
    /\ Call(w, "post", "handle", [k |-> k])
    /\ UNCHANGED idempotencyVars

\* The handler; it may also raise, after what it did, and then nothing is stored.
Handle(w) ==
    LET k == Local(w).k
    IN  /\ Goto(w, "handle", "store") \/ FailTo(w, "handle", "raised", Idle)
        /\ ran' = [ran EXCEPT ![k] = Append(@, now)]
        /\ UNCHANGED expiry

StoredBug(k) == IF expiry[k] = 0 THEN now + KeyTime ELSE expiry[k]
Stored(k) == now + KeyTime

\* An upsert; its failure is logged, the answer is given all the same.
StoreAnswer(w) ==
    LET k == Local(w).k
    IN  /\ \/ End(w, "store") /\ expiry' = [expiry EXCEPT ![k] = Stored(k)]
           \/ FailTo(w, "store", "rpc", Idle) /\ UNCHANGED expiry
        /\ UNCHANGED ran

\* The retention job deletes the expired answers.
PurgeKeys(w) ==
    /\ Call(w, "purgeKeys", "purgeKeys", <<>>)
    /\ UNCHANGED idempotencyVars

DeleteKeys(w) ==
    /\ End(w, "purgeKeys")
    /\ expiry' = [k \in PostKeys |-> IF expiry[k] < now THEN 0 ELSE expiry[k]]
    /\ UNCHANGED ran

IdempotencyNext ==
    \E w \in Workers :
      \/ \E k \in PostKeys : Post(w, k)
      \/ Handle(w) \/ StoreAnswer(w) \/ PurgeKeys(w) \/ DeleteKeys(w)

-----------------------------------------------------------------------------

\* A key's handler does not run twice within the life of an answer, unless two
\* requests were in flight at once, the handler raised or crashed, or its
\* answer could not be stored.
OncePerKey ==
    {"overlap", "raised", "crash", "rpc"} \cap upset = {} =>
        \A k \in PostKeys : \A i, j \in DOMAIN ran[k] : i < j => ran[k][j] - ran[k][i] >= KeyTime
=============================================================================
