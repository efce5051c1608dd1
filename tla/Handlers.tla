----------------------------- MODULE Handlers -----------------------------
(***************************************************************************)
(* What the service modules share: requests, jobs and queue consumers of   *)
(* one backend that run side by side on one database.  A worker runs one   *)
(* handler at a time, and one step of a handler is one database statement, *)
(* one transaction or one call of another system; what the handler knows   *)
(* between two steps is in its locals.  The interleaving is Node's.        *)
(*                                                                         *)
(* An operator whose name ends in Bug, in any module of this project, is a *)
(* wrong variant of the definition after it; no specification uses it.     *)
(***************************************************************************)
EXTENDS Integers, FiniteSets, Sequences, FiniteSetsExt, SequencesExt

CONSTANTS
    Workers,   \* requests, cron ticks and queue consumers in flight
    MaxFaults, \* bound: number of failures
    Scopes     \* bound: part, operations, failures, calls and instants of a behaviour

ASSUME HandlersAssumption ==
    /\ MaxFaults \in Nat /\ IsFiniteSet(Workers)
    /\ \A s \in Scopes : s.calls \in Nat /\ s.times \subseteq Nat \ {0}

VARIABLES
    req,    \* what each worker is doing: its next step, its operation, its locals
    now, calls, faults,
    scope,  \* the scope of this behaviour
    upset   \* history: the irregularities that happened so far

control == <<req, now, calls, faults, scope, upset>>
Idle == [pc |-> "idle", op |-> "none", v |-> <<>>]

\* `points' are the program points of all handlers, `notes' what they may note.
ControlOK(points, notes) ==
    /\ \A w \in Workers : req[w].pc \in {"idle"} \cup points /\ req[w].op \in {"none"} \cup scope.ops
    /\ now \in Nat /\ calls \in 0..scope.calls /\ faults \in 0..MaxFaults
    /\ scope \in Scopes /\ upset \subseteq {"overlap"} \cup scope.faults \cup points \cup notes

ControlInit ==
    /\ scope \in Scopes
    /\ req = [w \in Workers |-> Idle]
    /\ now = 1 /\ calls = 0 /\ faults = 0 /\ upset = {}

At(w, pc) == req[w].pc = pc
Local(w) == req[w].v
Quiet == \A w \in Workers : At(w, "idle")
Running(op) == \E w \in Workers : req[w].op = op

\* A worker takes up an operation, within the operations and calls of the scope.
CallNoting(w, op, pc, v, what) ==
    /\ op \in scope.ops /\ calls < scope.calls /\ calls' = calls + 1
    /\ At(w, "idle") /\ req' = [req EXCEPT ![w] = [pc |-> pc, op |-> op, v |-> v]]
    /\ upset' = upset \cup what \cup (IF Quiet THEN {} ELSE {"overlap"})
    /\ UNCHANGED <<now, faults, scope>>
Call(w, op, pc, v) == CallNoting(w, op, pc, v, {})

\* Its next step: from one program point to another, or to the end.
Become(w, from, r) ==
    /\ At(w, from) /\ req' = [req EXCEPT ![w] = r]
    /\ UNCHANGED <<now, calls, faults, scope, upset>>
Goto(w, from, to) == Become(w, from, [req[w] EXCEPT !.pc = to])
GotoWith(w, from, to, v) == Become(w, from, [req[w] EXCEPT !.pc = to, !.v = v])
End(w, from) == Become(w, from, Idle)

\* A statement or a call fails and the handler goes on elsewhere.
MayFail(kind) == kind \in scope.faults /\ faults < MaxFaults
FailTo(w, from, kind, r) ==
    /\ At(w, from) /\ MayFail(kind) /\ faults' = faults + 1
    /\ req' = [req EXCEPT ![w] = r] /\ upset' = upset \cup {kind}
    /\ UNCHANGED <<now, calls, scope>>

\* The process stops before a step of the handler, which is noted.
Crash(w) ==
    /\ ~At(w, "idle") /\ MayFail("crash") /\ faults' = faults + 1
    /\ req' = [req EXCEPT ![w] = Idle] /\ upset' = upset \cup {"crash", req[w].pc}
    /\ UNCHANGED <<now, calls, scope>>

\* BullMQ's maxStalledCount, which no queue here sets: how often a job whose worker
\* died is handed out again before it is failed.
MaxStalled == 1

\* Time passes between requests, which take moments where the deadlines take days.
Later(t) ==
    /\ Quiet /\ t > now /\ now' = t
    /\ UNCHANGED <<req, calls, faults, scope, upset>>
=============================================================================
