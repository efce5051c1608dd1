---------------------------- MODULE MCServices ----------------------------
(***************************************************************************)
(* The instance of Services that TLC checks.  Every scope is a small world *)
(* of its own: which operations run, how many calls they are, what fails,  *)
(* to which instants the clock moves and who is registered at the start.   *)
(***************************************************************************)
EXTENDS Services

S(o, c, f, t, k) == [ops |-> o, calls |-> c, faults |-> f, times |-> t, known |-> k]

MCScopes == {
  S({"register", "login", "google"}, 3, {"crash"}, {}, {}),
  S({"login", "google"}, 3, {"crash"}, {}, {1}),
  S({"login", "password", "deactivate", "totp"}, 5, {}, {3}, {1}),
  S({"login", "refresh", "logout", "retain"}, 5, {"rpc"}, {3}, {1}),
  S({"email", "rebind", "engage"}, 4, {}, {3}, {1, 2}),
  S({"register", "invite", "join", "uninvite"}, 5, {}, {3}, {1}),
  S({"email", "totp", "erase", "anonymize"}, 4, {"rpc"}, {4}, {1, 2}),
  S({"login", "erase", "anonymize", "refresh"}, 5, {}, {2, 4}, {1}),
  S({"erase", "process", "retain"}, 4, {}, {4}, {1, 2}),
  S({"member", "transfer", "accept", "cancel"}, 4, {}, {4}, {}),
  S({"member", "transfer", "accept", "leave"}, 4, {}, {}, {}),
  S({"member", "transfer", "sso"}, 3, {"crash"}, {}, {}),
  S({"member", "transfer", "accept"}, 5, {}, {}, {}),
  S({"entry", "fee"}, 4, {"crash"}, {}, {}),
  S({"post", "purgeKeys"}, 4, {"raised", "crash", "rpc"}, {2, 3, 4}, {}),
  S({"notify", "job"}, 3, {"crash", "rpc"}, {3}, {}),
  S({"dispatch", "job", "remove"}, 6, {"crash", "rpc", "db"}, {}, {}),
  S({"dispatch", "job", "resend", "replay"}, 7, {"rpc"}, {}, {}),
  S({"open", "decide", "appeal", "sla"}, 6, {"crash"}, {2, 3}, {}),
  S({"open", "decide", "evidence"}, 4, {"crash"}, {2}, {}),
  S({"evidenceFile", "kycFile", "review", "cleanup"}, 4, {"db", "rpc"}, {3}, {}),
  S({"avatarFile", "avatarUrl", "cleanup"}, 4, {"crash"}, {3}, {}),
  S({"evidenceFile", "messageFile", "scan", "sweep"}, 4, {"rpc"}, {3}, {}),
  S({"evidenceFile", "scan", "sweep"}, 4, {"crash", "rpc"}, {3}, {}),
  S({"evidenceFile", "scan", "cleanup"}, 4, {"crash"}, {3}, {}),
  S({"sponsor"}, 5, {"timeout", "db"}, {2}, {}),
  S({"sponsor"}, 4, {"crash"}, {2}, {})}
MCAmounts == {3, -1}
MCUploads == ({"evidenceFile", "avatarFile"} \X {1, 2}) \cup ({"messageFile", "kycFile"} \X {1})
MCInfected == {<<"evidenceFile", 1>>}
WorkerSymmetry == Permutations(Workers)
=============================================================================
