------------------------------ MODULE MCData ------------------------------
(* One instance of each of two parts of the tenant's data plane that share *)
(* no variable; part says which one a behaviour is about.                  *)
EXTENDS ModelRegistry, IncidentHistory, TLC

CONSTANTS m1, m2, m3, k1, k2, again, back, api1, api2, va, vb, ra, rb
VARIABLE part

\* vb followed va; m1 and its repetition m2 promote vb again, by one process
\* of the API, m3 rolls back, by another one.
MCKeyOf == (m1 :> k1) @@ (m2 :> k1) @@ (m3 :> k2)
MCBodyOf == (m1 :> again) @@ (m2 :> again) @@ (m3 :> back)
MCWanted == (again :> vb) @@ (back :> Rollback)
MCProcessOf == (m1 :> api1) @@ (m2 :> api1) @@ (m3 :> api2)
MCApprovals ==
  <<Approval(va, 1, NoVersion, NoRequest, 0), Approval(vb, 1, va, NoRequest, 0)>>

\* A line that is new, one that is no object, the first again, other content
\* under its identity, and an event dated after its receipt.
Line(object, id, body, occurred) ==
  [object |-> object, tenant |-> 1, category |-> 1, id |-> id, body |-> body,
   occurred |-> occurred, received |-> 0]
MCFeed == <<Line(TRUE, 1, 1, 0), Line(FALSE, 2, 1, 0), Line(TRUE, 1, 1, 0),
            Line(TRUE, 1, 2, 0), Line(TRUE, 3, 1, 1)>>

\* A request and its repetition, and runs, are interchangeable.
TwinSymmetry == Permutations({m1, m2}) \cup Permutations({ra, rb})

Init == part \in {"models", "history"} /\ RegistryInit /\ HistoryInit
Next ==
  \/ part = "models" /\ RegistryNext /\ UNCHANGED <<historyVars, part>>
  \/ part = "history" /\ HistoryNext /\ UNCHANGED <<idempotencyVars, registryVars, part>>
Spec == Init /\ [][Next]_<<idempotencyVars, registryVars, historyVars, part>>

(* The shape of the state of both parts.                                   *)
DataTypeOK == RegistryTypeOK /\ HistoryTypeOK

=============================================================================
