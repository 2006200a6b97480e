------------------------------- MODULE MCApi -------------------------------
(* One instance of each of two parts of the API that share no variable;    *)
(* part says which one a behaviour is about.                               *)
EXTENDS CandidateReview, ResponseContacts, TLC

CONSTANTS r1, r2, r3, r4, k1, k2, yes, no,
          p1, s1, p2, n1, n2, unlisted, i1, i2, anna, ben, carl
VARIABLE part

\* r1, r2: a review and its repetition; r3: another decision with their key;
\* r4: another reviewer's.
MCKeyOf == (r1 :> k1) @@ (r2 :> k1) @@ (r3 :> k1) @@ (r4 :> k2)
MCBodyOf == (r1 :> yes) @@ (r2 :> yes) @@ (r3 :> no) @@ (r4 :> no)
MCDecision == (yes :> "confirmed") @@ (no :> "rejected")

Entry(there, role) ==
  [there |-> there, role |-> role, enabled |-> there, opted |-> there, mask |-> n1]
MCDirectory == (p1 :> Entry(TRUE, "primary")) @@ (s1 :> Entry(TRUE, "supervisor"))
               @@ (p2 :> Entry(FALSE, "primary"))
MCKeyFor == (anna :> k1) @@ (ben :> k1) @@ (carl :> k2)
Asks(op, contact, role, number, enabled, opted) ==
  [op |-> op, contact |-> contact, role |-> role, number |-> number,
   enabled |-> enabled, opted |-> opted]
\* p2 would be a second primary; p1 changes number, leaves, comes back, is
\* disabled, changes role (there is a supervisor), is deleted.
MCChanges ==
  {Asks("create", p2, "primary", n2, TRUE, TRUE),
   Asks("create", p2, "primary", unlisted, TRUE, TRUE),
   Asks("patch", p1, Keep, n2, Keep, Keep), Asks("patch", p1, Keep, unlisted, Keep, FALSE),
   Asks("patch", p1, Keep, unlisted, Keep, Keep),
   Asks("patch", p1, Keep, Keep, Keep, FALSE), Asks("patch", p1, Keep, Keep, Keep, TRUE),
   Asks("patch", p1, Keep, Keep, FALSE, Keep), Asks("patch", p1, "supervisor", n2, Keep, Keep),
   Asks("delete", p1, Keep, Keep, Keep, Keep),
   [op |-> "authorize", incident |-> i1], [op |-> "authorize", incident |-> i2]}

\* Requests that ask for the same are interchangeable.
TwinSymmetry == Permutations({r1, r2}) \cup Permutations({anna, ben})

Init == part \in {"review", "contacts"} /\ ReviewInit /\ ContactInit
Next ==
  \/ part = "review" /\ ReviewNext /\ UNCHANGED <<contactVars, part>>
  \/ part = "contacts" /\ ContactNext /\ UNCHANGED <<allVars, part>>
Spec == Init /\ [][Next]_<<allVars, contactVars, part>>

(* The shape of the state of both parts.                                   *)
ApiTypeOK == ReviewTypeOK /\ ContactTypeOK

=============================================================================
