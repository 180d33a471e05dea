------------------------- MODULE RegistrationDirectory -------------------------
(* Registration keeps the directory that Directory specifies.              *)
EXTENDS Registration

\* The refinement mapping: the tables as they are, and the answer, which is
\* settled as soon as the catch begins.
Answer(r) == IF pc[r] = "created" THEN "yes"
             ELSE IF pc[r] \in Answers \cup {"rollback"} THEN "over"
             ELSE "none"

Book == INSTANCE Directory WITH
          names  <- {<<o.company_name, o.by>> : o \in organizations},
          admins <- {<<a.email, a.organization_id>> : a \in administrators},
          answer <- [r \in Registrations |-> Answer(r)]

\* Although the look-ups lock nothing and the transaction covers no statement,
\* every step of the tables and answers is one of the directory: a name is taken
\* once and by a registration on its way, an administrator comes only to the
\* organization of the same registration, 201 is the answer only when both are
\* there, and what a failed registration leaves is never changed again.
DirectorySpec == Book!Spec

=============================================================================
