------------------------------ MODULE Directory ------------------------------
(***************************************************************************)
(* What registration promises, without awaits, clients or look-ups: a      *)
(* registration takes the name of its company, then the e-mail of its      *)
(* administrator, then it is confirmed.  It may end at any time before.    *)
(* Nothing is ever given back: a registration that has ended with a name   *)
(* and no administrator keeps the name for ever, and one that has ended    *)
(* with both is in the directory, although nobody was told so.             *)
(***************************************************************************)
CONSTANT Registrations

VARIABLES
  body,    \* what each registration asks for
  names,   \* pairs: the name of a company and whose it is
  admins,  \* pairs: the e-mail of an administrator and whose it is
  answer   \* "none" yet, "yes", or "over": any other, or none ever

vars == <<body, names, admins, answer>>

Init == /\ names = {} /\ admins = {}
        /\ answer = [r \in Registrations |-> "none"]

Has(table, r)    == \E pair \in table : pair[2] = r
Taken(table, x)  == \E pair \in table : pair[1] = x

Claim(r) ==
  LET name == body[r].company_name IN
  /\ answer[r] = "none"
  /\ ~ Has(names, r) /\ ~ Taken(names, name)
  /\ names' = names \cup {<<name, r>>}
  /\ UNCHANGED <<body, admins, answer>>

Appoint(r) ==
  LET email == body[r].email IN
  /\ answer[r] = "none"
  /\ Has(names, r) /\ ~ Has(admins, r) /\ ~ Taken(admins, email)
  /\ admins' = admins \cup {<<email, r>>}
  /\ UNCHANGED <<body, names, answer>>

Confirm(r) ==
  /\ answer[r] = "none"
  /\ Has(names, r) /\ Has(admins, r)
  /\ answer' = [answer EXCEPT ![r] = "yes"]
  /\ UNCHANGED <<body, names, admins>>

\* A refusal, an error, or a restart that ends several.
End(ended) ==
  /\ \A r \in ended : answer[r] = "none"
  /\ answer' = [r \in Registrations |->
                  IF r \in ended THEN "over" ELSE answer[r]]
  /\ UNCHANGED <<body, names, admins>>

Next == \/ \E r \in Registrations : Claim(r) \/ Appoint(r) \/ Confirm(r)
        \/ \E ended \in SUBSET Registrations : End(ended)

Spec == Init /\ [][Next]_vars

=============================================================================
