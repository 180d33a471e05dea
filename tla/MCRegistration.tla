---------------------------- MODULE MCRegistration ----------------------------
(* Small instances of Registration for TLC.                                *)
EXTENDS RegistrationDirectory, TLC

Symmetric == Permutations(Registrations) \cup Permutations(Clients)
             \cup Permutations(Emails) \cup Permutations(Names)

=============================================================================
