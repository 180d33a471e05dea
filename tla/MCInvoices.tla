------------------------------ MODULE MCInvoices ------------------------------
(* Small instances of Invoices for TLC.                                    *)
EXTENDS Invoices, TLC

Symmetric == Permutations(Drafts) \cup Permutations(Creations)
             \cup Permutations(Clients) \cup Permutations(Numbers)

=============================================================================
