------------------------------ MODULE MCSessions ------------------------------
(* A small instance of Sessions for TLC: four requests at a time.          *)
EXTENDS Sessions

CONSTANTS r1, r2, r3, r4, a1, a2, x1, x2, m1, m2, p0, p1, p2

RegisteredP0 == [a \in Admins |-> p0]

\* What the operation does not use has any value.
Op(name) == [op |-> name, admin |-> a1, password |-> p0, new |-> p0,
             address |-> x1, message |-> m1, row |-> r1]

ByPassword(p)   == [Op("login") EXCEPT !.password = p]
Restore(p)      == [Op("restore") EXCEPT !.new = p]
Change(p, q)    == [Op("change") EXCEPT !.password = p, !.new = q]
Bind(a, m)      == [Op("bind") EXCEPT !.admin = a, !.message = m]
SignIn(m)       == [Op("wallet") EXCEPT !.message = m]
AddGeneral(a)   == [Op("addGeneral") EXCEPT !.admin = a]
UpdateGeneral1(x) == [Op("updateGeneral") EXCEPT !.address = x]

Together(A, B, C, D) ==
  {[r \in Requests |-> CASE r = r1 -> a [] r = r2 -> b [] r = r3 -> c [] r = r4 -> d]
     : a \in A, b \in B, c \in C, d \in D}

\* One administrator who signs in, out and in again, and changes passwords.
SessionCasts == Together({ByPassword(p0), Op("google")},
                         {ByPassword(p0), Op("letter"), Op("logout")},
                         {Change(p0, p1), Restore(p1), Op("letter"), Op("google")},
                         {Op("refresh"), ByPassword(p0), ByPassword(p1), Restore(p2),
                          Change(p0, p2), Op("logout")})

\* Wallets that are bound, used and unbound.
WalletCasts == Together({Bind(a1, m1)},
                        {Bind(a1, m1), Bind(a1, m2), Bind(a2, m1)},
                        {Op("delete"), SignIn(m1)},
                        {SignIn(m1), SignIn(m2), Op("refresh"), Op("logout")})

\* Wallets for invoices.
GeneralCasts == Together({AddGeneral(a1)}, {AddGeneral(a2)},
                         {UpdateGeneral1(x1), UpdateGeneral1(x2),
                          Op("deleteGeneral")},
                         {AddGeneral(a1)})

AllCasts == SessionCasts \cup WalletCasts \cup GeneralCasts

===============================================================================
