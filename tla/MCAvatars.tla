------------------------------ MODULE MCAvatars ------------------------------
(* A small instance of Avatars for TLC: three requests at a time.          *)
EXTENDS Avatars

CONSTANTS r1, r2, r3, a1, e1, c1

Op(name, o, i, f) == [op |-> name, owner |-> o, image |-> i, foreign |-> f]

Edit(name, o)   == {Op(name, o, i, FALSE) : i \in {"file", "null", "keep"}}
Foreign(name, o) == Op(name, o, "file", TRUE)

AdminUpload    == {Op("uploadAdmin", a1, "file", FALSE)}
EmployeeUpload == {Op("uploadEmployee", e1, "file", FALSE)}
NewEmployee    == {Op("createEmployee", e1, "file", FALSE)}
NewClient      == {Op("createClient", c1, "file", FALSE)}
OffEmployee    == {Op("removeEmployee", e1, "keep", FALSE)}
OffClient      == {Op("removeClient", c1, "keep", FALSE)}

AllOrNone == {{}, Owners}

\* Three requests about one row, or one that creates it and two that use it.
Together(A, B, C) ==
  {[r \in Requests |-> CASE r = r1 -> a [] r = r2 -> b [] r = r3 -> c]
     : a \in A, b \in B, c \in C}

AllCasts ==
  Together(Edit("editAdmin", a1),
           {Op("editAdmin", a1, "keep", FALSE)} \cup AdminUpload, AdminUpload)
    \cup Together(EmployeeUpload \cup NewEmployee,
                  Edit("editEmployee", e1),
                  {Op("uploadEmployee", e1, "keep", FALSE)} \cup OffEmployee
                    \cup {Foreign("uploadEmployee", e1), Foreign("editEmployee", e1)})
    \cup Together(Edit("editClient", c1) \cup NewClient,
                  Edit("editClient", c1),
                  OffClient \cup {Foreign("editClient", c1)})

===============================================================================
