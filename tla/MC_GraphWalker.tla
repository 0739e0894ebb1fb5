--------------------------- MODULE MC_GraphWalker ---------------------------
(* A small instance of the graph walker: documents, folders and users,    *)
(* two ids, the relations "r" (read) and "m" (member), and candidate      *)
(* tuples that make direct grants, subject sets, same-relation follows,   *)
(* cycles, a self-loop, a chain longer than the depth bound, and a subject *)
(* of another type with the requester's id.                                *)
EXTENDS GraphWalker

D == <<"d">>   F == <<"f">>   U == <<"u">>
I1 == <<"1">>  I2 == <<"2">>
R == <<"r">>   M == <<"m">>

MCChars == {"d", "f", "u", "1", "2", "r", "m", ":", "#"}
MCTypes == {D, F, U}
MCIds == {I1, I2}
MCRels == {R, M}

Tup(ot, oi, rel, st, si, sr) ==
    [objectType |-> ot, objectID |-> oi, relation |-> rel,
     subjectType |-> st, subjectID |-> si, subjectRelation |-> sr]

MCUniverse == {
    Tup(D, I1, R, U, I1, Empty),   \* d1#r@u1      direct grant
    Tup(D, I1, R, F, I1, R),       \* d1#r@f1#r    subject set
    Tup(F, I1, R, U, I1, Empty),   \* f1#r@u1
    Tup(F, I1, M, U, I1, Empty),   \* f1#m@u1      other relation
    Tup(D, I1, R, F, I2, Empty),   \* d1#r@f2      same-relation follow
    Tup(D, I1, R, F, I1, Empty),   \* d1#r@f1      second way to f1#r
    Tup(F, I2, R, F, I1, R),       \* f2#r@f1#r    chain of three
    Tup(F, I1, R, D, I1, R),       \* f1#r@d1#r    cycle back to the root
    Tup(F, I2, R, F, I2, R),       \* f2#r@f2#r    self-loop
    Tup(D, I1, R, F, I1, M),       \* d1#r@f1#m    subject set on "m"
    Tup(D, I1, R, U, I2, Empty)    \* d1#r@u2      another user
}

MCReq == [subjectKind |-> U, subjectID |-> I1, action |-> R,
          resourceType |-> D, resourceID |-> I1]
=============================================================================
