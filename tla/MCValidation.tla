---------------------------- MODULE MCValidation ----------------------------
(***************************************************************************)
(* Small instances of Validation for TLC: broad arguments and deep ones.   *)
(***************************************************************************)
EXTENDS Validation

CONSTANTS k1, k2, p1

MCKeys == {k1, k2}

MCPatterns == {p1}

Offending == [kind |-> "str", hits |-> MCPatterns]

\* A harmless string, an offending one, and a tuple that holds such a one.
MCLeaves == {[kind |-> "str", hits |-> {}], Offending,
             [kind |-> "other", items |-> <<Offending>>]}

\* Dictionaries and lists with at most n items.
FewItems(values, n) ==
    {[kind |-> "dict", items |-> s] :
         s \in {s \in BoundedSeq(MCKeys \X values, n) :
                   \A i, j \in DOMAIN s : s[i][1] = s[j][1] => i = j}}
    \cup {[kind |-> "list", items |-> s] : s \in BoundedSeq(values, n)}

Nested(values, n) == values \cup FewItems(values, n)

\* One level with two items, and up to two levels with one around it.
Broad  == Nested(MCLeaves, 2)
Deep   == Nested(Broad, 1)
Deeper == Nested(Deep, 1)

MCValues == Deeper

MCArguments ==
    {d \in FewItems(Broad, 2) \cup FewItems(Deeper, 1) : d.kind = "dict"}

\* One error, and one that is listed twice beside another.
MCErrorLists ==
    LET at(key) == [path |-> <<key>>, reason |-> "schema"]
    IN {<<at(k1)>>, <<at(k1), at(k2), at(k1)>>}

\* No value lies deeper.
MCPaths == BoundedSeq(MCKeys \cup {1, 2}, 4)
=============================================================================
